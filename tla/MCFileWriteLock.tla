--------------------------- MODULE MCFileWriteLock ---------------------------
(* Three calls over two files, each under one key.                             *)
EXTENDS FileWriteLock

MCPaths == {"a.md", "b.md"}
MCKeys == {"keyA", "keyB"}
MCFiles == {"fileA", "fileB"}
MCLockKey == [p \in MCPaths |-> IF p = "a.md" THEN "keyA" ELSE "keyB"]
MCFileOf == [p \in MCPaths |-> IF p = "a.md" THEN "fileA" ELSE "fileB"]
=============================================================================
