--------------------------- MODULE MCVaultWatcher ---------------------------
(* VaultWatcher for TLC: one note and one other file.                          *)
EXTENDS VaultWatcher

CONSTANTS note, file

MCPaths == {note, file}
MCNotes == {note}
=============================================================================
