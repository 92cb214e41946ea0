-------------------------- MODULE NoteMoverProofs --------------------------
(* Theorems about NoteMover: type correctness; that a move never loses the      *)
(* note, never replaces a file of the host's and writes no note when it says that *)
(* it wrote nothing; that a move that ends well leaves no link at the old path  *)
(* that it could have found; and that it keeps the patches made beside it.      *)
EXTENDS NoteMover, SequenceTheorems, WellFoundedInduction, TLAPS

IsMovedNote(c) == c /= Absent /\ c.of = "moved"

\* What the old path holds is the note; the new path may hold a file of the host's
\* or a placeholder, but never one of the sources.
PathsHold ==
    /\ \A s \in Sources : files[s] /= Absent
    /\ files[Old] /= Absent => files[Old].of = "moved"
    /\ files[New] /= Absent => files[New].of /= "source"
    /\ patch /= Nobody /\ patch.path \in {Old, New} => patch.read.of = "moved"

\* What is about to be written was planned, and the plan of the moved note is the
\* note.
WritesArePlanned ==
    /\ \A s \in mv.toWrite \union mv.inFlight : mv.plan[s] /= Absent
    /\ mv.inFlight /= {} => mv.stage = "writing"
    /\ mv.stage \in {"locking", "scan", "check", "preflight"} => mv.toWrite = {}
    /\ mv.stage = "preflight" => Old \in mv.toRead \/ IsMovedNote(mv.plan[Old])
    /\ mv.stage \in {"destination", "reserved", "renamed"} => IsMovedNote(mv.plan[Old])

\* Where the note is at each stage: at the old path until the new one is written,
\* then at the new one until the move is over.
NoteIsAt ==
    /\ NoteIsNeverLost
    /\ mv.stage \in {"preflight", "destination", "reserved"} => files[Old] /= Absent
    /\ mv.stage = "reserved" => files[New] /= Absent /\ files[New].of /= "host"
    /\ mv.stage \in {"renamed", "writing", "unlink"} => IsMovedNote(files[New])

\* Nothing is written before the destination, where a reservation is an empty file;
\* what a reservation leaves behind is not the note, and is not patched.
NothingWritten ==
    /\ mv.stage \in {"locking", "scan", "check", "preflight", "destination"} => wrote = {}
    /\ mv.stage = "reserved" =>
           wrote = {New} /\ ~caseOnly /\ ~hardLinks /\ files[New] = Empty
    /\ AbortedMovesWroteNoNote
    /\ mv.stage = "aborted" /\ wrote /= {} => patch = Nobody \/ patch.path /= New

\* Nobody patches the two paths of a move that has its locks.
PathsAreLocked ==
    mv.stage \notin Done \union {"locking"} => patch = Nobody \/ patch.path \notin {Old, New}

MoveInvariant ==
    TypeOK /\ PathsHold /\ WritesArePlanned /\ NoteIsAt /\ NothingWritten /\ PathsAreLocked
    /\ ~replaced
-----------------------------------------------------------------------------
(* Type correctness                                                            *)

\* The move's resting record has the type.
LEMMA NoMoveType == NoMove \in MoveType
  BY BoundsAssumption DEF NoMove, NoPlan, MoveType, Stages, Done

\* What a file turns into is content.
LEMMA ContentMakers ==
    /\ Empty \in Content /\ HostFile \in Content
    /\ \A c \in Content : Rewritten(c) \in Content /\ Rewritten(c).of = c.of
    /\ \A r \in PatchType :
           /\ [r.read EXCEPT !.edits = @ \union {r.patch}, !.link = r.link] \in Content
           /\ [r.read EXCEPT !.edits = @ \union {r.patch}, !.link = r.link].of = r.read.of
<1>1. Empty \in Content /\ HostFile \in Content
  BY DEF Empty, HostFile, Content
<1>2. ASSUME NEW c \in Content PROVE Rewritten(c) \in Content /\ Rewritten(c).of = c.of
  BY DEF Rewritten, Content
<1>3. ASSUME NEW r \in PatchType
      PROVE  /\ [r.read EXCEPT !.edits = @ \union {r.patch}, !.link = r.link] \in Content
             /\ [r.read EXCEPT !.edits = @ \union {r.patch}, !.link = r.link].of = r.read.of
  BY DEF PatchType, Content
<1> QED BY <1>1, <1>2, <1>3

\* Ending a move keeps its record and the late writes typed, if what it was writing
\* was planned.
LEMMA EndTyped ==
    ASSUME TypeOK, NEW r \in Done, NEW w \in SUBSET Sources,
           \A s \in w : mv.plan[s] /= Absent, End(r, w)
    PROVE  mv' \in MoveType /\ late' \subseteq [path : Sources, content : Content]
<1>1. mv' \in MoveType
  BY NoMoveType DEF End, MoveType, Stages
<1>2. \A s \in w : mv.plan[s] \in Content
  BY DEF TypeOK, MoveType
<1> QED BY <1>1, <1>2 DEF End, TypeOK

\* The initial states are typed.
LEMMA InitType == Init => TypeOK
<1> SUFFICES ASSUME Init PROVE TypeOK
  OBVIOUS
<1>1. PICK links \in [Sources \union {Old} -> {"old", "none"}] :
        files = [p \in Paths |->
                    IF p = New THEN Absent
                    ELSE [of |-> IF p = Old THEN "moved" ELSE "source",
                          link |-> links[p], edits |-> {}]]
  BY DEF Init
<1>2. files \in [Paths -> Content \union {Absent}]
  BY <1>1 DEF Paths, Content
<1> QED BY <1>2, NoMoveType DEF Init, TypeOK

\* Typing of the locks and the scan.
LEMMA VerifyType == TypeOK /\ Verify => TypeOK'
<1> SUFFICES ASSUME TypeOK, Verify PROVE TypeOK'
  OBVIOUS
<1> USE DEF TypeOK, MoveType, Stages, Done, Paths, setting, patchVars, history
<1>1. ASSUME NEW indexed \in SUBSET Sources, CallMove(indexed) PROVE TypeOK'
  BY <1>1, NoMoveType DEF CallMove
<1>2. CASE Lock
  BY <1>2 DEF Lock
<1>3. CASE Rejected
  BY <1>3, EndTyped DEF Rejected, Aborts
<1>4. ASSUME NEW s \in Sources, ScanNote(s) PROVE TypeOK'
  BY <1>4 DEF ScanNote
<1>5. ASSUME NEW s \in Sources, ScanSkips(s) PROVE TypeOK'
  BY <1>5 DEF ScanSkips
<1>6. CASE ScanFindsNone
  BY <1>6 DEF ScanFindsNone
<1>7. CASE ScanWidens
  <2>1. mv.attempt + 1 \in 0 .. MaxRetries
    BY <1>7, BoundsAssumption DEF ScanWidens
  <2> QED
    BY <1>7, <2>1 DEF ScanWidens
<1>8. CASE ScanGivesUp
  BY <1>8, EndTyped DEF ScanGivesUp, Aborts
<1> QED
  BY <1>1, <1>2, <1>3, <1>4, <1>5, <1>6, <1>7, <1>8 DEF Verify

\* Typing of the preflight.
LEMMA PreflightType == TypeOK /\ PathsHold /\ NoteIsAt /\ Preflight => TypeOK'
<1> SUFFICES ASSUME TypeOK, PathsHold, NoteIsAt, Preflight PROVE TypeOK'
  OBVIOUS
<1> USE DEF TypeOK, MoveType, Stages, Done, Paths, setting, patchVars, history
<1>1. CASE CheckPaths
  BY <1>1 DEF CheckPaths
<1>2. CASE CheckFails
  BY <1>2, EndTyped DEF CheckFails, Aborts
<1>3. ASSUME NEW p \in Sources \union {Old}, PlanFile(p) PROVE TypeOK'
  <2>1. files[p] \in Content
    BY <1>3 DEF PlanFile, PathsHold, NoteIsAt
  <2>2. mv' \in MoveType
    BY <1>3, <2>1, ContentMakers DEF PlanFile
  <2> QED
    BY <1>3, <2>2 DEF PlanFile
<1>4. CASE PlanFails
  BY <1>4, EndTyped DEF PlanFails, Aborts
<1>5. CASE PreflightEnds
  BY <1>5 DEF PreflightEnds
<1> QED
  BY <1>1, <1>2, <1>3, <1>4, <1>5 DEF Preflight

\* Putting content at a path keeps the types.
LEMMA PutsTyped ==
    ASSUME TypeOK, NEW p \in Paths, NEW c \in Content, NEW next \in Stages, Puts(p, c, next)
    PROVE  TypeOK'
<1>1. files' \in [Paths -> Content \union {Absent}]
  BY DEF Puts, TypeOK
<1>2. mv' \in MoveType
  BY DEF Puts, TypeOK, MoveType
<1>3. wrote' \subseteq Paths /\ replaced' \in BOOLEAN
  BY DEF Puts, Replaces, TypeOK
<1> QED BY <1>1, <1>2, <1>3 DEF Puts, TypeOK, setting, patchVars

\* Typing of the writes.
LEMMA CommitType == TypeOK /\ PathsHold /\ WritesArePlanned /\ Commit => TypeOK'
<1> SUFFICES ASSUME TypeOK, PathsHold, WritesArePlanned, Commit PROVE TypeOK'
  OBVIOUS
<1> USE DEF TypeOK, MoveType, Stages, Done, Paths, setting, patchVars, history
<1>1. CASE LinkDestination
  BY <1>1, PutsTyped DEF LinkDestination, WritesArePlanned, IsMovedNote
<1>2. CASE ReserveDestination
  BY <1>2, PutsTyped, ContentMakers DEF ReserveDestination
<1>3. CASE SwapDestination
  BY <1>3, PutsTyped DEF SwapDestination, WritesArePlanned, IsMovedNote
<1>4. CASE SwapFails
  BY <1>4, EndTyped DEF SwapFails
<1>5. CASE RenameInPlace
  BY <1>5 DEF RenameInPlace
<1>6. CASE RewriteRenamed
  BY <1>6, PutsTyped DEF RewriteRenamed, WritesArePlanned, IsMovedNote
<1>7. CASE RewriteFails
  BY <1>7, EndTyped DEF RewriteFails
<1>8. CASE DestinationFails
  BY <1>8, EndTyped DEF DestinationFails, Aborts
<1>9. ASSUME NEW b \in SUBSET Sources, StartBatch(b) PROVE TypeOK'
  BY <1>9 DEF StartBatch
<1>10. ASSUME NEW s \in Sources, WriteSource(s) PROVE TypeOK'
  BY <1>10 DEF WriteSource, WritesArePlanned
<1>11. ASSUME NEW s \in Sources, WriteFails(s) PROVE TypeOK'
  BY <1>11, EndTyped DEF WriteFails, WritesArePlanned
<1>12. ASSUME NEW w \in late, LateWrite(w) PROVE TypeOK'
  <2>1. w \in [path : Sources, content : Content]
    OBVIOUS
  <2>2. files' \in [Paths -> Content \union {Absent}]
    BY <1>12, <2>1 DEF LateWrite
  <2>3. files[w.path] \in Content
    BY <2>1 DEF PathsHold
  <2>4. overrun' \subseteq Patches
    BY <1>12, <2>3 DEF LateWrite, Content
  <2> QED
    BY <1>12, <2>2, <2>4 DEF LateWrite
<1>13. ASSUME NEW w \in late, LateFailure(w) PROVE TypeOK'
  BY <1>13 DEF LateFailure
<1>14. CASE WritesEnd
  BY <1>14, EndTyped DEF WritesEnd
<1>15. CASE UnlinkOld
  BY <1>15, EndTyped DEF UnlinkOld
<1>16. CASE UnlinkFails
  BY <1>16, EndTyped DEF UnlinkFails
<1> QED
  BY <1>1, <1>2, <1>3, <1>4, <1>5, <1>6, <1>7, <1>8, <1>9, <1>10, <1>11, <1>12, <1>13, <1>14,
     <1>15, <1>16
     DEF Commit

\* Typing of patches, the host, the user and crashes.
LEMMA OthersType == TypeOK /\ (Others \/ Crash) => TypeOK'
<1> SUFFICES ASSUME TypeOK, Others \/ Crash PROVE TypeOK'
  OBVIOUS
<1> USE DEF TypeOK, MoveType, Stages, Done, Paths, setting, patchVars, history
<1>1. ASSUME NEW q \in Patches, NEW p \in Paths,
             NEW link \in BOOLEAN, PatchStarts(q, p, link)
      PROVE  TypeOK'
  BY <1>1, AbsentAssumption DEF PatchStarts, PatchType, Content
<1>2. CASE PatchWrites
  BY <1>2, ContentMakers DEF PatchWrites, PatchType
<1>3. CASE HostCreates
  BY <1>3, ContentMakers DEF HostCreates
<1>4. CASE UserDeletesNew
  BY <1>4 DEF UserDeletesNew, UserDeletes
<1>5. CASE UserDeletesOld
  BY <1>5 DEF UserDeletesOld, UserDeletes
<1>6. CASE Crash
  BY <1>6, NoMoveType DEF Crash
<1> QED
  BY <1>1, <1>2, <1>3, <1>4, <1>5, <1>6 DEF Others


-----------------------------------------------------------------------------
(* The invariant is kept                                                       *)

Kept ==
    PathsHold /\ WritesArePlanned /\ NoteIsAt /\ NothingWritten /\ PathsAreLocked /\ ~replaced

\* The locks and the scan.
LEMMA VerifyKeeps == MoveInvariant /\ Verify => Kept'
<1> SUFFICES ASSUME MoveInvariant, Verify PROVE Kept'
  OBVIOUS
<1> USE PathAssumption, AbsentAssumption, ContentMakers
        DEF MoveInvariant, Kept, PathsHold, WritesArePlanned, NoteIsAt, NothingWritten, PathsAreLocked,
            AbortedMovesWroteNoNote, NoteIsNeverLost, IsMovedNote, TypeOK, MoveType, Paths,
            Done, Stages, MoveLocks, PatchLocks, setting, patchVars, history
<1>1. ASSUME NEW indexed \in SUBSET Sources, CallMove(indexed) PROVE Kept'
  BY <1>1 DEF CallMove, NoMove, NoPlan
<1>2. CASE Lock
  BY <1>2 DEF Lock
<1>3. CASE Rejected
  BY <1>3 DEF Rejected, Aborts, End, NoMove, NoPlan
<1>4. ASSUME NEW s \in Sources, ScanNote(s) PROVE Kept'
  BY <1>4 DEF ScanNote
<1>5. ASSUME NEW s \in Sources, ScanSkips(s) PROVE Kept'
  BY <1>5 DEF ScanSkips
<1>6. CASE ScanFindsNone
  BY <1>6 DEF ScanFindsNone
<1>7. CASE ScanWidens
  BY <1>7 DEF ScanWidens
<1>8. CASE ScanGivesUp
  BY <1>8 DEF ScanGivesUp, Aborts, End, NoMove, NoPlan
<1> QED
  BY <1>1, <1>2, <1>3, <1>4, <1>5, <1>6, <1>7, <1>8 DEF Verify

\* The preflight.
LEMMA PreflightKeeps == MoveInvariant /\ Preflight => Kept'
<1> SUFFICES ASSUME MoveInvariant, Preflight PROVE Kept'
  OBVIOUS
<1> USE PathAssumption, AbsentAssumption, ContentMakers
        DEF MoveInvariant, Kept, PathsHold, WritesArePlanned, NoteIsAt, NothingWritten, PathsAreLocked,
            AbortedMovesWroteNoNote, NoteIsNeverLost, IsMovedNote, TypeOK, MoveType, Paths,
            Done, Stages, MoveLocks, PatchLocks, setting, patchVars, history
<1>1. CASE CheckPaths
  BY <1>1 DEF CheckPaths, Startable
<1>2. CASE CheckFails
  BY <1>2 DEF CheckFails, Aborts, End, NoMove, NoPlan
<1>3. ASSUME NEW p \in Sources \union {Old}, PlanFile(p) PROVE Kept'
  <2>1. /\ files[p] \in Content
        /\ p = Old => files[p].of = "moved"
        /\ UNCHANGED <<files, patch, wrote, replaced>>
    BY <1>3 DEF PlanFile
  <2>2. mv'.stage = "preflight" /\ mv'.inFlight = {} /\ mv'.toWrite = mv.toWrite
    BY <1>3 DEF PlanFile
  <2>3. mv'.plan[Old] = IF p = Old THEN Rewritten(files[p]) ELSE mv.plan[Old]
    BY <1>3 DEF PlanFile
  <2>4. p = Old => IsMovedNote(mv'.plan[Old])
    <3>1. Rewritten(files[p]) \in Content /\ Rewritten(files[p]).of = files[p].of
      BY <2>1, ContentMakers
    <3> QED
      BY <2>1, <2>3, <3>1, AbsentAssumption DEF IsMovedNote
  <2>5. mv'.toRead = mv.toRead \ {p} /\ mv.stage = "preflight"
    BY <1>3 DEF PlanFile
  <2>6. WritesArePlanned'
    BY <2>2, <2>3, <2>4, <2>5
  <2> QED
    BY <2>1, <2>2, <2>5, <2>6
<1>4. CASE PlanFails
  BY <1>4 DEF PlanFails, Aborts, End, NoMove, NoPlan
<1>5. CASE PreflightEnds
  BY <1>5 DEF PreflightEnds
<1> QED
  BY <1>1, <1>2, <1>3, <1>4, <1>5 DEF Preflight

\* The writes.
LEMMA CommitKeeps == MoveInvariant /\ Commit => Kept'
<1> SUFFICES ASSUME MoveInvariant, Commit PROVE Kept'
  OBVIOUS
<1> USE PathAssumption, AbsentAssumption, ContentMakers
        DEF MoveInvariant, Kept, PathsHold, WritesArePlanned, NoteIsAt, NothingWritten, PathsAreLocked,
            AbortedMovesWroteNoNote, NoteIsNeverLost, IsMovedNote, TypeOK, MoveType, Paths,
            Done, Stages, MoveLocks, PatchLocks, setting, patchVars, history
<1>1. CASE LinkDestination
  BY <1>1 DEF LinkDestination, Puts, Replaces
<1>2. CASE ReserveDestination
  BY <1>2 DEF ReserveDestination, Puts, Replaces, Empty
<1>3. CASE SwapDestination
  BY <1>3 DEF SwapDestination, Puts, Replaces
<1>4. CASE SwapFails
  BY <1>4 DEF SwapFails, End, NoMove, NoPlan
<1>5. CASE RenameInPlace
  BY <1>5 DEF RenameInPlace
<1>6. CASE RewriteRenamed
  BY <1>6 DEF RewriteRenamed, Puts, Replaces
<1>7. CASE RewriteFails
  BY <1>7 DEF RewriteFails, End, NoMove, NoPlan
<1>8. CASE DestinationFails
  BY <1>8 DEF DestinationFails, Aborts, End, NoMove, NoPlan
<1>9. ASSUME NEW b \in SUBSET Sources, StartBatch(b) PROVE Kept'
  BY <1>9 DEF StartBatch
<1>10. ASSUME NEW s \in Sources, WriteSource(s) PROVE Kept'
  BY <1>10 DEF WriteSource
<1>11. ASSUME NEW s \in Sources, WriteFails(s) PROVE Kept'
  BY <1>11 DEF WriteFails, End, NoMove, NoPlan
<1>12. ASSUME NEW w \in late, LateWrite(w) PROVE Kept'
  <2>1. w.path \in Sources /\ w.content \in Content
    OBVIOUS
  <2>2. files' = [files EXCEPT ![w.path] = w.content] /\ UNCHANGED <<mv, patch, wrote, replaced>>
    BY <1>12 DEF LateWrite
  <2>3. PathsHold' /\ NoteIsAt'
    BY <2>1, <2>2
  <2>4. files'[New] = files[New] /\ files'[Old] = files[Old] /\ UNCHANGED <<caseOnly, hardLinks>>
    BY <1>12, <2>1, <2>2 DEF LateWrite
  <2>5. NothingWritten' /\ PathsAreLocked' /\ WritesArePlanned'
    BY <2>2, <2>4
  <2> QED
    BY <2>2, <2>3, <2>5
<1>13. ASSUME NEW w \in late, LateFailure(w) PROVE Kept'
  BY <1>13 DEF LateFailure
<1>14. CASE WritesEnd
  <2>1. /\ mv' = [NoMove EXCEPT !.stage = "done"] \/ mv' = [mv EXCEPT !.stage = "unlink"]
        /\ mv.stage = "writing" /\ mv.toWrite = {} /\ mv.inFlight = {}
        /\ UNCHANGED <<files, patch, wrote, replaced>>
    BY <1>14 DEF WritesEnd, End
  <2>2. /\ mv'.stage \in {"done", "unlink"}
        /\ mv'.toWrite = {} /\ mv'.inFlight = {}
    BY <2>1 DEF NoMove
  <2> QED
    BY <2>1, <2>2
<1>15. CASE UnlinkOld
  <2>1. /\ mv.stage = "unlink" /\ files' = [files EXCEPT ![Old] = Absent]
        /\ mv' = [NoMove EXCEPT !.stage = "done"] /\ UNCHANGED <<patch, replaced>>
    BY <1>15 DEF UnlinkOld, End
  <2>2. mv'.stage = "done" /\ mv'.toWrite = {} /\ mv'.inFlight = {}
    BY <2>1 DEF NoMove
  <2>3. PathsHold' /\ NoteIsAt'
    BY <2>1, <2>2
  <2> QED
    BY <2>1, <2>2, <2>3
<1>16. CASE UnlinkFails
  BY <1>16 DEF UnlinkFails, End, NoMove, NoPlan
<1> QED
  BY <1>1, <1>2, <1>3, <1>4, <1>5, <1>6, <1>7, <1>8, <1>9, <1>10, <1>11, <1>12, <1>13, <1>14,
     <1>15, <1>16
     DEF Commit

\* Patches, the host, the user and crashes.
LEMMA OthersKeep == MoveInvariant /\ (Others \/ Crash) => Kept'
<1> SUFFICES ASSUME MoveInvariant, (Others \/ Crash) PROVE Kept'
  OBVIOUS
<1> USE PathAssumption, AbsentAssumption, ContentMakers
        DEF MoveInvariant, Kept, PathsHold, WritesArePlanned, NoteIsAt, NothingWritten, PathsAreLocked,
            AbortedMovesWroteNoNote, NoteIsNeverLost, IsMovedNote, TypeOK, MoveType, Paths,
            Done, Stages, MoveLocks, PatchLocks, setting, patchVars, history
<1>1. ASSUME NEW q \in Patches, NEW p \in Paths,
             NEW link \in BOOLEAN, PatchStarts(q, p, link)
      PROVE  Kept'
  <2>1. /\ patch = Nobody /\ patch' = [patch |-> q, path |-> p, read |-> files[p],
                link |-> IF link THEN "old" ELSE files[p].link]
        /\ p \notin MoveLocks /\ files[p] /= Absent /\ files[p].of \in {"source", "moved"}
        /\ UNCHANGED <<files, setting, mv, wrote, replaced>>
    BY <1>1 DEF PatchStarts
  <2>2. PathsHold' /\ WritesArePlanned' /\ NoteIsAt'
    BY <2>1
  <2>3. PathsAreLocked'
    BY <2>1
  <2>4. files[p] /= Empty /\ files[p] /= HostFile
    <3>1. Empty.of = "empty" /\ HostFile.of = "host"
      BY DEF Empty, HostFile
    <3> HIDE DEF Kept, MoveInvariant
    <3> QED
      BY <2>1, <3>1
  <2>5. NothingWritten'
    BY <2>1, <2>4
  <2> QED
    BY <2>1, <2>2, <2>3, <2>5
<1>2. CASE PatchWrites
  <2> DEFINE edited == [patch.read EXCEPT !.edits = @ \union {patch.patch}, !.link = patch.link]
  <2>1. /\ patch /= Nobody /\ patch.path \in Paths /\ patch' = Nobody
        /\ files' = [files EXCEPT ![patch.path] = edited]
        /\ UNCHANGED <<mv, wrote, replaced>>
    BY <1>2 DEF PatchWrites, PatchType
  <2>2. edited \in Content /\ edited.of = patch.read.of
    BY <2>1
  <2> HIDE DEF edited
  <2>3. PathsHold' /\ NoteIsAt'
    BY <2>1, <2>2
  <2>4. UNCHANGED <<caseOnly, hardLinks>>
    BY <1>2 DEF PatchWrites
  <2>5. WritesArePlanned' /\ PathsAreLocked'
    BY <2>1
  <2>6. (mv.stage = "reserved" \/ (mv.stage = "aborted" /\ wrote /= {})) => files'[New] = files[New]
    BY <2>1
  <2>7. NothingWritten'
    BY <2>1, <2>4, <2>6
  <2> QED
    BY <2>1, <2>3, <2>5, <2>7
<1>3. CASE HostCreates
  BY <1>3 DEF HostCreates, HostFile
<1>4. CASE UserDeletesNew
  BY <1>4 DEF UserDeletesNew, UserDeletes
<1>5. CASE UserDeletesOld
  BY <1>5 DEF UserDeletesOld, UserDeletes
<1>6. CASE Crash
  BY <1>6 DEF Crash, NoMove, NoPlan
<1> HIDE DEF Kept, MoveInvariant, TypeOK, PathsHold, WritesArePlanned, NoteIsAt, NothingWritten,
             PathsAreLocked
<1> QED
  BY <1>1, <1>2, <1>3, <1>4, <1>5, <1>6 DEF Others

-----------------------------------------------------------------------------
(* The theorems                                                                *)

\* Initially the note is at the old path, and nothing else is going on.
LEMMA InitInvariant == Init => MoveInvariant
<1> SUFFICES ASSUME Init PROVE MoveInvariant
  OBVIOUS
<1>1. TypeOK
  BY InitType
<1>2. mv.stage = "idle" /\ mv.toWrite = {} /\ mv.inFlight = {}
  BY DEF Init, NoMove
<1>3. /\ IsMovedNote(files[Old]) /\ files[New] = Absent
      /\ \A s \in Sources : files[s] /= Absent
  BY PathAssumption, AbsentAssumption DEF Init, IsMovedNote, Paths, Content
<1> QED
  BY <1>1, <1>2, <1>3 DEF Init, MoveInvariant, PathsHold, WritesArePlanned, NoteIsAt,
     NothingWritten, PathsAreLocked, AbortedMovesWroteNoNote, NoteIsNeverLost, IsMovedNote, Done

\* Every step keeps the invariant.
LEMMA NextInvariant == MoveInvariant /\ [Next]_vars => MoveInvariant'
<1> SUFFICES ASSUME MoveInvariant, [Next]_vars PROVE MoveInvariant'
  OBVIOUS
<1>1. CASE Next
  <2>1. TypeOK'
    BY <1>1, VerifyType, PreflightType, CommitType, OthersType DEF Next, MoveInvariant
  <2>2. Kept'
    BY <1>1, VerifyKeeps, PreflightKeeps, CommitKeeps, OthersKeep DEF Next
  <2> QED
    BY <2>1, <2>2 DEF Kept, MoveInvariant
<1>2. CASE UNCHANGED vars
  BY <1>2 DEF vars, setting, patchVars, history, MoveInvariant, TypeOK, PathsHold,
     WritesArePlanned, NoteIsAt, NothingWritten, PathsAreLocked, AbortedMovesWroteNoNote,
     NoteIsNeverLost, IsMovedNote
<1> QED
  BY <1>1, <1>2

\* The invariant holds in every reachable state.
LEMMA MoveInvariantHolds == Spec => []MoveInvariant
  BY InitInvariant, NextInvariant, PTL DEF Spec

\* Files, the move's record, late writes and patches keep their types.
THEOREM MoverTypeCorrect == Spec => []TypeOK
<1>1. MoveInvariant => TypeOK
  BY DEF MoveInvariant
<1> QED
  BY <1>1, MoveInvariantHolds, PTL

\* Whatever fails and wherever the server stops, a complete copy of the note is at
\* the old or the new path (note-mover.ts 701-702).
THEOREM NoteSurvives == Spec => []NoteIsNeverLost
<1>1. MoveInvariant => NoteIsNeverLost
  BY DEF MoveInvariant, NoteIsAt
<1> QED
  BY <1>1, MoveInvariantHolds, PTL

\* A move whose error says that nothing was written wrote no note: at most the empty
\* placeholder of its reservation stays at the new path (vault-filesystem.ts 270-283).
THEOREM AbortsAreClean == Spec => []AbortedMovesWroteNoNote
<1>1. MoveInvariant => AbortedMovesWroteNoNote
  BY DEF MoveInvariant, NothingWritten
<1> QED
  BY <1>1, MoveInvariantHolds, PTL

\* A file that the host puts at the new path is never overwritten, with hard links
\* or without.
THEOREM HostFilesSurvive == Spec => []HostFilesAreKept
<1>1. MoveInvariant => HostFilesAreKept
  BY DEF MoveInvariant, HostFilesAreKept
<1> QED
  BY <1>1, MoveInvariantHolds, PTL

-----------------------------------------------------------------------------
(* Links and patches                                                           *)

\* A patch and a move keep out of each other's files, and a move writes only what it
\* locked.
LocksHold ==
    /\ patch /= Nobody => patch.path \notin MoveLocks /\ files[patch.path] /= Absent
    /\ \A s \in Sources : mv.plan[s] /= Absent => s \in mv.known
    /\ mv.toRead \subseteq mv.known \union {Old}
    /\ mv.toWrite \union mv.inFlight \subseteq mv.known
    /\ mv.stage \in Done \union {"unlink"} => mv.toWrite \union mv.inFlight = {}
    /\ mv.stage = "renamed" => caseOnly
    /\ mv.stage \in {"locking", "scan", "check"} =>
           \A p \in Sources \union {Old} : mv.plan[p] = Absent

\* What a move plans to write, and what an earlier one still writes, links the old
\* path no more.
PlansAreRewritten ==
    /\ \A p \in Sources \union {Old} : mv.plan[p] /= Absent => mv.plan[p].link /= "old"
    /\ \A w \in late : w.content.link /= "old"

\* The sources whose new content is not written yet.
Planned == IF mv.stage = "preflight" THEN {s \in Sources : mv.plan[s] /= Absent}
           ELSE mv.toWrite \union mv.inFlight

\* The sources that may link the old path at this stage of the move, besides those
\* the scan missed.
Owed ==
    CASE mv.stage = "scan" -> mv.known \union mv.toScan \union mv.found
      [] mv.stage = "check" -> mv.known
      [] mv.stage = "preflight" -> mv.toRead \union Planned
      [] OTHER -> Planned

Linking(p) == files[p] /= Absent /\ files[p].link = "old"

\* No link to the old path is forgotten.
LinksAreTracked ==
    /\ mv.stage \notin {"idle", "locking", "aborted", "incomplete"} =>
           \A s \in Sources : Linking(s) => s \in Owed \union missed
    /\ mv.stage \in {"writing", "unlink", "done", "not_deleted"} =>
           (Linking(New) => New \in missed)

\* Two contents have the same patches, but for those a late write overwrote.
SameEdits(c, d) == c.edits \union overrun = d.edits \union overrun

\* What is written over a file, by a move, a late write or a patch, has the patches
\* that the file has, and a path is removed when the other has them.
WritesKeepEdits ==
    /\ \A s \in Planned : SameEdits(files[s], mv.plan[s])
    /\ \A w \in late : w.content.edits \subseteq files[w.path].edits \union overrun
    /\ patch /= Nobody => SameEdits(files[patch.path], patch.read)
    /\ (mv.stage = "preflight" /\ Old \notin mv.toRead)
           \/ mv.stage \in {"destination", "reserved"} =>
           files[Old].edits \subseteq mv.plan[Old].edits
    /\ mv.stage = "reserved" => files[New] = Empty
    /\ mv.stage = "renamed" => files[New].edits \subseteq mv.plan[Old].edits
    /\ mv.stage \in {"writing", "unlink"} /\ files[Old] /= Absent =>
           files[Old].edits \subseteq files[New].edits
    /\ caseOnly => files[Old] = Absent \/ files[New] = Absent

FollowInvariant ==
    /\ LocksHold
    /\ PlansAreRewritten
    /\ LinksAreTracked
    /\ WritesKeepEdits
    /\ PatchesSurviveMoves
-----------------------------------------------------------------------------
(* What a step leaves of the move's record and of the contents                  *)

\* What a patch writes.
Patched(r) == [r.read EXCEPT !.edits = @ \union {r.patch}, !.link = r.link]

\* A rewrite keeps the patches and takes the links off the old path; a patch adds
\* itself; a placeholder and a file of the host's have no patches and no links.
LEMMA ContentFields ==
    /\ Empty.edits = {} /\ Empty.link = "none" /\ Empty /= Absent
    /\ HostFile.edits = {} /\ HostFile.link = "none" /\ HostFile /= Absent
    /\ \A c \in Content :
           Rewritten(c) /= Absent /\ Rewritten(c).edits = c.edits /\ Rewritten(c).link /= "old"
    /\ \A r \in PatchType :
           /\ Patched(r) /= Absent
           /\ Patched(r).edits = r.read.edits \union {r.patch} /\ Patched(r).link = r.link
<1>1. /\ Empty.edits = {} /\ Empty.link = "none" /\ Empty \in Content
      /\ HostFile.edits = {} /\ HostFile.link = "none" /\ HostFile \in Content
  BY DEF Empty, HostFile, Content
<1>2. ASSUME NEW c \in Content
      PROVE  /\ Rewritten(c) \in Content
             /\ Rewritten(c).edits = c.edits /\ Rewritten(c).link /= "old"
  BY DEF Rewritten, Content
<1>3. ASSUME NEW r \in PatchType
      PROVE  /\ Patched(r) \in Content
             /\ Patched(r).edits = r.read.edits \union {r.patch} /\ Patched(r).link = r.link
  BY DEF Patched, PatchType, Content
<1> QED
  BY <1>1, <1>2, <1>3, AbsentAssumption

\* What planning one file does to the record.
LEMMA PlanFields ==
    ASSUME MoveInvariant, NEW p \in Sources \union {Old}, PlanFile(p)
    PROVE  /\ mv.stage = "preflight" /\ p \in mv.toRead /\ files[p] \in Content
           /\ mv'.stage = "preflight" /\ mv'.toRead = mv.toRead \ {p}
           /\ mv'.known = mv.known /\ mv'.toWrite = mv.toWrite /\ mv'.inFlight = mv.inFlight
           /\ \A q \in Sources \union {Old} : q /= p => mv'.plan[q] = mv.plan[q]
           /\ p = Old \/ files[p].link = "old" => mv'.plan[p] = Rewritten(files[p])
           /\ p \in Sources /\ files[p].link /= "old" => mv'.plan[p] = Absent
           /\ UNCHANGED <<files, caseOnly, hardLinks, late, patch, acked, wrote, missed,
                          replaced, overrun>>
<1>1. files[p] \in Content
  BY DEF PlanFile, MoveInvariant, TypeOK, Paths, PathsHold, NoteIsAt
<1> QED
  BY <1>1, PathAssumption
     DEF PlanFile, MoveInvariant, TypeOK, MoveType, setting, patchVars, history

\* What ending a move leaves of the record.
LEMMA EndFields ==
    ASSUME NEW r \in Done, NEW w, End(r, w)
    PROVE  /\ mv'.stage = r /\ mv'.known = {} /\ mv'.toRead = {} /\ mv'.toScan = {}
           /\ mv'.found = {} /\ mv'.toWrite = {} /\ mv'.inFlight = {}
           /\ \A p \in Sources \union {Old} : mv'.plan[p] = Absent
  BY DEF End, NoMove, NoPlan

\* What putting the note at the new path does.
LEMMA PutFields ==
    ASSUME MoveInvariant, Puts(New, mv.plan[Old], "writing")
    PROVE  /\ files'[New] = mv.plan[Old]
           /\ \A p \in Paths \ {New} : files'[p] = files[p]
           /\ mv'.stage = "writing" /\ mv'.known = mv.known /\ mv'.toRead = mv.toRead
           /\ mv'.toScan = mv.toScan /\ mv'.found = mv.found
           /\ mv'.toWrite = mv.toWrite /\ mv'.inFlight = mv.inFlight /\ mv'.plan = mv.plan
           /\ UNCHANGED <<caseOnly, hardLinks, late, patch, acked, missed, overrun>>
  BY DEF Puts, MoveInvariant, TypeOK, MoveType, Paths, setting, patchVars

\* What a case-only rename does.
LEMMA RenameFields ==
    ASSUME MoveInvariant, RenameInPlace
    PROVE  /\ files'[New] = files[Old] /\ files'[Old] = Absent
           /\ \A p \in Sources : files'[p] = files[p]
           /\ mv.stage = "destination" /\ caseOnly
           /\ mv'.stage \in {"writing", "renamed"}
           /\ mv'.stage = "writing" <=> mv.plan[Old] = files[Old]
           /\ mv'.known = mv.known /\ mv'.toRead = mv.toRead
           /\ mv'.toScan = mv.toScan /\ mv'.found = mv.found
           /\ mv'.toWrite = mv.toWrite /\ mv'.inFlight = mv.inFlight /\ mv'.plan = mv.plan
           /\ UNCHANGED <<caseOnly, hardLinks, late, patch, acked, missed, overrun>>
  BY PathAssumption
     DEF RenameInPlace, MoveInvariant, TypeOK, MoveType, Paths, setting, patchVars

\* What removing one path does.
LEMMA DeletionFields ==
    ASSUME MoveInvariant, NEW p \in Paths, NEW kept \in Paths, UserDeletes(p, kept)
    PROVE  /\ ~caseOnly /\ (patch /= Nobody => patch.path \notin {p, kept})
           /\ files[p] /= Absent /\ files[kept] /= Absent
           /\ files'[p] = Absent
           /\ \A q \in Paths \ {p} : files'[q] = files[q]
           /\ acked' = acked \ (files[p].edits \ files[kept].edits)
           /\ UNCHANGED <<caseOnly, hardLinks, mv, late, patch, missed, overrun>>
  BY DEF UserDeletes, PatchLocks, MoveInvariant, TypeOK, Paths, setting, history

\* What a patch's write does.
LEMMA PatchFields ==
    ASSUME MoveInvariant, PatchWrites
    PROVE  /\ patch \in PatchType /\ patch' = Nobody
           /\ files'[patch.path] /= Absent
           /\ files'[patch.path].edits = patch.read.edits \union {patch.patch}
           /\ files'[patch.path].link = patch.link
           /\ \A q \in Paths \ {patch.path} : files'[q] = files[q]
           /\ acked' = acked \union {patch.patch}
           /\ missed' = IF patch.link = "old" THEN missed \union {patch.path} ELSE missed
           /\ UNCHANGED <<caseOnly, hardLinks, mv, late, overrun>>
<1>1. patch \in PatchType
  BY DEF PatchWrites, MoveInvariant, TypeOK
<1>2. files'[patch.path] = Patched(patch) /\ \A q \in Paths \ {patch.path} : files'[q] = files[q]
  BY <1>1 DEF PatchWrites, Patched, MoveInvariant, TypeOK, PatchType
<1> QED
  BY <1>1, <1>2, ContentFields DEF PatchWrites, setting

-----------------------------------------------------------------------------
(* A step keeps each part                                                      *)

\* A patch and a move keep out of each other's files.
LEMMA LocksStep == MoveInvariant /\ LocksHold /\ Next => LocksHold'
<1> SUFFICES ASSUME MoveInvariant, LocksHold, Next
             PROVE  LocksHold'
  OBVIOUS
<1> USE PathAssumption, AbsentAssumption DEF MoveInvariant, PathsHold, WritesArePlanned,
        MoveLocks, PatchLocks, LocksHold, TypeOK, MoveType, Stages, Done, Paths, setting,
        patchVars, history
<1>1. ASSUME NEW indexed \in SUBSET Sources, CallMove(indexed) PROVE LocksHold'
  BY <1>1 DEF CallMove, NoMove, NoPlan
<1>2. CASE Lock
  BY <1>2 DEF Lock
<1>3. CASE Rejected
  BY <1>3 DEF Rejected, Aborts, End, NoMove, NoPlan
<1>4. ASSUME NEW s \in Sources, ScanNote(s) PROVE LocksHold'
  BY <1>4 DEF ScanNote
<1>5. ASSUME NEW s \in Sources, ScanSkips(s) PROVE LocksHold'
  BY <1>5 DEF ScanSkips
<1>6. CASE ScanFindsNone
  BY <1>6 DEF ScanFindsNone
<1>7. CASE ScanWidens
  BY <1>7 DEF ScanWidens
<1>8. CASE ScanGivesUp
  BY <1>8 DEF ScanGivesUp, Aborts, End, NoMove, NoPlan
<1>9. CASE CheckPaths
  BY <1>9 DEF CheckPaths, Startable
<1>10. CASE CheckFails
  BY <1>10 DEF CheckFails, Aborts, End, NoMove, NoPlan
<1>11. ASSUME NEW p \in Sources \union {Old}, PlanFile(p) PROVE LocksHold'
  <2>1. /\ mv.stage = "preflight" /\ p \in mv.toRead /\ files[p] \in Content
        /\ mv'.stage = "preflight" /\ mv'.toRead = mv.toRead \ {p}
        /\ mv'.known = mv.known /\ mv'.toWrite = mv.toWrite /\ mv'.inFlight = mv.inFlight
        /\ \A q \in Sources \union {Old} : q /= p => mv'.plan[q] = mv.plan[q]
        /\ p = Old \/ files[p].link = "old" => mv'.plan[p] = Rewritten(files[p])
        /\ p \in Sources /\ files[p].link /= "old" => mv'.plan[p] = Absent
        /\ UNCHANGED <<files, caseOnly, late, patch, acked, missed, overrun>>
    BY <1>11, PlanFields
  <2>2. /\ Rewritten(files[p]) /= Absent /\ Rewritten(files[p]).edits = files[p].edits
        /\ Rewritten(files[p]).link /= "old"
    BY <2>1, ContentFields
  <2> QED
    BY <2>1, <2>2
<1>12. CASE PlanFails
  BY <1>12 DEF PlanFails, Aborts, End, NoMove, NoPlan
<1>13. CASE PreflightEnds
  BY <1>13 DEF PreflightEnds
<1>14. CASE LinkDestination
  BY <1>14 DEF LinkDestination, Puts
<1>15. CASE ReserveDestination
  BY <1>15 DEF ReserveDestination, Puts
<1>16. CASE SwapDestination
  BY <1>16 DEF SwapDestination, Puts
<1>17. CASE SwapFails
  <2>1. CASE files' = [files EXCEPT ![New] = Absent]
    BY <1>17, <2>1 DEF SwapFails, End, NoMove, NoPlan
  <2>2. CASE UNCHANGED files
    BY <1>17, <2>2 DEF SwapFails, End, NoMove, NoPlan
  <2> QED
    BY <1>17, <2>1, <2>2 DEF SwapFails
<1>18. CASE RenameInPlace
  <2>1. /\ files'[New] = files[Old] /\ files'[Old] = Absent
        /\ \A p \in Sources : files'[p] = files[p]
        /\ mv.stage = "destination" /\ caseOnly
        /\ mv'.stage \in {"writing", "renamed"}
        /\ mv'.stage = "writing" <=> mv.plan[Old] = files[Old]
        /\ mv'.known = mv.known /\ mv'.toRead = mv.toRead
        /\ mv'.toWrite = mv.toWrite /\ mv'.inFlight = mv.inFlight /\ mv'.plan = mv.plan
        /\ UNCHANGED <<caseOnly, late, patch, acked, missed, overrun>>
    BY <1>18, RenameFields
  <2>2. patch /= Nobody => patch.path \in Sources /\ patch.path \notin mv.known
    BY <2>1 DEF PatchType
  <2>3. MoveLocks' = MoveLocks
    BY <2>1
  <2>4. patch /= Nobody => patch.path \notin MoveLocks' /\ files'[patch.path] /= Absent
    BY <2>1, <2>2, <2>3
  <2> QED
    BY <2>1, <2>4
<1>19. CASE RewriteRenamed
  BY <1>19 DEF RewriteRenamed, Puts
<1>20. CASE RewriteFails
  BY <1>20 DEF RewriteFails, End, NoMove, NoPlan
<1>21. CASE DestinationFails
  BY <1>21 DEF DestinationFails, Aborts, End, NoMove, NoPlan
<1>22. ASSUME NEW b \in SUBSET Sources, StartBatch(b) PROVE LocksHold'
  BY <1>22 DEF StartBatch
<1>23. ASSUME NEW s \in Sources, WriteSource(s) PROVE LocksHold'
  BY <1>23 DEF WriteSource
<1>24. ASSUME NEW s \in Sources, WriteFails(s) PROVE LocksHold'
  BY <1>24 DEF WriteFails, End, NoMove, NoPlan
<1>25. ASSUME NEW w \in late, LateWrite(w) PROVE LocksHold'
  BY <1>25 DEF LateWrite
<1>26. ASSUME NEW w \in late, LateFailure(w) PROVE LocksHold'
  BY <1>26 DEF LateFailure
<1>27. CASE WritesEnd
  BY <1>27 DEF WritesEnd, End, NoMove, NoPlan
<1>28. CASE UnlinkOld
  BY <1>28 DEF UnlinkOld, End, NoMove, NoPlan
<1>29. CASE UnlinkFails
  BY <1>29 DEF UnlinkFails, End, NoMove, NoPlan
<1>30. ASSUME NEW q \in Patches, NEW p \in Paths, NEW link \in BOOLEAN, PatchStarts(q, p, link)
      PROVE  LocksHold'
  BY <1>30 DEF PatchStarts
<1>31. CASE PatchWrites
  BY <1>31 DEF PatchWrites
<1>32. CASE HostCreates
  BY <1>32 DEF HostCreates, HostFile
<1>33. CASE UserDeletesNew
  BY <1>33 DEF UserDeletesNew, UserDeletes
<1>34. CASE UserDeletesOld
  BY <1>34 DEF UserDeletesOld, UserDeletes
<1>35. CASE Crash
  BY <1>35 DEF Crash, NoMove, NoPlan
<1> HIDE DEF MoveInvariant, TypeOK, PathsHold, WritesArePlanned, LocksHold
<1> QED
  BY <1>1, <1>2, <1>3, <1>4, <1>5, <1>6, <1>7, <1>8, <1>9, <1>10, <1>11, <1>12, <1>13, <1>14,
     <1>15, <1>16, <1>17, <1>18, <1>19, <1>20, <1>21, <1>22, <1>23, <1>24, <1>25, <1>26, <1>27,
     <1>28, <1>29, <1>30, <1>31, <1>32, <1>33, <1>34, <1>35
     DEF Next, Verify, Preflight, Commit, Others

\* Nothing planned links the old path.
LEMMA PlansStep == MoveInvariant /\ LocksHold /\ PlansAreRewritten /\ Next => PlansAreRewritten'
<1> SUFFICES ASSUME MoveInvariant, LocksHold, PlansAreRewritten, Next
             PROVE  PlansAreRewritten'
  OBVIOUS
<1> USE PathAssumption, AbsentAssumption DEF MoveInvariant, WritesArePlanned, LocksHold,
        PlansAreRewritten, Rewritten, TypeOK, MoveType, Stages, Done, Paths, setting, patchVars,
        history
<1>1. ASSUME NEW indexed \in SUBSET Sources, CallMove(indexed) PROVE PlansAreRewritten'
  BY <1>1 DEF CallMove, NoMove, NoPlan
<1>2. CASE Lock
  BY <1>2 DEF Lock
<1>3. CASE Rejected
  BY <1>3 DEF Rejected, Aborts, End, NoMove, NoPlan
<1>4. ASSUME NEW s \in Sources, ScanNote(s) PROVE PlansAreRewritten'
  BY <1>4 DEF ScanNote
<1>5. ASSUME NEW s \in Sources, ScanSkips(s) PROVE PlansAreRewritten'
  BY <1>5 DEF ScanSkips
<1>6. CASE ScanFindsNone
  BY <1>6 DEF ScanFindsNone
<1>7. CASE ScanWidens
  BY <1>7 DEF ScanWidens
<1>8. CASE ScanGivesUp
  BY <1>8 DEF ScanGivesUp, Aborts, End, NoMove, NoPlan
<1>9. CASE CheckPaths
  BY <1>9 DEF CheckPaths, Startable
<1>10. CASE CheckFails
  BY <1>10 DEF CheckFails, Aborts, End, NoMove, NoPlan
<1>11. ASSUME NEW p \in Sources \union {Old}, PlanFile(p) PROVE PlansAreRewritten'
  BY <1>11 DEF PlanFile
<1>12. CASE PlanFails
  BY <1>12 DEF PlanFails, Aborts, End, NoMove, NoPlan
<1>13. CASE PreflightEnds
  BY <1>13 DEF PreflightEnds
<1>14. CASE LinkDestination
  BY <1>14 DEF LinkDestination, Puts
<1>15. CASE ReserveDestination
  BY <1>15 DEF ReserveDestination, Puts
<1>16. CASE SwapDestination
  BY <1>16 DEF SwapDestination, Puts
<1>17. CASE SwapFails
  <2>1. CASE files' = [files EXCEPT ![New] = Absent]
    BY <1>17, <2>1 DEF SwapFails, End, NoMove, NoPlan
  <2>2. CASE UNCHANGED files
    BY <1>17, <2>2 DEF SwapFails, End, NoMove, NoPlan
  <2> QED
    BY <1>17, <2>1, <2>2 DEF SwapFails
<1>18. CASE RenameInPlace
  BY <1>18 DEF RenameInPlace
<1>19. CASE RewriteRenamed
  BY <1>19 DEF RewriteRenamed, Puts
<1>20. CASE RewriteFails
  BY <1>20 DEF RewriteFails, End, NoMove, NoPlan
<1>21. CASE DestinationFails
  BY <1>21 DEF DestinationFails, Aborts, End, NoMove, NoPlan
<1>22. ASSUME NEW b \in SUBSET Sources, StartBatch(b) PROVE PlansAreRewritten'
  BY <1>22 DEF StartBatch
<1>23. ASSUME NEW s \in Sources, WriteSource(s) PROVE PlansAreRewritten'
  BY <1>23 DEF WriteSource
<1>24. ASSUME NEW s \in Sources, WriteFails(s) PROVE PlansAreRewritten'
  BY <1>24 DEF WriteFails, End, NoMove, NoPlan
<1>25. ASSUME NEW w \in late, LateWrite(w) PROVE PlansAreRewritten'
  BY <1>25 DEF LateWrite
<1>26. ASSUME NEW w \in late, LateFailure(w) PROVE PlansAreRewritten'
  BY <1>26 DEF LateFailure
<1>27. CASE WritesEnd
  BY <1>27 DEF WritesEnd, End, NoMove, NoPlan
<1>28. CASE UnlinkOld
  BY <1>28 DEF UnlinkOld, End, NoMove, NoPlan
<1>29. CASE UnlinkFails
  BY <1>29 DEF UnlinkFails, End, NoMove, NoPlan
<1>30. ASSUME NEW q \in Patches, NEW p \in Paths, NEW link \in BOOLEAN, PatchStarts(q, p, link)
      PROVE  PlansAreRewritten'
  BY <1>30 DEF PatchStarts
<1>31. CASE PatchWrites
  BY <1>31 DEF PatchWrites
<1>32. CASE HostCreates
  BY <1>32 DEF HostCreates, HostFile
<1>33. CASE UserDeletesNew
  BY <1>33 DEF UserDeletesNew, UserDeletes
<1>34. CASE UserDeletesOld
  BY <1>34 DEF UserDeletesOld, UserDeletes
<1>35. CASE Crash
  BY <1>35 DEF Crash, NoMove, NoPlan
<1> HIDE DEF MoveInvariant, TypeOK, WritesArePlanned, LocksHold, PlansAreRewritten
<1> QED
  BY <1>1, <1>2, <1>3, <1>4, <1>5, <1>6, <1>7, <1>8, <1>9, <1>10, <1>11, <1>12, <1>13, <1>14,
     <1>15, <1>16, <1>17, <1>18, <1>19, <1>20, <1>21, <1>22, <1>23, <1>24, <1>25, <1>26, <1>27,
     <1>28, <1>29, <1>30, <1>31, <1>32, <1>33, <1>34, <1>35
     DEF Next, Verify, Preflight, Commit, Others

\* A link to the old path is tracked until it is rewritten.
LEMMA LinksStep ==
    MoveInvariant /\ LocksHold /\ PlansAreRewritten /\ LinksAreTracked /\ Next =>
        LinksAreTracked'
<1> SUFFICES ASSUME MoveInvariant, LocksHold, PlansAreRewritten, LinksAreTracked, Next
             PROVE  LinksAreTracked'
  OBVIOUS
<1> USE PathAssumption, AbsentAssumption DEF MoveInvariant, PathsHold, WritesArePlanned,
        NoteIsAt, LocksHold, MoveLocks, PlansAreRewritten, LinksAreTracked, Owed, Planned,
        Linking, TypeOK, MoveType, Stages, Done, Paths, setting, patchVars, history
<1>1. ASSUME NEW indexed \in SUBSET Sources, CallMove(indexed) PROVE LinksAreTracked'
  BY <1>1 DEF CallMove, NoMove, NoPlan
<1>2. CASE Lock
  BY <1>2 DEF Lock
<1>3. CASE Rejected
  BY <1>3 DEF Rejected, Aborts, End, NoMove, NoPlan
<1>4. ASSUME NEW s \in Sources, ScanNote(s) PROVE LinksAreTracked'
  BY <1>4 DEF ScanNote
<1>5. ASSUME NEW s \in Sources, ScanSkips(s) PROVE LinksAreTracked'
  BY <1>5 DEF ScanSkips
<1>6. CASE ScanFindsNone
  BY <1>6 DEF ScanFindsNone
<1>7. CASE ScanWidens
  BY <1>7 DEF ScanWidens
<1>8. CASE ScanGivesUp
  BY <1>8 DEF ScanGivesUp, Aborts, End, NoMove, NoPlan
<1>9. CASE CheckPaths
  BY <1>9 DEF CheckPaths, Startable
<1>10. CASE CheckFails
  BY <1>10 DEF CheckFails, Aborts, End, NoMove, NoPlan
<1>11. ASSUME NEW p \in Sources \union {Old}, PlanFile(p) PROVE LinksAreTracked'
  <2>1. /\ mv.stage = "preflight" /\ p \in mv.toRead /\ files[p] \in Content
        /\ mv'.stage = "preflight" /\ mv'.toRead = mv.toRead \ {p}
        /\ mv'.known = mv.known /\ mv'.toWrite = mv.toWrite /\ mv'.inFlight = mv.inFlight
        /\ \A q \in Sources \union {Old} : q /= p => mv'.plan[q] = mv.plan[q]
        /\ p = Old \/ files[p].link = "old" => mv'.plan[p] = Rewritten(files[p])
        /\ p \in Sources /\ files[p].link /= "old" => mv'.plan[p] = Absent
        /\ UNCHANGED <<files, caseOnly, late, patch, acked, missed, overrun>>
    BY <1>11, PlanFields
  <2>2. /\ Rewritten(files[p]) /= Absent /\ Rewritten(files[p]).edits = files[p].edits
        /\ Rewritten(files[p]).link /= "old"
    BY <2>1, ContentFields
  <2> QED
    BY <2>1, <2>2
<1>12. CASE PlanFails
  BY <1>12 DEF PlanFails, Aborts, End, NoMove, NoPlan
<1>13. CASE PreflightEnds
  BY <1>13 DEF PreflightEnds
<1>14. CASE LinkDestination
  BY <1>14 DEF LinkDestination, Puts
<1>15. CASE ReserveDestination
  BY <1>15 DEF ReserveDestination, Puts
<1>16. CASE SwapDestination
  BY <1>16 DEF SwapDestination, Puts
<1>17. CASE SwapFails
  <2>1. CASE files' = [files EXCEPT ![New] = Absent]
    BY <1>17, <2>1 DEF SwapFails, End, NoMove, NoPlan
  <2>2. CASE UNCHANGED files
    BY <1>17, <2>2 DEF SwapFails, End, NoMove, NoPlan
  <2> QED
    BY <1>17, <2>1, <2>2 DEF SwapFails
<1>18. CASE RenameInPlace
  BY <1>18 DEF RenameInPlace
<1>19. CASE RewriteRenamed
  BY <1>19 DEF RewriteRenamed, Puts
<1>20. CASE RewriteFails
  BY <1>20 DEF RewriteFails, End, NoMove, NoPlan
<1>21. CASE DestinationFails
  BY <1>21 DEF DestinationFails, Aborts, End, NoMove, NoPlan
<1>22. ASSUME NEW b \in SUBSET Sources, StartBatch(b) PROVE LinksAreTracked'
  BY <1>22 DEF StartBatch
<1>23. ASSUME NEW s \in Sources, WriteSource(s) PROVE LinksAreTracked'
  BY <1>23 DEF WriteSource
<1>24. ASSUME NEW s \in Sources, WriteFails(s) PROVE LinksAreTracked'
  BY <1>24 DEF WriteFails, End, NoMove, NoPlan
<1>25. ASSUME NEW w \in late, LateWrite(w) PROVE LinksAreTracked'
  BY <1>25 DEF LateWrite
<1>26. ASSUME NEW w \in late, LateFailure(w) PROVE LinksAreTracked'
  BY <1>26 DEF LateFailure
<1>27. CASE WritesEnd
  BY <1>27 DEF WritesEnd, End, NoMove, NoPlan
<1>28. CASE UnlinkOld
  <2>1. /\ mv'.stage = "done" /\ mv'.known = {} /\ mv'.toRead = {}
        /\ mv'.toWrite = {} /\ mv'.inFlight = {}
        /\ \A p \in Sources \union {Old} : mv'.plan[p] = Absent
    BY <1>28, EndFields DEF UnlinkOld
  <2>2. mv.stage = "unlink" /\ missed' = missed /\ \A p \in Paths \ {Old} : files'[p] = files[p]
    BY <1>28 DEF UnlinkOld
  <2> QED
    BY <2>1, <2>2
<1>29. CASE UnlinkFails
  <2>1. /\ mv'.stage = "not_deleted" /\ mv'.known = {} /\ mv'.toRead = {}
        /\ mv'.toWrite = {} /\ mv'.inFlight = {}
        /\ \A p \in Sources \union {Old} : mv'.plan[p] = Absent
    BY <1>29, EndFields DEF UnlinkFails
  <2>2. mv.stage = "unlink" /\ UNCHANGED <<files, missed>>
    BY <1>29 DEF UnlinkFails
  <2> QED
    BY <2>1, <2>2
<1>30. ASSUME NEW q \in Patches, NEW p \in Paths, NEW link \in BOOLEAN, PatchStarts(q, p, link)
      PROVE  LinksAreTracked'
  BY <1>30 DEF PatchStarts
<1>31. CASE PatchWrites
  BY <1>31 DEF PatchWrites
<1>32. CASE HostCreates
  BY <1>32 DEF HostCreates, HostFile
<1>33. CASE UserDeletesNew
  BY <1>33 DEF UserDeletesNew, UserDeletes
<1>34. CASE UserDeletesOld
  BY <1>34 DEF UserDeletesOld, UserDeletes
<1>35. CASE Crash
  BY <1>35 DEF Crash, NoMove, NoPlan
<1> HIDE DEF MoveInvariant, TypeOK, PathsHold, WritesArePlanned, NoteIsAt, LocksHold,
             PlansAreRewritten, LinksAreTracked
<1> QED
  BY <1>1, <1>2, <1>3, <1>4, <1>5, <1>6, <1>7, <1>8, <1>9, <1>10, <1>11, <1>12, <1>13, <1>14,
     <1>15, <1>16, <1>17, <1>18, <1>19, <1>20, <1>21, <1>22, <1>23, <1>24, <1>25, <1>26, <1>27,
     <1>28, <1>29, <1>30, <1>31, <1>32, <1>33, <1>34, <1>35
     DEF Next, Verify, Preflight, Commit, Others

\* Writes keep the patches that are there.
LEMMA EditsStep == MoveInvariant /\ LocksHold /\ WritesKeepEdits /\ Next => WritesKeepEdits'
<1> SUFFICES ASSUME MoveInvariant, LocksHold, WritesKeepEdits, Next
             PROVE  WritesKeepEdits'
  OBVIOUS
<1> USE PathAssumption, AbsentAssumption DEF MoveInvariant, PathsHold, WritesArePlanned,
        NoteIsAt, LocksHold, MoveLocks, WritesKeepEdits, SameEdits, Planned, TypeOK, MoveType,
        Stages, Done, Paths, setting, patchVars, history
<1>1. ASSUME NEW indexed \in SUBSET Sources, CallMove(indexed) PROVE WritesKeepEdits'
  BY <1>1 DEF CallMove, NoMove, NoPlan
<1>2. CASE Lock
  BY <1>2 DEF Lock
<1>3. CASE Rejected
  BY <1>3 DEF Rejected, Aborts, End, NoMove, NoPlan
<1>4. ASSUME NEW s \in Sources, ScanNote(s) PROVE WritesKeepEdits'
  BY <1>4 DEF ScanNote
<1>5. ASSUME NEW s \in Sources, ScanSkips(s) PROVE WritesKeepEdits'
  BY <1>5 DEF ScanSkips
<1>6. CASE ScanFindsNone
  BY <1>6 DEF ScanFindsNone
<1>7. CASE ScanWidens
  BY <1>7 DEF ScanWidens
<1>8. CASE ScanGivesUp
  BY <1>8 DEF ScanGivesUp, Aborts, End, NoMove, NoPlan
<1>9. CASE CheckPaths
  BY <1>9 DEF CheckPaths, Startable
<1>10. CASE CheckFails
  BY <1>10 DEF CheckFails, Aborts, End, NoMove, NoPlan
<1>11. ASSUME NEW p \in Sources \union {Old}, PlanFile(p) PROVE WritesKeepEdits'
  <2>1. /\ mv.stage = "preflight" /\ p \in mv.toRead /\ files[p] \in Content
        /\ mv'.stage = "preflight" /\ mv'.toRead = mv.toRead \ {p}
        /\ mv'.known = mv.known /\ mv'.toWrite = mv.toWrite /\ mv'.inFlight = mv.inFlight
        /\ \A q \in Sources \union {Old} : q /= p => mv'.plan[q] = mv.plan[q]
        /\ p = Old \/ files[p].link = "old" => mv'.plan[p] = Rewritten(files[p])
        /\ p \in Sources /\ files[p].link /= "old" => mv'.plan[p] = Absent
        /\ UNCHANGED <<files, caseOnly, late, patch, acked, missed, overrun>>
    BY <1>11, PlanFields
  <2>2. /\ Rewritten(files[p]) /= Absent /\ Rewritten(files[p]).edits = files[p].edits
        /\ Rewritten(files[p]).link /= "old"
    BY <2>1, ContentFields
  <2>3. ASSUME NEW s \in Planned' PROVE SameEdits(files[s], mv'.plan[s])
    BY <2>1, <2>2
  <2>4. Old \notin mv'.toRead => files[Old].edits \subseteq mv'.plan[Old].edits
    BY <2>1, <2>2
  <2> QED
    BY <2>1, <2>3, <2>4
<1>12. CASE PlanFails
  BY <1>12 DEF PlanFails, Aborts, End, NoMove, NoPlan
<1>13. CASE PreflightEnds
  BY <1>13 DEF PreflightEnds
<1>14. CASE LinkDestination
  BY <1>14 DEF LinkDestination, Puts
<1>15. CASE ReserveDestination
  BY <1>15 DEF ReserveDestination, Puts
<1>16. CASE SwapDestination
  BY <1>16 DEF SwapDestination, Puts
<1>17. CASE SwapFails
  <2>1. CASE files' = [files EXCEPT ![New] = Absent]
    BY <1>17, <2>1 DEF SwapFails, End, NoMove, NoPlan
  <2>2. CASE UNCHANGED files
    BY <1>17, <2>2 DEF SwapFails, End, NoMove, NoPlan
  <2> QED
    BY <1>17, <2>1, <2>2 DEF SwapFails
<1>18. CASE RenameInPlace
  <2>1. /\ files'[New] = files[Old] /\ files'[Old] = Absent
        /\ \A p \in Sources : files'[p] = files[p]
        /\ mv.stage = "destination" /\ caseOnly
        /\ mv'.stage \in {"writing", "renamed"}
        /\ mv'.stage = "writing" <=> mv.plan[Old] = files[Old]
        /\ mv'.known = mv.known /\ mv'.toRead = mv.toRead
        /\ mv'.toWrite = mv.toWrite /\ mv'.inFlight = mv.inFlight /\ mv'.plan = mv.plan
        /\ UNCHANGED <<caseOnly, late, patch, acked, missed, overrun>>
    BY <1>18, RenameFields
  <2>2. \A s \in Sources : files'[s] = files[s]
    BY <2>1
  <2>3. \A w \in late : w.path \in Sources
    OBVIOUS
  <2>4. files[Old] /= Absent /\ files[Old].edits \subseteq mv.plan[Old].edits
    BY <2>1
  <2>5. patch /= Nobody => patch.path \in Sources
    BY <2>1 DEF PatchType
  <2>6. Planned' = Planned /\ Planned \subseteq Sources
    BY <2>1
  <2> QED
    BY <2>1, <2>2, <2>3, <2>4, <2>5, <2>6
<1>19. CASE RewriteRenamed
  <2>1. Puts(New, mv.plan[Old], "writing") /\ mv.stage = "renamed"
    BY <1>19 DEF RewriteRenamed
  <2>2. /\ files'[New] = mv.plan[Old]
        /\ \A p \in Paths \ {New} : files'[p] = files[p]
        /\ mv'.stage = "writing" /\ mv'.known = mv.known /\ mv'.toRead = mv.toRead
        /\ mv'.toWrite = mv.toWrite /\ mv'.inFlight = mv.inFlight /\ mv'.plan = mv.plan
        /\ UNCHANGED <<caseOnly, late, patch, acked, missed, overrun>>
    BY <2>1, PutFields
  <2>3. \A s \in Sources : files'[s] = files[s]
    BY <2>2
  <2>4. \A w \in late : w.path \in Sources
    OBVIOUS
  <2>5. caseOnly /\ files[Old] = Absent /\ files'[Old] = Absent
    BY <2>1, <2>2 DEF IsMovedNote
  <2>6. patch /= Nobody => patch.path \in Sources
    BY <2>1 DEF PatchType
  <2>7. Planned' = Planned /\ Planned \subseteq Sources
    BY <2>1, <2>2
  <2> QED
    BY <2>1, <2>2, <2>3, <2>4, <2>5, <2>6, <2>7
<1>20. CASE RewriteFails
  BY <1>20 DEF RewriteFails, End, NoMove, NoPlan
<1>21. CASE DestinationFails
  BY <1>21 DEF DestinationFails, Aborts, End, NoMove, NoPlan
<1>22. ASSUME NEW b \in SUBSET Sources, StartBatch(b) PROVE WritesKeepEdits'
  BY <1>22 DEF StartBatch
<1>23. ASSUME NEW s \in Sources, WriteSource(s) PROVE WritesKeepEdits'
  BY <1>23 DEF WriteSource
<1>24. ASSUME NEW s \in Sources, WriteFails(s) PROVE WritesKeepEdits'
  BY <1>24 DEF WriteFails, End, NoMove, NoPlan
<1>25. ASSUME NEW w \in late, LateWrite(w) PROVE WritesKeepEdits'
  BY <1>25 DEF LateWrite
<1>26. ASSUME NEW w \in late, LateFailure(w) PROVE WritesKeepEdits'
  BY <1>26 DEF LateFailure
<1>27. CASE WritesEnd
  BY <1>27 DEF WritesEnd, End, NoMove, NoPlan
<1>28. CASE UnlinkOld
  BY <1>28 DEF UnlinkOld, End, NoMove, NoPlan
<1>29. CASE UnlinkFails
  BY <1>29 DEF UnlinkFails, End, NoMove, NoPlan
<1>30. ASSUME NEW q \in Patches, NEW p \in Paths, NEW link \in BOOLEAN, PatchStarts(q, p, link)
      PROVE  WritesKeepEdits'
  BY <1>30 DEF PatchStarts
<1>31. CASE PatchWrites
  <2>1. /\ patch \in PatchType /\ patch' = Nobody
        /\ files'[patch.path] /= Absent
        /\ files'[patch.path].edits = patch.read.edits \union {patch.patch}
        /\ files'[patch.path].link = patch.link
        /\ \A q \in Paths \ {patch.path} : files'[q] = files[q]
        /\ acked' = acked \union {patch.patch}
        /\ missed' = IF patch.link = "old" THEN missed \union {patch.path} ELSE missed
        /\ UNCHANGED <<caseOnly, mv, late, overrun>>
    BY <1>31, PatchFields
  <2>2. /\ patch.path \in Paths /\ patch.path \notin MoveLocks /\ patch /= Nobody
        /\ files[patch.path] /= Absent /\ SameEdits(files[patch.path], patch.read)
    BY <1>31, <2>1 DEF PatchType, PatchWrites
  <2>3. Planned' = Planned /\ patch.path \notin Planned /\ Planned \subseteq Sources
    BY <2>1, <2>2
  <2>4. \A s \in Planned : SameEdits(files'[s], mv'.plan[s])
    BY <2>1, <2>3
  <2>5. ASSUME NEW w \in late PROVE w.content.edits \subseteq files'[w.path].edits \union overrun
    <3>1. CASE w.path = patch.path
      BY <2>1, <2>2, <3>1
    <3>2. CASE w.path /= patch.path
      BY <2>1, <3>2
    <3> QED
      BY <3>1, <3>2
  <2>6. mv.stage \notin Done \union {"locking"} => patch.path \notin {Old, New}
    BY <2>2
  <2>7. mv.stage \notin Done \union {"locking"} => files'[Old] = files[Old] /\ files'[New] = files[New]
    BY <2>1, <2>6
  <2>8. caseOnly => files'[Old] = Absent \/ files'[New] = Absent
    BY <2>1, <2>2
  <2> QED
    BY <2>1, <2>3, <2>4, <2>5, <2>7, <2>8
<1>32. CASE HostCreates
  <2>1. /\ ~caseOnly /\ files[New] = Absent /\ files'[New] = HostFile
        /\ \A q \in Paths \ {New} : files'[q] = files[q]
        /\ UNCHANGED <<caseOnly, mv, late, patch, overrun>>
    BY <1>32 DEF HostCreates
  <2>2. \A s \in Sources : files'[s] = files[s]
    BY <2>1
  <2>3. \A w \in late : w.path \in Sources
    OBVIOUS
  <2>4. mv.stage \notin {"reserved", "renamed", "writing", "unlink"}
    BY <2>1, ContentFields DEF IsMovedNote
  <2>5. patch /= Nobody => patch.path \in Paths \ {New}
    BY <2>1 DEF PatchType
  <2>6. Planned' = Planned /\ Planned \subseteq Sources
    BY <2>1
  <2> QED
    BY <2>1, <2>2, <2>3, <2>4, <2>5, <2>6
<1>33. CASE UserDeletesNew
  <2>1. UserDeletes(New, Old)
    BY <1>33 DEF UserDeletesNew
  <2>2. /\ ~caseOnly /\ (patch /= Nobody => patch.path \notin {New, Old})
        /\ files[New] /= Absent /\ files[Old] /= Absent
        /\ files'[New] = Absent
        /\ \A q \in Paths \ {New} : files'[q] = files[q]
        /\ acked' = acked \ (files[New].edits \ files[Old].edits)
        /\ UNCHANGED <<caseOnly, mv, late, patch, overrun>>
    BY <2>1, DeletionFields
  <2>3. mv.stage \in {"incomplete", "idle", "aborted"}
    BY <1>33 DEF UserDeletesNew
  <2>4. \A s \in Sources : files'[s] = files[s]
    BY <2>2
  <2>5. \A w \in late : w.path \in Sources
    OBVIOUS
  <2>6. Planned' = {}
    BY <2>2, <2>3
  <2> QED
    BY <2>2, <2>3, <2>4, <2>5, <2>6 DEF PatchType
<1>34. CASE UserDeletesOld
  <2>1. UserDeletes(Old, New)
    BY <1>34 DEF UserDeletesOld
  <2>2. /\ ~caseOnly /\ (patch /= Nobody => patch.path \notin {Old, New})
        /\ files[Old] /= Absent /\ files[New] /= Absent
        /\ files'[Old] = Absent
        /\ \A q \in Paths \ {Old} : files'[q] = files[q]
        /\ acked' = acked \ (files[Old].edits \ files[New].edits)
        /\ UNCHANGED <<caseOnly, mv, late, patch, overrun>>
    BY <2>1, DeletionFields
  <2>3. mv.stage = "not_deleted"
    BY <1>34 DEF UserDeletesOld
  <2>4. \A s \in Sources : files'[s] = files[s]
    BY <2>2
  <2>5. \A w \in late : w.path \in Sources
    OBVIOUS
  <2>6. Planned' = {}
    BY <2>2, <2>3
  <2> QED
    BY <2>2, <2>3, <2>4, <2>5, <2>6 DEF PatchType
<1>35. CASE Crash
  BY <1>35 DEF Crash, NoMove, NoPlan
<1> HIDE DEF MoveInvariant, TypeOK, PathsHold, WritesArePlanned, NoteIsAt, LocksHold,
             WritesKeepEdits
<1> QED
  BY <1>1, <1>2, <1>3, <1>4, <1>5, <1>6, <1>7, <1>8, <1>9, <1>10, <1>11, <1>12, <1>13, <1>14,
     <1>15, <1>16, <1>17, <1>18, <1>19, <1>20, <1>21, <1>22, <1>23, <1>24, <1>25, <1>26, <1>27,
     <1>28, <1>29, <1>30, <1>31, <1>32, <1>33, <1>34, <1>35
     DEF Next, Verify, Preflight, Commit, Others

\* No step but a late write loses a patch.
LEMMA SurviveStep ==
    MoveInvariant /\ LocksHold /\ WritesKeepEdits /\ PatchesSurviveMoves /\ Next =>
        PatchesSurviveMoves'
<1> SUFFICES ASSUME MoveInvariant, LocksHold, WritesKeepEdits, PatchesSurviveMoves, Next
             PROVE  PatchesSurviveMoves'
  OBVIOUS
<1> USE PathAssumption, AbsentAssumption DEF MoveInvariant, PathsHold, WritesArePlanned,
        NoteIsAt, LocksHold, WritesKeepEdits, SameEdits, PatchesSurviveMoves, Lost, Planned,
        TypeOK, MoveType, Stages, Done, Paths, setting, patchVars, history
<1>1. ASSUME NEW indexed \in SUBSET Sources, CallMove(indexed) PROVE PatchesSurviveMoves'
  BY <1>1 DEF CallMove, NoMove, NoPlan
<1>2. CASE Lock
  BY <1>2 DEF Lock
<1>3. CASE Rejected
  BY <1>3 DEF Rejected, Aborts, End, NoMove, NoPlan
<1>4. ASSUME NEW s \in Sources, ScanNote(s) PROVE PatchesSurviveMoves'
  BY <1>4 DEF ScanNote
<1>5. ASSUME NEW s \in Sources, ScanSkips(s) PROVE PatchesSurviveMoves'
  BY <1>5 DEF ScanSkips
<1>6. CASE ScanFindsNone
  BY <1>6 DEF ScanFindsNone
<1>7. CASE ScanWidens
  BY <1>7 DEF ScanWidens
<1>8. CASE ScanGivesUp
  BY <1>8 DEF ScanGivesUp, Aborts, End, NoMove, NoPlan
<1>9. CASE CheckPaths
  BY <1>9 DEF CheckPaths, Startable
<1>10. CASE CheckFails
  BY <1>10 DEF CheckFails, Aborts, End, NoMove, NoPlan
<1>11. ASSUME NEW p \in Sources \union {Old}, PlanFile(p) PROVE PatchesSurviveMoves'
  BY <1>11 DEF PlanFile
<1>12. CASE PlanFails
  BY <1>12 DEF PlanFails, Aborts, End, NoMove, NoPlan
<1>13. CASE PreflightEnds
  BY <1>13 DEF PreflightEnds
<1>14. CASE LinkDestination
  BY <1>14 DEF LinkDestination, Puts
<1>15. CASE ReserveDestination
  BY <1>15 DEF ReserveDestination, Puts
<1>16. CASE SwapDestination
  <2>1. Puts(New, mv.plan[Old], "writing") /\ mv.stage = "reserved"
    BY <1>16 DEF SwapDestination
  <2>2. /\ files'[New] = mv.plan[Old]
        /\ \A p \in Paths \ {New} : files'[p] = files[p]
        /\ mv'.stage = "writing" /\ mv'.known = mv.known /\ mv'.toRead = mv.toRead
        /\ mv'.toWrite = mv.toWrite /\ mv'.inFlight = mv.inFlight /\ mv'.plan = mv.plan
        /\ UNCHANGED <<caseOnly, late, patch, acked, missed, overrun>>
    BY <2>1, PutFields
  <2> QED
    BY <2>1, <2>2, ContentFields
<1>17. CASE SwapFails
  <2>1. /\ mv.stage = "reserved" /\ UNCHANGED <<acked, overrun>>
        /\ files'[New] \in {Absent, files[New]}
        /\ \A p \in Paths \ {New} : files'[p] = files[p]
    BY <1>17 DEF SwapFails
  <2> QED
    BY <2>1, ContentFields
<1>18. CASE RenameInPlace
  BY <1>18 DEF RenameInPlace
<1>19. CASE RewriteRenamed
  <2>1. Puts(New, mv.plan[Old], "writing") /\ mv.stage = "renamed"
    BY <1>19 DEF RewriteRenamed
  <2>2. /\ files'[New] = mv.plan[Old]
        /\ \A p \in Paths \ {New} : files'[p] = files[p]
        /\ mv'.stage = "writing" /\ mv'.known = mv.known /\ mv'.toRead = mv.toRead
        /\ mv'.toWrite = mv.toWrite /\ mv'.inFlight = mv.inFlight /\ mv'.plan = mv.plan
        /\ UNCHANGED <<caseOnly, late, patch, acked, missed, overrun>>
    BY <2>1, PutFields
  <2>3. files[New].edits \subseteq files'[New].edits /\ files'[New] /= Absent
    BY <2>1, <2>2 DEF IsMovedNote
  <2> QED
    BY <2>2, <2>3
<1>20. CASE RewriteFails
  BY <1>20 DEF RewriteFails, End, NoMove, NoPlan
<1>21. CASE DestinationFails
  BY <1>21 DEF DestinationFails, Aborts, End, NoMove, NoPlan
<1>22. ASSUME NEW b \in SUBSET Sources, StartBatch(b) PROVE PatchesSurviveMoves'
  BY <1>22 DEF StartBatch
<1>23. ASSUME NEW s \in Sources, WriteSource(s) PROVE PatchesSurviveMoves'
  BY <1>23 DEF WriteSource
<1>24. ASSUME NEW s \in Sources, WriteFails(s) PROVE PatchesSurviveMoves'
  BY <1>24 DEF WriteFails, End, NoMove, NoPlan
<1>25. ASSUME NEW w \in late, LateWrite(w) PROVE PatchesSurviveMoves'
  BY <1>25 DEF LateWrite
<1>26. ASSUME NEW w \in late, LateFailure(w) PROVE PatchesSurviveMoves'
  BY <1>26 DEF LateFailure
<1>27. CASE WritesEnd
  BY <1>27 DEF WritesEnd, End, NoMove, NoPlan
<1>28. CASE UnlinkOld
  <2>1. /\ mv.stage = "unlink" /\ files'[Old] = Absent /\ UNCHANGED <<acked, overrun>>
        /\ \A p \in Paths \ {Old} : files'[p] = files[p]
    BY <1>28 DEF UnlinkOld
  <2>2. files[New] /= Absent /\ (files[Old] /= Absent => files[Old].edits \subseteq files[New].edits)
    BY <2>1 DEF IsMovedNote
  <2> QED
    BY <2>1, <2>2
<1>29. CASE UnlinkFails
  BY <1>29 DEF UnlinkFails, End, NoMove, NoPlan
<1>30. ASSUME NEW q \in Patches, NEW p \in Paths, NEW link \in BOOLEAN, PatchStarts(q, p, link)
      PROVE  PatchesSurviveMoves'
  BY <1>30 DEF PatchStarts
<1>31. CASE PatchWrites
  <2>1. /\ patch \in PatchType /\ patch' = Nobody
        /\ files'[patch.path] /= Absent
        /\ files'[patch.path].edits = patch.read.edits \union {patch.patch}
        /\ files'[patch.path].link = patch.link
        /\ \A q \in Paths \ {patch.path} : files'[q] = files[q]
        /\ acked' = acked \union {patch.patch}
        /\ missed' = IF patch.link = "old" THEN missed \union {patch.path} ELSE missed
        /\ UNCHANGED <<caseOnly, mv, late, overrun>>
    BY <1>31, PatchFields
  <2>2. patch.path \in Paths /\ SameEdits(files[patch.path], patch.read)
    BY <1>31, <2>1 DEF PatchType, PatchWrites
  <2>3. ASSUME NEW q \in Lost' PROVE q \in overrun
    <3>1. q \in acked /\ q \notin files'[patch.path].edits
      BY <2>1, <2>2
    <3>2. CASE q \in files[patch.path].edits
      BY <2>1, <2>2, <3>1, <3>2
    <3>3. CASE q \notin files[patch.path].edits
      BY <2>1, <2>2, <3>1, <3>3
    <3> QED
      BY <3>2, <3>3
  <2> QED
    BY <2>1, <2>3
<1>32. CASE HostCreates
  BY <1>32 DEF HostCreates, HostFile
<1>33. CASE UserDeletesNew
  BY <1>33 DEF UserDeletesNew, UserDeletes
<1>34. CASE UserDeletesOld
  BY <1>34 DEF UserDeletesOld, UserDeletes
<1>35. CASE Crash
  BY <1>35 DEF Crash, NoMove, NoPlan
<1> HIDE DEF MoveInvariant, TypeOK, PathsHold, WritesArePlanned, NoteIsAt, LocksHold,
             WritesKeepEdits, PatchesSurviveMoves
<1> QED
  BY <1>1, <1>2, <1>3, <1>4, <1>5, <1>6, <1>7, <1>8, <1>9, <1>10, <1>11, <1>12, <1>13, <1>14,
     <1>15, <1>16, <1>17, <1>18, <1>19, <1>20, <1>21, <1>22, <1>23, <1>24, <1>25, <1>26, <1>27,
     <1>28, <1>29, <1>30, <1>31, <1>32, <1>33, <1>34, <1>35
     DEF Next, Verify, Preflight, Commit, Others

-----------------------------------------------------------------------------
(* The theorems about links and patches                                        *)

\* Initially no move and no patch is under way.
LEMMA FollowInit == Init => FollowInvariant
<1> SUFFICES ASSUME Init PROVE FollowInvariant
  OBVIOUS
<1>1. /\ mv.stage = "idle" /\ mv.known = {} /\ mv.toRead = {}
      /\ mv.toWrite = {} /\ mv.inFlight = {}
      /\ \A p \in Sources \union {Old} : mv.plan[p] = Absent
  BY DEF Init, NoMove, NoPlan
<1>2. /\ files[New] = Absent /\ late = {} /\ patch = Nobody /\ acked = {} /\ overrun = {}
  BY DEF Init, Paths
<1> QED
  BY <1>1, <1>2 DEF FollowInvariant, LocksHold, PlansAreRewritten, LinksAreTracked,
     WritesKeepEdits, PatchesSurviveMoves, Lost, Planned, Done, Linking

\* Every step keeps the invariant.
LEMMA FollowNext == MoveInvariant /\ FollowInvariant /\ [Next]_vars => FollowInvariant'
<1> SUFFICES ASSUME MoveInvariant, FollowInvariant, [Next]_vars PROVE FollowInvariant'
  OBVIOUS
<1>1. CASE Next
  BY <1>1, LocksStep, PlansStep, LinksStep, EditsStep, SurviveStep DEF FollowInvariant
<1>2. CASE UNCHANGED vars
  BY <1>2 DEF vars, setting, patchVars, history, FollowInvariant, LocksHold, MoveLocks,
     PlansAreRewritten, LinksAreTracked, Linking, Owed, WritesKeepEdits, SameEdits, Planned,
     PatchesSurviveMoves, Lost
<1> QED
  BY <1>1, <1>2

\* The invariant holds in every reachable state.
LEMMA FollowInvariantHolds == Spec => [](MoveInvariant /\ FollowInvariant)
  BY InitInvariant, FollowInit, NextInvariant, FollowNext, PTL DEF Spec

\* When a move ends well, every note that still links the old path is one the scan
\* could not read or one a patch linked since, through any number of failed attempts,
\* late writes, deletions by the user and restarts before it (note-mover.ts, the scan
\* of discoverBacklinksFromFilesystem and the batches of moveNote).
THEOREM LinksFollow == Spec => []LinksFollowTheNote
<1>1. MoveInvariant /\ FollowInvariant => LinksFollowTheNote
  <2> SUFFICES ASSUME LocksHold, LinksAreTracked, mv.stage \in {"done", "not_deleted"},
                      NEW p \in Sources \union {New}, Linking(p)
               PROVE  p \in missed
    BY DEF FollowInvariant, LinksFollowTheNote, Linking
  <2>1. Owed = {}
    BY DEF LocksHold, Owed, Planned, Done
  <2> QED
    BY <2>1 DEF LinksAreTracked
<1> QED
  BY <1>1, FollowInvariantHolds, PTL

\* A patch that was acknowledged stays in some copy of its note, whatever moves, fails
\* or restarts, unless a write that outlived its move went over it.
THEOREM PatchesSurvive == Spec => []PatchesSurviveMoves
<1>1. MoveInvariant /\ FollowInvariant => PatchesSurviveMoves
  BY DEF FollowInvariant
<1> QED
  BY <1>1, FollowInvariantHolds, PTL
=============================================================================
