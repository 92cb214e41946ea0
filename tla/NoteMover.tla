----------------------------- MODULE NoteMover -----------------------------
(* Moving a note (src/vault-mcp/vault-operations/note-mover.ts, moveNote): a    *)
(* scan verifies the linking notes, every rewrite is planned, then the new path *)
(* is written, the linking notes in batches, and the original is deleted last. *)
(* Beside it run patches of single notes under the same locks, the host, and   *)
(* the user, who does what an incomplete move's error says and moves again.    *)
(*                                                                             *)
(* The locks are the fail-fast ones of FileWriteLock: a move takes all of its  *)
(* files or none.  A link leads to the old path, the new path or neither.      *)
EXTENDS Integers, FiniteSets

CONSTANTS
    Sources,        \* the other notes
    Old, New,       \* the two paths of the move
    Patches,        \* patches of one note, each made at most once
    Absent,         \* no file
    Nobody,         \* no patch in progress
    Batch,          \* REWRITE_CONCURRENCY
    MaxRetries      \* MAX_BACKLINK_VERIFY_RETRIES

ASSUME BoundsAssumption == Batch \in Nat \ {0} /\ MaxRetries \in Nat
ASSUME PathAssumption == Old /= New /\ {Old, New} \intersect Sources = {}

Paths == Sources \union {Old, New}

\* What a file holds: a linking note, the moved note, a file of the host's or the
\* empty placeholder of a reservation; where its link leads; the patches in it.
Content == [of : {"source", "moved", "host", "empty"}, link : {"old", "new", "none"},
            edits : SUBSET Patches]
ASSUME AbsentAssumption == Absent \notin Content

Empty == [of |-> "empty", link |-> "none", edits |-> {}]
HostFile == [of |-> "host", link |-> "none", edits |-> {}]

VARIABLES
    files,      \* path -> content or Absent
    caseOnly,   \* whether the two paths are two spellings of one file
    hardLinks,  \* hardLinksSupported: not on a Windows drive
    mv,         \* the move: see NoMove
    late,       \* writes still going on after their move ended: [path, content]
    patch,      \* the patch in progress: [patch, path, link, read], or Nobody
    acked,      \* patches that were acknowledged
    wrote,      \* history: paths the last move changed
    missed,     \* history: notes the scan did not find, that link the old path
    replaced,   \* history: whether a file of the host's was overwritten
    overrun     \* history: patches a late write overwrote

setting == <<caseOnly, hardLinks>>
patchVars == <<patch, acked>>
history == <<wrote, missed, replaced, overrun>>
vars == <<files, setting, mv, late, patchVars, history>>

NoPlan == [p \in Sources \union {Old} |-> Absent]
NoMove == [stage |-> "idle",
           known |-> {},        \* backlinkSources
           attempt |-> 0,
           toScan |-> {},       \* notes the scan has yet to read
           found |-> {},        \* additionalSources
           toRead |-> {},       \* files the preflight has yet to read
           plan |-> NoPlan,     \* path -> the content to write, or Absent
           toWrite |-> {},      \* sources whose batch has not started
           inFlight |-> {}]     \* sources being written

\* Where a move is over, with what its caller is told: "aborted" is an error that
\* says nothing was written, "incomplete" one that names the copy to delete before
\* moving again, "not_deleted" one that asks to delete the original.
Done == {"idle", "done", "aborted", "incomplete", "not_deleted"}

\* Mutant: a move locks its two paths, not the notes it rewrites.
LocksItsPaths == IF mv.stage \in Done \union {"locking"} THEN {} ELSE {Old, New}

MoveLocks ==
    IF mv.stage \in Done \union {"locking"} THEN {} ELSE mv.known \union {Old, New}
PatchLocks == IF patch = Nobody THEN {} ELSE {patch.path}

Init ==
    /\ \E links \in [Sources \union {Old} -> {"old", "none"}] :
           files = [p \in Paths |->
                       IF p = New THEN Absent
                       ELSE [of |-> IF p = Old THEN "moved" ELSE "source",
                             link |-> links[p], edits |-> {}]]
    /\ caseOnly \in BOOLEAN /\ hardLinks \in BOOLEAN
    /\ mv = NoMove /\ late = {}
    /\ patch = Nobody /\ acked = {}
    /\ wrote = {} /\ missed = {} /\ replaced = FALSE /\ overrun = {}

\* Ends the move and releases its locks.  What is being written goes on.
End(result, writing) ==
    /\ mv' = [NoMove EXCEPT !.stage = result]
    /\ late' = late \union {[path |-> s, content |-> mv.plan[s]] : s \in writing}

Aborts == End("aborted", {}) /\ UNCHANGED <<files, setting, patchVars, history>>

-----------------------------------------------------------------------------
(* The locks and the scan                                                      *)

\* With the sources the index knows, which may lag behind the notes.
CallMove(indexed) ==
    /\ mv.stage \in Done
    /\ mv' = [NoMove EXCEPT !.stage = "locking", !.known = indexed]
    /\ wrote' = {}
    /\ UNCHANGED <<files, setting, late, patchVars, missed, replaced, overrun>>

\* withExclusiveMultiFileLock: all or none, without waiting.
Lock ==
    /\ mv.stage = "locking"
    /\ PatchLocks \intersect (mv.known \union {Old, New}) = {}
    /\ mv' = [mv EXCEPT !.stage = "scan", !.toScan = Sources \ mv.known, !.found = {}]
    /\ missed' = {}
    /\ UNCHANGED <<files, setting, late, patchVars, wrote, replaced, overrun>>

Rejected ==
    /\ mv.stage = "locking"
    /\ PatchLocks \intersect (mv.known \union {Old, New}) /= {}
    /\ Aborts

\* discoverBacklinksFromFilesystem reads one note ...
ScanNote(s) ==
    /\ mv.stage = "scan" /\ s \in mv.toScan
    /\ mv' = [mv EXCEPT !.toScan = @ \ {s},
                        !.found = IF files[s].link = "old" THEN @ \union {s} ELSE @]
    /\ UNCHANGED <<files, setting, late, patchVars, history>>

\* ... or skips one it cannot read.
ScanSkips(s) ==
    /\ mv.stage = "scan" /\ s \in mv.toScan
    /\ mv' = [mv EXCEPT !.toScan = @ \ {s}]
    /\ missed' = IF files[s].link = "old" THEN missed \union {s} ELSE missed
    /\ UNCHANGED <<files, setting, late, patchVars, wrote, replaced, overrun>>

\* Mutant: what the scan found is left to the next re-index.
ScanIgnored ==
    /\ mv.stage = "scan" /\ mv.toScan = {}
    /\ mv' = [mv EXCEPT !.stage = "check"]
    /\ UNCHANGED <<files, setting, late, patchVars, history>>

ScanFindsNone ==
    /\ mv.stage = "scan" /\ mv.toScan = {} /\ mv.found = {}
    /\ mv' = [mv EXCEPT !.stage = "check"]
    /\ UNCHANGED <<files, setting, late, patchVars, history>>

\* Mutant: one retry too many.
ScanRetriesOnceMore ==
    /\ mv.stage = "scan" /\ mv.toScan = {} /\ mv.found /= {}
    /\ mv.attempt <= MaxRetries
    /\ mv' = [mv EXCEPT !.stage = "locking", !.known = @ \union mv.found, !.attempt = @ + 1]
    /\ UNCHANGED <<files, setting, late, patchVars, history>>

\* The locks are released and a wider set is tried.
ScanWidens ==
    /\ mv.stage = "scan" /\ mv.toScan = {} /\ mv.found /= {}
    /\ mv.attempt < MaxRetries
    /\ mv' = [mv EXCEPT !.stage = "locking", !.known = @ \union mv.found, !.attempt = @ + 1]
    /\ UNCHANGED <<files, setting, late, patchVars, history>>

ScanGivesUp ==
    /\ mv.stage = "scan" /\ mv.toScan = {} /\ mv.found /= {}
    /\ mv.attempt >= MaxRetries
    /\ Aborts

-----------------------------------------------------------------------------
(* The preflight                                                               *)

Startable == files[Old] /= Absent /\ (caseOnly \/ files[New] = Absent)

CheckPaths ==
    /\ mv.stage = "check" /\ Startable
    /\ mv' = [mv EXCEPT !.stage = "preflight", !.toRead = mv.known \union {Old}]
    /\ UNCHANGED <<files, setting, late, patchVars, history>>

\* "note not found" or "destination exists".
CheckFails == mv.stage = "check" /\ ~Startable /\ Aborts

Rewritten(c) == [c EXCEPT !.link = IF @ = "old" THEN "new" ELSE @]

\* A source whose links stay is not written; the moved note is in any case.
PlanFile(p) ==
    /\ mv.stage = "preflight" /\ p \in mv.toRead
    /\ mv' = [mv EXCEPT !.toRead = @ \ {p},
                        !.plan[p] = IF p = Old \/ files[p].link = "old"
                                    THEN Rewritten(files[p]) ELSE Absent]
    /\ UNCHANGED <<files, setting, late, patchVars, history>>

\* A file that cannot be read, or properties that cannot be rewritten.
PlanFails == mv.stage = "preflight" /\ mv.toRead /= {} /\ Aborts

PreflightEnds ==
    /\ mv.stage = "preflight" /\ mv.toRead = {}
    /\ mv' = [mv EXCEPT !.stage = "destination",
                        !.toWrite = {s \in Sources : mv.plan[s] /= Absent}]
    /\ UNCHANGED <<files, setting, late, patchVars, history>>

-----------------------------------------------------------------------------
(* The commit                                                                  *)

Replaces(p) == replaced' = (replaced \/ (files[p] /= Absent /\ files[p].of = "host"))

\* The move puts c at p and goes on to the next stage.
Puts(p, c, next) ==
    /\ files' = [files EXCEPT ![p] = c]
    /\ wrote' = wrote \union {p}
    /\ Replaces(p)
    /\ mv' = [mv EXCEPT !.stage = next]
    /\ UNCHANGED <<setting, late, patchVars, missed, overrun>>

\* Mutant: the check before the preflight is taken to hold still.
PutUnchecked ==
    /\ mv.stage = "destination" /\ ~caseOnly /\ hardLinks
    /\ Puts(New, mv.plan[Old], "writing")

\* atomicWriteFileExclusive: a hard link fails when something is there.
LinkDestination ==
    /\ mv.stage = "destination" /\ ~caseOnly /\ hardLinks /\ files[New] = Absent
    /\ Puts(New, mv.plan[Old], "writing")

\* Without hard links an exclusive create reserves the path ...
ReserveDestination ==
    /\ mv.stage = "destination" /\ ~caseOnly /\ ~hardLinks /\ files[New] = Absent
    /\ Puts(New, Empty, "reserved")

\* ... and a rename puts the content there.
SwapDestination == mv.stage = "reserved" /\ Puts(New, mv.plan[Old], "writing")

\* Mutant: the failure is not passed on.
SwapFailureIgnored ==
    /\ mv.stage = "reserved"
    /\ mv' = [mv EXCEPT !.stage = "writing"]
    /\ UNCHANGED <<files, setting, late, patchVars, history>>

\* A failed swap removes the placeholder; removeLeftoverFile only logs a removal
\* that fails too, and the move's error is the same.
SwapFails ==
    /\ mv.stage = "reserved"
    /\ \/ files' = [files EXCEPT ![New] = Absent] /\ wrote' = wrote \ {New}
       \/ UNCHANGED <<files, wrote>>
    /\ End("aborted", {})
    /\ UNCHANGED <<setting, patchVars, missed, replaced, overrun>>

\* A case-only rename: one file, whose content follows if it changes.
RenameInPlace ==
    /\ mv.stage = "destination" /\ caseOnly
    /\ files' = [files EXCEPT ![New] = files[Old], ![Old] = Absent]
    /\ wrote' = wrote \union {Old, New}
    /\ mv' = [mv EXCEPT !.stage = IF mv.plan[Old] = files[Old] THEN "writing" ELSE "renamed"]
    /\ UNCHANGED <<setting, late, patchVars, missed, replaced, overrun>>

RewriteRenamed == mv.stage = "renamed" /\ Puts(New, mv.plan[Old], "writing")

RewriteFails ==
    /\ mv.stage = "renamed"
    /\ End("incomplete", {})
    /\ UNCHANGED <<files, setting, patchVars, history>>

\* The first write fails or finds the path taken.
DestinationFails == mv.stage = "destination" /\ Aborts

\* mapWithConcurrency: the next batch when the last one is through.
StartBatch(b) ==
    /\ mv.stage = "writing" /\ mv.inFlight = {} /\ mv.toWrite /= {}
    /\ b \subseteq mv.toWrite
    /\ Cardinality(b) = Batch \/ (Cardinality(b) < Batch /\ b = mv.toWrite)
    /\ mv' = [mv EXCEPT !.inFlight = b, !.toWrite = @ \ b]
    /\ UNCHANGED <<files, setting, late, patchVars, history>>

WriteSource(s) ==
    /\ s \in mv.inFlight
    /\ files' = [files EXCEPT ![s] = mv.plan[s]]
    /\ wrote' = wrote \union {s}
    /\ mv' = [mv EXCEPT !.inFlight = @ \ {s}]
    /\ UNCHANGED <<setting, late, patchVars, missed, replaced, overrun>>

\* Mutant: a failing write gives the error of the preflight.
WriteFailsAsAbort(s) ==
    /\ s \in mv.inFlight
    /\ End("aborted", mv.inFlight \ {s})
    /\ UNCHANGED <<files, setting, patchVars, history>>

\* The first failure ends the move; the batch's other writes go on without it.
WriteFails(s) ==
    /\ s \in mv.inFlight
    /\ End("incomplete", mv.inFlight \ {s})
    /\ UNCHANGED <<files, setting, patchVars, history>>

LateWrite(w) ==
    /\ w \in late
    /\ late' = late \ {w}
    /\ files' = [files EXCEPT ![w.path] = w.content]
    /\ overrun' = overrun \union (files[w.path].edits \ w.content.edits)
    /\ UNCHANGED <<setting, mv, patchVars, wrote, missed, replaced>>

LateFailure(w) ==
    /\ w \in late
    /\ late' = late \ {w}
    /\ UNCHANGED <<files, setting, mv, patchVars, history>>

WritesEnd ==
    /\ mv.stage = "writing" /\ mv.inFlight = {} /\ mv.toWrite = {}
    /\ IF caseOnly THEN End("done", {})
       ELSE mv' = [mv EXCEPT !.stage = "unlink"] /\ UNCHANGED late
    /\ UNCHANGED <<files, setting, patchVars, history>>

UnlinkOld ==
    /\ mv.stage = "unlink"
    /\ files' = [files EXCEPT ![Old] = Absent]
    /\ wrote' = wrote \union {Old}
    /\ End("done", {})
    /\ UNCHANGED <<setting, patchVars, missed, replaced, overrun>>

UnlinkFails ==
    /\ mv.stage = "unlink"
    /\ End("not_deleted", {})
    /\ UNCHANGED <<files, setting, patchVars, history>>

-----------------------------------------------------------------------------
(* Patches, the host, the user and crashes                                     *)

\* A tool edits one note under its exclusive lock, perhaps linking the old path.
PatchStarts(q, p, link) ==
    /\ patch = Nobody /\ q \notin acked
    /\ p \notin MoveLocks
    /\ files[p] /= Absent /\ files[p].of \in {"source", "moved"}
    /\ patch' = [patch |-> q, path |-> p, read |-> files[p],
                 link |-> IF link THEN "old" ELSE files[p].link]
    /\ UNCHANGED <<files, setting, mv, late, acked, history>>

PatchWrites ==
    /\ patch /= Nobody
    /\ files' = [files EXCEPT ![patch.path] =
                     [patch.read EXCEPT !.edits = @ \union {patch.patch}, !.link = patch.link]]
    /\ acked' = acked \union {patch.patch}
    /\ missed' = IF patch.link = "old" THEN missed \union {patch.path} ELSE missed
    /\ patch' = Nobody
    /\ UNCHANGED <<setting, mv, late, wrote, replaced, overrun>>

\* Obsidian or Sync puts another file at the new path.
HostCreates ==
    /\ ~caseOnly /\ files[New] = Absent
    /\ files' = [files EXCEPT ![New] = HostFile]
    /\ UNCHANGED <<setting, mv, late, patchVars, history>>

\* The user deletes the copy the error names.  Patches only that copy holds go
\* with it, on purpose.
UserDeletes(p, kept) ==
    /\ ~caseOnly /\ PatchLocks \intersect {p, kept} = {}
    /\ files[p] /= Absent /\ files[kept] /= Absent /\ files[kept].of = "moved"
    /\ files' = [files EXCEPT ![p] = Absent]
    /\ acked' = acked \ (files[p].edits \ files[kept].edits)
    /\ UNCHANGED <<setting, mv, late, patch, history>>

UserDeletesNew == mv.stage \in {"incomplete", "idle", "aborted"} /\ UserDeletes(New, Old)
UserDeletesOld == mv.stage = "not_deleted" /\ UserDeletes(Old, New)

Crash ==
    /\ mv /= NoMove \/ late /= {} \/ patch /= Nobody
    /\ mv' = NoMove /\ late' = {} /\ patch' = Nobody
    /\ UNCHANGED <<files, setting, acked, history>>

-----------------------------------------------------------------------------
Verify ==
    \/ \E indexed \in SUBSET Sources : CallMove(indexed)
    \/ Lock \/ Rejected
    \/ \E s \in Sources : ScanNote(s) \/ ScanSkips(s)
    \/ ScanFindsNone \/ ScanWidens \/ ScanGivesUp

Preflight ==
    \/ CheckPaths \/ CheckFails
    \/ \E p \in Sources \union {Old} : PlanFile(p)
    \/ PlanFails \/ PreflightEnds

Commit ==
    \/ LinkDestination \/ ReserveDestination \/ SwapDestination \/ SwapFails
    \/ RenameInPlace \/ RewriteRenamed \/ RewriteFails \/ DestinationFails
    \/ \E b \in SUBSET Sources : StartBatch(b)
    \/ \E s \in Sources : WriteSource(s) \/ WriteFails(s)
    \/ \E w \in late : LateWrite(w) \/ LateFailure(w)
    \/ WritesEnd \/ UnlinkOld \/ UnlinkFails

Others ==
    \/ \E q \in Patches, p \in Paths, link \in BOOLEAN : PatchStarts(q, p, link)
    \/ PatchWrites
    \/ HostCreates \/ UserDeletesNew \/ UserDeletesOld

Next == Verify \/ Preflight \/ Commit \/ Others \/ Crash

Spec == Init /\ [][Next]_vars

-----------------------------------------------------------------------------
(* Properties                                                                  *)

Stages == Done \union {"locking", "scan", "check", "preflight", "destination",
                       "reserved", "renamed", "writing", "unlink"}

MoveType ==
    [stage : Stages, known : SUBSET Sources, attempt : 0 .. MaxRetries,
     toScan : SUBSET Sources, found : SUBSET Sources,
     toRead : SUBSET (Sources \union {Old}),
     plan : [Sources \union {Old} -> Content \union {Absent}],
     toWrite : SUBSET Sources, inFlight : SUBSET Sources]

PatchType == [patch : Patches, path : Paths, read : Content, link : {"old", "new", "none"}]

\* The type of the state.
TypeOK ==
    /\ files \in [Paths -> Content \union {Absent}]
    /\ caseOnly \in BOOLEAN /\ hardLinks \in BOOLEAN
    /\ mv \in MoveType
    /\ late \subseteq [path : Sources, content : Content]
    /\ patch \in PatchType \union {Nobody}
    /\ acked \subseteq Patches
    /\ wrote \subseteq Paths /\ missed \subseteq Paths
    /\ replaced \in BOOLEAN
    /\ overrun \subseteq Patches

\* Wherever a move fails or the server stops, the note is complete at one of the
\* two paths (note-mover.ts 701-702).
NoteIsNeverLost == \E p \in {Old, New} : files[p] /= Absent /\ files[p].of = "moved"

\* A move whose error says that nothing was written wrote no note: it changed no
\* path at all, or only left the empty placeholder of its reservation at the new
\* path, where there are no hard links and removing it failed as well as the swap
\* (note-mover.ts 1071, vault-filesystem.ts 270-283).
AbortedMovesWroteNoNote ==
    mv.stage = "aborted" /\ wrote /= {} =>
        /\ wrote = {New} /\ ~caseOnly /\ ~hardLinks
        /\ files[New] \in {Empty, HostFile, Absent}

\* After a move, no note the scan could read links the old path, unless a patch
\* linked it since; also when an earlier attempt failed half-way, the user deleted
\* the new copy and moved again.
LinksFollowTheNote ==
    mv.stage \in {"done", "not_deleted"} =>
        \A p \in Sources \union {New} :
            files[p] /= Absent /\ files[p].link = "old" => p \in missed

\* The move never overwrites a file the host put at the new path.
HostFilesAreKept == ~replaced

Lost == {q \in acked : \A p \in Paths : files[p] = Absent \/ q \notin files[p].edits}

\* No acknowledged patch is lost to a move, of a source or of the moved note itself,
\* but for a write still going on after its move failed.
PatchesSurviveMoves == Lost \subseteq overrun

\* ARCHITECTURE.md 1268-1271: the locks span the whole read-plan-write.
PatchesAlwaysSurvive == Lost = {}
=============================================================================
