--------------------------- MODULE TrashRetention ---------------------------
(* Notes in .trash/ and the rows that decide when the sweep deletes them        *)
(* (src/vault-mcp/vault-operations/vault-filesystem.ts, trash-sweeper.ts): a    *)
(* delete claims a name, renames the note there and records it; the sweep and   *)
(* the boot purge go through the rows, one at a time under the trash lock; the  *)
(* host (Obsidian, the user) moves and removes files whenever it likes.         *)
(*                                                                             *)
(* One note path is modelled, with its candidate names in the trash in order.  *)
(* A file stands for its identity (inode, size, modification time).  Time      *)
(* counts in steps longer than the minute the sweep allows a change time to    *)
(* run past its row, so "within the minute" is "in the same step".  The lock   *)
(* is the one FileWriteLock models, as the mutual exclusion proved there.      *)
EXTENDS Integers

CONSTANTS
    Files,          \* files, each with an identity of its own
    NameCount,      \* candidate names: note.md, note 1.md, ...
    None,           \* no file, no row, nobody
    Placeholder,    \* the empty file a claim creates
    Retention,      \* TRASH_RETENTION_DAYS, in steps
    MaxTime         \* bound on the clock

ASSUME BoundsAssumption == NameCount \in Nat \ {0} /\ Retention \in Nat /\ MaxTime \in Nat
ASSUME DistinctAssumption == {None, Placeholder} \intersect Files = {} /\ None /= Placeholder

Names == 1 .. NameCount
Times == 0 .. MaxTime
Row == [at : Times, id : Files \union {None}]
\* Who moved a file to the trash: the host; the server, until it has recorded the
\* move; or a move that is not to be recorded, "kept" once no row has its name.
Movers == {"host", "server", "recorded", "keeping", "kept"}
Trashing == [by : Movers, at : Times]
Holders == {"delete", "sweep", "purge"}
NoRows == [n \in Names |-> None]

\* The delete, the sweep and the boot purge in progress.
Deletes ==
    [stage : {"none", "waiting", "claim", "claimed", "landed", "identified"},
     recorded : BOOLEAN, name : Names, id : Files \union {None}]
Unlinking == [file : Files, last : Trashing, at : Times]
Sweeps ==
    [stage : {"none", "next", "row", "unlink", "drop"}, cutoff : Int,
     todo : SUBSET Names, name : Names, id : Files \union {None},
     seen : Trashing \union {None}, unlinked : Unlinking \union {None}]
Purges ==
    [stage : {"none", "next", "stat", "drop"},
     listed : [Names -> Row \union {None}], name : Names]
ASSUME NoneAssumption == None \notin Row \union Trashing \union Holders \union Unlinking

VARIABLES
    now,
    vault,      \* the file at the note's path, or None
    trash,      \* name -> file, Placeholder or None
    ctime,      \* file -> its change time in the trash; 0 elsewhere
    rows,       \* trash_entries: name -> row or None
    up,         \* whether the server runs
    holder,     \* the trash lock: None, "delete", "sweep" or "purge"
    del,        \* the delete in progress: [stage, recorded, name, id]
    sweep,      \* the sweep in progress: [stage, cutoff, todo, name, id], and in
                \* seen and unlinked the history of the entry at hand
    purge,      \* the boot purge: [stage, listed, name]; `listed` holds the
                \* rows still to do, as they were when listed
    trashed,    \* history: file -> [by, at] of its move to the trash; None elsewhere
    overwritten \* history: files a delete's rename replaced

serverVars == <<up, holder, del, sweep, purge>>
history == <<trashed, overwritten>>
vars == <<now, vault, trash, ctime, rows, serverVars, history>>

NoDelete == [stage |-> "none", recorded |-> FALSE, name |-> 1, id |-> None]
NoSweep == [stage |-> "none", cutoff |-> 0, todo |-> {}, name |-> 1, id |-> None,
            seen |-> None, unlinked |-> None]
NoPurge == [stage |-> "none", listed |-> NoRows, name |-> 1]

\* Rows from before identities were kept have none.
Init ==
    /\ now = 0
    /\ vault = None
    /\ trash = [n \in Names |-> None]
    /\ ctime = [f \in Files |-> 0]
    /\ rows \in [Names -> {None, [at |-> 0, id |-> None]}]
    /\ up = FALSE /\ holder = None
    /\ del = NoDelete /\ sweep = NoSweep /\ purge = NoPurge
    /\ trashed = [f \in Files |-> None]
    /\ overwritten = {}

-----------------------------------------------------------------------------
(* The host.  It is taken to leave the empty placeholder of a claim alone.     *)

\* An identity may come back once its file is gone.
HostCreates(f) ==
    /\ vault = None
    /\ \A n \in Names : trash[n] /= f
    /\ vault' = f
    /\ UNCHANGED <<now, trash, ctime, rows, serverVars, history>>

\* The file at n leaves the trash.
TakenOut(n) ==
    /\ trash' = [trash EXCEPT ![n] = None]
    /\ ctime' = [ctime EXCEPT ![trash[n]] = 0]
    /\ trashed' = [trashed EXCEPT ![trash[n]] = None]

\* Obsidian's own trash: the first free name, and no row.
HostTrashes(n) ==
    /\ vault /= None
    /\ trash[n] = None /\ \A m \in 1 .. n - 1 : trash[m] /= None
    /\ vault' = None
    /\ trash' = [trash EXCEPT ![n] = vault]
    /\ ctime' = [ctime EXCEPT ![vault] = now]
    /\ trashed' = [trashed EXCEPT ![vault] = [by |-> "host", at |-> now]]
    /\ UNCHANGED <<now, rows, serverVars, overwritten>>

HostRestores(n) ==
    /\ vault = None
    /\ trash[n] \in Files
    /\ vault' = trash[n]
    /\ TakenOut(n)
    /\ UNCHANGED <<now, rows, serverVars, overwritten>>

HostEmpties(n) ==
    /\ trash[n] \in Files
    /\ TakenOut(n)
    /\ UNCHANGED <<now, vault, rows, serverVars, overwritten>>

Tick ==
    /\ now < MaxTime
    /\ now' = now + 1
    /\ UNCHANGED <<vault, trash, ctime, rows, serverVars, history>>

-----------------------------------------------------------------------------
(* deleteNote and moveNoteToTrash                                              *)

\* Under the note's own lock: one delete of the note at a time.
DeleteStarts(recorded) ==
    /\ up /\ del.stage = "none" /\ vault /= None
    /\ del' = [NoDelete EXCEPT !.stage = "waiting", !.recorded = recorded]
    /\ UNCHANGED <<now, vault, trash, ctime, rows, up, holder, sweep, purge, history>>

DeleteLocks ==
    /\ del.stage = "waiting" /\ holder = None
    /\ holder' = "delete"
    /\ del' = [del EXCEPT !.stage = "claim"]
    /\ UNCHANGED <<now, vault, trash, ctime, rows, up, sweep, purge, history>>

DeleteEnds == del' = NoDelete /\ holder' = None

\* Mutant: looks for a free name without taking it.
CheckedNotClaimed ==
    /\ del.stage = "claim" /\ trash[del.name] = None
    /\ del' = [del EXCEPT !.stage = "claimed"]
    /\ UNCHANGED <<now, vault, trash, ctime, rows, up, holder, sweep, purge, history>>

\* claimTrashTarget: the exclusive create is the only existence check.
ClaimSucceeds ==
    /\ del.stage = "claim" /\ trash[del.name] = None
    /\ trash' = [trash EXCEPT ![del.name] = Placeholder]
    /\ del' = [del EXCEPT !.stage = "claimed"]
    /\ UNCHANGED <<now, vault, ctime, rows, up, holder, sweep, purge, history>>

\* Mutant: one name too many.
ClaimsPastTheLast ==
    /\ del.stage = "claim" /\ trash[del.name] /= None
    /\ IF del.name <= NameCount
       THEN del' = [del EXCEPT !.name = @ + 1] /\ UNCHANGED holder
       ELSE DeleteEnds
    /\ UNCHANGED <<now, vault, trash, ctime, rows, up, sweep, purge, history>>

\* The name is taken: the next one, or the error that all are.
ClaimFails ==
    /\ del.stage = "claim" /\ trash[del.name] /= None
    /\ IF del.name < NameCount
       THEN del' = [del EXCEPT !.name = @ + 1] /\ UNCHANGED holder
       ELSE DeleteEnds
    /\ UNCHANGED <<now, vault, trash, ctime, rows, up, sweep, purge, history>>

RenameNote ==
    /\ del.stage = "claimed" /\ vault /= None
    /\ vault' = None
    /\ trash' = [trash EXCEPT ![del.name] = vault]
    /\ overwritten' = IF trash[del.name] \in Files THEN overwritten \union {trash[del.name]}
                      ELSE overwritten
    /\ ctime' = [ctime EXCEPT ![vault] = now]
    /\ trashed' = [trashed EXCEPT ![vault] =
                       [by |-> IF del.recorded THEN "server" ELSE "keeping", at |-> now]]
    /\ del' = [del EXCEPT !.stage = "landed", !.id = None]
    /\ UNCHANGED <<now, rows, up, holder, sweep, purge>>

\* The note is gone by now, or the rename fails: the placeholder is removed, if
\* that does not fail too.
RenameFails ==
    /\ del.stage = "claimed"
    /\ trash' \in {trash, [trash EXCEPT ![del.name] = None]}
    /\ DeleteEnds
    /\ UNCHANGED <<now, vault, ctime, rows, up, sweep, purge, history>>

\* A row is dropped; a write that fails leaves it.
TryDrop(n) == rows' \in {rows, [rows EXCEPT ![n] = None]}

\* The copy a move leaves untracked, if it is still there.
Kept(f) ==
    IF f \in Files /\ trashed[f].by = "keeping" THEN [trashed EXCEPT ![f].by = "kept"]
    ELSE trashed

\* tryClearStaleTrashEntry after an unrecorded move ("local"): a failure is logged,
\* and the delete is acknowledged all the same.
StaleRowCleared ==
    /\ del.stage = "landed" /\ ~del.recorded
    /\ TryDrop(del.name)
    /\ trashed' = IF rows'[del.name] = None THEN Kept(trash[del.name]) ELSE trashed
    /\ DeleteEnds
    /\ UNCHANGED <<now, vault, trash, ctime, up, sweep, purge, overwritten>>

IdentityRead ==
    /\ del.stage = "landed" /\ del.recorded /\ trash[del.name] \in Files
    /\ del' = [del EXCEPT !.stage = "identified", !.id = trash[del.name]]
    /\ UNCHANGED <<now, vault, trash, ctime, rows, up, holder, sweep, purge, history>>

\* recordTrashEntry replaces whatever row the name had.
MoveRecorded ==
    /\ del.stage = "identified"
    /\ rows' = [rows EXCEPT ![del.name] = [at |-> now, id |-> del.id]]
    /\ trashed' = IF trash[del.name] = del.id
                  THEN [trashed EXCEPT ![del.id] = [by |-> "recorded", at |-> now]]
                  ELSE trashed
    /\ DeleteEnds
    /\ UNCHANGED <<now, vault, trash, ctime, up, sweep, purge, overwritten>>

\* The identity read or the row write fails: logged, and the stale row goes, if
\* that write does not fail too.
RecordFails ==
    /\ del.stage \in {"landed", "identified"} /\ del.recorded
    /\ TryDrop(del.name)
    /\ DeleteEnds
    /\ UNCHANGED <<now, vault, trash, ctime, up, sweep, purge, history>>

-----------------------------------------------------------------------------
(* The sweep                                                                   *)

Expired(row, cutoff) == row /= None /\ row.at < cutoff

\* sweepExpiredTrashEntries lists the expired rows before it takes any lock.  The
\* first sweep starts when the boot purge is over, each later one after the last.
SweepStarts ==
    /\ up /\ sweep.stage = "none" /\ purge.stage = "none"
    /\ LET cutoff == now - Retention
           due == {n \in Names : Expired(rows[n], cutoff)}
       IN  /\ due /= {}
           /\ sweep' = [NoSweep EXCEPT !.stage = "next", !.cutoff = cutoff, !.todo = due]
    /\ UNCHANGED <<now, vault, trash, ctime, rows, up, holder, del, purge, history>>

\* The row is read again under the lock.
StillExpired(n) == Expired(rows[n], sweep.cutoff)

SweepReturns ==
    /\ sweep' = [NoSweep EXCEPT !.stage = "next", !.cutoff = sweep.cutoff,
                               !.todo = sweep.todo]
    /\ holder' = None

SweepLocks(n) ==
    /\ sweep.stage = "next" /\ n \in sweep.todo /\ holder = None
    /\ IF StillExpired(n)
       THEN /\ holder' = "sweep"
            /\ sweep' = [sweep EXCEPT !.stage = "row", !.todo = @ \ {n}, !.name = n]
       ELSE /\ sweep' = [sweep EXCEPT !.todo = @ \ {n}]
            /\ UNCHANGED holder
    /\ UNCHANGED <<now, vault, trash, ctime, rows, up, del, purge, history>>

\* Mutant: the change time is not looked at.
MatchesIdentityOnly(row, f) == f \in Files /\ row.id = f

\* compareWithRecordedFile.
Matches(row, f) == f \in Files /\ row.id = f /\ ctime[f] <= row.at

\* The identity read: a missing file and one that does not match only lose the row.
SweepIdentifies ==
    /\ sweep.stage = "row"
    /\ IF Matches(rows[sweep.name], trash[sweep.name])
       THEN /\ sweep' = [sweep EXCEPT !.stage = "unlink", !.id = trash[sweep.name],
                                        !.seen = trashed[trash[sweep.name]]]
            /\ UNCHANGED <<holder, rows>>
       ELSE TryDrop(sweep.name) /\ SweepReturns
    /\ UNCHANGED <<now, vault, trash, ctime, up, del, purge, history>>

\* A path that cannot be resolved or read, or a file that cannot be removed.
SweepSkips ==
    /\ sweep.stage \in {"row", "unlink"}
    /\ SweepReturns
    /\ UNCHANGED <<now, vault, trash, ctime, rows, up, del, purge, history>>

\* unlink takes what is there by then, which the host may have swapped.
SweepUnlinks ==
    /\ sweep.stage = "unlink" /\ trash[sweep.name] \in Files
    /\ LET f == trash[sweep.name]
       IN  sweep' = [sweep EXCEPT !.stage = "drop",
                        !.unlinked = [file |-> f, last |-> trashed[f], at |-> now]]
    /\ TakenOut(sweep.name)
    /\ UNCHANGED <<now, vault, rows, up, holder, del, purge, overwritten>>

\* The row goes after the file, or after the file was found gone.
SweepDrops ==
    /\ \/ sweep.stage = "drop"
       \/ sweep.stage = "unlink" /\ trash[sweep.name] = None
    /\ TryDrop(sweep.name)
    /\ SweepReturns
    /\ UNCHANGED <<now, vault, trash, ctime, up, del, purge, history>>

SweepEnds ==
    /\ sweep.stage = "next" /\ sweep.todo = {}
    /\ sweep' = NoSweep
    /\ UNCHANGED <<now, vault, trash, ctime, rows, up, holder, del, purge, history>>

-----------------------------------------------------------------------------
(* The boot and its purge                                                      *)

\* A restart keeps the rows and the files; purgeOrphanedTrashEntries lists the rows.
Boot ==
    /\ ~up
    /\ up' = TRUE
    /\ purge' = [NoPurge EXCEPT !.stage = "next", !.listed = rows]
    /\ UNCHANGED <<now, vault, trash, ctime, rows, holder, del, sweep, history>>

\* A placeholder claimed before a crash stays.
Crash ==
    /\ up
    /\ up' = FALSE /\ holder' = None
    /\ del' = NoDelete /\ sweep' = NoSweep /\ purge' = NoPurge
    /\ UNCHANGED <<now, vault, trash, ctime, rows, history>>

\* The whole row is compared, under the lock.
Unchanged(n) == rows[n] = purge.listed[n]

\* Mutant: the row is looked at without the lock.
PurgesUnlocked(n) ==
    /\ purge.stage = "next" /\ purge.listed[n] /= None /\ Unchanged(n)
    /\ purge' = [purge EXCEPT !.stage = "stat", !.listed[n] = None, !.name = n]
    /\ UNCHANGED <<now, vault, trash, ctime, rows, up, holder, del, sweep, history>>

PurgeLocks(n) ==
    /\ purge.stage = "next" /\ purge.listed[n] /= None /\ holder = None
    /\ IF Unchanged(n)
       THEN /\ holder' = "purge"
            /\ purge' = [purge EXCEPT !.stage = "stat", !.listed[n] = None, !.name = n]
       ELSE /\ purge' = [purge EXCEPT !.listed[n] = None]
            /\ UNCHANGED holder
    /\ UNCHANGED <<now, vault, trash, ctime, rows, up, del, sweep, history>>

PurgeReturns == purge' = [purge EXCEPT !.stage = "next", !.name = 1] /\ holder' = None

\* Something is at the path, or it cannot be read.
PurgeKeeps ==
    /\ purge.stage = "stat"
    /\ PurgeReturns
    /\ UNCHANGED <<now, vault, trash, ctime, rows, up, del, sweep, history>>

PurgeFindsNothing ==
    /\ purge.stage = "stat" /\ trash[purge.name] = None
    /\ purge' = [purge EXCEPT !.stage = "drop"]
    /\ UNCHANGED <<now, vault, trash, ctime, rows, up, holder, del, sweep, history>>

PurgeDrops ==
    /\ purge.stage = "drop"
    /\ TryDrop(purge.name)
    /\ PurgeReturns
    /\ UNCHANGED <<now, vault, trash, ctime, up, del, sweep, history>>

PurgeEnds ==
    /\ purge.stage = "next" /\ purge.listed = NoRows
    /\ purge' = NoPurge
    /\ UNCHANGED <<now, vault, trash, ctime, rows, up, holder, del, sweep, history>>

-----------------------------------------------------------------------------
Host ==
    \/ \E f \in Files : HostCreates(f)
    \/ \E n \in Names : HostTrashes(n) \/ HostRestores(n) \/ HostEmpties(n)

Delete ==
    \/ \E recorded \in BOOLEAN : DeleteStarts(recorded)
    \/ DeleteLocks \/ ClaimSucceeds \/ ClaimFails \/ RenameNote \/ RenameFails
    \/ StaleRowCleared \/ IdentityRead \/ MoveRecorded \/ RecordFails

Sweep ==
    \/ SweepStarts
    \/ \E n \in Names : SweepLocks(n)
    \/ SweepIdentifies \/ SweepSkips \/ SweepUnlinks \/ SweepDrops \/ SweepEnds

Purge ==
    \/ \E n \in Names : PurgeLocks(n)
    \/ PurgeKeeps \/ PurgeFindsNothing \/ PurgeDrops \/ PurgeEnds

Next == Host \/ Tick \/ Delete \/ Sweep \/ Purge \/ Boot \/ Crash

Spec == Init /\ [][Next]_vars

-----------------------------------------------------------------------------
(* Properties                                                                  *)

\* The type of the state.
TypeOK ==
    /\ now \in Times
    /\ vault \in Files \union {None}
    /\ trash \in [Names -> Files \union {None, Placeholder}]
    /\ ctime \in [Files -> Times]
    /\ rows \in [Names -> Row \union {None}]
    /\ up \in BOOLEAN
    /\ holder \in Holders \union {None}
    /\ del \in Deletes /\ sweep \in Sweeps /\ purge \in Purges
    /\ trashed \in [Files -> Trashing \union {None}]
    /\ overwritten \subseteq Files

\* A file the sweep unlinks has been in the trash since the minute of its row, for
\* longer than the retention, and was not one the server moved there to be kept and
\* cleared the name for; unless the host swapped it in, or took it out and back,
\* after the identity read (trash-sweeper.ts 1-18).  A copy moved to be kept whose
\* name could not be cleared of an older row (the write failed, or a crash came
\* first) is judged by that row, and so goes only if it landed in that row's minute.
SweptCopiesWereDue ==
    LET u == sweep.unlinked
    IN  sweep.stage = "drop" /\ u.file = sweep.id /\ u.last = sweep.seen =>
            /\ u.last.at = rows[sweep.name].at
            /\ u.last.at < u.at - Retention
            /\ u.last.by /= "kept"

\* A copy whose move was recorded keeps its row as long as it lies in the trash
\* untouched, whatever the purge and the sweep were at when it landed: otherwise it
\* would be kept for ever.
RecordedCopiesStayTracked ==
    \A n \in Names :
        LET f == trash[n]
        IN  f \in Files /\ trashed[f] /= None /\ trashed[f].by = "recorded" =>
                rows[n] = [at |-> trashed[f].at, id |-> f]

\* No delete replaces a copy that is already in the trash (vault-filesystem.ts
\* 655-659).
CopiesAreNeverOverwritten == overwritten = {}
=============================================================================
