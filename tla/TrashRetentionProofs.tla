------------------------ MODULE TrashRetentionProofs ------------------------
(* Theorems about TrashRetention: type correctness, that no copy in the trash is *)
(* replaced, that a recorded copy keeps its row, and that the sweep unlinks only  *)
(* copies that were due.                                                         *)
EXTENDS TrashRetention, TLAPS

\* Whoever is at work in the trash holds its lock, and nobody is while the server is
\* down.
LockIsHeld ==
    /\ del.stage \in {"claim", "claimed", "landed", "identified"} <=> holder = "delete"
    /\ sweep.stage \in {"row", "unlink", "drop"} <=> holder = "sweep"
    /\ purge.stage \in {"stat", "drop"} <=> holder = "purge"
    /\ ~up => del.stage = "none" /\ sweep.stage = "none" /\ purge.stage = "none"

\* A file is in one place, and a claimed name holds nothing but its placeholder.
FilesHaveOnePlace ==
    /\ \A m, n \in Names : trash[m] \in Files /\ trash[m] = trash[n] => m = n
    /\ \A n \in Names : trash[n] \in Files => trash[n] /= vault
    /\ del.stage = "claimed" => trash[del.name] = Placeholder

\* A copy in the trash was last touched by its move, and since then at most by the
\* server settling whether to track it.
CopiesWereMoved ==
    \A n \in Names :
        LET f == trash[n]
        IN  f \in Files =>
                /\ trashed[f] /= None
                /\ ctime[f] <= trashed[f].at /\ trashed[f].at <= now
                /\ trashed[f].by /= "recorded" => ctime[f] = trashed[f].at

\* Rows and moves are not of the future, and a row that names the copy at its path
\* is no younger than the copy's move and not of a copy to be kept.
RowsAreOlder ==
    /\ \A n \in Names : rows[n] /= None => rows[n].at <= now
    /\ \A n \in Names : trash[n] \in Files /\ rows[n] /= None /\ rows[n].id = trash[n] =>
           rows[n].at <= trashed[trash[n]].at /\ trashed[trash[n]].by /= "kept"

\* What lies at a name whose row is about to be written or dropped was not recorded.
Unsettled(n) == trash[n] \in Files => trashed[trash[n]].by \in {"host", "server", "keeping"}
WritersSeeNewcomers ==
    /\ del.stage \in {"landed", "identified"} => Unsettled(del.name)
    /\ sweep.stage = "drop" => Unsettled(sweep.name)
    /\ purge.stage = "drop" => Unsettled(purge.name)

\* What the sweep knows of the entry at hand: its row has expired, the copy it
\* matched was moved when the row was written, and what it unlinked it unlinked
\* after its cutoff was due.
SweepKnowsItsEntry ==
    /\ sweep.stage /= "none" => sweep.cutoff <= now - Retention
    /\ sweep.stage \in {"row", "unlink", "drop"} =>
           Expired(rows[sweep.name], sweep.cutoff)
    /\ sweep.stage \in {"unlink", "drop"} =>
           /\ sweep.seen /= None
           /\ sweep.seen.at = rows[sweep.name].at /\ sweep.seen.by /= "kept"
    /\ sweep.stage = "drop" =>
           /\ sweep.unlinked /= None
           /\ sweep.cutoff <= sweep.unlinked.at - Retention

FilesType ==
    /\ now \in Times
    /\ vault \in Files \union {None}
    /\ trash \in [Names -> Files \union {None, Placeholder}]
    /\ ctime \in [Files -> Times]
    /\ rows \in [Names -> Row \union {None}]
    /\ up \in BOOLEAN
    /\ holder \in Holders \union {None}
    /\ trashed \in [Files -> Trashing \union {None}]
    /\ overwritten \subseteq Files

TrashInvariant ==
    /\ TypeOK
    /\ LockIsHeld
    /\ FilesHaveOnePlace
    /\ CopiesWereMoved
    /\ RowsAreOlder
    /\ WritersSeeNewcomers
    /\ RecordedCopiesStayTracked
    /\ SweepKnowsItsEntry
    /\ CopiesAreNeverOverwritten
-----------------------------------------------------------------------------
(* A step keeps each part                                                      *)

\* What is in progress when nothing is.
LEMMA NothingInProgress ==
    /\ NoDelete \in Deletes /\ NoDelete.stage = "none"
    /\ NoSweep \in Sweeps /\ NoSweep.stage = "none"
    /\ NoPurge \in Purges /\ NoPurge.stage = "none"
<1>1. NoDelete \in Deletes /\ NoDelete.stage = "none"
  BY BoundsAssumption DEF NoDelete, Deletes, Names
<1>2. NoSweep \in Sweeps /\ NoSweep.stage = "none"
  BY BoundsAssumption DEF NoSweep, Sweeps, Names
<1>3. NoPurge \in Purges /\ NoPurge.stage = "none"
  BY BoundsAssumption DEF NoPurge, Purges, NoRows, Names
<1> QED
  BY <1>1, <1>2, <1>3

\* The start of a sweep, field by field.
LEMMA SweepStartsFields ==
    ASSUME SweepStarts
    PROVE  /\ up /\ sweep.stage = "none"
           /\ UNCHANGED <<now, vault, trash, ctime, rows, up, holder, del, purge, history>>
           /\ sweep'.stage = "next" /\ sweep'.cutoff = now - Retention
<1> DEFINE due == {n \in Names : Expired(rows[n], now - Retention)}
<1>1. sweep' = [NoSweep EXCEPT !.stage = "next", !.cutoff = now - Retention, !.todo = due]
  BY DEF SweepStarts
<1>2. /\ up /\ sweep.stage = "none"
      /\ UNCHANGED <<now, vault, trash, ctime, rows, up, holder, del, purge, history>>
  BY Zenon DEF SweepStarts
<1> HIDE DEF due
<1>3. sweep'.stage = "next" /\ sweep'.cutoff = now - Retention
  BY <1>1, NothingInProgress DEF Sweeps
<1> QED
  BY <1>2, <1>3

\* The end of an entry, field by field.
LEMMA SweepReturnsFields ==
    ASSUME SweepReturns
    PROVE  sweep'.stage = "next" /\ sweep'.cutoff = sweep.cutoff /\ holder' = None
  BY NothingInProgress DEF SweepReturns, Sweeps

\* The lock of an entry, field by field.
LEMMA SweepLocksFields ==
    ASSUME NEW n \in Names, sweep \in Sweeps, SweepLocks(n)
    PROVE  /\ sweep.stage = "next" /\ holder = None
           /\ UNCHANGED <<now, vault, trash, ctime, rows, up, del, purge, history>>
           /\ sweep'.cutoff = sweep.cutoff
           /\ \/ StillExpired(n) /\ holder' = "sweep" /\ sweep'.stage = "row" /\ sweep'.name = n
              \/ UNCHANGED holder /\ sweep'.stage = "next"
<1>1. /\ sweep.stage = "next" /\ holder = None
      /\ UNCHANGED <<now, vault, trash, ctime, rows, up, del, purge, history>>
  BY Zenon DEF SweepLocks
<1>2. CASE StillExpired(n)
  <2>1. holder' = "sweep" /\ sweep' = [sweep EXCEPT !.stage = "row", !.todo = @ \ {n}, !.name = n]
    BY <1>2, Zenon DEF SweepLocks
  <2> QED
    BY <1>1, <1>2, <2>1 DEF Sweeps
<1>3. CASE ~StillExpired(n)
  <2>1. UNCHANGED holder /\ sweep' = [sweep EXCEPT !.todo = @ \ {n}]
    BY <1>3, Zenon DEF SweepLocks
  <2> QED
    BY <1>1, <2>1 DEF Sweeps
<1> QED
  BY <1>2, <1>3

\* The identity read of an entry, field by field.
LEMMA SweepIdentifiesFields ==
    ASSUME sweep \in Sweeps, SweepIdentifies
    PROVE  /\ sweep.stage = "row"
           /\ UNCHANGED <<now, vault, trash, ctime, up, del, purge, history>>
           /\ sweep'.cutoff = sweep.cutoff
           /\ \/ /\ Matches(rows[sweep.name], trash[sweep.name])
                 /\ UNCHANGED <<holder, rows>>
                 /\ sweep'.stage = "unlink" /\ sweep'.name = sweep.name
                 /\ sweep'.seen = trashed[trash[sweep.name]]
              \/ /\ ~Matches(rows[sweep.name], trash[sweep.name])
                 /\ TryDrop(sweep.name)
                 /\ sweep'.stage = "next" /\ holder' = None
<1>1. sweep.stage = "row" /\ UNCHANGED <<now, vault, trash, ctime, up, del, purge, history>>
  BY Zenon DEF SweepIdentifies
<1>2. CASE Matches(rows[sweep.name], trash[sweep.name])
  <2>1. /\ UNCHANGED <<holder, rows>>
        /\ sweep' = [sweep EXCEPT !.stage = "unlink", !.id = trash[sweep.name],
                                  !.seen = trashed[trash[sweep.name]]]
    BY <1>2, Zenon DEF SweepIdentifies
  <2> HIDE DEF Matches
  <2> QED
    BY <1>1, <1>2, <2>1 DEF Sweeps
<1>3. CASE ~Matches(rows[sweep.name], trash[sweep.name])
  <2>1. TryDrop(sweep.name) /\ SweepReturns
    BY <1>3, Zenon DEF SweepIdentifies
  <2> QED
    BY <1>1, <1>3, <2>1, SweepReturnsFields
<1> QED
  BY <1>2, <1>3

\* The unlinking of an entry's file, field by field.
LEMMA SweepUnlinksFields ==
    ASSUME sweep \in Sweeps, SweepUnlinks
    PROVE  /\ sweep.stage = "unlink" /\ trash[sweep.name] \in Files
           /\ UNCHANGED <<now, vault, rows, up, holder, del, purge, overwritten>>
           /\ TakenOut(sweep.name)
           /\ sweep'.stage = "drop" /\ sweep'.name = sweep.name
           /\ sweep'.cutoff = sweep.cutoff /\ sweep'.seen = sweep.seen
<1> DEFINE u == [file |-> trash[sweep.name], last |-> trashed[trash[sweep.name]], at |-> now]
<1>1. sweep' = [sweep EXCEPT !.stage = "drop", !.unlinked = u]
  BY Zenon DEF SweepUnlinks
<1>2. /\ sweep.stage = "unlink" /\ trash[sweep.name] \in Files
      /\ UNCHANGED <<now, vault, rows, up, holder, del, purge, overwritten>>
      /\ TakenOut(sweep.name)
  BY Zenon DEF SweepUnlinks
<1> HIDE DEF u
<1>3. /\ sweep'.stage = "drop" /\ sweep'.name = sweep.name
      /\ sweep'.cutoff = sweep.cutoff /\ sweep'.seen = sweep.seen
  BY <1>1 DEF Sweeps
<1> QED
  BY <1>2, <1>3

\* What is kept of an unlinking.
LEMMA UnlinkedField ==
    ASSUME sweep \in Sweeps, SweepUnlinks
    PROVE  sweep'.unlinked = [file |-> trash[sweep.name],
                              last |-> trashed[trash[sweep.name]], at |-> now]
<1> DEFINE u == [file |-> trash[sweep.name], last |-> trashed[trash[sweep.name]], at |-> now]
<1>1. sweep' = [sweep EXCEPT !.stage = "drop", !.unlinked = u]
  BY Zenon DEF SweepUnlinks
<1> HIDE DEF u
<1>2. sweep'.unlinked = u
  BY <1>1 DEF Sweeps
<1> QED
  BY <1>2 DEF u

\* The boot, field by field.
LEMMA BootFields ==
    ASSUME Boot
    PROVE  /\ ~up /\ up' /\ purge'.stage = "next"
           /\ UNCHANGED <<now, vault, trash, ctime, rows, holder, del, sweep, history>>
<1>1. purge' = [NoPurge EXCEPT !.stage = "next", !.listed = rows]
  BY DEF Boot
<1> QED
  BY <1>1, NothingInProgress DEF Boot, Purges

\* The lock of a purged entry, field by field.
LEMMA PurgeLocksFields ==
    ASSUME NEW n \in Names, purge \in Purges, PurgeLocks(n)
    PROVE  /\ purge.stage = "next" /\ holder = None
           /\ UNCHANGED <<now, vault, trash, ctime, rows, up, del, sweep, history>>
           /\ \/ holder' = "purge" /\ purge'.stage = "stat" /\ purge'.name = n
              \/ UNCHANGED holder /\ purge'.stage = "next"
<1>1. /\ purge.stage = "next" /\ holder = None
      /\ UNCHANGED <<now, vault, trash, ctime, rows, up, del, sweep, history>>
  BY Zenon DEF PurgeLocks
<1>2. CASE Unchanged(n)
  <2>1. holder' = "purge" /\ purge' = [purge EXCEPT !.stage = "stat", !.listed[n] = None, !.name = n]
    BY <1>2, Zenon DEF PurgeLocks
  <2> QED
    BY <1>1, <2>1 DEF Purges
<1>3. CASE ~Unchanged(n)
  <2>1. UNCHANGED holder /\ purge' = [purge EXCEPT !.listed[n] = None]
    BY <1>3, Zenon DEF PurgeLocks
  <2> QED
    BY <1>1, <2>1 DEF Purges
<1> QED
  BY <1>2, <1>3

\* A name that is taken, field by field.
LEMMA ClaimFailsFields ==
    ASSUME del \in Deletes, ClaimFails
    PROVE  /\ del.stage = "claim"
           /\ UNCHANGED <<now, vault, trash, ctime, rows, up, sweep, purge, history>>
           /\ \/ del'.stage = "claim" /\ UNCHANGED holder
              \/ del'.stage = "none" /\ holder' = None
<1>1. /\ del.stage = "claim"
      /\ UNCHANGED <<now, vault, trash, ctime, rows, up, sweep, purge, history>>
  BY Zenon DEF ClaimFails
<1>2. CASE del.name < NameCount
  <2>1. del' = [del EXCEPT !.name = @ + 1] /\ UNCHANGED holder
    BY <1>2, Zenon DEF ClaimFails
  <2> QED
    BY <1>1, <2>1 DEF Deletes
<1>3. CASE ~(del.name < NameCount)
  <2>1. DeleteEnds
    BY <1>3, Zenon DEF ClaimFails
  <2> QED
    BY <1>1, <2>1, NothingInProgress DEF DeleteEnds
<1> QED
  BY <1>2, <1>3

\* A dropped row, name by name.
LEMMA DroppedRows ==
    ASSUME rows \in [Names -> Row \union {None}], NEW n \in Names, TryDrop(n)
    PROVE  \A m \in Names : rows'[m] = rows[m] \/ (m = n /\ rows'[m] = None)
<1>1. CASE rows' = rows
  BY <1>1
<1>2. CASE rows' = [rows EXCEPT ![n] = None]
  BY <1>2
<1> QED
  BY <1>1, <1>2, Zenon DEF TryDrop

\* The clear of a stale row, field by field: a copy is kept where no row is left.
LEMMA StaleRowClearedFields ==
    ASSUME trashed \in [Files -> Trashing \union {None}], del \in Deletes,
           rows \in [Names -> Row \union {None}],
           \A n \in Names : trash[n] \in Files => trashed[trash[n]] /= None,
           StaleRowCleared
    PROVE  /\ trashed' \in [Files -> Trashing \union {None}]
           /\ rows' \in [Names -> Row \union {None}]
           /\ \A n \in Names : rows'[n] = rows[n] \/ rows'[n] = None
           /\ \A f \in Files :
                 \/ trashed'[f] = trashed[f]
                 \/ /\ f = trash[del.name] /\ rows'[del.name] = None
                    /\ trashed'[f] = [by |-> "kept", at |-> trashed[f].at]
<1> DEFINE f == trash[del.name]
<1>1. TryDrop(del.name) /\ del.name \in Names
  BY DEF StaleRowCleared, Deletes
<1>2. /\ rows' \in [Names -> Row \union {None}]
      /\ \A n \in Names : rows'[n] = rows[n] \/ rows'[n] = None
  BY <1>1 DEF TryDrop
<1>3. trashed' = trashed \/ (trashed' = Kept(f) /\ rows'[del.name] = None)
  BY DEF StaleRowCleared
<1>4. CASE f \in Files /\ trashed[f].by = "keeping" /\ trashed' = [trashed EXCEPT ![f].by = "kept"]
  <2>1. trashed[f] \in [by : Movers, at : Times]
    BY <1>1, <1>4 DEF Trashing
  <2>2. trashed[f] \in Trashing /\ [trashed[f] EXCEPT !.by = "kept"] = [by |-> "kept", at |-> trashed[f].at]
        /\ [by |-> "kept", at |-> trashed[f].at] \in Trashing
    BY <2>1 DEF Trashing, Movers
  <2>3. trashed' = [trashed EXCEPT ![f] = [by |-> "kept", at |-> trashed[f].at]]
    BY <1>4, <2>2
  <2> QED
    BY <1>2, <1>3, <1>4, <2>2, <2>3
<1> QED
  BY <1>2, <1>3, <1>4 DEF Kept

\* Files, rows and the histories keep their types.
LEMMA FilesStep == TypeOK /\ CopiesWereMoved /\ Next => FilesType'
<1> SUFFICES ASSUME TypeOK, CopiesWereMoved, Next
             PROVE  FilesType'
  OBVIOUS
<1> USE BoundsAssumption, DistinctAssumption, NoneAssumption DEF TypeOK, FilesType, Names,
        Times, Holders, serverVars, history
<1>1. ASSUME NEW f \in Files, HostCreates(f) PROVE FilesType'
  BY <1>1 DEF HostCreates
<1>2. ASSUME NEW n \in Names, HostTrashes(n) PROVE FilesType'
  BY <1>2 DEF HostTrashes, Movers, Trashing
<1>3. ASSUME NEW n \in Names, HostRestores(n) PROVE FilesType'
  BY <1>3 DEF HostRestores, TakenOut
<1>4. ASSUME NEW n \in Names, HostEmpties(n) PROVE FilesType'
  BY <1>4 DEF HostEmpties, TakenOut
<1>5. CASE Tick
  BY <1>5 DEF Tick, Sweeps
<1>6. ASSUME NEW recorded \in BOOLEAN, DeleteStarts(recorded) PROVE FilesType'
  BY <1>6 DEF DeleteStarts, NoDelete, Deletes
<1>7. CASE DeleteLocks
  BY <1>7 DEF DeleteLocks, Deletes
<1>8. CASE ClaimSucceeds
  BY <1>8 DEF ClaimSucceeds, Deletes
<1>9. CASE ClaimFails
  BY <1>9 DEF ClaimFails, DeleteEnds, NoDelete, Deletes
<1>10. CASE RenameNote
  BY <1>10 DEF RenameNote, Deletes, Movers, Trashing
<1>11. CASE RenameFails
  BY <1>11 DEF RenameFails, DeleteEnds, NoDelete, Deletes
<1>12. CASE StaleRowCleared
  BY <1>12, StaleRowClearedFields DEF StaleRowCleared, DeleteEnds, NoDelete, Deletes, CopiesWereMoved
<1>13. CASE IdentityRead
  BY <1>13 DEF IdentityRead, Deletes
<1>14. CASE MoveRecorded
  BY <1>14 DEF MoveRecorded, DeleteEnds, NoDelete, Deletes, Movers, Trashing, Row
<1>15. CASE RecordFails
  BY <1>15 DEF RecordFails, TryDrop, DeleteEnds, NoDelete, Deletes
<1>16. CASE SweepStarts
  BY <1>16 DEF SweepStarts, NoSweep, Sweeps
<1>17. ASSUME NEW n \in Names, SweepLocks(n) PROVE FilesType'
  BY <1>17 DEF SweepLocks, StillExpired, Sweeps
<1>18. CASE SweepIdentifies
  BY <1>18 DEF SweepIdentifies, Matches, TryDrop, SweepReturns, NoSweep, Sweeps
<1>19. CASE SweepSkips
  BY <1>19 DEF SweepSkips, SweepReturns, NoSweep, Sweeps
<1>20. CASE SweepUnlinks
  BY <1>20 DEF SweepUnlinks, TakenOut, Sweeps, Unlinking
<1>21. CASE SweepDrops
  BY <1>21 DEF SweepDrops, TryDrop, SweepReturns, NoSweep, Sweeps
<1>22. CASE SweepEnds
  BY <1>22 DEF SweepEnds, NoSweep, Sweeps
<1>23. ASSUME NEW n \in Names, PurgeLocks(n) PROVE FilesType'
  BY <1>23 DEF PurgeLocks, Unchanged, Purges, Row
<1>24. CASE PurgeKeeps
  BY <1>24 DEF PurgeKeeps, PurgeReturns, Purges
<1>25. CASE PurgeFindsNothing
  BY <1>25 DEF PurgeFindsNothing, Purges
<1>26. CASE PurgeDrops
  BY <1>26 DEF PurgeDrops, TryDrop, PurgeReturns, Purges
<1>27. CASE PurgeEnds
  BY <1>27 DEF PurgeEnds, NoPurge, Purges, Row, NoRows
<1>28. CASE Boot
  BY <1>28 DEF Boot, NoPurge, Purges, Row, NoRows
<1>29. CASE Crash
  BY <1>29 DEF Crash, NoDelete, NoSweep, NoPurge, Deletes, Sweeps, Purges, Row, NoRows
<1> QED
  BY <1>1, <1>2, <1>3, <1>4, <1>5, <1>6, <1>7, <1>8, <1>9, <1>10, <1>11, <1>12, <1>13, <1>14,
     <1>15, <1>16, <1>17, <1>18, <1>19, <1>20, <1>21, <1>22, <1>23, <1>24, <1>25, <1>26, <1>27,
     <1>28, <1>29
     DEF Next, Host, Delete, Sweep, Purge

\* The delete in progress keeps its type.
LEMMA DeletesType ==
    ASSUME del \in Deletes, trash \in [Names -> Files \union {None, Placeholder}], Delete
    PROVE  del' \in Deletes
<1> USE BoundsAssumption DEF Deletes, Names
<1>1. NoDelete \in Deletes
  BY DEF NoDelete
<1>2. ASSUME NEW recorded \in BOOLEAN, DeleteStarts(recorded) PROVE del' \in Deletes
  BY <1>2, <1>1 DEF DeleteStarts
<1>3. CASE DeleteLocks
  BY <1>3 DEF DeleteLocks
<1>4. CASE ClaimFails
  BY <1>4, <1>1 DEF ClaimFails, DeleteEnds
<1>5. CASE RenameNote
  BY <1>5 DEF RenameNote
<1>6. CASE IdentityRead
  BY <1>6 DEF IdentityRead
<1>7. CASE ClaimSucceeds
  BY <1>7 DEF ClaimSucceeds
<1>8. CASE RenameFails \/ StaleRowCleared \/ MoveRecorded \/ RecordFails
  <2>1. del' = NoDelete
    BY <1>8 DEF RenameFails, StaleRowCleared, MoveRecorded, RecordFails, DeleteEnds
  <2> QED
    BY <1>1, <2>1
<1> QED
  BY <1>2, <1>3, <1>4, <1>5, <1>6, <1>7, <1>8 DEF Delete

\* The sweep in progress keeps its type.
LEMMA SweepsType ==
    ASSUME sweep \in Sweeps, trash \in [Names -> Files \union {None, Placeholder}],
           trashed \in [Files -> Trashing \union {None}], now \in Times, Sweep,
           \A n \in Names : trash[n] \in Files => trashed[trash[n]] /= None
    PROVE  sweep' \in Sweeps
<1> USE BoundsAssumption DEF Sweeps, Names, Unlinking
<1>1. NoSweep \in Sweeps
  BY DEF NoSweep
<1>2. CASE SweepStarts
  <2> DEFINE due == {n \in Names : Expired(rows[n], now - Retention)}
  <2>1. sweep' = [NoSweep EXCEPT !.stage = "next", !.cutoff = now - Retention, !.todo = due]
    BY <1>2 DEF SweepStarts
  <2>2. due \subseteq Names /\ now - Retention \in Int
    BY DEF Times
  <2> HIDE DEF due
  <2> QED
    BY <1>1, <2>1, <2>2
<1>3. ASSUME NEW n \in Names, SweepLocks(n) PROVE sweep' \in Sweeps
  <2>1. CASE StillExpired(n)
    <3>1. sweep' = [sweep EXCEPT !.stage = "row", !.todo = @ \ {n}, !.name = n]
      BY <1>3, <2>1, Zenon DEF SweepLocks
    <3> QED
      BY <3>1
  <2>2. CASE ~StillExpired(n)
    BY <1>3, <2>2 DEF SweepLocks
  <2> QED
    BY <2>1, <2>2
<1>4. ASSUME SweepReturns PROVE sweep' \in Sweeps
  BY <1>1, <1>4 DEF SweepReturns
<1>5. CASE SweepIdentifies
  <2>1. CASE Matches(rows[sweep.name], trash[sweep.name])
    <3>1. trashed[trash[sweep.name]] \in Trashing \union {None} /\ trash[sweep.name] \in Files
      BY <2>1 DEF Matches
    <3>2. sweep' = [sweep EXCEPT !.stage = "unlink", !.id = trash[sweep.name],
                                 !.seen = trashed[trash[sweep.name]]]
      BY <1>5, <2>1, Zenon DEF SweepIdentifies
    <3> QED
      BY <3>1, <3>2
  <2>2. CASE ~Matches(rows[sweep.name], trash[sweep.name])
    BY <1>4, <1>5, <2>2, Zenon DEF SweepIdentifies
  <2> QED
    BY <2>1, <2>2
<1>6. CASE SweepUnlinks
  <2> DEFINE f == trash[sweep.name]
             u == [file |-> f, last |-> trashed[f], at |-> now]
  <2>1. u \in Unlinking
    BY <1>6 DEF SweepUnlinks
  <2>2. sweep' = [sweep EXCEPT !.stage = "drop", !.unlinked = u]
    BY <1>6 DEF SweepUnlinks
  <2> HIDE DEF u
  <2> QED
    BY <2>1, <2>2
<1>7. CASE SweepSkips \/ SweepDrops
  BY <1>7, <1>4, Zenon DEF SweepSkips, SweepDrops
<1>8. CASE SweepEnds
  BY <1>8, <1>1 DEF SweepEnds
<1> QED
  BY <1>2, <1>3, <1>5, <1>6, <1>7, <1>8, Zenon DEF Sweep

\* The boot purge in progress keeps its type.
LEMMA PurgesType ==
    ASSUME purge \in Purges, rows \in [Names -> Row \union {None}], Purge \/ Boot
    PROVE  purge' \in Purges
<1> USE BoundsAssumption DEF Purges, Names
<1>1. NoPurge \in Purges
  BY DEF NoPurge, NoRows
<1>2. ASSUME NEW n \in Names, PurgeLocks(n) PROVE purge' \in Purges
  <2>1. [purge.listed EXCEPT ![n] = None] \in [Names -> Row \union {None}]
    OBVIOUS
  <2>2. CASE Unchanged(n)
    <3>1. purge' = [purge EXCEPT !.stage = "stat", !.listed[n] = None, !.name = n]
      BY <1>2, <2>2, Zenon DEF PurgeLocks
    <3> QED
      BY <2>1, <3>1
  <2>3. CASE ~Unchanged(n)
    <3>1. purge' = [purge EXCEPT !.listed[n] = None]
      BY <1>2, <2>3, Zenon DEF PurgeLocks
    <3> QED
      BY <2>1, <3>1
  <2> QED
    BY <2>2, <2>3
<1>3. CASE PurgeKeeps \/ PurgeDrops
  <2>1. purge' = [purge EXCEPT !.stage = "next", !.name = 1]
    BY <1>3, Zenon DEF PurgeKeeps, PurgeDrops, PurgeReturns
  <2>2. 1 \in Names
    OBVIOUS
  <2> HIDE DEF Names
  <2> QED
    BY <2>1, <2>2
<1>4. CASE PurgeFindsNothing
  BY <1>4 DEF PurgeFindsNothing
<1>5. CASE PurgeEnds
  BY <1>1, <1>5 DEF PurgeEnds
<1>6. CASE Boot
  <2>1. purge' = [NoPurge EXCEPT !.stage = "next", !.listed = rows]
    BY <1>6 DEF Boot
  <2> QED
    BY <1>1, <2>1
<1> QED
  BY <1>2, <1>3, <1>4, <1>5, <1>6, Zenon DEF Purge

\* The host, the delete, the sweep and the purge leave each other's progress alone.
LEMMA ActorsKeepToTheirOwn ==
    /\ Host \/ Tick => UNCHANGED <<del, sweep, purge>>
    /\ Delete => UNCHANGED <<sweep, purge>>
    /\ Sweep => UNCHANGED <<del, purge>>
    /\ Purge \/ Boot => UNCHANGED <<del, sweep>>
<1>1. Host \/ Tick => UNCHANGED <<del, sweep, purge>>
  BY DEF Host, HostCreates, HostTrashes, HostRestores, HostEmpties, Tick, serverVars
<1>2. Delete => UNCHANGED <<sweep, purge>>
  BY Zenon
     DEF Delete, DeleteStarts, DeleteLocks, ClaimSucceeds, ClaimFails, RenameNote, RenameFails,
         StaleRowCleared, IdentityRead, MoveRecorded, RecordFails
<1>3. Sweep => UNCHANGED <<del, purge>>
  BY Zenon
     DEF Sweep, SweepStarts, SweepLocks, SweepIdentifies, SweepSkips, SweepUnlinks, SweepDrops,
         SweepEnds
<1>4. Purge \/ Boot => UNCHANGED <<del, sweep>>
  BY Zenon
     DEF Purge, PurgeLocks, PurgeKeeps, PurgeFindsNothing, PurgeDrops, PurgeEnds, Boot
<1> QED
  BY <1>1, <1>2, <1>3, <1>4

\* Every variable keeps its type.
LEMMA TypeStep == TypeOK /\ CopiesWereMoved /\ Next => TypeOK'
<1> SUFFICES ASSUME TypeOK, CopiesWereMoved, Next PROVE TypeOK'
  OBVIOUS
<1>1. FilesType /\ FilesType'
  BY FilesStep DEF TypeOK, FilesType
<1>2. CASE Crash
  <2>1. del' \in Deletes
    BY <1>2, BoundsAssumption DEF Crash, NoDelete, Deletes, Names
  <2>2. sweep' \in Sweeps
    BY <1>2, BoundsAssumption DEF Crash, NoSweep, Sweeps, Names
  <2>3. purge' \in Purges
    BY <1>2, BoundsAssumption DEF Crash, NoPurge, NoRows, Purges, Names
  <2> QED
    BY <1>1, <2>1, <2>2, <2>3 DEF TypeOK, FilesType
<1>3. CASE ~Crash
  <2>1. del' \in Deletes
    BY <1>3, ActorsKeepToTheirOwn, DeletesType DEF Next, TypeOK
  <2>2. sweep' \in Sweeps
    BY <1>3, ActorsKeepToTheirOwn, SweepsType DEF Next, TypeOK, CopiesWereMoved
  <2>3. purge' \in Purges
    BY <1>3, ActorsKeepToTheirOwn, PurgesType DEF Next, TypeOK
  <2> QED
    BY <1>1, <2>1, <2>2, <2>3 DEF TypeOK, FilesType
<1> QED
  BY <1>2, <1>3

\* The lock is held by whoever is at work in the trash.
LEMMA LockStep == TypeOK /\ LockIsHeld /\ Next => LockIsHeld'
<1> SUFFICES ASSUME TypeOK, LockIsHeld, Next
             PROVE  LockIsHeld'
  OBVIOUS
<1> USE BoundsAssumption, DistinctAssumption, NoneAssumption, NothingInProgress DEF TypeOK,
        LockIsHeld, Holders, serverVars, history
<1>1. ASSUME NEW f \in Files, HostCreates(f) PROVE LockIsHeld'
  BY <1>1 DEF HostCreates
<1>2. ASSUME NEW n \in Names, HostTrashes(n) PROVE LockIsHeld'
  BY <1>2 DEF HostTrashes
<1>3. ASSUME NEW n \in Names, HostRestores(n) PROVE LockIsHeld'
  BY <1>3 DEF HostRestores, TakenOut
<1>4. ASSUME NEW n \in Names, HostEmpties(n) PROVE LockIsHeld'
  BY <1>4 DEF HostEmpties, TakenOut
<1>5. CASE Tick
  BY <1>5 DEF Tick, Sweeps
<1>6. ASSUME NEW recorded \in BOOLEAN, DeleteStarts(recorded) PROVE LockIsHeld'
  BY <1>6 DEF DeleteStarts, Deletes
<1>7. CASE DeleteLocks
  BY <1>7 DEF DeleteLocks, Deletes
<1>8. CASE ClaimSucceeds
  BY <1>8 DEF ClaimSucceeds, Deletes
<1>9. CASE ClaimFails
  BY <1>9, ClaimFailsFields
<1>10. CASE RenameNote
  BY <1>10 DEF RenameNote, Deletes
<1>11. CASE RenameFails
  BY <1>11 DEF RenameFails, DeleteEnds, Deletes
<1>12. CASE StaleRowCleared
  BY <1>12 DEF StaleRowCleared, TryDrop, Kept, DeleteEnds, Deletes
<1>13. CASE IdentityRead
  BY <1>13 DEF IdentityRead, Deletes
<1>14. CASE MoveRecorded
  BY <1>14 DEF MoveRecorded, DeleteEnds, Deletes
<1>15. CASE RecordFails
  BY <1>15, DroppedRows DEF RecordFails, DeleteEnds, Deletes
<1>16. CASE SweepStarts
  BY <1>16, SweepStartsFields
<1>17. ASSUME NEW n \in Names, SweepLocks(n) PROVE LockIsHeld'
  BY <1>17, SweepLocksFields DEF StillExpired
<1>18. CASE SweepIdentifies
  BY <1>18, SweepIdentifiesFields, DroppedRows DEF Matches
<1>19. CASE SweepSkips
  BY <1>19, SweepReturnsFields DEF SweepSkips
<1>20. CASE SweepUnlinks
  BY <1>20, SweepUnlinksFields DEF TakenOut
<1>21. CASE SweepDrops
  BY <1>21, SweepReturnsFields, DroppedRows DEF SweepDrops, Sweeps
<1>22. CASE SweepEnds
  BY <1>22 DEF SweepEnds, Sweeps
<1>23. ASSUME NEW n \in Names, PurgeLocks(n) PROVE LockIsHeld'
  BY <1>23, PurgeLocksFields
<1>24. CASE PurgeKeeps
  BY <1>24 DEF PurgeKeeps, PurgeReturns, Purges
<1>25. CASE PurgeFindsNothing
  BY <1>25 DEF PurgeFindsNothing, Purges
<1>26. CASE PurgeDrops
  BY <1>26, DroppedRows DEF PurgeDrops, PurgeReturns, Purges
<1>27. CASE PurgeEnds
  BY <1>27 DEF PurgeEnds, Purges
<1>28. CASE Boot
  BY <1>28, BootFields
<1>29. CASE Crash
  BY <1>29 DEF Crash, Deletes, Sweeps, Purges
<1> QED
  BY <1>1, <1>2, <1>3, <1>4, <1>5, <1>6, <1>7, <1>8, <1>9, <1>10, <1>11, <1>12, <1>13, <1>14,
     <1>15, <1>16, <1>17, <1>18, <1>19, <1>20, <1>21, <1>22, <1>23, <1>24, <1>25, <1>26, <1>27,
     <1>28, <1>29
     DEF Next, Host, Delete, Sweep, Purge

\* Files keep to one place, and claimed names to their placeholders.
LEMMA PlacesStep == TypeOK /\ LockIsHeld /\ FilesHaveOnePlace /\ Next => FilesHaveOnePlace'
<1> SUFFICES ASSUME TypeOK, LockIsHeld, FilesHaveOnePlace, Next
             PROVE  FilesHaveOnePlace'
  OBVIOUS
<1> USE BoundsAssumption, DistinctAssumption, NoneAssumption, NothingInProgress DEF TypeOK,
        LockIsHeld, FilesHaveOnePlace, Names, serverVars, history
<1>1. ASSUME NEW f \in Files, HostCreates(f) PROVE FilesHaveOnePlace'
  BY <1>1 DEF HostCreates
<1>2. ASSUME NEW n \in Names, HostTrashes(n) PROVE FilesHaveOnePlace'
  BY <1>2 DEF HostTrashes
<1>3. ASSUME NEW n \in Names, HostRestores(n) PROVE FilesHaveOnePlace'
  BY <1>3 DEF HostRestores, TakenOut
<1>4. ASSUME NEW n \in Names, HostEmpties(n) PROVE FilesHaveOnePlace'
  BY <1>4 DEF HostEmpties, TakenOut
<1>5. CASE Tick
  BY <1>5 DEF Tick, Sweeps
<1>6. ASSUME NEW recorded \in BOOLEAN, DeleteStarts(recorded) PROVE FilesHaveOnePlace'
  BY <1>6 DEF DeleteStarts, Deletes
<1>7. CASE DeleteLocks
  BY <1>7 DEF DeleteLocks, Deletes
<1>8. CASE ClaimSucceeds
  BY <1>8 DEF ClaimSucceeds, Deletes
<1>9. CASE ClaimFails
  BY <1>9, ClaimFailsFields
<1>10. CASE RenameNote
  BY <1>10 DEF RenameNote, Deletes
<1>11. CASE RenameFails
  <2>1. CASE UNCHANGED trash
    BY <1>11, <2>1 DEF RenameFails, DeleteEnds, Deletes
  <2>2. CASE trash' = [trash EXCEPT ![del.name] = None]
    BY <1>11, <2>2 DEF RenameFails, DeleteEnds, Deletes
  <2> QED
    BY <1>11, <2>1, <2>2, Zenon DEF RenameFails
<1>12. CASE StaleRowCleared
  BY <1>12 DEF StaleRowCleared, TryDrop, Kept, DeleteEnds, Deletes
<1>13. CASE IdentityRead
  BY <1>13 DEF IdentityRead, Deletes
<1>14. CASE MoveRecorded
  BY <1>14 DEF MoveRecorded, DeleteEnds, Deletes
<1>15. CASE RecordFails
  BY <1>15, DroppedRows DEF RecordFails, DeleteEnds, Deletes
<1>16. CASE SweepStarts
  BY <1>16, SweepStartsFields
<1>17. ASSUME NEW n \in Names, SweepLocks(n) PROVE FilesHaveOnePlace'
  BY <1>17, SweepLocksFields DEF StillExpired
<1>18. CASE SweepIdentifies
  BY <1>18, SweepIdentifiesFields, DroppedRows DEF Matches
<1>19. CASE SweepSkips
  BY <1>19, SweepReturnsFields DEF SweepSkips
<1>20. CASE SweepUnlinks
  <2>1. TakenOut(sweep.name) /\ sweep.stage = "unlink" /\ UNCHANGED <<vault, del>>
    BY <1>20, SweepUnlinksFields
  <2> QED
    BY <2>1 DEF TakenOut
<1>21. CASE SweepDrops
  BY <1>21, SweepReturnsFields, DroppedRows DEF SweepDrops, Sweeps
<1>22. CASE SweepEnds
  BY <1>22 DEF SweepEnds, Sweeps
<1>23. ASSUME NEW n \in Names, PurgeLocks(n) PROVE FilesHaveOnePlace'
  BY <1>23, PurgeLocksFields
<1>24. CASE PurgeKeeps
  BY <1>24 DEF PurgeKeeps, PurgeReturns, Purges
<1>25. CASE PurgeFindsNothing
  BY <1>25 DEF PurgeFindsNothing, Purges
<1>26. CASE PurgeDrops
  BY <1>26, DroppedRows DEF PurgeDrops, PurgeReturns, Purges
<1>27. CASE PurgeEnds
  BY <1>27 DEF PurgeEnds, Purges
<1>28. CASE Boot
  BY <1>28, BootFields
<1>29. CASE Crash
  BY <1>29 DEF Crash, Deletes, Sweeps, Purges
<1> QED
  BY <1>1, <1>2, <1>3, <1>4, <1>5, <1>6, <1>7, <1>8, <1>9, <1>10, <1>11, <1>12, <1>13, <1>14,
     <1>15, <1>16, <1>17, <1>18, <1>19, <1>20, <1>21, <1>22, <1>23, <1>24, <1>25, <1>26, <1>27,
     <1>28, <1>29
     DEF Next, Host, Delete, Sweep, Purge

\* A rename to a claimed name replaces nothing but the placeholder.
LEMMA OverwriteStep ==
    TypeOK /\ FilesHaveOnePlace /\ CopiesAreNeverOverwritten /\ Next =>
        CopiesAreNeverOverwritten'
<1> SUFFICES ASSUME TypeOK, FilesHaveOnePlace, CopiesAreNeverOverwritten, Next
             PROVE  CopiesAreNeverOverwritten'
  OBVIOUS
<1> USE BoundsAssumption, DistinctAssumption, NoneAssumption, NothingInProgress DEF TypeOK,
        FilesHaveOnePlace, CopiesAreNeverOverwritten, serverVars, history
<1>1. ASSUME NEW f \in Files, HostCreates(f) PROVE CopiesAreNeverOverwritten'
  BY <1>1 DEF HostCreates
<1>2. ASSUME NEW n \in Names, HostTrashes(n) PROVE CopiesAreNeverOverwritten'
  BY <1>2 DEF HostTrashes
<1>3. ASSUME NEW n \in Names, HostRestores(n) PROVE CopiesAreNeverOverwritten'
  BY <1>3 DEF HostRestores, TakenOut
<1>4. ASSUME NEW n \in Names, HostEmpties(n) PROVE CopiesAreNeverOverwritten'
  BY <1>4 DEF HostEmpties, TakenOut
<1>5. CASE Tick
  BY <1>5 DEF Tick, Sweeps
<1>6. ASSUME NEW recorded \in BOOLEAN, DeleteStarts(recorded)
      PROVE  CopiesAreNeverOverwritten'
  BY <1>6 DEF DeleteStarts, Deletes
<1>7. CASE DeleteLocks
  BY <1>7 DEF DeleteLocks, Deletes
<1>8. CASE ClaimSucceeds
  BY <1>8 DEF ClaimSucceeds, Deletes
<1>9. CASE ClaimFails
  BY <1>9, ClaimFailsFields
<1>10. CASE RenameNote
  BY <1>10 DEF RenameNote, Deletes
<1>11. CASE RenameFails
  BY <1>11 DEF RenameFails, DeleteEnds, Deletes
<1>12. CASE StaleRowCleared
  BY <1>12 DEF StaleRowCleared, TryDrop, Kept, DeleteEnds, Deletes
<1>13. CASE IdentityRead
  BY <1>13 DEF IdentityRead, Deletes
<1>14. CASE MoveRecorded
  BY <1>14 DEF MoveRecorded, DeleteEnds, Deletes
<1>15. CASE RecordFails
  BY <1>15, DroppedRows DEF RecordFails, DeleteEnds, Deletes
<1>16. CASE SweepStarts
  BY <1>16, SweepStartsFields
<1>17. ASSUME NEW n \in Names, SweepLocks(n) PROVE CopiesAreNeverOverwritten'
  BY <1>17, SweepLocksFields DEF StillExpired
<1>18. CASE SweepIdentifies
  BY <1>18, SweepIdentifiesFields, DroppedRows DEF Matches
<1>19. CASE SweepSkips
  BY <1>19, SweepReturnsFields DEF SweepSkips
<1>20. CASE SweepUnlinks
  BY <1>20, SweepUnlinksFields DEF TakenOut
<1>21. CASE SweepDrops
  BY <1>21, SweepReturnsFields, DroppedRows DEF SweepDrops, Sweeps
<1>22. CASE SweepEnds
  BY <1>22 DEF SweepEnds, Sweeps
<1>23. ASSUME NEW n \in Names, PurgeLocks(n) PROVE CopiesAreNeverOverwritten'
  BY <1>23, PurgeLocksFields
<1>24. CASE PurgeKeeps
  BY <1>24 DEF PurgeKeeps, PurgeReturns, Purges
<1>25. CASE PurgeFindsNothing
  BY <1>25 DEF PurgeFindsNothing, Purges
<1>26. CASE PurgeDrops
  BY <1>26, DroppedRows DEF PurgeDrops, PurgeReturns, Purges
<1>27. CASE PurgeEnds
  BY <1>27 DEF PurgeEnds, Purges
<1>28. CASE Boot
  BY <1>28, BootFields
<1>29. CASE Crash
  BY <1>29 DEF Crash, Deletes, Sweeps, Purges
<1> QED
  BY <1>1, <1>2, <1>3, <1>4, <1>5, <1>6, <1>7, <1>8, <1>9, <1>10, <1>11, <1>12, <1>13, <1>14,
     <1>15, <1>16, <1>17, <1>18, <1>19, <1>20, <1>21, <1>22, <1>23, <1>24, <1>25, <1>26, <1>27,
     <1>28, <1>29
     DEF Next, Host, Delete, Sweep, Purge

\* Copies in the trash keep the move that brought them there.
LEMMA MovedStep ==
    TypeOK /\ LockIsHeld /\ FilesHaveOnePlace /\ CopiesWereMoved /\ Next =>
        CopiesWereMoved'
<1> SUFFICES ASSUME TypeOK, LockIsHeld, FilesHaveOnePlace, CopiesWereMoved, Next
             PROVE  CopiesWereMoved'
  OBVIOUS
<1> USE BoundsAssumption, DistinctAssumption, NoneAssumption, NothingInProgress DEF TypeOK,
        LockIsHeld, FilesHaveOnePlace, CopiesWereMoved, Names, Times, Movers, Trashing, serverVars,
        history
<1>1. ASSUME NEW f \in Files, HostCreates(f) PROVE CopiesWereMoved'
  BY <1>1 DEF HostCreates
<1>2. ASSUME NEW n \in Names, HostTrashes(n) PROVE CopiesWereMoved'
  BY <1>2 DEF HostTrashes
<1>3. ASSUME NEW n \in Names, HostRestores(n) PROVE CopiesWereMoved'
  BY <1>3 DEF HostRestores, TakenOut
<1>4. ASSUME NEW n \in Names, HostEmpties(n) PROVE CopiesWereMoved'
  BY <1>4 DEF HostEmpties, TakenOut
<1>5. CASE Tick
  BY <1>5 DEF Tick, Sweeps
<1>6. ASSUME NEW recorded \in BOOLEAN, DeleteStarts(recorded) PROVE CopiesWereMoved'
  BY <1>6 DEF DeleteStarts, Deletes
<1>7. CASE DeleteLocks
  BY <1>7 DEF DeleteLocks, Deletes
<1>8. CASE ClaimSucceeds
  BY <1>8 DEF ClaimSucceeds, Deletes
<1>9. CASE ClaimFails
  BY <1>9, ClaimFailsFields
<1>10. CASE RenameNote
  BY <1>10 DEF RenameNote, Deletes
<1>11. CASE RenameFails
  BY <1>11 DEF RenameFails, DeleteEnds, Deletes
<1>12. CASE StaleRowCleared
  BY <1>12 DEF StaleRowCleared, TryDrop, Kept, DeleteEnds, Deletes
<1>13. CASE IdentityRead
  BY <1>13 DEF IdentityRead, Deletes
<1>14. CASE MoveRecorded
  BY <1>14 DEF MoveRecorded, DeleteEnds, Deletes
<1>15. CASE RecordFails
  BY <1>15, DroppedRows DEF RecordFails, DeleteEnds, Deletes
<1>16. CASE SweepStarts
  BY <1>16, SweepStartsFields
<1>17. ASSUME NEW n \in Names, SweepLocks(n) PROVE CopiesWereMoved'
  BY <1>17, SweepLocksFields DEF StillExpired
<1>18. CASE SweepIdentifies
  BY <1>18, SweepIdentifiesFields, DroppedRows DEF Matches
<1>19. CASE SweepSkips
  BY <1>19, SweepReturnsFields DEF SweepSkips
<1>20. CASE SweepUnlinks
  <2>1. TakenOut(sweep.name) /\ UNCHANGED <<now, rows, vault, del>>
    BY <1>20, SweepUnlinksFields
  <2> QED
    BY <2>1 DEF TakenOut, Sweeps
<1>21. CASE SweepDrops
  BY <1>21, SweepReturnsFields, DroppedRows DEF SweepDrops, Sweeps
<1>22. CASE SweepEnds
  BY <1>22 DEF SweepEnds, Sweeps
<1>23. ASSUME NEW n \in Names, PurgeLocks(n) PROVE CopiesWereMoved'
  BY <1>23, PurgeLocksFields
<1>24. CASE PurgeKeeps
  BY <1>24 DEF PurgeKeeps, PurgeReturns, Purges
<1>25. CASE PurgeFindsNothing
  BY <1>25 DEF PurgeFindsNothing, Purges
<1>26. CASE PurgeDrops
  BY <1>26, DroppedRows DEF PurgeDrops, PurgeReturns, Purges
<1>27. CASE PurgeEnds
  BY <1>27 DEF PurgeEnds, Purges
<1>28. CASE Boot
  BY <1>28, BootFields
<1>29. CASE Crash
  BY <1>29 DEF Crash, Deletes, Sweeps, Purges
<1> QED
  BY <1>1, <1>2, <1>3, <1>4, <1>5, <1>6, <1>7, <1>8, <1>9, <1>10, <1>11, <1>12, <1>13, <1>14,
     <1>15, <1>16, <1>17, <1>18, <1>19, <1>20, <1>21, <1>22, <1>23, <1>24, <1>25, <1>26, <1>27,
     <1>28, <1>29
     DEF Next, Host, Delete, Sweep, Purge

\* A row stays no younger than the copy that it names.
LEMMA RowsStep ==
    TypeOK /\ LockIsHeld /\ FilesHaveOnePlace /\ CopiesWereMoved /\ WritersSeeNewcomers /\
    RowsAreOlder /\ Next =>
        RowsAreOlder'
<1> SUFFICES ASSUME TypeOK, LockIsHeld, FilesHaveOnePlace, CopiesWereMoved, WritersSeeNewcomers,
                    RowsAreOlder, Next
             PROVE  RowsAreOlder'
  OBVIOUS
<1> USE BoundsAssumption, DistinctAssumption, NoneAssumption, NothingInProgress DEF TypeOK,
        LockIsHeld, FilesHaveOnePlace, CopiesWereMoved, WritersSeeNewcomers, Unsettled,
        RowsAreOlder, Names, Times, Row, Movers, Trashing, serverVars, history
<1>1. ASSUME NEW f \in Files, HostCreates(f) PROVE RowsAreOlder'
  BY <1>1 DEF HostCreates
<1>2. ASSUME NEW n \in Names, HostTrashes(n) PROVE RowsAreOlder'
  BY <1>2 DEF HostTrashes
<1>3. ASSUME NEW n \in Names, HostRestores(n) PROVE RowsAreOlder'
  BY <1>3 DEF HostRestores, TakenOut
<1>4. ASSUME NEW n \in Names, HostEmpties(n) PROVE RowsAreOlder'
  BY <1>4 DEF HostEmpties, TakenOut
<1>5. CASE Tick
  BY <1>5 DEF Tick, Sweeps
<1>6. ASSUME NEW recorded \in BOOLEAN, DeleteStarts(recorded) PROVE RowsAreOlder'
  BY <1>6 DEF DeleteStarts, Deletes
<1>7. CASE DeleteLocks
  BY <1>7 DEF DeleteLocks, Deletes
<1>8. CASE ClaimSucceeds
  BY <1>8 DEF ClaimSucceeds, Deletes
<1>9. CASE ClaimFails
  BY <1>9, ClaimFailsFields
<1>10. CASE RenameNote
  BY <1>10 DEF RenameNote, Deletes
<1>11. CASE RenameFails
  <2>1. CASE UNCHANGED trash
    BY <1>11, <2>1 DEF RenameFails, DeleteEnds, Deletes
  <2>2. CASE trash' = [trash EXCEPT ![del.name] = None]
    BY <1>11, <2>2 DEF RenameFails, DeleteEnds, Deletes
  <2> QED
    BY <1>11, <2>1, <2>2, Zenon DEF RenameFails
<1>12. CASE StaleRowCleared
  <2>1. /\ \A m \in Names : rows'[m] = rows[m] \/ rows'[m] = None
        /\ \A f \in Files :
              \/ trashed'[f] = trashed[f]
              \/ /\ f = trash[del.name] /\ rows'[del.name] = None
                 /\ trashed'[f] = [by |-> "kept", at |-> trashed[f].at]
        /\ UNCHANGED <<now, trash>> /\ del.name \in Names
    BY <1>12, StaleRowClearedFields DEF StaleRowCleared, Deletes
  <2>2. ASSUME NEW n \in Names, trash[n] \in Files, rows'[n] /= None, rows'[n].id = trash[n]
        PROVE  rows'[n].at <= trashed'[trash[n]].at /\ trashed'[trash[n]].by /= "kept"
    <3>1. n /= del.name => trash[n] /= trash[del.name]
      BY <2>1, <2>2
    <3>2. trashed'[trash[n]] = trashed[trash[n]] /\ rows'[n] = rows[n]
      BY <2>1, <2>2, <3>1
    <3> QED
      BY <2>2, <3>2
  <2> QED
    BY <2>1, <2>2
<1>13. CASE IdentityRead
  BY <1>13 DEF IdentityRead, Deletes
<1>14. CASE MoveRecorded
  <2>1. /\ rows' = [rows EXCEPT ![del.name] = [at |-> now, id |-> del.id]]
        /\ trashed' = IF trash[del.name] = del.id
                      THEN [trashed EXCEPT ![del.id] = [by |-> "recorded", at |-> now]]
                      ELSE trashed
        /\ UNCHANGED <<now, trash>>
    BY <1>14 DEF MoveRecorded
  <2>2. \A n \in Names : rows'[n] /= None => rows'[n].at <= now'
    BY <1>14, <2>1 DEF MoveRecorded
  <2>3. ASSUME NEW n \in Names, trash[n] \in Files, rows'[n] /= None, rows'[n].id = trash[n]
        PROVE  rows'[n].at <= trashed'[trash[n]].at /\ trashed'[trash[n]].by /= "kept"
    <3>1. CASE n = del.name
      BY <1>14, <2>1, <2>3, <3>1 DEF MoveRecorded
    <3>2. CASE n /= del.name
      BY <1>14, <2>1, <2>3, <3>2 DEF MoveRecorded
    <3> QED
      BY <3>1, <3>2
  <2> QED
    BY <2>1, <2>2, <2>3
<1>15. CASE RecordFails
  <2>1. \A m \in Names : rows'[m] = rows[m] \/ rows'[m] = None
    BY <1>15, DroppedRows DEF RecordFails, Deletes
  <2>2. UNCHANGED <<now, trash>>
    BY <1>15 DEF RecordFails
  <2> QED
    BY <1>15, <2>1, <2>2 DEF RecordFails
<1>16. CASE SweepStarts
  BY <1>16, SweepStartsFields
<1>17. ASSUME NEW n \in Names, SweepLocks(n) PROVE RowsAreOlder'
  BY <1>17, SweepLocksFields DEF StillExpired
<1>18. CASE SweepIdentifies
  <2>1. \A m \in Names : rows'[m] = rows[m] \/ rows'[m] = None
    BY <1>18, SweepIdentifiesFields, DroppedRows DEF Sweeps
  <2>2. UNCHANGED <<now, trash, trashed>>
    BY <1>18, SweepIdentifiesFields
  <2> QED
    BY <2>1, <2>2
<1>19. CASE SweepSkips
  BY <1>19, SweepReturnsFields DEF SweepSkips
<1>20. CASE SweepUnlinks
  <2>1. TakenOut(sweep.name) /\ UNCHANGED <<now, rows, vault, del>>
    BY <1>20, SweepUnlinksFields
  <2> QED
    BY <2>1 DEF TakenOut, Sweeps
<1>21. CASE SweepDrops
  <2>1. \A m \in Names : rows'[m] = rows[m] \/ rows'[m] = None
    BY <1>21, SweepReturnsFields, DroppedRows DEF Sweeps, SweepDrops
  <2>2. UNCHANGED <<now, trash, trashed>>
    BY <1>21, SweepReturnsFields DEF SweepDrops
  <2> QED
    BY <2>1, <2>2
<1>22. CASE SweepEnds
  BY <1>22 DEF SweepEnds, Sweeps
<1>23. ASSUME NEW n \in Names, PurgeLocks(n) PROVE RowsAreOlder'
  BY <1>23, PurgeLocksFields
<1>24. CASE PurgeKeeps
  BY <1>24 DEF PurgeKeeps, PurgeReturns, Purges
<1>25. CASE PurgeFindsNothing
  BY <1>25 DEF PurgeFindsNothing, Purges
<1>26. CASE PurgeDrops
  BY <1>26, DroppedRows DEF PurgeDrops, PurgeReturns, Purges
<1>27. CASE PurgeEnds
  BY <1>27 DEF PurgeEnds, Purges
<1>28. CASE Boot
  BY <1>28, BootFields
<1>29. CASE Crash
  BY <1>29 DEF Crash, Deletes, Sweeps, Purges
<1> QED
  BY <1>1, <1>2, <1>3, <1>4, <1>5, <1>6, <1>7, <1>8, <1>9, <1>10, <1>11, <1>12, <1>13, <1>14,
     <1>15, <1>16, <1>17, <1>18, <1>19, <1>20, <1>21, <1>22, <1>23, <1>24, <1>25, <1>26, <1>27,
     <1>28, <1>29
     DEF Next, Host, Delete, Sweep, Purge

\* Who writes or drops a row does so while nothing recorded is at its name.
LEMMA NewcomersStep ==
    TypeOK /\ LockIsHeld /\ FilesHaveOnePlace /\ WritersSeeNewcomers /\ Next =>
        WritersSeeNewcomers'
<1> SUFFICES ASSUME TypeOK, LockIsHeld, FilesHaveOnePlace, WritersSeeNewcomers, Next
             PROVE  WritersSeeNewcomers'
  OBVIOUS
<1> USE BoundsAssumption, DistinctAssumption, NoneAssumption, NothingInProgress DEF TypeOK,
        LockIsHeld, FilesHaveOnePlace, WritersSeeNewcomers, Unsettled, Names, Times, Holders,
        serverVars, history
<1>1. ASSUME NEW f \in Files, HostCreates(f) PROVE WritersSeeNewcomers'
  BY <1>1 DEF HostCreates
<1>2. ASSUME NEW n \in Names, HostTrashes(n) PROVE WritersSeeNewcomers'
  BY <1>2 DEF HostTrashes
<1>3. ASSUME NEW n \in Names, HostRestores(n) PROVE WritersSeeNewcomers'
  <2>1. \A m \in Names : Unsettled(m) => Unsettled(m)'
    BY <1>3 DEF HostRestores, TakenOut
  <2>2. UNCHANGED <<del, sweep, purge>>
    BY <1>3 DEF HostRestores
  <2> HIDE DEF Unsettled
  <2> QED
    BY <2>1, <2>2 DEF Deletes, Sweeps, Purges
<1>4. ASSUME NEW n \in Names, HostEmpties(n) PROVE WritersSeeNewcomers'
  <2>1. \A m \in Names : Unsettled(m) => Unsettled(m)'
    BY <1>4 DEF HostEmpties, TakenOut
  <2>2. UNCHANGED <<del, sweep, purge>>
    BY <1>4 DEF HostEmpties
  <2> HIDE DEF Unsettled
  <2> QED
    BY <2>1, <2>2 DEF Deletes, Sweeps, Purges
<1>5. CASE Tick
  BY <1>5 DEF Tick, Sweeps
<1>6. ASSUME NEW recorded \in BOOLEAN, DeleteStarts(recorded) PROVE WritersSeeNewcomers'
  BY <1>6 DEF DeleteStarts, Deletes
<1>7. CASE DeleteLocks
  BY <1>7 DEF DeleteLocks, Deletes
<1>8. CASE ClaimSucceeds
  BY <1>8 DEF ClaimSucceeds, Deletes
<1>9. CASE ClaimFails
  BY <1>9, ClaimFailsFields
<1>10. CASE RenameNote
  BY <1>10 DEF RenameNote, Deletes
<1>11. CASE RenameFails
  BY <1>11 DEF RenameFails, DeleteEnds, Deletes
<1>12. CASE StaleRowCleared
  BY <1>12 DEF StaleRowCleared, TryDrop, Kept, DeleteEnds, Deletes
<1>13. CASE IdentityRead
  BY <1>13 DEF IdentityRead, Deletes
<1>14. CASE MoveRecorded
  BY <1>14 DEF MoveRecorded, DeleteEnds, Deletes
<1>15. CASE RecordFails
  BY <1>15, DroppedRows DEF RecordFails, DeleteEnds, Deletes
<1>16. CASE SweepStarts
  BY <1>16, SweepStartsFields
<1>17. ASSUME NEW n \in Names, SweepLocks(n) PROVE WritersSeeNewcomers'
  BY <1>17, SweepLocksFields DEF StillExpired
<1>18. CASE SweepIdentifies
  BY <1>18, SweepIdentifiesFields, DroppedRows DEF Matches
<1>19. CASE SweepSkips
  BY <1>19, SweepReturnsFields DEF SweepSkips
<1>20. CASE SweepUnlinks
  <2>1. \A m \in Names : Unsettled(m) => Unsettled(m)'
    <3>1. TakenOut(sweep.name) /\ sweep.name \in Names
      BY <1>20, SweepUnlinksFields DEF Sweeps
    <3> QED
      BY <3>1 DEF TakenOut
  <2>2. Unsettled(sweep.name)'
    <3>1. sweep'.name = sweep.name /\ trash'[sweep.name] = None
      BY <1>20, SweepUnlinksFields DEF TakenOut, Sweeps
    <3> QED
      BY <3>1
  <2>3. UNCHANGED <<del, purge>> /\ sweep'.name = sweep.name /\ holder = "sweep" /\ holder' = holder
    BY <1>20, SweepUnlinksFields
  <2> HIDE DEF Unsettled
  <2> QED
    BY <2>1, <2>2, <2>3 DEF Deletes, Purges
<1>21. CASE SweepDrops
  BY <1>21, SweepReturnsFields, DroppedRows DEF SweepDrops, Sweeps
<1>22. CASE SweepEnds
  BY <1>22 DEF SweepEnds, Sweeps
<1>23. ASSUME NEW n \in Names, PurgeLocks(n) PROVE WritersSeeNewcomers'
  BY <1>23, PurgeLocksFields
<1>24. CASE PurgeKeeps
  BY <1>24 DEF PurgeKeeps, PurgeReturns, Purges
<1>25. CASE PurgeFindsNothing
  BY <1>25 DEF PurgeFindsNothing, Purges
<1>26. CASE PurgeDrops
  BY <1>26, DroppedRows DEF PurgeDrops, PurgeReturns, Purges
<1>27. CASE PurgeEnds
  BY <1>27 DEF PurgeEnds, Purges
<1>28. CASE Boot
  BY <1>28, BootFields
<1>29. CASE Crash
  BY <1>29 DEF Crash, Deletes, Sweeps, Purges
<1> QED
  BY <1>1, <1>2, <1>3, <1>4, <1>5, <1>6, <1>7, <1>8, <1>9, <1>10, <1>11, <1>12, <1>13, <1>14,
     <1>15, <1>16, <1>17, <1>18, <1>19, <1>20, <1>21, <1>22, <1>23, <1>24, <1>25, <1>26, <1>27,
     <1>28, <1>29
     DEF Next, Host, Delete, Sweep, Purge

\* A recorded copy keeps its row.
LEMMA TrackedStep ==
    TypeOK /\ LockIsHeld /\ FilesHaveOnePlace /\ CopiesWereMoved /\ WritersSeeNewcomers /\
     RecordedCopiesStayTracked /\ Next =>
        RecordedCopiesStayTracked'
<1> SUFFICES ASSUME TypeOK, LockIsHeld, FilesHaveOnePlace, CopiesWereMoved, WritersSeeNewcomers,
                    RecordedCopiesStayTracked, Next
             PROVE  RecordedCopiesStayTracked'
  OBVIOUS
<1> USE BoundsAssumption, DistinctAssumption, NoneAssumption, NothingInProgress DEF TypeOK,
        LockIsHeld, FilesHaveOnePlace, CopiesWereMoved, WritersSeeNewcomers, Unsettled,
        RecordedCopiesStayTracked, Names, Times, Row, Movers, Trashing, Holders, serverVars, history
<1>1. ASSUME NEW f \in Files, HostCreates(f) PROVE RecordedCopiesStayTracked'
  BY <1>1 DEF HostCreates
<1>2. ASSUME NEW n \in Names, HostTrashes(n) PROVE RecordedCopiesStayTracked'
  BY <1>2 DEF HostTrashes
<1>3. ASSUME NEW n \in Names, HostRestores(n) PROVE RecordedCopiesStayTracked'
  BY <1>3 DEF HostRestores, TakenOut
<1>4. ASSUME NEW n \in Names, HostEmpties(n) PROVE RecordedCopiesStayTracked'
  BY <1>4 DEF HostEmpties, TakenOut
<1>5. CASE Tick
  BY <1>5 DEF Tick, Sweeps
<1>6. ASSUME NEW recorded \in BOOLEAN, DeleteStarts(recorded)
      PROVE  RecordedCopiesStayTracked'
  BY <1>6 DEF DeleteStarts, Deletes
<1>7. CASE DeleteLocks
  BY <1>7 DEF DeleteLocks, Deletes
<1>8. CASE ClaimSucceeds
  BY <1>8 DEF ClaimSucceeds, Deletes
<1>9. CASE ClaimFails
  BY <1>9, ClaimFailsFields
<1>10. CASE RenameNote
  BY <1>10 DEF RenameNote, Deletes
<1>11. CASE RenameFails
  BY <1>11 DEF RenameFails, DeleteEnds, Deletes
<1>12. CASE StaleRowCleared
  BY <1>12 DEF StaleRowCleared, TryDrop, Kept, DeleteEnds, Deletes
<1>13. CASE IdentityRead
  BY <1>13 DEF IdentityRead, Deletes
<1>14. CASE MoveRecorded
  BY <1>14 DEF MoveRecorded, DeleteEnds, Deletes
<1>15. CASE RecordFails
  BY <1>15, DroppedRows DEF RecordFails, DeleteEnds, Deletes
<1>16. CASE SweepStarts
  BY <1>16, SweepStartsFields
<1>17. ASSUME NEW n \in Names, SweepLocks(n) PROVE RecordedCopiesStayTracked'
  BY <1>17, SweepLocksFields DEF StillExpired
<1>18. CASE SweepIdentifies
  <2>1. \A m \in Names : rows'[m] = rows[m] \/ (m = sweep.name /\ ~Matches(rows[m], trash[m]))
    BY <1>18, SweepIdentifiesFields, DroppedRows DEF Sweeps
  <2>2. UNCHANGED <<trash, trashed, ctime>>
    BY <1>18, SweepIdentifiesFields
  <2> QED
    BY <2>1, <2>2 DEF Matches
<1>19. CASE SweepSkips
  BY <1>19, SweepReturnsFields DEF SweepSkips
<1>20. CASE SweepUnlinks
  <2>1. TakenOut(sweep.name) /\ UNCHANGED <<now, rows, vault, del>>
    BY <1>20, SweepUnlinksFields
  <2> QED
    BY <2>1 DEF TakenOut, Sweeps
<1>21. CASE SweepDrops
  BY <1>21, SweepReturnsFields, DroppedRows DEF SweepDrops, Sweeps
<1>22. CASE SweepEnds
  BY <1>22 DEF SweepEnds, Sweeps
<1>23. ASSUME NEW n \in Names, PurgeLocks(n) PROVE RecordedCopiesStayTracked'
  BY <1>23, PurgeLocksFields
<1>24. CASE PurgeKeeps
  BY <1>24 DEF PurgeKeeps, PurgeReturns, Purges
<1>25. CASE PurgeFindsNothing
  BY <1>25 DEF PurgeFindsNothing, Purges
<1>26. CASE PurgeDrops
  BY <1>26, DroppedRows DEF PurgeDrops, PurgeReturns, Purges
<1>27. CASE PurgeEnds
  BY <1>27 DEF PurgeEnds, Purges
<1>28. CASE Boot
  BY <1>28, BootFields
<1>29. CASE Crash
  BY <1>29 DEF Crash, Deletes, Sweeps, Purges
<1> QED
  BY <1>1, <1>2, <1>3, <1>4, <1>5, <1>6, <1>7, <1>8, <1>9, <1>10, <1>11, <1>12, <1>13, <1>14,
     <1>15, <1>16, <1>17, <1>18, <1>19, <1>20, <1>21, <1>22, <1>23, <1>24, <1>25, <1>26, <1>27,
     <1>28, <1>29
     DEF Next, Host, Delete, Sweep, Purge

\* The sweep keeps knowing its entry.
LEMMA SweepStep ==
    TypeOK /\ LockIsHeld /\ CopiesWereMoved /\ RowsAreOlder /\ RecordedCopiesStayTracked /\
     SweepKnowsItsEntry /\ Next =>
        SweepKnowsItsEntry'
<1> SUFFICES ASSUME TypeOK, LockIsHeld, CopiesWereMoved, RowsAreOlder,
                    RecordedCopiesStayTracked, SweepKnowsItsEntry, Next
             PROVE  SweepKnowsItsEntry'
  OBVIOUS
<1> USE BoundsAssumption, DistinctAssumption, NoneAssumption, NothingInProgress DEF TypeOK,
        LockIsHeld, CopiesWereMoved, RowsAreOlder, RecordedCopiesStayTracked,
        SweepKnowsItsEntry, Expired, Names, Times, Row, Movers, Trashing, Holders, serverVars, history
<1>1. ASSUME NEW f \in Files, HostCreates(f) PROVE SweepKnowsItsEntry'
  BY <1>1 DEF HostCreates
<1>2. ASSUME NEW n \in Names, HostTrashes(n) PROVE SweepKnowsItsEntry'
  BY <1>2 DEF HostTrashes
<1>3. ASSUME NEW n \in Names, HostRestores(n) PROVE SweepKnowsItsEntry'
  BY <1>3 DEF HostRestores, TakenOut
<1>4. ASSUME NEW n \in Names, HostEmpties(n) PROVE SweepKnowsItsEntry'
  BY <1>4 DEF HostEmpties, TakenOut
<1>5. CASE Tick
  BY <1>5 DEF Tick, Sweeps
<1>6. ASSUME NEW recorded \in BOOLEAN, DeleteStarts(recorded) PROVE SweepKnowsItsEntry'
  BY <1>6 DEF DeleteStarts, Deletes
<1>7. CASE DeleteLocks
  BY <1>7 DEF DeleteLocks, Deletes
<1>8. CASE ClaimSucceeds
  BY <1>8 DEF ClaimSucceeds, Deletes
<1>9. CASE ClaimFails
  BY <1>9, ClaimFailsFields
<1>10. CASE RenameNote
  BY <1>10 DEF RenameNote, Deletes
<1>11. CASE RenameFails
  BY <1>11 DEF RenameFails, DeleteEnds, Deletes
<1>12. CASE StaleRowCleared
  BY <1>12 DEF StaleRowCleared, TryDrop, Kept, DeleteEnds, Deletes
<1>13. CASE IdentityRead
  BY <1>13 DEF IdentityRead, Deletes
<1>14. CASE MoveRecorded
  BY <1>14 DEF MoveRecorded, DeleteEnds, Deletes
<1>15. CASE RecordFails
  BY <1>15, DroppedRows DEF RecordFails, DeleteEnds, Deletes
<1>16. CASE SweepStarts
  BY <1>16, SweepStartsFields
<1>17. ASSUME NEW n \in Names, SweepLocks(n) PROVE SweepKnowsItsEntry'
  BY <1>17, SweepLocksFields DEF StillExpired
<1>18. CASE SweepIdentifies
  <2> DEFINE row == rows[sweep.name]
             f == trash[sweep.name]
  <2>1. sweep.stage = "row" /\ UNCHANGED now /\ sweep'.cutoff = sweep.cutoff
    BY <1>18, SweepIdentifiesFields
  <2>2. CASE Matches(row, f)
    <3>1. UNCHANGED rows /\ sweep'.stage = "unlink" /\ sweep'.name = sweep.name /\ sweep'.seen = trashed[f]
      BY <1>18, <2>2, SweepIdentifiesFields
    <3>2. sweep.name \in Names /\ f \in Files /\ row.id = f /\ ctime[f] <= row.at
      BY <2>2 DEF Matches, Sweeps
    <3>3. row /= None /\ row.at <= trashed[f].at /\ trashed[f] /= None /\ trashed[f].by /= "kept"
      BY <2>1, <3>2
    <3>4. row.at = trashed[f].at
      <4>1. CASE trashed[f].by = "recorded"
        BY <3>2, <3>3, <4>1
      <4>2. CASE trashed[f].by \in {"host", "server"}
        BY <3>2, <3>3, <4>2
      <4> QED
        BY <3>2, <3>3, <4>1, <4>2
    <3> QED
      BY <2>1, <3>1, <3>3, <3>4
  <2>3. CASE ~Matches(row, f)
    <3>1. sweep'.stage = "next"
      BY <1>18, <2>3, SweepIdentifiesFields
    <3> QED
      BY <2>1, <3>1
  <2> QED
    BY <2>2, <2>3
<1>19. CASE SweepSkips
  BY <1>19, SweepReturnsFields DEF SweepSkips
<1>20. CASE SweepUnlinks
  <2>1. /\ sweep.stage = "unlink" /\ UNCHANGED <<now, rows>>
        /\ sweep'.stage = "drop" /\ sweep'.name = sweep.name
        /\ sweep'.cutoff = sweep.cutoff /\ sweep'.seen = sweep.seen
    BY <1>20, SweepUnlinksFields
  <2> DEFINE u == sweep'.unlinked
  <2>2. u = [file |-> trash[sweep.name], last |-> trashed[trash[sweep.name]], at |-> now]
    BY <1>20, UnlinkedField
  <2>3. u \in Unlinking /\ u.at = now
    BY <1>20, <2>2, SweepUnlinksFields DEF Unlinking, Sweeps
  <2> HIDE DEF u
  <2>4. u /= None
    BY <2>3
  <2> QED
    BY <2>1, <2>3, <2>4 DEF u
<1>21. CASE SweepDrops
  BY <1>21, SweepReturnsFields, DroppedRows DEF SweepDrops, Sweeps
<1>22. CASE SweepEnds
  BY <1>22 DEF SweepEnds, Sweeps
<1>23. ASSUME NEW n \in Names, PurgeLocks(n) PROVE SweepKnowsItsEntry'
  BY <1>23, PurgeLocksFields
<1>24. CASE PurgeKeeps
  BY <1>24 DEF PurgeKeeps, PurgeReturns, Purges
<1>25. CASE PurgeFindsNothing
  BY <1>25 DEF PurgeFindsNothing, Purges
<1>26. CASE PurgeDrops
  BY <1>26, DroppedRows DEF PurgeDrops, PurgeReturns, Purges
<1>27. CASE PurgeEnds
  BY <1>27 DEF PurgeEnds, Purges
<1>28. CASE Boot
  BY <1>28, BootFields
<1>29. CASE Crash
  BY <1>29 DEF Crash, Deletes, Sweeps, Purges
<1> QED
  BY <1>1, <1>2, <1>3, <1>4, <1>5, <1>6, <1>7, <1>8, <1>9, <1>10, <1>11, <1>12, <1>13, <1>14,
     <1>15, <1>16, <1>17, <1>18, <1>19, <1>20, <1>21, <1>22, <1>23, <1>24, <1>25, <1>26, <1>27,
     <1>28, <1>29
     DEF Next, Host, Delete, Sweep, Purge

-----------------------------------------------------------------------------
(* The theorems                                                                *)

\* Initially nothing is in the trash, and old rows name no file.
LEMMA InitInvariant == Init => TrashInvariant
<1> SUFFICES ASSUME Init PROVE TrashInvariant
  OBVIOUS
<1> USE BoundsAssumption, DistinctAssumption, NoneAssumption, NothingInProgress
    DEF Init, Names, Times
<1>1. TypeOK
  <2>1. [at |-> 0, id |-> None] \in Row
    BY DEF Row
  <2>2. rows \in [Names -> Row \union {None}]
    BY <2>1
  <2>3. del \in Deletes /\ sweep \in Sweeps /\ purge \in Purges
    OBVIOUS
  <2>4. /\ trash \in [Names -> Files \union {None, Placeholder}] /\ ctime \in [Files -> Times]
        /\ trashed \in [Files -> Trashing \union {None}]
    OBVIOUS
  <2>5. now \in Times /\ vault = None /\ up = FALSE /\ holder = None /\ overwritten = {}
    OBVIOUS
  <2> QED
    BY <2>2, <2>3, <2>4, <2>5, Zenon DEF TypeOK
<1>2. \A n \in Names : trash[n] \notin Files /\ (rows[n] /= None => rows[n].at = 0)
  OBVIOUS
<1> QED
  BY <1>1, <1>2 DEF TrashInvariant, LockIsHeld, Holders, FilesHaveOnePlace, CopiesWereMoved,
     RowsAreOlder, Unsettled, WritersSeeNewcomers, RecordedCopiesStayTracked,
     SweepKnowsItsEntry, CopiesAreNeverOverwritten

\* Every step keeps the invariant.
LEMMA NextInvariant == TrashInvariant /\ [Next]_vars => TrashInvariant'
<1> SUFFICES ASSUME TrashInvariant, [Next]_vars PROVE TrashInvariant'
  OBVIOUS
<1>1. CASE Next
  BY <1>1, TypeStep, LockStep, PlacesStep, MovedStep, RowsStep, NewcomersStep, TrackedStep,
     SweepStep, OverwriteStep
     DEF TrashInvariant
<1>2. CASE UNCHANGED vars
  BY <1>2 DEF vars, serverVars, history, TrashInvariant, Expired, TypeOK, LockIsHeld,
     FilesHaveOnePlace, CopiesWereMoved, RowsAreOlder, Unsettled, WritersSeeNewcomers,
     RecordedCopiesStayTracked, SweepKnowsItsEntry, CopiesAreNeverOverwritten
<1> QED
  BY <1>1, <1>2

\* The invariant holds in every reachable state.
LEMMA TrashInvariantHolds == Spec => []TrashInvariant
  BY InitInvariant, NextInvariant, PTL DEF Spec

\* Files, rows and the work in progress keep their types.
THEOREM TrashTypeCorrect == Spec => []TypeOK
<1>1. TrashInvariant => TypeOK
  BY DEF TrashInvariant
<1> QED
  BY <1>1, TrashInvariantHolds, PTL

\* No delete replaces a copy that is already in the trash (vault-filesystem.ts
\* 655-659): the claim is exclusive, and a claimed name holds nothing but its
\* placeholder until the rename.
THEOREM NoCopyIsReplaced == Spec => []CopiesAreNeverOverwritten
<1>1. TrashInvariant => CopiesAreNeverOverwritten
  BY DEF TrashInvariant
<1> QED
  BY <1>1, TrashInvariantHolds, PTL

\* A copy whose move was recorded keeps its row while it lies in the trash
\* untouched, whatever the purge and the sweep were at when it landed.
THEOREM RecordedCopiesKeepRows == Spec => []RecordedCopiesStayTracked
<1>1. TrashInvariant => RecordedCopiesStayTracked
  BY DEF TrashInvariant
<1> QED
  BY <1>1, TrashInvariantHolds, PTL

\* What the sweep unlinks was due (trash-sweeper.ts 1-18), unless the host swapped
\* the file in after the identity read: the row has expired since before the sweep
\* listed it, nobody else writes it under the lock, and a copy that matches a row was
\* moved when the row was written.
THEOREM SweepTakesOnlyTheDue == Spec => []SweptCopiesWereDue
<1>1. TrashInvariant => SweptCopiesWereDue
  <2> SUFFICES ASSUME TrashInvariant, sweep.stage = "drop",
                      sweep.unlinked.last = sweep.seen
               PROVE  /\ sweep.unlinked.last.at = rows[sweep.name].at
                      /\ sweep.unlinked.last.at < sweep.unlinked.at - Retention
                      /\ sweep.unlinked.last.by /= "kept"
    BY DEF SweptCopiesWereDue
  <2>1. /\ sweep.unlinked.last.at = rows[sweep.name].at
        /\ sweep.unlinked.last.by /= "kept"
        /\ rows[sweep.name].at < sweep.cutoff
        /\ sweep.cutoff <= sweep.unlinked.at - Retention
        /\ rows[sweep.name] /= None /\ sweep.unlinked /= None
    BY DEF TrashInvariant, SweepKnowsItsEntry, Expired
  <2>2. /\ rows[sweep.name].at \in Int /\ sweep.cutoff \in Int
        /\ sweep.unlinked.at \in Int /\ Retention \in Int
    BY <2>1, BoundsAssumption
       DEF TrashInvariant, TypeOK, Row, Sweeps, Unlinking, Times
  <2> QED
    BY <2>1, <2>2
<1> QED
  BY <1>1, TrashInvariantHolds, PTL
=============================================================================
