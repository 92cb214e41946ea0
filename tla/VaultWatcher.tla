---------------------------- MODULE VaultWatcher ----------------------------
(* How the search index follows the vault's files                              *)
(* (src/vault-mcp/search/file-watcher.ts): the watcher holds the changes it     *)
(* sees until the startup rebuild returns, then goes live, reconciles the held  *)
(* paths in one batch, and mirrors every later change.  Reads take time and     *)
(* overlap; an event token per path decides whose read may be written.          *)
(*                                                                             *)
(* chokidar is external.  It reports a path some time after the file changed,  *)
(* as a change if the file is there and as an unlink if it is not; several     *)
(* changes may be one report, and a file that comes and goes before its report *)
(* is never reported.  A file that lands in a folder chokidar was still        *)
(* scanning is unseen until the new-directory rescan.  Contents are version    *)
(* numbers, greater for later writes; 0 is no file, and no row.                *)
(*                                                                             *)
(* An event token is a fresh Symbol() that is only compared with tokens of its *)
(* own path, so a number that nothing of the path uses any more may serve      *)
(* again.  The files are in one folder, whose listing the batch shares.        *)
EXTENDS Naturals

CONSTANTS
    Paths,          \* files of the vault, as paths the watcher sees
    Notes,          \* those that end in .md; the others have indexable content
    MaxChanges,     \* bound on changes to the disk
    MaxTokens       \* bound on a path's event tokens in use at one time

ASSUME NotesAssumption == Notes \subseteq Paths
ASSUME BoundsAssumption == MaxChanges \in Nat \ {0} /\ MaxTokens \in Nat \ {0}

Absent == 0
NoToken == 0
Reservation == 1            \* the token applyHeldChanges reserves for a path
Unread == MaxChanges + 1    \* a path the rebuild has not read

VARIABLES
    disk,       \* path -> version of the file, or Absent
    changes,    \* changes made to the disk so far
    reported,   \* what chokidar last reported, or took in at its start
    unseen,     \* files chokidar's scan of a new folder missed
    mode,       \* watcherState.mode
    held,       \* heldPaths: path -> "none", "change" or "unlink"
    snapshot,   \* what the rebuild read for each path, or Unread
    rows,       \* note rows and file-content rows: path -> version or Absent
    assets,     \* non-md paths with an asset-table row
    token,      \* currentEvents: path -> event token or NoToken
    jobs,       \* reads in flight: [path, token, stage, got]
    batch,      \* the startup batch: [step, listed, unchecked, missing, toRead]
    failed,     \* history: paths whose last read or index write failed
    unnoticed   \* history: paths whose last file came and went without an event

diskVars == <<disk, changes>>
chokidarVars == <<reported, unseen>>
startVars == <<mode, held, snapshot>>
indexVars == <<rows, assets>>
readVars == <<token, jobs>>
history == <<failed, unnoticed>>
vars == <<diskVars, chokidarVars, startVars, indexVars, readVars, batch, history>>

Files == Paths \ Notes

\* A read in flight, and the startup batch.
Job == [path : Paths, token : 1 .. MaxTokens, got : 0 .. MaxChanges,
        stage : {"read", "have", "parse", "content", "haveContent"}]
Batch == [step : {"none", "list", "check", "read"}, listed : SUBSET Paths,
          unchecked : SUBSET Paths, missing : SUBSET Paths, toRead : SUBSET Paths]

-----------------------------------------------------------------------------
(* The vault                                                                   *)

\* The index starts as an earlier process left it: the file's older version, or a
\* row of a file that is gone.
Init ==
    /\ changes = 1
    /\ disk \in [Paths -> {Absent, 1}]
    /\ rows \in [Paths -> {Absent, 1}]
    /\ assets = {p \in Files : rows[p] /= Absent}
    /\ reported = disk
    /\ unseen = {}
    /\ mode = "holding"
    /\ held = [p \in Paths |-> "none"]
    /\ snapshot = [p \in Paths |-> Unread]
    /\ token = [p \in Paths |-> NoToken]
    /\ jobs = {}
    /\ batch = [step |-> "none", listed |-> {}, unchecked |-> {}, missing |-> {}, toRead |-> {}]
    /\ failed = {}
    /\ unnoticed = {}

\* Obsidian, Sync or a tool writes a file; a new one may land unseen.
WriteFile(p) ==
    /\ changes < MaxChanges
    /\ changes' = changes + 1
    /\ disk' = [disk EXCEPT ![p] = changes + 1]
    /\ \/ UNCHANGED unseen
       \/ /\ disk[p] = Absent /\ reported[p] = Absent
          /\ unseen' = unseen \union {p}
    /\ UNCHANGED <<reported, startVars, indexVars, readVars, batch, history>>

DeleteFile(p) ==
    /\ changes < MaxChanges
    /\ disk[p] /= Absent
    /\ changes' = changes + 1
    /\ disk' = [disk EXCEPT ![p] = Absent]
    /\ unseen' = unseen \ {p}
    /\ unnoticed' = IF reported[p] = Absent THEN unnoticed \union {p} ELSE unnoticed
    /\ UNCHANGED <<reported, startVars, indexVars, readVars, batch, failed>>

-----------------------------------------------------------------------------
(* Reads under an event token                                                  *)

Reserved(p) == p \in batch.unchecked \union batch.missing \union batch.toRead

TokensInUse(p) ==
    {token[p]} \union {j.token : j \in {k \in jobs : k.path = p}}
               \union (IF Reserved(p) THEN {Reservation} ELSE {})

FreshTokens(p) == (1 .. MaxTokens) \ TokensInUse(p)

FreshToken(p) == CHOOSE t \in FreshTokens(p) : TRUE

ReadJob(p, t) == [path |-> p, token |-> t, stage |-> "read", got |-> Absent]

\* indexChangedFile: a fresh token before the read starts.
StartRead(p) ==
    /\ FreshTokens(p) /= {}
    /\ token' = [token EXCEPT ![p] = FreshToken(p)]
    /\ jobs' = jobs \union {ReadJob(p, FreshToken(p))}

\* Mutant: reads are written whether or not their token was replaced.
AlwaysCurrent(j) == TRUE

\* A newer event or a removal takes the path's token away from the job.
Current(j) == token[j.path] = j.token

\* Mutant: a read that ends clears a newer read's token.
ReleasedAlways(j) == [token EXCEPT ![j.path] = NoToken]

\* Mutant: tokens stay in the map.
NeverReleased(j) == token

\* releaseEventToken: only the token's own holder clears it.
Released(j) == IF token[j.path] = j.token THEN [token EXCEPT ![j.path] = NoToken] ELSE token

EndJob(j) ==
    /\ jobs' = jobs \ {j}
    /\ token' = Released(j)

Advance(j, stage, got) ==
    /\ jobs' = (jobs \ {j}) \union {[j EXCEPT !.stage = stage, !.got = got]}
    /\ UNCHANGED token

\* An await on the disk settles: a note's text, a file's stat, a file's content.
\* The handler resumes in a later step.
DiskRead(j) ==
    /\ \/ j.stage = "read" /\ Advance(j, "have", disk[j.path])
       \/ j.stage = "content" /\ Advance(j, "haveContent", disk[j.path])
    /\ UNCHANGED <<diskVars, chokidarVars, startVars, indexVars, batch, history>>

\* indexChangedNote after its first await: a superseded read and a vanished note
\* end here, the others go to the body-tag parse.
NoteResumes(j) ==
    /\ j.stage = "have" /\ j.path \in Notes
    /\ IF Current(j) /\ j.got /= Absent THEN Advance(j, "parse", j.got) ELSE EndJob(j)
    /\ UNCHANGED <<diskVars, chokidarVars, startVars, indexVars, batch, history>>

\* The parse ends.  Without an await between the check and the write, the row
\* becomes what was read.
NoteParsed(j) ==
    /\ j.stage = "parse"
    /\ IF Current(j)
       THEN /\ rows' = [rows EXCEPT ![j.path] = j.got]
            /\ failed' = failed \ {j.path}
       ELSE UNCHANGED <<rows, failed>>
    /\ EndJob(j)
    /\ UNCHANGED <<diskVars, chokidarVars, startVars, assets, batch, unnoticed>>

\* indexChangedNonMdFile after its stat: the asset row is written at once.
FileResumes(j) ==
    /\ j.stage = "have" /\ j.path \in Files
    /\ IF Current(j) /\ j.got /= Absent
       THEN /\ assets' = assets \union {j.path}
            /\ Advance(j, "content", Absent)
       ELSE EndJob(j) /\ UNCHANGED assets
    /\ UNCHANGED <<diskVars, chokidarVars, startVars, rows, batch, history>>

\* After its content read: a file gone by then leaves content search as it was.
ContentResumes(j) ==
    /\ j.stage = "haveContent"
    /\ IF Current(j) /\ j.got /= Absent
       THEN /\ rows' = [rows EXCEPT ![j.path] = j.got]
            /\ failed' = failed \ {j.path}
       ELSE UNCHANGED <<rows, failed>>
    /\ EndJob(j)
    /\ UNCHANGED <<diskVars, chokidarVars, startVars, assets, batch, unnoticed>>

\* An await rejects for a reason other than a missing file, or the index write
\* throws: logged, and the rows stay as they were.
ReadFails(j) ==
    /\ EndJob(j)
    /\ failed' = IF Current(j) THEN failed \union {j.path} ELSE failed
    /\ UNCHANGED <<diskVars, chokidarVars, startVars, indexVars, batch, unnoticed>>

-----------------------------------------------------------------------------
(* Events                                                                      *)

\* removeFromIndex clears the token, so that a read in flight cannot put the rows
\* back.  Each removal may throw, which is logged.
TokenAfterRemoval(gone) == [p \in Paths |-> IF p \in gone THEN NoToken ELSE token[p]]

RowsWithout(gone) == [p \in Paths |-> IF p \in gone THEN Absent ELSE rows[p]]

RemoveFromIndex(p) ==
    /\ token' = TokenAfterRemoval({p})
    /\ \/ /\ rows' = RowsWithout({p})
          /\ assets' = assets \ {p}
          /\ failed' = failed \ {p}
       \/ /\ failed' = failed \union {p}
          /\ rows' \in {rows, RowsWithout({p})}
          /\ assets' \in {assets, assets \ {p}}

\* handleChange: recorded while holding, read once live, ignored once closed.
HandleChange(p) ==
    \/ /\ mode = "holding"
       /\ held' = [held EXCEPT ![p] = "change"]
       /\ UNCHANGED readVars
    \/ /\ mode = "live"
       /\ StartRead(p)
       /\ UNCHANGED held
    \/ /\ mode = "closed"
       /\ UNCHANGED <<held, readVars>>

\* handleDelete: the same, but a live deletion is applied at once.
HandleDelete(p) ==
    \/ /\ mode = "holding"
       /\ held' = [held EXCEPT ![p] = "unlink"]
       /\ UNCHANGED <<token, indexVars, failed>>
    \/ /\ mode = "live"
       /\ RemoveFromIndex(p)
       /\ UNCHANGED held
    \/ /\ mode = "closed"
       /\ UNCHANGED <<held, token, indexVars, failed>>

\* chokidar reports a path whose state differs from its last report.
ReportChange(p) ==
    /\ p \notin unseen
    /\ disk[p] /= reported[p] /\ disk[p] /= Absent
    /\ reported' = [reported EXCEPT ![p] = disk[p]]
    /\ HandleChange(p)
    /\ unnoticed' = unnoticed \ {p}
    /\ UNCHANGED <<diskVars, unseen, mode, snapshot, indexVars, batch, failed>>

ReportUnlink(p) ==
    /\ disk[p] /= reported[p] /\ disk[p] = Absent
    /\ reported' = [reported EXCEPT ![p] = Absent]
    /\ HandleDelete(p)
    /\ unnoticed' = unnoticed \ {p}
    /\ UNCHANGED <<diskVars, unseen, mode, snapshot, jobs, batch>>

\* rescanNewDirectory, or a retry it scheduled: a file chokidar does not track is
\* registered with it and handled as a change.  A closed watcher does neither.
Rescan(p) ==
    /\ p \in unseen
    /\ unseen' = unseen \ {p}
    /\ HandleChange(p)
    /\ unnoticed' = unnoticed \ {p}
    /\ reported' = IF mode = "closed" THEN reported ELSE [reported EXCEPT ![p] = disk[p]]
    /\ UNCHANGED <<diskVars, mode, snapshot, indexVars, batch, failed>>

-----------------------------------------------------------------------------
(* Startup                                                                     *)

\* rebuildFromVault reads each path at a moment of its own.
RebuildRead(p) ==
    /\ mode = "holding"
    /\ snapshot[p] = Unread
    /\ snapshot' = [snapshot EXCEPT ![p] = disk[p]]
    /\ UNCHANGED <<diskVars, chokidarVars, mode, held, indexVars, readVars, batch, history>>

\* A rebuild that throws closes the watcher.
RebuildFails ==
    /\ mode = "holding"
    /\ mode' = "closed"
    /\ UNCHANGED <<diskVars, chokidarVars, held, snapshot, indexVars, readVars, batch, history>>

HeldPaths == {p \in Paths : held[p] /= "none"}
HeldUnlinks == {p \in Paths : held[p] = "unlink"}

\* applyHeldChanges reserves a token for every held path, after the held
\* deletions are removed.
TokensReserved == [p \in Paths |-> IF p \in HeldPaths THEN Reservation ELSE token[p]]

\* Mutant: the watcher goes live before the rebuild returns.
RebuildNotAwaited == TRUE

RebuildDone == \A p \in Paths : snapshot[p] /= Unread

\* The rebuild returns with its rows in place, and the watcher goes live without
\* an await in between.
GoLive ==
    /\ mode = "holding"
    /\ RebuildDone
    /\ mode' = "live"
    /\ rows' = [p \in Paths |-> IF p \in HeldUnlinks THEN Absent ELSE snapshot[p]]
    /\ assets' = {p \in Files \ HeldUnlinks : snapshot[p] /= Absent}
    /\ token' = TokensReserved
    /\ batch' = [batch EXCEPT !.step = "list", !.unchecked = HeldPaths]
    /\ UNCHANGED <<diskVars, chokidarVars, held, snapshot, jobs, history>>

\* listFolderNames, once for the batch.
ListFolder ==
    /\ batch.step = "list"
    /\ batch' = [batch EXCEPT !.step = "check", !.listed = {p \in Paths : disk[p] /= Absent}]
    /\ UNCHANGED <<diskVars, chokidarVars, startVars, indexVars, readVars, history>>

\* checkHeldPathOnDisk: missing from the listing, or from the disk by now.
CheckHeldPath(p) ==
    /\ batch.step = "check" /\ p \in batch.unchecked
    /\ batch' = IF p \in batch.listed /\ disk[p] /= Absent
                THEN [batch EXCEPT !.unchecked = @ \ {p}, !.toRead = @ \union {p}]
                ELSE [batch EXCEPT !.unchecked = @ \ {p}, !.missing = @ \union {p}]
    /\ UNCHANGED <<diskVars, chokidarVars, startVars, indexVars, readVars, history>>

\* A listing or a stat that fails proves nothing: the path is left to its read.
HeldPathUnknown(p) ==
    /\ batch.step = "check" /\ p \in batch.unchecked
    /\ batch' = [batch EXCEPT !.unchecked = @ \ {p}, !.toRead = @ \union {p}]
    /\ UNCHANGED <<diskVars, chokidarVars, startVars, indexVars, readVars, history>>

\* Mutant: the batch removes a path a live event has taken.
StillMissingUnguarded == batch.missing

\* A live event since going live has taken the path.
StillMissing == {p \in batch.missing : token[p] = Reservation}

\* reconcileHeldPaths removes every missing path in one step, before any read.
RemoveMissing ==
    /\ batch.step = "check" /\ batch.unchecked = {}
    /\ batch' = [batch EXCEPT !.step = "read", !.missing = {}]
    /\ rows' = RowsWithout(StillMissing)
    /\ assets' = assets \ StillMissing
    /\ token' = TokenAfterRemoval(StillMissing)
    /\ failed' = failed \ StillMissing
    /\ UNCHANGED <<diskVars, chokidarVars, startVars, jobs, unnoticed>>

\* indexHeldPath reads under the reservation, even one an event has replaced.
StartHeldRead(p) ==
    /\ batch.step = "read" /\ p \in batch.toRead
    /\ batch' = [batch EXCEPT !.toRead = @ \ {p}]
    /\ jobs' = jobs \union {ReadJob(p, Reservation)}
    /\ UNCHANGED <<diskVars, chokidarVars, startVars, indexVars, token, history>>

-----------------------------------------------------------------------------
ChangeDisk == \E p \in Paths : WriteFile(p) \/ DeleteFile(p)

Chokidar == \E p \in Paths : ReportChange(p) \/ ReportUnlink(p) \/ Rescan(p)

JobStep(j) == DiskRead(j) \/ NoteResumes(j) \/ NoteParsed(j) \/ FileResumes(j) \/ ContentResumes(j)

Reads == \E j \in jobs : JobStep(j)

Startup ==
    \/ \E p \in Paths : RebuildRead(p)
    \/ GoLive
    \/ ListFolder
    \/ \E p \in Paths : CheckHeldPath(p) \/ HeldPathUnknown(p) \/ StartHeldRead(p)
    \/ RemoveMissing

Failures == RebuildFails \/ \E j \in jobs : ReadFails(j)

Next == ChangeDisk \/ Chokidar \/ Reads \/ Startup \/ Failures

Spec == Init /\ [][Next]_vars

\* chokidar's events, the rescan timers, the file reads and the startup code all
\* go on by themselves; nobody has to change the vault or fail.
FairSpec ==
    /\ Spec
    /\ WF_vars(Startup)
    /\ \A p \in Paths :
           WF_vars(ReportChange(p)) /\ WF_vars(ReportUnlink(p)) /\ WF_vars(Rescan(p))
    /\ WF_vars(Reads)

-----------------------------------------------------------------------------
(* Properties                                                                  *)

\* The type of the state.
TypeOK ==
    /\ changes \in 1 .. MaxChanges
    /\ disk \in [Paths -> 0 .. MaxChanges]
    /\ reported \in [Paths -> 0 .. MaxChanges]
    /\ unseen \subseteq Paths
    /\ mode \in {"holding", "live", "closed"}
    /\ held \in [Paths -> {"none", "change", "unlink"}]
    /\ snapshot \in [Paths -> 0 .. Unread]
    /\ rows \in [Paths -> 0 .. MaxChanges]
    /\ assets \subseteq Files
    /\ token \in [Paths -> 0 .. MaxTokens]
    /\ jobs \subseteq Job
    /\ batch \in Batch
    /\ failed \subseteq Paths
    /\ unnoticed \subseteq Paths

MatchesDisk(p) ==
    /\ rows[p] = disk[p]
    /\ p \in Files => (p \in assets <=> disk[p] /= Absent)

\* chokidar has the path's latest change still to report.
ReportPending(p) == reported[p] /= disk[p] \/ p \in unseen

\* A read that may still be written, of a version not yet out of date.
BeingRead(p) ==
    \/ \E j \in jobs :
           /\ j.path = p /\ Current(j)
           /\ j.stage \in {"have", "parse", "haveContent"} => j.got = disk[p]
    \/ Reserved(p) /\ token[p] = Reservation

NotLeftStale(p) == MatchesDisk(p) \/ ReportPending(p) \/ BeingRead(p)

\* Once the watcher is live, a path whose rows differ from the file has an event
\* still to come or a current read under way; no overlap of events, reads, the
\* batch and the rescan leaves it stale with nothing to repair it.  Only a read or
\* a removal that failed does, until the next event, and a file whose whole life chokidar never noticed.
StalePathsAreBeingRead ==
    mode = "live" => \A p \in Paths \ (failed \union unnoticed) : NotLeftStale(p)

\* What the comment on watchVaultAndBuildIndex says: a change landing mid-rebuild is
\* applied after it instead of being missed.
NoChangeIsMissed ==
    mode = "live" => \A p \in Paths \ failed : NotLeftStale(p)

\* A token in currentEvents has a read or a reservation that will release it, so
\* the map does not grow with the paths ever read.
TokensHaveHolders ==
    \A p \in Paths :
        token[p] /= NoToken =>
            \/ \E j \in jobs : j.path = p /\ Current(j)
            \/ Reserved(p) /\ token[p] = Reservation

\* Once live, a read never replaces rows of a newer version of the file, however
\* the reads of two events, or of an event and the batch, overlap.
IndexNeverGoesBack ==
    [][mode = "live" =>
         \A p \in Paths : rows'[p] = Absent \/ rows'[p] >= rows[p]]_vars

\* When the vault stops changing, the index ends up equal to it: nothing chokidar
\* missed, held or reported late is lost for good.
IndexCatchesUp ==
    <>[](mode = "closed" \/ \A p \in Paths \ (failed \union unnoticed) : MatchesDisk(p))
=============================================================================
