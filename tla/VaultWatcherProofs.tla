------------------------- MODULE VaultWatcherProofs -------------------------
(* Theorems about VaultWatcher: type correctness, that every event token has a    *)
(* holder, that a live index leaves no path stale with nothing to repair it, and  *)
(* that a read never replaces rows of a newer version.                            *)
EXTENDS VaultWatcher, TLAPS

\* Before the watcher is live nothing is read, and each held path is in one list of
\* the startup batch.
StartupInOrder ==
    /\ mode /= "live" =>
           /\ jobs = {} /\ failed = {} /\ batch.step = "none"
           /\ \A p \in Paths : token[p] = NoToken
    /\ batch.step \notin {"list", "check"} => batch.unchecked = {}
    /\ batch.step /= "check" => batch.missing = {}
    /\ batch.step \notin {"check", "read"} => batch.toRead = {}
    /\ batch.unchecked \intersect batch.missing = {}
    /\ (batch.unchecked \union batch.missing) \intersect batch.toRead = {}

\* Every read has an event token of its own.
TokensAreOwn ==
    /\ \A j, k \in jobs : j.path = k.path /\ j.token = k.token => j = k
    /\ \A j \in jobs : Reserved(j.path) => j.token /= Reservation

\* A file later on disk is newer than whatever was kept of the path before.
NewerThan(p, v) == v <= changes /\ (disk[p] /= Absent => v <= disk[p])
VersionsGrow ==
    /\ \A p \in Paths : disk[p] <= changes /\ reported[p] <= changes
    /\ \A p \in Paths : NewerThan(p, rows[p])
    /\ \A p \in Paths : snapshot[p] = Unread \/ NewerThan(p, snapshot[p])
    /\ \A j \in jobs : NewerThan(j.path, j.got)
    /\ \A p \in unseen : disk[p] /= Absent

\* A read goes through the stages of its kind of file, and a file whose content is
\* read has its asset row.  What a current read will write is no older than the row.
HasRead(j) == j.stage \in {"have", "parse", "haveContent"}
ReadsInOrder ==
    /\ \A j \in jobs : j.stage = "parse" => j.path \in Notes /\ j.got /= Absent
    /\ \A j \in jobs : j.stage \in {"content", "haveContent"} =>
           j.path \in Files /\ (Current(j) => j.path \in assets)
    /\ \A j \in jobs : Current(j) /\ HasRead(j) /\ j.got /= Absent => rows[j.path] <= j.got

\* What the rebuild, the batch or a current read knows of a path is still so, or
\* chokidar has news of the path, or never noticed.
Settled(p, now) == now \/ ReportPending(p) \/ p \in unnoticed
KnowledgeIsCurrent ==
    /\ \A j \in jobs : Current(j) /\ HasRead(j) =>
           Settled(j.path, j.got = disk[j.path])
    /\ \A p \in Paths :
           /\ token[p] = Reservation
           /\ \/ p \in batch.missing
              \/ batch.step = "check" /\ p \in batch.unchecked \ batch.listed
           => disk[p] = Absent \/ ReportPending(p)
    /\ mode = "holding" =>
           \A p \in Paths :
               /\ held[p] = "change" => Settled(p, disk[p] /= Absent)
               /\ held[p] = "none" /\ snapshot[p] /= Unread =>
                      Settled(p, snapshot[p] = disk[p])

\* A file that is gone left nothing in the index, or chokidar has that to report.
GoneFilesAreSettled ==
    mode = "live" =>
        \A p \in Paths \ failed : disk[p] = Absent => Settled(p, MatchesDisk(p))

WatcherInvariant ==
    /\ TypeOK
    /\ StartupInOrder
    /\ TokensAreOwn
    /\ TokensHaveHolders
    /\ VersionsGrow
    /\ ReadsInOrder
    /\ KnowledgeIsCurrent
    /\ GoneFilesAreSettled
    /\ StalePathsAreBeingRead
-----------------------------------------------------------------------------
(* A step keeps each part                                                      *)

\* What a read is about.
LEMMA JobFields ==
    \A j \in Job : /\ j.path \in Paths /\ j.token \in 1 .. MaxTokens
                   /\ j.got \in 0 .. MaxChanges
  BY DEF Job

\* The read j goes on as k: the same path and token, a later stage.
GoesOn(j, k) ==
    /\ jobs' = (jobs \ {j}) \union {k}
    /\ k.path = j.path /\ k.token = j.token
    /\ UNCHANGED token

\* A read that goes on is still a read.
LEMMA AdvanceFields ==
    ASSUME NEW j \in Job, NEW got \in 0 .. MaxChanges,
           NEW stage \in {"read", "have", "parse", "content", "haveContent"},
           Advance(j, stage, got)
    PROVE  \E k \in Job : GoesOn(j, k) /\ k.stage = stage /\ k.got = got
<1> DEFINE k == [j EXCEPT !.stage = stage, !.got = got]
<1>1. k \in Job /\ k.path = j.path /\ k.token = j.token /\ k.stage = stage /\ k.got = got
  BY DEF Job
<1>2. jobs' = (jobs \ {j}) \union {k} /\ UNCHANGED token
  BY Zenon DEF Advance
<1> HIDE DEF k
<1> QED
  BY <1>1, <1>2 DEF GoesOn

\* A read that ends gives back its token, if it is still the path's.
LEMMA EndJobFields ==
    ASSUME NEW j \in jobs, jobs \subseteq Job, token \in [Paths -> 0 .. MaxTokens], EndJob(j)
    PROVE  /\ jobs' = jobs \ {j}
           /\ token' \in [Paths -> 0 .. MaxTokens]
           /\ Current(j) => token'[j.path] = NoToken
           /\ \A p \in Paths : p /= j.path \/ ~Current(j) => token'[p] = token[p]
<1>1. jobs' = jobs \ {j} /\ token' = Released(j) /\ j.path \in Paths
  BY DEF EndJob, Job
<1>2. CASE Current(j)
  <2>1. token' = [token EXCEPT ![j.path] = NoToken]
    BY <1>1, <1>2, Zenon DEF Released, Current
  <2> QED
    BY <1>1, <1>2, <2>1, BoundsAssumption DEF NoToken
<1>3. CASE ~Current(j)
  BY <1>1, <1>3, Zenon DEF Released, Current
<1> QED
  BY <1>2, <1>3

\* The read k of p starts, under a token that nothing of its path uses.
Starts(p, k) ==
    /\ jobs' = jobs \union {k}
    /\ token' = [token EXCEPT ![p] = k.token]
    /\ k.path = p /\ k.stage = "read" /\ k.got = Absent
    /\ \A j \in jobs : j.path = p => j.token /= k.token
    /\ Reserved(p) => k.token /= Reservation

\* A token is fresh among those of its path.
LEMMA StartReadFields ==
    ASSUME NEW p \in Paths, StartRead(p)
    PROVE  \E k \in Job : Starts(p, k)
<1> DEFINE t == FreshToken(p)
<1>1. t \in FreshTokens(p)
  BY DEF StartRead, FreshToken
<1>2. t \in 1 .. MaxTokens /\ t \notin TokensInUse(p)
  BY <1>1 DEF FreshTokens
<1>3. /\ \A j \in jobs : j.path = p => j.token /= t
      /\ Reserved(p) => t /= Reservation
  BY <1>2, Zenon DEF TokensInUse
<1>4. jobs' = jobs \union {ReadJob(p, t)} /\ token' = [token EXCEPT ![p] = t]
  BY DEF StartRead
<1> HIDE DEF t
<1>5. /\ ReadJob(p, t) \in Job /\ ReadJob(p, t).path = p /\ ReadJob(p, t).token = t
      /\ ReadJob(p, t).stage = "read" /\ ReadJob(p, t).got = Absent
  BY <1>2, BoundsAssumption DEF ReadJob, Job, Absent
<1> HIDE DEF ReadJob
<1> QED
  BY <1>3, <1>4, <1>5 DEF Starts

\* A disk read, field by field.
LEMMA DiskReadFields ==
    ASSUME TypeOK, NEW j \in jobs, DiskRead(j)
    PROVE  /\ UNCHANGED <<diskVars, chokidarVars, startVars, indexVars, batch, history>>
           /\ \E k \in Job :
                  /\ GoesOn(j, k) /\ k.got = disk[j.path]
                  /\ \/ j.stage = "read" /\ k.stage = "have"
                     \/ j.stage = "content" /\ k.stage = "haveContent"
<1>1. j \in Job /\ disk[j.path] \in 0 .. MaxChanges
  BY DEF TypeOK, Job
<1>2. CASE j.stage = "read" /\ Advance(j, "have", disk[j.path])
  BY <1>1, <1>2, AdvanceFields DEF DiskRead
<1>3. CASE j.stage = "content" /\ Advance(j, "haveContent", disk[j.path])
  BY <1>1, <1>3, AdvanceFields DEF DiskRead
<1> QED
  BY <1>2, <1>3 DEF DiskRead

\* A note's read after its first await, field by field.
LEMMA NoteResumesFields ==
    ASSUME TypeOK, NEW j \in jobs, NoteResumes(j)
    PROVE  /\ UNCHANGED <<diskVars, chokidarVars, startVars, indexVars, batch, history>>
           /\ j.stage = "have" /\ j.path \in Notes
           /\ \/ /\ Current(j) /\ j.got /= Absent
                 /\ \E k \in Job : GoesOn(j, k) /\ k.stage = "parse" /\ k.got = j.got
              \/ (~Current(j) \/ j.got = Absent) /\ EndJob(j)
<1>1. j \in Job /\ j.got \in 0 .. MaxChanges
  BY DEF TypeOK, Job
<1>2. /\ UNCHANGED <<diskVars, chokidarVars, startVars, indexVars, batch, history>>
      /\ j.stage = "have" /\ j.path \in Notes
  BY Zenon DEF NoteResumes
<1>3. CASE Current(j) /\ j.got /= Absent
  <2>1. Advance(j, "parse", j.got)
    BY <1>3, Zenon DEF NoteResumes
  <2> QED
    BY <1>1, <1>2, <1>3, <2>1, AdvanceFields
<1>4. CASE ~(Current(j) /\ j.got /= Absent)
  BY <1>2, <1>4, Zenon DEF NoteResumes
<1> QED
  BY <1>3, <1>4

\* Another file's read after its stat, field by field.
LEMMA FileResumesFields ==
    ASSUME TypeOK, NEW j \in jobs, FileResumes(j)
    PROVE  /\ UNCHANGED <<diskVars, chokidarVars, startVars, rows, batch, history>>
           /\ j.stage = "have" /\ j.path \in Files
           /\ \/ /\ Current(j) /\ j.got /= Absent /\ assets' = assets \union {j.path}
                 /\ \E k \in Job : GoesOn(j, k) /\ k.stage = "content" /\ k.got = Absent
              \/ (~Current(j) \/ j.got = Absent) /\ EndJob(j) /\ UNCHANGED assets
<1>1. j \in Job /\ Absent \in 0 .. MaxChanges
  BY BoundsAssumption DEF TypeOK, Absent
<1>2. /\ UNCHANGED <<diskVars, chokidarVars, startVars, rows, batch, history>>
      /\ j.stage = "have" /\ j.path \in Files
  BY Zenon DEF FileResumes
<1>3. CASE Current(j) /\ j.got /= Absent
  <2>1. Advance(j, "content", Absent) /\ assets' = assets \union {j.path}
    BY <1>3, Zenon DEF FileResumes
  <2> QED
    BY <1>1, <1>2, <1>3, <2>1, AdvanceFields
<1>4. CASE ~(Current(j) /\ j.got /= Absent)
  BY <1>2, <1>4, Zenon DEF FileResumes
<1> QED
  BY <1>3, <1>4

\* The end of a read that may write, of a note or of a content, field by field.
Writes(j) ==
    \/ /\ Current(j)
       /\ j.stage = "haveContent" => j.got /= Absent
       /\ rows' = [rows EXCEPT ![j.path] = j.got]
       /\ failed' = failed \ {j.path}
    \/ /\ UNCHANGED <<rows, failed>>
       /\ ~Current(j) \/ (j.stage = "haveContent" /\ j.got = Absent)

\* A parsed note is written if its read is current.
LEMMA NoteParsedFields ==
    ASSUME NEW j, NoteParsed(j)
    PROVE  /\ UNCHANGED <<diskVars, chokidarVars, startVars, assets, batch, unnoticed>>
           /\ j.stage = "parse" /\ EndJob(j) /\ Writes(j)
<1>1. /\ UNCHANGED <<diskVars, chokidarVars, startVars, assets, batch, unnoticed>>
      /\ j.stage = "parse" /\ EndJob(j) /\ j.stage /= "haveContent"
  BY DEF NoteParsed
<1>2. CASE Current(j)
  BY <1>1, <1>2, Zenon DEF NoteParsed, Writes
<1>3. CASE ~Current(j)
  BY <1>1, <1>3, Zenon DEF NoteParsed, Writes
<1> QED
  BY <1>2, <1>3

\* A content that was read is written if its read is current and it was there.
LEMMA ContentResumesFields ==
    ASSUME NEW j, ContentResumes(j)
    PROVE  /\ UNCHANGED <<diskVars, chokidarVars, startVars, assets, batch, unnoticed>>
           /\ j.stage = "haveContent" /\ EndJob(j) /\ Writes(j)
<1>1. /\ UNCHANGED <<diskVars, chokidarVars, startVars, assets, batch, unnoticed>>
      /\ j.stage = "haveContent" /\ EndJob(j)
  BY Zenon DEF ContentResumes
<1>2. CASE Current(j) /\ j.got /= Absent
  BY <1>1, <1>2, Zenon DEF ContentResumes, Writes
<1>3. CASE ~(Current(j) /\ j.got /= Absent)
  BY <1>1, <1>3, Zenon DEF ContentResumes, Writes
<1> QED
  BY <1>2, <1>3

\* The startup batch when the watcher goes live.
LEMMA GoLiveFields ==
    ASSUME batch \in Batch, GoLive
    PROVE  /\ batch' \in Batch /\ batch'.step = "list" /\ batch'.unchecked = HeldPaths
           /\ batch'.missing = batch.missing /\ batch'.toRead = batch.toRead
  BY DEF GoLive, Batch, HeldPaths

\* The listing of the folder.
LEMMA ListFolderFields ==
    ASSUME batch \in Batch, ListFolder
    PROVE  /\ batch.step = "list"
           /\ UNCHANGED <<diskVars, chokidarVars, startVars, indexVars, readVars, history>>
           /\ batch' \in Batch /\ batch'.step = "check"
           /\ batch'.listed = {p \in Paths : disk[p] /= Absent}
           /\ batch'.unchecked = batch.unchecked
           /\ batch'.missing = batch.missing /\ batch'.toRead = batch.toRead
<1> DEFINE there == {p \in Paths : disk[p] /= Absent}
<1>1. batch' = [batch EXCEPT !.step = "check", !.listed = there]
  BY DEF ListFolder
<1>2. there \subseteq Paths
  OBVIOUS
<1> HIDE DEF there
<1>3. /\ batch' \in Batch /\ batch'.step = "check" /\ batch'.listed = there
      /\ batch'.unchecked = batch.unchecked
      /\ batch'.missing = batch.missing /\ batch'.toRead = batch.toRead
  BY <1>1, <1>2 DEF Batch
<1> QED
  BY <1>3 DEF ListFolder, there

\* A held path leaves the unchecked ones: to be read, or missing.
LEMMA CheckFields ==
    ASSUME batch \in Batch, NEW p \in Paths, CheckHeldPath(p) \/ HeldPathUnknown(p)
    PROVE  /\ batch.step = "check" /\ p \in batch.unchecked
           /\ UNCHANGED <<diskVars, chokidarVars, startVars, indexVars, readVars, history>>
           /\ batch' \in Batch /\ batch'.step = "check" /\ batch'.listed = batch.listed
           /\ batch'.unchecked = batch.unchecked \ {p}
           /\ \/ batch'.toRead = batch.toRead \union {p} /\ batch'.missing = batch.missing
              \/ /\ batch'.missing = batch.missing \union {p} /\ batch'.toRead = batch.toRead
                 /\ p \notin batch.listed \/ disk[p] = Absent
<1>1. /\ batch.step = "check" /\ p \in batch.unchecked
      /\ UNCHANGED <<diskVars, chokidarVars, startVars, indexVars, readVars, history>>
  BY Zenon DEF CheckHeldPath, HeldPathUnknown
<1>2. CASE batch' = [batch EXCEPT !.unchecked = @ \ {p}, !.toRead = @ \union {p}]
  BY <1>1, <1>2 DEF Batch
<1>3. CASE /\ batch' = [batch EXCEPT !.unchecked = @ \ {p}, !.missing = @ \union {p}]
           /\ p \notin batch.listed \/ disk[p] = Absent
  BY <1>1, <1>3 DEF Batch
<1> QED
  BY <1>2, <1>3, Zenon DEF CheckHeldPath, HeldPathUnknown

\* The removal of the missing paths.
LEMMA RemoveMissingFields ==
    ASSUME batch \in Batch, RemoveMissing
    PROVE  /\ batch' \in Batch /\ batch'.step = "read" /\ batch'.missing = {}
           /\ batch'.unchecked = batch.unchecked /\ batch'.toRead = batch.toRead
  BY DEF RemoveMissing, Batch

\* The read of a held path under its reservation.
LEMMA StartHeldReadFields ==
    ASSUME batch \in Batch, NEW p \in Paths, StartHeldRead(p)
    PROVE  /\ batch.step = "read" /\ p \in batch.toRead
           /\ UNCHANGED <<diskVars, chokidarVars, startVars, indexVars, token, history>>
           /\ batch' \in Batch /\ batch'.step = "read" /\ batch'.unchecked = batch.unchecked
           /\ batch'.missing = batch.missing /\ batch'.toRead = batch.toRead \ {p}
           /\ \E k \in Job :
                  /\ jobs' = jobs \union {k}
                  /\ k.path = p /\ k.token = Reservation /\ k.stage = "read" /\ k.got = Absent
<1>1. batch' = [batch EXCEPT !.toRead = @ \ {p}] /\ jobs' = jobs \union {ReadJob(p, Reservation)}
  BY DEF StartHeldRead
<1>2. /\ batch.step = "read" /\ p \in batch.toRead
      /\ UNCHANGED <<diskVars, chokidarVars, startVars, indexVars, token, history>>
  BY DEF StartHeldRead
<1>3. /\ ReadJob(p, Reservation) \in Job /\ ReadJob(p, Reservation).path = p
      /\ ReadJob(p, Reservation).token = Reservation
      /\ ReadJob(p, Reservation).stage = "read" /\ ReadJob(p, Reservation).got = Absent
  BY BoundsAssumption DEF ReadJob, Job, Absent, Reservation
<1>4. /\ batch' \in Batch /\ batch'.step = "read" /\ batch'.unchecked = batch.unchecked
      /\ batch'.missing = batch.missing /\ batch'.toRead = batch.toRead \ {p}
  BY <1>1, <1>2 DEF Batch
<1> HIDE DEF ReadJob
<1> QED
  BY <1>1, <1>2, <1>3, <1>4

\* A removal, path by path: what it could not remove it leaves to the log.
LEMMA RemovalFields ==
    ASSUME TypeOK, NEW p \in Paths, RemoveFromIndex(p)
    PROVE  /\ token' \in [Paths -> 0 .. MaxTokens] /\ rows' \in [Paths -> 0 .. MaxChanges]
           /\ assets' \subseteq assets /\ failed' \subseteq Paths
           /\ token'[p] = NoToken /\ rows'[p] \in {Absent, rows[p]}
           /\ p \in failed' \/ (rows'[p] = Absent /\ p \notin assets')
           /\ \A q \in Paths \ {p} :
                  /\ token'[q] = token[q] /\ rows'[q] = rows[q]
                  /\ (q \in assets' <=> q \in assets) /\ (q \in failed' <=> q \in failed)
<1>1. token' = [q \in Paths |-> IF q = p THEN NoToken ELSE token[q]]
  BY DEF RemoveFromIndex, TokenAfterRemoval
<1>2. /\ token' \in [Paths -> 0 .. MaxTokens] /\ token'[p] = NoToken
      /\ \A q \in Paths \ {p} : token'[q] = token[q]
  BY <1>1, BoundsAssumption DEF TypeOK, NoToken
<1>3. CASE rows' = RowsWithout({p})
  <2>1. rows' = [q \in Paths |-> IF q = p THEN Absent ELSE rows[q]]
    BY <1>3 DEF RowsWithout
  <2> QED
    BY <1>2, <2>1, BoundsAssumption DEF TypeOK, Absent, RemoveFromIndex
<1>4. CASE rows' = rows /\ failed' = failed \union {p} /\ assets' \in {assets, assets \ {p}}
  BY <1>2, <1>4 DEF TypeOK
<1> QED
  BY <1>3, <1>4, Zenon DEF RemoveFromIndex

\* The removal of the missing paths, path by path.
LEMMA MissingFields ==
    ASSUME TypeOK, RemoveMissing
    PROVE  /\ token' \in [Paths -> 0 .. MaxTokens] /\ rows' \in [Paths -> 0 .. MaxChanges]
           /\ assets' \subseteq assets /\ failed' \subseteq failed
           /\ batch.step = "check" /\ batch.unchecked = {}
           /\ UNCHANGED <<diskVars, chokidarVars, startVars, jobs, unnoticed>>
           /\ \A p \in Paths :
                  \/ /\ p \in batch.missing /\ token[p] = Reservation
                     /\ token'[p] = NoToken /\ rows'[p] = Absent /\ p \notin assets'
                  \/ /\ p \notin batch.missing \/ token[p] /= Reservation
                     /\ token'[p] = token[p] /\ rows'[p] = rows[p]
                     /\ (p \in assets' <=> p \in assets) /\ (p \in failed' <=> p \in failed)
<1> DEFINE gone == StillMissing
<1>1. /\ rows' = [p \in Paths |-> IF p \in gone THEN Absent ELSE rows[p]]
      /\ token' = [p \in Paths |-> IF p \in gone THEN NoToken ELSE token[p]]
      /\ assets' = assets \ gone /\ failed' = failed \ gone
      /\ batch.step = "check" /\ batch.unchecked = {}
      /\ UNCHANGED <<diskVars, chokidarVars, startVars, jobs, unnoticed>>
  BY DEF RemoveMissing, RowsWithout, TokenAfterRemoval
<1>2. \A p \in Paths : p \in gone <=> p \in batch.missing /\ token[p] = Reservation
  BY DEF StillMissing, TypeOK, Batch
<1> HIDE DEF gone
<1> QED
  BY <1>1, <1>2, BoundsAssumption DEF TypeOK, NoToken, Absent

\* Every variable keeps its type.
LEMMA TypeStep == TypeOK /\ Next => TypeOK'
<1> SUFFICES ASSUME TypeOK, Next
             PROVE  TypeOK'
  OBVIOUS
<1> USE BoundsAssumption, NotesAssumption DEF TypeOK, Files, Unread, diskVars, chokidarVars,
        startVars, indexVars, readVars, history, Absent, NoToken
<1>1. ASSUME NEW p \in Paths, WriteFile(p) PROVE TypeOK'
  BY <1>1 DEF WriteFile
<1>2. ASSUME NEW p \in Paths, DeleteFile(p) PROVE TypeOK'
  BY <1>2 DEF DeleteFile
<1>3. ASSUME NEW p \in Paths, ReportChange(p) PROVE TypeOK'
  <2>1. CASE mode = "live"
    <3>1. PICK k \in Job : Starts(p, k)
      BY <1>3, <2>1, StartReadFields DEF ReportChange, HandleChange
    <3> QED
      BY <1>3, <2>1, <3>1, JobFields DEF ReportChange, HandleChange, Starts
  <2>2. CASE mode /= "live"
    BY <1>3, <2>2 DEF ReportChange, HandleChange
  <2> QED
    BY <2>1, <2>2
<1>4. ASSUME NEW p \in Paths, ReportUnlink(p) PROVE TypeOK'
  BY <1>4, RemovalFields DEF ReportUnlink, HandleDelete
<1>5. ASSUME NEW p \in Paths, Rescan(p) PROVE TypeOK'
  <2>1. CASE mode = "live"
    <3>1. PICK k \in Job : Starts(p, k)
      BY <1>5, <2>1, StartReadFields DEF Rescan, HandleChange
    <3> QED
      BY <1>5, <2>1, <3>1, JobFields DEF Rescan, HandleChange, Starts
  <2>2. CASE mode /= "live"
    BY <1>5, <2>2 DEF Rescan, HandleChange
  <2> QED
    BY <2>1, <2>2
<1>6. ASSUME NEW j \in jobs, DiskRead(j) PROVE TypeOK'
  <2>1. /\ UNCHANGED <<diskVars, chokidarVars, startVars, indexVars, batch, history>>
        /\ \E k \in Job :
               /\ GoesOn(j, k) /\ k.got = disk[j.path]
               /\ \/ j.stage = "read" /\ k.stage = "have"
                  \/ j.stage = "content" /\ k.stage = "haveContent"
    BY <1>6, DiskReadFields
  <2>2. PICK k \in Job :
               /\ GoesOn(j, k) /\ k.got = disk[j.path]
               /\ \/ j.stage = "read" /\ k.stage = "have"
                  \/ j.stage = "content" /\ k.stage = "haveContent"
    BY <2>1
  <2> QED
    BY <1>6, <2>1, <2>2, JobFields DEF GoesOn
<1>7. ASSUME NEW j \in jobs, NoteResumes(j) PROVE TypeOK'
  <2>1. CASE ~Current(j) \/ j.got = Absent
    BY <1>7, <2>1, NoteResumesFields, EndJobFields, JobFields
  <2>2. CASE Current(j) /\ j.got /= Absent
    <3>1. PICK k \in Job : GoesOn(j, k) /\ k.stage = "parse" /\ k.got = j.got
      BY <1>7, <2>2, NoteResumesFields
    <3> QED
      BY <1>7, <2>2, <3>1, NoteResumesFields, JobFields DEF GoesOn
  <2> QED
    BY <2>1, <2>2
<1>8. ASSUME NEW j \in jobs, NoteParsed(j) PROVE TypeOK'
  BY <1>8, NoteParsedFields, EndJobFields, JobFields DEF Writes
<1>9. ASSUME NEW j \in jobs, FileResumes(j) PROVE TypeOK'
  <2>1. CASE ~Current(j) \/ j.got = Absent
    BY <1>9, <2>1, FileResumesFields, EndJobFields, JobFields
  <2>2. CASE Current(j) /\ j.got /= Absent
    <3>1. PICK k \in Job : GoesOn(j, k) /\ k.stage = "content" /\ k.got = Absent
      BY <1>9, <2>2, FileResumesFields
    <3> QED
      BY <1>9, <2>2, <3>1, FileResumesFields, JobFields DEF GoesOn
  <2> QED
    BY <2>1, <2>2
<1>10. ASSUME NEW j \in jobs, ContentResumes(j) PROVE TypeOK'
  BY <1>10, ContentResumesFields, EndJobFields, JobFields DEF Writes
<1>11. ASSUME NEW j \in jobs, ReadFails(j) PROVE TypeOK'
  BY <1>11, EndJobFields, JobFields DEF ReadFails
<1>12. ASSUME NEW p \in Paths, RebuildRead(p) PROVE TypeOK'
  BY <1>12 DEF RebuildRead
<1>13. CASE RebuildFails
  BY <1>13 DEF RebuildFails
<1>14. CASE GoLive
  <2> DEFINE row(p) == IF p \in HeldUnlinks THEN Absent ELSE snapshot[p]
  <2>1. \A p \in Paths : row(p) \in 0 .. MaxChanges
    BY <1>14 DEF GoLive, RebuildDone
  <2>2. rows' = [p \in Paths |-> row(p)]
    BY <1>14 DEF GoLive
  <2> HIDE DEF row
  <2>3. rows' \in [Paths -> 0 .. MaxChanges]
    BY <2>1, <2>2
  <2>4. token' \in [Paths -> 0 .. MaxTokens]
    BY <1>14 DEF GoLive, TokensReserved, Reservation
  <2>5. assets' \subseteq Files /\ batch' \in Batch
    BY <1>14, GoLiveFields DEF GoLive
  <2> QED
    BY <1>14, <2>3, <2>4, <2>5 DEF GoLive
<1>15. CASE ListFolder
  BY <1>15, ListFolderFields
<1>16. ASSUME NEW p \in Paths, CheckHeldPath(p) \/ HeldPathUnknown(p) PROVE TypeOK'
  BY <1>16, CheckFields
<1>17. CASE RemoveMissing
  BY <1>17, RemoveMissingFields, MissingFields
<1>18. ASSUME NEW p \in Paths, StartHeldRead(p) PROVE TypeOK'
  BY <1>18, StartHeldReadFields
<1> QED
  BY <1>1, <1>2, <1>3, <1>4, <1>5, <1>6, <1>7, <1>8, <1>9, <1>10, <1>11, <1>12, <1>13, <1>14,
     <1>15, <1>16, <1>17, <1>18
     DEF Next, ChangeDisk, Chokidar, Reads, JobStep, Startup, Failures

\* Before the watcher is live nothing is read, and held paths stay in one list.
LEMMA StartupStep == TypeOK /\ StartupInOrder /\ Next => StartupInOrder'
<1> SUFFICES ASSUME TypeOK, StartupInOrder, Next
             PROVE  StartupInOrder'
  OBVIOUS
<1> USE BoundsAssumption DEF TypeOK, StartupInOrder, diskVars, chokidarVars, startVars,
        indexVars, readVars, history, Absent, NoToken
<1>1. ASSUME NEW p \in Paths, WriteFile(p) PROVE StartupInOrder'
  BY <1>1 DEF WriteFile
<1>2. ASSUME NEW p \in Paths, DeleteFile(p) PROVE StartupInOrder'
  BY <1>2 DEF DeleteFile
<1>3. ASSUME NEW p \in Paths, ReportChange(p) PROVE StartupInOrder'
  BY <1>3 DEF ReportChange, HandleChange
<1>4. ASSUME NEW p \in Paths, ReportUnlink(p) PROVE StartupInOrder'
  BY <1>4, RemovalFields DEF ReportUnlink, HandleDelete
<1>5. ASSUME NEW p \in Paths, Rescan(p) PROVE StartupInOrder'
  BY <1>5 DEF Rescan, HandleChange
<1>6. ASSUME NEW j \in jobs, DiskRead(j) PROVE StartupInOrder'
  BY <1>6, DiskReadFields, JobFields DEF GoesOn
<1>7. ASSUME NEW j \in jobs, NoteResumes(j) PROVE StartupInOrder'
  BY <1>7, NoteResumesFields, EndJobFields, JobFields DEF GoesOn
<1>8. ASSUME NEW j \in jobs, NoteParsed(j) PROVE StartupInOrder'
  BY <1>8, NoteParsedFields, EndJobFields, JobFields DEF Writes
<1>9. ASSUME NEW j \in jobs, FileResumes(j) PROVE StartupInOrder'
  BY <1>9, FileResumesFields, EndJobFields, JobFields DEF GoesOn
<1>10. ASSUME NEW j \in jobs, ContentResumes(j) PROVE StartupInOrder'
  BY <1>10, ContentResumesFields, EndJobFields, JobFields DEF Writes
<1>11. ASSUME NEW j \in jobs, ReadFails(j) PROVE StartupInOrder'
  BY <1>11, EndJobFields, JobFields DEF ReadFails
<1>12. ASSUME NEW p \in Paths, RebuildRead(p) PROVE StartupInOrder'
  BY <1>12 DEF RebuildRead
<1>13. CASE RebuildFails
  BY <1>13 DEF RebuildFails
<1>14. CASE GoLive
  BY <1>14, GoLiveFields DEF GoLive, RebuildDone, TokensReserved, HeldUnlinks, HeldPaths
<1>15. CASE ListFolder
  BY <1>15, ListFolderFields
<1>16. ASSUME NEW p \in Paths, CheckHeldPath(p) \/ HeldPathUnknown(p) PROVE StartupInOrder'
  BY <1>16, CheckFields
<1>17. CASE RemoveMissing
  BY <1>17, RemoveMissingFields, MissingFields
<1>18. ASSUME NEW p \in Paths, StartHeldRead(p) PROVE StartupInOrder'
  BY <1>18, StartHeldReadFields
<1> QED
  BY <1>1, <1>2, <1>3, <1>4, <1>5, <1>6, <1>7, <1>8, <1>9, <1>10, <1>11, <1>12, <1>13, <1>14,
     <1>15, <1>16, <1>17, <1>18
     DEF Next, ChangeDisk, Chokidar, Reads, JobStep, Startup, Failures

\* Reads keep tokens of their own.
LEMMA OwnStep == TypeOK /\ StartupInOrder /\ TokensAreOwn /\ Next => TokensAreOwn'
<1> SUFFICES ASSUME TypeOK, StartupInOrder, TokensAreOwn, Next
             PROVE  TokensAreOwn'
  OBVIOUS
<1> USE BoundsAssumption DEF TypeOK, StartupInOrder, TokensAreOwn, Reserved, Reservation,
        diskVars, chokidarVars, startVars, indexVars, readVars, history, Absent, NoToken
<1>1. ASSUME NEW p \in Paths, WriteFile(p) PROVE TokensAreOwn'
  BY <1>1 DEF WriteFile
<1>2. ASSUME NEW p \in Paths, DeleteFile(p) PROVE TokensAreOwn'
  BY <1>2 DEF DeleteFile
<1>3. ASSUME NEW p \in Paths, ReportChange(p) PROVE TokensAreOwn'
  <2>1. CASE mode = "live"
    <3>1. PICK k \in Job : Starts(p, k)
      BY <1>3, <2>1, StartReadFields DEF ReportChange, HandleChange
    <3> QED
      BY <1>3, <2>1, <3>1, JobFields DEF ReportChange, HandleChange, Starts
  <2>2. CASE mode /= "live"
    BY <1>3, <2>2 DEF ReportChange, HandleChange
  <2> QED
    BY <2>1, <2>2
<1>4. ASSUME NEW p \in Paths, ReportUnlink(p) PROVE TokensAreOwn'
  BY <1>4, RemovalFields DEF ReportUnlink, HandleDelete
<1>5. ASSUME NEW p \in Paths, Rescan(p) PROVE TokensAreOwn'
  <2>1. CASE mode = "live"
    <3>1. PICK k \in Job : Starts(p, k)
      BY <1>5, <2>1, StartReadFields DEF Rescan, HandleChange
    <3> QED
      BY <1>5, <2>1, <3>1, JobFields DEF Rescan, HandleChange, Starts
  <2>2. CASE mode /= "live"
    BY <1>5, <2>2 DEF Rescan, HandleChange
  <2> QED
    BY <2>1, <2>2
<1>6. ASSUME NEW j \in jobs, DiskRead(j) PROVE TokensAreOwn'
  <2>1. /\ UNCHANGED <<diskVars, chokidarVars, startVars, indexVars, batch, history>>
        /\ \E k \in Job :
               /\ GoesOn(j, k) /\ k.got = disk[j.path]
               /\ \/ j.stage = "read" /\ k.stage = "have"
                  \/ j.stage = "content" /\ k.stage = "haveContent"
    BY <1>6, DiskReadFields
  <2>2. PICK k \in Job :
               /\ GoesOn(j, k) /\ k.got = disk[j.path]
               /\ \/ j.stage = "read" /\ k.stage = "have"
                  \/ j.stage = "content" /\ k.stage = "haveContent"
    BY <2>1
  <2> QED
    BY <1>6, <2>1, <2>2, JobFields DEF GoesOn
<1>7. ASSUME NEW j \in jobs, NoteResumes(j) PROVE TokensAreOwn'
  <2>1. CASE ~Current(j) \/ j.got = Absent
    BY <1>7, <2>1, NoteResumesFields, EndJobFields, JobFields
  <2>2. CASE Current(j) /\ j.got /= Absent
    <3>1. PICK k \in Job : GoesOn(j, k) /\ k.stage = "parse" /\ k.got = j.got
      BY <1>7, <2>2, NoteResumesFields
    <3> QED
      BY <1>7, <2>2, <3>1, NoteResumesFields, JobFields DEF GoesOn
  <2> QED
    BY <2>1, <2>2
<1>8. ASSUME NEW j \in jobs, NoteParsed(j) PROVE TokensAreOwn'
  BY <1>8, NoteParsedFields, EndJobFields, JobFields DEF Writes
<1>9. ASSUME NEW j \in jobs, FileResumes(j) PROVE TokensAreOwn'
  <2>1. CASE ~Current(j) \/ j.got = Absent
    BY <1>9, <2>1, FileResumesFields, EndJobFields, JobFields
  <2>2. CASE Current(j) /\ j.got /= Absent
    <3>1. PICK k \in Job : GoesOn(j, k) /\ k.stage = "content" /\ k.got = Absent
      BY <1>9, <2>2, FileResumesFields
    <3> QED
      BY <1>9, <2>2, <3>1, FileResumesFields, JobFields DEF GoesOn
  <2> QED
    BY <2>1, <2>2
<1>10. ASSUME NEW j \in jobs, ContentResumes(j) PROVE TokensAreOwn'
  BY <1>10, ContentResumesFields, EndJobFields, JobFields DEF Writes
<1>11. ASSUME NEW j \in jobs, ReadFails(j) PROVE TokensAreOwn'
  BY <1>11, EndJobFields, JobFields DEF ReadFails
<1>12. ASSUME NEW p \in Paths, RebuildRead(p) PROVE TokensAreOwn'
  BY <1>12 DEF RebuildRead
<1>13. CASE RebuildFails
  BY <1>13 DEF RebuildFails
<1>14. CASE GoLive
  BY <1>14, GoLiveFields DEF GoLive, RebuildDone, TokensReserved, HeldUnlinks, HeldPaths
<1>15. CASE ListFolder
  BY <1>15, ListFolderFields
<1>16. ASSUME NEW p \in Paths, CheckHeldPath(p) \/ HeldPathUnknown(p) PROVE TokensAreOwn'
  BY <1>16, CheckFields
<1>17. CASE RemoveMissing
  BY <1>17, RemoveMissingFields, MissingFields
<1>18. ASSUME NEW p \in Paths, StartHeldRead(p) PROVE TokensAreOwn'
  BY <1>18, StartHeldReadFields
<1> QED
  BY <1>1, <1>2, <1>3, <1>4, <1>5, <1>6, <1>7, <1>8, <1>9, <1>10, <1>11, <1>12, <1>13, <1>14,
     <1>15, <1>16, <1>17, <1>18
     DEF Next, ChangeDisk, Chokidar, Reads, JobStep, Startup, Failures

\* A token keeps a holder.
LEMMA HoldersStep ==
    TypeOK /\ StartupInOrder /\ TokensAreOwn /\ TokensHaveHolders /\ Next =>
        TokensHaveHolders'
<1> SUFFICES ASSUME TypeOK, StartupInOrder, TokensAreOwn, TokensHaveHolders, Next
             PROVE  TokensHaveHolders'
  OBVIOUS
<1> USE BoundsAssumption DEF TypeOK, StartupInOrder, TokensAreOwn, TokensHaveHolders, Reserved,
        Reservation, Current, diskVars, chokidarVars, startVars, indexVars, readVars, history,
        Absent, NoToken
<1>1. ASSUME NEW p \in Paths, WriteFile(p) PROVE TokensHaveHolders'
  BY <1>1 DEF WriteFile
<1>2. ASSUME NEW p \in Paths, DeleteFile(p) PROVE TokensHaveHolders'
  BY <1>2 DEF DeleteFile
<1>3. ASSUME NEW p \in Paths, ReportChange(p) PROVE TokensHaveHolders'
  <2>1. CASE mode = "live"
    <3>1. PICK k \in Job : Starts(p, k)
      BY <1>3, <2>1, StartReadFields DEF ReportChange, HandleChange
    <3> QED
      BY <1>3, <2>1, <3>1, JobFields DEF ReportChange, HandleChange, Starts
  <2>2. CASE mode /= "live"
    BY <1>3, <2>2 DEF ReportChange, HandleChange
  <2> QED
    BY <2>1, <2>2
<1>4. ASSUME NEW p \in Paths, ReportUnlink(p) PROVE TokensHaveHolders'
  BY <1>4, RemovalFields DEF ReportUnlink, HandleDelete
<1>5. ASSUME NEW p \in Paths, Rescan(p) PROVE TokensHaveHolders'
  <2>1. CASE mode = "live"
    <3>1. PICK k \in Job : Starts(p, k)
      BY <1>5, <2>1, StartReadFields DEF Rescan, HandleChange
    <3> QED
      BY <1>5, <2>1, <3>1, JobFields DEF Rescan, HandleChange, Starts
  <2>2. CASE mode /= "live"
    BY <1>5, <2>2 DEF Rescan, HandleChange
  <2> QED
    BY <2>1, <2>2
<1>6. ASSUME NEW j \in jobs, DiskRead(j) PROVE TokensHaveHolders'
  <2>1. /\ UNCHANGED <<diskVars, chokidarVars, startVars, indexVars, batch, history>>
        /\ \E k \in Job :
               /\ GoesOn(j, k) /\ k.got = disk[j.path]
               /\ \/ j.stage = "read" /\ k.stage = "have"
                  \/ j.stage = "content" /\ k.stage = "haveContent"
    BY <1>6, DiskReadFields
  <2>2. PICK k \in Job :
               /\ GoesOn(j, k) /\ k.got = disk[j.path]
               /\ \/ j.stage = "read" /\ k.stage = "have"
                  \/ j.stage = "content" /\ k.stage = "haveContent"
    BY <2>1
  <2> QED
    BY <1>6, <2>1, <2>2, JobFields DEF GoesOn
<1>7. ASSUME NEW j \in jobs, NoteResumes(j) PROVE TokensHaveHolders'
  <2>1. CASE ~Current(j) \/ j.got = Absent
    BY <1>7, <2>1, NoteResumesFields, EndJobFields, JobFields
  <2>2. CASE Current(j) /\ j.got /= Absent
    <3>1. PICK k \in Job : GoesOn(j, k) /\ k.stage = "parse" /\ k.got = j.got
      BY <1>7, <2>2, NoteResumesFields
    <3> QED
      BY <1>7, <2>2, <3>1, NoteResumesFields, JobFields DEF GoesOn
  <2> QED
    BY <2>1, <2>2
<1>8. ASSUME NEW j \in jobs, NoteParsed(j) PROVE TokensHaveHolders'
  BY <1>8, NoteParsedFields, EndJobFields, JobFields DEF Writes
<1>9. ASSUME NEW j \in jobs, FileResumes(j) PROVE TokensHaveHolders'
  <2>1. CASE ~Current(j) \/ j.got = Absent
    BY <1>9, <2>1, FileResumesFields, EndJobFields, JobFields
  <2>2. CASE Current(j) /\ j.got /= Absent
    <3>1. PICK k \in Job : GoesOn(j, k) /\ k.stage = "content" /\ k.got = Absent
      BY <1>9, <2>2, FileResumesFields
    <3> QED
      BY <1>9, <2>2, <3>1, FileResumesFields, JobFields DEF GoesOn
  <2> QED
    BY <2>1, <2>2
<1>10. ASSUME NEW j \in jobs, ContentResumes(j) PROVE TokensHaveHolders'
  BY <1>10, ContentResumesFields, EndJobFields, JobFields DEF Writes
<1>11. ASSUME NEW j \in jobs, ReadFails(j) PROVE TokensHaveHolders'
  BY <1>11, EndJobFields, JobFields DEF ReadFails
<1>12. ASSUME NEW p \in Paths, RebuildRead(p) PROVE TokensHaveHolders'
  BY <1>12 DEF RebuildRead
<1>13. CASE RebuildFails
  BY <1>13 DEF RebuildFails
<1>14. CASE GoLive
  BY <1>14, GoLiveFields DEF GoLive, RebuildDone, TokensReserved, HeldUnlinks, HeldPaths
<1>15. CASE ListFolder
  BY <1>15, ListFolderFields
<1>16. ASSUME NEW p \in Paths, CheckHeldPath(p) \/ HeldPathUnknown(p)
      PROVE  TokensHaveHolders'
  BY <1>16, CheckFields
<1>17. CASE RemoveMissing
  BY <1>17, RemoveMissingFields, MissingFields
<1>18. ASSUME NEW p \in Paths, StartHeldRead(p) PROVE TokensHaveHolders'
  BY <1>18, StartHeldReadFields
<1> QED
  BY <1>1, <1>2, <1>3, <1>4, <1>5, <1>6, <1>7, <1>8, <1>9, <1>10, <1>11, <1>12, <1>13, <1>14,
     <1>15, <1>16, <1>17, <1>18
     DEF Next, ChangeDisk, Chokidar, Reads, JobStep, Startup, Failures

\* Files only get newer.
LEMMA VersionsStep == TypeOK /\ VersionsGrow /\ Next => VersionsGrow'
<1> SUFFICES ASSUME TypeOK, VersionsGrow, Next
             PROVE  VersionsGrow'
  OBVIOUS
<1> USE BoundsAssumption DEF TypeOK, VersionsGrow, NewerThan, Unread, diskVars, chokidarVars,
        startVars, indexVars, readVars, history, Absent, NoToken
<1>1. ASSUME NEW p \in Paths, WriteFile(p) PROVE VersionsGrow'
  <2>1. /\ changes \in Nat /\ changes' = changes + 1
        /\ \A q \in Paths : disk'[q] = IF q = p THEN changes + 1 ELSE disk[q]
        /\ unseen' = unseen \/ unseen' = unseen \union {p}
        /\ UNCHANGED <<reported, snapshot, rows, jobs>>
    BY <1>1 DEF WriteFile
  <2>2. \A q \in Paths : \A v \in Nat : NewerThan(q, v) => NewerThan(q, v)'
    BY <2>1
  <2>3. \A q \in Paths : rows[q] \in Nat /\ snapshot[q] \in Nat
    BY <1>1
  <2>4. \A j \in jobs : j.path \in Paths /\ j.got \in Nat
    BY JobFields
  <2> QED
    BY <2>1, <2>2, <2>3, <2>4
<1>2. ASSUME NEW p \in Paths, DeleteFile(p) PROVE VersionsGrow'
  <2>1. /\ changes \in Nat /\ changes' = changes + 1
        /\ \A q \in Paths : disk'[q] = IF q = p THEN Absent ELSE disk[q]
        /\ unseen' = unseen \ {p}
        /\ UNCHANGED <<reported, snapshot, rows, jobs>>
    BY <1>2 DEF DeleteFile
  <2>2. \A q \in Paths : \A v \in Nat : NewerThan(q, v) => NewerThan(q, v)'
    BY <2>1
  <2>3. \A q \in Paths : rows[q] \in Nat /\ snapshot[q] \in Nat
    BY <1>2
  <2>4. \A j \in jobs : j.path \in Paths /\ j.got \in Nat
    BY JobFields
  <2> QED
    BY <2>1, <2>2, <2>3, <2>4
<1>3. ASSUME NEW p \in Paths, ReportChange(p) PROVE VersionsGrow'
  <2>1. CASE mode = "live"
    <3>1. PICK k \in Job : Starts(p, k)
      BY <1>3, <2>1, StartReadFields DEF ReportChange, HandleChange
    <3> QED
      BY <1>3, <2>1, <3>1, JobFields DEF ReportChange, HandleChange, Starts
  <2>2. CASE mode /= "live"
    BY <1>3, <2>2 DEF ReportChange, HandleChange
  <2> QED
    BY <2>1, <2>2
<1>4. ASSUME NEW p \in Paths, ReportUnlink(p) PROVE VersionsGrow'
  BY <1>4, RemovalFields DEF ReportUnlink, HandleDelete
<1>5. ASSUME NEW p \in Paths, Rescan(p) PROVE VersionsGrow'
  <2>1. CASE mode = "live"
    <3>1. PICK k \in Job : Starts(p, k)
      BY <1>5, <2>1, StartReadFields DEF Rescan, HandleChange
    <3> QED
      BY <1>5, <2>1, <3>1, JobFields DEF Rescan, HandleChange, Starts
  <2>2. CASE mode /= "live"
    BY <1>5, <2>2 DEF Rescan, HandleChange
  <2> QED
    BY <2>1, <2>2
<1>6. ASSUME NEW j \in jobs, DiskRead(j) PROVE VersionsGrow'
  <2>1. /\ UNCHANGED <<diskVars, chokidarVars, startVars, indexVars, batch, history>>
        /\ \E k \in Job :
               /\ GoesOn(j, k) /\ k.got = disk[j.path]
               /\ \/ j.stage = "read" /\ k.stage = "have"
                  \/ j.stage = "content" /\ k.stage = "haveContent"
    BY <1>6, DiskReadFields
  <2>2. PICK k \in Job :
               /\ GoesOn(j, k) /\ k.got = disk[j.path]
               /\ \/ j.stage = "read" /\ k.stage = "have"
                  \/ j.stage = "content" /\ k.stage = "haveContent"
    BY <2>1
  <2> QED
    BY <1>6, <2>1, <2>2, JobFields DEF GoesOn
<1>7. ASSUME NEW j \in jobs, NoteResumes(j) PROVE VersionsGrow'
  <2>1. CASE ~Current(j) \/ j.got = Absent
    BY <1>7, <2>1, NoteResumesFields, EndJobFields, JobFields
  <2>2. CASE Current(j) /\ j.got /= Absent
    <3>1. PICK k \in Job : GoesOn(j, k) /\ k.stage = "parse" /\ k.got = j.got
      BY <1>7, <2>2, NoteResumesFields
    <3> QED
      BY <1>7, <2>2, <3>1, NoteResumesFields, JobFields DEF GoesOn
  <2> QED
    BY <2>1, <2>2
<1>8. ASSUME NEW j \in jobs, NoteParsed(j) PROVE VersionsGrow'
  BY <1>8, NoteParsedFields, EndJobFields, JobFields DEF Writes
<1>9. ASSUME NEW j \in jobs, FileResumes(j) PROVE VersionsGrow'
  <2>1. CASE ~Current(j) \/ j.got = Absent
    BY <1>9, <2>1, FileResumesFields, EndJobFields, JobFields
  <2>2. CASE Current(j) /\ j.got /= Absent
    <3>1. PICK k \in Job : GoesOn(j, k) /\ k.stage = "content" /\ k.got = Absent
      BY <1>9, <2>2, FileResumesFields
    <3> QED
      BY <1>9, <2>2, <3>1, FileResumesFields, JobFields DEF GoesOn
  <2> QED
    BY <2>1, <2>2
<1>10. ASSUME NEW j \in jobs, ContentResumes(j) PROVE VersionsGrow'
  BY <1>10, ContentResumesFields, EndJobFields, JobFields DEF Writes
<1>11. ASSUME NEW j \in jobs, ReadFails(j) PROVE VersionsGrow'
  BY <1>11, EndJobFields, JobFields DEF ReadFails
<1>12. ASSUME NEW p \in Paths, RebuildRead(p) PROVE VersionsGrow'
  BY <1>12 DEF RebuildRead
<1>13. CASE RebuildFails
  BY <1>13 DEF RebuildFails
<1>14. CASE GoLive
  BY <1>14, GoLiveFields DEF GoLive, RebuildDone, TokensReserved, HeldUnlinks, HeldPaths
<1>15. CASE ListFolder
  BY <1>15, ListFolderFields
<1>16. ASSUME NEW p \in Paths, CheckHeldPath(p) \/ HeldPathUnknown(p) PROVE VersionsGrow'
  BY <1>16, CheckFields
<1>17. CASE RemoveMissing
  BY <1>17, RemoveMissingFields, MissingFields
<1>18. ASSUME NEW p \in Paths, StartHeldRead(p) PROVE VersionsGrow'
  BY <1>18, StartHeldReadFields
<1> QED
  BY <1>1, <1>2, <1>3, <1>4, <1>5, <1>6, <1>7, <1>8, <1>9, <1>10, <1>11, <1>12, <1>13, <1>14,
     <1>15, <1>16, <1>17, <1>18
     DEF Next, ChangeDisk, Chokidar, Reads, JobStep, Startup, Failures

\* Reads go through their stages, and current ones get no older than the rows.
LEMMA ReadsStep ==
    TypeOK /\ StartupInOrder /\ TokensAreOwn /\ VersionsGrow /\ ReadsInOrder /\ Next =>
        ReadsInOrder'
<1> SUFFICES ASSUME TypeOK, StartupInOrder, TokensAreOwn, VersionsGrow, ReadsInOrder, Next
             PROVE  ReadsInOrder'
  OBVIOUS
<1> USE BoundsAssumption, NotesAssumption DEF TypeOK, StartupInOrder, TokensAreOwn,
        VersionsGrow, ReadsInOrder, Current, HasRead, NewerThan, Files, Reserved, Reservation,
        diskVars, chokidarVars, startVars, indexVars, readVars, history, Absent, NoToken
<1>1. ASSUME NEW p \in Paths, WriteFile(p) PROVE ReadsInOrder'
  BY <1>1 DEF WriteFile
<1>2. ASSUME NEW p \in Paths, DeleteFile(p) PROVE ReadsInOrder'
  BY <1>2 DEF DeleteFile
<1>3. ASSUME NEW p \in Paths, ReportChange(p) PROVE ReadsInOrder'
  <2>1. CASE mode = "live"
    <3>1. PICK k \in Job : Starts(p, k)
      BY <1>3, <2>1, StartReadFields DEF ReportChange, HandleChange
    <3> QED
      BY <1>3, <2>1, <3>1, JobFields DEF ReportChange, HandleChange, Starts
  <2>2. CASE mode /= "live"
    BY <1>3, <2>2 DEF ReportChange, HandleChange
  <2> QED
    BY <2>1, <2>2
<1>4. ASSUME NEW p \in Paths, ReportUnlink(p) PROVE ReadsInOrder'
  <2>1. CASE mode = "live"
    <3>1. RemoveFromIndex(p) /\ UNCHANGED <<diskVars, unseen, mode, held, snapshot, jobs, batch>>
      BY <1>4, <2>1 DEF ReportUnlink, HandleDelete
    <3>2. \A j \in jobs :
             /\ j.path \in Paths /\ j.token /= NoToken
             /\ Current(j)' => /\ Current(j) /\ j.path /= p
                               /\ rows'[j.path] = rows[j.path]
                               /\ (j.path \in assets' <=> j.path \in assets)
      BY <3>1, RemovalFields, JobFields
    <3> QED
      BY <1>4, <2>1, <3>1, <3>2, RemovalFields DEF ReportUnlink
  <2>2. CASE mode /= "live"
    BY <1>4, <2>2 DEF ReportUnlink, HandleDelete
  <2> QED
    BY <2>1, <2>2
<1>5. ASSUME NEW p \in Paths, Rescan(p) PROVE ReadsInOrder'
  <2>1. CASE mode = "live"
    <3>1. PICK k \in Job : Starts(p, k)
      BY <1>5, <2>1, StartReadFields DEF Rescan, HandleChange
    <3> QED
      BY <1>5, <2>1, <3>1, JobFields DEF Rescan, HandleChange, Starts
  <2>2. CASE mode /= "live"
    BY <1>5, <2>2 DEF Rescan, HandleChange
  <2> QED
    BY <2>1, <2>2
<1>6. ASSUME NEW j \in jobs, DiskRead(j) PROVE ReadsInOrder'
  <2>1. /\ UNCHANGED <<diskVars, chokidarVars, startVars, indexVars, batch, history>>
        /\ \E k \in Job :
               /\ GoesOn(j, k) /\ k.got = disk[j.path]
               /\ \/ j.stage = "read" /\ k.stage = "have"
                  \/ j.stage = "content" /\ k.stage = "haveContent"
    BY <1>6, DiskReadFields
  <2>2. PICK k \in Job :
               /\ GoesOn(j, k) /\ k.got = disk[j.path]
               /\ \/ j.stage = "read" /\ k.stage = "have"
                  \/ j.stage = "content" /\ k.stage = "haveContent"
    BY <2>1
  <2> QED
    BY <1>6, <2>1, <2>2, JobFields DEF GoesOn
<1>7. ASSUME NEW j \in jobs, NoteResumes(j) PROVE ReadsInOrder'
  <2>1. CASE ~Current(j) \/ j.got = Absent
    BY <1>7, <2>1, NoteResumesFields, EndJobFields, JobFields
  <2>2. CASE Current(j) /\ j.got /= Absent
    <3>1. PICK k \in Job : GoesOn(j, k) /\ k.stage = "parse" /\ k.got = j.got
      BY <1>7, <2>2, NoteResumesFields
    <3> QED
      BY <1>7, <2>2, <3>1, NoteResumesFields, JobFields DEF GoesOn
  <2> QED
    BY <2>1, <2>2
<1>8. ASSUME NEW j \in jobs, NoteParsed(j) PROVE ReadsInOrder'
  BY <1>8, NoteParsedFields, EndJobFields, JobFields DEF Writes
<1>9. ASSUME NEW j \in jobs, FileResumes(j) PROVE ReadsInOrder'
  <2>1. CASE ~Current(j) \/ j.got = Absent
    BY <1>9, <2>1, FileResumesFields, EndJobFields, JobFields
  <2>2. CASE Current(j) /\ j.got /= Absent
    <3>1. PICK k \in Job : GoesOn(j, k) /\ k.stage = "content" /\ k.got = Absent
      BY <1>9, <2>2, FileResumesFields
    <3> QED
      BY <1>9, <2>2, <3>1, FileResumesFields, JobFields DEF GoesOn
  <2> QED
    BY <2>1, <2>2
<1>10. ASSUME NEW j \in jobs, ContentResumes(j) PROVE ReadsInOrder'
  BY <1>10, ContentResumesFields, EndJobFields, JobFields DEF Writes
<1>11. ASSUME NEW j \in jobs, ReadFails(j) PROVE ReadsInOrder'
  BY <1>11, EndJobFields, JobFields DEF ReadFails
<1>12. ASSUME NEW p \in Paths, RebuildRead(p) PROVE ReadsInOrder'
  BY <1>12 DEF RebuildRead
<1>13. CASE RebuildFails
  BY <1>13 DEF RebuildFails
<1>14. CASE GoLive
  BY <1>14, GoLiveFields DEF GoLive, RebuildDone, TokensReserved, HeldUnlinks, HeldPaths
<1>15. CASE ListFolder
  BY <1>15, ListFolderFields
<1>16. ASSUME NEW p \in Paths, CheckHeldPath(p) \/ HeldPathUnknown(p) PROVE ReadsInOrder'
  BY <1>16, CheckFields
<1>17. CASE RemoveMissing
  <2>1. \A j \in jobs :
           /\ j.path \in Paths /\ j.token /= NoToken
           /\ Current(j)' => /\ Current(j) /\ rows'[j.path] = rows[j.path]
                             /\ (j.path \in assets' <=> j.path \in assets)
    BY <1>17, MissingFields, JobFields
  <2>2. \A p \in Paths : p \notin batch'.missing /\ p \notin batch'.unchecked
    BY <1>17, MissingFields, RemoveMissingFields
  <2> QED
    BY <1>17, <2>1, <2>2, MissingFields, RemoveMissingFields
<1>18. ASSUME NEW p \in Paths, StartHeldRead(p) PROVE ReadsInOrder'
  BY <1>18, StartHeldReadFields
<1> QED
  BY <1>1, <1>2, <1>3, <1>4, <1>5, <1>6, <1>7, <1>8, <1>9, <1>10, <1>11, <1>12, <1>13, <1>14,
     <1>15, <1>16, <1>17, <1>18
     DEF Next, ChangeDisk, Chokidar, Reads, JobStep, Startup, Failures

\* What is known of a path stays so, or chokidar has news of it.
LEMMA KnowledgeStep ==
    TypeOK /\ StartupInOrder /\ TokensAreOwn /\ VersionsGrow /\ KnowledgeIsCurrent /\ Next =>
        KnowledgeIsCurrent'
<1> SUFFICES ASSUME TypeOK, StartupInOrder, TokensAreOwn, VersionsGrow, KnowledgeIsCurrent, Next
             PROVE  KnowledgeIsCurrent'
  OBVIOUS
<1> USE BoundsAssumption DEF TypeOK, StartupInOrder, TokensAreOwn, VersionsGrow,
        KnowledgeIsCurrent, Current, HasRead, Settled, ReportPending, Reserved, Reservation,
        diskVars, chokidarVars, startVars, indexVars, readVars, history, Absent, NoToken
<1>1. ASSUME NEW p \in Paths, WriteFile(p) PROVE KnowledgeIsCurrent'
  BY <1>1 DEF WriteFile
<1>2. ASSUME NEW p \in Paths, DeleteFile(p) PROVE KnowledgeIsCurrent'
  BY <1>2 DEF DeleteFile
<1>3. ASSUME NEW p \in Paths, ReportChange(p) PROVE KnowledgeIsCurrent'
  <2>1. CASE mode = "live"
    <3>1. PICK k \in Job : Starts(p, k)
      BY <1>3, <2>1, StartReadFields DEF ReportChange, HandleChange
    <3> QED
      BY <1>3, <2>1, <3>1, JobFields DEF ReportChange, HandleChange, Starts
  <2>2. CASE mode /= "live"
    BY <1>3, <2>2 DEF ReportChange, HandleChange
  <2> QED
    BY <2>1, <2>2
<1>4. ASSUME NEW p \in Paths, ReportUnlink(p) PROVE KnowledgeIsCurrent'
  <2>1. CASE mode = "live"
    <3>1. RemoveFromIndex(p) /\ UNCHANGED <<diskVars, unseen, mode, held, snapshot, jobs, batch>>
      BY <1>4, <2>1 DEF ReportUnlink, HandleDelete
    <3>2. \A j \in jobs :
             /\ j.path \in Paths /\ j.token /= NoToken
             /\ Current(j)' => /\ Current(j) /\ j.path /= p
                               /\ rows'[j.path] = rows[j.path]
                               /\ (j.path \in assets' <=> j.path \in assets)
      BY <3>1, RemovalFields, JobFields
    <3> QED
      BY <1>4, <2>1, <3>1, <3>2, RemovalFields DEF ReportUnlink
  <2>2. CASE mode /= "live"
    BY <1>4, <2>2 DEF ReportUnlink, HandleDelete
  <2> QED
    BY <2>1, <2>2
<1>5. ASSUME NEW p \in Paths, Rescan(p) PROVE KnowledgeIsCurrent'
  <2>1. CASE mode = "live"
    <3>1. PICK k \in Job : Starts(p, k)
      BY <1>5, <2>1, StartReadFields DEF Rescan, HandleChange
    <3> QED
      BY <1>5, <2>1, <3>1, JobFields DEF Rescan, HandleChange, Starts
  <2>2. CASE mode /= "live"
    BY <1>5, <2>2 DEF Rescan, HandleChange
  <2> QED
    BY <2>1, <2>2
<1>6. ASSUME NEW j \in jobs, DiskRead(j) PROVE KnowledgeIsCurrent'
  <2>1. /\ UNCHANGED <<diskVars, chokidarVars, startVars, indexVars, batch, history>>
        /\ \E k \in Job :
               /\ GoesOn(j, k) /\ k.got = disk[j.path]
               /\ \/ j.stage = "read" /\ k.stage = "have"
                  \/ j.stage = "content" /\ k.stage = "haveContent"
    BY <1>6, DiskReadFields
  <2>2. PICK k \in Job :
               /\ GoesOn(j, k) /\ k.got = disk[j.path]
               /\ \/ j.stage = "read" /\ k.stage = "have"
                  \/ j.stage = "content" /\ k.stage = "haveContent"
    BY <2>1
  <2> QED
    BY <1>6, <2>1, <2>2, JobFields DEF GoesOn
<1>7. ASSUME NEW j \in jobs, NoteResumes(j) PROVE KnowledgeIsCurrent'
  <2>1. CASE ~Current(j) \/ j.got = Absent
    BY <1>7, <2>1, NoteResumesFields, EndJobFields, JobFields
  <2>2. CASE Current(j) /\ j.got /= Absent
    <3>1. PICK k \in Job : GoesOn(j, k) /\ k.stage = "parse" /\ k.got = j.got
      BY <1>7, <2>2, NoteResumesFields
    <3> QED
      BY <1>7, <2>2, <3>1, NoteResumesFields, JobFields DEF GoesOn
  <2> QED
    BY <2>1, <2>2
<1>8. ASSUME NEW j \in jobs, NoteParsed(j) PROVE KnowledgeIsCurrent'
  BY <1>8, NoteParsedFields, EndJobFields, JobFields DEF Writes
<1>9. ASSUME NEW j \in jobs, FileResumes(j) PROVE KnowledgeIsCurrent'
  <2>1. CASE ~Current(j) \/ j.got = Absent
    BY <1>9, <2>1, FileResumesFields, EndJobFields, JobFields
  <2>2. CASE Current(j) /\ j.got /= Absent
    <3>1. PICK k \in Job : GoesOn(j, k) /\ k.stage = "content" /\ k.got = Absent
      BY <1>9, <2>2, FileResumesFields
    <3> QED
      BY <1>9, <2>2, <3>1, FileResumesFields, JobFields DEF GoesOn
  <2> QED
    BY <2>1, <2>2
<1>10. ASSUME NEW j \in jobs, ContentResumes(j) PROVE KnowledgeIsCurrent'
  BY <1>10, ContentResumesFields, EndJobFields, JobFields DEF Writes
<1>11. ASSUME NEW j \in jobs, ReadFails(j) PROVE KnowledgeIsCurrent'
  BY <1>11, EndJobFields, JobFields DEF ReadFails
<1>12. ASSUME NEW p \in Paths, RebuildRead(p) PROVE KnowledgeIsCurrent'
  BY <1>12 DEF RebuildRead
<1>13. CASE RebuildFails
  BY <1>13 DEF RebuildFails
<1>14. CASE GoLive
  BY <1>14, GoLiveFields DEF GoLive, RebuildDone, TokensReserved, HeldUnlinks, HeldPaths
<1>15. CASE ListFolder
  BY <1>15, ListFolderFields
<1>16. ASSUME NEW p \in Paths, CheckHeldPath(p) \/ HeldPathUnknown(p)
      PROVE  KnowledgeIsCurrent'
  BY <1>16, CheckFields
<1>17. CASE RemoveMissing
  <2>1. \A j \in jobs :
           /\ j.path \in Paths /\ j.token /= NoToken
           /\ Current(j)' => /\ Current(j) /\ rows'[j.path] = rows[j.path]
                             /\ (j.path \in assets' <=> j.path \in assets)
    BY <1>17, MissingFields, JobFields
  <2>2. \A p \in Paths : p \notin batch'.missing /\ p \notin batch'.unchecked
    BY <1>17, MissingFields, RemoveMissingFields
  <2> QED
    BY <1>17, <2>1, <2>2, MissingFields, RemoveMissingFields
<1>18. ASSUME NEW p \in Paths, StartHeldRead(p) PROVE KnowledgeIsCurrent'
  BY <1>18, StartHeldReadFields
<1> QED
  BY <1>1, <1>2, <1>3, <1>4, <1>5, <1>6, <1>7, <1>8, <1>9, <1>10, <1>11, <1>12, <1>13, <1>14,
     <1>15, <1>16, <1>17, <1>18
     DEF Next, ChangeDisk, Chokidar, Reads, JobStep, Startup, Failures

\* Files that are gone stay settled.
LEMMA GoneStep ==
    TypeOK /\ StartupInOrder /\ VersionsGrow /\ ReadsInOrder /\ KnowledgeIsCurrent /\
    GoneFilesAreSettled /\ Next =>
        GoneFilesAreSettled'
<1> SUFFICES ASSUME TypeOK, StartupInOrder, VersionsGrow, ReadsInOrder, KnowledgeIsCurrent,
                    GoneFilesAreSettled, Next
             PROVE  GoneFilesAreSettled'
  OBVIOUS
<1> USE BoundsAssumption, NotesAssumption DEF TypeOK, StartupInOrder, VersionsGrow,
        ReadsInOrder, KnowledgeIsCurrent, GoneFilesAreSettled, Current, HasRead, Settled,
        ReportPending, MatchesDisk, Files, diskVars, chokidarVars, startVars, indexVars,
        readVars, history, Absent, NoToken
<1>1. ASSUME NEW p \in Paths, WriteFile(p) PROVE GoneFilesAreSettled'
  BY <1>1 DEF WriteFile
<1>2. ASSUME NEW p \in Paths, DeleteFile(p) PROVE GoneFilesAreSettled'
  BY <1>2 DEF DeleteFile
<1>3. ASSUME NEW p \in Paths, ReportChange(p) PROVE GoneFilesAreSettled'
  <2>1. CASE mode = "live"
    <3>1. PICK k \in Job : Starts(p, k)
      BY <1>3, <2>1, StartReadFields DEF ReportChange, HandleChange
    <3> QED
      BY <1>3, <2>1, <3>1, JobFields DEF ReportChange, HandleChange, Starts
  <2>2. CASE mode /= "live"
    BY <1>3, <2>2 DEF ReportChange, HandleChange
  <2> QED
    BY <2>1, <2>2
<1>4. ASSUME NEW p \in Paths, ReportUnlink(p) PROVE GoneFilesAreSettled'
  BY <1>4, RemovalFields DEF ReportUnlink, HandleDelete
<1>5. ASSUME NEW p \in Paths, Rescan(p) PROVE GoneFilesAreSettled'
  <2>1. CASE mode = "live"
    <3>1. PICK k \in Job : Starts(p, k)
      BY <1>5, <2>1, StartReadFields DEF Rescan, HandleChange
    <3> QED
      BY <1>5, <2>1, <3>1, JobFields DEF Rescan, HandleChange, Starts
  <2>2. CASE mode /= "live"
    BY <1>5, <2>2 DEF Rescan, HandleChange
  <2> QED
    BY <2>1, <2>2
<1>6. ASSUME NEW j \in jobs, DiskRead(j) PROVE GoneFilesAreSettled'
  <2>1. /\ UNCHANGED <<diskVars, chokidarVars, startVars, indexVars, batch, history>>
        /\ \E k \in Job :
               /\ GoesOn(j, k) /\ k.got = disk[j.path]
               /\ \/ j.stage = "read" /\ k.stage = "have"
                  \/ j.stage = "content" /\ k.stage = "haveContent"
    BY <1>6, DiskReadFields
  <2>2. PICK k \in Job :
               /\ GoesOn(j, k) /\ k.got = disk[j.path]
               /\ \/ j.stage = "read" /\ k.stage = "have"
                  \/ j.stage = "content" /\ k.stage = "haveContent"
    BY <2>1
  <2> QED
    BY <1>6, <2>1, <2>2, JobFields DEF GoesOn
<1>7. ASSUME NEW j \in jobs, NoteResumes(j) PROVE GoneFilesAreSettled'
  <2>1. CASE ~Current(j) \/ j.got = Absent
    BY <1>7, <2>1, NoteResumesFields, EndJobFields, JobFields
  <2>2. CASE Current(j) /\ j.got /= Absent
    <3>1. PICK k \in Job : GoesOn(j, k) /\ k.stage = "parse" /\ k.got = j.got
      BY <1>7, <2>2, NoteResumesFields
    <3> QED
      BY <1>7, <2>2, <3>1, NoteResumesFields, JobFields DEF GoesOn
  <2> QED
    BY <2>1, <2>2
<1>8. ASSUME NEW j \in jobs, NoteParsed(j) PROVE GoneFilesAreSettled'
  BY <1>8, NoteParsedFields, EndJobFields, JobFields DEF Writes
<1>9. ASSUME NEW j \in jobs, FileResumes(j) PROVE GoneFilesAreSettled'
  <2>1. CASE ~Current(j) \/ j.got = Absent
    BY <1>9, <2>1, FileResumesFields, EndJobFields, JobFields
  <2>2. CASE Current(j) /\ j.got /= Absent
    <3>1. PICK k \in Job : GoesOn(j, k) /\ k.stage = "content" /\ k.got = Absent
      BY <1>9, <2>2, FileResumesFields
    <3> QED
      BY <1>9, <2>2, <3>1, FileResumesFields, JobFields DEF GoesOn
  <2> QED
    BY <2>1, <2>2
<1>10. ASSUME NEW j \in jobs, ContentResumes(j) PROVE GoneFilesAreSettled'
  BY <1>10, ContentResumesFields, EndJobFields, JobFields DEF Writes
<1>11. ASSUME NEW j \in jobs, ReadFails(j) PROVE GoneFilesAreSettled'
  BY <1>11, EndJobFields, JobFields DEF ReadFails
<1>12. ASSUME NEW p \in Paths, RebuildRead(p) PROVE GoneFilesAreSettled'
  BY <1>12 DEF RebuildRead
<1>13. CASE RebuildFails
  BY <1>13 DEF RebuildFails
<1>14. CASE GoLive
  BY <1>14, GoLiveFields DEF GoLive, RebuildDone, TokensReserved, HeldUnlinks, HeldPaths
<1>15. CASE ListFolder
  BY <1>15, ListFolderFields
<1>16. ASSUME NEW p \in Paths, CheckHeldPath(p) \/ HeldPathUnknown(p)
      PROVE  GoneFilesAreSettled'
  BY <1>16, CheckFields
<1>17. CASE RemoveMissing
  BY <1>17, RemoveMissingFields, MissingFields
<1>18. ASSUME NEW p \in Paths, StartHeldRead(p) PROVE GoneFilesAreSettled'
  BY <1>18, StartHeldReadFields
<1> QED
  BY <1>1, <1>2, <1>3, <1>4, <1>5, <1>6, <1>7, <1>8, <1>9, <1>10, <1>11, <1>12, <1>13, <1>14,
     <1>15, <1>16, <1>17, <1>18
     DEF Next, ChangeDisk, Chokidar, Reads, JobStep, Startup, Failures

\* No path is left stale.
LEMMA StaleStep ==
    TypeOK /\ StartupInOrder /\ TokensAreOwn /\ VersionsGrow /\ ReadsInOrder /\ KnowledgeIsCurrent /\
     GoneFilesAreSettled /\ StalePathsAreBeingRead /\ Next =>
        StalePathsAreBeingRead'
<1> SUFFICES ASSUME TypeOK, StartupInOrder, TokensAreOwn, VersionsGrow, ReadsInOrder,
                    KnowledgeIsCurrent, GoneFilesAreSettled, StalePathsAreBeingRead, Next
             PROVE  StalePathsAreBeingRead'
  OBVIOUS
<1> USE BoundsAssumption, NotesAssumption DEF TypeOK, StartupInOrder, TokensAreOwn,
        VersionsGrow, ReadsInOrder, KnowledgeIsCurrent, GoneFilesAreSettled,
        StalePathsAreBeingRead, Current, HasRead, Settled, NotLeftStale, BeingRead,
        ReportPending, MatchesDisk, Reserved, Reservation, Files, diskVars, chokidarVars,
        startVars, indexVars, readVars, history, Absent, NoToken
<1>1. ASSUME NEW p \in Paths, WriteFile(p) PROVE StalePathsAreBeingRead'
  BY <1>1 DEF WriteFile
<1>2. ASSUME NEW p \in Paths, DeleteFile(p) PROVE StalePathsAreBeingRead'
  BY <1>2 DEF DeleteFile
<1>3. ASSUME NEW p \in Paths, ReportChange(p) PROVE StalePathsAreBeingRead'
  <2>1. CASE mode = "live"
    <3>1. PICK k \in Job : Starts(p, k)
      BY <1>3, <2>1, StartReadFields DEF ReportChange, HandleChange
    <3> QED
      BY <1>3, <2>1, <3>1, JobFields DEF ReportChange, HandleChange, Starts
  <2>2. CASE mode /= "live"
    BY <1>3, <2>2 DEF ReportChange, HandleChange
  <2> QED
    BY <2>1, <2>2
<1>4. ASSUME NEW p \in Paths, ReportUnlink(p) PROVE StalePathsAreBeingRead'
  BY <1>4, RemovalFields DEF ReportUnlink, HandleDelete
<1>5. ASSUME NEW p \in Paths, Rescan(p) PROVE StalePathsAreBeingRead'
  <2>1. CASE mode = "live"
    <3>1. PICK k \in Job : Starts(p, k)
      BY <1>5, <2>1, StartReadFields DEF Rescan, HandleChange
    <3> QED
      BY <1>5, <2>1, <3>1, JobFields DEF Rescan, HandleChange, Starts
  <2>2. CASE mode /= "live"
    BY <1>5, <2>2 DEF Rescan, HandleChange
  <2> QED
    BY <2>1, <2>2
<1>6. ASSUME NEW j \in jobs, DiskRead(j) PROVE StalePathsAreBeingRead'
  <2>1. /\ UNCHANGED <<diskVars, chokidarVars, startVars, indexVars, batch, history>>
        /\ \E k \in Job :
               /\ GoesOn(j, k) /\ k.got = disk[j.path]
               /\ \/ j.stage = "read" /\ k.stage = "have"
                  \/ j.stage = "content" /\ k.stage = "haveContent"
    BY <1>6, DiskReadFields
  <2>2. PICK k \in Job :
               /\ GoesOn(j, k) /\ k.got = disk[j.path]
               /\ \/ j.stage = "read" /\ k.stage = "have"
                  \/ j.stage = "content" /\ k.stage = "haveContent"
    BY <2>1
  <2> QED
    BY <1>6, <2>1, <2>2, JobFields DEF GoesOn
<1>7. ASSUME NEW j \in jobs, NoteResumes(j) PROVE StalePathsAreBeingRead'
  <2>1. CASE ~Current(j) \/ j.got = Absent
    BY <1>7, <2>1, NoteResumesFields, EndJobFields, JobFields
  <2>2. CASE Current(j) /\ j.got /= Absent
    <3>1. PICK k \in Job : GoesOn(j, k) /\ k.stage = "parse" /\ k.got = j.got
      BY <1>7, <2>2, NoteResumesFields
    <3> QED
      BY <1>7, <2>2, <3>1, NoteResumesFields, JobFields DEF GoesOn
  <2> QED
    BY <2>1, <2>2
<1>8. ASSUME NEW j \in jobs, NoteParsed(j) PROVE StalePathsAreBeingRead'
  BY <1>8, NoteParsedFields, EndJobFields, JobFields DEF Writes
<1>9. ASSUME NEW j \in jobs, FileResumes(j) PROVE StalePathsAreBeingRead'
  <2>1. CASE ~Current(j) \/ j.got = Absent
    BY <1>9, <2>1, FileResumesFields, EndJobFields, JobFields
  <2>2. CASE Current(j) /\ j.got /= Absent
    <3>1. PICK k \in Job : GoesOn(j, k) /\ k.stage = "content" /\ k.got = Absent
      BY <1>9, <2>2, FileResumesFields
    <3> QED
      BY <1>9, <2>2, <3>1, FileResumesFields, JobFields DEF GoesOn
  <2> QED
    BY <2>1, <2>2
<1>10. ASSUME NEW j \in jobs, ContentResumes(j) PROVE StalePathsAreBeingRead'
  BY <1>10, ContentResumesFields, EndJobFields, JobFields DEF Writes
<1>11. ASSUME NEW j \in jobs, ReadFails(j) PROVE StalePathsAreBeingRead'
  BY <1>11, EndJobFields, JobFields DEF ReadFails
<1>12. ASSUME NEW p \in Paths, RebuildRead(p) PROVE StalePathsAreBeingRead'
  BY <1>12 DEF RebuildRead
<1>13. CASE RebuildFails
  BY <1>13 DEF RebuildFails
<1>14. CASE GoLive
  BY <1>14, GoLiveFields DEF GoLive, RebuildDone, TokensReserved, HeldUnlinks, HeldPaths
<1>15. CASE ListFolder
  BY <1>15, ListFolderFields
<1>16. ASSUME NEW p \in Paths, CheckHeldPath(p) \/ HeldPathUnknown(p)
      PROVE  StalePathsAreBeingRead'
  BY <1>16, CheckFields
<1>17. CASE RemoveMissing
  BY <1>17, RemoveMissingFields, MissingFields
<1>18. ASSUME NEW p \in Paths, StartHeldRead(p) PROVE StalePathsAreBeingRead'
  BY <1>18, StartHeldReadFields
<1> QED
  BY <1>1, <1>2, <1>3, <1>4, <1>5, <1>6, <1>7, <1>8, <1>9, <1>10, <1>11, <1>12, <1>13, <1>14,
     <1>15, <1>16, <1>17, <1>18
     DEF Next, ChangeDisk, Chokidar, Reads, JobStep, Startup, Failures

\* What a step does to the rows of a live index.
RowsGoForward ==
    mode = "live" => \A p \in Paths : rows'[p] = Absent \/ rows'[p] >= rows[p]

\* Once live, rows that change are removed, or get those of a version no older.
LEMMA ForwardStep == TypeOK /\ ReadsInOrder /\ Next => RowsGoForward
<1> SUFFICES ASSUME TypeOK, ReadsInOrder, Next
             PROVE  RowsGoForward
  OBVIOUS
<1> USE BoundsAssumption DEF TypeOK, ReadsInOrder, RowsGoForward, HasRead, Current, diskVars,
        chokidarVars, startVars, indexVars, readVars, history, Absent, NoToken
<1>1. ASSUME NEW p \in Paths, WriteFile(p) PROVE RowsGoForward
  BY <1>1 DEF WriteFile
<1>2. ASSUME NEW p \in Paths, DeleteFile(p) PROVE RowsGoForward
  BY <1>2 DEF DeleteFile
<1>3. ASSUME NEW p \in Paths, ReportChange(p) PROVE RowsGoForward
  <2>1. CASE mode = "live"
    <3>1. PICK k \in Job : Starts(p, k)
      BY <1>3, <2>1, StartReadFields DEF ReportChange, HandleChange
    <3> QED
      BY <1>3, <2>1, <3>1, JobFields DEF ReportChange, HandleChange, Starts
  <2>2. CASE mode /= "live"
    BY <1>3, <2>2 DEF ReportChange, HandleChange
  <2> QED
    BY <2>1, <2>2
<1>4. ASSUME NEW p \in Paths, ReportUnlink(p) PROVE RowsGoForward
  BY <1>4, RemovalFields DEF ReportUnlink, HandleDelete
<1>5. ASSUME NEW p \in Paths, Rescan(p) PROVE RowsGoForward
  <2>1. CASE mode = "live"
    <3>1. PICK k \in Job : Starts(p, k)
      BY <1>5, <2>1, StartReadFields DEF Rescan, HandleChange
    <3> QED
      BY <1>5, <2>1, <3>1, JobFields DEF Rescan, HandleChange, Starts
  <2>2. CASE mode /= "live"
    BY <1>5, <2>2 DEF Rescan, HandleChange
  <2> QED
    BY <2>1, <2>2
<1>6. ASSUME NEW j \in jobs, DiskRead(j) PROVE RowsGoForward
  <2>1. /\ UNCHANGED <<diskVars, chokidarVars, startVars, indexVars, batch, history>>
        /\ \E k \in Job :
               /\ GoesOn(j, k) /\ k.got = disk[j.path]
               /\ \/ j.stage = "read" /\ k.stage = "have"
                  \/ j.stage = "content" /\ k.stage = "haveContent"
    BY <1>6, DiskReadFields
  <2>2. PICK k \in Job :
               /\ GoesOn(j, k) /\ k.got = disk[j.path]
               /\ \/ j.stage = "read" /\ k.stage = "have"
                  \/ j.stage = "content" /\ k.stage = "haveContent"
    BY <2>1
  <2> QED
    BY <1>6, <2>1, <2>2, JobFields DEF GoesOn
<1>7. ASSUME NEW j \in jobs, NoteResumes(j) PROVE RowsGoForward
  <2>1. CASE ~Current(j) \/ j.got = Absent
    BY <1>7, <2>1, NoteResumesFields, EndJobFields, JobFields
  <2>2. CASE Current(j) /\ j.got /= Absent
    <3>1. PICK k \in Job : GoesOn(j, k) /\ k.stage = "parse" /\ k.got = j.got
      BY <1>7, <2>2, NoteResumesFields
    <3> QED
      BY <1>7, <2>2, <3>1, NoteResumesFields, JobFields DEF GoesOn
  <2> QED
    BY <2>1, <2>2
<1>8. ASSUME NEW j \in jobs, NoteParsed(j) PROVE RowsGoForward
  BY <1>8, NoteParsedFields, EndJobFields, JobFields DEF Writes
<1>9. ASSUME NEW j \in jobs, FileResumes(j) PROVE RowsGoForward
  <2>1. CASE ~Current(j) \/ j.got = Absent
    BY <1>9, <2>1, FileResumesFields, EndJobFields, JobFields
  <2>2. CASE Current(j) /\ j.got /= Absent
    <3>1. PICK k \in Job : GoesOn(j, k) /\ k.stage = "content" /\ k.got = Absent
      BY <1>9, <2>2, FileResumesFields
    <3> QED
      BY <1>9, <2>2, <3>1, FileResumesFields, JobFields DEF GoesOn
  <2> QED
    BY <2>1, <2>2
<1>10. ASSUME NEW j \in jobs, ContentResumes(j) PROVE RowsGoForward
  BY <1>10, ContentResumesFields, EndJobFields, JobFields DEF Writes
<1>11. ASSUME NEW j \in jobs, ReadFails(j) PROVE RowsGoForward
  BY <1>11, EndJobFields, JobFields DEF ReadFails
<1>12. ASSUME NEW p \in Paths, RebuildRead(p) PROVE RowsGoForward
  BY <1>12 DEF RebuildRead
<1>13. CASE RebuildFails
  BY <1>13 DEF RebuildFails
<1>14. CASE GoLive
  BY <1>14, GoLiveFields DEF GoLive, RebuildDone, TokensReserved, HeldUnlinks, HeldPaths
<1>15. CASE ListFolder
  BY <1>15, ListFolderFields
<1>16. ASSUME NEW p \in Paths, CheckHeldPath(p) \/ HeldPathUnknown(p) PROVE RowsGoForward
  BY <1>16, CheckFields
<1>17. CASE RemoveMissing
  BY <1>17, RemoveMissingFields, MissingFields
<1>18. ASSUME NEW p \in Paths, StartHeldRead(p) PROVE RowsGoForward
  BY <1>18, StartHeldReadFields
<1> QED
  BY <1>1, <1>2, <1>3, <1>4, <1>5, <1>6, <1>7, <1>8, <1>9, <1>10, <1>11, <1>12, <1>13, <1>14,
     <1>15, <1>16, <1>17, <1>18
     DEF Next, ChangeDisk, Chokidar, Reads, JobStep, Startup, Failures

-----------------------------------------------------------------------------
(* The theorems                                                                *)

\* The invariant holds as the watcher starts.
LEMMA InitInvariant == Init => WatcherInvariant
<1> SUFFICES ASSUME Init PROVE WatcherInvariant
  OBVIOUS
<1> USE BoundsAssumption, NotesAssumption DEF Init, Absent, NoToken, Unread
<1>1. TypeOK
  BY DEF TypeOK, Files, Batch
<1>2. StartupInOrder /\ TokensAreOwn /\ TokensHaveHolders /\ ReadsInOrder
  BY DEF StartupInOrder, TokensAreOwn, TokensHaveHolders, ReadsInOrder
<1>3. VersionsGrow
  BY DEF VersionsGrow, NewerThan
<1>4. KnowledgeIsCurrent /\ GoneFilesAreSettled /\ StalePathsAreBeingRead
  BY DEF KnowledgeIsCurrent, GoneFilesAreSettled, StalePathsAreBeingRead
<1> QED
  BY <1>1, <1>2, <1>3, <1>4 DEF WatcherInvariant

\* Every step keeps the invariant.
LEMMA NextInvariant == WatcherInvariant /\ [Next]_vars => WatcherInvariant'
<1> SUFFICES ASSUME WatcherInvariant, [Next]_vars PROVE WatcherInvariant'
  OBVIOUS
<1>1. CASE Next
  BY <1>1, TypeStep, StartupStep, OwnStep, HoldersStep, VersionsStep, ReadsStep, KnowledgeStep,
     GoneStep, StaleStep
     DEF WatcherInvariant
<1>2. CASE UNCHANGED vars
  BY <1>2 DEF vars, WatcherInvariant, TypeOK, StartupInOrder, TokensAreOwn, TokensHaveHolders,
     VersionsGrow, ReadsInOrder, KnowledgeIsCurrent, GoneFilesAreSettled,
     StalePathsAreBeingRead, NewerThan, HasRead, Settled, NotLeftStale, BeingRead,
     ReportPending, MatchesDisk, Reserved, Current, diskVars, chokidarVars, startVars,
     indexVars, readVars, history
<1> QED
  BY <1>1, <1>2

\* The invariant holds in every reachable state.
LEMMA WatcherInvariantHolds == Spec => []WatcherInvariant
  BY InitInvariant, NextInvariant, PTL DEF Spec

\* The variables keep their types: watchVaultAndBuildIndex, the event handlers,
\* the reads they start and the startup batch never record a path, version or
\* token outside them.
THEOREM WatcherTypeCorrect == Spec => []TypeOK
<1>1. WatcherInvariant => TypeOK
  BY DEF WatcherInvariant
<1> QED
  BY <1>1, WatcherInvariantHolds, PTL

\* An event token in currentEvents always has a read or a reservation of the
\* startup batch that will release it, so releaseEventToken leaves none behind
\* however reads end.
THEOREM TokensAreReleased == Spec => []TokensHaveHolders
<1>1. WatcherInvariant => TokensHaveHolders
  BY DEF WatcherInvariant
<1> QED
  BY <1>1, WatcherInvariantHolds, PTL

\* Once the watcher is live, a path whose rows differ from the file has an event
\* still to come or a current read under way, unless its last read failed or
\* chokidar never noticed the file: no overlap of handleChange, handleDelete, the
\* reads and applyHeldChanges leaves it stale.
THEOREM NoPathIsLeftStale == Spec => []StalePathsAreBeingRead
<1>1. WatcherInvariant => StalePathsAreBeingRead
  BY DEF WatcherInvariant
<1> QED
  BY <1>1, WatcherInvariantHolds, PTL

\* A read never replaces rows of a newer version of the file: a token taken away
\* makes an older read give up, and a current one read no older version than the
\* rows hold.
THEOREM IndexGoesForward == Spec => IndexNeverGoesBack
<1>1. WatcherInvariant /\ [Next]_vars =>
          [mode = "live" =>
             \A p \in Paths : rows'[p] = Absent \/ rows'[p] >= rows[p]]_vars
  BY ForwardStep DEF WatcherInvariant, RowsGoForward
<1> QED
  BY <1>1, WatcherInvariantHolds, PTL DEF Spec, IndexNeverGoesBack
=============================================================================
