------------------------------ MODULE BodyTags ------------------------------
(* Body tags in the search index: one worker thread parses one note at a time   *)
(* (search/body-tag-parser.ts) for the file watcher's live changes              *)
(* (search/file-watcher.ts) and for the background pass that follows a rebuild  *)
(* (rebuildFromVault in search/search-index.ts), under a time limit, until the  *)
(* server's shutdown closes the parser.                                         *)
(*                                                                             *)
(* Bodies are version numbers, and the tags of a body that has some are its     *)
(* number.  A promise that settles runs its continuation before the next event, *)
(* so the index write that follows a parse and the drain loop's next job are    *)
(* part of the settling step.  The watcher's read of the note, which            *)
(* VaultWatcher models, is part of its change event.                            *)
EXTENDS Naturals, Sequences, SequencesExt

CONSTANTS
    PassOrder,      \* the notes of the rebuild, in the pass's order
    Tagless,        \* bodies that have no tag candidate
    MaxBodies       \* bound on the bodies written

VARIABLES
    saved,      \* note -> the body on disk, or Gone
    bodies,     \* bodies written so far; a body's number is its event's token too
    row,        \* note -> [body, tags, how]; how says what the last write did
    ofRebuild,  \* notes whose sourceVersion is still the rebuild's
    before,     \* storedBodyTags: note -> tags stored before the rebuild
    token,      \* currentEvents: note -> event token, or NoToken
    pass,       \* the pass's notes left, the one it waits for first
    passMode,   \* "next", "waiting" or "stopped"
    queue,      \* ParseJobs: [note, body, token, aborted]
    active,     \* the job being run and its stage, or Idle
    worker,     \* "none", "starting" or "ready"
    answer,     \* the worker's reply in transit, or "none"
    busy,       \* history: worker threads inside a parse
    closed

indexVars == <<row, ofRebuild>>
passVars == <<pass, passMode>>
diskVars == <<saved, bodies>>
threadVars == <<worker, answer, busy>>
parserVars == <<queue, active, threadVars>>
vars == <<diskVars, indexVars, before, token, passVars, parserVars, closed>>

Notes == Range(PassOrder)
Gone == 0
NoTags == 0
NoToken == 0
PassToken == 0
OldTags == MaxBodies + 1
Idle == [stage |-> "idle"]
NoRow == [body |-> Gone, tags |-> NoTags, how |-> "kept"]

TagsOf(body) == IF body \in Tagless THEN NoTags ELSE body

\* Pass 1 of the rebuild has written every note with the tags stored before.
Init ==
    /\ saved = [n \in Notes |-> 1] /\ bodies = 1
    /\ before \in [Notes -> {NoTags, OldTags}]
    /\ row = [n \in Notes |-> [body |-> 1, tags |-> before[n], how |-> "kept"]]
    /\ ofRebuild = Notes
    /\ token = [n \in Notes |-> NoToken]
    /\ pass = PassOrder /\ passMode = "next"
    /\ queue = <<>> /\ active = Idle
    /\ worker = "none" /\ answer = "none" /\ busy = 0
    /\ closed = FALSE

-----------------------------------------------------------------------------
(* What a parse result does to the index                                        *)

Keeps(outcome) == outcome \in {"unavailable", "closed"}

\* bodyTagsFromParseResult, or "keep-stored".
TagsToStore(job, outcome) ==
    IF Keeps(outcome) THEN row[job.note].tags
    ELSE IF outcome = "parsed" THEN TagsOf(job.body) ELSE NoTags

RowWritten(job, outcome) ==
    [body |-> job.body, tags |-> TagsToStore(job, outcome),
     how |-> IF Keeps(outcome) THEN "kept" ELSE outcome]

ByWatcher(job) == job.token /= PassToken

\* Mutant: the event token is not checked again after the parse.
CurrentAlways(job) == ByWatcher(job)

\* indexChangedNote's second token check.
Current(job) == ByWatcher(job) /\ token[job.note] = job.token

\* indexChangedNote after its parse.  A token belongs to one event, so at most one
\* of the jobs that settle together writes a note.
WatcherWrites(settled, outcome) ==
    LET writes == {job \in settled : Current(job)}
        Of(n) == CHOOSE job \in writes : job.note = n
        written == {job.note : job \in writes}
    IN /\ row' = [n \in Notes |-> IF n \in written THEN RowWritten(Of(n), outcome) ELSE row[n]]
       /\ token' = [n \in Notes |-> IF n \in written THEN NoToken ELSE token[n]]
       /\ ofRebuild' = ofRebuild \ written

\* The pass's check after its parse: nobody wrote or removed the note meanwhile.
StillOfRebuild(note) == note \in ofRebuild

\* Pass 1 stored the old tags, so only a change needs a write.
PassWrites(job, outcome) ==
    /\ IF StillOfRebuild(job.note)
       THEN row' = [row EXCEPT ![job.note].tags =
                        IF TagsToStore(job, outcome) /= before[job.note]
                        THEN TagsToStore(job, outcome) ELSE @,
                               ![job.note].how = outcome]
       ELSE UNCHANGED row
    /\ pass' = Tail(pass) /\ passMode' = "next"
    /\ UNCHANGED <<ofRebuild, token>>

\* The settling of jobs of the watcher, or of the pass's one job; a parser that is
\* closed or cannot start its worker stops the pass.
Settle(settled, outcome) ==
    LET ofPass == {job \in settled : ~ByWatcher(job)}
    IN IF ofPass /= {} /\ ~Keeps(outcome)
       THEN \A job \in ofPass : PassWrites(job, outcome)
       ELSE /\ WatcherWrites(settled, outcome)
            /\ IF ofPass = {} THEN UNCHANGED passVars
               ELSE passMode' = "stopped" /\ pass' = <<>>

-----------------------------------------------------------------------------
(* The queue and its drain loop                                                 *)

\* Aborted jobs settle "dropped": their note has a newer event, so nothing is
\* written.
Waiting(jobs) == {i \in DOMAIN jobs : ~jobs[i].aborted}
NextWaiting(jobs) == CHOOSE i \in Waiting(jobs) : \A j \in Waiting(jobs) : i <= j

\* drainQueue takes the next job: posted to a ready worker, or kept until the one
\* being started is.  `w` and `threads` are the worker and the threads still in a
\* parse when it does.
Drain(jobs, w, threads) ==
    LET next == NextWaiting(jobs)
    IN /\ answer' = "none"
       /\ IF Waiting(jobs) = {} \/ closed
          THEN /\ queue' = <<>> /\ active' = Idle
               /\ worker' = w /\ busy' = threads
          ELSE /\ queue' = SubSeq(jobs, next + 1, Len(jobs))
               /\ active' = [job |-> jobs[next],
                             stage |-> IF w = "ready" THEN "parsing" ELSE "starting"]
               /\ worker' = IF w = "ready" THEN w ELSE "starting"
               /\ busy' = IF w = "ready" THEN threads + 1 ELSE threads

\* parse queues a job, and drains unless a drain is running.
Enqueue(jobs, job) ==
    IF active = Idle THEN Drain(Append(jobs, job), worker, busy)
    ELSE queue' = Append(jobs, job) /\ UNCHANGED <<active, threadVars>>

-----------------------------------------------------------------------------
(* The file watcher                                                             *)

\* Mutant: every note's waiting parse is aborted.
AllAborted(note) == [i \in DOMAIN queue |-> [queue[i] EXCEPT !.aborted = ByWatcher(queue[i])]]

\* abortPendingBodyTagParse
Aborted(note) ==
    [i \in DOMAIN queue |->
        [queue[i] EXCEPT !.aborted = @ \/ (ByWatcher(queue[i]) /\ queue[i].note = note)]]

\* A change to a note.  A note with no tag candidate, or a closed parser, settles
\* at once.
Change(note) ==
    LET body == bodies + 1
        job == [note |-> note, body |-> body, token |-> body, aborted |-> FALSE]
    IN /\ body <= MaxBodies
       /\ saved' = [saved EXCEPT ![note] = body] /\ bodies' = body
       /\ IF closed \/ body \in Tagless
          THEN /\ row' = [row EXCEPT ![note] =
                              RowWritten(job, IF closed THEN "closed" ELSE "no-candidate")]
               /\ token' = [token EXCEPT ![note] = NoToken]
               /\ ofRebuild' = ofRebuild \ {note}
               /\ queue' = Aborted(note)
               /\ UNCHANGED <<active, threadVars>>
          ELSE /\ token' = [token EXCEPT ![note] = body]
               /\ Enqueue(Aborted(note), job)
               /\ UNCHANGED indexVars
       /\ UNCHANGED <<before, passVars, closed>>

\* handleDelete
Delete(note) ==
    /\ saved[note] /= Gone
    /\ saved' = [saved EXCEPT ![note] = Gone]
    /\ row' = [row EXCEPT ![note] = NoRow]
    /\ token' = [token EXCEPT ![note] = NoToken]
    /\ ofRebuild' = ofRebuild \ {note}
    /\ queue' = Aborted(note)
    /\ UNCHANGED <<bodies, before, passVars, active, threadVars, closed>>

-----------------------------------------------------------------------------
(* The background pass                                                          *)

PassJob == [note |-> Head(pass), body |-> 1, token |-> PassToken, aborted |-> FALSE]

\* The pass skips a note somebody wrote or removed since the rebuild, and parses
\* the next one that is still the rebuild's.
PassNext ==
    /\ passMode = "next" /\ pass /= <<>>
    /\ IF ~StillOfRebuild(Head(pass))
       THEN pass' = Tail(pass) /\ UNCHANGED <<indexVars, token, passMode, parserVars>>
       ELSE IF closed
       THEN passMode' = "stopped" /\ pass' = <<>> /\ UNCHANGED <<indexVars, token, parserVars>>
       ELSE IF PassJob.body \in Tagless
       THEN PassWrites(PassJob, "no-candidate") /\ UNCHANGED parserVars
       ELSE /\ passMode' = "waiting"
            /\ Enqueue(queue, PassJob)
            /\ UNCHANGED <<pass, indexVars, token>>
    /\ UNCHANGED <<diskVars, before, closed>>

-----------------------------------------------------------------------------
(* The worker thread, and what the main thread makes of it                      *)

At(stage) == active.stage = stage

\* A started worker reports ready and gets the job.
WorkerReady ==
    /\ At("starting") /\ worker = "starting"
    /\ worker' = "ready"
    /\ active' = [active EXCEPT !.stage = "parsing"]
    /\ busy' = busy + 1
    /\ UNCHANGED <<diskVars, indexVars, before, token, passVars, queue, answer, closed>>

\* It fails to start, or the parser's close stopped it.
WorkerNotReady ==
    /\ At("starting")
    /\ Settle({active.job}, IF closed THEN "closed" ELSE "unavailable")
    /\ Drain(queue, "none", busy)
    /\ UNCHANGED <<diskVars, before, closed>>

\* The thread posts its reply, which the main thread has yet to see.
WorkerAnswers ==
    /\ At("parsing") \/ At("stopping")
    /\ busy > 0 /\ answer = "none"
    /\ answer' \in {"parsed", "failed"}
    /\ busy' = busy - 1
    /\ UNCHANGED <<diskVars, indexVars, before, token, passVars, queue, active, worker, closed>>

\* handleReply
HandleReply ==
    /\ At("parsing") /\ answer /= "none"
    /\ Settle({active.job}, answer)
    /\ Drain(queue, worker, busy)
    /\ UNCHANGED <<diskVars, before, closed>>

\* handleWorkerError and handleExit: the worker died, or the close stopped it.
\* Replies posted before come first, so an answer is no longer in transit.
WorkerExits ==
    /\ At("parsing") /\ answer = "none"
    /\ Settle({active.job}, IF closed THEN "closed" ELSE "failed")
    /\ Drain(queue, "none", busy - 1)
    /\ UNCHANGED <<diskVars, before, closed>>

\* handleTimeout: the reply no longer counts, and the worker is told to stop.
TimeOut ==
    /\ At("parsing")
    /\ active' = [active EXCEPT !.stage = "stopping"]
    /\ worker' = "none"
    /\ UNCHANGED <<diskVars, indexVars, before, token, passVars, queue, answer, busy, closed>>

\* discardWorker awaits the thread's end.
StoppedThreads == IF answer = "none" THEN busy - 1 ELSE busy

\* The worker has stopped, or died on an error first.
WorkerStopped ==
    /\ At("stopping")
    /\ Settle({active.job}, "over-limit")
    /\ Drain(queue, "none", StoppedThreads)
    /\ UNCHANGED <<diskVars, before, closed>>

-----------------------------------------------------------------------------
(* Shutdown                                                                     *)

\* close: every waiting job settles "closed"; the job in a worker settles when the
\* worker's exit arrives, or its reply if that was posted before.
Close ==
    /\ ~closed
    /\ closed' = TRUE
    /\ Settle(ToSet(queue), "closed")
    /\ queue' = <<>>
    /\ worker' = "none"
    /\ UNCHANGED <<diskVars, before, active, answer, busy>>

Next ==
    \/ \E n \in Notes : Change(n) \/ Delete(n)
    \/ PassNext
    \/ WorkerReady \/ WorkerNotReady \/ WorkerAnswers \/ HandleReply
    \/ WorkerExits \/ TimeOut \/ WorkerStopped
    \/ Close

Spec == Init /\ [][Next]_vars

\* The main thread runs its timers and events.  A worker that is started reports
\* ready or fails, one that is told to stop stops, and the limit's timer fires
\* when nothing else settles the job; no thread has to answer.
ParserProgress ==
    \/ WorkerReady \/ WorkerNotReady \/ HandleReply \/ WorkerExits \/ TimeOut
    \/ WorkerStopped

Fairness == WF_vars(ParserProgress)

-----------------------------------------------------------------------------
(* Properties                                                                   *)

\* A note's tags are those of the body its row holds: none after a parse that
\* failed, passed its limit or had nothing to parse, and never those of an older
\* body, whichever of the watcher and the pass wrote last.
TagsAreOfTheIndexedBody ==
    \A n \in Notes :
        /\ row[n].how = "parsed" => row[n].tags = TagsOf(row[n].body)
        /\ row[n].how \in {"no-candidate", "failed", "over-limit"} => row[n].tags = NoTags

Jobs == ToSet(queue) \union (IF active = Idle THEN {} ELSE {active.job})

\* However parses wait, are dropped, fail or are cut off, a note's latest body is in
\* its row or on its way there: a parse is dropped only for a newer one.
LatestBodyIsOnItsWay ==
    \A n \in Notes :
        \/ row[n].body = saved[n]
        \/ \E job \in Jobs : /\ job.note = n /\ job.body = saved[n]
                             /\ Current(job) /\ ~job.aborted

\* A note's latest body is indexed in the end, however long some bodies parse.
Behind(note) == row[note].body /= saved[note]
BodiesAreIndexed == \A n \in Notes : Behind(n) ~> ~Behind(n)

\* One parse at a time: the next job never overlaps a worker told to stop.
ParsesNeverOverlap == busy <= 1
=============================================================================
