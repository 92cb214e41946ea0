--------------------------- MODULE PartTheorems -----------------------------
(* Theorems about five modules whose states are their own: BodyTags, SetupMode,   *)
(* LinkIndex, LinkRewrites and MemoryRecall.  Each is stated for any constants    *)
(* that meet the module's parameters; VaultParts takes the five instances from    *)
(* here, so that what is proved here is said of its parts.                        *)
EXTENDS SequenceTheorems, FiniteSetTheorems, WellFoundedInduction, TLAPS

CONSTANTS PassOrder, Tagless, MaxBodies
VARIABLES saved, bodies, row, ofRebuild, before, token, pass, passMode, queue, active,
          worker, answer, busy, closed
Tags == INSTANCE BodyTags

CONSTANTS Requests, None, TTL, MaxTime, MaxForms, MaxBoots
VARIABLES now, server, boots, requests, pending, forms, paths, contents, since, tries,
          published, overlapped
Setup == INSTANCE SetupMode

CONSTANTS PathOrder, NotePaths, FilePaths, Canvases, Written
VARIABLES notes, files, written, links, canvasNotes
Links == INSTANCE LinkIndex

CONSTANTS RewriteOrder, RewriteNotes, AssetPaths, Targets
VARIABLES vault, link, move
Move == INSTANCE LinkRewrites WITH PathOrder <- RewriteOrder, NotePaths <- RewriteNotes

CONSTANTS MemoryFiles, MemoryContents, NoMemory, AnyFile, Limits, Scores, VectorLimit,
          RerankLimit, MaxChanges
VARIABLES memories, entered, nextId, embeddings, sources, embeds, revised, recall, candidates,
          recalled, searchMode, atCall, stayed
Recall == INSTANCE MemoryRecall WITH
    Files <- MemoryFiles, Contents <- MemoryContents, Gone <- NoMemory,
    files <- memories, rows <- entered, vectors <- embeddings, versions <- sources,
    jobs <- embeds, changes <- revised, found <- recalled, mode <- searchMode, kept <- stayed

\* A nonempty set of natural numbers has a least member.
LEMMA LeastExists ==
    ASSUME NEW T, T \subseteq Nat, T /= {}
    PROVE  \E x \in T : \A k \in T : x <= k
<1> DEFINE L == OpToRel(<, Nat)
<1>1. /\ IsWellFoundedOn(L, Nat)
      /\ \A m, n \in Nat : m < n => <<m, n>> \in L
  BY NatLessThanWellFounded DEF OpToRel
<1> HIDE DEF L
<1>2. PICK R : IsWellFoundedOn(R, Nat) /\ \A m, n \in Nat : m < n => <<m, n>> \in R
  BY <1>1, Zenon
<1>3. IsWellFoundedOn(R, Nat)
  BY <1>2
<1>4. PICK x \in T : \A y \in T : ~(<<y, x>> \in R)
  BY <1>3, WFMin
<1>5. ASSUME NEW k \in T PROVE x <= k
  <2>1. k \in Nat /\ x \in Nat /\ ~(<<k, x>> \in R)
    BY <1>4
  <2> QED
    BY <2>1, <1>2
<1> QED
  BY <1>5

-----------------------------------------------------------------------------
(* The tags of the index: BodyTags.                                            *)

\* What the theorems ask of the constants: the rebuild lists every note once.
TagParameters ==
       /\ MaxBodies \in Nat
       /\ PassOrder \in Seq(Tags!Notes)
       /\ \A i, j \in 1 .. Len(PassOrder) : PassOrder[i] = PassOrder[j] => i = j

Job == [note : Tags!Notes, body : Nat, token : Nat, aborted : BOOLEAN]
Outcomes == {"parsed", "failed", "over-limit", "no-candidate", "unavailable", "closed"}

\* The type of the state.
TagTypeOK ==
       /\ saved \in [Tags!Notes -> Nat] /\ bodies \in Nat \ {0}
       /\ row \in [Tags!Notes -> [body : Nat, tags : Nat, how : Outcomes \union {"kept"}]]
       /\ ofRebuild \subseteq Tags!Notes
       /\ before \in [Tags!Notes -> Nat]
       /\ token \in [Tags!Notes -> Nat]
       /\ pass \in Seq(Tags!Notes) /\ passMode \in {"next", "waiting", "stopped"}
       /\ queue \in Seq(Job)
       /\ \/ active = Tags!Idle
          \/ active \in [job : Job, stage : {"starting", "parsing", "stopping"}]
       /\ worker \in {"none", "starting", "ready"}
       /\ answer \in {"none", "parsed", "failed"}
       /\ busy \in Nat /\ closed \in BOOLEAN

\* A job of the watcher's parses the body of its event; a job of the pass, the body of
\* the rebuild, for the note that the pass waits for.
Legal(job, mode, left) ==
    IF Tags!ByWatcher(job) THEN job.body = job.token
    ELSE /\ job.body = 1 /\ ~job.aborted
         /\ mode = "waiting" /\ left /= << >> /\ job.note = left[1]

\* Jobs that are, at most one of them the pass's.
LegalJobs(jobs, mode, left) ==
    /\ \A i \in 1 .. Len(jobs) : Legal(jobs[i], mode, left)
    /\ \A i, j \in 1 .. Len(jobs) :
           ~Tags!ByWatcher(jobs[i]) /\ ~Tags!ByWatcher(jobs[j]) => i = j

JobsAreLegal ==
    /\ LegalJobs(queue, passMode, pass)
    /\ active /= Tags!Idle => Legal(active.job, passMode, pass)
    /\ active /= Tags!Idle /\ ~Tags!ByWatcher(active.job) =>
           \A i \in 1 .. Len(queue) : Tags!ByWatcher(queue[i])
    /\ active = Tags!Idle => queue = << >>
    /\ closed => queue = << >>

\* A note's event token is that of its latest body.
TokensAreLatest == \A n \in Tags!Notes : token[n] /= Tags!NoToken => token[n] = saved[n]

\* A row that is still the rebuild's has the rebuild's body, and the tags stored before
\* it until the pass comes to the note.
RebuildRowsWait ==
    /\ \A i, j \in 1 .. Len(pass) : pass[i] = pass[j] => i = j
    /\ \A n \in ofRebuild : row[n].body = 1
    /\ \A i \in 1 .. Len(pass) : pass[i] \in ofRebuild => row[pass[i]].tags = before[pass[i]]

\* A thread is in a parse from the post of its job until its answer.
ThreadsAreCounted ==
    IF active /= Tags!Idle /\ active.stage \in {"parsing", "stopping"}
    THEN busy = IF answer = "none" THEN 1 ELSE 0
    ELSE busy = 0 /\ answer = "none"

BodyTagsInvariant ==
    /\ TagTypeOK /\ JobsAreLegal /\ TokensAreLatest /\ RebuildRowsWait /\ ThreadsAreCounted
    /\ Tags!TagsAreOfTheIndexedBody /\ Tags!LatestBodyIsOnItsWay
-----------------------------------------------------------------------------
(* The queue                                                                   *)

\* The drain loop's next job is the first that is not aborted.
LEMMA NextWaitingFields ==
    ASSUME NEW jobs \in Seq(Job), Tags!Waiting(jobs) /= {}
    PROVE  LET k == Tags!NextWaiting(jobs)
           IN  /\ k \in 1 .. Len(jobs) /\ ~jobs[k].aborted
               /\ \A i \in 1 .. Len(jobs) : i < k => jobs[i].aborted
<1> DEFINE k == Tags!NextWaiting(jobs)
<1>1. Tags!Waiting(jobs) \subseteq Nat /\ DOMAIN jobs = 1 .. Len(jobs)
  BY DEF Tags!Waiting
<1>2. \E x \in Tags!Waiting(jobs) : \A j \in Tags!Waiting(jobs) : x <= j
  BY <1>1, LeastExists
<1>3. k \in Tags!Waiting(jobs) /\ \A j \in Tags!Waiting(jobs) : k <= j
  BY <1>2 DEF Tags!NextWaiting
<1> HIDE DEF k
<1>4. k \in 1 .. Len(jobs) /\ ~jobs[k].aborted
  BY <1>1, <1>3 DEF Tags!Waiting
<1>5. ASSUME NEW i \in 1 .. Len(jobs), i < k PROVE jobs[i].aborted
  <2>1. i \notin Tags!Waiting(jobs)
    BY <1>3, <1>4, <1>5
  <2> QED
    BY <1>1, <2>1 DEF Tags!Waiting
<1> QED
  BY <1>4, <1>5 DEF k

\* What the drain loop does with the jobs it finds, when no thread is in a parse.
Drained(jobs, w) ==
    /\ answer' = "none"
    /\ \/ /\ closed \/ \A i \in 1 .. Len(jobs) : jobs[i].aborted
          /\ queue' = << >> /\ active' = Tags!Idle /\ worker' = w /\ busy' = 0
       \/ \E k \in 1 .. Len(jobs) :
              /\ ~closed /\ ~jobs[k].aborted
              /\ \A i \in 1 .. Len(jobs) : i < k => jobs[i].aborted
              /\ queue' \in Seq(Job) /\ Len(queue') = Len(jobs) - k
              /\ \A i \in 1 .. Len(queue') : k + i \in 1 .. Len(jobs) /\ queue'[i] = jobs[k + i]
              /\ active' \in [job : Job, stage : {"starting", "parsing"}] /\ active'.job = jobs[k]
              /\ worker' \in {"starting", "ready"}
              /\ busy' = IF active'.stage = "parsing" THEN 1 ELSE 0

\* The drain loop takes the first job that is not aborted.
LEMMA DrainFields ==
    ASSUME NEW jobs \in Seq(Job), NEW w \in {"none", "starting", "ready"}, Tags!Drain(jobs, w, 0)
    PROVE  Drained(jobs, w)
<1>1. CASE Tags!Waiting(jobs) = {} \/ closed
  <2>1. Tags!Waiting(jobs) = {} => \A i \in 1 .. Len(jobs) : jobs[i].aborted
    BY DEF Tags!Waiting
  <2> QED
    BY <1>1, <2>1 DEF Tags!Drain, Drained
<1>2. CASE Tags!Waiting(jobs) /= {} /\ ~closed
  <2> DEFINE k == Tags!NextWaiting(jobs)
  <2>1. /\ k \in 1 .. Len(jobs) /\ ~jobs[k].aborted
        /\ \A i \in 1 .. Len(jobs) : i < k => jobs[i].aborted
    BY <1>2, NextWaitingFields
  <2>2. /\ queue' = SubSeq(jobs, k + 1, Len(jobs))
        /\ active' = [job |-> jobs[k], stage |-> IF w = "ready" THEN "parsing" ELSE "starting"]
        /\ worker' = IF w = "ready" THEN w ELSE "starting"
        /\ busy' = IF w = "ready" THEN 0 + 1 ELSE 0
        /\ answer' = "none"
    BY <1>2 DEF Tags!Drain
  <2> HIDE DEF k
  <2>3. /\ queue' \in Seq(Job) /\ Len(queue') = Len(jobs) - k
        /\ \A i \in 1 .. Len(queue') : k + i \in 1 .. Len(jobs) /\ queue'[i] = jobs[k + i]
    <3>1. \A i \in k + 1 .. Len(jobs) : jobs[i] \in Job
      BY <2>1
    <3>2. k + 1 \in Int /\ Len(jobs) \in Int
      BY <2>1
    <3>3. /\ queue' \in Seq(Job)
          /\ Len(queue') = IF k + 1 <= Len(jobs) THEN Len(jobs) - (k + 1) + 1 ELSE 0
          /\ \A i \in 1 .. Len(jobs) - (k + 1) + 1 : queue'[i] = jobs[k + 1 + i - 1]
      BY <2>2, <3>1, <3>2, SubSeqProperties
    <3>4. Len(queue') = Len(jobs) - k
      BY <2>1, <3>3
    <3>5. ASSUME NEW i \in 1 .. Len(queue')
          PROVE  k + i \in 1 .. Len(jobs) /\ queue'[i] = jobs[k + i]
      <4>1. i \in 1 .. Len(jobs) - (k + 1) + 1 /\ k + 1 + i - 1 = k + i
        BY <2>1, <3>4
      <4> QED
        BY <2>1, <3>3, <3>4, <4>1
    <3> QED
      BY <3>3, <3>4, <3>5
  <2>4. jobs[k] \in Job
    BY <2>1
  <2>5. /\ active' \in [job : Job, stage : {"starting", "parsing"}] /\ active'.job = jobs[k]
        /\ worker' \in {"starting", "ready"}
        /\ busy' = IF active'.stage = "parsing" THEN 1 ELSE 0
    BY <2>2, <2>4
  <2> QED
    BY <1>2, <2>1, <2>2, <2>3, <2>5 DEF Drained
<1> QED
  BY <1>1, <1>2

-----------------------------------------------------------------------------
(* What each step does, note by note                                            *)

\* Initially, and while no job is being run, the active record is Idle.
LEMMA ActiveFields ==
    ASSUME TagTypeOK
    PROVE  /\ Tags!Idle.stage = "idle"
           /\ active /= Tags!Idle => /\ active.job \in Job
                                     /\ active.stage \in {"starting", "parsing", "stopping"}
  BY DEF TagTypeOK, Tags!Idle

\* A row that is written for a parse is right about it.
Stored(r, job) ==
    /\ r \in [body : Nat, tags : Nat, how : Outcomes \union {"kept"}]
    /\ r.body = job.body
    /\ r.how = "parsed" => r.tags = Tags!TagsOf(r.body)
    /\ r.how \in {"no-candidate", "failed", "over-limit"} => r.tags = Tags!NoTags

\* The row that a parse's result gives is right about the parse.
LEMMA RowWrittenFields ==
    ASSUME TagTypeOK, NEW job \in Job, NEW outcome \in Outcomes
    PROVE  Stored(Tags!RowWritten(job, outcome), job)
<1> DEFINE r == Tags!RowWritten(job, outcome)
<1>1. /\ row[job.note].tags \in Nat /\ job.body \in Nat /\ Tags!TagsOf(job.body) \in Nat
      /\ Tags!TagsToStore(job, outcome) \in Nat
  BY DEF TagTypeOK, Job, Tags!TagsOf, Tags!NoTags, Tags!TagsToStore
<1>2. /\ r.body = job.body /\ r.tags = Tags!TagsToStore(job, outcome)
      /\ r.how = IF Tags!Keeps(outcome) THEN "kept" ELSE outcome
  BY DEF Tags!RowWritten
<1>3. r \in [body : Nat, tags : Nat, how : Outcomes \union {"kept"}]
  BY <1>1 DEF Tags!RowWritten
<1>4. /\ r.how = "parsed" => r.tags = Tags!TagsOf(r.body)
      /\ r.how \in {"no-candidate", "failed", "over-limit"} => r.tags = Tags!NoTags
  BY <1>2 DEF Tags!TagsToStore, Tags!Keeps, Outcomes
<1> HIDE DEF r
<1>5. Stored(r, job)
  BY <1>2, <1>3, <1>4 DEF Stored
<1> QED
  BY <1>5 DEF r

\* The rows of a note, and its event token, after its parse or its removal.
Writes(n, r) ==
    /\ row' = [row EXCEPT ![n] = r]
    /\ token' = [token EXCEPT ![n] = Tags!NoToken]
    /\ ofRebuild' = ofRebuild \ {n}

\* The pass's first note is done: its tags are right, and nothing else has changed.
PassStored ==
    /\ pass /= << >> /\ UNCHANGED <<ofRebuild, token>>
    /\ row' \in [Tags!Notes -> [body : Nat, tags : Nat, how : Outcomes \union {"kept"}]]
    /\ \A n \in Tags!Notes : n /= pass[1] => row'[n] = row[n]
    /\ \A n \in Tags!Notes :
           /\ row'[n].body = row[n].body
           /\ \/ row'[n] = row[n]
              \/ /\ row'[n].how = "parsed" => row'[n].tags = Tags!TagsOf(row'[n].body)
                 /\ row'[n].how \in {"no-candidate", "failed", "over-limit"} =>
                        row'[n].tags = Tags!NoTags
    /\ passMode' = "next" /\ pass' \in Seq(Tags!Notes) /\ Len(pass') = Len(pass) - 1
    /\ \A i \in 1 .. Len(pass') : i + 1 \in 1 .. Len(pass) /\ pass'[i] = pass[i + 1]

\* The rest of the pass.
LEMMA TailFields ==
    ASSUME TagTypeOK, pass /= << >>
    PROVE  /\ Head(pass) = pass[1] /\ pass[1] \in Tags!Notes /\ Len(pass) \in Nat \ {0}
           /\ Tail(pass) \in Seq(Tags!Notes) /\ Len(Tail(pass)) = Len(pass) - 1
           /\ \A i \in 1 .. Len(Tail(pass)) :
                  i + 1 \in 1 .. Len(pass) /\ Tail(pass)[i] = pass[i + 1]
<1>1. pass \in Seq(Tags!Notes)
  BY DEF TagTypeOK
<1>2. Len(pass) \in Nat \ {0} /\ Head(pass) = pass[1] /\ pass[1] \in Tags!Notes
  BY <1>1
<1>3. Tail(pass) \in Seq(Tags!Notes) /\ Len(Tail(pass)) = Len(pass) - 1
  BY <1>1
<1>4. ASSUME NEW i \in 1 .. Len(Tail(pass))
      PROVE  i + 1 \in 1 .. Len(pass) /\ Tail(pass)[i] = pass[i + 1]
  BY <1>1, <1>2, <1>3, <1>4
<1> QED
  BY <1>2, <1>3, <1>4

\* The pass writes the tags of its first note, when they are not those it has.
LEMMA PassWritesFields ==
    ASSUME TagTypeOK, RebuildRowsWait, NEW job, NEW outcome \in Outcomes, ~Tags!Keeps(outcome),
           pass /= << >>, job.note = pass[1], job.body = 1, Tags!PassWrites(job, outcome)
    PROVE  PassStored
<1> DEFINE n == pass[1]
           t == Tags!TagsToStore(job, outcome)
           Row == [body : Nat, tags : Nat, how : Outcomes \union {"kept"}]
<1>1. /\ n \in Tags!Notes /\ Len(pass) \in Nat \ {0}
      /\ Tail(pass) \in Seq(Tags!Notes) /\ Len(Tail(pass)) = Len(pass) - 1
      /\ \A i \in 1 .. Len(Tail(pass)) :
             i + 1 \in 1 .. Len(pass) /\ Tail(pass)[i] = pass[i + 1]
  BY TailFields
<1>2. /\ pass' = Tail(pass) /\ passMode' = "next" /\ UNCHANGED <<ofRebuild, token>>
      /\ row \in [Tags!Notes -> Row]
  BY DEF Tags!PassWrites, TagTypeOK
<1>3. /\ row' \in [Tags!Notes -> Row]
      /\ \A m \in Tags!Notes : m /= n => row'[m] = row[m]
      /\ row'[n].body = row[n].body
      /\ \/ row'[n] = row[n]
         \/ /\ row'[n].how = "parsed" => row'[n].tags = Tags!TagsOf(row'[n].body)
            /\ row'[n].how \in {"no-candidate", "failed", "over-limit"} =>
                   row'[n].tags = Tags!NoTags
  <2>1. CASE n \notin ofRebuild
    <3>1. row' = row
      BY <2>1 DEF Tags!PassWrites, Tags!StillOfRebuild
    <3> QED
      BY <1>1, <1>2, <3>1
  <2>2. CASE n \in ofRebuild
    <3>1. row[n].body = 1 /\ row[n].tags = before[n]
      BY <1>1, <2>2 DEF RebuildRowsWait
    <3>2. t = IF outcome = "parsed" THEN Tags!TagsOf(1) ELSE Tags!NoTags
      BY DEF Tags!TagsToStore
    <3>3. t \in Nat
      BY <3>2 DEF Tags!TagsOf, Tags!NoTags
    <3> HIDE DEF t
    <3>4. row' = [row EXCEPT ![n].tags = IF t /= before[n] THEN t ELSE row[n].tags,
                             ![n].how = outcome]
      BY <2>2 DEF Tags!PassWrites, Tags!StillOfRebuild, t
    <3>5. row[n] \in Row
      BY <1>1, <1>2
    <3>6. /\ row' = [row EXCEPT ![n] = row'[n]] /\ row'[n] \in Row /\ row'[n].how = outcome
          /\ row'[n].tags = t /\ row'[n].body = row[n].body
      BY <1>1, <1>2, <3>1, <3>3, <3>4, <3>5
    <3>7. /\ row'[n].how = "parsed" => row'[n].tags = Tags!TagsOf(row'[n].body)
          /\ row'[n].how \in {"no-candidate", "failed", "over-limit"} => row'[n].tags = Tags!NoTags
      BY <3>1, <3>2, <3>6
    <3> QED
      BY <1>1, <1>2, <3>6, <3>7
  <2> QED
    BY <2>1, <2>2
<1> HIDE DEF Row
<1> QED
  BY <1>1, <1>2, <1>3 DEF PassStored, Row

\* The job that was running settles.
Settled(job) ==
    \/ /\ Tags!Current(job) /\ UNCHANGED Tags!passVars
       /\ \E r : Stored(r, job) /\ Writes(job.note, r)
    \/ /\ ~Tags!Current(job) /\ UNCHANGED <<Tags!indexVars, token>>
       /\ \/ Tags!ByWatcher(job) /\ UNCHANGED Tags!passVars
          \/ ~Tags!ByWatcher(job) /\ pass' = << >> /\ passMode' = "stopped"
    \/ ~Tags!ByWatcher(job) /\ PassStored

\* One job settles on its own.
LEMMA SettledFields ==
    ASSUME TagTypeOK, RebuildRowsWait, NEW job \in Job, Legal(job, passMode, pass),
           NEW outcome \in Outcomes, Tags!Settle({job}, outcome)
    PROVE  Settled(job)
<1>1. CASE ~Tags!ByWatcher(job) /\ ~Tags!Keeps(outcome)
  <2>1. Tags!PassWrites(job, outcome)
    BY <1>1 DEF Tags!Settle
  <2>2. pass /= << >> /\ job.note = pass[1] /\ job.body = 1
    BY <1>1 DEF Legal
  <2> QED
    BY <1>1, <2>1, <2>2, PassWritesFields DEF Settled
<1>2. CASE Tags!ByWatcher(job) \/ Tags!Keeps(outcome)
  <2>1. /\ Tags!WatcherWrites({job}, outcome)
        /\ IF Tags!ByWatcher(job) THEN UNCHANGED Tags!passVars ELSE passMode' = "stopped" /\ pass' = << >>
    BY <1>2 DEF Tags!Settle
  <2>2. CASE Tags!Current(job)
    <3>1. Tags!ByWatcher(job) /\ job.note \in Tags!Notes
      BY <2>2 DEF Tags!Current, Job
    <3>2. {j \in {job} : Tags!Current(j)} = {job}
      BY <2>2
    <3>3. (CHOOSE j \in {j \in {job} : Tags!Current(j)} : j.note = job.note) = job
      BY <3>2
    <3>4. {j.note : j \in {j \in {job} : Tags!Current(j)}} = {job.note}
      BY <3>2
    <3>5. /\ row' = [n \in Tags!Notes |-> IF n = job.note THEN Tags!RowWritten(job, outcome) ELSE row[n]]
          /\ token' = [n \in Tags!Notes |-> IF n = job.note THEN Tags!NoToken ELSE token[n]]
          /\ ofRebuild' = ofRebuild \ {job.note}
      BY <2>1, <3>2, <3>3, <3>4 DEF Tags!WatcherWrites
    <3>6. Writes(job.note, Tags!RowWritten(job, outcome))
      BY <3>1, <3>5 DEF Writes, TagTypeOK
    <3> QED
      BY <2>1, <2>2, <3>1, <3>6, RowWrittenFields DEF Settled
  <2>3. CASE ~Tags!Current(job)
    <3>1. {j \in {job} : Tags!Current(j)} = {}
      BY <2>3
    <3>2. /\ row' = [n \in Tags!Notes |-> row[n]]
          /\ token' = [n \in Tags!Notes |-> token[n]]
          /\ ofRebuild' = ofRebuild \ {}
      BY <2>1, <3>1 DEF Tags!WatcherWrites
    <3>3. UNCHANGED <<Tags!indexVars, token>>
      BY <3>2 DEF Tags!indexVars, TagTypeOK
    <3> QED
      BY <2>1, <2>3, <3>3 DEF Settled
  <2> QED
    BY <2>2, <2>3
<1> QED
  BY <1>1, <1>2

\* A step that ends the running job: it settles, and the drain loop goes on.
Ends(w) ==
    /\ active /= Tags!Idle /\ active.job \in Job
    /\ Settled(active.job) /\ Drained(queue, w)
    /\ UNCHANGED <<Tags!diskVars, before, closed>>

\* The job ends when its worker does not start, answers, dies or is stopped.
LEMMA EndsFields ==
    ASSUME TagTypeOK, ThreadsAreCounted, JobsAreLegal, RebuildRowsWait,
           Tags!WorkerNotReady \/ Tags!HandleReply \/ Tags!WorkerExits \/ Tags!WorkerStopped
    PROVE  \E outcome \in Outcomes, w \in {"none", "starting", "ready"} : Ends(w)
<1>1. \E outcome \in Outcomes, w \in {"none", "starting", "ready"} :
          /\ active.stage \in {"starting", "parsing", "stopping"}
          /\ Tags!Settle({active.job}, outcome) /\ Tags!Drain(queue, w, 0)
          /\ UNCHANGED <<Tags!diskVars, before, closed>>
  <2>1. CASE Tags!WorkerNotReady
    <3>1. /\ active.stage = "starting" /\ busy = 0
          /\ Tags!Settle({active.job}, IF closed THEN "closed" ELSE "unavailable")
          /\ Tags!Drain(queue, "none", busy)
          /\ UNCHANGED <<Tags!diskVars, before, closed>>
      BY <2>1 DEF Tags!WorkerNotReady, Tags!At, ThreadsAreCounted
    <3> QED
      BY <3>1 DEF Outcomes
  <2>2. CASE Tags!HandleReply
    <3>1. /\ active.stage = "parsing" /\ answer \in {"parsed", "failed"} /\ active /= Tags!Idle
          /\ Tags!Settle({active.job}, answer) /\ Tags!Drain(queue, worker, busy)
          /\ UNCHANGED <<Tags!diskVars, before, closed>>
      BY <2>2 DEF Tags!HandleReply, Tags!At, TagTypeOK, Tags!Idle
    <3>2. busy = 0
      BY <3>1 DEF ThreadsAreCounted
    <3> QED
      BY <3>1, <3>2 DEF Outcomes, TagTypeOK
  <2>3. CASE Tags!WorkerExits
    <3>1. /\ active.stage = "parsing" /\ answer = "none" /\ active /= Tags!Idle
          /\ Tags!Settle({active.job}, IF closed THEN "closed" ELSE "failed")
          /\ Tags!Drain(queue, "none", busy - 1)
          /\ UNCHANGED <<Tags!diskVars, before, closed>>
      BY <2>3 DEF Tags!WorkerExits, Tags!At, TagTypeOK, Tags!Idle
    <3>2. busy - 1 = 0
      BY <3>1 DEF ThreadsAreCounted
    <3> QED
      BY <3>1, <3>2 DEF Outcomes
  <2>4. CASE Tags!WorkerStopped
    <3>1. /\ active.stage = "stopping" /\ active /= Tags!Idle
          /\ Tags!Settle({active.job}, "over-limit") /\ Tags!Drain(queue, "none", Tags!StoppedThreads)
          /\ UNCHANGED <<Tags!diskVars, before, closed>>
      BY <2>4 DEF Tags!WorkerStopped, Tags!At, TagTypeOK, Tags!Idle
    <3>2. Tags!StoppedThreads = 0
      BY <3>1 DEF ThreadsAreCounted, Tags!StoppedThreads
    <3> QED
      BY <3>1, <3>2 DEF Outcomes
  <2> QED
    BY <2>1, <2>2, <2>3, <2>4
<1>2. PICK outcome \in Outcomes, w \in {"none", "starting", "ready"} :
          /\ active.stage \in {"starting", "parsing", "stopping"}
          /\ Tags!Settle({active.job}, outcome) /\ Tags!Drain(queue, w, 0)
          /\ UNCHANGED <<Tags!diskVars, before, closed>>
  BY <1>1
<1>3. active /= Tags!Idle /\ active.job \in Job /\ Legal(active.job, passMode, pass)
  BY <1>2, ActiveFields DEF JobsAreLegal
<1>4. Settled(active.job)
  BY <1>2, <1>3, SettledFields
<1>5. queue \in Seq(Job)
  BY DEF TagTypeOK
<1>6. Drained(queue, w)
  BY <1>2, <1>5, DrainFields
<1> QED
  BY <1>2, <1>3, <1>4, <1>6 DEF Ends

\* A job is queued, or taken at once.
Enqueued(jobs) ==
    \/ active /= Tags!Idle /\ queue' = jobs /\ UNCHANGED <<active, Tags!threadVars>>
    \/ active = Tags!Idle /\ Drained(jobs, worker)

\* The jobs are those of `base` and one more.
Extended(jobs, base, job) ==
    /\ jobs \in Seq(Job) /\ Len(jobs) = Len(base) + 1 /\ jobs[Len(base) + 1] = job
    /\ \A i \in 1 .. Len(base) : i \in 1 .. Len(jobs) /\ jobs[i] = base[i]

\* The parser queues a job, or runs it.
LEMMA EnqueuedFields ==
    ASSUME TagTypeOK, ThreadsAreCounted, NEW base \in Seq(Job), NEW job \in Job,
           Tags!Enqueue(base, job)
    PROVE  \E jobs : Extended(jobs, base, job) /\ Enqueued(jobs)
<1> DEFINE all == Append(base, job)
<1>1. Extended(all, base, job)
  BY AppendProperties DEF Extended
<1>2. all \in Seq(Job)
  OBVIOUS
<1>3. CASE active /= Tags!Idle
  BY <1>1, <1>3 DEF Tags!Enqueue, Enqueued
<1>4. CASE active = Tags!Idle
  <2>1. Tags!Drain(all, worker, busy) /\ busy = 0 /\ worker \in {"none", "starting", "ready"}
    BY <1>4 DEF Tags!Enqueue, ThreadsAreCounted, TagTypeOK
  <2> HIDE DEF all
  <2>2. Drained(all, worker)
    BY <1>2, <2>1, DrainFields
  <2> QED
    BY <1>1, <1>4, <2>2 DEF Enqueued
<1> QED
  BY <1>3, <1>4

\* Aborting a note's waiting parses changes nothing else in the queue.
LEMMA AbortedFields ==
    ASSUME TagTypeOK, NEW n \in Tags!Notes
    PROVE  /\ Tags!Aborted(n) \in Seq(Job) /\ Len(Tags!Aborted(n)) = Len(queue)
           /\ \A i \in 1 .. Len(queue) :
                  /\ Tags!Aborted(n)[i].note = queue[i].note /\ Tags!Aborted(n)[i].body = queue[i].body
                  /\ Tags!Aborted(n)[i].token = queue[i].token
                  /\ Tags!Aborted(n)[i].aborted
                              <=> queue[i].aborted \/ (Tags!ByWatcher(queue[i]) /\ queue[i].note = n)
<1> DEFINE Turned(i) ==
      [queue[i] EXCEPT !.aborted = @ \/ (Tags!ByWatcher(queue[i]) /\ queue[i].note = n)]
<1>1. queue \in Seq(Job) /\ DOMAIN queue = 1 .. Len(queue) /\ Len(queue) \in Nat
  BY DEF TagTypeOK
<1>2. ASSUME NEW i \in 1 .. Len(queue)
      PROVE  /\ Turned(i) \in Job /\ Turned(i).note = queue[i].note
             /\ Turned(i).body = queue[i].body /\ Turned(i).token = queue[i].token
             /\ Turned(i).aborted <=> queue[i].aborted \/ (Tags!ByWatcher(queue[i]) /\ queue[i].note = n)
  <2>1. queue[i] \in Job
    BY <1>1
  <2> QED
    BY <2>1 DEF Job, Tags!ByWatcher
<1>3. Tags!Aborted(n) = [i \in 1 .. Len(queue) |-> Turned(i)]
  BY <1>1 DEF Tags!Aborted
<1> HIDE DEF Turned
<1>4. Tags!Aborted(n) \in Seq(Job) /\ Len(Tags!Aborted(n)) = Len(queue)
  BY <1>1, <1>2, <1>3
<1> QED
  BY <1>2, <1>3, <1>4

\* A note changes, and its row is written at once.
NewJob(n) == [note |-> n, body |-> bodies + 1, token |-> bodies + 1, aborted |-> FALSE]

Changed(n) ==
    /\ saved' = [saved EXCEPT ![n] = bodies + 1] /\ bodies' = bodies + 1
    /\ UNCHANGED <<before, Tags!passVars, closed>>

ChangeIndexed(n) ==
    /\ Changed(n)
    /\ \E r : Stored(r, NewJob(n)) /\ Writes(n, r)
    /\ queue' = Tags!Aborted(n) /\ UNCHANGED <<active, Tags!threadVars>>

\* A note changes, and a parse of it is queued.
ChangeQueued(n) ==
    /\ Changed(n) /\ ~closed
    /\ token' = [token EXCEPT ![n] = bodies + 1] /\ UNCHANGED Tags!indexVars
    /\ Tags!Enqueue(Tags!Aborted(n), NewJob(n))

\* A change is one or the other.
LEMMA ChangeFields ==
    ASSUME TagTypeOK, NEW n \in Tags!Notes, Tags!Change(n)
    PROVE  NewJob(n) \in Job /\ (ChangeIndexed(n) \/ ChangeQueued(n))
<1>1. NewJob(n) \in Job /\ bodies + 1 \in Nat
  BY DEF NewJob, Job, TagTypeOK
<1>2. Changed(n)
  BY DEF Tags!Change, Changed
<1>3. CASE closed \/ bodies + 1 \in Tagless
  <2> DEFINE outcome == IF closed THEN "closed" ELSE "no-candidate"
             r == Tags!RowWritten(NewJob(n), outcome)
  <2>1. outcome \in Outcomes
    BY DEF Outcomes
  <2>2. /\ row' = [row EXCEPT ![n] = r] /\ token' = [token EXCEPT ![n] = Tags!NoToken]
        /\ ofRebuild' = ofRebuild \ {n} /\ queue' = Tags!Aborted(n)
        /\ UNCHANGED <<active, Tags!threadVars>>
    BY <1>3 DEF Tags!Change, NewJob
  <2> HIDE DEF outcome
  <2>3. Stored(r, NewJob(n))
    BY <1>1, <2>1, RowWrittenFields
  <2> HIDE DEF r
  <2> QED
    BY <1>1, <1>2, <2>2, <2>3 DEF ChangeIndexed, Writes
<1>4. CASE ~(closed \/ bodies + 1 \in Tagless)
  <2>1. /\ token' = [token EXCEPT ![n] = bodies + 1] /\ UNCHANGED Tags!indexVars
        /\ Tags!Enqueue(Tags!Aborted(n), NewJob(n))
    BY <1>4 DEF Tags!Change, NewJob
  <2> QED
    BY <1>1, <1>2, <1>4, <2>1 DEF ChangeQueued
<1> QED
  BY <1>3, <1>4

\* The pass goes on: it passes over its first note, or is stopped.
PassShortens ==
    /\ UNCHANGED <<Tags!indexVars, token, Tags!parserVars, Tags!diskVars, before, closed>>
    /\ passMode = "next" /\ passMode' \in {"next", "stopped"}
    /\ pass' \in Seq(Tags!Notes) /\ Len(pass') < Len(pass)
    /\ \A i \in 1 .. Len(pass') : i + 1 \in 1 .. Len(pass) /\ pass'[i] = pass[i + 1]

\* It writes the first note at once.
PassStores ==
    /\ PassStored /\ passMode = "next"
    /\ UNCHANGED <<Tags!parserVars, Tags!diskVars, before, closed>>

\* It queues a parse of the first note.
PassQueues ==
    /\ passMode = "next" /\ passMode' = "waiting" /\ ~closed /\ pass /= << >>
    /\ Tags!Enqueue(queue, Tags!PassJob)
    /\ UNCHANGED <<pass, Tags!indexVars, token, Tags!diskVars, before, closed>>

\* A step of the pass is one of these.
LEMMA PassNextFields ==
    ASSUME TagTypeOK, RebuildRowsWait, Tags!PassNext
    PROVE  /\ Tags!PassJob \in Job /\ ~Tags!PassJob.aborted /\ ~Tags!ByWatcher(Tags!PassJob)
           /\ Tags!PassJob.body = 1 /\ Tags!PassJob.note = pass[1]
           /\ PassShortens \/ PassStores \/ PassQueues
<1>1. /\ passMode = "next" /\ pass /= << >>
      /\ UNCHANGED <<Tags!diskVars, before, closed>>
  BY DEF Tags!PassNext
<1>2. /\ Head(pass) = pass[1] /\ pass[1] \in Tags!Notes /\ Len(pass) \in Nat \ {0}
      /\ Tail(pass) \in Seq(Tags!Notes) /\ Len(Tail(pass)) = Len(pass) - 1
      /\ \A i \in 1 .. Len(Tail(pass)) :
             i + 1 \in 1 .. Len(pass) /\ Tail(pass)[i] = pass[i + 1]
  BY <1>1, TailFields
<1>3. /\ Tags!PassJob \in Job /\ ~Tags!PassJob.aborted /\ ~Tags!ByWatcher(Tags!PassJob)
      /\ Tags!PassJob.body = 1 /\ Tags!PassJob.note = pass[1]
  BY <1>2 DEF Tags!PassJob, Job, Tags!ByWatcher, Tags!PassToken
<1>4. CASE ~Tags!StillOfRebuild(Head(pass))
  <2>1. pass' = Tail(pass) /\ UNCHANGED <<Tags!indexVars, token, passMode, Tags!parserVars>>
    BY <1>4 DEF Tags!PassNext
  <2> QED
    BY <1>1, <1>2, <1>3, <2>1 DEF PassShortens
<1>5. CASE Tags!StillOfRebuild(Head(pass)) /\ closed
  <2>1. passMode' = "stopped" /\ pass' = << >> /\ UNCHANGED <<Tags!indexVars, token,
                                           Tags!parserVars>>
    BY <1>5 DEF Tags!PassNext
  <2>2. Len(pass') = 0 /\ pass' \in Seq(Tags!Notes)
    BY <2>1
  <2> QED
    BY <1>1, <1>2, <1>3, <2>1, <2>2 DEF PassShortens
<1>6. CASE Tags!StillOfRebuild(Head(pass)) /\ ~closed /\ Tags!PassJob.body \in Tagless
  <2>1. Tags!PassWrites(Tags!PassJob, "no-candidate") /\ UNCHANGED Tags!parserVars
    BY <1>6 DEF Tags!PassNext
  <2>2. "no-candidate" \in Outcomes /\ ~Tags!Keeps("no-candidate")
    BY DEF Outcomes, Tags!Keeps
  <2>3. PassStored
    BY <1>1, <1>3, <2>1, <2>2, PassWritesFields
  <2> QED
    BY <1>1, <1>3, <2>1, <2>3 DEF PassStores
<1>7. CASE Tags!StillOfRebuild(Head(pass)) /\ ~closed /\ Tags!PassJob.body \notin Tagless
  <2>1. /\ passMode' = "waiting" /\ Tags!Enqueue(queue, Tags!PassJob)
        /\ UNCHANGED <<pass, Tags!indexVars, token>>
    BY <1>7 DEF Tags!PassNext
  <2> QED
    BY <1>1, <1>3, <1>7, <2>1 DEF PassQueues
<1> QED
  BY <1>4, <1>5, <1>6, <1>7

\* The parser is closed: the waiting jobs that are still current write their notes.
Closed ==
    /\ closed' = TRUE /\ queue' = << >> /\ worker' = "none"
    /\ UNCHANGED <<Tags!diskVars, before, active, answer, busy>>
    /\ row' \in [Tags!Notes -> [body : Nat, tags : Nat, how : Outcomes \union {"kept"}]]
    /\ token' \in [Tags!Notes -> Nat] /\ ofRebuild' \subseteq ofRebuild
    /\ \A n \in Tags!Notes :
           \/ /\ \E i \in 1 .. Len(queue) :
                     /\ Tags!Current(queue[i]) /\ queue[i].note = n /\ Stored(row'[n], queue[i])
              /\ token'[n] = Tags!NoToken /\ n \notin ofRebuild'
           \/ /\ \A i \in 1 .. Len(queue) : ~(Tags!Current(queue[i]) /\ queue[i].note = n)
              /\ row'[n] = row[n] /\ token'[n] = token[n]
    /\ \/ UNCHANGED Tags!passVars
       \/ /\ pass' = << >> /\ passMode' = "stopped"
          /\ \E i \in 1 .. Len(queue) : ~Tags!ByWatcher(queue[i])

\* The close settles every waiting job.
LEMMA CloseFields ==
    ASSUME TagTypeOK, Tags!Close
    PROVE  Closed
<1> DEFINE settled == Tags!ToSet(queue)
           writes == {job \in settled : Tags!Current(job)}
           Of(n) == CHOOSE job \in writes : job.note = n
           stored == {job.note : job \in writes}
           ofPass == {job \in settled : ~Tags!ByWatcher(job)}
           Row == [body : Nat, tags : Nat, how : Outcomes \union {"kept"}]
<1>1. /\ queue \in Seq(Job) /\ row \in [Tags!Notes -> Row] /\ token \in [Tags!Notes -> Nat]
  BY DEF TagTypeOK
<1>2. settled = {queue[i] : i \in 1 .. Len(queue)}
  BY <1>1 DEF Tags!ToSet
<1>3. /\ closed' = TRUE /\ queue' = << >> /\ worker' = "none"
      /\ UNCHANGED <<Tags!diskVars, before, active, answer, busy>>
  BY DEF Tags!Close
<1>4. /\ row' = [n \in Tags!Notes |-> IF n \in stored THEN Tags!RowWritten(Of(n), "closed") ELSE row[n]]
      /\ token' = [n \in Tags!Notes |-> IF n \in stored THEN Tags!NoToken ELSE token[n]]
      /\ ofRebuild' = ofRebuild \ stored
      /\ IF ofPass = {} THEN UNCHANGED Tags!passVars ELSE passMode' = "stopped" /\ pass' = << >>
  BY DEF Tags!Close, Tags!Settle, Tags!WatcherWrites, Tags!Keeps
<1>5. \/ UNCHANGED Tags!passVars
      \/ /\ pass' = << >> /\ passMode' = "stopped"
         /\ \E i \in 1 .. Len(queue) : ~Tags!ByWatcher(queue[i])
  BY <1>2, <1>4
<1>6. ASSUME NEW n \in stored
      PROVE  \E i \in 1 .. Len(queue) :
                 Of(n) = queue[i] /\ Tags!Current(queue[i]) /\ queue[i].note = n
  <2>1. \E job \in writes : job.note = n
    BY <1>6
  <2>2. Of(n) \in writes /\ Of(n).note = n
    BY <2>1
  <2> QED
    BY <1>2, <2>2
<1>7. ASSUME NEW n \in Tags!Notes, n \notin stored
      PROVE  \A i \in 1 .. Len(queue) : ~(Tags!Current(queue[i]) /\ queue[i].note = n)
  BY <1>2, <1>7
<1> HIDE DEF settled, writes, Of, stored, ofPass
<1>8. ASSUME NEW n \in Tags!Notes, n \in stored
      PROVE  Stored(row'[n], Of(n))
  <2>1. "closed" \in Outcomes
    BY DEF Outcomes
  <2>2. Of(n) \in Job
    BY <1>1, <1>6, <1>8
  <2>3. Stored(Tags!RowWritten(Of(n), "closed"), Of(n))
    BY <2>1, <2>2, RowWrittenFields
  <2> QED
    BY <1>4, <1>8, <2>3
<1>9. /\ row' \in [Tags!Notes -> Row] /\ token' \in [Tags!Notes -> Nat] /\ ofRebuild' \subseteq ofRebuild
  <2>1. \A n \in Tags!Notes : row'[n] \in Row /\ token'[n] \in Nat
    <3> TAKE n \in Tags!Notes
    <3>1. CASE n \in stored
      <4>1. Stored(row'[n], Of(n))
        BY <1>8, <3>1
      <4> QED
        BY <1>4, <3>1, <4>1 DEF Stored, Tags!NoToken
    <3>2. CASE n \notin stored
      BY <1>1, <1>4, <3>2
    <3> QED
      BY <3>1, <3>2
  <2> HIDE DEF Row
  <2> QED
    BY <1>4, <2>1
<1>10. ASSUME NEW n \in Tags!Notes
       PROVE  \/ /\ \E i \in 1 .. Len(queue) :
                        /\ Tags!Current(queue[i]) /\ queue[i].note = n /\ Stored(row'[n], queue[i])
                 /\ token'[n] = Tags!NoToken /\ n \notin ofRebuild'
              \/ /\ \A i \in 1 .. Len(queue) : ~(Tags!Current(queue[i]) /\ queue[i].note = n)
                 /\ row'[n] = row[n] /\ token'[n] = token[n]
  <2>1. CASE n \in stored
    <3>1. \E i \in 1 .. Len(queue) :
             /\ Tags!Current(queue[i]) /\ queue[i].note = n /\ Stored(row'[n], queue[i])
      BY <1>6, <1>8, <2>1
    <3> QED
      BY <1>4, <2>1, <3>1
  <2>2. CASE n \notin stored
    BY <1>4, <1>7, <2>2
  <2> QED
    BY <2>1, <2>2
<1> QED
  BY <1>3, <1>5, <1>9, <1>10 DEF Closed

\* After the drain loop, the parser is in one of its states.
LEMMA DrainedFields ==
    ASSUME NEW jobs \in Seq(Job), NEW w \in {"none", "starting", "ready"}, Drained(jobs, w),
           closed' = closed, LegalJobs(jobs, passMode', pass')
    PROVE  /\ queue' \in Seq(Job) /\ worker' \in {"none", "starting", "ready"}
           /\ \/ active' = Tags!Idle
              \/ active' \in [job : Job, stage : {"starting", "parsing", "stopping"}]
           /\ ThreadsAreCounted' /\ JobsAreLegal'
<1>1. CASE closed \/ \A i \in 1 .. Len(jobs) : jobs[i].aborted
  <2>1. queue' = << >> /\ active' = Tags!Idle /\ worker' = w /\ busy' = 0 /\ answer' = "none"
    BY <1>1 DEF Drained
  <2>2. queue' \in Seq(Job) /\ Len(queue') = 0
    BY <2>1
  <2>3. ThreadsAreCounted' /\ JobsAreLegal'
    BY <2>1, <2>2 DEF ThreadsAreCounted, JobsAreLegal, LegalJobs
  <2> QED
    BY <2>1, <2>2, <2>3
<1>2. CASE ~(closed \/ \A i \in 1 .. Len(jobs) : jobs[i].aborted)
  <2>1. PICK k \in 1 .. Len(jobs) :
           /\ answer' = "none" /\ ~closed
           /\ queue' \in Seq(Job) /\ Len(queue') = Len(jobs) - k
           /\ \A i \in 1 .. Len(queue') : k + i \in 1 .. Len(jobs) /\ queue'[i] = jobs[k + i]
           /\ active' \in [job : Job, stage : {"starting", "parsing"}] /\ active'.job = jobs[k]
           /\ worker' \in {"starting", "ready"}
           /\ busy' = IF active'.stage = "parsing" THEN 1 ELSE 0
    BY <1>2 DEF Drained
  <2>2. active' /= Tags!Idle /\ active'.stage \in {"starting", "parsing"}
    BY <2>1 DEF Tags!Idle
  <2>3. ThreadsAreCounted'
    BY <2>1, <2>2 DEF ThreadsAreCounted
  <2>4. LegalJobs(queue', passMode', pass')
    <3>1. \A i \in 1 .. Len(queue') : Legal(queue'[i], passMode', pass')
      BY <2>1 DEF LegalJobs
    <3>2. ASSUME NEW i \in 1 .. Len(queue'), NEW j \in 1 .. Len(queue'),
                 ~Tags!ByWatcher(queue'[i]), ~Tags!ByWatcher(queue'[j])
          PROVE  i = j
      <4>1. k + i = k + j
        BY <2>1, <3>2 DEF LegalJobs
      <4> QED
        BY <4>1
    <3> QED
      BY <3>1, <3>2 DEF LegalJobs
  <2>5. Legal(active'.job, passMode', pass')
    BY <2>1 DEF LegalJobs
  <2>6. ~Tags!ByWatcher(active'.job) => \A i \in 1 .. Len(queue') : Tags!ByWatcher(queue'[i])
    BY <2>1 DEF LegalJobs
  <2>7. JobsAreLegal'
    BY <2>1, <2>2, <2>4, <2>5, <2>6 DEF JobsAreLegal
  <2> QED
    BY <2>1, <2>2, <2>3, <2>7
<1> QED
  BY <1>1, <1>2

\* After a job is queued, too.
LEMMA QueuedFields ==
    ASSUME TagTypeOK, ThreadsAreCounted, NEW jobs \in Seq(Job), Enqueued(jobs),
           ~closed, closed' = closed, LegalJobs(jobs, passMode', pass'),
           active /= Tags!Idle =>
               /\ Legal(active.job, passMode', pass')
               /\ ~Tags!ByWatcher(active.job) => \A i \in 1 .. Len(jobs) : Tags!ByWatcher(jobs[i])
    PROVE  /\ queue' \in Seq(Job) /\ worker' \in {"none", "starting", "ready"}
           /\ \/ active' = Tags!Idle
              \/ active' \in [job : Job, stage : {"starting", "parsing", "stopping"}]
           /\ ThreadsAreCounted' /\ JobsAreLegal'
<1>1. CASE active = Tags!Idle
  <2>1. Drained(jobs, worker) /\ worker \in {"none", "starting", "ready"}
    BY <1>1 DEF Enqueued, TagTypeOK
  <2> QED
    BY <2>1, DrainedFields
<1>2. CASE active /= Tags!Idle
  <2>1. queue' = jobs /\ UNCHANGED <<active, worker, answer, busy>>
    BY <1>2 DEF Enqueued, Tags!threadVars
  <2>2. ThreadsAreCounted' /\ JobsAreLegal'
    BY <1>2, <2>1 DEF ThreadsAreCounted, JobsAreLegal
  <2> QED
    BY <2>1, <2>2 DEF TagTypeOK
<1> QED
  BY <1>1, <1>2

\* A job that is in the queue or in a worker.
LEMMA JobsFields ==
    ASSUME queue \in Seq(Job)
    PROVE  \A job : job \in Tags!Jobs <=> \/ \E i \in 1 .. Len(queue) : queue[i] = job
                                          \/ active /= Tags!Idle /\ active.job = job
<1>1. Tags!ToSet(queue) = {queue[i] : i \in 1 .. Len(queue)}
  BY DEF Tags!ToSet
<1> QED
  BY <1>1 DEF Tags!Jobs

\* The same, of the next state.
LEMMA JobsFieldsPrimed ==
    ASSUME queue' \in Seq(Job)
    PROVE  \A job : job \in Tags!Jobs' <=> \/ \E i \in 1 .. Len(queue') : queue'[i] = job
                                           \/ active' /= Tags!Idle /\ active'.job = job
<1>1. Tags!ToSet(queue') = {queue'[i] : i \in 1 .. Len(queue')}
  BY DEF Tags!ToSet
<1> QED
  BY <1>1 DEF Tags!Jobs

\* The drain loop loses no job that is not aborted.
LEMMA DrainedKeeps ==
    ASSUME NEW jobs \in Seq(Job), NEW w, Drained(jobs, w), ~closed,
           NEW i \in 1 .. Len(jobs), ~jobs[i].aborted
    PROVE  queue' \in Seq(Job) /\ jobs[i] \in Tags!Jobs'
<1>1. PICK k \in 1 .. Len(jobs) :
         /\ \A j \in 1 .. Len(jobs) : j < k => jobs[j].aborted
         /\ queue' \in Seq(Job) /\ Len(queue') = Len(jobs) - k
         /\ \A j \in 1 .. Len(queue') : queue'[j] = jobs[k + j]
         /\ active' \in [job : Job, stage : {"starting", "parsing"}] /\ active'.job = jobs[k]
  BY DEF Drained
<1>2. active' /= Tags!Idle
  BY <1>1 DEF Tags!Idle
<1>3. CASE i = k
  BY <1>1, <1>2, <1>3, JobsFieldsPrimed
<1>4. CASE i /= k
  <2>1. ~(i < k)
    BY <1>1
  <2>2. i - k \in 1 .. Len(queue') /\ k + (i - k) = i
    BY <1>1, <1>4, <2>1
  <2>3. queue'[i - k] = jobs[i]
    BY <1>1, <2>2
  <2> QED
    BY <1>1, <2>2, <2>3, JobsFieldsPrimed
<1> QED
  BY <1>3, <1>4

\* Nor does the queueing of one.
LEMMA QueuedKeeps ==
    ASSUME TagTypeOK, NEW jobs \in Seq(Job), Enqueued(jobs), ~closed
    PROVE  /\ \A i \in 1 .. Len(jobs) : ~jobs[i].aborted => jobs[i] \in Tags!Jobs'
           /\ active /= Tags!Idle => active.job \in Tags!Jobs'
<1>1. CASE active = Tags!Idle
  <2>1. Drained(jobs, worker)
    BY <1>1 DEF Enqueued
  <2> QED
    BY <1>1, <2>1, DrainedKeeps
<1>2. CASE active /= Tags!Idle
  <2>1. queue' = jobs /\ active' = active
    BY <1>2 DEF Enqueued
  <2> QED
    BY <1>2, <2>1, JobsFieldsPrimed
<1> QED
  BY <1>1, <1>2

\* A row that a note's removal leaves is right about the missing body.
LEMMA NoRowFields ==
    Tags!NoRow \in [body : Nat, tags : Nat, how : Outcomes \union {"kept"}]
    /\ Tags!NoRow.body = Tags!Gone /\ Tags!NoRow.how = "kept"
  BY DEF Tags!NoRow, Tags!Gone, Tags!NoTags

\* A step that settles no parse and takes none from the queue.
WorkerSteps == Tags!WorkerReady \/ Tags!WorkerAnswers \/ Tags!TimeOut

\* What a step does.
Effects ==
    \/ \E n \in Tags!Notes : NewJob(n) \in Job /\ (ChangeIndexed(n) \/ ChangeQueued(n))
    \/ \E n \in Tags!Notes : Tags!Delete(n)
    \/ PassShortens \/ PassStores
    \/ /\ Tags!PassJob \in Job /\ ~Tags!PassJob.aborted /\ ~Tags!ByWatcher(Tags!PassJob)
       /\ Tags!PassJob.body = 1 /\ Tags!PassJob.note = pass[1] /\ PassQueues
    \/ \E w \in {"none", "starting", "ready"} : Ends(w)
    \/ WorkerSteps
    \/ Closed

\* Every step does one of these.
LEMMA StepEffects ==
    BodyTagsInvariant /\ Tags!Next => Effects
<1> SUFFICES ASSUME BodyTagsInvariant, Tags!Next PROVE Effects
  OBVIOUS
<1>1. TagTypeOK /\ JobsAreLegal /\ RebuildRowsWait /\ ThreadsAreCounted
  BY DEF BodyTagsInvariant
<1>2. ASSUME NEW n \in Tags!Notes, Tags!Change(n) PROVE Effects
  BY <1>1, <1>2, ChangeFields DEF Effects
<1>3. ASSUME NEW n \in Tags!Notes, Tags!Delete(n) PROVE Effects
  BY <1>3 DEF Effects
<1>4. CASE Tags!PassNext
  BY <1>1, <1>4, PassNextFields DEF Effects
<1>5. CASE Tags!WorkerNotReady \/ Tags!HandleReply \/ Tags!WorkerExits \/ Tags!WorkerStopped
  BY <1>1, <1>5, EndsFields DEF Effects
<1>6. CASE WorkerSteps
  BY <1>6 DEF Effects
<1>7. CASE Tags!Close
  BY <1>1, <1>7, CloseFields DEF Effects
<1> QED
  BY <1>2, <1>3, <1>4, <1>5, <1>6, <1>7 DEF Tags!Next, WorkerSteps

-----------------------------------------------------------------------------
(* The index and the pass                                                       *)

Row == [body : Nat, tags : Nat, how : Outcomes \union {"kept"}]

\* What a row that was written says is right.
Right(r) ==
    /\ r.how = "parsed" => r.tags = Tags!TagsOf(r.body)
    /\ r.how \in {"no-candidate", "failed", "over-limit"} => r.tags = Tags!NoTags

\* The index and the pass after a step: rows that were written are right and no longer
\* the rebuild's, and the pass has gone on, past the notes it wrote.
IndexStep ==
    /\ row' \in [Tags!Notes -> Row] /\ ofRebuild' \subseteq ofRebuild /\ before' = before
    /\ token' \in [Tags!Notes -> Nat]
    /\ passMode' \in {"next", "waiting", "stopped"}
    /\ pass' \in Seq(Tags!Notes)
    /\ \E d \in {0, 1} :
           \A i \in 1 .. Len(pass') : i + d \in 1 .. Len(pass) /\ pass'[i] = pass[i + d]
    /\ \A n \in Tags!Notes :
           \/ row'[n] = row[n]
           \/ Right(row'[n]) /\ n \notin ofRebuild'
           \/ /\ Right(row'[n]) /\ row'[n].body = row[n].body
              /\ \A i \in 1 .. Len(pass') : pass'[i] /= n

\* Such a step keeps the tags right, and the rows of the rebuild waiting.
LEMMA IndexStepKeeps ==
    ASSUME TagTypeOK, RebuildRowsWait, Tags!TagsAreOfTheIndexedBody, IndexStep
    PROVE  RebuildRowsWait' /\ Tags!TagsAreOfTheIndexedBody'
<1>1. PICK d \in {0, 1} :
          \A i \in 1 .. Len(pass') : i + d \in 1 .. Len(pass) /\ pass'[i] = pass[i + d]
  BY DEF IndexStep
<1>2. \A i \in 1 .. Len(pass') : pass'[i] \in Tags!Notes
  BY DEF IndexStep
<1>3. ASSUME NEW i \in 1 .. Len(pass'), NEW j \in 1 .. Len(pass'), pass'[i] = pass'[j]
      PROVE  i = j
  <2>1. i + d \in 1 .. Len(pass) /\ j + d \in 1 .. Len(pass) /\ pass[i + d] = pass[j + d]
    BY <1>1, <1>3
  <2>2. i + d = j + d
    BY <2>1 DEF RebuildRowsWait
  <2> QED
    BY <2>2
<1>4. ASSUME NEW n \in ofRebuild'
      PROVE  n \in ofRebuild /\ n \in Tags!Notes /\ row'[n].body = row[n].body
  BY <1>4 DEF IndexStep, TagTypeOK
<1>5. ASSUME NEW i \in 1 .. Len(pass'), pass'[i] \in ofRebuild'
      PROVE  row'[pass'[i]].tags = before'[pass'[i]]
  <2> DEFINE n == pass'[i]
  <2>1. n \in Tags!Notes /\ n \in ofRebuild
    BY <1>2, <1>5 DEF IndexStep
  <2>2. row'[n] = row[n] /\ before' = before
    BY <1>5, <2>1 DEF IndexStep
  <2>3. i + d \in 1 .. Len(pass) /\ n = pass[i + d]
    BY <1>1
  <2>4. row[n].tags = before[n]
    BY <2>1, <2>3 DEF RebuildRowsWait
  <2> QED
    BY <2>2, <2>4
<1>6. RebuildRowsWait'
  BY <1>3, <1>4, <1>5 DEF RebuildRowsWait
<1>7. \A n \in Tags!Notes : Right(row'[n])
  <2>1. \A n \in Tags!Notes : Right(row[n])
    BY DEF Tags!TagsAreOfTheIndexedBody, Right
  <2> QED
    BY <2>1 DEF IndexStep
<1>8. Tags!TagsAreOfTheIndexedBody'
  BY <1>7 DEF Tags!TagsAreOfTheIndexedBody, Right
<1> QED
  BY <1>6, <1>8

\* An index that does not change, and a pass that stays, are such a step.
LEMMA NoIndexStep ==
    ASSUME TagTypeOK, UNCHANGED <<row, ofRebuild, before>>, token' \in [Tags!Notes -> Nat],
           passMode' \in {"next", "waiting", "stopped"}, pass' \in Seq(Tags!Notes),
               NEW d \in {0, 1},
           \A i \in 1 .. Len(pass') : i + d \in 1 .. Len(pass) /\ pass'[i] = pass[i + d]
    PROVE  IndexStep
  BY DEF IndexStep, TagTypeOK, Row

\* So is the write of a note's row.
LEMMA WriteIsIndexStep ==
    ASSUME TagTypeOK, NEW n \in Tags!Notes, NEW r \in Row, Right(r), Writes(n, r),
           before' = before,
           UNCHANGED Tags!passVars
    PROVE  IndexStep
<1>1. /\ row \in [Tags!Notes -> Row] /\ token \in [Tags!Notes -> Nat] /\ pass \in Seq(Tags!Notes)
      /\ passMode \in {"next", "waiting", "stopped"}
  BY DEF TagTypeOK, Row
<1>2. /\ row' = [row EXCEPT ![n] = r] /\ token' = [token EXCEPT ![n] = Tags!NoToken]
      /\ ofRebuild' = ofRebuild \ {n} /\ pass' = pass /\ passMode' = passMode
  BY DEF Writes, Tags!passVars
<1>3. row' \in [Tags!Notes -> Row] /\ token' \in [Tags!Notes -> Nat]
  BY <1>1, <1>2 DEF Tags!NoToken
<1>4. \A m \in Tags!Notes : row'[m] = row[m] \/ (Right(row'[m]) /\ m \notin ofRebuild')
  BY <1>1, <1>2
<1>5. \A i \in 1 .. Len(pass') : i + 0 \in 1 .. Len(pass) /\ pass'[i] = pass[i + 0]
  BY <1>1, <1>2
<1> QED
  BY <1>1, <1>2, <1>3, <1>4, <1>5 DEF IndexStep

\* And the end of a parse of the pass's first note.
LEMMA PassStoredIsIndexStep ==
    ASSUME TagTypeOK, RebuildRowsWait, PassStored, before' = before
    PROVE  IndexStep
<1>1. /\ row' \in [Tags!Notes -> Row] /\ ofRebuild' = ofRebuild /\ token' \in [Tags!Notes -> Nat]
      /\ passMode' = "next" /\ pass' \in Seq(Tags!Notes)
      /\ \A i \in 1 .. Len(pass') : i + 1 \in 1 .. Len(pass) /\ pass'[i] = pass[i + 1]
  BY DEF PassStored, TagTypeOK, Row
<1>2. Len(pass) \in Nat \ {0}
  BY DEF TagTypeOK, PassStored
<1>3. ASSUME NEW i \in 1 .. Len(pass') PROVE pass'[i] /= pass[1]
  <2>1. i + 1 \in 1 .. Len(pass) /\ 1 \in 1 .. Len(pass) /\ i + 1 /= 1
    BY <1>1, <1>2
  <2>2. pass[i + 1] /= pass[1]
    BY <2>1 DEF RebuildRowsWait
  <2> QED
    BY <1>1, <2>2
<1>4. ASSUME NEW n \in Tags!Notes
      PROVE  \/ row'[n] = row[n]
             \/ /\ Right(row'[n]) /\ row'[n].body = row[n].body
                /\ \A i \in 1 .. Len(pass') : pass'[i] /= n
  BY <1>3 DEF PassStored, Right
<1> QED
  BY <1>1, <1>4 DEF IndexStep

\* Every step is.
LEMMA EffectsAreIndexSteps ==
    ASSUME BodyTagsInvariant, Effects
    PROVE  IndexStep
<1>1. TagTypeOK /\ RebuildRowsWait
  BY DEF BodyTagsInvariant
<1>2. /\ row \in [Tags!Notes -> Row] /\ token \in [Tags!Notes -> Nat] /\ pass \in Seq(Tags!Notes)
      /\ passMode \in {"next", "waiting", "stopped"} /\ bodies + 1 \in Nat
  BY <1>1 DEF TagTypeOK, Row
<1>3. \A i \in 1 .. Len(pass) : i + 0 \in 1 .. Len(pass) /\ pass[i] = pass[i + 0]
  BY <1>2
<1>4. \A r, job : Stored(r, job) => r \in Row /\ Right(r)
  BY DEF Stored, Row, Right
<1>5. ASSUME NEW n \in Tags!Notes, ChangeIndexed(n) PROVE IndexStep
  <2>1. PICK r : Stored(r, NewJob(n)) /\ Writes(n, r)
    BY <1>5 DEF ChangeIndexed
  <2>2. before' = before /\ UNCHANGED Tags!passVars
    BY <1>5 DEF ChangeIndexed, Changed
  <2> QED
    BY <1>1, <1>4, <2>1, <2>2, WriteIsIndexStep
<1>6. ASSUME NEW n \in Tags!Notes, ChangeQueued(n) PROVE IndexStep
  <2>1. /\ UNCHANGED <<row, ofRebuild, before, pass, passMode>>
        /\ token' = [token EXCEPT ![n] = bodies + 1]
    BY <1>6 DEF ChangeQueued, Changed, Tags!indexVars, Tags!passVars
  <2>2. token' \in [Tags!Notes -> Nat]
    BY <1>2, <2>1
  <2> QED
    BY <1>1, <1>2, <1>3, <2>1, <2>2, NoIndexStep
<1>7. ASSUME NEW n \in Tags!Notes, Tags!Delete(n) PROVE IndexStep
  <2>1. Writes(n, Tags!NoRow) /\ before' = before /\ UNCHANGED Tags!passVars
    BY <1>7 DEF Tags!Delete, Writes
  <2>2. Tags!NoRow \in Row /\ Right(Tags!NoRow)
    BY NoRowFields DEF Row, Right
  <2> QED
    BY <1>1, <2>1, <2>2, WriteIsIndexStep
<1>8. CASE PassShortens
  <2>1. /\ UNCHANGED <<row, ofRebuild, before, token>> /\ passMode' \in {"next", "stopped"}
        /\ pass' \in Seq(Tags!Notes)
        /\ \A i \in 1 .. Len(pass') : i + 1 \in 1 .. Len(pass) /\ pass'[i] = pass[i + 1]
    BY <1>8 DEF PassShortens, Tags!indexVars
  <2> QED
    BY <1>1, <1>2, <2>1, NoIndexStep
<1>9. CASE PassStores
  BY <1>1, <1>9, PassStoredIsIndexStep DEF PassStores
<1>10. CASE PassQueues
  <2>1. UNCHANGED <<row, ofRebuild, before, token, pass>> /\ passMode' = "waiting"
    BY <1>10 DEF PassQueues, Tags!indexVars
  <2> QED
    BY <1>1, <1>2, <1>3, <2>1, NoIndexStep
<1>11. ASSUME NEW w, Ends(w) PROVE IndexStep
  <2> DEFINE job == active.job
  <2>1. job \in Job /\ Settled(job) /\ before' = before
    BY <1>11 DEF Ends
  <2>2. job.note \in Tags!Notes
    BY <2>1 DEF Job
  <2> HIDE DEF job
  <2>3. CASE Tags!Current(job) /\ UNCHANGED Tags!passVars
             /\ \E r : Stored(r, job) /\ Writes(job.note, r)
    BY <1>1, <1>4, <2>1, <2>2, <2>3, WriteIsIndexStep
  <2>4. CASE UNCHANGED <<Tags!indexVars, token>> /\ UNCHANGED Tags!passVars
    <3>1. UNCHANGED <<row, ofRebuild, before, token, pass, passMode>>
      BY <2>1, <2>4 DEF Tags!indexVars, Tags!passVars
    <3> QED
      BY <1>1, <1>2, <1>3, <3>1, NoIndexStep
  <2>5. CASE UNCHANGED <<Tags!indexVars, token>> /\ pass' = << >> /\ passMode' = "stopped"
    <3>1. UNCHANGED <<row, ofRebuild, before, token>>
      BY <2>1, <2>5 DEF Tags!indexVars
    <3>2. pass' \in Seq(Tags!Notes) /\ \A i \in 1 .. Len(pass') : FALSE
      BY <2>5
    <3> QED
      BY <1>1, <1>2, <2>5, <3>1, <3>2, NoIndexStep
  <2>6. CASE PassStored
    BY <1>1, <2>1, <2>6, PassStoredIsIndexStep
  <2> QED
    BY <2>1, <2>3, <2>4, <2>5, <2>6 DEF Settled
<1>12. CASE WorkerSteps
  <2>1. UNCHANGED <<row, ofRebuild, before, token, pass, passMode>>
    BY <1>12 DEF WorkerSteps, Tags!WorkerReady, Tags!WorkerAnswers, Tags!TimeOut,
        Tags!indexVars, Tags!passVars
  <2> QED
    BY <1>1, <1>2, <1>3, <2>1, NoIndexStep
<1>13. CASE Closed
  <2>1. /\ row' \in [Tags!Notes -> Row] /\ token' \in [Tags!Notes -> Nat] /\ ofRebuild' \subseteq ofRebuild
        /\ before' = before
    BY <1>13 DEF Closed, Row
  <2>2. \A n \in Tags!Notes : row'[n] = row[n] \/ (Right(row'[n]) /\ n \notin ofRebuild')
    BY <1>4, <1>13 DEF Closed
  <2>3. /\ passMode' \in {"next", "waiting", "stopped"} /\ pass' \in Seq(Tags!Notes)
        /\ \A i \in 1 .. Len(pass') : i + 0 \in 1 .. Len(pass) /\ pass'[i] = pass[i + 0]
    <3>1. CASE UNCHANGED Tags!passVars
      BY <1>2, <1>3, <3>1 DEF Tags!passVars
    <3>2. CASE pass' = << >> /\ passMode' = "stopped"
      BY <3>2
    <3> QED
      BY <1>13, <3>1, <3>2 DEF Closed
  <2> QED
    BY <2>1, <2>2, <2>3 DEF IndexStep
<1> QED
  BY <1>5, <1>6, <1>7, <1>8, <1>9, <1>10, <1>11, <1>12, <1>13 DEF Effects

-----------------------------------------------------------------------------
(* The parser                                                                   *)

\* The parser is in one of its states after a step: jobs are legal, threads counted.
ParserStep ==
    /\ saved' \in [Tags!Notes -> Nat] /\ bodies' \in Nat \ {0} /\ closed' \in BOOLEAN
    /\ queue' \in Seq(Job) /\ worker' \in {"none", "starting", "ready"}
    /\ \/ active' = Tags!Idle
       \/ active' \in [job : Job, stage : {"starting", "parsing", "stopping"}]
    /\ ThreadsAreCounted' /\ JobsAreLegal'

\* What a counted thread's variables are.
LEMMA CountedTypes ==
    ASSUME TagTypeOK, ThreadsAreCounted', answer' \in {"none", "parsed", "failed"}
    PROVE  busy' \in Nat
  BY DEF ThreadsAreCounted

\* The queue with a note's waiting parses aborted is as legal as it was.
LEMMA AbortedLegal ==
    ASSUME TagTypeOK, LegalJobs(queue, passMode, pass), NEW n \in Tags!Notes
    PROVE  LegalJobs(Tags!Aborted(n), passMode, pass)
<1> DEFINE jobs == Tags!Aborted(n)
<1>1. Len(jobs) = Len(queue)
  BY AbortedFields
<1>2. ASSUME NEW i \in 1 .. Len(queue)
      PROVE  /\ jobs[i].note = queue[i].note /\ jobs[i].body = queue[i].body
             /\ jobs[i].token = queue[i].token
             /\ ~Tags!ByWatcher(queue[i]) => (jobs[i].aborted <=> queue[i].aborted)
             /\ Tags!ByWatcher(jobs[i]) <=> Tags!ByWatcher(queue[i])
  BY AbortedFields DEF Tags!ByWatcher
<1> HIDE DEF jobs
<1>3. ASSUME NEW i \in 1 .. Len(jobs) PROVE Legal(jobs[i], passMode, pass)
  <2>1. Legal(queue[i], passMode, pass)
    BY <1>1 DEF LegalJobs
  <2> QED
    BY <1>1, <1>2, <2>1 DEF Legal
<1>4. ASSUME NEW i \in 1 .. Len(jobs), NEW j \in 1 .. Len(jobs),
             ~Tags!ByWatcher(jobs[i]), ~Tags!ByWatcher(jobs[j])
      PROVE  i = j
  <2>1. ~Tags!ByWatcher(queue[i]) /\ ~Tags!ByWatcher(queue[j])
    BY <1>1, <1>2, <1>4
  <2> QED
    BY <1>1, <2>1 DEF LegalJobs
<1> QED
  BY <1>3, <1>4 DEF LegalJobs, jobs

\* Jobs with one more of the watcher's, or the pass's one, are legal.
LEMMA ExtendedLegal ==
    ASSUME NEW jobs, NEW base \in Seq(Job), NEW job, NEW mode, NEW left,
           Extended(jobs, base, job), LegalJobs(base, mode, left), Legal(job, mode, left),
           Tags!ByWatcher(job) \/ \A i \in 1 .. Len(base) : Tags!ByWatcher(base[i])
    PROVE  LegalJobs(jobs, mode, left)
<1>1. Len(base) \in Nat
  OBVIOUS
<1>2. \A i \in 1 .. Len(jobs) : i \in 1 .. Len(base) \/ i = Len(base) + 1
  BY <1>1 DEF Extended
<1> QED
  BY <1>1, <1>2 DEF Extended, LegalJobs

\* Jobs of the watcher are legal whatever the pass does.
LEMMA WatcherJobsLegal ==
    ASSUME NEW jobs, NEW mode, NEW left, NEW mode2, NEW left2, LegalJobs(jobs, mode, left),
           \A i \in 1 .. Len(jobs) : Tags!ByWatcher(jobs[i])
    PROVE  LegalJobs(jobs, mode2, left2)
  BY DEF LegalJobs, Legal

\* Every step leaves the parser in one of its states.
LEMMA EffectsAreParserSteps ==
    ASSUME BodyTagsInvariant, Effects
    PROVE  ParserStep
<1>1. TagTypeOK /\ JobsAreLegal /\ ThreadsAreCounted
  BY DEF BodyTagsInvariant
<1>2. /\ queue \in Seq(Job) /\ bodies \in Nat \ {0} /\ saved \in [Tags!Notes -> Nat]
      /\ closed \in BOOLEAN /\ worker \in {"none", "starting", "ready"}
      /\ \/ active = Tags!Idle
         \/ active \in [job : Job, stage : {"starting", "parsing", "stopping"}]
  BY <1>1 DEF TagTypeOK
<1>3. /\ LegalJobs(queue, passMode, pass)
      /\ active /= Tags!Idle => Legal(active.job, passMode, pass)
      /\ active /= Tags!Idle /\ ~Tags!ByWatcher(active.job) =>
             \A i \in 1 .. Len(queue) : Tags!ByWatcher(queue[i])
      /\ active = Tags!Idle => queue = << >>
      /\ closed => queue = << >>
  BY <1>1 DEF JobsAreLegal
<1>4. ASSUME NEW n \in Tags!Notes, queue' = Tags!Aborted(n),
             UNCHANGED <<active, Tags!threadVars, Tags!passVars, closed>>
      PROVE  /\ queue' \in Seq(Job) /\ worker' \in {"none", "starting", "ready"}
             /\ \/ active' = Tags!Idle
                \/ active' \in [job : Job, stage : {"starting", "parsing", "stopping"}]
             /\ ThreadsAreCounted' /\ JobsAreLegal'
  <2>1. UNCHANGED <<active, worker, answer, busy, pass, passMode, closed>>
    BY <1>4 DEF Tags!threadVars, Tags!passVars
  <2>2. LegalJobs(queue', passMode', pass')
    BY <1>1, <1>3, <1>4, <2>1, AbortedLegal
  <2>3. /\ queue' \in Seq(Job) /\ Len(queue') = Len(queue)
        /\ \A i \in 1 .. Len(queue) : Tags!ByWatcher(queue'[i]) <=> Tags!ByWatcher(queue[i])
    BY <1>1, <1>4, AbortedFields DEF Tags!ByWatcher
  <2>4. queue = << >> => queue' = << >>
    BY <1>2, <2>3
  <2>5. JobsAreLegal'
    BY <1>3, <2>1, <2>2, <2>3, <2>4 DEF JobsAreLegal
  <2>6. ThreadsAreCounted'
    BY <1>1, <2>1 DEF ThreadsAreCounted
  <2> QED
    BY <1>2, <2>1, <2>3, <2>5, <2>6
<1>5. ASSUME NEW n \in Tags!Notes, ChangeIndexed(n) PROVE ParserStep
  <2>1. /\ saved' = [saved EXCEPT ![n] = bodies + 1] /\ bodies' = bodies + 1
        /\ UNCHANGED <<active, Tags!threadVars, Tags!passVars, closed>> /\ queue' = Tags!Aborted(n)
    BY <1>5 DEF ChangeIndexed, Changed
  <2> QED
    BY <1>2, <1>4, <2>1 DEF ParserStep
<1>6. ASSUME NEW n \in Tags!Notes, NewJob(n) \in Job, ChangeQueued(n) PROVE ParserStep
  <2>1. /\ saved' = [saved EXCEPT ![n] = bodies + 1] /\ bodies' = bodies + 1
        /\ UNCHANGED <<pass, passMode, closed>> /\ ~closed
        /\ Tags!Enqueue(Tags!Aborted(n), NewJob(n))
    BY <1>6 DEF ChangeQueued, Changed, Tags!passVars
  <2>2. Tags!Aborted(n) \in Seq(Job) /\ Len(Tags!Aborted(n)) = Len(queue)
    BY <1>1, AbortedFields
  <2>3. PICK jobs : Extended(jobs, Tags!Aborted(n), NewJob(n)) /\ Enqueued(jobs)
    BY <1>1, <1>6, <2>1, <2>2, EnqueuedFields
  <2>4. Tags!ByWatcher(NewJob(n)) /\ Legal(NewJob(n), passMode, pass)
    BY <1>2 DEF NewJob, Tags!ByWatcher, Tags!PassToken, Legal
  <2>5. LegalJobs(jobs, passMode', pass')
    BY <1>1, <1>3, <2>1, <2>2, <2>3, <2>4, AbortedLegal, ExtendedLegal
  <2>6. jobs \in Seq(Job)
    BY <2>3 DEF Extended
  <2>7. ASSUME active /= Tags!Idle, ~Tags!ByWatcher(active.job), NEW i \in 1 .. Len(jobs)
        PROVE  Tags!ByWatcher(jobs[i])
    <3>1. CASE i = Len(queue) + 1
      BY <2>2, <2>3, <2>4, <3>1 DEF Extended
    <3>2. CASE i /= Len(queue) + 1
      <4>1. i \in 1 .. Len(queue)
        BY <1>2, <2>2, <2>3, <3>2 DEF Extended
      <4>2. Tags!ByWatcher(queue[i]) /\ jobs[i] = Tags!Aborted(n)[i]
        BY <1>3, <2>2, <2>3, <2>7, <4>1 DEF Extended
      <4> QED
        BY <1>1, <4>1, <4>2, AbortedFields DEF Tags!ByWatcher
    <3> QED
      BY <3>1, <3>2
  <2>8. /\ queue' \in Seq(Job) /\ worker' \in {"none", "starting", "ready"}
        /\ \/ active' = Tags!Idle
           \/ active' \in [job : Job, stage : {"starting", "parsing", "stopping"}]
        /\ ThreadsAreCounted' /\ JobsAreLegal'
    BY <1>1, <1>3, <2>1, <2>3, <2>5, <2>6, <2>7, QueuedFields
  <2> QED
    BY <1>2, <2>1, <2>8 DEF ParserStep
<1>7. ASSUME NEW n \in Tags!Notes, Tags!Delete(n) PROVE ParserStep
  <2>1. /\ saved' = [saved EXCEPT ![n] = Tags!Gone] /\ bodies' = bodies
        /\ UNCHANGED <<active, Tags!threadVars, Tags!passVars, closed>> /\ queue' = Tags!Aborted(n)
    BY <1>7 DEF Tags!Delete
  <2> QED
    BY <1>2, <1>4, <2>1 DEF ParserStep, Tags!Gone
<1>8. ASSUME UNCHANGED <<Tags!parserVars, Tags!diskVars, closed>>, passMode /= "waiting"
      PROVE  ParserStep
  <2>1. UNCHANGED <<queue, active, worker, answer, busy, saved, bodies, closed>>
    BY <1>8 DEF Tags!parserVars, Tags!threadVars, Tags!diskVars
  <2>2. \A i \in 1 .. Len(queue) : Tags!ByWatcher(queue[i])
    BY <1>3, <1>8 DEF LegalJobs, Legal
  <2>3. active /= Tags!Idle => Tags!ByWatcher(active.job)
    BY <1>3, <1>8 DEF Legal
  <2>4. LegalJobs(queue', passMode', pass')
    BY <1>3, <2>1, <2>2, WatcherJobsLegal
  <2>5. active' /= Tags!Idle => Legal(active'.job, passMode', pass')
    BY <1>3, <2>1, <2>3 DEF Legal
  <2>6. JobsAreLegal'
    BY <1>3, <2>1, <2>2, <2>4, <2>5 DEF JobsAreLegal
  <2>7. ThreadsAreCounted'
    BY <1>1, <2>1 DEF ThreadsAreCounted
  <2> QED
    BY <1>2, <2>1, <2>6, <2>7 DEF ParserStep
<1>9. CASE PassShortens \/ PassStores
  BY <1>8, <1>9 DEF PassShortens, PassStores
<1>10. ASSUME Tags!PassJob \in Job, ~Tags!PassJob.aborted, ~Tags!ByWatcher(Tags!PassJob),
               Tags!PassJob.body = 1,
              Tags!PassJob.note = pass[1], PassQueues
       PROVE  ParserStep
  <2>1. /\ passMode = "next" /\ passMode' = "waiting" /\ ~closed /\ pass /= << >>
        /\ Tags!Enqueue(queue, Tags!PassJob) /\ UNCHANGED <<saved, bodies, pass, closed>>
    BY <1>10 DEF PassQueues, Tags!diskVars
  <2>2. PICK jobs : Extended(jobs, queue, Tags!PassJob) /\ Enqueued(jobs)
    BY <1>1, <1>2, <1>10, <2>1, EnqueuedFields
  <2>3. \A i \in 1 .. Len(queue) : Tags!ByWatcher(queue[i])
    BY <1>3, <2>1 DEF LegalJobs, Legal
  <2>4. active /= Tags!Idle => Tags!ByWatcher(active.job) /\ Legal(active.job, passMode', pass')
    BY <1>3, <2>1 DEF Legal
  <2>5. Legal(Tags!PassJob, passMode', pass')
    BY <1>10, <2>1 DEF Legal
  <2>6. LegalJobs(queue, passMode', pass')
    BY <1>3, <2>3, WatcherJobsLegal
  <2>7. LegalJobs(jobs, passMode', pass')
    BY <1>2, <2>2, <2>3, <2>5, <2>6, ExtendedLegal
  <2>8. jobs \in Seq(Job)
    BY <2>2 DEF Extended
  <2>9. /\ queue' \in Seq(Job) /\ worker' \in {"none", "starting", "ready"}
        /\ \/ active' = Tags!Idle
           \/ active' \in [job : Job, stage : {"starting", "parsing", "stopping"}]
        /\ ThreadsAreCounted' /\ JobsAreLegal'
    BY <1>1, <2>1, <2>2, <2>4, <2>7, <2>8, QueuedFields
  <2> QED
    BY <1>2, <2>1, <2>9 DEF ParserStep
<1>11. ASSUME NEW w \in {"none", "starting", "ready"}, Ends(w) PROVE ParserStep
  <2>1. /\ active /= Tags!Idle /\ Settled(active.job) /\ Drained(queue, w)
        /\ UNCHANGED <<saved, bodies, closed>>
    BY <1>11 DEF Ends, Tags!diskVars
  <2>2. LegalJobs(queue, passMode', pass')
    <3>1. CASE Tags!ByWatcher(active.job)
      <4>1. UNCHANGED <<pass, passMode>>
        BY <2>1, <3>1 DEF Settled, Tags!Current, Tags!passVars
      <4> QED
        BY <1>3, <4>1
    <3>2. CASE ~Tags!ByWatcher(active.job)
      BY <1>3, <2>1, <3>2, WatcherJobsLegal
    <3> QED
      BY <3>1, <3>2
  <2>3. /\ queue' \in Seq(Job) /\ worker' \in {"none", "starting", "ready"}
        /\ \/ active' = Tags!Idle
           \/ active' \in [job : Job, stage : {"starting", "parsing", "stopping"}]
        /\ ThreadsAreCounted' /\ JobsAreLegal'
    BY <1>2, <2>1, <2>2, DrainedFields
  <2> QED
    BY <1>2, <2>1, <2>3 DEF ParserStep
<1>12. CASE WorkerSteps
  <2>1. UNCHANGED <<saved, bodies, closed, queue, pass, passMode>>
    BY <1>12 DEF WorkerSteps, Tags!WorkerReady, Tags!WorkerAnswers, Tags!TimeOut, Tags!diskVars,
        Tags!passVars
  <2>2. /\ active /= Tags!Idle /\ active' /= Tags!Idle /\ active'.job = active.job
        /\ active' \in [job : Job, stage : {"starting", "parsing", "stopping"}]
        /\ worker' \in {"none", "starting", "ready"}
        /\ ThreadsAreCounted'
    <3>1. CASE Tags!WorkerReady
      <4>1. /\ active.stage = "starting" /\ active' = [active EXCEPT !.stage = "parsing"]
            /\ worker' = "ready" /\ busy' = busy + 1 /\ answer' = answer
        BY <3>1 DEF Tags!WorkerReady, Tags!At
      <4>2. active \in [job : Job, stage : {"starting", "parsing", "stopping"}] /\ active /= Tags!Idle
        BY <1>2, <4>1 DEF Tags!Idle
      <4>3. /\ active' \in [job : Job, stage : {"starting", "parsing", "stopping"}]
            /\ active'.job = active.job /\ active'.stage = "parsing"
        BY <4>1, <4>2
      <4>4. active' /= Tags!Idle
        BY <4>3 DEF Tags!Idle
      <4>5. busy = 0 /\ answer = "none"
        BY <1>1, <4>1 DEF ThreadsAreCounted
      <4> QED
        BY <4>1, <4>2, <4>3, <4>4, <4>5 DEF ThreadsAreCounted
    <3>2. CASE Tags!WorkerAnswers
      <4>1. /\ active.stage \in {"parsing", "stopping"} /\ active' = active
            /\ worker' = worker /\ busy' = busy - 1 /\ answer = "none" /\ answer' /= "none"
        BY <3>2 DEF Tags!WorkerAnswers, Tags!At
      <4>2. active \in [job : Job, stage : {"starting", "parsing", "stopping"}] /\ active /= Tags!Idle
        BY <1>2, <4>1 DEF Tags!Idle
      <4>3. busy = 1
        BY <1>1, <4>1, <4>2 DEF ThreadsAreCounted
      <4> QED
        BY <1>2, <4>1, <4>2, <4>3 DEF ThreadsAreCounted
    <3>3. CASE Tags!TimeOut
      <4>1. /\ active.stage = "parsing" /\ active' = [active EXCEPT !.stage = "stopping"]
            /\ worker' = "none" /\ busy' = busy /\ answer' = answer
        BY <3>3 DEF Tags!TimeOut, Tags!At
      <4>2. active \in [job : Job, stage : {"starting", "parsing", "stopping"}] /\ active /= Tags!Idle
        BY <1>2, <4>1 DEF Tags!Idle
      <4>3. /\ active' \in [job : Job, stage : {"starting", "parsing", "stopping"}]
            /\ active'.job = active.job /\ active'.stage = "stopping"
        BY <4>1, <4>2
      <4>4. active' /= Tags!Idle
        BY <4>3 DEF Tags!Idle
      <4> QED
        BY <1>1, <4>1, <4>2, <4>3, <4>4 DEF ThreadsAreCounted
    <3> QED
      BY <1>12, <3>1, <3>2, <3>3 DEF WorkerSteps
  <2>3. JobsAreLegal'
    BY <1>3, <2>1, <2>2 DEF JobsAreLegal
  <2> QED
    BY <1>2, <2>1, <2>2, <2>3 DEF ParserStep
<1>13. CASE Closed
  <2>1. /\ closed' = TRUE /\ queue' = << >> /\ worker' = "none"
        /\ UNCHANGED <<saved, bodies, active, answer, busy>>
        /\ \/ UNCHANGED <<pass, passMode>>
           \/ \E i \in 1 .. Len(queue) : ~Tags!ByWatcher(queue[i])
    BY <1>13 DEF Closed, Tags!diskVars, Tags!passVars
  <2>2. queue' \in Seq(Job) /\ Len(queue') = 0
    BY <2>1
  <2>3. active' /= Tags!Idle => Legal(active'.job, passMode', pass')
    BY <1>3, <2>1 DEF Legal
  <2>4. JobsAreLegal'
    BY <2>1, <2>2, <2>3 DEF JobsAreLegal, LegalJobs
  <2>5. ThreadsAreCounted'
    BY <1>1, <2>1 DEF ThreadsAreCounted
  <2> QED
    BY <1>2, <2>1, <2>2, <2>4, <2>5 DEF ParserStep
<1> QED
  BY <1>5, <1>6, <1>7, <1>9, <1>10, <1>11, <1>12, <1>13 DEF Effects

\* The worker's answer is one of the replies.
LEMMA EffectsKeepAnswers ==
    ASSUME TagTypeOK, Effects
    PROVE  answer' \in {"none", "parsed", "failed"}
<1>1. ASSUME answer' \in {answer, "none"} PROVE answer' \in {"none", "parsed", "failed"}
  BY <1>1 DEF TagTypeOK
<1>2. ASSUME NEW n \in Tags!Notes, ChangeIndexed(n) PROVE answer' \in {answer, "none"}
  BY <1>2 DEF ChangeIndexed, Tags!threadVars
<1>3. ASSUME NEW base, NEW job, Tags!Enqueue(base, job) PROVE answer' \in {answer, "none"}
  BY <1>3 DEF Tags!Enqueue, Tags!Drain, Tags!threadVars
<1>4. ASSUME NEW n \in Tags!Notes, ChangeQueued(n) PROVE answer' \in {answer, "none"}
  BY <1>3, <1>4 DEF ChangeQueued
<1>5. ASSUME NEW n \in Tags!Notes, Tags!Delete(n) PROVE answer' \in {answer, "none"}
  BY <1>5 DEF Tags!Delete, Tags!threadVars
<1>6. CASE PassShortens \/ PassStores
  BY <1>1, <1>6 DEF PassShortens, PassStores, Tags!parserVars, Tags!threadVars
<1>7. CASE PassQueues
  BY <1>1, <1>3, <1>7 DEF PassQueues
<1>8. ASSUME NEW w, Ends(w) PROVE answer' \in {answer, "none"}
  BY <1>8 DEF Ends, Drained
<1>9. CASE WorkerSteps
  BY <1>1, <1>9 DEF WorkerSteps, Tags!WorkerReady, Tags!WorkerAnswers, Tags!TimeOut
<1>10. CASE Closed
  BY <1>1, <1>10 DEF Closed
<1> QED
  BY <1>1, <1>2, <1>4, <1>5, <1>6, <1>7, <1>8, <1>9, <1>10 DEF Effects

-----------------------------------------------------------------------------
(* The latest bodies                                                            *)

\* A job that will write the latest body of its note.
Waits(n, job) ==
    job \in Tags!Jobs /\ job.note = n /\ job.body = saved[n] /\ Tags!Current(job) /\ ~job.aborted

\* A note whose latest body is in its row or queued, or whose job stays, is not lost.
Kept(n) ==
    \/ row'[n].body = saved'[n]
    \/ \E job \in Tags!Jobs' : /\ job.note = n /\ job.body = saved'[n] /\ Tags!ByWatcher(job)
                               /\ token'[n] = job.token /\ ~job.aborted
    \/ /\ row'[n].body = row[n].body /\ saved'[n] = saved[n] /\ token'[n] = token[n]
       /\ \A job : Waits(n, job) =>
              \E other \in Tags!Jobs' : /\ other.note = n /\ other.body = job.body
                                        /\ other.token = job.token /\ ~other.aborted

\* Such a note has its body in its row or on its way after the step.
LEMMA KeptIsOnItsWay ==
    ASSUME Tags!LatestBodyIsOnItsWay, NEW n \in Tags!Notes, Kept(n)
    PROVE  \/ row'[n].body = saved'[n]
           \/ \E job \in Tags!Jobs' : /\ job.note = n /\ job.body = saved'[n]
                                      /\ Tags!ByWatcher(job) /\ token'[job.note] = job.token
                                      /\ ~job.aborted
<1>1. CASE row'[n].body = saved'[n] \/ row[n].body = saved[n]
  BY <1>1 DEF Kept
<1>2. CASE \E job \in Tags!Jobs' : /\ job.note = n /\ job.body = saved'[n] /\ Tags!ByWatcher(job)
                                   /\ token'[n] = job.token /\ ~job.aborted
  BY <1>2
<1>3. CASE /\ row'[n].body = row[n].body /\ saved'[n] = saved[n] /\ token'[n] = token[n]
           /\ \A job : Waits(n, job) =>
                  \E other \in Tags!Jobs' : /\ other.note = n /\ other.body = job.body
                                            /\ other.token = job.token /\ ~other.aborted
           /\ row[n].body /= saved[n]
  <2>1. PICK job : Waits(n, job)
    BY <1>3 DEF Tags!LatestBodyIsOnItsWay, Waits
  <2>2. PICK other \in Tags!Jobs' : /\ other.note = n /\ other.body = job.body
                                    /\ other.token = job.token /\ ~other.aborted
    BY <1>3, <2>1
  <2>3. saved'[n] = saved[n] /\ token'[n] = token[n]
    BY <1>3
  <2>4. Tags!ByWatcher(other) /\ token'[n] = other.token /\ other.body = saved'[n]
    BY <2>1, <2>2, <2>3 DEF Waits, Tags!Current, Tags!ByWatcher
  <2> QED
    BY <2>2, <2>4
<1> QED
  BY <1>1, <1>2, <1>3 DEF Kept

\* A current job has its note's latest body.
LEMMA CurrentIsLatest ==
    ASSUME TagTypeOK, TokensAreLatest, NEW job \in Job, Legal(job, passMode, pass),
           Tags!Current(job)
    PROVE  job.note \in Tags!Notes /\ job.body = saved[job.note]
  BY DEF Tags!Current, Legal, Tags!ByWatcher, Tags!PassToken, Tags!NoToken, TokensAreLatest, Job

\* No step loses a note's latest body.
LEMMA EffectsKeepBodies ==
    ASSUME BodyTagsInvariant, Effects, NEW m \in Tags!Notes
    PROVE  Kept(m)
<1>1. TagTypeOK /\ JobsAreLegal /\ ThreadsAreCounted /\ TokensAreLatest
  BY DEF BodyTagsInvariant
<1>2. /\ queue \in Seq(Job) /\ saved \in [Tags!Notes -> Nat] /\ token \in [Tags!Notes -> Nat]
      /\ row \in [Tags!Notes -> Row] /\ bodies \in Nat
  BY <1>1 DEF TagTypeOK, Row
<1>3. /\ \A job : job \in Tags!Jobs <=> \/ \E i \in 1 .. Len(queue) : queue[i] = job
                                        \/ active /= Tags!Idle /\ active.job = job
      /\ queue' \in Seq(Job)
      /\ \A job : job \in Tags!Jobs' <=> \/ \E i \in 1 .. Len(queue') : queue'[i] = job
                                         \/ active' /= Tags!Idle /\ active'.job = job
  <2>1. queue' \in Seq(Job)
    BY EffectsAreParserSteps DEF ParserStep
  <2> QED
    BY <1>2, <2>1, JobsFields, JobsFieldsPrimed
<1>4. ASSUME NEW n \in Tags!Notes, n /= m, queue' = Tags!Aborted(n), active' = active,
             NEW job, Waits(m, job)
      PROVE  \E other \in Tags!Jobs' : /\ other.note = m /\ other.body = job.body
                                       /\ other.token = job.token /\ ~other.aborted
  <2>1. CASE active /= Tags!Idle /\ active.job = job
    BY <1>3, <1>4, <2>1 DEF Waits
  <2>2. ASSUME NEW i \in 1 .. Len(queue), queue[i] = job
        PROVE  \E other \in Tags!Jobs' : /\ other.note = m /\ other.body = job.body
                                         /\ other.token = job.token /\ ~other.aborted
    <3>1. /\ i \in 1 .. Len(queue') /\ queue'[i].note = m /\ queue'[i].body = job.body
          /\ queue'[i].token = job.token /\ ~queue'[i].aborted
      BY <1>1, <1>4, <2>2, AbortedFields DEF Waits
    <3> QED
      BY <1>3, <3>1
  <2> QED
    BY <1>3, <1>4, <2>1, <2>2 DEF Waits
<1>5. ASSUME NEW n \in Tags!Notes, ChangeIndexed(n) PROVE Kept(m)
  <2>1. PICK r : Stored(r, NewJob(n)) /\ Writes(n, r)
    BY <1>5 DEF ChangeIndexed
  <2>2. /\ saved' = [saved EXCEPT ![n] = bodies + 1]
        /\ queue' = Tags!Aborted(n) /\ active' = active
    BY <1>5 DEF ChangeIndexed, Changed
  <2>3. CASE m = n
    <3>1. row'[m] = r /\ r.body = bodies + 1 /\ saved'[m] = bodies + 1
      BY <1>2, <2>1, <2>2, <2>3 DEF Writes, Stored, NewJob
    <3> QED
      BY <3>1 DEF Kept
  <2>4. CASE m /= n
    <3>1. row'[m] = row[m] /\ token'[m] = token[m] /\ saved'[m] = saved[m]
      BY <1>2, <2>1, <2>2, <2>4 DEF Writes
    <3> QED
      BY <1>4, <2>2, <2>4, <3>1 DEF Kept
  <2> QED
    BY <2>3, <2>4
<1>6. ASSUME NEW n \in Tags!Notes, Tags!Delete(n) PROVE Kept(m)
  <2>1. /\ row' = [row EXCEPT ![n] = Tags!NoRow] /\ token' = [token EXCEPT ![n] = Tags!NoToken]
        /\ saved' = [saved EXCEPT ![n] = Tags!Gone] /\ queue' = Tags!Aborted(n) /\ active' = active
    BY <1>6 DEF Tags!Delete
  <2>2. CASE m = n
    <3>1. row'[m].body = saved'[m]
      BY <1>2, <2>1, <2>2, NoRowFields
    <3> QED
      BY <3>1 DEF Kept
  <2>3. CASE m /= n
    <3>1. row'[m] = row[m] /\ token'[m] = token[m] /\ saved'[m] = saved[m]
      BY <1>2, <2>1, <2>3
    <3> QED
      BY <1>4, <2>1, <2>3, <3>1 DEF Kept
  <2> QED
    BY <2>2, <2>3
<1>7. ASSUME NEW n \in Tags!Notes, NewJob(n) \in Job, ChangeQueued(n) PROVE Kept(m)
  <2>1. /\ saved' = [saved EXCEPT ![n] = bodies + 1] /\ ~closed
        /\ token' = [token EXCEPT ![n] = bodies + 1] /\ row' = row
        /\ Tags!Enqueue(Tags!Aborted(n), NewJob(n))
    BY <1>7 DEF ChangeQueued, Changed, Tags!indexVars
  <2>2. Tags!Aborted(n) \in Seq(Job) /\ Len(Tags!Aborted(n)) = Len(queue)
    BY <1>1, AbortedFields
  <2>3. PICK jobs : Extended(jobs, Tags!Aborted(n), NewJob(n)) /\ Enqueued(jobs)
    BY <1>1, <1>7, <2>1, <2>2, EnqueuedFields
  <2>4. jobs \in Seq(Job)
    BY <2>3 DEF Extended
  <2>5. /\ \A i \in 1 .. Len(jobs) : ~jobs[i].aborted => jobs[i] \in Tags!Jobs'
        /\ active /= Tags!Idle => active.job \in Tags!Jobs'
    BY <1>1, <2>1, <2>3, <2>4, QueuedKeeps
  <2>6. CASE m = n
    <3>1. /\ NewJob(n).note = m /\ NewJob(n).body = bodies + 1 /\ NewJob(n).token = bodies + 1
          /\ ~NewJob(n).aborted
      BY <2>6 DEF NewJob
    <3>2. Len(queue) + 1 \in 1 .. Len(jobs) /\ jobs[Len(queue) + 1] = NewJob(n)
      BY <1>2, <2>2, <2>3 DEF Extended
    <3>3. NewJob(n) \in Tags!Jobs'
      BY <2>5, <3>1, <3>2
    <3>4. saved'[m] = bodies + 1 /\ token'[m] = bodies + 1
      BY <1>2, <2>1, <2>6
    <3> QED
      BY <1>2, <3>1, <3>3, <3>4 DEF Kept, Tags!ByWatcher, Tags!PassToken
  <2>7. CASE m /= n
    <3>1. row'[m] = row[m] /\ token'[m] = token[m] /\ saved'[m] = saved[m]
      BY <1>2, <2>1, <2>7
    <3>2. ASSUME NEW job, Waits(m, job)
          PROVE  \E other \in Tags!Jobs' : /\ other.note = m /\ other.body = job.body
                                           /\ other.token = job.token /\ ~other.aborted
      <4>1. CASE active /= Tags!Idle /\ active.job = job
        BY <2>5, <3>2, <4>1 DEF Waits
      <4>2. ASSUME NEW i \in 1 .. Len(queue), queue[i] = job
            PROVE  \E other \in Tags!Jobs' : /\ other.note = m /\ other.body = job.body
                                             /\ other.token = job.token /\ ~other.aborted
        <5>1. /\ i \in 1 .. Len(jobs) /\ jobs[i].note = m /\ jobs[i].body = job.body
              /\ jobs[i].token = job.token /\ ~jobs[i].aborted
          BY <1>1, <2>2, <2>3, <2>7, <3>2, <4>2, AbortedFields DEF Waits, Extended
        <5> QED
          BY <2>5, <5>1
      <4> QED
        BY <1>3, <3>2, <4>1, <4>2 DEF Waits
    <3> QED
      BY <3>1, <3>2 DEF Kept
  <2> QED
    BY <2>6, <2>7
<1>8. CASE PassShortens \/ PassStores
  <2>1. /\ UNCHANGED <<queue, active, saved, token>> /\ row'[m].body = row[m].body
    BY <1>8 DEF PassShortens, PassStores, PassStored, Tags!parserVars, Tags!diskVars,
        Tags!indexVars
  <2>2. \A job : Waits(m, job) => job \in Tags!Jobs'
    BY <1>3, <2>1 DEF Waits
  <2> QED
    BY <2>1, <2>2 DEF Kept, Waits
<1>9. ASSUME Tags!PassJob \in Job, PassQueues PROVE Kept(m)
  <2>1. /\ UNCHANGED <<saved, token, row>> /\ ~closed /\ Tags!Enqueue(queue, Tags!PassJob)
    BY <1>9 DEF PassQueues, Tags!diskVars, Tags!indexVars
  <2>2. PICK jobs : Extended(jobs, queue, Tags!PassJob) /\ Enqueued(jobs)
    BY <1>1, <1>2, <1>9, <2>1, EnqueuedFields
  <2>3. jobs \in Seq(Job)
    BY <2>2 DEF Extended
  <2>4. /\ \A i \in 1 .. Len(jobs) : ~jobs[i].aborted => jobs[i] \in Tags!Jobs'
        /\ active /= Tags!Idle => active.job \in Tags!Jobs'
    BY <1>1, <2>1, <2>2, <2>3, QueuedKeeps
  <2>5. \A job : Waits(m, job) => job \in Tags!Jobs'
    BY <1>3, <2>2, <2>4 DEF Waits, Extended
  <2> QED
    BY <2>1, <2>5 DEF Kept, Waits
<1>10. ASSUME NEW w, Ends(w) PROVE Kept(m)
  <2> DEFINE job == active.job
  <2>1. /\ active /= Tags!Idle /\ job \in Job /\ Settled(job) /\ Drained(queue, w)
        /\ saved' = saved /\ closed' = closed
    BY <1>10 DEF Ends, Tags!diskVars
  <2>2. Legal(job, passMode, pass) /\ (closed => Len(queue) = 0)
    BY <1>1, <2>1 DEF JobsAreLegal
  <2>3. ASSUME NEW j, Waits(m, j), j /= job PROVE j \in Tags!Jobs'
    <3>1. PICK i \in 1 .. Len(queue) : queue[i] = j
      BY <1>3, <2>3 DEF Waits
    <3>2. ~closed /\ ~queue[i].aborted
      BY <1>2, <2>2, <2>3, <3>1 DEF Waits
    <3> QED
      BY <1>2, <2>1, <3>1, <3>2, DrainedKeeps
  <2>4. CASE Tags!Current(job) /\ \E r : Stored(r, job) /\ Writes(job.note, r)
    <3>1. PICK r : Stored(r, job) /\ Writes(job.note, r)
      BY <2>4
    <3>2. job.note \in Tags!Notes /\ job.body = saved[job.note]
      BY <1>1, <2>1, <2>2, <2>4, CurrentIsLatest
    <3>3. CASE m = job.note
      <4>1. row'[m] = r /\ r.body = job.body
        BY <1>2, <3>1, <3>3 DEF Writes, Stored
      <4> QED
        BY <2>1, <3>2, <3>3, <4>1 DEF Kept
    <3>4. CASE m /= job.note
      <4>1. row'[m] = row[m] /\ token'[m] = token[m]
        BY <1>2, <3>1, <3>4 DEF Writes
      <4>2. \A j : Waits(m, j) => j \in Tags!Jobs'
        BY <2>3, <3>4 DEF Waits
      <4> QED
        BY <2>1, <4>1, <4>2 DEF Kept, Waits
    <3> QED
      BY <3>3, <3>4
  <2>5. CASE ~Tags!Current(job) /\ (UNCHANGED <<Tags!indexVars, token>> \/ PassStored)
    <3>1. row'[m].body = row[m].body /\ token' = token
      BY <2>5 DEF PassStored, Tags!indexVars
    <3>2. \A j : Waits(m, j) => j \in Tags!Jobs'
      BY <2>3, <2>5 DEF Waits
    <3> QED
      BY <2>1, <3>1, <3>2 DEF Kept, Waits
  <2> QED
    BY <2>1, <2>4, <2>5 DEF Settled, Tags!Current
<1>11. CASE WorkerSteps
  <2>1. /\ UNCHANGED <<queue, saved, token, row>>
        /\ active /= Tags!Idle => active' /= Tags!Idle /\ active'.job = active.job
    <3>1. UNCHANGED <<queue, saved, token, row>>
      BY <1>11 DEF WorkerSteps, Tags!WorkerReady, Tags!WorkerAnswers, Tags!TimeOut,
          Tags!diskVars, Tags!indexVars
    <3>2. ASSUME active /= Tags!Idle PROVE active' /= Tags!Idle /\ active'.job = active.job
      <4>1. active \in [job : Job, stage : {"starting", "parsing", "stopping"}]
        BY <1>1, <3>2 DEF TagTypeOK
      <4>2. \/ active' = active \/ active' = [active EXCEPT !.stage = "parsing"]
            \/ active' = [active EXCEPT !.stage = "stopping"]
        BY <1>11 DEF WorkerSteps, Tags!WorkerReady, Tags!WorkerAnswers, Tags!TimeOut
      <4>3. active'.job = active.job /\ active'.stage /= "idle"
        BY <4>1, <4>2
      <4> QED
        BY <4>3 DEF Tags!Idle
    <3> QED
      BY <3>1, <3>2
  <2>2. \A job : Waits(m, job) => job \in Tags!Jobs'
    BY <1>3, <2>1 DEF Waits
  <2> QED
    BY <2>1, <2>2 DEF Kept, Waits
<1>12. CASE Closed
  <2>1. saved' = saved /\ active' = active
    BY <1>12 DEF Closed, Tags!diskVars
  <2>2. CASE \E i \in 1 .. Len(queue) :
                 /\ Tags!Current(queue[i]) /\ queue[i].note = m /\ Stored(row'[m], queue[i])
    <3>1. PICK i \in 1 .. Len(queue) :
              /\ Tags!Current(queue[i]) /\ queue[i].note = m /\ Stored(row'[m], queue[i])
      BY <2>2
    <3>2. queue[i] \in Job /\ Legal(queue[i], passMode, pass)
      BY <1>1, <1>2 DEF JobsAreLegal, LegalJobs
    <3>3. queue[i].body = saved[m]
      BY <1>1, <3>1, <3>2, CurrentIsLatest
    <3> QED
      BY <2>1, <3>1, <3>3 DEF Kept, Stored
  <2>3. CASE /\ \A i \in 1 .. Len(queue) : ~(Tags!Current(queue[i]) /\ queue[i].note = m)
             /\ row'[m] = row[m] /\ token'[m] = token[m]
    <3>1. \A job : Waits(m, job) => job \in Tags!Jobs'
      BY <1>3, <2>1, <2>3 DEF Waits
    <3> QED
      BY <2>1, <2>3, <3>1 DEF Kept, Waits
  <2> QED
    BY <1>12, <2>2, <2>3 DEF Closed
<1> QED
  BY <1>5, <1>6, <1>7, <1>8, <1>9, <1>10, <1>11, <1>12 DEF Effects

\* A token is that of its note's latest body after every step.
LEMMA EffectsKeepTokens ==
    ASSUME BodyTagsInvariant, Effects
    PROVE  TokensAreLatest'
<1>1. TagTypeOK /\ TokensAreLatest
  BY DEF BodyTagsInvariant
<1>2. saved \in [Tags!Notes -> Nat] /\ token \in [Tags!Notes -> Nat]
  BY <1>1 DEF TagTypeOK
<1>3. ASSUME NEW m \in Tags!Notes
      PROVE  \/ token'[m] = token[m] /\ saved'[m] = saved[m]
             \/ token'[m] = Tags!NoToken \/ token'[m] = saved'[m]
  <2>1. ASSUME NEW n \in Tags!Notes, ChangeIndexed(n)
        PROVE  (token'[m] = token[m] /\ saved'[m] = saved[m]) \/ token'[m] = Tags!NoToken
    BY <1>2, <2>1 DEF ChangeIndexed, Changed, Writes
  <2>2. ASSUME NEW n \in Tags!Notes, ChangeQueued(n)
        PROVE  (token'[m] = token[m] /\ saved'[m] = saved[m]) \/ token'[m] = saved'[m]
    BY <1>2, <2>2 DEF ChangeQueued, Changed
  <2>3. ASSUME NEW n \in Tags!Notes, Tags!Delete(n)
        PROVE  (token'[m] = token[m] /\ saved'[m] = saved[m]) \/ token'[m] = Tags!NoToken
    BY <1>2, <2>3 DEF Tags!Delete
  <2>4. CASE PassShortens \/ PassStores \/ PassQueues \/ WorkerSteps
    BY <2>4 DEF PassShortens, PassStores, PassStored, PassQueues, WorkerSteps, Tags!WorkerReady,
                Tags!WorkerAnswers, Tags!TimeOut, Tags!diskVars
  <2>5. ASSUME NEW w, Ends(w)
        PROVE  (token'[m] = token[m] /\ saved'[m] = saved[m]) \/ token'[m] = Tags!NoToken
    <3>1. saved' = saved /\ Settled(active.job)
      BY <2>5 DEF Ends, Tags!diskVars
    <3>2. CASE token' = token
      BY <3>1, <3>2
    <3>3. CASE token' = [token EXCEPT ![active.job.note] = Tags!NoToken]
      BY <1>2, <3>1, <3>3
    <3> QED
      BY <3>1, <3>2, <3>3 DEF Settled, Writes, PassStored
  <2>6. CASE Closed
    BY <2>6 DEF Closed, Tags!diskVars
  <2> QED
    BY <2>1, <2>2, <2>3, <2>4, <2>5, <2>6 DEF Effects
<1> QED
  BY <1>1, <1>3 DEF TokensAreLatest

-----------------------------------------------------------------------------
(* The theorems                                                                 *)

\* The invariant holds at first.
LEMMA TagsInitInvariant == TagParameters /\ Tags!Init => BodyTagsInvariant
<1> SUFFICES ASSUME TagParameters, Tags!Init PROVE BodyTagsInvariant
  OBVIOUS
<1>1. /\ Tags!OldTags \in Nat /\ PassOrder \in Seq(Tags!Notes)
      /\ \A i, j \in 1 .. Len(PassOrder) : PassOrder[i] = PassOrder[j] => i = j
  BY DEF TagParameters, Tags!OldTags
<1>2. /\ saved = [n \in Tags!Notes |-> 1] /\ bodies = 1
      /\ before \in [Tags!Notes -> {Tags!NoTags, Tags!OldTags}]
      /\ row = [n \in Tags!Notes |-> [body |-> 1, tags |-> before[n], how |-> "kept"]]
      /\ ofRebuild = Tags!Notes /\ token = [n \in Tags!Notes |-> Tags!NoToken]
      /\ pass = PassOrder /\ passMode = "next" /\ queue = << >> /\ active = Tags!Idle
      /\ worker = "none" /\ answer = "none" /\ busy = 0 /\ closed = FALSE
  BY DEF Tags!Init
<1>3. before \in [Tags!Notes -> Nat]
  BY <1>1, <1>2 DEF Tags!NoTags
<1>4. \A n \in Tags!Notes : /\ row[n] \in Row /\ row[n].body = 1 /\ row[n].tags = before[n]
                            /\ row[n].how = "kept" /\ saved[n] = 1 /\ token[n] = Tags!NoToken
  BY <1>2, <1>3 DEF Row
<1>5. TagTypeOK
  <2>1. row \in [Tags!Notes -> [body : Nat, tags : Nat, how : Outcomes \union {"kept"}]]
    BY <1>2, <1>4 DEF Row
  <2>2. saved \in [Tags!Notes -> Nat] /\ token \in [Tags!Notes -> Nat]
    BY <1>2 DEF Tags!NoToken
  <2>3. queue \in Seq(Job)
    BY <1>2
  <2>4. pass \in Seq(Tags!Notes) /\ passMode \in {"next", "waiting", "stopped"}
    BY <1>1, <1>2
  <2>5. /\ bodies \in Nat \ {0} /\ ofRebuild \subseteq Tags!Notes /\ active = Tags!Idle
        /\ worker \in {"none", "starting", "ready"} /\ answer \in {"none", "parsed", "failed"}
        /\ busy \in Nat
    <3>1. /\ bodies = 1 /\ ofRebuild = Tags!Notes /\ active = Tags!Idle /\ worker = "none"
          /\ answer = "none" /\ busy = 0
      BY <1>2
    <3> QED
      BY <3>1
  <2>6. closed \in BOOLEAN
    BY <1>2
  <2> QED
    BY <1>3, <2>1, <2>2, <2>3, <2>4, <2>5, <2>6 DEF TagTypeOK
<1>6. Len(queue) = 0
  BY <1>2
<1>7. JobsAreLegal
  BY <1>2, <1>6 DEF JobsAreLegal, LegalJobs
<1>8. TokensAreLatest
  BY <1>4 DEF TokensAreLatest
<1>9. RebuildRowsWait
  BY <1>1, <1>2, <1>4 DEF RebuildRowsWait
<1>10. ThreadsAreCounted
  BY <1>2 DEF ThreadsAreCounted
<1>11. Tags!TagsAreOfTheIndexedBody
  BY <1>4 DEF Tags!TagsAreOfTheIndexedBody
<1>12. Tags!LatestBodyIsOnItsWay
  BY <1>4 DEF Tags!LatestBodyIsOnItsWay
<1> QED
  BY <1>5, <1>7, <1>8, <1>9, <1>10, <1>11, <1>12 DEF BodyTagsInvariant

\* Every step keeps it.
LEMMA TagsNextInvariant == BodyTagsInvariant /\ [Tags!Next]_(Tags!vars) => BodyTagsInvariant'
<1> SUFFICES ASSUME BodyTagsInvariant, [Tags!Next]_(Tags!vars) PROVE BodyTagsInvariant'
  OBVIOUS
<1>1. CASE Tags!Next
  <2>1. Effects
    BY <1>1, StepEffects
  <2>2. IndexStep /\ ParserStep
    BY <2>1, EffectsAreIndexSteps, EffectsAreParserSteps
  <2>3. TagTypeOK /\ RebuildRowsWait /\ Tags!TagsAreOfTheIndexedBody
    BY DEF BodyTagsInvariant
  <2>4. RebuildRowsWait' /\ Tags!TagsAreOfTheIndexedBody'
    BY <2>2, <2>3, IndexStepKeeps
  <2>5. /\ answer' \in {"none", "parsed", "failed"} /\ busy' \in Nat
    BY <2>1, <2>2, <2>3, EffectsKeepAnswers, CountedTypes DEF ParserStep
  <2>6. TagTypeOK'
    <3>1. ofRebuild' \subseteq Tags!Notes /\ before' \in [Tags!Notes -> Nat]
      BY <2>2, <2>3 DEF IndexStep, TagTypeOK
    <3> QED
      BY <2>2, <2>5, <3>1 DEF IndexStep, ParserStep, TagTypeOK, Row
  <2>7. TokensAreLatest'
    BY <2>1, EffectsKeepTokens
  <2>8. Tags!LatestBodyIsOnItsWay'
    <3>1. \A n \in Tags!Notes :
              \/ row'[n].body = saved'[n]
              \/ \E job \in Tags!Jobs' : /\ job.note = n /\ job.body = saved'[n]
                                         /\ Tags!ByWatcher(job) /\ token'[job.note] = job.token
                                         /\ ~job.aborted
      <4> TAKE n \in Tags!Notes
      <4>1. Kept(n)
        BY <2>1, EffectsKeepBodies
      <4>2. Tags!LatestBodyIsOnItsWay
        BY DEF BodyTagsInvariant
      <4> QED
        BY <4>1, <4>2, KeptIsOnItsWay
    <3> QED
      BY <3>1 DEF Tags!LatestBodyIsOnItsWay, Tags!Current
  <2> QED
    BY <2>2, <2>4, <2>6, <2>7, <2>8 DEF BodyTagsInvariant, ParserStep
<1>2. CASE UNCHANGED Tags!vars
  <2>1. /\ UNCHANGED <<saved, bodies, row, ofRebuild, before, token, pass, passMode, queue>>
        /\ UNCHANGED <<active, worker, answer, busy, closed>>
    BY <1>2 DEF Tags!vars, Tags!diskVars, Tags!indexVars, Tags!passVars, Tags!parserVars,
        Tags!threadVars
  <2>2. Tags!Jobs' = Tags!Jobs
    BY <2>1 DEF Tags!Jobs
  <2>3. Tags!LatestBodyIsOnItsWay'
    BY <2>1, <2>2 DEF BodyTagsInvariant, Tags!LatestBodyIsOnItsWay, Tags!Current
  <2>4. TagTypeOK'
    BY <2>1 DEF BodyTagsInvariant, TagTypeOK
  <2>5. /\ JobsAreLegal' /\ TokensAreLatest' /\ RebuildRowsWait' /\ ThreadsAreCounted'
        /\ Tags!TagsAreOfTheIndexedBody'
    BY <2>1 DEF BodyTagsInvariant, JobsAreLegal, TokensAreLatest, RebuildRowsWait,
                ThreadsAreCounted, Tags!TagsAreOfTheIndexedBody
  <2> QED
    BY <2>3, <2>4, <2>5 DEF BodyTagsInvariant
<1> QED
  BY <1>1, <1>2

\* The invariant holds of every state that a server with a rebuild comes to.
THEOREM BodyTagsInvariantHolds == TagParameters => (Tags!Spec => []BodyTagsInvariant)
<1> SUFFICES ASSUME TagParameters PROVE Tags!Spec => []BodyTagsInvariant
  OBVIOUS
<1>1. Tags!Init => BodyTagsInvariant
  BY TagsInitInvariant
<1>2. BodyTagsInvariant /\ [Tags!Next]_(Tags!vars) => BodyTagsInvariant'
  BY TagsNextInvariant
<1> QED
  BY <1>1, <1>2, PTL DEF Tags!Spec

\* A note's tags are those of the body its row holds, whichever of the watcher and the
\* background pass wrote last, and however the parses ended.
THEOREM TagsAreOfTheBody == TagParameters => (Tags!Spec => []Tags!TagsAreOfTheIndexedBody)
<1> SUFFICES ASSUME TagParameters PROVE Tags!Spec => []Tags!TagsAreOfTheIndexedBody
  OBVIOUS
<1>1. Tags!Spec => []BodyTagsInvariant
  BY BodyTagsInvariantHolds
<1>2. BodyTagsInvariant => Tags!TagsAreOfTheIndexedBody
  BY DEF BodyTagsInvariant
<1> QED
  BY <1>1, <1>2, PTL

\* A note's latest body is in its row or in a job that will write it: the queue drops a
\* parse only for a newer one, and the close writes what waits.
THEOREM LatestBodyIsNotLost == TagParameters => (Tags!Spec => []Tags!LatestBodyIsOnItsWay)
<1> SUFFICES ASSUME TagParameters PROVE Tags!Spec => []Tags!LatestBodyIsOnItsWay
  OBVIOUS
<1>1. Tags!Spec => []BodyTagsInvariant
  BY BodyTagsInvariantHolds
<1>2. BodyTagsInvariant => Tags!LatestBodyIsOnItsWay
  BY DEF BodyTagsInvariant
<1> QED
  BY <1>1, <1>2, PTL

\* One thread parses at a time, although a worker is told to stop and another started.
THEOREM ParsesAreSerial == TagParameters => (Tags!Spec => []Tags!ParsesNeverOverlap)
<1> SUFFICES ASSUME TagParameters PROVE Tags!Spec => []Tags!ParsesNeverOverlap
  OBVIOUS
<1>1. Tags!Spec => []BodyTagsInvariant
  BY BodyTagsInvariantHolds
<1>2. BodyTagsInvariant => Tags!ParsesNeverOverlap
  BY DEF BodyTagsInvariant, ThreadsAreCounted, Tags!ParsesNeverOverlap
<1> QED
  BY <1>1, <1>2, PTL

-----------------------------------------------------------------------------
(* Setup mode: SetupMode.                                                      *)

\* What the theorems ask of the constants: the lifetime is a number, there are
\* finitely many requests, and no file is no number.
SetupParameters == TTL \in Nat /\ IsFiniteSet(Requests) /\ None \notin Nat

Places == {"idle", "signing-in", "checking-code", "preflight", "writing", "renaming",
           "responding"}
Request == [at : Places, form : Nat, expires : Nat, file : Setup!Files \union {0}]

\* The type of the state.
SetupTypeOK ==
         /\ now \in Nat /\ boots \in Nat
         /\ server \in {"booting", "setup", "halting", "serving"}
         /\ requests \in [Requests -> Request]
         /\ \A r \in Requests : requests[r].file \in Setup!Files <=> r \in Setup!Writing
         /\ forms \in Nat
         /\ DOMAIN pending \subseteq 1 .. forms
         /\ \A f \in DOMAIN pending : pending[f] \in Nat
         /\ since \in [1 .. forms -> Nat]
         /\ tries \subseteq [form : 1 .. forms, at : Nat, by : Requests]
         /\ paths \in [{"staging", "token"} -> Setup!Files \union {None}]
         /\ contents \in [Setup!Files -> {"empty", "whole"}]
         /\ published \in BOOLEAN /\ overlapped \in BOOLEAN

\* A form that is still pending has not been tried, and neither it nor a code that is
\* being checked outlives the password's five minutes.
DeadlinesHold ==
    /\ \A f \in DOMAIN pending : pending[f] <= since[f] + TTL
    /\ \A f \in DOMAIN pending : \A t \in tries : t.form /= f
    /\ \A r \in Requests : requests[r].at = "checking-code" =>
           /\ requests[r].form \in 1 .. forms
           /\ requests[r].expires <= since[requests[r].form] + TTL

\* Until two sign-ins write at once, the one that writes has the staging file to
\* itself, which is not the token's.
StagingIsOwn ==
    ~overlapped =>
        /\ \A r, q \in Setup!Writing : r = q
        /\ \A r \in Setup!Writing : paths["staging"] = requests[r].file
        /\ \A r \in Setup!Writing : requests[r].at = "renaming" => contents[requests[r].file] = "whole"
        /\ paths["token"] /= None => paths["token"] /= paths["staging"]

SetupInvariant ==
    /\ SetupTypeOK /\ DeadlinesHold /\ Setup!CodesAreForOneTry /\ StagingIsOwn
    /\ Setup!TokenIsWhole
-----------------------------------------------------------------------------
(* The files                                                                   *)

Unused == Setup!Files \ ({paths[p] : p \in DOMAIN paths} \union {requests[q].file : q \in Requests})

\* An instance counts as the library does.
LEMMA RequestsAreCounted == Setup!Cardinality(Requests) = Cardinality(Requests)
BY Zenon DEF Cardinality, Setup!Cardinality

\* With the staging path free there is a file that no path and no handle leads to.
LEMMA UnusedFileExists ==
    ASSUME SetupParameters, SetupTypeOK, paths["staging"] = None PROVE Unused /= {}
<1> DEFINE held == {requests[q].file : q \in Requests}
<1> DEFINE used == held \union {paths["token"]}
<1> DEFINE n == Cardinality(Requests)
<1>1. n \in Nat
  BY FS_CardinalityType DEF SetupParameters
<1>2. IsFiniteSet(held) /\ Cardinality(held) <= n
  <2> DEFINE f == [q \in Requests |-> requests[q].file]
  <2>1. f \in Surjection(Requests, held)
    BY DEF Surjection
  <2> HIDE DEF f, held
  <2> QED
    BY <2>1, FS_Surjection DEF SetupParameters
<1>3. IsFiniteSet(used) /\ Cardinality(used) <= n + 1
  <2> HIDE DEF held, n
  <2>1. Cardinality(held) \in Nat
    BY <1>2, FS_CardinalityType
  <2> QED
    BY <1>1, <1>2, <2>1, FS_AddElement
<1>4. IsFiniteSet(Setup!Files) /\ Cardinality(Setup!Files) = n + 2
  BY <1>1, FS_Interval, RequestsAreCounted DEF Setup!Files
<1>5. ~(Setup!Files \subseteq used)
  <2> HIDE DEF used, n
  <2>1. Cardinality(used) \in Nat
    BY <1>3, FS_CardinalityType
  <2> QED
    BY <1>1, <1>3, <1>4, <2>1, FS_Subset
<1>6. PICK f \in Setup!Files : f \notin used
  BY <1>5
<1>7. f \in Nat /\ f /= None
  BY <1>1, <1>6 DEF Setup!Files, SetupParameters
<1> QED
  BY <1>6, <1>7 DEF Unused, SetupTypeOK

\* Opening the staging path truncates the file there, or takes one that nothing
\* leads to.
LEMMA StagingFields ==
    ASSUME SetupParameters, SetupTypeOK, NEW r \in Requests, Setup!OpenStaging(r)
    PROVE  \E file \in Setup!Files :
               /\ file = paths["staging"]
                      \/ (paths["staging"] = None /\ file /= paths["token"])
               /\ contents'[file] = "empty" /\ contents' \in [Setup!Files -> {"empty", "whole"}]
               /\ \A g \in Setup!Files \ {file} : contents'[g] = contents[g]
               /\ paths'["staging"] = file /\ paths'["token"] = paths["token"]
               /\ paths' \in [{"staging", "token"} -> Setup!Files \union {None}]
               /\ requests'[r].at = "writing" /\ requests'[r].file = file
               /\ \A q \in Requests \ {r} : requests'[q] = requests[q]
               /\ requests' \in [Requests -> Request]
<1> DEFINE Opens(file) ==
        /\ contents' = [contents EXCEPT ![file] = "empty"]
        /\ paths' = [paths EXCEPT !["staging"] = file]
        /\ requests' = [requests EXCEPT ![r] = [@ EXCEPT !.at = "writing", !.file = file]]
<1>1. \E file \in Setup!Files :
          /\ file = paths["staging"] \/ (paths["staging"] = None /\ file /= paths["token"])
          /\ Opens(file)
  <2>1. CASE paths["staging"] = None
    <3>1. Unused /= {} /\ Unused \subseteq Nat /\ Unused \subseteq Setup!Files
      BY <2>1, UnusedFileExists DEF Unused, Setup!Files
    <3>2. \E x \in Unused : \A k \in Unused : x <= k
      BY <3>1, LeastExists
    <3> DEFINE file == CHOOSE x \in Unused : \A k \in Unused : x <= k
    <3>3. file \in Unused
      BY <3>2
    <3>4. Opens(file)
      BY <2>1 DEF Setup!OpenStaging, Setup!StagingPath, Unused
    <3> HIDE DEF file, Opens
    <3>5. file \in Setup!Files /\ file /= paths["token"]
      BY <3>3 DEF Unused, SetupTypeOK
    <3> QED
      BY <2>1, <3>4, <3>5
  <2>2. CASE paths["staging"] /= None
    <3>1. paths["staging"] \in Setup!Files
      BY <2>2 DEF SetupTypeOK
    <3>2. Opens(paths["staging"])
      BY <2>2 DEF Setup!OpenStaging, Setup!StagingPath
    <3> HIDE DEF Opens
    <3> QED
      BY <3>1, <3>2
  <2> QED
    BY <2>1, <2>2
<1> HIDE DEF Opens
<1>2. PICK file \in Setup!Files :
          /\ file = paths["staging"] \/ (paths["staging"] = None /\ file /= paths["token"])
          /\ Opens(file)
  BY <1>1
<1>3. /\ contents'[file] = "empty" /\ contents' \in [Setup!Files -> {"empty", "whole"}]
      /\ \A g \in Setup!Files \ {file} : contents'[g] = contents[g]
  BY <1>2 DEF Opens, SetupTypeOK
<1>4. /\ paths'["staging"] = file /\ paths'["token"] = paths["token"]
      /\ paths' \in [{"staging", "token"} -> Setup!Files \union {None}]
  BY <1>2 DEF Opens, SetupTypeOK
<1>5. /\ requests'[r].at = "writing" /\ requests'[r].file = file
      /\ \A q \in Requests \ {r} : requests'[q] = requests[q]
      /\ requests' \in [Requests -> Request]
  <2> DEFINE held == [requests[r] EXCEPT !.at = "writing", !.file = file]
  <2>1. held \in Request /\ held.at = "writing" /\ held.file = file
    <3>1. requests[r] \in Request
      BY DEF SetupTypeOK
    <3> QED
      BY <3>1 DEF Request, Places
  <2>2. requests' = [requests EXCEPT ![r] = held]
    BY <1>2 DEF Opens
  <2> HIDE DEF held
  <2> QED
    BY <2>1, <2>2 DEF SetupTypeOK
<1> QED
  BY <1>2, <1>3, <1>4, <1>5

\* 0 is no file.
LEMMA FilesAreNumbers == SetupParameters => Setup!Files \subseteq Nat /\ 0 \notin Setup!Files
<1> SUFFICES ASSUME SetupParameters PROVE Setup!Files \subseteq Nat /\ 0 \notin Setup!Files
  OBVIOUS
<1>1. Cardinality(Requests) \in Nat
  BY FS_CardinalityType DEF SetupParameters
<1> QED
  BY <1>1, RequestsAreCounted DEF Setup!Files

\* A new form takes the next number, and its deadline is the inherited one or five
\* minutes from now.
LEMMA FormFields ==
    ASSUME SetupParameters, SetupTypeOK, NEW inherited \in Nat \union {None}, NEW start \in Nat,
           NEW r, Setup!StorePending(r, inherited, start)
    PROVE  /\ forms' = forms + 1 /\ forms' \in Nat
           /\ since' \in [1 .. forms' -> Nat] /\ since'[forms'] = start
           /\ \A f \in 1 .. forms : f \in 1 .. forms' /\ f /= forms' /\ since'[f] = since[f]
           /\ DOMAIN pending' \subseteq 1 .. forms'
           /\ \A f \in DOMAIN pending' : f /= forms' => f \in DOMAIN pending /\ pending'[f] = pending[f]
           /\ forms' \in DOMAIN pending' =>
                  pending'[forms'] = IF inherited = None THEN now + TTL ELSE inherited
<1>1. forms' = forms + 1 /\ forms' \in Nat
  BY DEF Setup!StorePending, SetupTypeOK
<1>2. \A f \in 1 .. forms : f \in 1 .. forms' /\ f /= forms'
  BY <1>1 DEF SetupTypeOK
<1>3. /\ since' \in [1 .. forms' -> Nat] /\ since'[forms'] = start
      /\ \A f \in 1 .. forms : since'[f] = since[f]
  <2>1. since' = [f \in 1 .. forms' |-> IF f = forms' THEN start ELSE since[f]]
    BY DEF Setup!StorePending
  <2>2. forms' \in 1 .. forms' /\ \A f \in 1 .. forms' : f /= forms' => f \in 1 .. forms
    BY <1>1 DEF SetupTypeOK
  <2> QED
    BY <1>2, <2>1, <2>2 DEF SetupTypeOK
<1>4. DOMAIN pending \subseteq 1 .. forms' /\ forms' \in 1 .. forms' /\ forms' \notin DOMAIN pending
  BY <1>1, <1>2 DEF SetupTypeOK
<1>5. /\ DOMAIN pending' \subseteq 1 .. forms'
      /\ \A f \in DOMAIN pending' : f /= forms' => f \in DOMAIN pending /\ pending'[f] = pending[f]
      /\ forms' \in DOMAIN pending' => pending'[forms'] = Setup!Deadline(inherited)
  <2>1. CASE pending' = pending
    BY <1>4, <2>1
  <2>2. CASE pending' = [f \in DOMAIN pending \union {forms'} |->
                            IF f = forms' THEN Setup!Deadline(inherited) ELSE pending[f]]
    BY <1>4, <2>2
  <2> QED
    BY <2>1, <2>2 DEF Setup!StorePending
<1> QED
  BY <1>1, <1>2, <1>3, <1>5 DEF Setup!Deadline

\* A code form that is tried uses up its pending sign-in.
LEMMA CodeFields ==
    ASSUME SetupTypeOK, NEW r \in Requests, NEW f \in DOMAIN pending, pending[f] > now,
           Setup!SubmitCode(r, f)
    PROVE  /\ f \in 1 .. forms /\ now \in Nat /\ now < pending[f]
           /\ DOMAIN pending' = DOMAIN pending \ {f}
           /\ \A g \in DOMAIN pending' : pending'[g] = pending[g]
           /\ tries' = tries \union {[form |-> f, at |-> now, by |-> r]}
           /\ requests[r].at = "idle" /\ requests' \in [Requests -> Request]
           /\ requests'[r].at = "checking-code" /\ requests'[r].file = requests[r].file
           /\ requests'[r].form = f /\ requests'[r].expires = pending[f]
           /\ \A q \in Requests \ {r} : requests'[q] = requests[q]
           /\ UNCHANGED <<now, server, boots, forms, since, paths, contents, published,
                          overlapped>>
<1>1. /\ pending' = [g \in DOMAIN pending \ {f} |-> pending[g]]
      /\ requests' = [requests EXCEPT ![r] = [@ EXCEPT !.at = "checking-code",
                                                    !.form = f, !.expires = pending[f]]]
      /\ tries' = tries \union {[form |-> f, at |-> now, by |-> r]}
      /\ UNCHANGED <<now, server, boots, forms, since, paths, contents, published, overlapped>>
  BY DEF Setup!SubmitCode, Setup!Consumed, Setup!Without, Setup!containerVars, Setup!diskVars
<1>2. /\ f \in 1 .. forms /\ f \in Nat /\ now \in Nat /\ now < pending[f]
      /\ pending[f] \in Nat /\ requests[r].at = "idle"
  BY DEF SetupTypeOK, Setup!SubmitCode, Setup!At
<1>3. /\ requests' \in [Requests -> Request]
      /\ requests'[r].at = "checking-code" /\ requests'[r].file = requests[r].file
      /\ requests'[r].form = f /\ requests'[r].expires = pending[f]
      /\ \A q \in Requests \ {r} : requests'[q] = requests[q]
  BY <1>1, <1>2 DEF SetupTypeOK, Request, Places
<1> QED
  BY <1>1, <1>2, <1>3

-----------------------------------------------------------------------------
(* A step keeps each part                                                      *)

\* Every variable keeps its type.
LEMMA TypeStep == SetupParameters /\ SetupInvariant /\ Setup!Next => SetupTypeOK'
<1> SUFFICES ASSUME SetupParameters, SetupInvariant, Setup!Next
             PROVE  SetupTypeOK'
  OBVIOUS
<1> USE DEF SetupTypeOK, SetupInvariant, DeadlinesHold, SetupParameters, Request, Places,
    Setup!Writing, Setup!At,
        Setup!Idle, Setup!StagingPath, Setup!diskVars, Setup!formVars, Setup!containerVars
<1>1. ASSUME NEW r \in Requests, Setup!SubmitSignIn(r) PROVE SetupTypeOK'
  BY <1>1 DEF Setup!SubmitSignIn, Setup!Goto
<1>2. ASSUME NEW r \in Requests, Setup!SignInAccepted(r) PROVE SetupTypeOK'
  BY <1>2 DEF Setup!SignInAccepted, Setup!Goto
<1>3. ASSUME NEW r \in Requests, Setup!CodeRequired(r) PROVE SetupTypeOK'
  <2>1. None \in Nat \union {None} /\ now \in Nat
    BY <1>3 DEF Setup!CodeRequired
  <2>2. /\ forms' = forms + 1 /\ forms' \in Nat
        /\ since' \in [1 .. forms' -> Nat] /\ since'[forms'] = now
        /\ \A f \in 1 .. forms : f \in 1 .. forms' /\ f /= forms' /\ since'[f] = since[f]
        /\ DOMAIN pending' \subseteq 1 .. forms'
        /\ \A f \in DOMAIN pending' : f /= forms' => f \in DOMAIN pending /\ pending'[f] = pending[f]
        /\ forms' \in DOMAIN pending' =>
               pending'[forms'] = IF None = None THEN now + TTL ELSE None
    BY <1>3, <2>1, FormFields DEF Setup!CodeRequired
  <2>3. /\ UNCHANGED <<now, server, boots, tries, paths, contents, published, overlapped>>
        /\ requests' = [requests EXCEPT ![r] = Setup!Idle]
        /\ requests[r].at \notin {"writing", "renaming"}
    BY <1>3 DEF Setup!CodeRequired, Setup!Done
  <2>4. \A f \in DOMAIN pending' : pending'[f] \in Nat
    BY <2>1, <2>2
  <2>5. tries' \subseteq [form : 1 .. forms', at : Nat, by : Requests]
    BY <2>2, <2>3
  <2>6. /\ requests' \in [Requests -> Request]
        /\ \A q \in Requests : requests'[q].file \in Setup!Files <=> q \in Setup!Writing'
    BY <2>3
  <2> QED
    BY <2>2, <2>3, <2>4, <2>5, <2>6
<1>4. ASSUME NEW r \in Requests, Setup!SignInFails(r) PROVE SetupTypeOK'
  BY <1>4 DEF Setup!SignInFails, Setup!Done
<1>5. ASSUME NEW r \in Requests, Setup!CodeAccepted(r) PROVE SetupTypeOK'
  BY <1>5 DEF Setup!CodeAccepted, Setup!Goto
<1>6. ASSUME NEW r \in Requests, Setup!CodeWrong(r) PROVE SetupTypeOK'
  <2>1. requests[r].expires \in Nat \union {None} /\ since[requests[r].form] \in Nat
    BY <1>6 DEF Setup!CodeWrong
  <2>2. /\ forms' = forms + 1 /\ forms' \in Nat
        /\ since' \in [1 .. forms' -> Nat] /\ since'[forms'] = since[requests[r].form]
        /\ \A f \in 1 .. forms : f \in 1 .. forms' /\ f /= forms' /\ since'[f] = since[f]
        /\ DOMAIN pending' \subseteq 1 .. forms'
        /\ \A f \in DOMAIN pending' : f /= forms' => f \in DOMAIN pending /\ pending'[f] = pending[f]
        /\ forms' \in DOMAIN pending' =>
               pending'[forms'] = IF requests[r].expires = None THEN now + TTL ELSE requests[r].expires
    BY <1>6, <2>1, FormFields DEF Setup!CodeWrong
  <2>3. /\ UNCHANGED <<now, server, boots, tries, paths, contents, published, overlapped>>
        /\ requests' = [requests EXCEPT ![r] = Setup!Idle]
        /\ requests[r].at \notin {"writing", "renaming"}
    BY <1>6 DEF Setup!CodeWrong, Setup!Done
  <2>4. \A f \in DOMAIN pending' : pending'[f] \in Nat
    BY <2>1, <2>2
  <2>5. tries' \subseteq [form : 1 .. forms', at : Nat, by : Requests]
    BY <2>2, <2>3
  <2>6. /\ requests' \in [Requests -> Request]
        /\ \A q \in Requests : requests'[q].file \in Setup!Files <=> q \in Setup!Writing'
    BY <2>3
  <2> QED
    BY <2>2, <2>3, <2>4, <2>5, <2>6
<1>7. ASSUME NEW r \in Requests, Setup!Blocked(r) PROVE SetupTypeOK'
  BY <1>7 DEF Setup!Blocked, Setup!Done
<1>8. ASSUME NEW r \in Requests, Setup!OpenStaging(r) PROVE SetupTypeOK'
  <2>1. PICK file \in Setup!Files :
           /\ file = paths["staging"] \/ (paths["staging"] = None /\ file /= paths["token"])
           /\ contents'[file] = "empty" /\ contents' \in [Setup!Files -> {"empty", "whole"}]
           /\ \A g \in Setup!Files \ {file} : contents'[g] = contents[g]
           /\ paths'["staging"] = file /\ paths'["token"] = paths["token"]
           /\ paths' \in [{"staging", "token"} -> Setup!Files \union {None}]
           /\ requests'[r].at = "writing" /\ requests'[r].file = file
           /\ \A q \in Requests \ {r} : requests'[q] = requests[q]
           /\ requests' \in [Requests -> Request]
    BY <1>8, StagingFields
  <2>2. /\ UNCHANGED <<now, server, boots, pending, forms, since, tries, published>>
        /\ overlapped' = (overlapped \/ Setup!Writing /= {})
        /\ requests[r].at = "preflight"
    BY <1>8 DEF Setup!OpenStaging
  <2>3. \A q \in Requests : requests'[q].file \in Setup!Files <=> q \in Setup!Writing'
    BY <2>1, <2>2
  <2>4. overlapped' \in BOOLEAN
    BY <2>2
  <2> QED
    BY <2>1, <2>2, <2>3, <2>4
<1>9. ASSUME NEW r \in Requests, Setup!Write(r) PROVE SetupTypeOK'
  <2>1. /\ UNCHANGED <<now, server, boots, pending, forms, since, tries, paths, published,
                       overlapped>>
        /\ requests' = [requests EXCEPT ![r] = [@ EXCEPT !.at = "renaming"]]
        /\ requests[r].at = "writing" /\ requests[r] \in Request
    BY <1>9 DEF Setup!Write
  <2>2. contents' \in [Setup!Files -> {"empty", "whole"}]
    BY <1>9 DEF Setup!Write
  <2>3. /\ requests' \in [Requests -> Request]
        /\ requests'[r].at = "renaming" /\ requests'[r].file = requests[r].file
        /\ \A q \in Requests \ {r} : requests'[q] = requests[q]
    BY <2>1
  <2>4. \A q \in Requests : requests'[q].file \in Setup!Files <=> q \in Setup!Writing'
    BY <2>1, <2>3
  <2> QED
    BY <2>1, <2>2, <2>3, <2>4
<1>10. ASSUME NEW r \in Requests, Setup!Rename(r) PROVE SetupTypeOK'
  <2>1. /\ UNCHANGED <<now, server, boots, pending, forms, since, tries, contents, overlapped>>
        /\ published' = TRUE
        /\ requests[r].at = "renaming"
        /\ requests' = [requests EXCEPT ![r] = [Setup!Idle EXCEPT !.at = "responding"]]
    BY <1>10 DEF Setup!Rename, Setup!Goto
  <2>2. /\ paths' \in [{"staging", "token"} -> Setup!Files \union {None}]
        /\ paths'["token"] = paths["staging"] /\ paths'["staging"] = None
    BY <1>10 DEF Setup!Rename
  <2>3. /\ requests' \in [Requests -> Request] /\ requests'[r].file = 0 /\ r \notin Setup!Writing'
        /\ \A q \in Requests \ {r} : requests'[q] = requests[q]
    BY <2>1
  <2> QED
    BY <2>1, <2>2, <2>3, FilesAreNumbers
<1>11. ASSUME NEW r \in Requests, Setup!WriteFails(r) PROVE SetupTypeOK'
  <2>1. /\ UNCHANGED <<now, server, boots, pending, forms, since, tries, paths, contents,
                       published, overlapped>>
        /\ requests' = [requests EXCEPT ![r] = Setup!Idle]
    BY <1>11 DEF Setup!WriteFails, Setup!Done
  <2>2. /\ requests' \in [Requests -> Request] /\ requests'[r].file = 0 /\ r \notin Setup!Writing'
        /\ \A q \in Requests \ {r} : requests'[q] = requests[q]
    BY <2>1
  <2> QED
    BY <2>1, <2>2, FilesAreNumbers
<1>12. ASSUME NEW r \in Requests, Setup!Close(r) PROVE SetupTypeOK'
  <2>1. requests' = [q \in Requests |-> Setup!Idle] /\ pending' = << >>
    BY <1>12 DEF Setup!Close, Setup!ProcessEnds
  <2>2. /\ UNCHANGED <<now, forms, since, tries, paths, contents, published, overlapped>>
        /\ server' \in {"halting", "setup", "booting"} /\ boots' \in Nat
    BY <1>12 DEF Setup!Close
  <2>3. Setup!Writing' = {} /\ requests' \in [Requests -> Request]
        /\ \A q \in Requests : requests'[q].file = 0
    BY <2>1
  <2>4. DOMAIN pending' = {}
    BY <2>1
  <2> QED
    BY <2>2, <2>3, <2>4, FilesAreNumbers
<1>13. ASSUME NEW r \in Requests, NEW f \in 1 .. forms, Setup!SubmitCode(r, f) PROVE SetupTypeOK'
  <2>1. CASE f \notin DOMAIN pending
    BY <1>13, <2>1 DEF Setup!SubmitCode
  <2>2. CASE f \in DOMAIN pending /\ ~(pending[f] > now)
    <3>1. /\ DOMAIN pending' = DOMAIN pending \ {f}
          /\ \A g \in DOMAIN pending' : pending'[g] = pending[g]
          /\ UNCHANGED <<now, server, boots, requests, forms, since, tries, paths, contents,
                         published,
                         overlapped>>
      BY <1>13, <2>2 DEF Setup!SubmitCode, Setup!Consumed, Setup!Without
    <3> QED
      BY <3>1
  <2>3. CASE f \in DOMAIN pending /\ pending[f] > now
    <3>1. /\ f \in 1 .. forms /\ now \in Nat /\ now < pending[f]
          /\ DOMAIN pending' = DOMAIN pending \ {f}
          /\ \A g \in DOMAIN pending' : pending'[g] = pending[g]
          /\ tries' = tries \union {[form |-> f, at |-> now, by |-> r]}
          /\ requests[r].at = "idle" /\ requests' \in [Requests -> Request]
          /\ requests'[r].at = "checking-code" /\ requests'[r].file = requests[r].file
          /\ requests'[r].form = f /\ requests'[r].expires = pending[f]
          /\ \A q \in Requests \ {r} : requests'[q] = requests[q]
          /\ UNCHANGED <<now, server, boots, forms, since, paths, contents, published,
                         overlapped>>
      BY <1>13, <2>3, CodeFields
    <3>2. \A q \in Requests : requests'[q].file \in Setup!Files <=> q \in Setup!Writing'
      BY <3>1
    <3>3. tries' \subseteq [form : 1 .. forms', at : Nat, by : Requests]
      BY <3>1
    <3>4. DOMAIN pending' \subseteq 1 .. forms' /\ \A g \in DOMAIN pending' : pending'[g] \in Nat
      BY <3>1
    <3> QED
      BY <3>1, <3>2, <3>3, <3>4
  <2> QED
    BY <2>1, <2>2, <2>3
<1>14. ASSUME NEW f \in 1 .. forms, Setup!Expire(f) PROVE SetupTypeOK'
  BY <1>14 DEF Setup!Expire, Setup!Without
<1>15. CASE Setup!Restart
  <2>1. requests' = [q \in Requests |-> Setup!Idle] /\ pending' = << >>
    BY <1>15 DEF Setup!Restart, Setup!ProcessEnds
  <2>2. /\ UNCHANGED <<now, forms, since, tries, paths, contents, published, overlapped>>
        /\ server' \in {"halting", "setup", "booting"} /\ boots' \in Nat
    BY <1>15 DEF Setup!Restart
  <2>3. Setup!Writing' = {} /\ requests' \in [Requests -> Request]
        /\ \A q \in Requests : requests'[q].file = 0
    BY <2>1
  <2>4. DOMAIN pending' = {}
    BY <2>1
  <2> QED
    BY <2>2, <2>3, <2>4, FilesAreNumbers
<1>16. CASE Setup!Boot
  BY <1>16 DEF Setup!Boot
<1>17. CASE Setup!Tick
  BY <1>17 DEF Setup!Tick
<1> HIDE DEF SetupInvariant, SetupTypeOK, SetupParameters, DeadlinesHold
<1> QED
  BY <1>1, <1>2, <1>3, <1>4, <1>5, <1>6, <1>7, <1>8, <1>9, <1>10, <1>11, <1>12, <1>13, <1>14,
     <1>15, <1>16, <1>17
     DEF Setup!Next

\* Deadlines hold, and what is pending is untried.
LEMMA DeadlinesStep == SetupParameters /\ SetupInvariant /\ Setup!Next => DeadlinesHold'
<1> SUFFICES ASSUME SetupParameters, SetupInvariant, Setup!Next
             PROVE  DeadlinesHold'
  OBVIOUS
<1> USE DEF SetupInvariant, DeadlinesHold, SetupTypeOK, SetupParameters, Request, Places,
    Setup!Writing, Setup!At,
        Setup!Idle, Setup!StagingPath, Setup!diskVars, Setup!formVars, Setup!containerVars
<1>1. ASSUME NEW r \in Requests, Setup!SubmitSignIn(r) PROVE DeadlinesHold'
  BY <1>1 DEF Setup!SubmitSignIn, Setup!Goto
<1>2. ASSUME NEW r \in Requests, Setup!SignInAccepted(r) PROVE DeadlinesHold'
  BY <1>2 DEF Setup!SignInAccepted, Setup!Goto
<1>3. ASSUME NEW r \in Requests, Setup!CodeRequired(r) PROVE DeadlinesHold'
  <2>1. None \in Nat \union {None} /\ now \in Nat
    BY <1>3 DEF Setup!CodeRequired
  <2>2. /\ forms' = forms + 1 /\ since'[forms'] = now
        /\ \A f \in 1 .. forms : f \in 1 .. forms' /\ f /= forms' /\ since'[f] = since[f]
        /\ DOMAIN pending' \subseteq 1 .. forms'
        /\ \A f \in DOMAIN pending' : f /= forms' => f \in DOMAIN pending /\ pending'[f] = pending[f]
        /\ forms' \in DOMAIN pending' =>
               pending'[forms'] = IF None = None THEN now + TTL ELSE None
    BY <1>3, <2>1, FormFields DEF Setup!CodeRequired
  <2>3. UNCHANGED tries /\ requests' = [requests EXCEPT ![r] = Setup!Idle]
    BY <1>3 DEF Setup!CodeRequired, Setup!Done
  <2>4. \A f \in DOMAIN pending' : pending'[f] <= since'[f] + TTL
    BY <2>1, <2>2
  <2>5. \A f \in DOMAIN pending' : \A t \in tries' : t.form /= f
    BY <2>2, <2>3
  <2>6. \A q \in Requests : requests'[q].at = "checking-code" =>
           q /= r /\ requests'[q] = requests[q] /\ requests[q].form \in 1 .. forms'
           /\ since'[requests[q].form] = since[requests[q].form]
    BY <2>2, <2>3
  <2> QED
    BY <2>4, <2>5, <2>6
<1>4. ASSUME NEW r \in Requests, Setup!SignInFails(r) PROVE DeadlinesHold'
  BY <1>4 DEF Setup!SignInFails, Setup!Done
<1>5. ASSUME NEW r \in Requests, Setup!CodeAccepted(r) PROVE DeadlinesHold'
  BY <1>5 DEF Setup!CodeAccepted, Setup!Goto
<1>6. ASSUME NEW r \in Requests, Setup!CodeWrong(r) PROVE DeadlinesHold'
  <2>0. requests[r].expires /= None /\ requests[r].expires <= since[requests[r].form] + TTL
    BY <1>6 DEF Setup!CodeWrong
  <2>1. requests[r].expires \in Nat \union {None} /\ since[requests[r].form] \in Nat
    BY <1>6 DEF Setup!CodeWrong
  <2>2. /\ forms' = forms + 1 /\ since'[forms'] = since[requests[r].form]
        /\ \A f \in 1 .. forms : f \in 1 .. forms' /\ f /= forms' /\ since'[f] = since[f]
        /\ DOMAIN pending' \subseteq 1 .. forms'
        /\ \A f \in DOMAIN pending' : f /= forms' => f \in DOMAIN pending /\ pending'[f] = pending[f]
        /\ forms' \in DOMAIN pending' =>
               pending'[forms'] = IF requests[r].expires = None THEN now + TTL ELSE requests[r].expires
    BY <1>6, <2>1, FormFields DEF Setup!CodeWrong
  <2>3. UNCHANGED tries /\ requests' = [requests EXCEPT ![r] = Setup!Idle]
    BY <1>6 DEF Setup!CodeWrong, Setup!Done
  <2>4. \A f \in DOMAIN pending' : pending'[f] <= since'[f] + TTL
    BY <2>0, <2>1, <2>2
  <2>5. \A f \in DOMAIN pending' : \A t \in tries' : t.form /= f
    BY <2>2, <2>3
  <2>6. \A q \in Requests : requests'[q].at = "checking-code" =>
           q /= r /\ requests'[q] = requests[q] /\ requests[q].form \in 1 .. forms'
           /\ since'[requests[q].form] = since[requests[q].form]
    BY <2>2, <2>3
  <2> QED
    BY <2>4, <2>5, <2>6
<1>7. ASSUME NEW r \in Requests, Setup!Blocked(r) PROVE DeadlinesHold'
  BY <1>7 DEF Setup!Blocked, Setup!Done
<1>8. ASSUME NEW r \in Requests, Setup!OpenStaging(r) PROVE DeadlinesHold'
  BY <1>8 DEF Setup!OpenStaging
<1>9. ASSUME NEW r \in Requests, Setup!Write(r) PROVE DeadlinesHold'
  BY <1>9 DEF Setup!Write
<1>10. ASSUME NEW r \in Requests, Setup!Rename(r) PROVE DeadlinesHold'
  BY <1>10 DEF Setup!Rename, Setup!Goto
<1>11. ASSUME NEW r \in Requests, Setup!WriteFails(r) PROVE DeadlinesHold'
  BY <1>11 DEF Setup!WriteFails, Setup!Done
<1>12. ASSUME NEW r \in Requests, Setup!Close(r) PROVE DeadlinesHold'
  BY <1>12 DEF Setup!Close, Setup!ProcessEnds
<1>13. ASSUME NEW r \in Requests, NEW f \in 1 .. forms, Setup!SubmitCode(r,
    f) PROVE DeadlinesHold'
  <2>1. CASE f \notin DOMAIN pending
    BY <1>13, <2>1 DEF Setup!SubmitCode
  <2>2. CASE f \in DOMAIN pending /\ ~(pending[f] > now)
    <3>1. /\ DOMAIN pending' = DOMAIN pending \ {f}
          /\ \A g \in DOMAIN pending' : pending'[g] = pending[g]
          /\ UNCHANGED <<now, server, boots, requests, forms, since, tries, paths, contents,
                         published,
                         overlapped>>
      BY <1>13, <2>2 DEF Setup!SubmitCode, Setup!Consumed, Setup!Without
    <3> QED
      BY <3>1
  <2>3. CASE f \in DOMAIN pending /\ pending[f] > now
    <3>1. /\ f \in 1 .. forms /\ now \in Nat /\ now < pending[f]
          /\ DOMAIN pending' = DOMAIN pending \ {f}
          /\ \A g \in DOMAIN pending' : pending'[g] = pending[g]
          /\ tries' = tries \union {[form |-> f, at |-> now, by |-> r]}
          /\ requests[r].at = "idle" /\ requests' \in [Requests -> Request]
          /\ requests'[r].at = "checking-code" /\ requests'[r].file = requests[r].file
          /\ requests'[r].form = f /\ requests'[r].expires = pending[f]
          /\ \A q \in Requests \ {r} : requests'[q] = requests[q]
          /\ UNCHANGED <<now, server, boots, forms, since, paths, contents, published,
                         overlapped>>
      BY <1>13, <2>3, CodeFields
    <3>2. \A g \in DOMAIN pending' : \A t \in tries' : t.form /= g
      BY <3>1
    <3>3. pending[f] <= since[f] + TTL
      BY <2>3
    <3> QED
      BY <3>1, <3>2, <3>3
  <2> QED
    BY <2>1, <2>2, <2>3
<1>14. ASSUME NEW f \in 1 .. forms, Setup!Expire(f) PROVE DeadlinesHold'
  BY <1>14 DEF Setup!Expire, Setup!Without
<1>15. CASE Setup!Restart
  BY <1>15 DEF Setup!Restart, Setup!ProcessEnds
<1>16. CASE Setup!Boot
  BY <1>16 DEF Setup!Boot
<1>17. CASE Setup!Tick
  BY <1>17 DEF Setup!Tick
<1> HIDE DEF SetupInvariant, SetupTypeOK, SetupParameters, DeadlinesHold
<1> QED
  BY <1>1, <1>2, <1>3, <1>4, <1>5, <1>6, <1>7, <1>8, <1>9, <1>10, <1>11, <1>12, <1>13, <1>14,
     <1>15, <1>16, <1>17
     DEF Setup!Next

\* A code goes with a form of its own, in time.
LEMMA CodesStep == SetupParameters /\ SetupInvariant /\ Setup!Next => Setup!CodesAreForOneTry'
<1> SUFFICES ASSUME SetupParameters, SetupInvariant, Setup!Next
             PROVE  Setup!CodesAreForOneTry'
  OBVIOUS
<1> USE DEF SetupInvariant, DeadlinesHold, Setup!CodesAreForOneTry, SetupTypeOK,
    SetupParameters, Request,
        Places, Setup!Writing, Setup!At, Setup!Idle, Setup!StagingPath, Setup!diskVars,
            Setup!formVars, Setup!containerVars
<1>1. ASSUME NEW r \in Requests, Setup!SubmitSignIn(r) PROVE Setup!CodesAreForOneTry'
  BY <1>1 DEF Setup!SubmitSignIn, Setup!Goto
<1>2. ASSUME NEW r \in Requests, Setup!SignInAccepted(r) PROVE Setup!CodesAreForOneTry'
  BY <1>2 DEF Setup!SignInAccepted, Setup!Goto
<1>3. ASSUME NEW r \in Requests, Setup!CodeRequired(r) PROVE Setup!CodesAreForOneTry'
  <2>1. None \in Nat \union {None} /\ now \in Nat
    BY <1>3 DEF Setup!CodeRequired
  <2>2. /\ forms' = forms + 1 /\ since'[forms'] = now
        /\ \A f \in 1 .. forms : f \in 1 .. forms' /\ f /= forms' /\ since'[f] = since[f]
        /\ DOMAIN pending' \subseteq 1 .. forms'
        /\ \A f \in DOMAIN pending' : f /= forms' => f \in DOMAIN pending /\ pending'[f] = pending[f]
        /\ forms' \in DOMAIN pending' =>
               pending'[forms'] = IF None = None THEN now + TTL ELSE None
    BY <1>3, <2>1, FormFields DEF Setup!CodeRequired
  <2>3. UNCHANGED tries /\ requests' = [requests EXCEPT ![r] = Setup!Idle]
    BY <1>3 DEF Setup!CodeRequired, Setup!Done
  <2>4. \A t \in tries' : t.form \in 1 .. forms /\ since'[t.form] = since[t.form]
    BY <2>2, <2>3
  <2> QED
    BY <2>3, <2>4
<1>4. ASSUME NEW r \in Requests, Setup!SignInFails(r) PROVE Setup!CodesAreForOneTry'
  BY <1>4 DEF Setup!SignInFails, Setup!Done
<1>5. ASSUME NEW r \in Requests, Setup!CodeAccepted(r) PROVE Setup!CodesAreForOneTry'
  BY <1>5 DEF Setup!CodeAccepted, Setup!Goto
<1>6. ASSUME NEW r \in Requests, Setup!CodeWrong(r) PROVE Setup!CodesAreForOneTry'
  <2>1. requests[r].expires \in Nat \union {None} /\ since[requests[r].form] \in Nat
    BY <1>6 DEF Setup!CodeWrong
  <2>2. /\ forms' = forms + 1 /\ since'[forms'] = since[requests[r].form]
        /\ \A f \in 1 .. forms : f \in 1 .. forms' /\ f /= forms' /\ since'[f] = since[f]
        /\ DOMAIN pending' \subseteq 1 .. forms'
        /\ \A f \in DOMAIN pending' : f /= forms' => f \in DOMAIN pending /\ pending'[f] = pending[f]
        /\ forms' \in DOMAIN pending' =>
               pending'[forms'] = IF requests[r].expires = None THEN now + TTL ELSE requests[r].expires
    BY <1>6, <2>1, FormFields DEF Setup!CodeWrong
  <2>3. UNCHANGED tries /\ requests' = [requests EXCEPT ![r] = Setup!Idle]
    BY <1>6 DEF Setup!CodeWrong, Setup!Done
  <2>4. \A t \in tries' : t.form \in 1 .. forms /\ since'[t.form] = since[t.form]
    BY <2>2, <2>3
  <2> QED
    BY <2>3, <2>4
<1>7. ASSUME NEW r \in Requests, Setup!Blocked(r) PROVE Setup!CodesAreForOneTry'
  BY <1>7 DEF Setup!Blocked, Setup!Done
<1>8. ASSUME NEW r \in Requests, Setup!OpenStaging(r) PROVE Setup!CodesAreForOneTry'
  BY <1>8 DEF Setup!OpenStaging
<1>9. ASSUME NEW r \in Requests, Setup!Write(r) PROVE Setup!CodesAreForOneTry'
  BY <1>9 DEF Setup!Write
<1>10. ASSUME NEW r \in Requests, Setup!Rename(r) PROVE Setup!CodesAreForOneTry'
  BY <1>10 DEF Setup!Rename, Setup!Goto
<1>11. ASSUME NEW r \in Requests, Setup!WriteFails(r) PROVE Setup!CodesAreForOneTry'
  BY <1>11 DEF Setup!WriteFails, Setup!Done
<1>12. ASSUME NEW r \in Requests, Setup!Close(r) PROVE Setup!CodesAreForOneTry'
  BY <1>12 DEF Setup!Close, Setup!ProcessEnds
<1>13. ASSUME NEW r \in Requests, NEW f \in 1 .. forms, Setup!SubmitCode(r, f)
      PROVE  Setup!CodesAreForOneTry'
  <2>1. CASE UNCHANGED <<tries, since>>
    BY <2>1
  <2>2. CASE f \in DOMAIN pending /\ pending[f] > now
    <3>1. /\ now \in Nat /\ now < pending[f] /\ UNCHANGED since
          /\ tries' = tries \union {[form |-> f, at |-> now, by |-> r]}
      BY <1>13, <2>2, CodeFields
    <3>2. pending[f] \in Nat /\ since[f] \in Nat /\ pending[f] <= since[f] + TTL
          /\ \A t \in tries : t.form /= f
      BY <2>2
    <3>3. \A t \in tries' : t.at < since[t.form] + TTL
      BY <3>1, <3>2
    <3>4. \A t, u \in tries' : t.form = u.form => t = u
      BY <3>1, <3>2
    <3> QED
      BY <3>1, <3>3, <3>4
  <2> QED
    BY <1>13, <2>1, <2>2 DEF Setup!SubmitCode
<1>14. ASSUME NEW f \in 1 .. forms, Setup!Expire(f) PROVE Setup!CodesAreForOneTry'
  BY <1>14 DEF Setup!Expire, Setup!Without
<1>15. CASE Setup!Restart
  BY <1>15 DEF Setup!Restart, Setup!ProcessEnds
<1>16. CASE Setup!Boot
  BY <1>16 DEF Setup!Boot
<1>17. CASE Setup!Tick
  BY <1>17 DEF Setup!Tick
<1> HIDE DEF SetupInvariant, SetupTypeOK, SetupParameters, DeadlinesHold, Setup!CodesAreForOneTry
<1> QED
  BY <1>1, <1>2, <1>3, <1>4, <1>5, <1>6, <1>7, <1>8, <1>9, <1>10, <1>11, <1>12, <1>13, <1>14,
     <1>15, <1>16, <1>17
     DEF Setup!Next

\* The one that writes has the staging file to itself.
LEMMA StagingStep == SetupParameters /\ SetupInvariant /\ Setup!Next => StagingIsOwn'
<1> SUFFICES ASSUME SetupParameters, SetupInvariant, Setup!Next
             PROVE  StagingIsOwn'
  OBVIOUS
<1> USE DEF SetupInvariant, StagingIsOwn, SetupTypeOK, SetupParameters, Request, Places,
    Setup!Writing, Setup!At,
        Setup!Idle, Setup!StagingPath, Setup!diskVars, Setup!formVars, Setup!containerVars
<1>1. ASSUME NEW r \in Requests, Setup!SubmitSignIn(r) PROVE StagingIsOwn'
  BY <1>1 DEF Setup!SubmitSignIn, Setup!Goto
<1>2. ASSUME NEW r \in Requests, Setup!SignInAccepted(r) PROVE StagingIsOwn'
  BY <1>2 DEF Setup!SignInAccepted, Setup!Goto
<1>3. ASSUME NEW r \in Requests, Setup!CodeRequired(r) PROVE StagingIsOwn'
  BY <1>3 DEF Setup!CodeRequired, Setup!Done, Setup!StorePending, Setup!Deadline
<1>4. ASSUME NEW r \in Requests, Setup!SignInFails(r) PROVE StagingIsOwn'
  BY <1>4 DEF Setup!SignInFails, Setup!Done
<1>5. ASSUME NEW r \in Requests, Setup!CodeAccepted(r) PROVE StagingIsOwn'
  BY <1>5 DEF Setup!CodeAccepted, Setup!Goto
<1>6. ASSUME NEW r \in Requests, Setup!CodeWrong(r) PROVE StagingIsOwn'
  BY <1>6 DEF Setup!CodeWrong, Setup!Done, Setup!StorePending, Setup!Deadline
<1>7. ASSUME NEW r \in Requests, Setup!Blocked(r) PROVE StagingIsOwn'
  BY <1>7 DEF Setup!Blocked, Setup!Done
<1>8. ASSUME NEW r \in Requests, Setup!OpenStaging(r) PROVE StagingIsOwn'
  <2>1. PICK file \in Setup!Files :
           /\ file = paths["staging"] \/ (paths["staging"] = None /\ file /= paths["token"])
           /\ contents'[file] = "empty" /\ contents' \in [Setup!Files -> {"empty", "whole"}]
           /\ \A g \in Setup!Files \ {file} : contents'[g] = contents[g]
           /\ paths'["staging"] = file /\ paths'["token"] = paths["token"]
           /\ paths' \in [{"staging", "token"} -> Setup!Files \union {None}]
           /\ requests'[r].at = "writing" /\ requests'[r].file = file
           /\ \A q \in Requests \ {r} : requests'[q] = requests[q]
           /\ requests' \in [Requests -> Request]
    BY <1>8, StagingFields
  <2>2. /\ UNCHANGED <<now, server, boots, pending, forms, since, tries, published>>
        /\ overlapped' = (overlapped \/ Setup!Writing /= {})
        /\ requests[r].at = "preflight"
    BY <1>8 DEF Setup!OpenStaging
  <2>3. ASSUME ~overlapped' PROVE Setup!Writing' = {r} /\ ~overlapped
    <3>1. ~overlapped /\ \A q \in Requests : requests[q].at \notin {"writing", "renaming"}
      BY <2>2, <2>3
    <3>2. \A q \in Requests : q /= r => requests'[q].at \notin {"writing", "renaming"}
      BY <2>1, <3>1
    <3> QED
      BY <2>1, <3>1, <3>2
  <2>4. ~overlapped' /\ paths'["token"] /= None => paths'["token"] /= paths'["staging"]
    BY <2>1, <2>2
  <2> QED
    BY <2>1, <2>3, <2>4
<1>9. ASSUME NEW r \in Requests, Setup!Write(r) PROVE StagingIsOwn'
  BY <1>9 DEF Setup!Write
<1>10. ASSUME NEW r \in Requests, Setup!Rename(r) PROVE StagingIsOwn'
  BY <1>10 DEF Setup!Rename, Setup!Goto
<1>11. ASSUME NEW r \in Requests, Setup!WriteFails(r) PROVE StagingIsOwn'
  BY <1>11 DEF Setup!WriteFails, Setup!Done
<1>12. ASSUME NEW r \in Requests, Setup!Close(r) PROVE StagingIsOwn'
  BY <1>12 DEF Setup!Close, Setup!ProcessEnds
<1>13. ASSUME NEW r \in Requests, NEW f \in 1 .. forms, Setup!SubmitCode(r, f) PROVE StagingIsOwn'
  <2>1. CASE f \notin DOMAIN pending
    BY <1>13, <2>1 DEF Setup!SubmitCode
  <2>2. CASE f \in DOMAIN pending /\ ~(pending[f] > now)
    <3>1. /\ DOMAIN pending' = DOMAIN pending \ {f}
          /\ \A g \in DOMAIN pending' : pending'[g] = pending[g]
          /\ UNCHANGED <<now, server, boots, requests, forms, since, tries, paths, contents,
                         published,
                         overlapped>>
      BY <1>13, <2>2 DEF Setup!SubmitCode, Setup!Consumed, Setup!Without
    <3> QED
      BY <3>1
  <2>3. CASE f \in DOMAIN pending /\ pending[f] > now
    <3>1. /\ f \in 1 .. forms /\ now \in Nat /\ now < pending[f]
          /\ DOMAIN pending' = DOMAIN pending \ {f}
          /\ \A g \in DOMAIN pending' : pending'[g] = pending[g]
          /\ tries' = tries \union {[form |-> f, at |-> now, by |-> r]}
          /\ requests[r].at = "idle" /\ requests' \in [Requests -> Request]
          /\ requests'[r].at = "checking-code" /\ requests'[r].file = requests[r].file
          /\ requests'[r].form = f /\ requests'[r].expires = pending[f]
          /\ \A q \in Requests \ {r} : requests'[q] = requests[q]
          /\ UNCHANGED <<now, server, boots, forms, since, paths, contents, published,
                         overlapped>>
      BY <1>13, <2>3, CodeFields
    <3>2. \A q \in Requests : q \in Setup!Writing' <=> q \in Setup!Writing
      BY <3>1
    <3>3. Setup!Writing' \subseteq Requests /\ Setup!Writing \subseteq Requests /\ r \notin Setup!Writing
      BY <3>1
    <3>4. \A q \in Setup!Writing' : q \in Setup!Writing /\ requests'[q] = requests[q]
      BY <3>1, <3>2, <3>3
    <3> HIDE DEF Setup!Writing
    <3> QED
      BY <3>1, <3>4
  <2> QED
    BY <2>1, <2>2, <2>3
<1>14. ASSUME NEW f \in 1 .. forms, Setup!Expire(f) PROVE StagingIsOwn'
  BY <1>14 DEF Setup!Expire, Setup!Without
<1>15. CASE Setup!Restart
  BY <1>15 DEF Setup!Restart, Setup!ProcessEnds
<1>16. CASE Setup!Boot
  BY <1>16 DEF Setup!Boot
<1>17. CASE Setup!Tick
  BY <1>17 DEF Setup!Tick
<1> HIDE DEF SetupInvariant, SetupTypeOK, SetupParameters, StagingIsOwn
<1> QED
  BY <1>1, <1>2, <1>3, <1>4, <1>5, <1>6, <1>7, <1>8, <1>9, <1>10, <1>11, <1>12, <1>13, <1>14,
     <1>15, <1>16, <1>17
     DEF Setup!Next

\* The token is whole.
LEMMA TokenStep == SetupParameters /\ SetupInvariant /\ Setup!Next => Setup!TokenIsWhole'
<1> SUFFICES ASSUME SetupParameters, SetupInvariant, Setup!Next
             PROVE  Setup!TokenIsWhole'
  OBVIOUS
<1> USE DEF SetupInvariant, StagingIsOwn, Setup!TokenIsWhole, Setup!TokenPresent, SetupTypeOK,
    SetupParameters,
        Request, Places, Setup!Writing, Setup!At, Setup!Idle, Setup!StagingPath, Setup!diskVars,
            Setup!formVars, Setup!containerVars
<1>1. ASSUME NEW r \in Requests, Setup!SubmitSignIn(r) PROVE Setup!TokenIsWhole'
  BY <1>1 DEF Setup!SubmitSignIn, Setup!Goto
<1>2. ASSUME NEW r \in Requests, Setup!SignInAccepted(r) PROVE Setup!TokenIsWhole'
  BY <1>2 DEF Setup!SignInAccepted, Setup!Goto
<1>3. ASSUME NEW r \in Requests, Setup!CodeRequired(r) PROVE Setup!TokenIsWhole'
  BY <1>3 DEF Setup!CodeRequired, Setup!Done, Setup!StorePending, Setup!Deadline
<1>4. ASSUME NEW r \in Requests, Setup!SignInFails(r) PROVE Setup!TokenIsWhole'
  BY <1>4 DEF Setup!SignInFails, Setup!Done
<1>5. ASSUME NEW r \in Requests, Setup!CodeAccepted(r) PROVE Setup!TokenIsWhole'
  BY <1>5 DEF Setup!CodeAccepted, Setup!Goto
<1>6. ASSUME NEW r \in Requests, Setup!CodeWrong(r) PROVE Setup!TokenIsWhole'
  BY <1>6 DEF Setup!CodeWrong, Setup!Done, Setup!StorePending, Setup!Deadline
<1>7. ASSUME NEW r \in Requests, Setup!Blocked(r) PROVE Setup!TokenIsWhole'
  BY <1>7 DEF Setup!Blocked, Setup!Done
<1>8. ASSUME NEW r \in Requests, Setup!OpenStaging(r) PROVE Setup!TokenIsWhole'
  <2>1. PICK file \in Setup!Files :
           /\ file = paths["staging"] \/ (paths["staging"] = None /\ file /= paths["token"])
           /\ contents'[file] = "empty" /\ contents' \in [Setup!Files -> {"empty", "whole"}]
           /\ \A g \in Setup!Files \ {file} : contents'[g] = contents[g]
           /\ paths'["staging"] = file /\ paths'["token"] = paths["token"]
           /\ paths' \in [{"staging", "token"} -> Setup!Files \union {None}]
           /\ requests'[r].at = "writing" /\ requests'[r].file = file
           /\ \A q \in Requests \ {r} : requests'[q] = requests[q]
           /\ requests' \in [Requests -> Request]
    BY <1>8, StagingFields
  <2>2. /\ UNCHANGED <<now, server, boots, pending, forms, since, tries, published>>
        /\ overlapped' = (overlapped \/ Setup!Writing /= {})
        /\ requests[r].at = "preflight"
    BY <1>8 DEF Setup!OpenStaging
  <2>3. ~overlapped' /\ paths["token"] /= None => paths["token"] \in Setup!Files \ {file}
    BY <2>1, <2>2
  <2> QED
    BY <2>1, <2>2, <2>3
<1>9. ASSUME NEW r \in Requests, Setup!Write(r) PROVE Setup!TokenIsWhole'
  BY <1>9 DEF Setup!Write
<1>10. ASSUME NEW r \in Requests, Setup!Rename(r) PROVE Setup!TokenIsWhole'
  BY <1>10 DEF Setup!Rename, Setup!Goto
<1>11. ASSUME NEW r \in Requests, Setup!WriteFails(r) PROVE Setup!TokenIsWhole'
  BY <1>11 DEF Setup!WriteFails, Setup!Done
<1>12. ASSUME NEW r \in Requests, Setup!Close(r) PROVE Setup!TokenIsWhole'
  BY <1>12 DEF Setup!Close, Setup!ProcessEnds
<1>13. ASSUME NEW r \in Requests, NEW f \in 1 .. forms, Setup!SubmitCode(r,
    f) PROVE Setup!TokenIsWhole'
  BY <1>13 DEF Setup!SubmitCode, Setup!Consumed, Setup!Without
<1>14. ASSUME NEW f \in 1 .. forms, Setup!Expire(f) PROVE Setup!TokenIsWhole'
  BY <1>14 DEF Setup!Expire, Setup!Without
<1>15. CASE Setup!Restart
  BY <1>15 DEF Setup!Restart, Setup!ProcessEnds
<1>16. CASE Setup!Boot
  BY <1>16 DEF Setup!Boot
<1>17. CASE Setup!Tick
  BY <1>17 DEF Setup!Tick
<1> HIDE DEF SetupInvariant, SetupTypeOK, SetupParameters, StagingIsOwn, Setup!TokenIsWhole
<1> QED
  BY <1>1, <1>2, <1>3, <1>4, <1>5, <1>6, <1>7, <1>8, <1>9, <1>10, <1>11, <1>12, <1>13, <1>14,
     <1>15, <1>16, <1>17
     DEF Setup!Next

-----------------------------------------------------------------------------
(* The theorems                                                                *)

\* Initially no form is out, and a token on the volume is whole.
LEMMA SetupInitInvariant == SetupParameters /\ Setup!Init => SetupInvariant
<1> SUFFICES ASSUME SetupParameters, Setup!Init PROVE SetupInvariant
  OBVIOUS
<1>1. Setup!Files \subseteq Nat /\ 0 \notin Setup!Files /\ 1 \in Setup!Files
  <2>1. Cardinality(Requests) \in Nat
    BY FS_CardinalityType DEF SetupParameters
  <2> QED
    BY <2>1, RequestsAreCounted DEF Setup!Files
<1>2. PICK f \in {None, 1} : paths = [staging |-> None, token |-> f]
  BY DEF Setup!Init
<1>3. /\ paths \in [{"staging", "token"} -> Setup!Files \union {None}]
      /\ paths["staging"] = None
  BY <1>1, <1>2
<1>4. /\ requests = [r \in Requests |-> Setup!Idle] /\ requests \in [Requests -> Request]
      /\ \A r \in Requests : requests[r].at = "idle" /\ requests[r].file = 0
  BY DEF Setup!Init, Setup!Idle, Request, Places
<1>5. /\ contents \in [Setup!Files -> {"empty", "whole"}] /\ \A g \in Setup!Files : contents[g] = "whole"
      /\ forms = 0 /\ DOMAIN pending = {} /\ since \in [1 .. forms -> Nat] /\ tries = {}
      /\ now = 0 /\ server = "booting" /\ boots = 1 /\ published = FALSE /\ overlapped = FALSE
  BY DEF Setup!Init
<1>6. Setup!Writing = {}
  BY <1>4 DEF Setup!Writing
<1>7. SetupTypeOK
  BY <1>1, <1>3, <1>4, <1>5, <1>6 DEF SetupTypeOK
<1>8. paths["token"] /= None => contents[paths["token"]] = "whole"
  BY <1>3, <1>5
<1>9. DeadlinesHold /\ Setup!CodesAreForOneTry
  BY <1>4, <1>5 DEF DeadlinesHold, Setup!CodesAreForOneTry
<1>10. StagingIsOwn /\ Setup!TokenIsWhole
  BY <1>3, <1>5, <1>6, <1>8 DEF StagingIsOwn, Setup!TokenIsWhole
<1> QED
  BY <1>7, <1>9, <1>10 DEF SetupInvariant

\* Every step keeps the invariant.
LEMMA SetupNextInvariant ==
    SetupParameters /\ SetupInvariant /\ [Setup!Next]_(Setup!vars) => SetupInvariant'
<1> SUFFICES ASSUME SetupParameters, SetupInvariant, [Setup!Next]_(Setup!vars) PROVE SetupInvariant'
  OBVIOUS
<1>1. CASE Setup!Next
  BY <1>1, TypeStep, DeadlinesStep, CodesStep, StagingStep, TokenStep DEF SetupInvariant
<1>2. CASE UNCHANGED Setup!vars
  BY <1>2 DEF Setup!vars, Setup!diskVars, Setup!formVars, Setup!containerVars, SetupInvariant,
      SetupTypeOK, Setup!Writing,
     DeadlinesHold, Setup!CodesAreForOneTry, StagingIsOwn, Setup!TokenIsWhole, Setup!TokenPresent
<1> QED
  BY <1>1, <1>2

\* The invariant holds in every reachable state.
LEMMA SetupInvariantHolds == SetupParameters => (Setup!Spec => []SetupInvariant)
<1> SUFFICES ASSUME SetupParameters PROVE Setup!Spec => []SetupInvariant
  OBVIOUS
<1>1. Setup!Init => SetupInvariant
  BY SetupInitInvariant
<1>2. SetupInvariant /\ [Setup!Next]_(Setup!vars) => SetupInvariant'
  BY SetupNextInvariant
<1> QED
  BY <1>1, <1>2, PTL DEF Setup!Spec

\* The handlers' records, the pending sign-ins, the forms, the paths and the files keep
\* their types; a file is always found for the staging path (sync-token-store.ts).
THEOREM SetupTypeCorrect == SetupParameters => (Setup!Spec => []SetupTypeOK)
<1>1. SetupInvariant => SetupTypeOK
  BY DEF SetupInvariant
<1> QED
  BY <1>1, SetupInvariantHolds, PTL

\* Whatever codes are mistyped, sent twice or sent late, a form's code goes to Obsidian
\* once, and within the time that the accepted password gave (setup-routes.ts,
\* consumePendingSignIn and storePendingSignIn).
THEOREM CodesAreTriedOnce == SetupParameters => (Setup!Spec => []Setup!CodesAreForOneTry)
<1>1. SetupInvariant => Setup!CodesAreForOneTry
  BY DEF SetupInvariant
<1> QED
  BY <1>1, SetupInvariantHolds, PTL

\* As long as no two sign-ins write at once, a token at its path is whole whenever the
\* process dies, and there is one once a sign-in was published or the container halts
\* or serves (sync-token-store.ts).
THEOREM TokenStaysWhole == SetupParameters => (Setup!Spec => []Setup!TokenIsWhole)
<1>1. SetupInvariant => Setup!TokenIsWhole
  BY DEF SetupInvariant
<1> QED
  BY <1>1, SetupInvariantHolds, PTL

-----------------------------------------------------------------------------
(* The link rows: LinkIndex.                                                   *)

Vault == NotePaths \union FilePaths

\* Rows are those of indexed notes and canvases, and a cached list of notes is the
\* present one.
RowsHaveSources ==
    /\ notes \subseteq NotePaths /\ files \subseteq FilePaths
    /\ DOMAIN written = Links!Sources
    /\ \A entry \in links : entry.source \in notes \union (files \intersect Canvases)
    /\ canvasNotes \in {{}, {notes}}

LinkInvariant == RowsHaveSources /\ Links!NoForwardReferenceIsMissed

\* The library's least of a set is its least.
LEMMA MinIsLeast ==
    ASSUME NEW T, T \subseteq Nat, T /= {}
    PROVE  Links!Min(T) \in T /\ \A k \in T : Links!Min(T) <= k
BY LeastExists DEF Links!Min

\* The first alternative that leads somewhere, of two.
LEMMA FirstOfTwo ==
    ASSUME NEW x, NEW y
    PROVE  Links!FirstOf(<<x, y>>) = IF x /= Links!Nowhere THEN x ELSE y
<1> DEFINE s == <<x, y>>
<1> DEFINE found == {i \in DOMAIN s : s[i] /= Links!Nowhere}
<1>1. DOMAIN s = {1, 2} /\ s[1] = x /\ s[2] = y
  OBVIOUS
<1>2. Links!FirstOf(s) = IF found = {} THEN Links!Nowhere ELSE s[Links!Min(found)]
  BY Zenon DEF Links!FirstOf
<1> SUFFICES Links!FirstOf(s) = IF x /= Links!Nowhere THEN x ELSE y
  OBVIOUS
<1> HIDE DEF s
<1>3. CASE found = {}
  BY <1>1, <1>2, <1>3
<1>4. CASE found /= {}
  <2>1. Links!Min(found) \in found /\ \A k \in found : Links!Min(found) <= k
    BY <1>1, <1>4, MinIsLeast
  <2>2. Links!Min(found) = IF x /= Links!Nowhere THEN 1 ELSE 2
    BY <1>1, <2>1
  <2> HIDE DEF found
  <2>3. Links!FirstOf(s) = s[Links!Min(found)]
    BY <1>2, <1>4
  <2>4. x = Links!Nowhere => y /= Links!Nowhere
    BY <1>1, <1>4 DEF found
  <2> QED
    BY <1>1, <2>2, <2>3
<1> QED
  BY <1>3, <1>4

\* The same, of three.
LEMMA FirstOfThree ==
    ASSUME NEW x, NEW y, NEW z
    PROVE  Links!FirstOf(<<x, y, z>>) = IF x /= Links!Nowhere THEN x
                                        ELSE IF y /= Links!Nowhere THEN y ELSE z
<1> DEFINE s == <<x, y, z>>
<1> DEFINE found == {i \in DOMAIN s : s[i] /= Links!Nowhere}
<1>1. DOMAIN s = {1, 2, 3} /\ s[1] = x /\ s[2] = y /\ s[3] = z
  OBVIOUS
<1>2. Links!FirstOf(s) = IF found = {} THEN Links!Nowhere ELSE s[Links!Min(found)]
  BY Zenon DEF Links!FirstOf
<1> SUFFICES Links!FirstOf(s) = IF x /= Links!Nowhere THEN x
                                ELSE IF y /= Links!Nowhere THEN y ELSE z
  OBVIOUS
<1> HIDE DEF s
<1>3. CASE found = {}
  BY <1>1, <1>2, <1>3
<1>4. CASE found /= {}
  <2>1. Links!Min(found) \in found /\ \A k \in found : Links!Min(found) <= k
    BY <1>1, <1>4, MinIsLeast
  <2>2. Links!Min(found) = IF x /= Links!Nowhere THEN 1 ELSE IF y /= Links!Nowhere THEN 2 ELSE 3
    BY <1>1, <2>1
  <2> HIDE DEF found
  <2>3. Links!FirstOf(s) = s[Links!Min(found)]
    BY <1>2, <1>4
  <2> QED
    BY <1>1, <2>2, <2>3
<1> QED
  BY <1>3, <1>4

\* An answer is an alternative, and there is none when every alternative of a
\* sequence leads nowhere.
LEMMA FirstOfMany ==
    ASSUME NEW s, DOMAIN s \subseteq Nat
    PROVE  /\ Links!FirstOf(s) = Links!Nowhere <=> \A i \in DOMAIN s : s[i] = Links!Nowhere
           /\ Links!FirstOf(s) /= Links!Nowhere => \E i \in DOMAIN s : Links!FirstOf(s) = s[i]
<1> DEFINE found == {i \in DOMAIN s : s[i] /= Links!Nowhere}
<1>1. Links!FirstOf(s) = IF found = {} THEN Links!Nowhere ELSE s[Links!Min(found)]
  BY Zenon DEF Links!FirstOf
<1>2. CASE found = {}
  BY <1>1, <1>2
<1>3. CASE found /= {}
  <2>1. Links!Min(found) \in found
    BY <1>3, MinIsLeast
  <2> QED
    BY <1>1, <1>3, <2>1
<1> QED
  BY <1>2, <1>3

\* The shortest path of a set of them is one of them.
LEMMA ShortestIsOne ==
    ASSUME Links!LinkParameters, NEW A, A \subseteq Vault
    PROVE  /\ Links!Shortest(A) = Links!Nowhere <=> A = {}
           /\ A /= {} => Links!Shortest(A) \in A
<1>1. CASE A = {}
  BY <1>1 DEF Links!Shortest
<1>2. CASE A /= {}
  <2> DEFINE found == {i \in DOMAIN PathOrder : PathOrder[i] \in A}
  <2>1. found /= {} /\ found \subseteq Nat
    BY <1>2 DEF Links!LinkParameters, Vault
  <2>2. Links!Shortest(A) = PathOrder[Links!Min(found)]
    BY <1>2, Zenon DEF Links!Shortest
  <2>3. Links!Min(found) \in found
    BY <2>1, MinIsLeast
  <2> QED
    BY <1>2, <2>2, <2>3 DEF Links!LinkParameters, Vault
<1> QED
  BY <1>1, <1>2

\* A note is found by a path of it from the root or from the source, or by its name.
LEMMA NoteFound ==
    ASSUME Links!LinkParameters, NEW A, A \subseteq Vault, NEW note, NEW from
    PROVE  /\ Links!ResolveNote(note, A, from) = Links!Nowhere <=>
                  /\ note \notin A /\ Links!Join(from, note) \notin A
                  /\ \A p \in A : ~Links!EndsIn(p, note)
           /\ Links!ResolveNote(note, A, from) /= Links!Nowhere =>
                  Links!ResolveNote(note, A, from) \in A
<1> DEFINE named == {p \in A : Links!EndsIn(p, note)}
<1>1. /\ Links!Shortest(named) = Links!Nowhere <=> named = {}
      /\ named /= {} => Links!Shortest(named) \in named
  BY ShortestIsOne
<1>2. \A p : /\ Links!IfIn(p, A) = Links!Nowhere <=> p \notin A
             /\ Links!IfIn(p, A) /= Links!Nowhere => Links!IfIn(p, A) \in A
  BY DEF Links!IfIn, Links!LinkParameters, Vault
<1> DEFINE x == Links!IfIn(note, A)
           y == Links!IfIn(Links!Join(from, note), A)
           z == Links!Shortest(named)
<1>3. Links!ResolveNote(note, A, from) = Links!FirstOf(<<x, y, z>>)
  BY DEF Links!ResolveNote
<1> HIDE DEF x, y, z
<1>4. Links!FirstOf(<<x, y, z>>) = IF x /= Links!Nowhere THEN x
                                   ELSE IF y /= Links!Nowhere THEN y ELSE z
  BY FirstOfThree
<1> QED
  BY <1>1, <1>2, <1>3, <1>4 DEF x, y, z

\* How a file is found: the six ways of ResolveFrom.
Finds(target, here, p) ==
    \/ p \in {target, here}
    \/ Links!EndsIn(p, target)
    \/ Links!Stem(p) \in {target, here}
    \/ IF target.dir /= << >> THEN Links!EndsIn(Links!Stem(p), target)
                              ELSE Links!Stem(p).name = target.name

LEMMA FileFound ==
    ASSUME Links!LinkParameters, NEW A, A \subseteq Vault, NEW target, NEW here
    PROVE  /\ Links!ResolveFrom(target, here, A) = Links!Nowhere <=>
                  \A p \in A : ~Finds(target, here, p)
           /\ Links!ResolveFrom(target, here, A) /= Links!Nowhere =>
                  Links!ResolveFrom(target, here, A) \in A
<1> DEFINE s3 == {p \in A : Links!EndsIn(p, target)}
           s4 == {p \in A : Links!Stem(p) = target}
           s5 == {p \in A : Links!Stem(p) = here}
           s6 == {p \in A : IF target.dir /= << >> THEN Links!EndsIn(Links!Stem(p), target)
                            ELSE Links!Stem(p).name = target.name}
           s == <<Links!IfIn(target, A), Links!IfIn(here, A), Links!Shortest(s3),
                  Links!Shortest(s4), Links!Shortest(s5), Links!Shortest(s6)>>
<1>1. Links!ResolveFrom(target, here, A) = Links!FirstOf(s)
  BY Zenon DEF Links!ResolveFrom
<1>2. /\ Links!IfIn(target, A) = Links!Nowhere <=> target \notin A
      /\ Links!IfIn(here, A) = Links!Nowhere <=> here \notin A
      /\ Links!IfIn(target, A) /= Links!Nowhere => Links!IfIn(target, A) \in A
      /\ Links!IfIn(here, A) /= Links!Nowhere => Links!IfIn(here, A) \in A
  BY DEF Links!IfIn, Links!LinkParameters, Vault
<1>3. \A B \in SUBSET A : /\ Links!Shortest(B) = Links!Nowhere <=> B = {}
                          /\ B /= {} => Links!Shortest(B) \in A
  BY ShortestIsOne
<1>4. /\ Links!Shortest(s3) = Links!Nowhere <=> s3 = {}
      /\ Links!Shortest(s3) /= Links!Nowhere => Links!Shortest(s3) \in A
      /\ Links!Shortest(s4) = Links!Nowhere <=> s4 = {}
      /\ Links!Shortest(s4) /= Links!Nowhere => Links!Shortest(s4) \in A
      /\ Links!Shortest(s5) = Links!Nowhere <=> s5 = {}
      /\ Links!Shortest(s5) /= Links!Nowhere => Links!Shortest(s5) \in A
      /\ Links!Shortest(s6) = Links!Nowhere <=> s6 = {}
      /\ Links!Shortest(s6) /= Links!Nowhere => Links!Shortest(s6) \in A
  <2>1. s3 \in SUBSET A /\ s4 \in SUBSET A /\ s5 \in SUBSET A /\ s6 \in SUBSET A
    OBVIOUS
  <2> HIDE DEF s3, s4, s5, s6
  <2> QED
    BY <1>3, <2>1
<1>5. /\ DOMAIN s = 1 .. 6
      /\ s[1] = Links!IfIn(target, A) /\ s[2] = Links!IfIn(here, A) /\ s[3] = Links!Shortest(s3)
      /\ s[4] = Links!Shortest(s4) /\ s[5] = Links!Shortest(s5) /\ s[6] = Links!Shortest(s6)
  <2> HIDE DEF s3, s4, s5, s6
  <2> QED
    OBVIOUS
<1>6. (\A p \in A : ~Finds(target, here, p)) <=>
          /\ target \notin A /\ here \notin A
          /\ s3 = {} /\ s4 = {} /\ s5 = {} /\ s6 = {}
  BY DEF Finds
<1> HIDE DEF s, s3, s4, s5, s6
<1>7. /\ Links!FirstOf(s) = Links!Nowhere <=> \A i \in DOMAIN s : s[i] = Links!Nowhere
      /\ Links!FirstOf(s) /= Links!Nowhere => \E i \in DOMAIN s : Links!FirstOf(s) = s[i]
  BY <1>5, FirstOfMany
<1>8. \A i \in 1 .. 6 : s[i] /= Links!Nowhere => s[i] \in A
  BY <1>2, <1>4, <1>5
<1>9. (\A i \in 1 .. 6 : s[i] = Links!Nowhere) <=>
          /\ target \notin A /\ here \notin A
          /\ s3 = {} /\ s4 = {} /\ s5 = {} /\ s6 = {}
  BY <1>2, <1>4, <1>5
<1> QED
  BY <1>1, <1>5, <1>6, <1>7, <1>8, <1>9

\* A note is found among some notes and another exactly when it is in one of the two.
LEMMA FoundWithNewNote ==
    ASSUME Links!LinkParameters, NEW A, A \subseteq Vault, NEW p \in Vault, NEW target, NEW from
    PROVE  Links!Resolve(target, A \union {p}, from) = Links!Nowhere <=>
               /\ Links!Resolve(target, A, from) = Links!Nowhere
               /\ Links!Resolve(target, {p}, from) = Links!Nowhere
<1> DEFINE note == Links!WithExtension(target, Links!Markdown)
<1> HIDE DEF note
<1>1. \A B \in SUBSET Vault :
          Links!ResolveNote(note, B, from) = Links!Nowhere <=>
              /\ note \notin B /\ Links!Join(from, note) \notin B
              /\ \A q \in B : ~Links!EndsIn(q, note)
  BY NoteFound
<1>2. A \in SUBSET Vault /\ {p} \in SUBSET Vault /\ A \union {p} \in SUBSET Vault
  OBVIOUS
<1>3. \A B : Links!Resolve(target, B, from) = Links!ResolveNote(note, B, from)
  BY DEF Links!Resolve, note
<1> QED
  BY <1>1, <1>2, <1>3

\* A note or a file that is found is among those looked through.
LEMMA FoundIsThere ==
    ASSUME Links!LinkParameters, NEW A, A \subseteq Vault, NEW target, NEW from
    PROVE  /\ Links!Resolve(target, A, from) /= Links!Nowhere =>
                  Links!Resolve(target, A, from) \in A
           /\ Links!ResolveFile(target, A, from) /= Links!Nowhere =>
                  Links!ResolveFile(target, A, from) \in A
BY NoteFound, FileFound DEF Links!Resolve, Links!ResolveFile, Links!ResolveAsset

\* A link leads nowhere when it leads to no note and to no other file.
LEMMA LeadsNowhere ==
    ASSUME NEW target, NEW A, NEW B, NEW from
    PROVE  Links!LeadsTo(target, A, B, from) = Links!Nowhere <=>
               /\ Links!Resolve(target, A, from) = Links!Nowhere
               /\ Links!ResolveFile(target, B, from) = Links!Nowhere
BY FirstOfTwo, Zenon DEF Links!LeadsTo, Links!ResolveFile

\* The empty path of folders ends any.
LEMMA EmptyEnds ==
    ASSUME NEW s \in Seq(STRING)
    PROVE  Links!IsSuffix(<< >>, s)
<1> DEFINE e == << >>
<1>1. Len(Links!Reverse(s)) = Len(s) /\ Links!Reverse(s) \in Seq(STRING)
  <2>1. Links!Reverse(s) = [i \in 1 .. Len(s) |-> s[(Len(s) - i) + 1]]
    BY DEF Links!Reverse
  <2> DEFINE R(i) == s[(Len(s) - i) + 1]
  <2>2. \A i \in 1 .. Len(s) : R(i) \in STRING
    OBVIOUS
  <2> HIDE DEF R
  <2>3. [i \in 1 .. Len(s) |-> R(i)] \in Seq(STRING)
    BY <2>2, IsASeq
  <2> QED
    BY <2>1, <2>3, LenProperties DEF R
<1>2. Links!Reverse(<< >>) = << >>
  BY DEF Links!Reverse
<1> QED
  BY <1>1, <1>2 DEF Links!IsSuffix, Links!IsPrefix

\* A new file that a link would find has been offered its row: matchesNewFile leaves
\* out none of the ways of resolveNonMarkdownFile.
LEMMA UnmatchedIsNotFound ==
    ASSUME Links!LinkParameters, NEW p \in Vault, NEW entry,
           ~Links!MatchesNewFile(entry, p)
    PROVE  ~Finds(entry.target, Links!Join(entry.source, entry.target), p)
<1>1. p.dir \in Seq(STRING) /\ Links!Stem(p).dir = p.dir
  BY DEF Links!LinkParameters, Vault, Links!Stem
<1>2. Links!IsSuffix(<< >>, p.dir)
  BY <1>1, EmptyEnds
<1>3. entry.target.dir = << >> /\ Links!Stem(p).name = entry.target.name =>
            Links!EndsIn(Links!Stem(p), entry.target)
  BY <1>1, <1>2 DEF Links!EndsIn
<1> HIDE DEF Vault
<1> QED
  BY <1>3, Zenon DEF Links!MatchesNewFile, Finds

\* A file is found among some files and another exactly when it is in one of the two.
LEMMA FoundWithNewFile ==
    ASSUME Links!LinkParameters, NEW A, A \subseteq Vault, NEW p \in Vault, NEW entry,
           ~Links!MatchesNewFile(entry, p),
           Links!ResolveFile(entry.target, A, entry.source) = Links!Nowhere
    PROVE  Links!ResolveFile(entry.target, A \union {p}, entry.source) = Links!Nowhere
<1> DEFINE here == Links!Join(entry.source, entry.target)
           target == entry.target
<1>1. ~Finds(target, here, p)
  BY UnmatchedIsNotFound
<1> HIDE DEF here, target
<1>2. \A B \in SUBSET Vault :
          Links!ResolveFrom(target, here, B) = Links!Nowhere <=>
              \A q \in B : ~Finds(target, here, q)
  BY FileFound
<1>3. A \in SUBSET Vault /\ A \union {p} \in SUBSET Vault
  OBVIOUS
<1>4. \A B : Links!ResolveFile(entry.target, B, entry.source) = Links!ResolveFrom(target, here, B)
  BY DEF Links!ResolveFile, Links!ResolveAsset, here, target
<1> QED
  BY <1>1, <1>2, <1>3, <1>4

\* What the rows of a source hold for a link of it.
Answer(s, t, A) ==
    Links!FirstOf(<<Links!Resolve(t, A, s), Links!ResolveFile(t, files, s), t>>)

\* The rows an index operation stores have the source they are of.
LEMMA RowsOfSource ==
    ASSUME NEW s, NEW targets, NEW A
    PROVE  \A entry \in Links!RowsOf(s, targets, A) :
                 \E t \in targets : entry = Links!Row(s, Answer(s, t, A))
BY Zenon DEF Links!RowsOf, Answer

\* A row that holds no path is the text of a link, which leads nowhere.
LEMMA TextLeadsNowhere ==
    ASSUME Links!LinkParameters, NEW A, A \subseteq Vault, files \subseteq Vault,
           NEW s, NEW targets, NEW entry \in Links!RowsOf(s, targets, A),
               entry.target \notin Vault
    PROVE  Links!LeadsTo(entry.target, A, files, entry.source) = Links!Nowhere
<1>1. PICK t \in targets : entry = Links!Row(s, Answer(s, t, A))
  BY RowsOfSource
<1>2. entry.source = s /\ entry.target = Answer(s, t, A)
  BY <1>1 DEF Links!Row
<1>3. entry.target = IF Links!Resolve(t, A, s) /= Links!Nowhere THEN Links!Resolve(t, A, s)
                     ELSE IF Links!ResolveFile(t, files, s) /= Links!Nowhere
                          THEN Links!ResolveFile(t, files, s) ELSE t
  BY <1>2, FirstOfThree, Zenon DEF Answer
<1>4. Links!Resolve(t, A, s) = Links!Nowhere /\ Links!ResolveFile(t, files, s) = Links!Nowhere
  BY <1>3, FoundIsThere
<1>5. entry.target = t
  BY <1>3, <1>4
<1> QED
  BY <1>2, <1>4, <1>5, LeadsNowhere

\* Taking over standing rows changes no row's source, and a row that is changed, or
\* is kept because nothing was found for it, holds what the operation says.
LEMMA UpgradedRows ==
    ASSUME NEW rows, NEW found, NEW new \in Links!Upgraded(rows, found)
    PROVE  \E entry \in rows :
                 /\ new.source = entry.source
                 /\ entry \notin DOMAIN found => new.target = entry.target
                 /\ entry \in DOMAIN found =>
                          new.target = IF found[entry] /= Links!Nowhere THEN found[entry] ELSE entry.target
<1>1. PICK entry \in rows :
          new = Links!Row(entry.source,
                          IF entry \in DOMAIN found THEN Links!FirstOf(<<found[entry], entry.target>>)
                                                    ELSE entry.target)
  BY Zenon DEF Links!Upgraded
<1>2. new.source = entry.source
      /\ new.target = IF entry \in DOMAIN found THEN Links!FirstOf(<<found[entry], entry.target>>)
                      ELSE entry.target
  BY <1>1 DEF Links!Row
<1> QED
  BY <1>2, FirstOfTwo

\* Rows keep sources that are indexed.
LEMMA SourcesStep == Links!LinkParameters /\ RowsHaveSources /\ Links!Next => RowsHaveSources'
<1> SUFFICES ASSUME Links!LinkParameters, RowsHaveSources, Links!Next PROVE RowsHaveSources'
  OBVIOUS
<1> USE DEF RowsHaveSources
<1>1. \A s, targets, A : \A entry \in Links!RowsOf(s, targets, A) : entry.source = s
  <2> TAKE s, targets, A
  <2> TAKE entry \in Links!RowsOf(s, targets, A)
  <2>1. PICK t \in targets : entry = Links!Row(s, Answer(s, t, A))
    BY RowsOfSource
  <2> QED
    BY <2>1 DEF Links!Row
<1>2. ASSUME NEW p \in NotePaths, NEW targets \in Written, Links!UpsertNote(p, targets)
      PROVE  RowsHaveSources'
  <2> DEFINE known == notes \union {p}
             rows == Links!RowsExcept(p) \union Links!RowsOf(p, targets, known)
             found == [entry \in Links!Standing(rows, known, files) |->
                             Links!Resolve(entry.target, {p}, entry.source)]
  <2>1. links' = Links!Upgraded(rows, found)
    BY <1>2, Zenon DEF Links!UpsertNote
  <2>2. /\ notes' = notes \union {p} /\ files' = files /\ canvasNotes' = {}
        /\ DOMAIN written' = DOMAIN written
    BY <1>2 DEF Links!UpsertNote
  <2>3. ASSUME NEW new \in links'
        PROVE  new.source \in notes' \union (files' \intersect Canvases)
    <3> HIDE DEF found, rows
    <3>1. PICK entry \in rows : new.source = entry.source
      BY <2>1, <2>3, UpgradedRows
    <3>2. entry \in links \/ entry.source = p
      BY <1>1, <3>1 DEF rows, Links!RowsExcept
    <3> QED
      BY <2>2, <3>1, <3>2
  <2> QED
    BY <2>2, <2>3
<1>3. ASSUME NEW p \in NotePaths, Links!RemoveNote(p) PROVE RowsHaveSources'
  BY <1>3 DEF Links!RemoveNote, Links!RowsExcept
<1>4. ASSUME NEW p \in FilePaths, Links!UpsertFile(p) PROVE RowsHaveSources'
  <2> DEFINE known == files \union {p}
             standing == {entry \in Links!Standing(links, notes, known) :
                                Links!MatchesNewFile(entry, p)}
             found == [entry \in standing |-> Links!ResolveFile(entry.target, known, entry.source)]
  <2>1. links' = Links!Upgraded(links, found)
    BY <1>4, Zenon DEF Links!UpsertFile
  <2>2. /\ files' = files \union {p} /\ notes' = notes /\ canvasNotes' = canvasNotes
        /\ written' = written
    BY <1>4 DEF Links!UpsertFile
  <2>3. ASSUME NEW new \in links'
        PROVE  new.source \in notes' \union (files' \intersect Canvases)
    <3> HIDE DEF found
    <3>1. PICK entry \in links : new.source = entry.source
      BY <2>1, <2>3, UpgradedRows
    <3> QED
      BY <2>2, <3>1
  <2> QED
    BY <2>2, <2>3
<1>5. ASSUME NEW p \in FilePaths, Links!RemoveFile(p) PROVE RowsHaveSources'
  BY <1>5 DEF Links!RemoveFile, Links!RowsExcept
<1>6. ASSUME NEW c \in Canvases, NEW targets \in Written, Links!UpsertCanvas(c, targets)
      PROVE  RowsHaveSources'
  BY <1>1, <1>6 DEF Links!UpsertCanvas, Links!RowsExcept
<1>7. CASE Links!Rebuild
  <2>1. \A entry \in links' : \E s \in notes \union (files \intersect Canvases) :
              entry \in Links!RowsOf(s, written[s], notes)
    BY <1>7, Zenon DEF Links!Rebuild
  <2>2. \A entry \in links' : entry.source \in notes \union (files \intersect Canvases)
    BY <1>1, <2>1
  <2> QED
    BY <1>7, <2>2 DEF Links!Rebuild
<1> QED
  BY <1>2, <1>3, <1>4, <1>5, <1>6, <1>7 DEF Links!Next

\* No link that would lead somewhere stays stored as text.
LEMMA ForwardStep ==
    Links!LinkParameters /\ LinkInvariant /\ Links!Next => Links!NoForwardReferenceIsMissed'
<1> SUFFICES ASSUME Links!LinkParameters, RowsHaveSources, Links!NoForwardReferenceIsMissed,
                    Links!Next,
                    NEW new \in links',
                    new.target \notin notes' \union files',
                    new.target \in written'[new.source], new.target \notin Vault
             PROVE  Links!LeadsTo(new.target, notes', files', new.source) = Links!Nowhere
  BY DEF LinkInvariant, Links!NoForwardReferenceIsMissed, Links!Standing, Vault
<1> DEFINE Text(entry, A, B) == Links!LeadsTo(entry.target, A, B, entry.source) = Links!Nowhere
<1>1. notes \subseteq Vault /\ files \subseteq Vault
  BY DEF RowsHaveSources, Vault
<1>2. ASSUME NEW entry \in links, entry.target \in written[entry.source], entry.target \notin Vault
      PROVE  /\ Links!Resolve(entry.target, notes, entry.source) = Links!Nowhere
             /\ Links!ResolveFile(entry.target, files, entry.source) = Links!Nowhere
             /\ Links!LeadsTo(entry.target, notes, files, entry.source) = Links!Nowhere
  <2>1. entry \in Links!Standing(links, notes, files)
    BY <1>1, <1>2 DEF Links!Standing
  <2>2. Links!LeadsTo(entry.target, notes, files, entry.source) = Links!Nowhere
    BY <1>2, <2>1 DEF Links!NoForwardReferenceIsMissed, Vault
  <2> QED
    BY <2>2, LeadsNowhere
<1>3. ASSUME NEW p \in NotePaths, NEW targets \in Written, Links!UpsertNote(p, targets)
      PROVE  Text(new, notes', files')
  <2> DEFINE known == notes \union {p}
             rows == Links!RowsExcept(p) \union Links!RowsOf(p, targets, known)
             found == [entry \in Links!Standing(rows, known, files) |->
                             Links!Resolve(entry.target, {p}, entry.source)]
  <2>1. links' = Links!Upgraded(rows, found)
    BY <1>3, Zenon DEF Links!UpsertNote
  <2>2. /\ notes' = known /\ files' = files
        /\ \A s : s /= p /\ s \in DOMAIN written => written'[s] = written[s]
    BY <1>3 DEF Links!UpsertNote
  <2>3. p \in Vault /\ known \subseteq Vault
    BY <1>1 DEF Vault
  <2>4. DOMAIN found = Links!Standing(rows, known, files)
        /\ \A entry \in DOMAIN found : found[entry] = Links!Resolve(entry.target, {p}, entry.source)
    OBVIOUS
  <2> HIDE DEF found, rows
  <2>5. PICK entry \in rows :
            /\ new.source = entry.source
            /\ entry \notin DOMAIN found => new.target = entry.target
            /\ entry \in DOMAIN found =>
                     new.target = IF found[entry] /= Links!Nowhere THEN found[entry] ELSE entry.target
    BY <2>1, UpgradedRows
  <2>6. entry \in DOMAIN found
    BY <2>2, <2>4, <2>5 DEF Links!Standing
  <2>7. found[entry] = Links!Nowhere
    <3>1. found[entry] /= Links!Nowhere => found[entry] \in {p}
      BY <2>3, <2>4, <2>6, FoundIsThere
    <3> QED
      BY <2>3, <2>5, <2>6, <3>1
  <2>8. new.target = entry.target /\ Links!Resolve(entry.target, {p}, entry.source) = Links!Nowhere
    BY <2>4, <2>5, <2>6, <2>7
  <2>9. CASE entry \in Links!RowsOf(p, targets, known)
    <3>1. Links!LeadsTo(entry.target, known, files, entry.source) = Links!Nowhere
      BY <1>1, <2>3, <2>8, <2>9, TextLeadsNowhere
    <3> QED
      BY <2>2, <2>5, <2>8, <3>1
  <2>10. CASE entry \in Links!RowsExcept(p)
    <3>1. entry \in links /\ entry.source /= p
      BY <2>10 DEF Links!RowsExcept
    <3>2. entry.source \in DOMAIN written
      BY <3>1 DEF RowsHaveSources, Links!Sources
    <3>3. entry.target \in written[entry.source]
      BY <2>2, <2>5, <2>8, <3>1, <3>2
    <3>4. /\ Links!Resolve(entry.target, notes, entry.source) = Links!Nowhere
          /\ Links!ResolveFile(entry.target, files, entry.source) = Links!Nowhere
      BY <1>2, <2>8, <3>1, <3>3
    <3>5. Links!Resolve(entry.target, known, entry.source) = Links!Nowhere
      BY <1>1, <2>3, <2>8, <3>4, FoundWithNewNote
    <3> QED
      BY <2>2, <2>5, <2>8, <3>4, <3>5, LeadsNowhere
  <2> QED
    BY <2>9, <2>10 DEF rows
<1>4. ASSUME NEW p \in NotePaths, Links!RemoveNote(p) PROVE Text(new, notes', files')
  <2>1. new \in links /\ new.source /= p /\ notes' \subseteq notes /\ files' = files
    BY <1>4 DEF Links!RemoveNote, Links!RowsExcept
  <2>2. new.target \in written[new.source]
    <3>1. new.source \in DOMAIN written
      BY <2>1 DEF RowsHaveSources, Links!Sources
    <3> QED
      BY <1>4, <2>1, <3>1 DEF Links!RemoveNote
  <2>3. /\ Links!Resolve(new.target, notes, new.source) = Links!Nowhere
        /\ Links!ResolveFile(new.target, files, new.source) = Links!Nowhere
    BY <1>2, <2>1, <2>2
  <2>4. Links!Resolve(new.target, notes', new.source) = Links!Nowhere
    BY <1>1, <2>1, <2>3, NoteFound DEF Links!Resolve
  <2> QED
    BY <2>1, <2>3, <2>4, LeadsNowhere
<1>5. ASSUME NEW p \in FilePaths, Links!UpsertFile(p) PROVE Text(new, notes', files')
  <2> DEFINE known == files \union {p}
             standing == {entry \in Links!Standing(links, notes, known) :
                                Links!MatchesNewFile(entry, p)}
             found == [entry \in standing |-> Links!ResolveFile(entry.target, known, entry.source)]
  <2>1. links' = Links!Upgraded(links, found)
    BY <1>5, Zenon DEF Links!UpsertFile
  <2>2. files' = known /\ notes' = notes /\ written' = written
    BY <1>5 DEF Links!UpsertFile
  <2>3. p \in Vault /\ known \subseteq Vault
    BY <1>1 DEF Vault
  <2>4. DOMAIN found = standing
        /\ \A entry \in DOMAIN found : found[entry] = Links!ResolveFile(entry.target, known, entry.source)
    OBVIOUS
  <2> HIDE DEF found
  <2>5. PICK entry \in links :
            /\ new.source = entry.source
            /\ entry \notin DOMAIN found => new.target = entry.target
            /\ entry \in DOMAIN found =>
                     new.target = IF found[entry] /= Links!Nowhere THEN found[entry] ELSE entry.target
    BY <2>1, UpgradedRows
  <2>6. entry \in DOMAIN found => found[entry] = Links!Nowhere
    <3>1. entry \in DOMAIN found /\ found[entry] /= Links!Nowhere => found[entry] \in known
      BY <2>3, <2>4, FoundIsThere
    <3> QED
      BY <2>3, <2>5, <3>1
  <2>7. new.target = entry.target
    BY <2>5, <2>6
  <2>8. /\ Links!Resolve(entry.target, notes, entry.source) = Links!Nowhere
        /\ Links!ResolveFile(entry.target, files, entry.source) = Links!Nowhere
    BY <1>2, <2>2, <2>5, <2>7
  <2>9. Links!ResolveFile(entry.target, known, entry.source) = Links!Nowhere
    <3>1. CASE entry \in DOMAIN found
      BY <2>4, <2>6, <3>1
    <3>2. CASE entry \notin DOMAIN found
      <4>1. entry \in Links!Standing(links, notes, known)
        BY <2>2, <2>5, <2>7 DEF Links!Standing
      <4>2. ~Links!MatchesNewFile(entry, p)
        BY <2>4, <3>2, <4>1
      <4> QED
        BY <1>1, <2>3, <2>8, <4>2, FoundWithNewFile
    <3> QED
      BY <3>1, <3>2
  <2> QED
    BY <2>2, <2>5, <2>7, <2>8, <2>9, LeadsNowhere
<1>6. ASSUME NEW p \in FilePaths, Links!RemoveFile(p) PROVE Text(new, notes', files')
  <2>1. new \in links /\ new.source /= p /\ notes' = notes /\ files' \subseteq files
    BY <1>6 DEF Links!RemoveFile, Links!RowsExcept
  <2>2. new.target \in written[new.source]
    <3>1. new.source \in DOMAIN written
      BY <2>1 DEF RowsHaveSources, Links!Sources
    <3> QED
      BY <1>6, <2>1, <3>1 DEF Links!RemoveFile
  <2>3. /\ Links!Resolve(new.target, notes, new.source) = Links!Nowhere
        /\ Links!ResolveFile(new.target, files, new.source) = Links!Nowhere
    BY <1>2, <2>1, <2>2
  <2>4. Links!ResolveFile(new.target, files', new.source) = Links!Nowhere
    BY <1>1, <2>1, <2>3, FileFound DEF Links!ResolveFile, Links!ResolveAsset
  <2> QED
    BY <2>1, <2>3, <2>4, LeadsNowhere
<1>7. ASSUME NEW c \in Canvases, NEW targets \in Written, Links!UpsertCanvas(c, targets)
      PROVE  Text(new, notes', files')
  <2> DEFINE cached == IF targets = {} \/ canvasNotes /= {} THEN canvasNotes ELSE {notes}
  <2>1. /\ links' = Links!RowsExcept(c) \union Links!RowsOf(c, targets, UNION cached)
        /\ notes' = notes /\ files' = files
    BY <1>7, Zenon DEF Links!UpsertCanvas
  <2>2. \A s : s /= c /\ s \in DOMAIN written => written'[s] = written[s]
    BY <1>7 DEF Links!UpsertCanvas
  <2>3. targets /= {} => UNION cached = notes
    BY DEF RowsHaveSources
  <2> HIDE DEF cached
  <2>4. CASE new \in Links!RowsExcept(c)
    <3>1. new \in links /\ new.source /= c
      BY <2>4 DEF Links!RowsExcept
    <3>2. new.source \in DOMAIN written
      BY <3>1 DEF RowsHaveSources, Links!Sources
    <3>3. new.target \in written[new.source]
      BY <2>2, <3>1, <3>2
    <3> QED
      BY <1>2, <2>1, <3>1, <3>3
  <2>5. CASE new \in Links!RowsOf(c, targets, UNION cached)
    <3>1. targets /= {}
      BY <2>5 DEF Links!RowsOf
    <3>2. new \in Links!RowsOf(c, targets, notes)
      BY <2>3, <2>5, <3>1
    <3>3. Links!LeadsTo(new.target, notes, files, new.source) = Links!Nowhere
      BY <1>1, <3>2, TextLeadsNowhere
    <3> QED
      BY <2>1, <3>3
  <2> QED
    BY <2>1, <2>4, <2>5
<1>8. CASE Links!Rebuild
  <2>1. PICK s \in notes \union (files \intersect Canvases) :
            new \in Links!RowsOf(s, written[s], notes)
    BY <1>8, Zenon DEF Links!Rebuild
  <2>2. Links!LeadsTo(new.target, notes, files, new.source) = Links!Nowhere
    BY <1>1, <2>1, TextLeadsNowhere
  <2> QED
    BY <1>8, <2>2 DEF Links!Rebuild
<1> QED
  BY <1>3, <1>4, <1>5, <1>6, <1>7, <1>8 DEF Links!Next

\* The invariant of the link rows.
LEMMA LinkInvariantHolds == Links!LinkParameters /\ Links!Spec => []LinkInvariant
<1>1. Links!LinkParameters /\ Links!Init => LinkInvariant
  BY DEF Links!Init, LinkInvariant, RowsHaveSources, Links!NoForwardReferenceIsMissed,
         Links!Standing
<1>2. Links!LinkParameters /\ LinkInvariant /\ [Links!Next]_(Links!vars) => LinkInvariant'
  <2> SUFFICES ASSUME Links!LinkParameters, LinkInvariant, [Links!Next]_(Links!vars)
               PROVE  LinkInvariant'
    OBVIOUS
  <2>1. CASE Links!Next
    BY <2>1, SourcesStep, ForwardStep DEF LinkInvariant
  <2>2. CASE UNCHANGED Links!vars
    BY <2>2 DEF Links!vars, LinkInvariant, RowsHaveSources, Links!NoForwardReferenceIsMissed,
                Links!Standing
  <2> QED
    BY <2>1, <2>2
<1>3. ASSUME Links!LinkParameters PROVE Links!Spec => []LinkInvariant
  <2>1. Links!Init => LinkInvariant
    BY <1>1, <1>3
  <2>2. LinkInvariant /\ [Links!Next]_(Links!vars) => LinkInvariant'
    BY <1>2, <1>3
  <2> QED
    BY <2>1, <2>2, PTL DEF Links!Spec
<1> QED
  BY <1>3

\* A link written before what it names is taken over once it exists.
THEOREM ForwardReferencesAreTakenOver ==
    Links!LinkParameters /\ Links!Spec => []Links!NoForwardReferenceIsMissed
<1>1. LinkInvariant => Links!NoForwardReferenceIsMissed
  BY DEF LinkInvariant
<1> QED
  BY <1>1, LinkInvariantHolds, PTL

\* The queries that read the links table alone agree with those that ask for the
\* link's source.
THEOREM LinkQueriesAgree == Links!LinkParameters /\ Links!Spec => []Links!QueriesAgree
<1>1. RowsHaveSources => Links!QueriesAgree
  <2> SUFFICES ASSUME RowsHaveSources PROVE Links!QueriesAgree
    OBVIOUS
  <2>1. \A entry \in links : entry.source \in notes \union files
    BY DEF RowsHaveSources
  <2>2. ASSUME NEW p \in notes PROVE p \in Links!Orphans <=> Links!Backlinks(p) \subseteq {p}
    BY <2>1 DEF Links!Orphans, Links!Backlinks
  <2>3. Links!BrokenLinks =
            {l.path : l \in {o \in UNION {Links!OutgoingLinks(s) : s \in notes \union files} :
                                 ~o.exists}}
    <3> DEFINE missing == {o \in UNION {Links!OutgoingLinks(s) : s \in notes \union files} :
                               ~o.exists}
    <3>1. ASSUME NEW t \in Links!BrokenLinks PROVE \E l \in missing : t = l.path
      <4>1. PICK entry \in links : entry.target = t /\ t \notin notes \union files
        BY <3>1 DEF Links!BrokenLinks
      <4> DEFINE l == [path |-> entry.target, exists |-> entry.target \in notes \union files]
      <4>2. l \in Links!OutgoingLinks(entry.source) /\ l.path = t /\ ~l.exists
        BY <4>1 DEF Links!OutgoingLinks
      <4> HIDE DEF l
      <4>3. l \in missing
        BY <2>1, <4>1, <4>2
      <4> QED
        BY <4>2, <4>3
    <3>2. ASSUME NEW l \in missing PROVE l.path \in Links!BrokenLinks
      <4>1. PICK s \in notes \union files : l \in Links!OutgoingLinks(s)
        BY <3>2
      <4>2. ~l.exists
        BY <3>2
      <4>3. PICK entry \in links :
                l = [path |-> entry.target, exists |-> entry.target \in notes \union files]
        BY <4>1, Zenon DEF Links!OutgoingLinks
      <4> QED
        BY <4>2, <4>3 DEF Links!BrokenLinks
    <3> QED
      BY <3>1, <3>2
  <2> QED
    BY <2>2, <2>3 DEF Links!QueriesAgree
<1>2. LinkInvariant => Links!QueriesAgree
  BY <1>1 DEF LinkInvariant
<1> QED
  BY <1>2, LinkInvariantHolds, PTL

-----------------------------------------------------------------------------
(* What a move makes of a link: LinkRewrites.                                  *)

\* Folders and the dot-separated parts of a name; the empty path leads nowhere.
Path == [dir : Seq(STRING), name : Seq(STRING)]

\* The library's least of a set is its least.
LEMMA MoveMinIsLeast ==
    ASSUME NEW T, T \subseteq Nat, T /= {}
    PROVE  Move!Min(T) \in T /\ \A k \in T : Move!Min(T) <= k
BY LeastExists DEF Move!Min

\* The answer is the first alternative that leads somewhere.
LEMMA FirstAnswer ==
    ASSUME NEW s, DOMAIN s \subseteq Nat
    PROVE  /\ \A i \in DOMAIN s :
                  s[i] /= Move!Nowhere /\ (\A k \in DOMAIN s : k < i => s[k] = Move!Nowhere) =>
                      Move!FirstOf(s) = s[i]
           /\ Move!FirstOf(s) /= Move!Nowhere =>
                     \E i \in DOMAIN s : /\ Move!FirstOf(s) = s[i]
                                         /\ \A k \in DOMAIN s : k < i => s[k] = Move!Nowhere
<1> DEFINE found == {i \in DOMAIN s : s[i] /= Move!Nowhere}
<1>1. Move!FirstOf(s) = IF found = {} THEN Move!Nowhere ELSE s[Move!Min(found)]
  BY Zenon DEF Move!FirstOf
<1>2. CASE found = {}
  BY <1>1, <1>2
<1>3. CASE found /= {}
  <2>1. Move!Min(found) \in found /\ \A k \in found : Move!Min(found) <= k
    BY <1>3, MoveMinIsLeast
  <2>2. ASSUME NEW i \in DOMAIN s, s[i] /= Move!Nowhere,
               \A k \in DOMAIN s : k < i => s[k] = Move!Nowhere
        PROVE  Move!Min(found) = i
    BY <2>1, <2>2
  <2>3. \A k \in DOMAIN s : k < Move!Min(found) => s[k] = Move!Nowhere
    BY <2>1
  <2> QED
    BY <1>1, <1>3, <2>1, <2>2, <2>3
<1> QED
  BY <1>2, <1>3

\* The shortest of some paths is the shortest of fewer of them that it is among.
LEMMA ShortestOfFewer ==
    ASSUME NEW X, NEW Y, Y \subseteq X, DOMAIN RewriteOrder \subseteq Nat,
           \A p \in X : \E i \in DOMAIN RewriteOrder : RewriteOrder[i] = p
    PROVE  /\ X /= {} => Move!Shortest(X) \in X
           /\ Move!Shortest(X) \in Y => Move!Shortest(Y) = Move!Shortest(X)
<1> DEFINE places(A) == {i \in DOMAIN RewriteOrder : RewriteOrder[i] \in A}
<1>1. ASSUME NEW A \in SUBSET X, A /= {}
      PROVE  /\ Move!Shortest(A) = RewriteOrder[Move!Min(places(A))]
             /\ Move!Shortest(A) \in A
             /\ Move!Min(places(A)) \in places(A)
             /\ \A k \in places(A) : Move!Min(places(A)) <= k
  <2>1. places(A) /= {} /\ places(A) \subseteq Nat
    BY <1>1
  <2>2. Move!Shortest(A) = RewriteOrder[Move!Min(places(A))]
    BY <1>1, Zenon DEF Move!Shortest
  <2>3. Move!Min(places(A)) \in places(A) /\ \A k \in places(A) : Move!Min(places(A)) <= k
    <3> HIDE DEF places
    <3> QED
      BY <2>1, MoveMinIsLeast
  <2>4. Move!Shortest(A) \in A
    BY <2>2, <2>3
  <2> HIDE DEF places
  <2> QED
    BY <2>2, <2>3, <2>4
<1>2. X /= {} => Move!Shortest(X) \in X
  <2> HIDE DEF places
  <2>1. X \in SUBSET X
    OBVIOUS
  <2> QED
    BY <1>1, <2>1
<1>3. ASSUME Move!Shortest(X) \in Y PROVE Move!Shortest(Y) = Move!Shortest(X)
  <2>1. X /= {} /\ Y /= {} /\ Y \in SUBSET X
    BY <1>3
  <2> DEFINE m == Move!Min(places(X))
  <2>2. m \in places(Y)
    <3>1. m \in places(X) /\ Move!Shortest(X) = RewriteOrder[m]
      <4> HIDE DEF places
      <4>1. X \in SUBSET X
        OBVIOUS
      <4> QED
        BY <1>1, <2>1, <4>1 DEF m
    <3> QED
      BY <1>3, <3>1
  <2>3. Move!Min(places(Y)) \in places(X)
    BY <1>1, <2>1
  <2>4. Move!Min(places(X)) <= Move!Min(places(Y)) /\ Move!Min(places(Y)) <= Move!Min(places(X))
    BY <1>1, <2>1, <2>2, <2>3
  <2>5. Move!Min(places(X)) = Move!Min(places(Y))
    <3>1. Move!Min(places(X)) \in Nat /\ Move!Min(places(Y)) \in Nat
      BY <1>1, <2>1
    <3> HIDE DEF places
    <3> QED
      BY <2>4, <3>1
  <2> QED
    BY <1>1, <2>1, <2>5
<1> QED
  BY <1>2, <1>3

\* A sequence is its front and its last element.
LEMMA FrontLast ==
    ASSUME NEW S, NEW s \in Seq(S), Len(s) > 1
    PROVE  /\ SubSeq(s, 1, Len(s) - 1) \in Seq(S)
           /\ SubSeq(s, 1, Len(s) - 1) \o <<s[Len(s)]>> = s
<1> DEFINE n == Len(s)
           front == SubSeq(s, 1, n - 1)
           last == <<s[n]>>
<1>1. n \in Nat /\ n > 1 /\ n - 1 \in Nat /\ 1 \in Nat
  OBVIOUS
<1>2. front \in Seq(S) /\ Len(front) = n - 1 /\ \A i \in 1 .. n - 1 : front[i] = s[i]
  BY <1>1, SubSeqProperties
<1>3. last \in Seq(S) /\ Len(last) = 1 /\ last[1] = s[n]
  OBVIOUS
<1> HIDE DEF front, last
<1>4. /\ front \o last \in Seq(S)
      /\ Len(front \o last) = Len(front) + Len(last)
      /\ \A i \in 1 .. Len(front) + Len(last) :
             (front \o last)[i] = IF i <= Len(front) THEN front[i] ELSE last[i - Len(front)]
  BY <1>2, <1>3, ConcatProperties, Zenon
<1>5. Len(front) + Len(last) = n
  BY <1>1, <1>2, <1>3
<1>6. \A i \in 1 .. n : (front \o last)[i] = s[i]
  <2> TAKE i \in 1 .. n
  <2>1. (front \o last)[i] = IF i <= n - 1 THEN front[i] ELSE last[i - (n - 1)]
    BY <1>2, <1>4, <1>5
  <2>2. CASE i <= n - 1
    BY <1>1, <1>2, <2>1, <2>2
  <2>3. CASE ~(i <= n - 1)
    BY <1>1, <1>3, <2>1, <2>3
  <2> QED
    BY <2>2, <2>3
<1>7. front \o last = s
  BY <1>4, <1>5, <1>6, SeqEqual
<1> QED
  BY <1>2, <1>7 DEF front, last

\* What a path's name without the extension says.
LEMMA StemFields ==
    ASSUME NEW p \in Path
    PROVE  /\ Move!Stem(p) \in Path
           /\ Move!Extension(p) = << >> => Move!Stem(p) = p
           /\ Move!Extension(p) = Move!Markdown /\ Move!Extension(Move!Stem(p)) /= Move!Markdown =>
                     Move!WithExtension(Move!Stem(p), Move!Markdown) = p
<1>1. CASE Len(p.name) > 1
  <2> DEFINE n == Len(p.name)
             front == SubSeq(p.name, 1, n - 1)
  <2>1. n \in Nat /\ n > 1 /\ p.name \in Seq(STRING)
    BY <1>1 DEF Path
  <2>2. front \in Seq(STRING) /\ Len(front) = n - 1
        /\ \A i \in 1 .. n - 1 : front[i] = p.name[i]
    BY <2>1, SubSeqProperties
  <2>3. Move!Stem(p) = [p EXCEPT !.name = front]
    BY <1>1, Zenon DEF Move!Stem, Move!Front
  <2>4. Move!Extension(p) = <<p.name[n]>>
    BY <1>1 DEF Move!Extension, Move!Last
  <2> HIDE DEF n, front
  <2>5. Move!Stem(p) \in Path /\ Move!Stem(p).dir = p.dir /\ Move!Stem(p).name = front
    BY <2>2, <2>3 DEF Path
  <2>6. ASSUME Move!Extension(p) = Move!Markdown, Move!Extension(Move!Stem(p)) /= Move!Markdown
        PROVE  Move!WithExtension(Move!Stem(p), Move!Markdown) = p
    <3>1. p.name[n] = "md"
      BY <2>4, <2>6 DEF Move!Markdown
    <3>2. front \o Move!Markdown = p.name
      BY <2>1, <3>1, FrontLast DEF Move!Markdown, front, n
    <3>3. Move!WithExtension(Move!Stem(p), Move!Markdown) = [Move!Stem(p) EXCEPT !.name = front \o Move!Markdown]
      BY <2>5, <2>6 DEF Move!WithExtension
    <3> QED
      BY <2>3, <2>5, <3>2, <3>3 DEF Path
  <2>7. Move!Extension(p) /= << >>
    BY <2>4
  <2> QED
    BY <2>5, <2>6, <2>7
<1>2. CASE ~(Len(p.name) > 1)
  <2>1. Move!Stem(p) = p /\ Move!Extension(p) = << >>
    BY <1>2 DEF Move!Stem, Move!Extension
  <2>2. << >> /= Move!Markdown
    BY DEF Move!Markdown
  <2> QED
    BY <2>1, <2>2
<1> QED
  BY <1>1, <1>2

\* A note is found by its path from the root, with the extension or without.
LEMMA NoteFromRoot ==
    ASSUME NEW p \in Path, NEW A, p \in A, NEW source,
           Move!Extension(p) = Move!Markdown, Move!Extension(Move!Stem(p)) /= Move!Markdown
    PROVE  Move!Resolve(p, A, source) = p /\ Move!Resolve(Move!Stem(p), A, source) = p
<1>1. Move!WithExtension(p, Move!Markdown) = p /\ Move!WithExtension(Move!Stem(p), Move!Markdown) = p
  BY StemFields DEF Move!WithExtension
<1>2. p /= Move!Nowhere
  BY DEF Move!Nowhere, Move!Extension, Move!Markdown
<1>3. Move!ResolveNote(p, A, source) = p
  <2> DEFINE s == <<Move!IfIn(p, A), Move!IfIn(Move!Join(source, p), A),
                    Move!Shortest({q \in A : Move!EndsIn(q, p)})>>
  <2>1. Move!ResolveNote(p, A, source) = Move!FirstOf(s)
    BY Zenon DEF Move!ResolveNote
  <2>2. DOMAIN s = 1 .. 3 /\ s[1] = p
    BY DEF Move!IfIn
  <2> HIDE DEF s
  <2> QED
    BY <1>2, <2>1, <2>2, FirstAnswer
<1> QED
  BY <1>1, <1>3 DEF Move!Resolve

\* A path with the name of another has its extension.
LEMMA SameName ==
    ASSUME NEW p, NEW q, p.name = q.name
    PROVE  Move!Extension(p) = Move!Extension(q)
BY DEF Move!Extension

\* A file that is no note, and that some target led to, is found by its path from the
\* root; so it is without its extension, when the target lacked it.
LEMMA AssetFromRoot ==
    ASSUME NEW A, A \subseteq Path, Move!NamesAreApart(A), DOMAIN RewriteOrder \subseteq Nat,
           \A p \in A : p /= Move!Nowhere /\ \E i \in DOMAIN RewriteOrder : RewriteOrder[i] = p,
           NEW target \in Path, NEW source, NEW after, NEW d \in A,
           Move!ResolveAsset(target, A, source) = d,
           NEW absolute,
           absolute = IF Move!Extension(target) = Move!Extension(d) THEN d ELSE Move!Stem(d)
    PROVE  Move!ResolveAsset(absolute, A, after) = d
<1> DEFINE Stems(q) == {p \in A : Move!Stem(p) = q}
           Loose(q) == {p \in A : IF q.dir /= << >> THEN Move!EndsIn(Move!Stem(p), q)
                                  ELSE Move!Stem(p).name = q.name}
           Ways(q, here) == <<Move!IfIn(q, A), Move!IfIn(here, A),
                              Move!Shortest({p \in A : Move!EndsIn(p, q)}),
                              Move!Shortest(Stems(q)), Move!Shortest(Stems(here)), Move!Shortest(Loose(q))>>
<1>1. \A q, here : Move!ResolveFrom(q, here, A) = Move!FirstOf(Ways(q, here))
  BY Zenon DEF Move!ResolveFrom
<1>2. \A q, here : /\ DOMAIN Ways(q, here) = 1 .. 6
                   /\ Ways(q, here)[1] = Move!IfIn(q, A)
                   /\ Ways(q, here)[2] = Move!IfIn(here, A)
                   /\ Ways(q, here)[3] = Move!Shortest({p \in A : Move!EndsIn(p, q)})
                   /\ Ways(q, here)[4] = Move!Shortest(Stems(q))
                   /\ Ways(q, here)[5] = Move!Shortest(Stems(here))
                   /\ Ways(q, here)[6] = Move!Shortest(Loose(q))
  <2> HIDE DEF Stems, Loose
  <2> QED
    OBVIOUS
<1> HIDE DEF Ways
<1>3. \A q \in Path : \A from : Move!Join(from, q).name = q.name
  BY DEF Move!Join, Path
<1>4. d \in Path /\ d /= Move!Nowhere
  OBVIOUS
<1>5. CASE absolute = d
  <2>1. Move!IfIn(d, A) = d
    BY DEF Move!IfIn
  <2> DEFINE s == Ways(d, Move!Join(after, d))
  <2>2. DOMAIN s \subseteq Nat /\ 1 \in DOMAIN s /\ s[1] = d /\ \A k \in DOMAIN s : ~(k < 1)
    BY <1>2, <2>1
  <2> HIDE DEF s
  <2>3. Move!FirstOf(s) = d
    BY <1>4, <2>2, FirstAnswer
  <2> QED
    BY <1>1, <1>5, <2>3 DEF Move!ResolveAsset, s
<1>6. CASE absolute /= d
  <2>1. absolute = Move!Stem(d) /\ Move!Extension(target) /= Move!Extension(d) /\ Move!Extension(d) /= << >>
    BY <1>4, <1>6, StemFields
  <2>2. \A q \in A : q.name /= absolute.name
    BY <2>1 DEF Move!NamesAreApart
  <2>3. target.name /= d.name
    BY <2>1, SameName
  <2> DEFINE s == Ways(target, Move!Join(source, target))
  <2>4. d = Move!FirstOf(s)
    BY <1>1 DEF Move!ResolveAsset
  <2>5. DOMAIN s = 1 .. 6
    BY <1>2
  <2>6. PICK i \in 1 .. 6 : d = s[i]
    <3> HIDE DEF s
    <3>1. DOMAIN s \subseteq Nat
      BY <2>5
    <3> QED
      BY <1>4, <2>4, <2>5, <3>1, FirstAnswer
  <2>7. \A B \in SUBSET A : d = Move!Shortest(B) => d \in B
    <3> TAKE B \in SUBSET A
    <3> HAVE d = Move!Shortest(B)
    <3>1. B /= {}
      BY <1>4 DEF Move!Shortest
    <3> QED
      BY <3>1, ShortestOfFewer
  <2>8. Move!Shortest(Stems(absolute)) = d
    <3>1. d \in Stems(absolute)
      BY <2>1
    <3>2. \A B \in SUBSET A :
              d = Move!Shortest(B) /\ Stems(absolute) \subseteq B => Move!Shortest(Stems(absolute)) = d
      <4> HIDE DEF Stems
      <4> QED
        BY <3>1, ShortestOfFewer
    <3>3. s[1] /= d /\ s[2] /= d /\ s[3] /= d
      <4>1. s[1] /= d
        BY <1>2, <1>4, <2>3 DEF Move!IfIn
      <4>2. s[2] /= d
        BY <1>2, <1>3, <1>4, <2>3 DEF Move!IfIn
      <4>3. s[3] /= d
        <5> DEFINE B == {p \in A : Move!EndsIn(p, target)}
        <5>1. s[3] = Move!Shortest(B) /\ B \in SUBSET A /\ d \notin B
          BY <1>2, <2>3 DEF Move!EndsIn
        <5> HIDE DEF B, s
        <5> QED
          BY <2>7, <5>1
      <4> QED
        BY <4>1, <4>2, <4>3
    <3>4. \A q : d = Move!Shortest(Stems(q)) => Move!Shortest(Stems(absolute)) = d
      <4> TAKE q
      <4> HAVE d = Move!Shortest(Stems(q))
      <4>1. Stems(q) \in SUBSET A
        OBVIOUS
      <4>2. d \in Stems(q)
        <5> HIDE DEF Stems
        <5> QED
          BY <2>7, <4>1
      <4>3. q = absolute
        BY <2>1, <4>2
      <4> QED
        BY <4>3
    <3>5. d = Move!Shortest(Loose(target)) => Move!Shortest(Stems(absolute)) = d
      <4> HAVE d = Move!Shortest(Loose(target))
      <4>1. Loose(target) \in SUBSET A
        OBVIOUS
      <4>2. d \in Loose(target)
        <5> HIDE DEF Loose
        <5> QED
          BY <2>7, <4>1
      <4>3. Stems(absolute) \subseteq Loose(target)
        BY <2>1, <4>2
      <4> HIDE DEF Loose, Stems
      <4> QED
        BY <3>2, <4>1, <4>3
    <3>6. i \in {4, 5, 6}
      BY <2>6, <3>3
    <3>7. \/ d = Move!Shortest(Stems(target)) \/ d = Move!Shortest(Stems(Move!Join(source, target)))
          \/ d = Move!Shortest(Loose(target))
      <4> HIDE DEF Stems, Loose
      <4> QED
        BY <1>2, <2>6, <3>6
    <3> HIDE DEF Stems, Loose
    <3> QED
      BY <3>4, <3>5, <3>7
  <2> DEFINE t == Ways(absolute, Move!Join(after, absolute))
  <2>9. t[1] = Move!Nowhere /\ t[2] = Move!Nowhere /\ t[3] = Move!Nowhere
    <3>1. absolute \in Path
      BY <1>4, <2>1, StemFields
    <3>2. absolute \notin A /\ Move!Join(after, absolute) \notin A
      BY <1>3, <2>2, <3>1
    <3>3. {p \in A : Move!EndsIn(p, absolute)} = {}
      BY <2>2 DEF Move!EndsIn
    <3>4. Move!Shortest({p \in A : Move!EndsIn(p, absolute)}) = Move!Nowhere
      BY <3>3 DEF Move!Shortest
    <3> QED
      BY <1>2, <3>2, <3>4 DEF Move!IfIn
  <2>10. DOMAIN t = 1 .. 6 /\ t[4] = d
    <3> HIDE DEF Stems, Loose
    <3> QED
      BY <1>2, <2>8
  <2>11. Move!FirstOf(t) = d
    <3> HIDE DEF t
    <3>1. DOMAIN t \subseteq Nat /\ 4 \in DOMAIN t
      BY <2>10
    <3>2. \A k \in DOMAIN t : k < 4 => t[k] = Move!Nowhere
      BY <2>9, <2>10
    <3> QED
      BY <1>4, <2>10, <3>1, <3>2, FirstAnswer
  <2> QED
    BY <1>1, <2>11 DEF Move!ResolveAsset
<1> QED
  BY <1>5, <1>6

\* What a target leads to is among the paths looked through, if it is anything.
LEMMA FoundByMove ==
    ASSUME NEW A, DOMAIN RewriteOrder \subseteq Nat,
           \A p \in A : \E i \in DOMAIN RewriteOrder : RewriteOrder[i] = p,
           NEW target, NEW source
    PROVE  /\ Move!Resolve(target, A, source) /= Move!Nowhere => Move!Resolve(target, A, source) \in A
           /\ Move!ResolveAsset(target, A, source) /= Move!Nowhere =>
                     Move!ResolveAsset(target, A, source) \in A
<1>1. \A B \in SUBSET A : Move!Shortest(B) \in A \union {Move!Nowhere}
  <2> TAKE B \in SUBSET A
  <2>1. B /= {} => Move!Shortest(B) \in B
    BY ShortestOfFewer
  <2>2. B = {} => Move!Shortest(B) = Move!Nowhere
    BY DEF Move!Shortest
  <2> QED
    BY <2>1, <2>2
<1>2. \A p : Move!IfIn(p, A) \in A \union {Move!Nowhere}
  BY DEF Move!IfIn
<1>3. ASSUME NEW s, DOMAIN s \subseteq Nat, \A i \in DOMAIN s : s[i] \in A \union {Move!Nowhere},
             Move!FirstOf(s) /= Move!Nowhere
      PROVE  Move!FirstOf(s) \in A
  BY <1>3, FirstAnswer
<1>4. \A note : Move!ResolveNote(note, A, source) /= Move!Nowhere => Move!ResolveNote(note, A, source) \in A
  <2> TAKE note
  <2> DEFINE B == {q \in A : Move!EndsIn(q, note)}
             s == <<Move!IfIn(note, A), Move!IfIn(Move!Join(source, note), A), Move!Shortest(B)>>
  <2>1. Move!ResolveNote(note, A, source) = Move!FirstOf(s)
    BY Zenon DEF Move!ResolveNote
  <2>2. B \in SUBSET A
    OBVIOUS
  <2> HIDE DEF B
  <2>3. DOMAIN s \subseteq Nat /\ \A i \in DOMAIN s : s[i] \in A \union {Move!Nowhere}
    BY <1>1, <1>2, <2>2
  <2> HIDE DEF s
  <2> QED
    BY <1>3, <2>1, <2>3
<1>5. Move!ResolveAsset(target, A, source) /= Move!Nowhere => Move!ResolveAsset(target, A, source) \in A
  <2> DEFINE here == Move!Join(source, target)
             s3 == {p \in A : Move!EndsIn(p, target)}
             s4 == {p \in A : Move!Stem(p) = target}
             s5 == {p \in A : Move!Stem(p) = here}
             s6 == {p \in A : IF target.dir /= << >> THEN Move!EndsIn(Move!Stem(p), target)
                              ELSE Move!Stem(p).name = target.name}
             s == <<Move!IfIn(target, A), Move!IfIn(here, A), Move!Shortest(s3),
                    Move!Shortest(s4), Move!Shortest(s5), Move!Shortest(s6)>>
  <2>1. Move!ResolveAsset(target, A, source) = Move!FirstOf(s)
    BY Zenon DEF Move!ResolveAsset, Move!ResolveFrom
  <2>2. s3 \in SUBSET A /\ s4 \in SUBSET A /\ s5 \in SUBSET A /\ s6 \in SUBSET A
    OBVIOUS
  <2> HIDE DEF here, s3, s4, s5, s6
  <2>3. DOMAIN s \subseteq Nat /\ \A i \in DOMAIN s : s[i] \in A \union {Move!Nowhere}
    BY <1>1, <1>2, <2>2
  <2> HIDE DEF s
  <2> QED
    BY <1>3, <2>1, <2>3
<1> QED
  BY <1>4, <1>5 DEF Move!Resolve

\* Where a link leads: to what it finds among the notes, else among the other files.
LEMMA LeadsToFirst ==
    ASSUME NEW target, NEW A, NEW B, NEW source
    PROVE  Move!LeadsTo(target, A, B, source) =
                  IF Move!Resolve(target, A, source) /= Move!Nowhere THEN Move!Resolve(target, A, source)
                  ELSE Move!ResolveAsset(target, B, source)
<1> DEFINE x == Move!Resolve(target, A, source)
           y == Move!ResolveAsset(target, B, source)
           s == <<x, y>>
<1>1. Move!LeadsTo(target, A, B, source) = Move!FirstOf(s)
  BY Zenon DEF Move!LeadsTo
<1> HIDE DEF x, y
<1>2. DOMAIN s = {1, 2} /\ s[1] = x /\ s[2] = y
  OBVIOUS
<1> HIDE DEF s
<1>3. CASE x /= Move!Nowhere
  BY <1>1, <1>2, <1>3, FirstAnswer DEF x
<1>4. CASE x = Move!Nowhere /\ y /= Move!Nowhere
  BY <1>1, <1>2, <1>4, FirstAnswer DEF x, y
<1>5. CASE x = Move!Nowhere /\ y = Move!Nowhere
  <2>1. Move!FirstOf(s) = Move!Nowhere
    BY <1>2, <1>5, FirstAnswer
  <2> QED
    BY <1>1, <1>5, <2>1 DEF x, y
<1> QED
  BY <1>3, <1>4, <1>5

\* The vault-absolute form of a rewritten target.
Absolute(l, desired, after) ==
    IF (~after.byNote \/ l.grammar = "markdown") /\ Move!Extension(l.target) = Move!Extension(desired)
    THEN desired ELSE Move!Stem(desired)

\* A rewritten link leads where it should if the path from the root does.
LEMMA RewrittenLeads ==
    ASSUME NEW l, NEW led, led /= Move!Nowhere, NEW desired, NEW after,
           Move!Finds(Absolute(l, desired, after), after) = desired
    PROVE  Move!Finds(Move!Rewritten(l, led, desired, after), after) = desired
<1>1. \A form : Move!Finds(Move!Replacement(form, Absolute(l, desired, after), desired, after), after)
                       = desired
  <2> TAKE form
  <2> DEFINE short == CASE form = "basename" -> [Absolute(l, desired, after) EXCEPT !.dir = <<>>]
                        [] form = "relative" ->
                               Move!Relative(after.source, Absolute(l, desired, after))
                        [] OTHER -> Absolute(l, desired, after)
  <2>1. Move!Replacement(form, Absolute(l, desired, after), desired, after) =
               IF Move!Finds(short, after) = desired THEN short ELSE Absolute(l, desired, after)
    BY Zenon DEF Move!Replacement
  <2> HIDE DEF short
  <2> QED
    BY <2>1
<1>2. Move!Rewritten(l, led, desired, after) =
             IF Move!Finds(l.target, after) = desired THEN l.target
             ELSE Move!Replacement(Move!LinkForm(l.target, l.source, led), Absolute(l, desired, after),
                                 desired, after)
  BY Zenon DEF Move!Rewritten, Absolute
<1> QED
  BY <1>1, <1>2

\* The link is one of an existing note until the move is made.
LinkIsThere ==
    /\ vault \in [notes : SUBSET RewriteNotes, assets : SUBSET AssetPaths]
    /\ move = Move!NoMove =>
           link \in [source : RewriteNotes, target : Targets, grammar : {"wikilink", "markdown"}]

\* A move of a note leaves the link leading where it led, or to the note's new path.
LEMMA MoveKeepsLinks ==
    ASSUME Move!RewriteParameters, LinkIsThere, NEW from \in RewriteNotes,
           NEW to \in RewriteNotes,
           Move!MoveNote(from, to)
    PROVE  LinkIsThere' /\ Move!LinksLeadToTheSameFile'
<1> DEFINE source == IF link.source = from THEN to ELSE link.source
           notesAfter == (vault.notes \ {from}) \union {to}
           led == Move!LeadsTo(link.target, vault.notes, vault.assets, link.source)
           byNote == Move!Resolve(link.target, vault.notes, link.source) /= Move!Nowhere
           desired == IF led = from THEN to ELSE led
           after == [byNote |-> byNote, source |-> source,
                     paths |-> IF byNote THEN notesAfter ELSE vault.assets]
           rewritten == Move!Rewritten(link, led, desired, after)
<1>1. /\ vault.notes \subseteq RewriteNotes /\ vault.assets \subseteq AssetPaths
      /\ link.target \in Targets
      /\ vault' = [vault EXCEPT !.notes = notesAfter]
      /\ move' = [from |-> from, to |-> to, vault |-> vault, link |-> link]
  BY DEF LinkIsThere, Move!MoveNote
<1>2. link'.target = rewritten /\ link'.source = source
  <2>1. /\ link' = [link EXCEPT !.target = Move!RewriteTarget(link, vault.notes, vault.assets,
                                                           from, to),
                                !.source = source]
        /\ link \in [source : RewriteNotes, target : Targets, grammar : {"wikilink", "markdown"}]
    BY DEF Move!MoveNote, LinkIsThere
  <2>2. Move!RewriteTarget(link, vault.notes, vault.assets, from, to) = rewritten
    BY Zenon DEF Move!RewriteTarget, Move!RewriteBefore
  <2> HIDE DEF rewritten
  <2> QED
    BY <2>1, <2>2
<1>3. vault'.notes = notesAfter /\ vault'.assets = vault.assets /\ LinkIsThere'
  <2>1. vault \in [notes : SUBSET RewriteNotes, assets : SUBSET AssetPaths]
    BY DEF LinkIsThere
  <2>2. notesAfter \subseteq RewriteNotes
    BY <1>1
  <2>3. move' /= Move!NoMove
    <3>1. DOMAIN move' /= DOMAIN Move!NoMove
      <4>1. "to" \in DOMAIN move' /\ "to" \notin DOMAIN Move!NoMove
        BY <1>1 DEF Move!NoMove
      <4> QED
        BY <4>1
    <3> QED
      BY <3>1
  <2> HIDE DEF notesAfter
  <2> QED
    BY <1>1, <2>1, <2>2, <2>3 DEF LinkIsThere
<1>4. /\ DOMAIN RewriteOrder \subseteq Nat /\ Targets \subseteq Path
      /\ RewriteNotes \subseteq Path /\ AssetPaths \subseteq Path
      /\ \A p \in RewriteNotes : Move!Extension(p) = Move!Markdown /\ Move!Extension(Move!Stem(p)) /= Move!Markdown
      /\ \A p \in AssetPaths : /\ Move!Extension(p) /= Move!Markdown /\ p /= Move!Nowhere
                               /\ \E i \in DOMAIN RewriteOrder : RewriteOrder[i] = p
      /\ \A p \in RewriteNotes : \E i \in DOMAIN RewriteOrder : RewriteOrder[i] = p
  BY DEF Move!RewriteParameters, Path
<1>5. led = IF byNote THEN Move!Resolve(link.target, vault.notes, link.source)
            ELSE Move!ResolveAsset(link.target, vault.assets, link.source)
  BY LeadsToFirst
<1>6. \A p \in RewriteNotes : p /= Move!Nowhere
  <2>1. Move!Extension(Move!Nowhere) = << >> /\ << >> /= Move!Markdown
    BY DEF Move!Nowhere, Move!Extension, Move!Markdown
  <2> QED
    BY <1>4, <2>1
<1> HIDE DEF led
<1>7. byNote => led \in vault.notes
  <2>1. \A p \in vault.notes : \E i \in DOMAIN RewriteOrder : RewriteOrder[i] = p
    BY <1>1, <1>4
  <2>2. byNote => Move!Resolve(link.target, vault.notes, link.source) \in vault.notes
    BY <1>4, <2>1, FoundByMove
  <2> QED
    BY <1>5, <2>2
<1>8. ~byNote /\ led /= Move!Nowhere => led \in vault.assets
  <2>1. \A p \in vault.assets : \E i \in DOMAIN RewriteOrder : RewriteOrder[i] = p
    BY <1>1, <1>4
  <2> QED
    BY <1>4, <1>5, <2>1, FoundByMove
<1> USE DEF led
<1>9. after.byNote = byNote /\ after.source = source
      /\ after.paths = IF byNote THEN notesAfter ELSE vault.assets
  OBVIOUS
<1> HIDE DEF rewritten, after, desired, notesAfter, source
<1>10. ASSUME led \in RewriteNotes
       PROVE  Move!Resolve(link'.target, vault'.notes, link'.source) = desired
  <2>1. byNote
    BY <1>1, <1>4, <1>6, <1>8, <1>10
  <2>2. desired \in notesAfter /\ desired \in RewriteNotes
    BY <1>7, <1>10, <2>1 DEF desired, notesAfter
  <2>3. Move!Finds(Absolute(link, desired, after), after) = desired
    <3>1. Move!Resolve(desired, notesAfter, source) = desired
          /\ Move!Resolve(Move!Stem(desired), notesAfter, source) = desired
      BY <1>4, <2>2, NoteFromRoot
    <3> QED
      BY <1>9, <2>1, <3>1 DEF Move!Finds, Absolute
  <2>4. Move!Finds(rewritten, after) = desired
    BY <1>6, <1>10, <2>3, RewrittenLeads DEF rewritten
  <2> QED
    BY <1>2, <1>3, <1>9, <2>1, <2>4 DEF Move!Finds
<1>11. ASSUME led \in AssetPaths, Move!NamesAreApart(vault.assets)
       PROVE  Move!ResolveAsset(link'.target, vault'.assets, link'.source) = led
  <2>1. ~byNote
    BY <1>1, <1>4, <1>7, <1>11
  <2>2. led \in vault.assets /\ led /= Move!Nowhere /\ desired = led
    BY <1>4, <1>8, <1>11, <2>1 DEF desired
  <2>3. Move!Finds(Absolute(link, desired, after), after) = desired
    <3>1. Absolute(link, led, after) =
              IF Move!Extension(link.target) = Move!Extension(led) THEN led ELSE Move!Stem(led)
      BY <1>9, <2>1 DEF Absolute
    <3>2. Move!ResolveAsset(link.target, vault.assets, link.source) = led
      BY <1>5, <2>1
    <3>3. Move!ResolveAsset(Absolute(link, led, after), vault.assets, source) = led
      <4>1. vault.assets \subseteq Path /\ link.target \in Path
            /\ \A p \in vault.assets :
                   p /= Move!Nowhere /\ \E i \in DOMAIN RewriteOrder : RewriteOrder[i] = p
        BY <1>1, <1>4
      <4> HIDE DEF led
      <4> QED
        BY <1>4, <1>11, <2>2, <3>1, <3>2, <4>1, AssetFromRoot
    <3> QED
      BY <1>9, <2>1, <2>2, <3>3 DEF Move!Finds
  <2>4. Move!Finds(rewritten, after) = desired
    BY <2>2, <2>3, RewrittenLeads DEF rewritten
  <2> QED
    BY <1>2, <1>3, <1>9, <2>1, <2>2, <2>4 DEF Move!Finds
<1> QED
  BY <1>1, <1>3, <1>10, <1>11 DEF Move!LinksLeadToTheSameFile, Move!LeadsOn, desired

\* Whatever the vault, the link and the move, the link leads to the same file after it:
\* buildReplacementTarget's last resort, the path from the root, is always found. Its
\* hypotheses are on names: those of notes in RewriteParameters, and that no file is
\* called as another is without its extension, in LinksLeadToTheSameFile.
THEOREM RewritesKeepLinks == Move!RewriteParameters /\ Move!Spec => []Move!LinksLeadToTheSameFile
<1> DEFINE I == LinkIsThere /\ Move!LinksLeadToTheSameFile
<1>1. Move!RewriteParameters /\ Move!Init => I
  <2> SUFFICES ASSUME Move!RewriteParameters, Move!Init PROVE I
    OBVIOUS
  <2>1. vault \in [notes : SUBSET RewriteNotes, assets : SUBSET AssetPaths]
    BY DEF Move!Init
  <2>2. vault.notes \subseteq RewriteNotes
    BY <2>1
  <2> QED
    BY <2>1, <2>2 DEF Move!Init, LinkIsThere, Move!LinksLeadToTheSameFile
<1>2. Move!RewriteParameters /\ I /\ [Move!Next]_(Move!vars) => I'
  <2> SUFFICES ASSUME Move!RewriteParameters, I, [Move!Next]_(Move!vars) PROVE I'
    OBVIOUS
  <2>1. CASE Move!Next
    BY <2>1, MoveKeepsLinks DEF Move!Next
  <2>2. CASE UNCHANGED Move!vars
    BY <2>2 DEF Move!vars, LinkIsThere, Move!LinksLeadToTheSameFile, Move!LeadsOn
  <2> QED
    BY <2>1, <2>2
<1>3. ASSUME Move!RewriteParameters PROVE Move!Spec => []I
  <2>1. Move!Init => I
    BY <1>1, <1>3
  <2>2. I /\ [Move!Next]_(Move!vars) => I'
    BY <1>2, <1>3
  <2> HIDE DEF I
  <2> QED
    BY <2>1, <2>2, PTL DEF Move!Spec
<1>4. I => Move!LinksLeadToTheSameFile
  OBVIOUS
<1> HIDE DEF I
<1>5. Move!RewriteParameters => (Move!Spec => []I)
  BY <1>3
<1> QED
  BY <1>4, <1>5, PTL

-----------------------------------------------------------------------------
(* The entries of memory files: MemoryRecall.                                 *)

Entries == UNION {{c[i] : i \in DOMAIN c} : c \in MemoryContents}
EntryRow == [id : Nat, file : MemoryFiles, entry : Entries, index : Nat]
EmbedJob == [file : MemoryFiles, version : Nat \ {0}, stage : {"queued", "model"}, todo : SUBSET EntryRow]

RecallTypeOK ==
    /\ memories \in [MemoryFiles -> MemoryContents \union {NoMemory}]
    /\ entered \subseteq EntryRow
    /\ nextId \in Nat /\ revised \in Nat
    /\ sources \in [MemoryFiles -> Nat]
    /\ embeds \in Seq(EmbedJob)

\* A file's rows are its entries, one each.
RowsFollowFiles ==
    /\ \A r \in entered : /\ r.id < nextId
                          /\ memories[r.file] /= NoMemory /\ r.index \in DOMAIN memories[r.file]
                          /\ r.entry = memories[r.file][r.index]
    /\ \A f \in MemoryFiles : memories[f] /= NoMemory =>
          \A i \in DOMAIN memories[f] : \E r \in entered : r.file = f /\ r.index = i
RowsAreApart ==
    \A r, s \in entered : r.id = s.id \/ (r.file = s.file /\ r.index = s.index) => r = s

VectorsFollowRows == \A v \in embeddings : \E r \in entered : r.id = v.id /\ r.entry = v.entry

\* A version is of one change; a job that is current has rows of its file to embed.
JobsFollowRows ==
    \A i \in DOMAIN embeds :
        /\ embeds[i].version <= revised
        /\ embeds[i].stage = "model" => embeds[i].todo /= {}
        /\ embeds[i].stage = "model" /\ Recall!Current(embeds[i]) =>
              embeds[i].todo \subseteq Recall!Of(embeds[i].file, entered)

RowsAreEmbedded ==
    \A r \in entered : \/ r.id \in Recall!Embedded
                       \/ \E i \in DOMAIN embeds : /\ Recall!Current(embeds[i]) /\ embeds[i].file = r.file
                                                   /\ (embeds[i].stage = "queued" \/ r \in embeds[i].todo)

RecallInvariant ==
    /\ RecallTypeOK /\ RowsFollowFiles /\ RowsAreApart /\ VectorsFollowRows /\ JobsFollowRows
    /\ RowsAreEmbedded

\* The module's own Cardinality and IsFiniteSet are the library's.
LEMMA RecallCounts ==
    ASSUME NEW S
    PROVE  Recall!Cardinality(S) = Cardinality(S) /\ Recall!IsFiniteSet(S) = IsFiniteSet(S)
BY Zenon DEF Cardinality, Recall!Cardinality, IsFiniteSet, Recall!IsFiniteSet

\* What a file holds is a sequence.
LEMMA ContentsAreSequences ==
    ASSUME Recall!RecallParameters, NEW c \in MemoryContents
    PROVE  Len(c) \in Nat /\ DOMAIN c = 1 .. Len(c) /\ c = [i \in 1 .. Len(c) |-> c[i]]
  BY RecallCounts DEF Recall!RecallParameters

\* Rows with places of their own have one order.
LEMMA ByIndexSorts ==
    ASSUME NEW T, IsFiniteSet(T), \A r \in T : r.index \in Nat,
           \A r, s \in T : r.index = s.index => r = s
    PROVE  /\ Cardinality(T) \in Nat
           /\ Recall!ByIndex(T) \in [1 .. Cardinality(T) -> T]
           /\ \A i, j \in 1 .. Cardinality(T) : i < j => Recall!ByIndex(T)[i].index < Recall!ByIndex(T)[j].index
<1> DEFINE n == Cardinality(T)
           Upto(r) == {t \in T : t.index <= r.index}
           rank == [r \in T |-> Cardinality(Upto(r))]
<1>1. n \in Nat
  BY FS_CardinalityType
<1>2. \A r \in T : IsFiniteSet(Upto(r)) /\ Cardinality(Upto(r)) \in 1 .. n
  <2> SUFFICES ASSUME NEW r \in T
               PROVE  IsFiniteSet(Upto(r)) /\ Cardinality(Upto(r)) \in 1 .. n
    OBVIOUS
  <2>1. Upto(r) \in SUBSET T /\ r \in Upto(r)
    OBVIOUS
  <2>2. IsFiniteSet(Upto(r)) /\ Cardinality(Upto(r)) <= n
    BY <2>1, FS_Subset
  <2>3. Cardinality(Upto(r)) \in Nat /\ Cardinality(Upto(r)) /= 0
    BY <2>1, <2>2, FS_CardinalityType, FS_EmptySet
  <2> QED
    BY <2>2, <2>3, <1>1
<1>3. \A r, s \in T : r.index < s.index => Cardinality(Upto(r)) < Cardinality(Upto(s))
  <2> SUFFICES ASSUME NEW r \in T, NEW s \in T, r.index < s.index
               PROVE  Cardinality(Upto(r)) < Cardinality(Upto(s))
    OBVIOUS
  <2>1. Upto(r) \in SUBSET Upto(s) /\ s \in Upto(s) /\ s \notin Upto(r)
    OBVIOUS
  <2>2. Cardinality(Upto(r)) <= Cardinality(Upto(s))
        /\ Cardinality(Upto(r)) /= Cardinality(Upto(s))
    BY <2>1, <1>2, FS_Subset
  <2>3. Cardinality(Upto(r)) \in 1 .. n /\ Cardinality(Upto(s)) \in 1 .. n
    BY <1>2
  <2> QED
    BY <2>2, <2>3, <1>1
<1>13. /\ rank \in [T -> 1 .. n]
       /\ \A r, s \in T : r.index < s.index => rank[r] < rank[s]
  BY <1>2, <1>3
<1> HIDE DEF rank, Upto, n
<1>4. \A r, s \in T : rank[r] = rank[s] => r = s
  <2> SUFFICES ASSUME NEW r \in T, NEW s \in T, rank[r] = rank[s] PROVE r = s
    OBVIOUS
  <2>1. ~(rank[r] < rank[s]) /\ ~(rank[s] < rank[r]) /\ rank[r] \in Nat
    BY <1>13
  <2> QED
    BY <2>1, <1>13
<1>5. rank \in Injection(T, 1 .. n)
  BY <1>13, <1>4 DEF Injection, IsInjective
<1>6. rank \in Surjection(T, 1 .. n)
  BY <1>1, <1>5, FS_Injection, FS_Interval DEF n
<1>7. \A i \in 1 .. n : \E r \in T : rank[r] = i
  BY <1>6 DEF Surjection
<1> DEFINE order == [i \in 1 .. n |-> CHOOSE r \in T : rank[r] = i]
<1>8. \A i \in 1 .. n : order[i] \in T /\ rank[order[i]] = i
  BY <1>7
<1>9. \A i, j \in 1 .. n : i < j => order[i].index < order[j].index
  <2> SUFFICES ASSUME NEW i \in 1 .. n, NEW j \in 1 .. n, i < j
               PROVE  order[i].index < order[j].index
    OBVIOUS
  <2>1. rank[order[i]] < rank[order[j]]
    BY <1>8
  <2>2. order[i] \in T /\ order[j] \in T
    BY <1>8
  <2> HIDE DEF order
  <2>5. rank[order[i]] \in Nat /\ rank[order[j]] \in Nat
    BY <2>2, <1>13
  <2>3. ~(order[j].index < order[i].index)
    BY <2>1, <2>2, <2>5, <1>13
  <2>4. order[i].index /= order[j].index
    BY <2>1, <2>2, <2>5
  <2> QED
    BY <2>2, <2>3, <2>4
<1>10. order \in [1 .. n -> T] /\ DOMAIN order = 1 .. n
  BY <1>8
<1> HIDE DEF order
<1>11. \E o \in [1 .. n -> T] : \A i, j \in DOMAIN o : i < j => o[i].index < o[j].index
  BY <1>9, <1>10
<1> USE DEF n
<1>12. /\ Recall!ByIndex(T) \in [1 .. n -> T]
       /\ \A i, j \in DOMAIN Recall!ByIndex(T) : i < j => Recall!ByIndex(T)[i].index < Recall!ByIndex(T)[j].index
  BY <1>11, RecallCounts, Zenon DEF Recall!ByIndex
<1> QED
  BY <1>1, <1>12

\* The order has every row once.
LEMMA ByIndexListsEach ==
    ASSUME NEW T, IsFiniteSet(T), \A r \in T : r.index \in Nat,
           \A r, s \in T : r.index = s.index => r = s
    PROVE  /\ Len(Recall!ByIndex(T)) = Cardinality(T) /\ DOMAIN Recall!ByIndex(T) = 1 .. Cardinality(T)
           /\ \A i, j \in 1 .. Cardinality(T) : Recall!ByIndex(T)[i] = Recall!ByIndex(T)[j] => i = j
           /\ \A r \in T : \E i \in 1 .. Cardinality(T) : Recall!ByIndex(T)[i] = r
<1> DEFINE n == Cardinality(T)
           o == Recall!ByIndex(T)
<1>1. /\ n \in Nat /\ o \in [1 .. n -> T]
      /\ \A i, j \in 1 .. n : i < j => o[i].index < o[j].index
  BY ByIndexSorts
<1> HIDE DEF o, n
<1>2. \A i, j \in 1 .. n : o[i] = o[j] => i = j
  <2> SUFFICES ASSUME NEW i \in 1 .. n, NEW j \in 1 .. n, o[i] = o[j] PROVE i = j
    OBVIOUS
  <2>1. o[i] \in T /\ o[j] \in T
    BY <1>1
  <2>2. ~(o[i].index < o[j].index) /\ ~(o[j].index < o[i].index)
    BY <2>1
  <2> QED
    BY <2>2, <1>1
<1>3. o \in Injection(1 .. n, T)
  BY <1>1, <1>2 DEF Injection, IsInjective
<1>4. o \in Surjection(1 .. n, T)
  BY <1>1, <1>3, FS_Injection, FS_Interval DEF n
<1>5. \A r \in T : \E i \in 1 .. n : o[i] = r
  BY <1>4 DEF Surjection
<1>6. Len(o) = n /\ DOMAIN o = 1 .. n
  BY <1>1
<1> QED
  BY <1>2, <1>5, <1>6 DEF o, n

\* Rows at the places 1 to m are in these places.
LEMMA ByIndexIsPlace ==
    ASSUME NEW T, NEW m \in Nat, \A r \in T : r.index \in 1 .. m,
           \A r, s \in T : r.index = s.index => r = s,
           \A i \in 1 .. m : \E r \in T : r.index = i
    PROVE  /\ DOMAIN Recall!ByIndex(T) = 1 .. m
           /\ \A i \in 1 .. m : Recall!ByIndex(T)[i] \in T /\ Recall!ByIndex(T)[i].index = i
<1> DEFINE place == [r \in T |-> r.index]
           o == Recall!ByIndex(T)
<1>1. place \in Injection(T, 1 .. m) /\ place \in Surjection(T, 1 .. m)
  BY DEF Injection, Surjection, IsInjective
<1>2. IsFiniteSet(1 .. m) /\ Cardinality(1 .. m) = m
  BY FS_Interval
<1>3. IsFiniteSet(T) /\ Cardinality(T) = m
  BY <1>1, <1>2, FS_Injection
<1>4. /\ o \in [1 .. m -> T] /\ DOMAIN o = 1 .. m
      /\ \A i, j \in 1 .. m : i < j => o[i].index < o[j].index
      /\ \A r \in T : \E i \in 1 .. m : o[i] = r
  <2>1. \A r \in T : r.index \in Nat
    OBVIOUS
  <2> HIDE DEF place
  <2>2. /\ o \in [1 .. m -> T]
        /\ \A i, j \in 1 .. m : i < j => o[i].index < o[j].index
    BY <2>1, <1>3, ByIndexSorts
  <2>3. DOMAIN o = 1 .. m /\ \A r \in T : \E i \in 1 .. m : o[i] = r
    BY <2>1, <1>3, ByIndexListsEach
  <2> QED
    BY <2>2, <2>3
<1> HIDE DEF o
<1>5. ASSUME NEW k \in 1 .. m PROVE o[k].index = k
  <2> DEFINE p == o[k].index
             g == [j \in 1 .. k |-> o[j].index]
  <2>1. p \in 1 .. m /\ o[k] \in T
    BY <1>4
  <2>2. \A j \in 1 .. k : o[j] \in T /\ g[j] \in 1 .. p
    <3> SUFFICES ASSUME NEW j \in 1 .. k PROVE o[j] \in T /\ g[j] \in 1 .. p
      OBVIOUS
    <3>1. j \in 1 .. m /\ o[j] \in T /\ o[j].index \in 1 .. m
      BY <1>4
    <3>2. j = k \/ o[j].index < o[k].index
      BY <3>1, <1>4
    <3> QED
      BY <3>1, <3>2, <2>1
  <2>3. \A i, j \in 1 .. k : g[i] = g[j] => i = j
    <3> SUFFICES ASSUME NEW i \in 1 .. k, NEW j \in 1 .. k, g[i] = g[j] PROVE i = j
      OBVIOUS
    <3>1. ~(o[i].index < o[j].index) /\ ~(o[j].index < o[i].index)
      BY <2>2
    <3> QED
      BY <3>1, <1>4
  <2>4. \A x \in 1 .. p : \E j \in 1 .. k : g[j] = x
    <3> SUFFICES ASSUME NEW x \in 1 .. p PROVE \E j \in 1 .. k : g[j] = x
      OBVIOUS
    <3>1. x \in 1 .. m
      BY <2>1
    <3>4. PICK r \in T : r.index = x
      BY <3>1
    <3>2. PICK j \in 1 .. m : o[j].index = x
      BY <3>4, <1>4
    <3>5. k < j => p < x
      BY <3>2, <1>4
    <3>3. ~(k < j)
      BY <3>5, <2>1
    <3> QED
      BY <3>2, <3>3
  <2>5. g \in Bijection(1 .. k, 1 .. p)
    BY <2>2, <2>3, <2>4 DEF Bijection, Injection, Surjection, IsInjective
  <2>6. Cardinality(1 .. k) = Cardinality(1 .. p)
    BY <2>5, FS_Bijection, FS_Interval DEF ExistsBijection
  <2> QED
    BY <2>1, <2>6, FS_Interval
<1> QED
  BY <1>4, <1>5 DEF o

\* What is left of a sequence without its i-th element.
LEMMA RemoveAtKeeps ==
    ASSUME NEW S, NEW q \in Seq(S), NEW i \in 1 .. Len(q)
    PROVE  /\ Recall!RemoveAt(q, i) \in Seq(S) /\ Len(Recall!RemoveAt(q, i)) = Len(q) - 1
           /\ \A k \in 1 .. Len(q) - 1 : Recall!RemoveAt(q, i)[k] = IF k < i THEN q[k] ELSE q[k + 1]
<1>1. /\ SubSeq(q, 1, i - 1) \in Seq(S) /\ Len(SubSeq(q, 1, i - 1)) = i - 1
      /\ \A k \in 1 .. i - 1 : SubSeq(q, 1, i - 1)[k] = q[k]
  OBVIOUS
<1>2. /\ SubSeq(q, i + 1, Len(q)) \in Seq(S) /\ Len(SubSeq(q, i + 1, Len(q))) = Len(q) - i
      /\ \A k \in 1 .. Len(q) - i : SubSeq(q, i + 1, Len(q))[k] = q[i + k]
  OBVIOUS
<1> DEFINE left == SubSeq(q, 1, i - 1)
           right == SubSeq(q, i + 1, Len(q))
<1> HIDE DEF left, right
<1>3. Recall!RemoveAt(q, i) = left \o right
  BY DEF Recall!RemoveAt, left, right
<1>4. /\ left \o right \in Seq(S) /\ Len(left \o right) = Len(q) - 1
      /\ \A k \in 1 .. Len(q) - 1 :
            (left \o right)[k] = IF k <= i - 1 THEN left[k] ELSE right[k - (i - 1)]
  <2>1. left \in Seq(S) /\ right \in Seq(S) /\ Len(left) = i - 1 /\ Len(right) = Len(q) - i
    BY <1>1, <1>2 DEF left, right
  <2>2. Len(left) + Len(right) = Len(q) - 1
    BY <2>1
  <2>3. /\ left \o right \in Seq(S) /\ Len(left \o right) = Len(left) + Len(right)
        /\ \A k \in 1 .. Len(left) + Len(right) :
              (left \o right)[k] = IF k <= Len(left) THEN left[k] ELSE right[k - Len(left)]
    BY <2>1, ConcatProperties
  <2> QED
    BY <2>1, <2>2, <2>3
<1>5. \A k \in 1 .. Len(q) - 1 : (left \o right)[k] = IF k < i THEN q[k] ELSE q[k + 1]
  <2> SUFFICES ASSUME NEW k \in 1 .. Len(q) - 1
               PROVE  (left \o right)[k] = IF k < i THEN q[k] ELSE q[k + 1]
    OBVIOUS
  <2>1. CASE k < i
    BY <2>1, <1>1, <1>4 DEF left
  <2>2. CASE ~(k < i)
    <3>1. k - (i - 1) \in 1 .. Len(q) - i /\ i + (k - (i - 1)) = k + 1
      BY <2>2
    <3>2. right[k - (i - 1)] = q[k + 1]
      BY <3>1, <1>2 DEF right
    <3>3. (left \o right)[k] = right[k - (i - 1)]
      <4>1. ~(k <= i - 1)
        BY <2>2
      <4> QED
        BY <4>1, <1>4
    <3> QED
      BY <2>2, <3>2, <3>3
  <2> QED
    BY <2>1, <2>2
<1> QED
  BY <1>3, <1>4, <1>5

\* Every job but the i-th stays, and none comes.
LEMMA JobsLeft ==
    ASSUME RecallTypeOK, NEW i \in DOMAIN embeds, embeds' = Recall!RemoveAt(embeds, i)
    PROVE  /\ embeds' \in Seq(EmbedJob)
           /\ \A k \in DOMAIN embeds' : \E l \in DOMAIN embeds : embeds'[k] = embeds[l]
           /\ \A l \in DOMAIN embeds : l /= i => \E k \in DOMAIN embeds' : embeds'[k] = embeds[l]
<1>1. embeds \in Seq(EmbedJob) /\ DOMAIN embeds = 1 .. Len(embeds) /\ Len(embeds) \in Nat
  BY DEF RecallTypeOK
<1>2. /\ embeds' \in Seq(EmbedJob) /\ Len(embeds') = Len(embeds) - 1
      /\ \A k \in 1 .. Len(embeds) - 1 : embeds'[k] = IF k < i THEN embeds[k] ELSE embeds[k + 1]
  <2>1. embeds \in Seq(EmbedJob) /\ i \in 1 .. Len(embeds)
    BY <1>1
  <2> QED
    BY <2>1, RemoveAtKeeps, Zenon
<1>3. DOMAIN embeds' = 1 .. Len(embeds) - 1
  BY <1>1, <1>2
<1>4. \A k \in DOMAIN embeds' : \E l \in DOMAIN embeds : embeds'[k] = embeds[l]
  <2> SUFFICES ASSUME NEW k \in DOMAIN embeds' PROVE \E l \in DOMAIN embeds : embeds'[k] = embeds[l]
    OBVIOUS
  <2>1. CASE k < i
    BY <2>1, <1>1, <1>2, <1>3
  <2>2. CASE ~(k < i)
    <3>1. k \in 1 .. Len(embeds) - 1 /\ k + 1 \in DOMAIN embeds
      BY <1>1, <1>3
    <3>2. embeds'[k] = embeds[k + 1]
      BY <2>2, <3>1, <1>2
    <3> QED
      BY <3>1, <3>2
  <2> QED
    BY <2>1, <2>2
<1>5. ASSUME NEW l \in DOMAIN embeds, l /= i
      PROVE  \E k \in DOMAIN embeds' : embeds'[k] = embeds[l]
  <2>1. CASE l < i
    BY <2>1, <1>1, <1>2, <1>3
  <2>2. CASE l > i
    <3>1. l - 1 \in 1 .. Len(embeds) - 1 /\ ~(l - 1 < i) /\ (l - 1) + 1 = l
      BY <2>2, <1>1
    <3> QED
      BY <3>1, <1>2, <1>3
  <2> QED
    BY <2>1, <2>2, <1>5, <1>1
<1> QED
  BY <1>2, <1>4, <1>5

\* The rows of a file are finite in number and have places of their own.
LEMMA FileRows ==
    ASSUME Recall!RecallParameters, RecallTypeOK, RowsFollowFiles, RowsAreApart, NEW f \in MemoryFiles,
           NEW T, T \subseteq Recall!Of(f, entered)
    PROVE  /\ IsFiniteSet(T) /\ \A r \in T : r.index \in Nat
           /\ \A r, s \in T : r.index = s.index => r = s
<1>1. T \subseteq entered /\ \A r \in T : r.file = f /\ r.index \in Nat
  BY DEF Recall!Of, RecallTypeOK, EntryRow
<1>2. \A r, s \in T : r.index = s.index => r = s
  BY <1>1 DEF RowsAreApart
<1>3. CASE memories[f] = NoMemory
  <2>1. T = {}
    BY <1>1, <1>3 DEF RowsFollowFiles
  <2> QED
    BY <2>1, FS_EmptySet
<1>4. CASE memories[f] /= NoMemory
  <2> DEFINE m == Len(memories[f])
  <2>1. m \in Nat /\ DOMAIN memories[f] = 1 .. m
    BY <1>4, RecallCounts DEF Recall!RecallParameters, RecallTypeOK
  <2>2. \A r \in T : r.index \in 1 .. m
    BY <1>1, <2>1 DEF RowsFollowFiles
  <2>3. [r \in T |-> r.index] \in Injection(T, 1 .. m)
    BY <1>2, <2>2 DEF Injection, IsInjective
  <2> HIDE DEF m
  <2>5. IsFiniteSet(1 .. m)
    BY <2>1, FS_Interval
  <2>4. IsFiniteSet(T)
    BY <2>3, <2>5, FS_Injection
  <2> QED
    BY <2>4, <1>1, <1>2
<1> QED
  BY <1>3, <1>4

\* Copies of one text have numbers of their own.
LEMMA CopiesAreNumbered ==
    ASSUME NEW entries, Len(entries) \in Nat, DOMAIN entries = 1 .. Len(entries),
           NEW i \in DOMAIN entries
    PROVE  /\ Recall!CopyNumber(entries, i) \in Nat \ {0}
           /\ \A j \in DOMAIN entries : j < i /\ entries[j] = entries[i] =>
                 Recall!CopyNumber(entries, j) < Recall!CopyNumber(entries, i)
<1> DEFINE copies(k) == {j \in 1 .. k : entries[j] = entries[k]}
<1>1. ASSUME NEW k \in DOMAIN entries
      PROVE  /\ IsFiniteSet(copies(k)) /\ Cardinality(copies(k)) \in Nat \ {0}
             /\ Recall!CopyNumber(entries, k) = Cardinality(copies(k))
  <2>1. copies(k) \in SUBSET (1 .. k) /\ k \in copies(k)
    OBVIOUS
  <2>4. IsFiniteSet(1 .. k)
    BY FS_Interval
  <2>2. IsFiniteSet(copies(k))
    BY <2>1, <2>4, FS_Subset
  <2>3. Cardinality(copies(k)) \in Nat /\ Cardinality(copies(k)) /= 0
    BY <2>1, <2>2, FS_CardinalityType, FS_EmptySet
  <2> QED
    BY <2>2, <2>3, RecallCounts DEF Recall!CopyNumber
<1>2. ASSUME NEW j \in DOMAIN entries, j < i, entries[j] = entries[i]
      PROVE  Recall!CopyNumber(entries, j) < Recall!CopyNumber(entries, i)
  <2>1. copies(j) \in SUBSET copies(i) /\ i \in copies(i) /\ i \notin copies(j)
    BY <1>2
  <2>2. /\ Cardinality(copies(j)) <= Cardinality(copies(i))
        /\ Cardinality(copies(j)) /= Cardinality(copies(i))
    BY <2>1, <1>1, FS_Subset
  <2> HIDE DEF copies
  <2> QED
    BY <2>2, <1>1
<1> QED
  BY <1>1, <1>2

\* An entry claims a row of its file and of its own text, or none; two entries never
\* claim the same.
LEMMA ClaimsAreApart ==
    ASSUME Recall!RecallParameters, RecallTypeOK, RowsFollowFiles, RowsAreApart,
           NEW f \in MemoryFiles, NEW entries, Len(entries) \in Nat, DOMAIN entries = 1 .. Len(entries)
    PROVE  /\ \A i \in DOMAIN entries :
                 Recall!Claimed(f, entries, i) = {} \/
                 \E r \in entered : /\ r.file = f /\ r.entry = entries[i]
                                    /\ Recall!Claimed(f, entries, i) = {r.id}
           /\ \A i, j \in DOMAIN entries :
                 i /= j => Recall!Claimed(f, entries, i) \intersect Recall!Claimed(f, entries, j) = {}
<1> DEFINE T(e) == {r \in Recall!Of(f, entered) : r.entry = e}
           copies(e) == Recall!ByIndex(T(e))
<1>1. ASSUME NEW e
      PROVE  /\ DOMAIN copies(e) = 1 .. Len(copies(e)) /\ Len(copies(e)) \in Nat
             /\ \A n \in 1 .. Len(copies(e)) :
                   copies(e)[n] \in entered /\ copies(e)[n].file = f /\ copies(e)[n].entry = e
             /\ \A n, m \in 1 .. Len(copies(e)) : copies(e)[n] = copies(e)[m] => n = m
  <2>1. T(e) \subseteq Recall!Of(f, entered)
    OBVIOUS
  <2>2. /\ IsFiniteSet(T(e)) /\ \A r \in T(e) : r.index \in Nat
        /\ \A r, s \in T(e) : r.index = s.index => r = s
    BY <2>1, FileRows
  <2>6. \A r \in T(e) : r \in entered /\ r.file = f /\ r.entry = e
    BY DEF Recall!Of
  <2> HIDE DEF T
  <2>3. Cardinality(T(e)) \in Nat /\ copies(e) \in [1 .. Cardinality(T(e)) -> T(e)]
    BY <2>2, ByIndexSorts
  <2>4. /\ Len(copies(e)) = Cardinality(T(e))
        /\ DOMAIN copies(e) = 1 .. Cardinality(T(e))
        /\ \A n, m \in 1 .. Cardinality(T(e)) : copies(e)[n] = copies(e)[m] => n = m
    BY <2>2, ByIndexListsEach
  <2> QED
    BY <2>3, <2>4, <2>6
<1>2. \A i : Recall!Claimed(f, entries, i) =
                     IF Recall!CopyNumber(entries, i) <= Len(copies(entries[i]))
                     THEN {copies(entries[i])[Recall!CopyNumber(entries, i)].id} ELSE {}
  BY DEF Recall!Claimed
<1>3. \A i \in DOMAIN entries : Recall!CopyNumber(entries, i) \in Nat \ {0}
  BY CopiesAreNumbered
<1>4. \A i, j \in DOMAIN entries : i /= j /\ entries[i] = entries[j] =>
          Recall!CopyNumber(entries, i) /= Recall!CopyNumber(entries, j)
  <2> SUFFICES ASSUME NEW i \in DOMAIN entries, NEW j \in DOMAIN entries, i /= j,
                      entries[i] = entries[j]
               PROVE  Recall!CopyNumber(entries, i) /= Recall!CopyNumber(entries, j)
    OBVIOUS
  <2>1. CASE i < j
    BY <2>1, <1>3, CopiesAreNumbered
  <2>2. CASE j < i
    BY <2>2, <1>3, CopiesAreNumbered
  <2> QED
    BY <2>1, <2>2
<1> HIDE DEF copies, T
<1>5. ASSUME NEW i \in DOMAIN entries, Recall!CopyNumber(entries, i) <= Len(copies(entries[i]))
      PROVE  \E r \in entered : /\ r.file = f /\ r.entry = entries[i]
                                /\ r = copies(entries[i])[Recall!CopyNumber(entries, i)]
                                /\ Recall!Claimed(f, entries, i) = {r.id}
  <2>1. Recall!CopyNumber(entries, i) \in 1 .. Len(copies(entries[i]))
    BY <1>3, <1>5, <1>1
  <2> QED
    BY <2>1, <1>1, <1>2, <1>5
<1>6. ASSUME NEW i \in DOMAIN entries, NEW j \in DOMAIN entries, i /= j,
             Recall!CopyNumber(entries, i) <= Len(copies(entries[i])),
             Recall!CopyNumber(entries, j) <= Len(copies(entries[j]))
      PROVE  Recall!Claimed(f, entries, i) \intersect Recall!Claimed(f, entries, j) = {}
  <2>1. PICK r \in entered : /\ r.file = f /\ r.entry = entries[i]
                             /\ r = copies(entries[i])[Recall!CopyNumber(entries, i)]
                             /\ Recall!Claimed(f, entries, i) = {r.id}
    BY <1>5, <1>6
  <2>2. PICK s \in entered : /\ s.file = f /\ s.entry = entries[j]
                             /\ s = copies(entries[j])[Recall!CopyNumber(entries, j)]
                             /\ Recall!Claimed(f, entries, j) = {s.id}
    BY <1>5, <1>6
  <2>3. Recall!CopyNumber(entries, i) \in 1 .. Len(copies(entries[i]))
        /\ Recall!CopyNumber(entries, j) \in 1 .. Len(copies(entries[j]))
    BY <1>3, <1>6, <1>1
  <2>4. r /= s
    <3>1. CASE entries[i] = entries[j]
      BY <3>1, <2>1, <2>2, <2>3, <1>1, <1>4, <1>6
    <3>2. CASE entries[i] /= entries[j]
      BY <3>2, <2>1, <2>2
    <3> QED
      BY <3>1, <3>2
  <2>5. r.id /= s.id
    BY <2>4 DEF RowsAreApart
  <2> QED
    BY <2>1, <2>2, <2>5
<1>7. \A i \in DOMAIN entries :
          Recall!Claimed(f, entries, i) = {} \/
          \E r \in entered : r.file = f /\ r.entry = entries[i] /\ Recall!Claimed(f, entries, i) = {r.id}
  BY <1>2, <1>5
<1>8. \A i, j \in DOMAIN entries :
          i /= j => Recall!Claimed(f, entries, i) \intersect Recall!Claimed(f, entries, j) = {}
  BY <1>2, <1>6
<1> QED
  BY <1>7, <1>8

\* A fresh row's id is new; a claimed one keeps the id of a row of its text; and no two
\* rows get the same.
LEMMA IdsAreApart ==
    ASSUME Recall!RecallParameters, RecallTypeOK, RowsFollowFiles, RowsAreApart,
           NEW f \in MemoryFiles, NEW entries, Len(entries) \in Nat, DOMAIN entries = 1 .. Len(entries)
    PROVE  /\ Cardinality(Recall!Fresh(f, entries)) \in Nat
           /\ \A i \in DOMAIN entries :
                 /\ Recall!IdOf(f, entries, i) \in Nat
                 /\ Recall!IdOf(f, entries, i) < nextId + Cardinality(Recall!Fresh(f, entries))
                 /\ Recall!IdOf(f, entries, i) < nextId =>
                              \E r \in entered : r.file = f /\ r.entry = entries[i] /\ r.id = Recall!IdOf(f, entries, i)
           /\ \A i, j \in DOMAIN entries : Recall!IdOf(f, entries, i) = Recall!IdOf(f, entries, j) => i = j
<1> DEFINE new == Recall!Fresh(f, entries)
           below(i) == {j \in new : j < i}
<1>1. IsFiniteSet(new) /\ Cardinality(new) \in Nat /\ new \subseteq DOMAIN entries
  <2>1. new \in SUBSET (1 .. Len(entries)) /\ new \subseteq DOMAIN entries
    BY DEF Recall!Fresh
  <2>2. IsFiniteSet(1 .. Len(entries))
    BY FS_Interval
  <2> QED
    BY <2>1, <2>2, FS_Subset, FS_CardinalityType
<1> HIDE DEF new
<1>2. \A i \in new : Cardinality(below(i)) \in Nat /\ Cardinality(below(i)) < Cardinality(new)
  <2> SUFFICES ASSUME NEW i \in new
               PROVE  Cardinality(below(i)) \in Nat /\ Cardinality(below(i)) < Cardinality(new)
    OBVIOUS
  <2>1. below(i) \in SUBSET new /\ i \notin below(i) /\ i \in new
    BY <1>1
  <2>2. /\ IsFiniteSet(below(i)) /\ Cardinality(below(i)) <= Cardinality(new)
        /\ Cardinality(below(i)) /= Cardinality(new)
    BY <2>1, <1>1, FS_Subset
  <2>3. Cardinality(below(i)) \in Nat
    BY <2>2, FS_CardinalityType
  <2> HIDE DEF below
  <2> QED
    BY <2>2, <2>3, <1>1
<1>3. \A i, j \in new : i < j => Cardinality(below(i)) < Cardinality(below(j))
  <2> SUFFICES ASSUME NEW i \in new, NEW j \in new, i < j
               PROVE  Cardinality(below(i)) < Cardinality(below(j))
    OBVIOUS
  <2>1. below(i) \in SUBSET below(j) /\ i \in below(j) /\ i \notin below(i)
        /\ below(j) \in SUBSET new
    BY <1>1
  <2>2. IsFiniteSet(below(j))
    BY <2>1, <1>1, FS_Subset
  <2>3. Cardinality(below(i)) <= Cardinality(below(j))
        /\ Cardinality(below(i)) /= Cardinality(below(j))
    BY <2>1, <2>2, FS_Subset
  <2> HIDE DEF below
  <2> QED
    BY <2>3, <1>2
<1>4. \A i \in new : Recall!IdOf(f, entries, i) = nextId + Cardinality(below(i))
  BY RecallCounts DEF Recall!IdOf, new
<1>5. \A i \in DOMAIN entries : i \notin new =>
          \E r \in entered : /\ r.file = f /\ r.entry = entries[i] /\ r.id = Recall!IdOf(f, entries, i)
                             /\ Recall!Claimed(f, entries, i) = {r.id}
  <2> SUFFICES ASSUME NEW i \in DOMAIN entries, i \notin new
               PROVE  \E r \in entered : /\ r.file = f /\ r.entry = entries[i]
                                         /\ r.id = Recall!IdOf(f, entries, i)
                                         /\ Recall!Claimed(f, entries, i) = {r.id}
    OBVIOUS
  <2>1. Recall!Claimed(f, entries, i) /= {}
    BY DEF Recall!Fresh, new
  <2>2. PICK r \in entered : r.file = f /\ r.entry = entries[i] /\ Recall!Claimed(f, entries, i) = {r.id}
    BY <2>1, ClaimsAreApart
  <2>3. Recall!IdOf(f, entries, i) = CHOOSE id \in {r.id} : TRUE
    BY <2>2, RecallCounts DEF Recall!IdOf, new
  <2> QED
    BY <2>2, <2>3
<1> HIDE DEF below
<1>6. nextId \in Nat /\ \A r \in entered : r.id \in Nat /\ r.id < nextId
  BY DEF RecallTypeOK, EntryRow, RowsFollowFiles
<1>7. ASSUME NEW i \in DOMAIN entries
      PROVE  /\ Recall!IdOf(f, entries, i) \in Nat
             /\ Recall!IdOf(f, entries, i) < nextId + Cardinality(new)
             /\ Recall!IdOf(f, entries, i) < nextId =>
                          \E r \in entered : r.file = f /\ r.entry = entries[i] /\ r.id = Recall!IdOf(f, entries, i)
  <2>1. CASE i \in new
    BY <2>1, <1>1, <1>2, <1>4, <1>6
  <2>2. CASE i \notin new
    <3>1. PICK r \in entered : r.file = f /\ r.entry = entries[i] /\ r.id = Recall!IdOf(f, entries, i)
      BY <2>2, <1>5
    <3> QED
      BY <3>1, <1>6, <1>1
  <2> QED
    BY <2>1, <2>2
<1>8. ASSUME NEW i \in DOMAIN entries, NEW j \in DOMAIN entries, i /= j
      PROVE  Recall!IdOf(f, entries, i) /= Recall!IdOf(f, entries, j)
  <2>1. CASE i \in new /\ j \in new
    <3>1. Cardinality(below(i)) /= Cardinality(below(j))
      <4>1. CASE i < j
        BY <4>1, <2>1, <1>3, <1>2
      <4>2. CASE j < i
        BY <4>2, <2>1, <1>3, <1>2
      <4> QED
        BY <4>1, <4>2, <1>8
    <3> QED
      BY <3>1, <2>1, <1>2, <1>4, <1>6
  <2>2. CASE i \in new /\ j \notin new
    BY <2>2, <1>2, <1>4, <1>5, <1>6
  <2>3. CASE i \notin new /\ j \in new
    BY <2>3, <1>2, <1>4, <1>5, <1>6
  <2>4. CASE i \notin new /\ j \notin new
    <3>1. /\ Recall!Claimed(f, entries, i) = {Recall!IdOf(f, entries, i)}
          /\ Recall!Claimed(f, entries, j) = {Recall!IdOf(f, entries, j)}
      BY <2>4, <1>5
    <3>2. Recall!Claimed(f, entries, i) \intersect Recall!Claimed(f, entries, j) = {}
      BY <1>8, ClaimsAreApart
    <3> QED
      BY <3>1, <3>2
  <2> QED
    BY <2>1, <2>2, <2>3, <2>4
<1> QED
  BY <1>1, <1>7, <1>8 DEF new

\* The rows that an upsert leaves of its file.
LEMMA ReconciledRows ==
    ASSUME Recall!RecallParameters, RecallTypeOK, RowsFollowFiles, RowsAreApart,
           NEW f \in MemoryFiles, NEW entries \in MemoryContents
    PROVE  /\ Cardinality(Recall!Fresh(f, entries)) \in Nat
           /\ Recall!Reconciled(f, entries) \subseteq EntryRow
           /\ \A r \in Recall!Reconciled(f, entries) :
                 /\ r.file = f /\ r.index \in DOMAIN entries /\ r.entry = entries[r.index]
                 /\ r.id < nextId + Cardinality(Recall!Fresh(f, entries))
                 /\ r.id < nextId => \E s \in entered : s.file = f /\ s.entry = r.entry /\ s.id = r.id
           /\ \A i \in DOMAIN entries : \E r \in Recall!Reconciled(f, entries) : r.index = i
           /\ \A r, s \in Recall!Reconciled(f, entries) : r.id = s.id \/ r.index = s.index => r = s
<1> DEFINE place(i) == [id |-> Recall!IdOf(f, entries, i), file |-> f, entry |-> entries[i], index |-> i]
<1>1. Len(entries) \in Nat /\ DOMAIN entries = 1 .. Len(entries)
  BY RecallCounts DEF Recall!RecallParameters
<1>2. /\ Cardinality(Recall!Fresh(f, entries)) \in Nat
      /\ \A i \in DOMAIN entries :
            /\ Recall!IdOf(f, entries, i) \in Nat
            /\ Recall!IdOf(f, entries, i) < nextId + Cardinality(Recall!Fresh(f, entries))
            /\ Recall!IdOf(f, entries, i) < nextId =>
                         \E r \in entered : r.file = f /\ r.entry = entries[i] /\ r.id = Recall!IdOf(f, entries, i)
      /\ \A i, j \in DOMAIN entries : Recall!IdOf(f, entries, i) = Recall!IdOf(f, entries, j) => i = j
  BY <1>1, IdsAreApart
<1>3. Recall!Reconciled(f, entries) = {place(i) : i \in DOMAIN entries}
  BY DEF Recall!Reconciled
<1>4. \A i \in DOMAIN entries : entries[i] \in Entries
  BY DEF Entries
<1>5. Recall!Reconciled(f, entries) \subseteq EntryRow
  BY <1>1, <1>2, <1>3, <1>4 DEF EntryRow
<1>6. ASSUME NEW r \in Recall!Reconciled(f, entries)
      PROVE  /\ r.file = f /\ r.index \in DOMAIN entries /\ r.entry = entries[r.index]
             /\ r.id = Recall!IdOf(f, entries, r.index) /\ r = place(r.index)
  BY <1>3
<1>10. \A i \in DOMAIN entries : place(i) \in Recall!Reconciled(f, entries) /\ place(i).index = i
  BY <1>3
<1> HIDE DEF place
<1>7. \A i \in DOMAIN entries : \E r \in Recall!Reconciled(f, entries) : r.index = i
  BY <1>10
<1>8. \A r, s \in Recall!Reconciled(f, entries) : r.id = s.id \/ r.index = s.index => r = s
  BY <1>2, <1>6
<1>9. \A r \in Recall!Reconciled(f, entries) :
          /\ r.file = f /\ r.index \in DOMAIN entries /\ r.entry = entries[r.index]
          /\ r.id < nextId + Cardinality(Recall!Fresh(f, entries))
          /\ r.id < nextId => \E s \in entered : s.file = f /\ s.entry = r.entry /\ s.id = r.id
  BY <1>2, <1>6
<1> QED
  BY <1>2, <1>5, <1>7, <1>8, <1>9

\* What an upsert does to each part of the index.
LEMMA UpsertFields ==
    ASSUME RecallTypeOK, NEW f \in MemoryFiles, NEW entries \in MemoryContents, Recall!Upsert(f, entries)
    PROVE  /\ memories' = [memories EXCEPT ![f] = entries]
           /\ \A r : r \in entered' <=> r \in Recall!Reconciled(f, entries) \/ (r \in entered /\ r.file /= f)
           /\ nextId' = nextId + Cardinality(Recall!Fresh(f, entries))
           /\ \A v : v \in embeddings' <=>
                 /\ v \in embeddings
                 /\ \A r \in entered : r.file = f /\ r.id = v.id =>
                        \E t \in Recall!Reconciled(f, entries) : t.id = r.id
           /\ sources' = [sources EXCEPT ![f] = revised + 1] /\ revised' = revised + 1
           /\ embeds' = Append(embeds, [file |-> f, version |-> revised + 1,
                                        stage |-> "queued", todo |-> {}])
<1>1. entered' = (entered \ Recall!Of(f, entered)) \union Recall!Reconciled(f, entries)
  BY RecallCounts DEF Recall!Upsert
<1>2. embeddings' = {v \in embeddings :
             v.id \notin {r.id : r \in Recall!Of(f, entered)} \ {r.id : r \in Recall!Reconciled(f, entries)}}
  BY RecallCounts DEF Recall!Upsert
<1>3. \A r : r \in entered' <=> r \in Recall!Reconciled(f, entries) \/ (r \in entered /\ r.file /= f)
  BY <1>1 DEF Recall!Of
<1>4. \A v : v \in embeddings' <=>
          /\ v \in embeddings
          /\ \A r \in entered : r.file = f /\ r.id = v.id =>
                 \E t \in Recall!Reconciled(f, entries) : t.id = r.id
  BY <1>2 DEF Recall!Of
<1> QED
  BY <1>3, <1>4, RecallCounts DEF Recall!Upsert

\* An upsert keeps the invariant.
LEMMA UpsertKeeps ==
    ASSUME Recall!RecallParameters, RecallInvariant, NEW f \in MemoryFiles, NEW entries \in MemoryContents,
           Recall!Upsert(f, entries)
    PROVE  RecallInvariant'
<1> DEFINE table == Recall!Reconciled(f, entries)
           n == Cardinality(Recall!Fresh(f, entries))
<1> USE DEF RecallInvariant
<1>1. /\ n \in Nat /\ table \subseteq EntryRow
      /\ \A r \in table :
            /\ r.file = f /\ r.index \in DOMAIN entries /\ r.entry = entries[r.index]
            /\ r.id < nextId + n
            /\ r.id < nextId => \E s \in entered : s.file = f /\ s.entry = r.entry /\ s.id = r.id
      /\ \A i \in DOMAIN entries : \E r \in table : r.index = i
      /\ \A r, s \in table : r.id = s.id \/ r.index = s.index => r = s
  BY ReconciledRows
<1>2. /\ memories' = [memories EXCEPT ![f] = entries]
      /\ \A r : r \in entered' <=> r \in table \/ (r \in entered /\ r.file /= f)
      /\ nextId' = nextId + n
      /\ \A v : v \in embeddings' <=>
            /\ v \in embeddings
            /\ \A r \in entered : r.file = f /\ r.id = v.id => \E t \in table : t.id = r.id
      /\ sources' = [sources EXCEPT ![f] = revised + 1] /\ revised' = revised + 1
      /\ embeds' = Append(embeds, [file |-> f, version |-> revised + 1,
                                   stage |-> "queued", todo |-> {}])
  BY UpsertFields
<1> HIDE DEF table, n
<1>3. /\ memories \in [MemoryFiles -> MemoryContents \union {NoMemory}] /\ entered \subseteq EntryRow
      /\ nextId \in Nat /\ revised \in Nat /\ sources \in [MemoryFiles -> Nat]
      /\ embeds \in Seq(EmbedJob)
      /\ \A r \in entered : r.id < nextId /\ r.id \in Nat /\ r.file \in MemoryFiles
  BY DEF RecallTypeOK, RowsFollowFiles, EntryRow
<1> DEFINE newJob == [file |-> f, version |-> revised + 1, stage |-> "queued", todo |-> {}]
<1>4. newJob \in EmbedJob
  BY <1>3 DEF EmbedJob
<1>5. /\ embeds' \in Seq(EmbedJob) /\ DOMAIN embeds' = 1 .. Len(embeds) + 1 /\ Len(embeds) \in Nat
      /\ DOMAIN embeds = 1 .. Len(embeds)
      /\ \A i \in DOMAIN embeds : i \in DOMAIN embeds' /\ embeds'[i] = embeds[i] /\ embeds[i] \in EmbedJob
      /\ embeds'[Len(embeds) + 1] = newJob
  BY <1>2, <1>3, <1>4
<1> HIDE DEF newJob
<1>6. RecallTypeOK'
  <2>1. entered' \subseteq EntryRow
    BY <1>1, <1>2, <1>3
  <2>2. memories' \in [MemoryFiles -> MemoryContents \union {NoMemory}] /\ sources' \in [MemoryFiles -> Nat]
    BY <1>2, <1>3
  <2> QED
    BY <1>1, <1>2, <1>3, <1>5, <2>1, <2>2 DEF RecallTypeOK
<1>7. RowsFollowFiles'
  <2>1. ASSUME NEW r \in entered'
        PROVE  /\ r.id < nextId' /\ memories'[r.file] /= NoMemory
               /\ r.index \in DOMAIN memories'[r.file] /\ r.entry = memories'[r.file][r.index]
    <3>1. CASE r \in table
      <4>1. memories'[r.file] = entries
        BY <3>1, <1>1, <1>2, <1>3
      <4> QED
        BY <3>1, <4>1, <1>1, <1>2, RecallCounts DEF Recall!RecallParameters
    <3>2. CASE r \in entered /\ r.file /= f
      <4>1. memories'[r.file] = memories[r.file]
        BY <3>2, <1>2, <1>3
      <4>2. r.id < nextId'
        BY <3>2, <1>1, <1>2, <1>3
      <4> QED
        BY <3>2, <4>1, <4>2 DEF RowsFollowFiles
    <3> QED
      BY <2>1, <3>1, <3>2, <1>2
  <2>2. ASSUME NEW g \in MemoryFiles, memories'[g] /= NoMemory, NEW i \in DOMAIN memories'[g]
        PROVE  \E r \in entered' : r.file = g /\ r.index = i
    <3>1. CASE g = f
      <4>1. i \in DOMAIN entries
        BY <3>1, <1>2, <1>3
      <4> QED
        BY <3>1, <4>1, <1>1, <1>2
    <3>2. CASE g /= f
      <4>1. memories'[g] = memories[g]
        BY <3>2, <1>2, <1>3
      <4> QED
        BY <3>2, <4>1, <2>2, <1>2 DEF RowsFollowFiles
    <3> QED
      BY <3>1, <3>2
  <2> QED
    BY <2>1, <2>2 DEF RowsFollowFiles
<1>8. RowsAreApart'
  <2> SUFFICES ASSUME NEW r \in entered', NEW s \in entered',
                      r.id = s.id \/ (r.file = s.file /\ r.index = s.index)
               PROVE  r = s
    BY DEF RowsAreApart
  <2>1. CASE r \in table /\ s \in table
    BY <2>1, <1>1
  <2>2. \A t, u : t \in table /\ u \in entered /\ u.file /= f => t.id /= u.id /\ t.file /= u.file
    <3> SUFFICES ASSUME NEW t \in table, NEW u \in entered, u.file /= f, t.id = u.id PROVE FALSE
      BY <1>1
    <3>1. PICK w \in entered : w.file = f /\ w.id = t.id
      BY <1>1, <1>3
    <3> QED
      BY <3>1 DEF RowsAreApart
  <2>3. CASE r \in entered /\ r.file /= f /\ s \in entered /\ s.file /= f
    BY <2>3 DEF RowsAreApart
  <2> QED
    BY <2>1, <2>2, <2>3, <1>2
<1>9. VectorsFollowRows'
  <2> SUFFICES ASSUME NEW v \in embeddings'
               PROVE  \E r \in entered' : r.id = v.id /\ r.entry = v.entry
    BY DEF VectorsFollowRows
  <2>1. PICK r \in entered : r.id = v.id /\ r.entry = v.entry
    BY <1>2 DEF VectorsFollowRows
  <2>2. CASE r.file /= f
    BY <2>1, <2>2, <1>2
  <2>3. CASE r.file = f
    <3>1. PICK t \in table : t.id = r.id
      BY <2>1, <2>3, <1>2
    <3>2. PICK w \in entered : w.entry = t.entry /\ w.id = t.id
      BY <3>1, <1>1, <1>3
    <3>3. w = r
      BY <3>1, <3>2 DEF RowsAreApart
    <3> QED
      BY <2>1, <3>1, <3>2, <3>3, <1>2
  <2> QED
    BY <2>2, <2>3
<1>10. \A i \in DOMAIN embeds : embeds[i].version <= revised
  BY DEF JobsFollowRows
<1>11. \A i \in DOMAIN embeds :
          Recall!Current(embeds[i])' <=> Recall!Current(embeds[i]) /\ embeds[i].file /= f
  <2> SUFFICES ASSUME NEW i \in DOMAIN embeds
               PROVE  sources'[embeds'[i].file] = embeds'[i].version
                      <=> Recall!Current(embeds[i]) /\ embeds[i].file /= f
    BY DEF Recall!Current
  <2>1. embeds[i].file \in MemoryFiles /\ embeds[i].version \in Nat /\ embeds[i].version <= revised
    BY <1>5, <1>10 DEF EmbedJob
  <2>2. sources'[embeds[i].file] = IF embeds[i].file = f THEN revised + 1 ELSE sources[embeds[i].file]
    BY <2>1, <1>2, <1>3
  <2>3. revised + 1 /= embeds[i].version
    BY <2>1, <1>3
  <2> QED
    BY <2>1, <2>2, <2>3, <1>5 DEF Recall!Current
<1>12. JobsFollowRows'
  <2> SUFFICES ASSUME NEW i \in DOMAIN embeds'
               PROVE  /\ embeds'[i].version <= revised'
                      /\ embeds'[i].stage = "model" => embeds'[i].todo /= {}
                      /\ embeds'[i].stage = "model" /\ Recall!Current(embeds[i])' =>
                              embeds'[i].todo \subseteq Recall!Of(embeds[i].file, entered)'
    BY DEF JobsFollowRows
  <2>1. CASE i = Len(embeds) + 1
    <3>1. embeds'[i] = newJob
      BY <2>1, <1>5
    <3> QED
      BY <3>1, <1>2, <1>3 DEF newJob
  <2>2. CASE i \in DOMAIN embeds
    <3>1. embeds[i].version \in Nat /\ embeds[i].version <= revised
      BY <2>2, <1>5, <1>10 DEF EmbedJob
    <3>2. /\ embeds[i].stage = "model" => embeds[i].todo /= {}
          /\ embeds[i].stage = "model" /\ Recall!Current(embeds[i]) =>
                  embeds[i].todo \subseteq Recall!Of(embeds[i].file, entered)
      BY <2>2 DEF JobsFollowRows
    <3>3. embeds[i].file /= f => Recall!Of(embeds[i].file, entered) \subseteq Recall!Of(embeds[i].file, entered)'
      BY <2>2, <1>2, <1>5 DEF Recall!Of
    <3> QED
      BY <2>2, <3>1, <3>2, <3>3, <1>2, <1>3, <1>5, <1>11
  <2> QED
    BY <2>1, <2>2, <1>5
<1>13. RowsAreEmbedded'
  <2> SUFFICES ASSUME NEW r \in entered'
               PROVE  \/ r.id \in Recall!Embedded'
                      \/ \E i \in DOMAIN embeds' :
                            /\ Recall!Current(embeds[i])' /\ embeds'[i].file = r.file
                            /\ (embeds'[i].stage = "queued" \/ r \in embeds'[i].todo)
    BY DEF RowsAreEmbedded
  <2>1. CASE r \in table
    <3>5. PICK i \in Nat : i = Len(embeds) + 1
      BY <1>5
    <3>1. i \in DOMAIN embeds' /\ embeds'[i] = newJob
      BY <3>5, <1>5
    <3>2. sources'[f] = revised + 1
      BY <1>2, <1>3
    <3>3. Recall!Current(embeds[i])'
      BY <3>1, <3>2 DEF Recall!Current, newJob
    <3>4. embeds'[i].file = r.file /\ embeds'[i].stage = "queued"
      BY <3>1, <2>1, <1>1 DEF newJob
    <3> QED
      BY <3>1, <3>3, <3>4
  <2>2. CASE r \in entered /\ r.file /= f
    <3>1. CASE r.id \in Recall!Embedded
      <4>1. PICK v \in embeddings : v.id = r.id
        BY <3>1 DEF Recall!Embedded
      <4>2. v \in embeddings'
        BY <4>1, <2>2, <1>2 DEF RowsAreApart
      <4> QED
        BY <4>1, <4>2 DEF Recall!Embedded
    <3>2. CASE r.id \notin Recall!Embedded
      <4>1. PICK i \in DOMAIN embeds : /\ Recall!Current(embeds[i]) /\ embeds[i].file = r.file
                                       /\ (embeds[i].stage = "queued" \/ r \in embeds[i].todo)
        BY <3>2, <2>2 DEF RowsAreEmbedded
      <4>2. Recall!Current(embeds[i])'
        BY <4>1, <2>2, <1>11
      <4> QED
        BY <4>1, <4>2, <1>5
    <3> QED
      BY <3>1, <3>2
  <2> QED
    BY <2>1, <2>2, <1>2
<1> QED
  BY <1>6, <1>7, <1>8, <1>9, <1>12, <1>13


\* So does the removal of a file.
LEMMA RemovalKeeps ==
    ASSUME Recall!RecallParameters, RecallInvariant, NEW f \in MemoryFiles, Recall!RemoveFile(f)
    PROVE  RecallInvariant'
<1> USE DEF RecallInvariant
<1>1. /\ memories' = [memories EXCEPT ![f] = NoMemory]
      /\ \A r : r \in entered' <=> r \in entered /\ r.file /= f
      /\ \A v : v \in embeddings' <=> v \in embeddings /\ \A r \in entered : r.file = f => r.id /= v.id
      /\ sources' = [sources EXCEPT ![f] = 0] /\ revised' = revised + 1
      /\ nextId' = nextId /\ embeds' = embeds
  BY DEF Recall!RemoveFile, Recall!Of
<1>2. /\ memories \in [MemoryFiles -> MemoryContents \union {NoMemory}] /\ entered \subseteq EntryRow
      /\ nextId \in Nat /\ revised \in Nat /\ sources \in [MemoryFiles -> Nat]
      /\ embeds \in Seq(EmbedJob)
      /\ \A r \in entered : r.file \in MemoryFiles
      /\ \A i \in DOMAIN embeds : embeds[i].file \in MemoryFiles /\ embeds[i].version \in Nat \ {0}
  <2>1. embeds \in Seq(EmbedJob)
    BY DEF RecallTypeOK
  <2>2. \A i \in DOMAIN embeds : embeds[i] \in EmbedJob
    BY <2>1
  <2>3. \A i \in DOMAIN embeds : embeds[i].file \in MemoryFiles /\ embeds[i].version \in Nat \ {0}
    BY <2>2 DEF EmbedJob
  <2> QED
    BY <2>1, <2>3 DEF RecallTypeOK, EntryRow
<1>3. \A g \in MemoryFiles : /\ memories'[g] = IF g = f THEN NoMemory ELSE memories[g]
                             /\ sources'[g] = IF g = f THEN 0 ELSE sources[g]
  BY <1>1, <1>2
<1>4. RecallTypeOK'
  <2>1. memories' \in [MemoryFiles -> MemoryContents \union {NoMemory}] /\ sources' \in [MemoryFiles -> Nat]
    BY <1>1, <1>2
  <2>2. entered' \subseteq EntryRow
    BY <1>1, <1>2
  <2> QED
    BY <2>1, <2>2, <1>1, <1>2 DEF RecallTypeOK
<1>5. RowsFollowFiles'
  BY <1>1, <1>2, <1>3 DEF RowsFollowFiles
<1>6. RowsAreApart'
  BY <1>1 DEF RowsAreApart
<1>7. VectorsFollowRows'
  BY <1>1 DEF VectorsFollowRows
<1>8. \A i \in DOMAIN embeds : Recall!Current(embeds[i])' <=> Recall!Current(embeds[i]) /\ embeds[i].file /= f
  BY <1>1, <1>2, <1>3 DEF Recall!Current
<1>9. JobsFollowRows'
  <2> SUFFICES ASSUME NEW i \in DOMAIN embeds
               PROVE  /\ embeds[i].version <= revised'
                      /\ embeds[i].stage = "model" => embeds[i].todo /= {}
                      /\ embeds[i].stage = "model" /\ Recall!Current(embeds[i])' =>
                              embeds[i].todo \subseteq Recall!Of(embeds[i].file, entered)'
    BY <1>1 DEF JobsFollowRows
  <2>1. /\ embeds[i].version <= revised
        /\ embeds[i].stage = "model" => embeds[i].todo /= {}
        /\ embeds[i].stage = "model" /\ Recall!Current(embeds[i]) =>
                embeds[i].todo \subseteq Recall!Of(embeds[i].file, entered)
    BY DEF JobsFollowRows
  <2>2. embeds[i].file /= f => Recall!Of(embeds[i].file, entered) \subseteq Recall!Of(embeds[i].file, entered)'
    BY <1>1 DEF Recall!Of
  <2> QED
    BY <2>1, <2>2, <1>1, <1>2, <1>8
<1>10. RowsAreEmbedded'
  <2> SUFFICES ASSUME NEW r \in entered, r.file /= f
               PROVE  \/ r.id \in Recall!Embedded'
                      \/ \E i \in DOMAIN embeds : /\ Recall!Current(embeds[i])' /\ embeds[i].file = r.file
                                                  /\ (embeds[i].stage = "queued" \/ r \in embeds[i].todo)
    BY <1>1 DEF RowsAreEmbedded
  <2>1. CASE r.id \in Recall!Embedded
    <3>1. PICK v \in embeddings : v.id = r.id
      BY <2>1 DEF Recall!Embedded
    <3>2. v \in embeddings'
      BY <3>1, <1>1 DEF RowsAreApart
    <3> QED
      BY <3>1, <3>2 DEF Recall!Embedded
  <2>2. CASE r.id \notin Recall!Embedded
    <3>1. PICK i \in DOMAIN embeds : /\ Recall!Current(embeds[i]) /\ embeds[i].file = r.file
                                     /\ (embeds[i].stage = "queued" \/ r \in embeds[i].todo)
      BY <2>2 DEF RowsAreEmbedded
    <3> QED
      BY <3>1, <1>8
  <2> QED
    BY <2>1, <2>2
<1> QED
  BY <1>4, <1>5, <1>6, <1>7, <1>9, <1>10

\* A job that starts takes on every row of its file without a vector.
LEMMA EmbeddingStartKeeps ==
    ASSUME RecallInvariant, NEW i \in DOMAIN embeds, Recall!EmbedStarts(i)
    PROVE  RecallInvariant'
<1> DEFINE missing == {r \in Recall!Of(embeds[i].file, entered) : r.id \notin Recall!Embedded}
<1> USE DEF RecallInvariant
<1>1. /\ UNCHANGED <<memories, entered, nextId, embeddings, sources, revised>>
      /\ embeds[i].stage = "queued"
      /\ embeds' = IF Recall!Current(embeds[i]) /\ missing /= {}
                   THEN [embeds EXCEPT ![i] = [embeds[i] EXCEPT !.stage = "model", !.todo = missing]]
                   ELSE Recall!RemoveAt(embeds, i)
  BY DEF Recall!EmbedStarts, Recall!WithJob
<1>2. missing \subseteq Recall!Of(embeds[i].file, entered) /\ missing \subseteq EntryRow
      /\ \A r \in entered : r.file = embeds[i].file /\ r.id \notin Recall!Embedded => r \in missing
  BY DEF RecallTypeOK, Recall!Of
<1> HIDE DEF missing
<1>3. embeds \in Seq(EmbedJob) /\ \A k \in DOMAIN embeds : embeds[k] \in EmbedJob
  BY DEF RecallTypeOK
<1>4. RowsFollowFiles' /\ RowsAreApart' /\ VectorsFollowRows' /\ Recall!Embedded' = Recall!Embedded
  BY <1>1 DEF RowsFollowFiles, RowsAreApart, VectorsFollowRows, Recall!Embedded
<1>5. CASE Recall!Current(embeds[i]) /\ missing /= {}
  <2> DEFINE job == [embeds[i] EXCEPT !.stage = "model", !.todo = missing]
  <2>1. /\ job \in EmbedJob /\ job.file = embeds[i].file /\ job.version = embeds[i].version
        /\ job.stage = "model" /\ job.todo = missing
    BY <1>2, <1>3 DEF EmbedJob
  <2> HIDE DEF job
  <2>2. /\ embeds' \in Seq(EmbedJob) /\ DOMAIN embeds' = DOMAIN embeds
        /\ \A k \in DOMAIN embeds : embeds'[k] = IF k = i THEN job ELSE embeds[k]
    BY <1>1, <1>3, <1>5, <2>1 DEF job
  <2>3. RecallTypeOK'
    BY <2>2, <1>1 DEF RecallTypeOK
  <2>4. \A k \in DOMAIN embeds : Recall!Current(embeds[k])' <=> Recall!Current(embeds[k])
    BY <2>1, <2>2, <1>1 DEF Recall!Current
  <2>5. JobsFollowRows'
    <3> SUFFICES ASSUME NEW k \in DOMAIN embeds
                 PROVE  /\ embeds'[k].version <= revised
                        /\ embeds'[k].stage = "model" => embeds'[k].todo /= {}
                        /\ embeds'[k].stage = "model" /\ Recall!Current(embeds[k]) =>
                                embeds'[k].todo \subseteq Recall!Of(embeds'[k].file, entered)
      BY <2>2, <2>4, <1>1 DEF JobsFollowRows, Recall!Of
    <3>1. CASE k = i
      BY <3>1, <2>1, <2>2, <1>2, <1>5 DEF JobsFollowRows
    <3>2. CASE k /= i
      BY <3>2, <2>2 DEF JobsFollowRows
    <3> QED
      BY <3>1, <3>2
  <2>6. RowsAreEmbedded'
    <3> SUFFICES ASSUME NEW r \in entered, r.id \notin Recall!Embedded
                 PROVE  \E k \in DOMAIN embeds : /\ Recall!Current(embeds[k]) /\ embeds'[k].file = r.file
                                                 /\ (embeds'[k].stage = "queued" \/ r \in embeds'[k].todo)
      BY <2>2, <2>4, <1>1, <1>4 DEF RowsAreEmbedded
    <3>1. PICK k \in DOMAIN embeds : /\ Recall!Current(embeds[k]) /\ embeds[k].file = r.file
                                     /\ (embeds[k].stage = "queued" \/ r \in embeds[k].todo)
      BY DEF RowsAreEmbedded
    <3>2. CASE k = i
      BY <3>1, <3>2, <2>1, <2>2, <1>2
    <3>3. CASE k /= i
      BY <3>1, <3>3, <2>2
    <3> QED
      BY <3>2, <3>3
  <2> QED
    BY <2>3, <2>5, <2>6, <1>4
<1>6. CASE ~(Recall!Current(embeds[i]) /\ missing /= {})
  <2>1. /\ embeds' \in Seq(EmbedJob)
        /\ \A k \in DOMAIN embeds' : \E l \in DOMAIN embeds : embeds'[k] = embeds[l]
        /\ \A l \in DOMAIN embeds : l /= i => \E k \in DOMAIN embeds' : embeds'[k] = embeds[l]
    <3>1. embeds' = Recall!RemoveAt(embeds, i)
      BY <1>1, <1>6
    <3> QED
      BY <3>1, JobsLeft
  <2>2. RecallTypeOK'
    BY <2>1, <1>1 DEF RecallTypeOK
  <2>3. JobsFollowRows'
    <3> SUFFICES ASSUME NEW k \in DOMAIN embeds'
                 PROVE  /\ embeds'[k].version <= revised
                        /\ embeds'[k].stage = "model" => embeds'[k].todo /= {}
                        /\ embeds'[k].stage = "model" /\ sources[embeds'[k].file] = embeds'[k].version =>
                                embeds'[k].todo \subseteq Recall!Of(embeds'[k].file, entered)
      BY <1>1 DEF JobsFollowRows, Recall!Current, Recall!Of
    <3>1. PICK l \in DOMAIN embeds : embeds'[k] = embeds[l]
      BY <2>1
    <3> QED
      BY <3>1 DEF JobsFollowRows, Recall!Current
  <2>4. RowsAreEmbedded'
    <3> SUFFICES ASSUME NEW r \in entered, r.id \notin Recall!Embedded
                 PROVE  \E k \in DOMAIN embeds' : /\ Recall!Current(embeds[k])' /\ embeds'[k].file = r.file
                                                  /\ (embeds'[k].stage = "queued" \/ r \in embeds'[k].todo)
      BY <1>1, <1>4 DEF RowsAreEmbedded
    <3>1. PICK l \in DOMAIN embeds : /\ Recall!Current(embeds[l]) /\ embeds[l].file = r.file
                                     /\ (embeds[l].stage = "queued" \/ r \in embeds[l].todo)
      BY DEF RowsAreEmbedded
    <3>2. l /= i
      BY <3>1, <1>2, <1>6
    <3>3. PICK k \in DOMAIN embeds' : embeds'[k] = embeds[l]
      BY <3>2, <2>1
    <3> QED
      BY <3>1, <3>3, <1>1 DEF Recall!Current
  <2> QED
    BY <2>2, <2>3, <2>4, <1>4
<1> QED
  BY <1>5, <1>6

\* A set of rows has one of least id.
LEMMA LowestExists ==
    ASSUME NEW T, T \subseteq EntryRow, T /= {}
    PROVE  \E r \in T : \A s \in T : r.id <= s.id
<1>1. {r.id : r \in T} \subseteq Nat /\ {r.id : r \in T} /= {}
  BY DEF EntryRow
<1>2. PICK x \in {r.id : r \in T} : \A k \in {r.id : r \in T} : x <= k
  BY <1>1, LeastExists
<1> QED
  BY <1>2

\* A job whose batch is answered: the row has its vector, or the job is not current.
LEMMA EmbeddingAnswerKeeps ==
    ASSUME RecallInvariant, NEW i \in DOMAIN embeds, Recall!EmbedAnswers(i)
    PROVE  RecallInvariant'
<1> DEFINE lowest == CHOOSE r \in embeds[i].todo : \A s \in embeds[i].todo : r.id <= s.id
           rest == embeds[i].todo \ {lowest}
<1> USE DEF RecallInvariant
<1>1. /\ UNCHANGED <<memories, entered, nextId, sources, revised>>
      /\ embeds[i].stage = "model"
      /\ embeddings' = IF Recall!Current(embeds[i])
                       THEN embeddings \union {[id |-> lowest.id, entry |-> lowest.entry]} ELSE embeddings
      /\ embeds' = IF Recall!Current(embeds[i]) /\ rest /= {}
                   THEN [embeds EXCEPT ![i] = [embeds[i] EXCEPT !.todo = rest]]
                   ELSE Recall!RemoveAt(embeds, i)
  BY DEF Recall!EmbedAnswers, Recall!WithJob
<1>2. embeds \in Seq(EmbedJob) /\ \A k \in DOMAIN embeds : embeds[k] \in EmbedJob
  BY DEF RecallTypeOK
<1>3. /\ embeds[i].todo \subseteq EntryRow /\ embeds[i].todo /= {}
      /\ Recall!Current(embeds[i]) => /\ embeds[i].todo \subseteq entered
                                      /\ embeds[i].todo \subseteq Recall!Of(embeds[i].file, entered)
  BY <1>1, <1>2 DEF EmbedJob, JobsFollowRows, Recall!Of
<1>4. lowest \in embeds[i].todo
  BY <1>3, LowestExists
<1>5. rest \subseteq embeds[i].todo /\ \A r \in embeds[i].todo : r = lowest \/ r \in rest
  OBVIOUS
<1> HIDE DEF lowest, rest
<1>6. RowsFollowFiles' /\ RowsAreApart'
  BY <1>1 DEF RowsFollowFiles, RowsAreApart
<1>7. VectorsFollowRows'
  <2> SUFFICES ASSUME NEW v \in embeddings' PROVE \E r \in entered : r.id = v.id /\ r.entry = v.entry
    BY <1>1 DEF VectorsFollowRows
  <2>1. CASE v \in embeddings
    BY <2>1 DEF VectorsFollowRows
  <2>2. CASE v \notin embeddings
    <3>1. Recall!Current(embeds[i]) /\ v = [id |-> lowest.id, entry |-> lowest.entry]
      BY <2>2, <1>1
    <3>2. lowest \in entered /\ v.id = lowest.id /\ v.entry = lowest.entry
      BY <3>1, <1>3, <1>4
    <3> QED
      BY <3>2
  <2> QED
    BY <2>1, <2>2
<1>8. \A r : r.id \in Recall!Embedded => r.id \in Recall!Embedded'
  BY <1>1 DEF Recall!Embedded
<1>9. Recall!Current(embeds[i]) => lowest.id \in Recall!Embedded'
  <2> SUFFICES ASSUME Recall!Current(embeds[i]) PROVE lowest.id \in Recall!Embedded'
    OBVIOUS
  <2>1. [id |-> lowest.id, entry |-> lowest.entry] \in embeddings'
    BY <1>1
  <2>2. [id |-> lowest.id, entry |-> lowest.entry].id = lowest.id
    OBVIOUS
  <2> QED
    BY <2>1, <2>2 DEF Recall!Embedded
<1>10. CASE Recall!Current(embeds[i]) /\ rest /= {}
  <2> DEFINE job == [embeds[i] EXCEPT !.todo = rest]
  <2>1. /\ job \in EmbedJob /\ job.file = embeds[i].file /\ job.version = embeds[i].version
        /\ job.stage = "model" /\ job.todo = rest
    BY <1>1, <1>2, <1>3, <1>5 DEF EmbedJob
  <2> HIDE DEF job
  <2>2. /\ embeds' \in Seq(EmbedJob) /\ DOMAIN embeds' = DOMAIN embeds
        /\ \A k \in DOMAIN embeds : embeds'[k] = IF k = i THEN job ELSE embeds[k]
    BY <1>1, <1>2, <1>10, <2>1 DEF job
  <2>3. RecallTypeOK'
    BY <2>2, <1>1 DEF RecallTypeOK
  <2>4. \A k \in DOMAIN embeds : Recall!Current(embeds[k])' <=> Recall!Current(embeds[k])
    BY <2>1, <2>2, <1>1 DEF Recall!Current
  <2>5. JobsFollowRows'
    <3> SUFFICES ASSUME NEW k \in DOMAIN embeds
                 PROVE  /\ embeds'[k].version <= revised
                        /\ embeds'[k].stage = "model" => embeds'[k].todo /= {}
                        /\ embeds'[k].stage = "model" /\ Recall!Current(embeds[k]) =>
                                embeds'[k].todo \subseteq Recall!Of(embeds'[k].file, entered)
      BY <2>2, <2>4, <1>1 DEF JobsFollowRows, Recall!Of
    <3>1. CASE k = i
      BY <3>1, <2>1, <2>2, <1>3, <1>5, <1>10 DEF JobsFollowRows
    <3>2. CASE k /= i
      BY <3>2, <2>2 DEF JobsFollowRows
    <3> QED
      BY <3>1, <3>2
  <2>6. RowsAreEmbedded'
    <3> SUFFICES ASSUME NEW r \in entered, r.id \notin Recall!Embedded'
                 PROVE  \E k \in DOMAIN embeds : /\ Recall!Current(embeds[k]) /\ embeds'[k].file = r.file
                                                 /\ (embeds'[k].stage = "queued" \/ r \in embeds'[k].todo)
      BY <2>2, <2>4, <1>1 DEF RowsAreEmbedded
    <3>1. PICK k \in DOMAIN embeds : /\ Recall!Current(embeds[k]) /\ embeds[k].file = r.file
                                     /\ (embeds[k].stage = "queued" \/ r \in embeds[k].todo)
      BY <1>8 DEF RowsAreEmbedded
    <3>2. CASE k = i
      <4>1. r \in embeds[i].todo
        BY <3>1, <3>2, <1>1
      <4>2. r \in rest
        BY <4>1, <1>5, <1>9, <1>10
      <4> QED
        BY <3>1, <3>2, <4>2, <2>1, <2>2
    <3>3. CASE k /= i
      BY <3>1, <3>3, <2>2
    <3> QED
      BY <3>2, <3>3
  <2> QED
    BY <2>3, <2>5, <2>6, <1>6, <1>7
<1>11. CASE ~(Recall!Current(embeds[i]) /\ rest /= {})
  <2>1. /\ embeds' \in Seq(EmbedJob)
        /\ \A k \in DOMAIN embeds' : \E l \in DOMAIN embeds : embeds'[k] = embeds[l]
        /\ \A l \in DOMAIN embeds : l /= i => \E k \in DOMAIN embeds' : embeds'[k] = embeds[l]
    <3>1. embeds' = Recall!RemoveAt(embeds, i)
      BY <1>1, <1>11
    <3> QED
      BY <3>1, JobsLeft
  <2>2. RecallTypeOK'
    BY <2>1, <1>1 DEF RecallTypeOK
  <2>3. JobsFollowRows'
    <3> SUFFICES ASSUME NEW k \in DOMAIN embeds'
                 PROVE  /\ embeds'[k].version <= revised
                        /\ embeds'[k].stage = "model" => embeds'[k].todo /= {}
                        /\ embeds'[k].stage = "model" /\ sources[embeds'[k].file] = embeds'[k].version =>
                                embeds'[k].todo \subseteq Recall!Of(embeds'[k].file, entered)
      BY <1>1 DEF JobsFollowRows, Recall!Current, Recall!Of
    <3>1. PICK l \in DOMAIN embeds : embeds'[k] = embeds[l]
      BY <2>1
    <3> QED
      BY <3>1 DEF JobsFollowRows, Recall!Current
  <2>4. RowsAreEmbedded'
    <3> SUFFICES ASSUME NEW r \in entered, r.id \notin Recall!Embedded'
                 PROVE  \E k \in DOMAIN embeds' : /\ Recall!Current(embeds[k])' /\ embeds'[k].file = r.file
                                                  /\ (embeds'[k].stage = "queued" \/ r \in embeds'[k].todo)
      BY <1>1 DEF RowsAreEmbedded
    <3>1. PICK l \in DOMAIN embeds : /\ Recall!Current(embeds[l]) /\ embeds[l].file = r.file
                                     /\ (embeds[l].stage = "queued" \/ r \in embeds[l].todo)
      BY <1>8 DEF RowsAreEmbedded
    <3>2. l /= i
      <4> SUFFICES ASSUME l = i PROVE FALSE
        OBVIOUS
      <4>1. r \in embeds[i].todo /\ Recall!Current(embeds[i])
        BY <3>1, <1>1
      <4>2. r = lowest
        BY <4>1, <1>5, <1>11
      <4> QED
        BY <4>1, <4>2, <1>9
    <3>3. PICK k \in DOMAIN embeds' : embeds'[k] = embeds[l]
      BY <3>2, <2>1
    <3> QED
      BY <3>1, <3>3, <1>1 DEF Recall!Current
  <2> QED
    BY <2>2, <2>3, <2>4, <1>6, <1>7
<1> QED
  BY <1>10, <1>11

\* The index that a rebuild leaves: its ids count the entries before.
LEMMA RecallInitInvariant == Recall!RecallParameters /\ Recall!Init => RecallInvariant
<1> SUFFICES ASSUME Recall!RecallParameters, Recall!Init PROVE RecallInvariant
  OBVIOUS
<1> DEFINE there == {g \in MemoryFiles : memories[g] /= NoMemory}
           placesOf(f) == [file : {f}, index : DOMAIN memories[f]]
           below(p) == {q \in Recall!EntryPlaces : Recall!Before(q, p)}
           place(p) == [id |-> Cardinality(below(p)) + 1, file |-> p.file, index |-> p.index,
                        entry |-> memories[p.file][p.index]]
<1>1. /\ memories \in [MemoryFiles -> MemoryContents \union {NoMemory}]
      /\ entered = {place(p) : p \in Recall!EntryPlaces} /\ nextId = Cardinality(Recall!EntryPlaces) + 1
      /\ embeddings = {[id |-> r.id, entry |-> r.entry] : r \in entered}
      /\ sources = [f \in MemoryFiles |-> 0] /\ embeds = <<>> /\ revised = 0
  <2> DEFINE filed(p) == [id |-> Recall!Cardinality(below(p)) + 1, file |-> p.file,
                          index |-> p.index, entry |-> memories[p.file][p.index]]
  <2>1. /\ entered = {filed(p) : p \in Recall!EntryPlaces}
        /\ nextId = Recall!Cardinality(Recall!EntryPlaces) + 1
    BY DEF Recall!Init
  <2>2. \A p : filed(p) = place(p)
    BY RecallCounts
  <2>3. entered = {place(p) : p \in Recall!EntryPlaces}
    <3> HIDE DEF filed, place
    <3> QED
      BY <2>1, <2>2
  <2>4. nextId = Cardinality(Recall!EntryPlaces) + 1
    BY <2>1, RecallCounts
  <2> QED
    BY <2>3, <2>4 DEF Recall!Init
<1>2. \A f \in there : /\ memories[f] \in MemoryContents /\ Len(memories[f]) \in Nat
                       /\ DOMAIN memories[f] = 1 .. Len(memories[f])
  BY <1>1, ContentsAreSequences
<1>3. Recall!EntryPlaces = UNION {placesOf(f) : f \in there}
  BY DEF Recall!EntryPlaces
<1>4. \A p \in Recall!EntryPlaces : /\ p.file \in there /\ p.file \in Nat /\ p.file \in MemoryFiles
                                    /\ p.index \in DOMAIN memories[p.file] /\ p.index \in Nat
                                    /\ p = [file |-> p.file, index |-> p.index]
  BY <1>2, <1>3, RecallCounts DEF Recall!RecallParameters
<1>5. \A f \in there : \A i \in DOMAIN memories[f] :
          \E p \in Recall!EntryPlaces : p.file = f /\ p.index = i
  <2> SUFFICES ASSUME NEW f \in there, NEW i \in DOMAIN memories[f]
               PROVE  \E p \in Recall!EntryPlaces : p.file = f /\ p.index = i
    OBVIOUS
  <2>1. [file |-> f, index |-> i] \in placesOf(f)
    OBVIOUS
  <2>2. [file |-> f, index |-> i] \in Recall!EntryPlaces
    BY <2>1, <1>3
  <2> QED
    BY <2>2
<1>6. IsFiniteSet(Recall!EntryPlaces)
  <2>1. IsFiniteSet(there)
    BY FS_Subset, RecallCounts DEF Recall!RecallParameters
  <2>2. ASSUME NEW f \in there PROVE IsFiniteSet(placesOf(f))
    <3> DEFINE m == Len(memories[f])
               number == [i \in 1 .. m |-> [file |-> f, index |-> i]]
    <3>1. m \in Nat /\ DOMAIN memories[f] = 1 .. m
      BY <1>2
    <3>2. number \in Surjection(1 .. m, placesOf(f))
      BY <3>1 DEF Surjection
    <3>3. IsFiniteSet(1 .. m)
      <4>1. 1 \in Int /\ m \in Int
        BY <3>1
      <4> HIDE DEF m
      <4> QED
        BY <4>1, FS_Interval
    <3> HIDE DEF m, number
    <3> QED
      BY <3>2, <3>3, FS_Surjection
  <2> DEFINE sets == {placesOf(f) : f \in there}
             of == [f \in there |-> placesOf(f)]
  <2>3. of \in Surjection(there, sets)
    BY DEF Surjection
  <2>4. \A T \in sets : IsFiniteSet(T)
    BY <2>2
  <2> HIDE DEF there, placesOf, sets, of
  <2>5. IsFiniteSet(sets)
    BY <2>1, <2>3, FS_Surjection
  <2>6. IsFiniteSet(UNION sets)
    BY <2>4, <2>5, FS_UNION
  <2> QED
    BY <2>6, <1>3 DEF sets
<1>7. Cardinality(Recall!EntryPlaces) \in Nat
  BY <1>6, FS_CardinalityType
<1>8. \A p \in Recall!EntryPlaces : /\ IsFiniteSet(below(p)) /\ Cardinality(below(p)) \in Nat
                                    /\ Cardinality(below(p)) < Cardinality(Recall!EntryPlaces)
  <2> SUFFICES ASSUME NEW p \in Recall!EntryPlaces
               PROVE  /\ IsFiniteSet(below(p)) /\ Cardinality(below(p)) \in Nat
                      /\ Cardinality(below(p)) < Cardinality(Recall!EntryPlaces)
    OBVIOUS
  <2>1. below(p) \in SUBSET Recall!EntryPlaces
    OBVIOUS
  <2>2. p \notin below(p)
    BY <1>4 DEF Recall!Before
  <2>3. /\ IsFiniteSet(below(p)) /\ Cardinality(below(p)) <= Cardinality(Recall!EntryPlaces)
        /\ Cardinality(below(p)) /= Cardinality(Recall!EntryPlaces)
    BY <2>1, <2>2, <1>6, FS_Subset
  <2>4. Cardinality(below(p)) \in Nat
    BY <2>3, FS_CardinalityType
  <2> HIDE DEF below
  <2> QED
    BY <2>3, <2>4, <1>7
<1>9. \A p, q \in Recall!EntryPlaces : Recall!Before(p, q) => Cardinality(below(p)) < Cardinality(below(q))
  <2> SUFFICES ASSUME NEW p \in Recall!EntryPlaces, NEW q \in Recall!EntryPlaces, Recall!Before(p, q)
               PROVE  Cardinality(below(p)) < Cardinality(below(q))
    OBVIOUS
  <2>1. below(p) \in SUBSET below(q)
    BY <1>4 DEF Recall!Before
  <2>2. p \in below(q) /\ p \notin below(p)
    BY <1>4 DEF Recall!Before
  <2>3. /\ Cardinality(below(p)) <= Cardinality(below(q))
        /\ Cardinality(below(p)) /= Cardinality(below(q))
    BY <2>1, <2>2, <1>8, FS_Subset
  <2> HIDE DEF below
  <2> QED
    BY <2>3, <1>8
<1>10. \A p, q \in Recall!EntryPlaces : p = q \/ Recall!Before(p, q) \/ Recall!Before(q, p)
  BY <1>4 DEF Recall!Before
<1> HIDE DEF below
<1>11. \A p, q \in Recall!EntryPlaces :
           Cardinality(below(p)) = Cardinality(below(q)) => p = q
  <2> SUFFICES ASSUME NEW p \in Recall!EntryPlaces, NEW q \in Recall!EntryPlaces,
                      Cardinality(below(p)) = Cardinality(below(q))
               PROVE  p = q
    OBVIOUS
  <2>1. ~Recall!Before(p, q) /\ ~Recall!Before(q, p)
    BY <1>8, <1>9
  <2> QED
    BY <2>1, <1>10
<1>12. \A p \in Recall!EntryPlaces :
           /\ place(p).id = Cardinality(below(p)) + 1 /\ place(p).file = p.file
           /\ place(p).index = p.index /\ place(p).entry = memories[p.file][p.index]
           /\ place(p) \in EntryRow
  <2> SUFFICES ASSUME NEW p \in Recall!EntryPlaces PROVE place(p) \in EntryRow
    OBVIOUS
  <2>1. memories[p.file][p.index] \in Entries
    BY <1>2, <1>4 DEF Entries
  <2> QED
    BY <2>1, <1>4, <1>8 DEF EntryRow
<1> HIDE DEF place
<1>13. RecallTypeOK
  <2>1. entered \subseteq EntryRow
    BY <1>1, <1>12
  <2>2. nextId \in Nat /\ sources \in [MemoryFiles -> Nat] /\ embeds \in Seq(EmbedJob)
    BY <1>1, <1>7
  <2> QED
    BY <2>1, <2>2, <1>1 DEF RecallTypeOK
<1>14. RowsFollowFiles
  <2>1. ASSUME NEW r \in entered
        PROVE  /\ r.id < nextId /\ memories[r.file] /= NoMemory /\ r.index \in DOMAIN memories[r.file]
               /\ r.entry = memories[r.file][r.index]
    <3>1. PICK p \in Recall!EntryPlaces : r = place(p)
      BY <1>1
    <3>2. Cardinality(below(p)) + 1 < nextId
      BY <1>1, <1>7, <1>8
    <3> QED
      BY <3>1, <3>2, <1>4, <1>12
  <2>2. ASSUME NEW f \in MemoryFiles, memories[f] /= NoMemory, NEW i \in DOMAIN memories[f]
        PROVE  \E r \in entered : r.file = f /\ r.index = i
    <3>1. PICK p \in Recall!EntryPlaces : p.file = f /\ p.index = i
      BY <2>2, <1>5
    <3> QED
      BY <3>1, <1>1, <1>12
  <2> QED
    BY <2>1, <2>2 DEF RowsFollowFiles
<1>15. RowsAreApart
  <2> SUFFICES ASSUME NEW r \in entered, NEW s \in entered,
                      r.id = s.id \/ (r.file = s.file /\ r.index = s.index)
               PROVE  r = s
    BY DEF RowsAreApart
  <2>1. PICK p \in Recall!EntryPlaces : r = place(p)
    BY <1>1
  <2>2. PICK q \in Recall!EntryPlaces : s = place(q)
    BY <1>1
  <2>3. r.id = s.id => Cardinality(below(p)) = Cardinality(below(q))
    BY <2>1, <2>2, <1>8, <1>12
  <2>4. p = q
    BY <2>1, <2>2, <2>3, <1>4, <1>11, <1>12
  <2> QED
    BY <2>1, <2>2, <2>4
<1>16. VectorsFollowRows /\ \A r \in entered : r.id \in Recall!Embedded
  <2>1. ASSUME NEW r \in entered PROVE r.id \in Recall!Embedded
    <3>1. [id |-> r.id, entry |-> r.entry] \in embeddings
      BY <1>1
    <3> QED
      BY <3>1 DEF Recall!Embedded
  <2> QED
    BY <2>1, <1>1 DEF VectorsFollowRows
<1>17. JobsFollowRows /\ RowsAreEmbedded
  BY <1>1, <1>16 DEF JobsFollowRows, RowsAreEmbedded
<1> QED
  BY <1>13, <1>14, <1>15, <1>16, <1>17 DEF RecallInvariant

\* Every step keeps the invariant; those of the recall leave the index alone.
LEMMA RecallNextInvariant ==
    Recall!RecallParameters /\ RecallInvariant /\ [Recall!Next]_(Recall!vars) => RecallInvariant'
<1> SUFFICES ASSUME Recall!RecallParameters, RecallInvariant, [Recall!Next]_(Recall!vars)
             PROVE  RecallInvariant'
  OBVIOUS
<1>1. ASSUME NEW f \in MemoryFiles, NEW entries \in MemoryContents, Recall!Upsert(f, entries)
      PROVE  RecallInvariant'
  BY <1>1, UpsertKeeps
<1>2. ASSUME NEW f \in MemoryFiles, Recall!RemoveFile(f) PROVE RecallInvariant'
  BY <1>2, RemovalKeeps
<1>3. ASSUME NEW i \in DOMAIN embeds, Recall!EmbedStarts(i) PROVE RecallInvariant'
  BY <1>3, EmbeddingStartKeeps
<1>4. ASSUME NEW i \in DOMAIN embeds, Recall!EmbedAnswers(i) PROVE RecallInvariant'
  BY <1>4, EmbeddingAnswerKeeps
<1>5. CASE UNCHANGED Recall!indexVars
  BY <1>5 DEF Recall!indexVars, RecallInvariant, RecallTypeOK, RowsFollowFiles, RowsAreApart,
              VectorsFollowRows, JobsFollowRows, RowsAreEmbedded, Recall!Current, Recall!Embedded, Recall!Of
<1>6. \/ Recall!Call \/ Recall!FallBack \/ Recall!Read \/ Recall!Reranked \/ Recall!NotReranked
      \/ UNCHANGED Recall!vars
      => UNCHANGED Recall!indexVars
  BY DEF Recall!Call, Recall!FallBack, Recall!Read, Recall!Reranked, Recall!NotReranked, Recall!vars
<1> QED
  BY <1>1, <1>2, <1>3, <1>4, <1>5, <1>6 DEF Recall!Next

\* The invariant holds of every state that the index comes to.
THEOREM RecallInvariantHolds == Recall!RecallParameters => (Recall!Spec => []RecallInvariant)
<1> SUFFICES ASSUME Recall!RecallParameters PROVE Recall!Spec => []RecallInvariant
  OBVIOUS
<1>1. Recall!Init => RecallInvariant
  BY RecallInitInvariant
<1>2. RecallInvariant /\ [Recall!Next]_(Recall!vars) => RecallInvariant'
  BY RecallNextInvariant
<1> QED
  BY <1>1, <1>2, PTL DEF Recall!Spec

\* Every file's rows are its entries in their order, a vector is of what its row says, and
\* a row without one has a job that will embed it, however jobs, changes and removals
\* are interleaved (upsertMemoryEntries and embedMemoryEntriesForFile).
THEOREM RowsAreTheEntries == Recall!RecallParameters => (Recall!Spec => []Recall!EntriesMatchTheFiles)
<1> SUFFICES ASSUME Recall!RecallParameters PROVE Recall!Spec => []Recall!EntriesMatchTheFiles
  OBVIOUS
<1>1. RecallInvariant => Recall!EntriesMatchTheFiles
  <2> SUFFICES ASSUME RecallInvariant PROVE Recall!EntriesMatchTheFiles
    OBVIOUS
  <2> USE DEF RecallInvariant
  <2>1. ASSUME NEW f \in MemoryFiles
        PROVE  [i \in DOMAIN Recall!ByIndex(Recall!Of(f, entered)) |->
                  Recall!ByIndex(Recall!Of(f, entered))[i].entry]
               = (IF memories[f] = NoMemory THEN <<>> ELSE memories[f])
    <3> DEFINE T == Recall!Of(f, entered)
               m == Len(memories[f])
    <3>1. \A r \in T : r \in entered /\ r.file = f
      BY DEF Recall!Of
    <3>2. /\ \A r, s \in T : r.index = s.index => r = s
          /\ \A r \in T : memories[f] /= NoMemory /\ r.index \in DOMAIN memories[f]
                          /\ r.entry = memories[f][r.index]
      BY <3>1 DEF RowsAreApart, RowsFollowFiles
    <3>3. CASE memories[f] = NoMemory
      <4>1. T = {}
        BY <3>2, <3>3
      <4> HIDE DEF T
      <4>2. /\ 0 \in Nat /\ \A r \in T : r.index \in 1 .. 0
            /\ \A i \in 1 .. 0 : \E r \in T : r.index = i
        BY <4>1
      <4>3. DOMAIN Recall!ByIndex(T) = 1 .. 0
        BY <3>2, <4>2, ByIndexIsPlace
      <4>4. [i \in 1 .. 0 |-> Recall!ByIndex(T)[i].entry] = <<>>
        OBVIOUS
      <4> QED
        BY <3>3, <4>3, <4>4 DEF T
    <3>4. CASE memories[f] /= NoMemory
      <4>1. m \in Nat /\ DOMAIN memories[f] = 1 .. m /\ memories[f] = [i \in 1 .. m |-> memories[f][i]]
        BY <3>4, ContentsAreSequences DEF RecallTypeOK
      <4>2. \A i \in 1 .. m : \E r \in T : r.index = i
        BY <3>4, <4>1 DEF RowsFollowFiles, Recall!Of
      <4> HIDE DEF T, m
      <4>3. \A r \in T : r.index \in 1 .. m
        BY <3>2, <4>1
      <4>4. /\ DOMAIN Recall!ByIndex(T) = 1 .. m
            /\ \A i \in 1 .. m : Recall!ByIndex(T)[i] \in T /\ Recall!ByIndex(T)[i].index = i
        BY <3>2, <4>1, <4>2, <4>3, ByIndexIsPlace
      <4>5. [i \in 1 .. m |-> Recall!ByIndex(T)[i].entry] = [i \in 1 .. m |-> memories[f][i]]
        BY <3>2, <4>4
      <4> QED
        BY <3>4, <4>1, <4>4, <4>5 DEF T
    <3> QED
      BY <3>3, <3>4
  <2>2. \A r, s \in entered : r.id = s.id => r = s
    BY DEF RowsAreApart
  <2>3. \A r \in entered : \/ r.id \in Recall!Embedded
                           \/ \E i \in DOMAIN embeds : Recall!Current(embeds[i]) /\ embeds[i].file = r.file
    BY DEF RowsAreEmbedded
  <2> QED
    BY <2>1, <2>2, <2>3 DEF Recall!EntriesMatchTheFiles, VectorsFollowRows
<1> QED
  BY <1>1, RecallInvariantHolds, PTL
=============================================================================
