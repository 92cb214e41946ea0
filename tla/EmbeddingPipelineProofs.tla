---------------------- MODULE EmbeddingPipelineProofs ----------------------
(* Theorems about EmbeddingPipeline: type correctness, that a removed note is not *)
(* found, that settled content is searchable while no crash falls between two      *)
(* DELETEs of a clean-up, and that the pipeline then implements SearchableNote.    *)
EXTENDS EmbeddingPipeline, SequenceTheorems, WellFoundedInduction, TLAPS

\* The jobs for the path, in the watcher's queue and in the rebuild's pass.
JobsOf(q) == {q[i] : i \in 1 .. Len(q)}
Jobs == JobsOf(queue) \union JobsOf(pass)

\* Jobs have versions that were made, the path has a version while it is indexed,
\* and a job of that version has the content that is indexed.
VersionsInOrder ==
    /\ version <= versions
    /\ \A j \in Jobs : j.version /= NoVersion /\ j.version <= versions
    /\ version /= NoVersion <=> process = "up" /\ indexed
    /\ process = "rebuilding" => ~indexed
    /\ \A j \in Jobs : Current(j) => j.content = source

\* A chunk that a current job has passed, or found unchanged when it started, has
\* its row: nothing but jobs of the same content writes rows meanwhile.
RowsSoFar(j, h) ==
    \A i \in Chunks(j) : i < j.at \/ j.stored[i] = j.content[i] => h[i] = j.content[i]
ChunksInOrder ==
    \A j \in Jobs : j.at /= 0 => j.at \in Chunks(j) /\ (Current(j) => RowsSoFar(j, hashes))

\* Rows and vectors are written and deleted together, but for a crash in between.
VectorsMatch == ~CrashBetweenDeletes => vectors = hashes

\* The rows of content whose model work is over are its chunks, whatever crashes.
RowsSettle ==
    process = "up" /\ indexed /\ version \notin failed /\ (\A j \in Jobs : ~Current(j)) =>
        hashes = Padded(source)

PipelineInvariant ==
    /\ TypeOK
    /\ VersionsInOrder
    /\ ChunksInOrder
    /\ VectorsMatch
    /\ RemovedNotesAreNotFound
    /\ RowsSettle

-----------------------------------------------------------------------------
(* A step keeps each part                                                      *)

\* A nonempty set of natural numbers has a first.
LEMMA FirstIsLeast ==
    ASSUME NEW T, T \subseteq Nat, T /= {}
    PROVE  First(T) \in T /\ \A k \in T : First(T) <= k
<1> DEFINE L == OpToRel(<, Nat)
<1>1. /\ IsWellFoundedOn(L, Nat)
      /\ \A m, n \in Nat : m < n => <<m, n>> \in L
  BY NatLessThanWellFounded DEF OpToRel
<1> HIDE DEF L
<1>2. PICK R : IsWellFoundedOn(R, Nat) /\ \A m, n \in Nat : m < n => <<m, n>> \in R
  BY <1>1, Zenon
<1>3. IsWellFoundedOn(R, Nat)
  BY <1>2
<1>4. PICK x \in T : \A y \in T : ~(<<y, x>> \in R)
  BY <1>3, WFMin
<1>5. ASSUME NEW k \in T PROVE x <= k
  <2>1. k \in Nat /\ x \in Nat /\ ~(<<k, x>> \in R)
    BY <1>4
  <2> QED
    BY <2>1, <1>2
<1> QED
  BY <1>5 DEF First

\* What a note is made of.
LEMMA ContentFields ==
    \A c \in Contents : /\ Len(c) \in Nat \ {0} /\ Len(c) <= MaxChunks
                        /\ \A i \in 1 .. Len(c) : c[i] \in Texts
<1> SUFFICES ASSUME NEW n \in 1 .. MaxChunks, NEW c \in [1 .. n -> Texts]
             PROVE  Len(c) = n
  BY BoundsAssumption DEF Contents
<1> QED
  BY BoundsAssumption

\* What a job is about.
LEMMA JobFields ==
    \A j \in Job :
        /\ j.version \in 0 .. MaxVersions /\ j.content \in Contents /\ j.at \in 0 .. MaxChunks
        /\ j.stored \in [Indices -> Texts \union {NoText}]
        /\ Len(j.content) \in Nat \ {0} /\ Len(j.content) <= MaxChunks
        /\ \A i \in Chunks(j) : i \in Indices /\ j.content[i] \in Texts
  BY ContentFields, BoundsAssumption DEF Job, Chunks, Indices

\* The first job of a sequence, and the others.
LEMMA HeadOrTail ==
    ASSUME NEW q \in Seq(Job), q /= << >>
    PROVE  /\ Head(q) \in Job /\ Tail(q) \in Seq(Job) /\ Len(Tail(q)) = Len(q) - 1
           /\ JobsOf(q) = {Head(q)} \union JobsOf(Tail(q))
<1>1. /\ Head(q) \in Job /\ Tail(q) \in Seq(Job) /\ Len(Tail(q)) = Len(q) - 1
      /\ Len(q) \in Nat \ {0} /\ Head(q) = q[1]
      /\ \A i \in 1 .. Len(Tail(q)) : Tail(q)[i] = q[i + 1]
  BY HeadTailProperties, EmptySeq
<1>2. \A i \in 1 .. Len(q) : i = 1 \/ (i - 1 \in 1 .. Len(Tail(q)) /\ q[i] = Tail(q)[i - 1])
  BY <1>1
<1>3. \A i \in 1 .. Len(Tail(q)) : i + 1 \in 1 .. Len(q) /\ Tail(q)[i] = q[i + 1]
  BY <1>1
<1>4. JobsOf(q) \subseteq {q[1]} \union JobsOf(Tail(q))
  BY <1>2 DEF JobsOf
<1>5. JobsOf(Tail(q)) \subseteq JobsOf(q) /\ q[1] \in JobsOf(q)
  BY <1>1, <1>3 DEF JobsOf
<1> QED
  BY <1>1, <1>4, <1>5

\* A sequence with a job in front.
LEMMA ConsJobs ==
    ASSUME NEW q \in Seq(Job), NEW j \in Job
    PROVE  /\ << j >> \o q \in Seq(Job) /\ Len(<< j >> \o q) = Len(q) + 1
           /\ JobsOf(<< j >> \o q) = {j} \union JobsOf(q)
<1> DEFINE s == << j >> \o q
<1>1. /\ s \in Seq(Job) /\ Len(s) = Len(q) + 1 /\ Len(q) \in Nat
      /\ \A i \in 1 .. Len(q) + 1 : s[i] = IF i = 1 THEN j ELSE q[i - 1]
  OBVIOUS
<1>2. \A i \in 1 .. Len(q) : i + 1 \in 1 .. Len(s) /\ s[i + 1] = q[i]
  BY <1>1
<1>3. \A i \in 1 .. Len(s) : i = 1 \/ (i - 1 \in 1 .. Len(q) /\ s[i] = q[i - 1])
  BY <1>1
<1> HIDE DEF s
<1>4. JobsOf(s) \subseteq {j} \union JobsOf(q)
  BY <1>1, <1>3 DEF JobsOf
<1>5. JobsOf(q) \subseteq JobsOf(s)
  BY <1>2 DEF JobsOf
<1>6. j \in JobsOf(s)
  BY <1>1 DEF JobsOf
<1> QED
  BY <1>1, <1>4, <1>5, <1>6 DEF s

\* A sequence with a job behind.
LEMMA AppendJobs ==
    ASSUME NEW q \in Seq(Job), NEW j \in Job
    PROVE  Append(q, j) \in Seq(Job) /\ JobsOf(Append(q, j)) = JobsOf(q) \union {j}
<1> DEFINE s == Append(q, j)
<1>1. /\ s \in Seq(Job) /\ Len(s) = Len(q) + 1 /\ Len(q) \in Nat
      /\ \A i \in 1 .. Len(q) : s[i] = q[i]
      /\ s[Len(q) + 1] = j
  OBVIOUS
<1> HIDE DEF s
<1>2. JobsOf(s) = JobsOf(q) \union {j}
  BY <1>1 DEF JobsOf
<1> QED
  BY <1>1, <1>2 DEF s

\* No jobs, and one.
LEMMA FewJobs ==
    /\ << >> \in Seq(Job) /\ Len(<< >>) = 0 /\ JobsOf(<< >>) = {}
    /\ \A j \in Job : << j >> \in Seq(Job) /\ Len(<< j >>) = 1 /\ JobsOf(<< j >>) = {j}
  BY DEF JobsOf

\* The rebuild's pass has one job for the path, or none.
LEMMA PassIsOne == TypeOK => pass = << >> \/ (Len(pass) = 1 /\ Head(pass) = pass[1])
<1> SUFFICES ASSUME TypeOK PROVE pass = << >> \/ (Len(pass) = 1 /\ Head(pass) = pass[1])
  OBVIOUS
<1>1. pass \in Seq(Job) /\ Len(pass) <= 1
  BY DEF TypeOK
<1>2. pass /= << >> => Len(pass) \in Nat \ {0}
  BY <1>1, EmptySeq
<1>3. pass /= << >> => Head(pass) = pass[1]
  BY <1>1
<1>4. pass /= << >> => Len(pass) = 1
  BY <1>1, <1>2
<1> QED
  BY <1>3, <1>4, Zenon

\* A path is at work on a version while one of its jobs is.
LEMMA AtWorkFields ==
    ASSUME TypeOK
    PROVE  \A v : AtWork(v) <=> \E j \in Jobs : j.version = v
<1>1. pass = << >> \/ (Len(pass) = 1 /\ Head(pass) = pass[1])
  BY PassIsOne
<1>2. JobsOf(pass) = IF pass = << >> THEN {} ELSE {Head(pass)}
  BY <1>1, FewJobs DEF JobsOf
<1> QED
  BY <1>2 DEF AtWork, Jobs, JobsOf

\* A job that leaves its sequence.
LEMMA DropJob ==
    ASSUME TypeOK, NEW j, SetJob(j, << >>)
    PROVE  /\ queue' \in Seq(Job) /\ pass' \in Seq(Job) /\ Len(pass') <= 1
           /\ Jobs' \subseteq Jobs /\ Jobs \subseteq Jobs' \union {j}
<1>1. \A q \in Seq(Job) : q /= << >> => << >> \o Tail(q) = Tail(q)
  BY HeadOrTail, ConcatEmptySeq
<1>2. /\ queue \in Seq(Job) /\ pass \in Seq(Job) /\ Len(pass) <= 1
      /\ Len(pass) \in Nat
  BY DEF TypeOK
<1>3. /\ queue' \in Seq(Job)
      /\ JobsOf(queue') \subseteq JobsOf(queue) /\ JobsOf(queue) \subseteq JobsOf(queue') \union {j}
  <2>1. CASE queue /= << >> /\ Head(queue) = j
    <3>1. queue' = Tail(queue)
      BY <1>1, <1>2, <2>1 DEF SetJob
    <3> QED
      BY <1>2, <2>1, <3>1, HeadOrTail
  <2>2. CASE ~(queue /= << >> /\ Head(queue) = j)
    BY <1>2, <2>2, Zenon DEF SetJob
  <2> QED
    BY <2>1, <2>2
<1>4. /\ pass' \in Seq(Job) /\ Len(pass') <= 1
      /\ JobsOf(pass') \subseteq JobsOf(pass) /\ JobsOf(pass) \subseteq JobsOf(pass') \union {j}
  <2>1. CASE pass /= << >> /\ Head(pass) = j
    <3>1. pass' = Tail(pass)
      BY <1>1, <1>2, <2>1 DEF SetJob
    <3> QED
      BY <1>2, <2>1, <3>1, HeadOrTail
  <2>2. CASE ~(pass /= << >> /\ Head(pass) = j)
    <3>1. pass' = pass
      BY <2>2, Zenon DEF SetJob
    <3> QED
      BY <1>2, <3>1
  <2> QED
    BY <2>1, <2>2
<1> QED
  BY <1>3, <1>4 DEF Jobs

\* A job that goes on in the place it had in its sequence.
LEMMA ReplaceJob ==
    ASSUME TypeOK, NEW q \in Running, NEW k \in Job, SetJob(Head(q), << k >>)
    PROVE  /\ queue' \in Seq(Job) /\ pass' \in Seq(Job) /\ Len(pass') <= 1
           /\ Jobs' \subseteq Jobs \union {k} /\ Jobs \subseteq Jobs' \union {Head(q)}
           /\ k \in Jobs'
<1> DEFINE j == Head(q)
<1>0. /\ queue \in Seq(Job) /\ pass \in Seq(Job) /\ Len(pass) <= 1
      /\ Len(pass) \in Nat
  BY DEF TypeOK
<1>1. /\ queue' = IF queue /= << >> /\ Head(queue) = j THEN << k >> \o Tail(queue) ELSE queue
      /\ pass' = IF pass /= << >> /\ Head(pass) = j THEN << k >> ELSE pass
  BY DEF SetJob
<1>2. \/ queue /= << >> /\ Head(queue) = j
      \/ pass /= << >> /\ Head(pass) = j
  BY DEF Running
<1> HIDE DEF j
<1>3. /\ queue' \in Seq(Job)
      /\ JobsOf(queue') \subseteq JobsOf(queue) \union {k}
      /\ JobsOf(queue) \subseteq JobsOf(queue') \union {j}
      /\ queue /= << >> /\ Head(queue) = j => k \in JobsOf(queue')
  <2>1. CASE queue /= << >> /\ Head(queue) = j
    <3>1. queue' = << k >> \o Tail(queue)
      BY <1>1, <2>1, Zenon
    <3> QED
      <4>1. queue \in Seq(Job) /\ queue /= << >>
        BY <1>0, <2>1
      <4>2. /\ Tail(queue) \in Seq(Job) /\ Len(Tail(queue)) = Len(queue) - 1
            /\ JobsOf(queue) = {j} \union JobsOf(Tail(queue))
        BY <2>1, <4>1, HeadOrTail
      <4>3. /\ queue' \in Seq(Job) /\ Len(queue') = Len(Tail(queue)) + 1
            /\ JobsOf(queue') = {k} \union JobsOf(Tail(queue))
        BY <3>1, <4>2, ConsJobs
      <4> QED
        BY <1>0, <4>2, <4>3
  <2>2. CASE ~(queue /= << >> /\ Head(queue) = j)
    BY <1>0, <1>1, <2>2, Zenon
  <2> QED
    BY <2>1, <2>2
<1>4. /\ pass' \in Seq(Job) /\ Len(pass') <= 1
      /\ JobsOf(pass') \subseteq JobsOf(pass) \union {k}
      /\ JobsOf(pass) \subseteq JobsOf(pass') \union {j}
      /\ pass /= << >> /\ Head(pass) = j => k \in JobsOf(pass')
  <2>1. CASE pass /= << >> /\ Head(pass) = j
    <3>1. pass' = << k >>
      BY <1>1, <2>1, Zenon
    <3>2. JobsOf(pass) = {j} \union JobsOf(Tail(pass)) /\ Len(Tail(pass)) = Len(pass) - 1
      BY <1>0, <2>1, HeadOrTail
    <3>3. ~(1 <= Len(pass) - 1)
      BY <1>0
    <3>4. JobsOf(Tail(pass)) = {}
      BY <1>0, <3>2, <3>3 DEF JobsOf
    <3> QED
      BY <3>1, <3>2, <3>4, FewJobs
  <2>2. CASE ~(pass /= << >> /\ Head(pass) = j)
    <3>1. pass' = pass
      BY <1>0, <1>1, <2>2, Zenon
    <3> QED
      BY <1>0, <2>2, <3>1
  <2> QED
    BY <2>1, <2>2
<1> QED
  BY <1>2, <1>3, <1>4 DEF Jobs, j

\* The job at work is one of the jobs.
LEMMA RunningFields ==
    ASSUME TypeOK, NEW q \in Running
    PROVE  Head(q) \in Jobs /\ Head(q) \in Job
<1>1. q \in Seq(Job) /\ q /= << >> /\ JobsOf(q) \subseteq Jobs
  BY DEF Running, TypeOK, Jobs
<1> QED
  BY <1>1, HeadOrTail

\* What a turn of a current job makes of the rows, the vectors and the job.
Done(j) ==
    /\ SetJob(j, << >>)
    /\ hashes' = Padded(j.content)
GoesOn(j, k) ==
    /\ SetJob(j, << k >>)
    /\ k.version = j.version /\ k.content = j.content
    /\ k.at \in Chunks(k) /\ RowsSoFar(k, hashes')
Stored(j) == {vectors} \union {[vectors EXCEPT ![i] = j.content[i]] : i \in Chunks(j)}
Works(j) ==
    /\ hashes' \in [Indices -> Texts \union {NoText}]
    /\ vectors' \in [Indices -> Texts \union {NoText}]
    /\ vectors = hashes => vectors' = hashes'
    /\ \A i \in Chunks(j) : hashes[i] = j.content[i] => hashes'[i] = j.content[i]
    /\ Done(j) \/ (vectors' \in Stored(j) /\ \E k \in Job : GoesOn(j, k))

\* The rows kept are those of the job's chunks.
LEMMA WithoutTailFields ==
    ASSUME NEW j \in Job, NEW f \in [Indices -> Texts \union {NoText}]
    PROVE  /\ WithoutTail(f, j) \in [Indices -> Texts \union {NoText}]
           /\ \A i \in Chunks(j) : WithoutTail(f, j)[i] = f[i]
           /\ (\A i \in Chunks(j) : f[i] = j.content[i]) => WithoutTail(f, j) = Padded(j.content)
<1>1. \A i \in Chunks(j) : i \in Indices
  BY JobFields
<1>2. ASSUME \A i \in Chunks(j) : f[i] = j.content[i]
      PROVE  WithoutTail(f, j) = Padded(j.content)
  <2>1. Len(j.content) \in Nat
    BY JobFields
  <2>2. \A i \in Indices : i \in Chunks(j) <=> i <= Len(j.content)
    BY <2>1, BoundsAssumption DEF Chunks, Indices
  <2> QED
    BY <1>2, <2>2 DEF WithoutTail, Padded
<1> QED
  BY <1>1, <1>2 DEF WithoutTail

\* From a chunk on, whose rows before it are written: all are, or up to the next
\* the model works on.
LEMMA ContinueFields ==
    ASSUME NEW j \in Job, NEW from \in 1 .. MaxChunks + 1,
           NEW stored \in [Indices -> Texts \union {NoText}],
           NEW h \in [Indices -> Texts \union {NoText}],
           NEW v \in [Indices -> Texts \union {NoText}],
           \A i \in Chunks(j) : i < from \/ stored[i] = j.content[i] => h[i] = j.content[i],
           \A i \in Chunks(j) : hashes[i] = j.content[i] => h[i] = j.content[i],
           vectors = hashes => v = h,
           v \in Stored(j),
           Continue(j, from, stored, h, v)
    PROVE  Works(j)
<1> DEFINE left == ToEmbed(j, from, stored)
<1>1. CASE left = {}
  <2>1. \A i \in Chunks(j) : i \in Nat /\ h[i] = j.content[i]
    BY <1>1 DEF ToEmbed, Chunks
  <2>2. hashes' = WithoutTail(h, j) /\ vectors' = WithoutTail(v, j) /\ SetJob(j, << >>)
    BY <1>1, Zenon DEF Continue
  <2> QED
    BY <2>1, <2>2, WithoutTailFields DEF Works, Done
<1>2. CASE left /= {}
  <2> DEFINE k == [j EXCEPT !.at = First(left), !.stored = stored]
  <2>1. hashes' = h /\ vectors' = v /\ SetJob(j, << k >>)
    BY <1>2, Zenon DEF Continue
  <2>2. left \subseteq Chunks(j) /\ left \subseteq Nat
    BY DEF ToEmbed, Chunks
  <2>3. First(left) \in left /\ \A i \in left : First(left) <= i
    BY <1>2, <2>2, FirstIsLeast
  <2>4. /\ First(left) \in Chunks(j)
        /\ \A i \in Chunks(j) : i \in Nat /\ (i < First(left) /\ i >= from => stored[i] = j.content[i])
    <3>1. \A i \in Chunks(j) : i \in Nat /\ (i >= from /\ stored[i] /= j.content[i] => i \in left)
      BY DEF ToEmbed, Chunks
    <3>2. First(left) \in Nat
      BY <2>2, <2>3
    <3> HIDE DEF left
    <3> QED
      BY <2>2, <2>3, <3>1, <3>2
  <2> HIDE DEF left
  <2>5. First(left) \in 0 .. MaxChunks
    BY <2>4, JobFields, BoundsAssumption DEF Indices
  <2>6. /\ k \in Job /\ k.version = j.version /\ k.content = j.content
        /\ k.at = First(left) /\ k.stored = stored
    BY <2>5 DEF Job
  <2>7. Chunks(k) = Chunks(j)
    BY <2>6 DEF Chunks
  <2> HIDE DEF k
  <2>8. RowsSoFar(k, h)
    BY <2>4, <2>6, <2>7 DEF RowsSoFar
  <2> QED
    BY <2>1, <2>4, <2>6, <2>7, <2>8 DEF Works, GoesOn
<1> QED
  BY <1>1, <1>2

\* The first turn of a job.
LEMMA StartFields ==
    ASSUME TypeOK, NEW j \in Job, StartJob(j)
    PROVE  /\ UNCHANGED <<process, sourceVars, historyVars>>
           /\ IF Current(j) THEN Works(j) ELSE SetJob(j, << >>) /\ UNCHANGED chunkVars
<1>1. UNCHANGED <<process, sourceVars, historyVars>>
  BY Zenon DEF StartJob
<1>2. CASE ~Current(j)
  BY <1>1, <1>2, Zenon DEF StartJob
<1>3. CASE Current(j)
  <2>1. Continue(j, 1, hashes, hashes, vectors)
    BY <1>3, Zenon DEF StartJob
  <2>2. 1 \in 1 .. MaxChunks + 1 /\ \A i \in Chunks(j) : ~(i < 1)
    BY BoundsAssumption DEF Chunks
  <2>3. /\ hashes \in [Indices -> Texts \union {NoText}]
        /\ vectors \in [Indices -> Texts \union {NoText}] /\ vectors \in Stored(j)
    BY DEF TypeOK, Stored
  <2> QED
    BY <1>1, <1>3, <2>1, <2>2, <2>3, ContinueFields
<1> QED
  BY <1>2, <1>3

\* The turn after an answer of the model.
LEMMA ReturnFields ==
    ASSUME TypeOK, ChunksInOrder, NEW j \in Jobs, j \in Job, EmbedReturns(j)
    PROVE  /\ UNCHANGED <<process, sourceVars, historyVars>>
           /\ IF Current(j) THEN Works(j) ELSE SetJob(j, << >>) /\ UNCHANGED chunkVars
<1>1. UNCHANGED <<process, sourceVars, historyVars>> /\ j.at /= 0
  BY Zenon DEF EmbedReturns
<1>2. CASE ~Current(j)
  BY <1>1, <1>2, Zenon DEF EmbedReturns
<1>3. CASE Current(j)
  <2> DEFINE h == [hashes EXCEPT ![j.at] = j.content[j.at]]
  <2> DEFINE v == [vectors EXCEPT ![j.at] = j.content[j.at]]
  <2>1. Continue(j, j.at + 1, j.stored, h, v)
    BY <1>3, Zenon DEF EmbedReturns
  <2>2. j.at \in Chunks(j) /\ RowsSoFar(j, hashes)
    BY <1>1, <1>3 DEF ChunksInOrder
  <2>3. /\ j.at + 1 \in 1 .. MaxChunks + 1 /\ j.stored \in [Indices -> Texts \union {NoText}]
        /\ j.at \in Indices /\ j.content[j.at] \in Texts /\ j.at \in Nat
        /\ \A i \in Chunks(j) : i \in Indices /\ i \in Nat
    BY <2>2, JobFields, BoundsAssumption DEF Chunks
  <2>4. hashes \in [Indices -> Texts \union {NoText}] /\ vectors \in [Indices -> Texts \union {NoText}]
    BY DEF TypeOK
  <2>5. /\ h \in [Indices -> Texts \union {NoText}] /\ v \in [Indices -> Texts \union {NoText}]
        /\ \A i \in Indices : h[i] = IF i = j.at THEN j.content[j.at] ELSE hashes[i]
        /\ vectors = hashes => v = h
    BY <2>3, <2>4
  <2>8. v \in Stored(j)
    BY <2>2 DEF Stored
  <2> HIDE DEF h, v
  <2>6. \A i \in Chunks(j) : i < j.at + 1 \/ j.stored[i] = j.content[i] => h[i] = j.content[i]
    BY <2>2, <2>3, <2>5 DEF RowsSoFar
  <2>7. \A i \in Chunks(j) : hashes[i] = j.content[i] => h[i] = j.content[i]
    BY <2>3, <2>5
  <2> QED
    BY <1>1, <1>3, <2>1, <2>3, <2>5, <2>6, <2>7, <2>8, ContinueFields
<1> QED
  BY <1>2, <1>3

\* A source write makes a version that no job has.
LEMMA NewJobFields ==
    ASSUME TypeOK, NEW content \in Contents, versions < MaxVersions
    PROVE  /\ NewJob(content) \in Job /\ NewJob(content).version = versions + 1
           /\ NewJob(content).content = content /\ NewJob(content).at = 0
  BY BoundsAssumption DEF TypeOK, NewJob, Job, NoTexts

\* A turn of the job at work, the first or one after an answer of the model.
LEMMA TurnFields ==
    ASSUME TypeOK, ChunksInOrder, NEW q \in Running, StartJob(Head(q)) \/ EmbedReturns(Head(q))
    PROVE  /\ UNCHANGED <<process, sourceVars, historyVars>>
           /\ Head(q) \in Jobs /\ Head(q) \in Job
           /\ \/ ~Current(Head(q)) /\ SetJob(Head(q), << >>) /\ UNCHANGED chunkVars
              \/ Current(Head(q)) /\ Works(Head(q))
<1>1. Head(q) \in Jobs /\ Head(q) \in Job
  BY RunningFields
<1>2. CASE StartJob(Head(q))
  BY <1>1, <1>2, StartFields, Zenon
<1>3. CASE EmbedReturns(Head(q))
  BY <1>1, <1>3, ReturnFields, Zenon
<1> QED
  BY <1>2, <1>3

\* The last turn of a job that a crash cuts short.
LEMMA LastTurnFields ==
    ASSUME TypeOK, ChunksInOrder, NEW q \in Running, CrashInLastTurn(Head(q))
    PROVE  /\ Lost
           /\ hashes' \in [Indices -> Texts \union {NoText}]
           /\ vectors' \in [Indices -> Texts \union {NoText}]
           /\ ~CrashBetweenDeletes /\ vectors = hashes => vectors' = hashes'
           /\ Current(Head(q))
           /\ ~CrashBetweenDeletes => vectors' \in Stored(Head(q))
<1> DEFINE j == Head(q)
<1>1. j \in Jobs /\ j \in Job
  BY RunningFields
<1>2. /\ hashes \in [Indices -> Texts \union {NoText}]
      /\ vectors \in [Indices -> Texts \union {NoText}]
  BY DEF TypeOK
<1>3. j.at /= 0 => j.at \in Indices /\ j.content[j.at] \in Texts
  BY <1>1, JobFields DEF ChunksInOrder
<1> DEFINE h == IF j.at = 0 THEN hashes ELSE [hashes EXCEPT ![j.at] = j.content[j.at]]
<1> DEFINE v == IF j.at = 0 THEN vectors ELSE [vectors EXCEPT ![j.at] = j.content[j.at]]
<1>4. /\ Lost /\ hashes' = h
      /\ vectors' = v \/ (CrashBetweenDeletes /\ vectors' = WithoutTail(v, j))
  BY DEF CrashInLastTurn
<1>6. Current(j)
  BY DEF CrashInLastTurn
<1>7. v \in Stored(j)
  BY <1>1 DEF Stored, ChunksInOrder
<1> HIDE DEF j
<1>5. /\ h \in [Indices -> Texts \union {NoText}]
      /\ v \in [Indices -> Texts \union {NoText}]
      /\ vectors = hashes => v = h
  BY <1>2, <1>3
<1> HIDE DEF h, v
<1> QED
  BY <1>1, <1>4, <1>5, <1>6, <1>7, WithoutTailFields DEF j

\* Whatever waits or works is a job.
LEMMA JobsTyped == TypeOK => Jobs \subseteq Job
<1>1. ASSUME NEW q \in Seq(Job) PROVE JobsOf(q) \subseteq Job
  BY ElementOfSeq DEF JobsOf
<1> QED
  BY <1>1 DEF TypeOK, Jobs

\* No texts are a row of no text for each chunk.
LEMMA NoTextsTyped == NoTexts \in [Indices -> Texts \union {NoText}]
  BY DEF NoTexts

\* Every variable keeps its type.
LEMMA TypeStep == TypeOK /\ VersionsInOrder /\ ChunksInOrder /\ Next => TypeOK'
<1> SUFFICES ASSUME TypeOK, VersionsInOrder, ChunksInOrder, Next
             PROVE  TypeOK'
  OBVIOUS
<1> USE BoundsAssumption DEF TypeOK, VersionsInOrder, ChunksInOrder, sourceVars, jobVars,
        chunkVars, historyVars, NoVersion
<1>1. ASSUME NEW content \in Contents, Upsert(content) PROVE TypeOK'
  <2>1. /\ process = "up" /\ versions < MaxVersions
        /\ source' = content /\ indexed' = TRUE
        /\ version' = versions + 1 /\ versions' = versions + 1
        /\ kept' = FALSE
        /\ UNCHANGED <<process, pass, hashes, vectors, failed>>
    BY <1>1 DEF Upsert
  <2>2. /\ NewJob(content) \in Job /\ NewJob(content).version = versions + 1
        /\ NewJob(content).content = content /\ NewJob(content).at = 0
    BY <2>1, NewJobFields
  <2>3. queue' \in Seq(Job) /\ Jobs' = Jobs \union {NewJob(content)}
    BY <1>1, <2>2, AppendJobs DEF Upsert, Jobs
  <2> HIDE DEF NewJob
  <2> QED
    BY <2>1, <2>2, <2>3, JobsTyped, JobFields
<1>2. CASE Remove
  <2>1. /\ source' = NoSource /\ indexed' = FALSE /\ version' = NoVersion
        /\ hashes' = NoTexts /\ vectors' = NoTexts
        /\ UNCHANGED <<process, versions, queue, pass, failed, kept>>
    BY <1>2 DEF Remove
  <2>2. source' \in Contents \union {NoSource} /\ indexed' \in BOOLEAN
    BY <2>1
  <2>3. version' \in 0 .. MaxVersions
    BY <2>1
  <2>4. queue' \in Seq(Job) /\ pass' \in Seq(Job) /\ Len(pass') <= 1
    BY <2>1
  <2> QED
    BY <2>1, <2>2, <2>3, <2>4, NoTextsTyped
<1>3. ASSUME NEW q \in Running, StartJob(Head(q)) \/ EmbedReturns(Head(q)) PROVE TypeOK'
  <2>1. /\ UNCHANGED <<process, sourceVars, historyVars>>
        /\ Head(q) \in Jobs /\ Head(q) \in Job
        /\ \/ ~Current(Head(q)) /\ SetJob(Head(q), << >>) /\ UNCHANGED chunkVars
           \/ Current(Head(q)) /\ Works(Head(q))
    BY <1>3, TurnFields
  <2>2. CASE ~Current(Head(q))
    BY <2>1, <2>2, DropJob
  <2>3. CASE Current(Head(q)) /\ Done(Head(q))
    BY <2>1, <2>3, DropJob, JobFields DEF Works, Done
  <2>4. ASSUME Current(Head(q)), NEW k \in Job, GoesOn(Head(q), k) PROVE TypeOK'
    BY <2>1, <2>4, ReplaceJob, JobFields DEF Works, GoesOn
  <2> QED
    BY <2>1, <2>2, <2>3, <2>4 DEF Works
<1>4. ASSUME NEW q \in Running, EmbedFails(Head(q)) PROVE TypeOK'
  <2>1. /\ Head(q) \in Jobs /\ Head(q) \in Job /\ SetJob(Head(q), << >>)
        /\ failed' = failed \union {Head(q).version}
        /\ UNCHANGED <<process, source, indexed, version, versions, hashes, vectors, kept>>
    BY <1>4, RunningFields DEF EmbedFails
  <2>2. Head(q).version \in 1 .. MaxVersions
    BY <2>1, JobFields
  <2>3. queue' \in Seq(Job) /\ pass' \in Seq(Job) /\ Len(pass') <= 1
    BY <2>1, DropJob
  <2> QED
    BY <2>1, <2>2, <2>3
<1>5. CASE Crash
  BY <1>5, FewJobs DEF Crash, Lost, Jobs
<1>6. CASE CrashInCleanup
  <2>1. /\ process' = "down" /\ version' = NoVersion
        /\ queue' = << >> /\ pass' = << >>
        /\ UNCHANGED <<source, indexed, versions, failed, kept>>
    BY <1>6 DEF Lost, CrashInCleanup
  <2>2. /\ hashes' \in [Indices -> Texts \union {NoText}]
        /\ vectors' \in [Indices -> Texts \union {NoText}]
    BY <1>6, NoTextsTyped DEF CrashInCleanup
  <2>3. /\ queue' \in Seq(Job) /\ pass' \in Seq(Job) /\ Len(pass') <= 1
    BY <2>1, FewJobs
  <2> QED
    BY <2>1, <2>2, <2>3
<1>7. ASSUME NEW q \in Running, CrashInLastTurn(Head(q)) PROVE TypeOK'
  <2>1. /\ process' = "down" /\ version' = NoVersion
        /\ queue' = << >> /\ pass' = << >>
        /\ UNCHANGED <<source, indexed, versions, failed, kept>>
    BY <1>7, LastTurnFields DEF Lost
  <2>2. /\ hashes' \in [Indices -> Texts \union {NoText}]
        /\ vectors' \in [Indices -> Texts \union {NoText}]
    BY <1>7, LastTurnFields, NoTextsTyped
  <2>3. /\ queue' \in Seq(Job) /\ pass' \in Seq(Job) /\ Len(pass') <= 1
    BY <2>1, FewJobs
  <2> QED
    BY <2>1, <2>2, <2>3
<1>8. CASE RebuildStarts
  BY <1>8 DEF RebuildStarts, Jobs
<1>9. ASSUME NEW content \in Contents, RebuildIndexes(content) PROVE TypeOK'
  <2>1. /\ process = "rebuilding" /\ versions < MaxVersions /\ process' = "up"
        /\ source' = content /\ indexed' = TRUE
        /\ version' = versions + 1 /\ versions' = versions + 1
        /\ kept' = FALSE
        /\ UNCHANGED <<queue, hashes, vectors, failed>>
    BY <1>9 DEF RebuildIndexes
  <2>2. /\ NewJob(content) \in Job /\ NewJob(content).version = versions + 1
        /\ NewJob(content).content = content /\ NewJob(content).at = 0
    BY <2>1, NewJobFields
  <2>3. /\ pass' \in Seq(Job) /\ Len(pass') = 1
        /\ Jobs' = JobsOf(queue) \union {NewJob(content)}
    BY <1>9, <2>2, FewJobs DEF RebuildIndexes, Jobs
  <2>4. Jobs' \subseteq Jobs \union {NewJob(content)} /\ NewJob(content) \in Jobs'
    BY <2>3 DEF Jobs
  <2>5. version' \in 0 .. MaxVersions /\ Len(pass') <= 1
    BY <2>1, <2>3
  <2> QED
    BY <2>1, <2>2, <2>3, <2>4, <2>5, JobsTyped, JobFields
<1>10. CASE RebuildFindsNothing
  BY <1>10, NoTextsTyped DEF RebuildFindsNothing, Jobs
<1>11. CASE RebuildSkips
  BY <1>11 DEF RebuildSkips, Jobs
<1> QED
  BY <1>1, <1>2, <1>3, <1>4, <1>5, <1>6, <1>7, <1>8, <1>9, <1>10, <1>11
     DEF Next, SourceWrite, Rebuild, JobStep, Crashes

\* Versions only grow, and a job keeps its own.
LEMMA VersionsStep == TypeOK /\ VersionsInOrder /\ ChunksInOrder /\ Next => VersionsInOrder'
<1> SUFFICES ASSUME TypeOK, VersionsInOrder, ChunksInOrder, Next
             PROVE  VersionsInOrder'
  OBVIOUS
<1> USE BoundsAssumption DEF TypeOK, VersionsInOrder, ChunksInOrder, Current, sourceVars,
        jobVars, chunkVars, historyVars, NoVersion
<1>1. ASSUME NEW content \in Contents, Upsert(content) PROVE VersionsInOrder'
  <2>1. /\ process = "up" /\ versions < MaxVersions
        /\ source' = content /\ indexed' = TRUE
        /\ version' = versions + 1 /\ versions' = versions + 1
        /\ kept' = FALSE
        /\ UNCHANGED <<process, pass, hashes, vectors, failed>>
    BY <1>1 DEF Upsert
  <2>2. /\ NewJob(content) \in Job /\ NewJob(content).version = versions + 1
        /\ NewJob(content).content = content /\ NewJob(content).at = 0
    BY <2>1, NewJobFields
  <2>3. queue' \in Seq(Job) /\ Jobs' = Jobs \union {NewJob(content)}
    BY <1>1, <2>2, AppendJobs DEF Upsert, Jobs
  <2> HIDE DEF NewJob
  <2> QED
    BY <2>1, <2>2, <2>3, JobsTyped, JobFields
<1>2. CASE Remove
  BY <1>2, NoTextsTyped DEF Remove, Jobs
<1>3. ASSUME NEW q \in Running, StartJob(Head(q)) \/ EmbedReturns(Head(q))
      PROVE  VersionsInOrder'
  <2>1. /\ UNCHANGED <<process, sourceVars, historyVars>>
        /\ Head(q) \in Jobs /\ Head(q) \in Job
        /\ \/ ~Current(Head(q)) /\ SetJob(Head(q), << >>) /\ UNCHANGED chunkVars
           \/ Current(Head(q)) /\ Works(Head(q))
    BY <1>3, TurnFields
  <2>2. CASE ~Current(Head(q))
    BY <2>1, <2>2, DropJob
  <2>3. CASE Current(Head(q)) /\ Done(Head(q))
    BY <2>1, <2>3, DropJob, JobFields DEF Works, Done
  <2>4. ASSUME Current(Head(q)), NEW k \in Job, GoesOn(Head(q), k) PROVE VersionsInOrder'
    BY <2>1, <2>4, ReplaceJob, JobFields DEF Works, GoesOn
  <2> QED
    BY <2>1, <2>2, <2>3, <2>4 DEF Works
<1>4. ASSUME NEW q \in Running, EmbedFails(Head(q)) PROVE VersionsInOrder'
  BY <1>4, DropJob, RunningFields, JobFields DEF EmbedFails
<1>5. CASE Crash
  BY <1>5, FewJobs DEF Crash, Lost, Jobs
<1>6. CASE CrashInCleanup
  BY <1>6, FewJobs DEF CrashInCleanup, Lost, Jobs
<1>7. ASSUME NEW q \in Running, CrashInLastTurn(Head(q)) PROVE VersionsInOrder'
  BY <1>7, FewJobs, LastTurnFields DEF Lost, Jobs
<1>8. CASE RebuildStarts
  BY <1>8 DEF RebuildStarts, Jobs
<1>9. ASSUME NEW content \in Contents, RebuildIndexes(content) PROVE VersionsInOrder'
  <2>1. /\ process = "rebuilding" /\ versions < MaxVersions /\ process' = "up"
        /\ source' = content /\ indexed' = TRUE
        /\ version' = versions + 1 /\ versions' = versions + 1
        /\ kept' = FALSE
        /\ UNCHANGED <<queue, hashes, vectors, failed>>
    BY <1>9 DEF RebuildIndexes
  <2>2. /\ NewJob(content) \in Job /\ NewJob(content).version = versions + 1
        /\ NewJob(content).content = content /\ NewJob(content).at = 0
    BY <2>1, NewJobFields
  <2>3. /\ pass' \in Seq(Job) /\ Len(pass') = 1
        /\ Jobs' = JobsOf(queue) \union {NewJob(content)}
    BY <1>9, <2>2, FewJobs DEF RebuildIndexes, Jobs
  <2>4. Jobs' \subseteq Jobs \union {NewJob(content)} /\ NewJob(content) \in Jobs'
    BY <2>3 DEF Jobs
  <2>5. version' \in 0 .. MaxVersions /\ Len(pass') <= 1
    BY <2>1, <2>3
  <2> QED
    BY <2>1, <2>2, <2>3, <2>4, <2>5, JobsTyped, JobFields
<1>10. CASE RebuildFindsNothing
  BY <1>10, NoTextsTyped DEF RebuildFindsNothing, Jobs
<1>11. CASE RebuildSkips
  BY <1>11 DEF RebuildSkips, Jobs
<1> QED
  BY <1>1, <1>2, <1>3, <1>4, <1>5, <1>6, <1>7, <1>8, <1>9, <1>10, <1>11
     DEF Next, SourceWrite, Rebuild, JobStep, Crashes

\* What a current job has written or passed stays.
LEMMA ChunksStep == TypeOK /\ VersionsInOrder /\ ChunksInOrder /\ Next => ChunksInOrder'
<1> SUFFICES ASSUME TypeOK, VersionsInOrder, ChunksInOrder, Next
             PROVE  ChunksInOrder'
  OBVIOUS
<1> USE BoundsAssumption DEF TypeOK, VersionsInOrder, ChunksInOrder, Current, sourceVars,
        jobVars, chunkVars, historyVars, NoVersion
<1>1. ASSUME NEW content \in Contents, Upsert(content) PROVE ChunksInOrder'
  BY <1>1, AppendJobs, NewJobFields, JobsTyped DEF Upsert, Jobs
<1>2. CASE Remove
  BY <1>2, NoTextsTyped DEF Remove, Jobs
<1>3. ASSUME NEW q \in Running, StartJob(Head(q)) \/ EmbedReturns(Head(q))
      PROVE  ChunksInOrder'
  <2>1. /\ UNCHANGED <<process, sourceVars, historyVars>>
        /\ Head(q) \in Jobs /\ Head(q) \in Job
        /\ \/ ~Current(Head(q)) /\ SetJob(Head(q), << >>) /\ UNCHANGED chunkVars
           \/ Current(Head(q)) /\ Works(Head(q))
    BY <1>3, TurnFields
  <2>2. CASE ~Current(Head(q))
    BY <2>1, <2>2, DropJob
  <2>5. ASSUME Current(Head(q)), Works(Head(q)), NEW j \in Jobs, Current(j), RowsSoFar(j, hashes)
        PROVE  RowsSoFar(j, hashes')
    <3>1. j.content = Head(q).content
      BY <2>1, <2>5
    <3> QED
      BY <2>5, <3>1 DEF Works, RowsSoFar, Chunks
  <2>3. CASE Current(Head(q)) /\ Done(Head(q))
    BY <2>1, <2>3, <2>5, DropJob, JobFields DEF Works, Done
  <2>4. ASSUME Current(Head(q)), NEW k \in Job, GoesOn(Head(q), k) PROVE ChunksInOrder'
    BY <2>1, <2>4, <2>5, ReplaceJob, JobFields DEF Works, GoesOn
  <2> QED
    BY <2>1, <2>2, <2>3, <2>4 DEF Works
<1>4. ASSUME NEW q \in Running, EmbedFails(Head(q)) PROVE ChunksInOrder'
  BY <1>4, DropJob, RunningFields, JobFields DEF EmbedFails
<1>5. CASE Crash
  BY <1>5, FewJobs DEF Crash, Lost, Jobs
<1>6. CASE CrashInCleanup
  BY <1>6, FewJobs DEF CrashInCleanup, Lost, Jobs
<1>7. ASSUME NEW q \in Running, CrashInLastTurn(Head(q)) PROVE ChunksInOrder'
  BY <1>7, FewJobs, LastTurnFields DEF Lost, Jobs
<1>8. CASE RebuildStarts
  BY <1>8 DEF RebuildStarts, Jobs
<1>9. ASSUME NEW content \in Contents, RebuildIndexes(content) PROVE ChunksInOrder'
  BY <1>9, FewJobs, NewJobFields, JobsTyped DEF RebuildIndexes, Jobs
<1>10. CASE RebuildFindsNothing
  BY <1>10, NoTextsTyped DEF RebuildFindsNothing, Jobs
<1>11. CASE RebuildSkips
  BY <1>11 DEF RebuildSkips, Jobs
<1> QED
  BY <1>1, <1>2, <1>3, <1>4, <1>5, <1>6, <1>7, <1>8, <1>9, <1>10, <1>11
     DEF Next, SourceWrite, Rebuild, JobStep, Crashes

\* Rows and vectors stay the same.
LEMMA MatchStep == TypeOK /\ ChunksInOrder /\ VectorsMatch /\ Next => VectorsMatch'
<1> SUFFICES ASSUME TypeOK, ChunksInOrder, VectorsMatch, Next
             PROVE  VectorsMatch'
  OBVIOUS
<1> USE DEF TypeOK, ChunksInOrder, VectorsMatch, sourceVars, jobVars, chunkVars, historyVars,
        NoVersion
<1>1. ASSUME NEW content \in Contents, Upsert(content) PROVE VectorsMatch'
  BY <1>1, AppendJobs, NewJobFields, JobsTyped DEF Upsert, Jobs
<1>2. CASE Remove
  BY <1>2, NoTextsTyped DEF Remove, Jobs
<1>3. ASSUME NEW q \in Running, StartJob(Head(q)) \/ EmbedReturns(Head(q))
      PROVE  VectorsMatch'
  <2>1. /\ UNCHANGED <<process, sourceVars, historyVars>>
        /\ Head(q) \in Jobs /\ Head(q) \in Job
        /\ \/ ~Current(Head(q)) /\ SetJob(Head(q), << >>) /\ UNCHANGED chunkVars
           \/ Current(Head(q)) /\ Works(Head(q))
    BY <1>3, TurnFields
  <2>2. CASE ~Current(Head(q))
    BY <2>1, <2>2, DropJob
  <2>3. CASE Current(Head(q)) /\ Done(Head(q))
    BY <2>1, <2>3, DropJob, JobFields DEF Works, Done
  <2>4. ASSUME Current(Head(q)), NEW k \in Job, GoesOn(Head(q), k) PROVE VectorsMatch'
    BY <2>1, <2>4, ReplaceJob, JobFields DEF Works, GoesOn
  <2> QED
    BY <2>1, <2>2, <2>3, <2>4 DEF Works
<1>4. ASSUME NEW q \in Running, EmbedFails(Head(q)) PROVE VectorsMatch'
  BY <1>4, DropJob, RunningFields, JobFields DEF EmbedFails
<1>5. CASE Crash
  BY <1>5, FewJobs DEF Crash, Lost, Jobs
<1>6. CASE CrashInCleanup
  BY <1>6, FewJobs DEF CrashInCleanup, Lost, Jobs
<1>7. ASSUME NEW q \in Running, CrashInLastTurn(Head(q)) PROVE VectorsMatch'
  BY <1>7, FewJobs, LastTurnFields DEF Lost, Jobs
<1>8. CASE RebuildStarts
  BY <1>8 DEF RebuildStarts, Jobs
<1>9. ASSUME NEW content \in Contents, RebuildIndexes(content) PROVE VectorsMatch'
  BY <1>9, FewJobs, NewJobFields, JobsTyped DEF RebuildIndexes, Jobs
<1>10. CASE RebuildFindsNothing
  BY <1>10, NoTextsTyped DEF RebuildFindsNothing, Jobs
<1>11. CASE RebuildSkips
  BY <1>11 DEF RebuildSkips, Jobs
<1> QED
  BY <1>1, <1>2, <1>3, <1>4, <1>5, <1>6, <1>7, <1>8, <1>9, <1>10, <1>11
     DEF Next, SourceWrite, Rebuild, JobStep, Crashes

\* A removed note gets no rows or vectors.
LEMMA RemovedStep ==
    TypeOK /\ VersionsInOrder /\ ChunksInOrder /\ RemovedNotesAreNotFound /\ Next =>
        RemovedNotesAreNotFound'
<1> SUFFICES ASSUME TypeOK, VersionsInOrder, ChunksInOrder, RemovedNotesAreNotFound, Next
             PROVE  RemovedNotesAreNotFound'
  OBVIOUS
<1> USE DEF TypeOK, VersionsInOrder, ChunksInOrder, RemovedNotesAreNotFound, Current,
        sourceVars, jobVars, chunkVars, historyVars, NoVersion
<1>1. ASSUME NEW content \in Contents, Upsert(content) PROVE RemovedNotesAreNotFound'
  BY <1>1, AppendJobs, NewJobFields, JobsTyped DEF Upsert, Jobs
<1>2. CASE Remove
  BY <1>2, NoTextsTyped DEF Remove, Jobs
<1>3. ASSUME NEW q \in Running, StartJob(Head(q)) \/ EmbedReturns(Head(q))
      PROVE  RemovedNotesAreNotFound'
  <2>1. /\ UNCHANGED <<process, sourceVars, historyVars>>
        /\ Head(q) \in Jobs /\ Head(q) \in Job
        /\ \/ ~Current(Head(q)) /\ SetJob(Head(q), << >>) /\ UNCHANGED chunkVars
           \/ Current(Head(q)) /\ Works(Head(q))
    BY <1>3, TurnFields
  <2>2. CASE ~Current(Head(q))
    BY <2>1, <2>2, DropJob
  <2>3. CASE Current(Head(q)) /\ Done(Head(q))
    BY <2>1, <2>3, DropJob, JobFields DEF Works, Done
  <2>4. ASSUME Current(Head(q)), NEW k \in Job, GoesOn(Head(q), k) PROVE RemovedNotesAreNotFound'
    BY <2>1, <2>4, ReplaceJob, JobFields DEF Works, GoesOn
  <2> QED
    BY <2>1, <2>2, <2>3, <2>4 DEF Works
<1>4. ASSUME NEW q \in Running, EmbedFails(Head(q)) PROVE RemovedNotesAreNotFound'
  BY <1>4, DropJob, RunningFields, JobFields DEF EmbedFails
<1>5. CASE Crash
  BY <1>5, FewJobs DEF Crash, Lost, Jobs
<1>6. CASE CrashInCleanup
  BY <1>6, FewJobs DEF CrashInCleanup, Lost, Jobs
<1>7. ASSUME NEW q \in Running, CrashInLastTurn(Head(q)) PROVE RemovedNotesAreNotFound'
  BY <1>7, FewJobs, LastTurnFields DEF Lost, Jobs
<1>8. CASE RebuildStarts
  BY <1>8 DEF RebuildStarts, Jobs
<1>9. ASSUME NEW content \in Contents, RebuildIndexes(content)
      PROVE  RemovedNotesAreNotFound'
  BY <1>9, FewJobs, NewJobFields, JobsTyped DEF RebuildIndexes, Jobs
<1>10. CASE RebuildFindsNothing
  BY <1>10, NoTextsTyped DEF RebuildFindsNothing, Jobs
<1>11. CASE RebuildSkips
  BY <1>11 DEF RebuildSkips, Jobs
<1> QED
  BY <1>1, <1>2, <1>3, <1>4, <1>5, <1>6, <1>7, <1>8, <1>9, <1>10, <1>11
     DEF Next, SourceWrite, Rebuild, JobStep, Crashes

\* Content whose work ends has its rows.
LEMMA RowsStep ==
    TypeOK /\ VersionsInOrder /\ ChunksInOrder /\ RowsSettle /\ Next =>
        RowsSettle'
<1> SUFFICES ASSUME TypeOK, VersionsInOrder, ChunksInOrder, RowsSettle, Next
             PROVE  RowsSettle'
  OBVIOUS
<1> USE BoundsAssumption DEF TypeOK, VersionsInOrder, ChunksInOrder, RowsSettle, Current,
        sourceVars, jobVars, chunkVars, historyVars, NoVersion
<1>1. ASSUME NEW content \in Contents, Upsert(content) PROVE RowsSettle'
  BY <1>1, AppendJobs, NewJobFields, JobsTyped DEF Upsert, Jobs
<1>2. CASE Remove
  BY <1>2, NoTextsTyped DEF Remove, Jobs
<1>3. ASSUME NEW q \in Running, StartJob(Head(q)) \/ EmbedReturns(Head(q)) PROVE RowsSettle'
  <2>1. /\ UNCHANGED <<process, sourceVars, historyVars>>
        /\ Head(q) \in Jobs /\ Head(q) \in Job
        /\ \/ ~Current(Head(q)) /\ SetJob(Head(q), << >>) /\ UNCHANGED chunkVars
           \/ Current(Head(q)) /\ Works(Head(q))
    BY <1>3, TurnFields
  <2>2. CASE ~Current(Head(q))
    BY <2>1, <2>2, DropJob
  <2>3. CASE Current(Head(q)) /\ Done(Head(q))
    BY <2>1, <2>3, DropJob, JobFields DEF Works, Done
  <2>4. ASSUME Current(Head(q)), NEW k \in Job, GoesOn(Head(q), k) PROVE RowsSettle'
    BY <2>1, <2>4, ReplaceJob, JobFields DEF Works, GoesOn
  <2> QED
    BY <2>1, <2>2, <2>3, <2>4 DEF Works
<1>4. ASSUME NEW q \in Running, EmbedFails(Head(q)) PROVE RowsSettle'
  BY <1>4, DropJob, RunningFields, JobFields DEF EmbedFails
<1>5. CASE Crash
  BY <1>5, FewJobs DEF Crash, Lost, Jobs
<1>6. CASE CrashInCleanup
  BY <1>6, FewJobs DEF CrashInCleanup, Lost, Jobs
<1>7. ASSUME NEW q \in Running, CrashInLastTurn(Head(q)) PROVE RowsSettle'
  BY <1>7, FewJobs, LastTurnFields DEF Lost, Jobs
<1>8. CASE RebuildStarts
  BY <1>8 DEF RebuildStarts, Jobs
<1>9. ASSUME NEW content \in Contents, RebuildIndexes(content) PROVE RowsSettle'
  BY <1>9, FewJobs, NewJobFields, JobsTyped DEF RebuildIndexes, Jobs
<1>10. CASE RebuildFindsNothing
  BY <1>10, NoTextsTyped DEF RebuildFindsNothing, Jobs
<1>11. CASE RebuildSkips
  BY <1>11 DEF RebuildSkips, Jobs
<1> QED
  BY <1>1, <1>2, <1>3, <1>4, <1>5, <1>6, <1>7, <1>8, <1>9, <1>10, <1>11
     DEF Next, SourceWrite, Rebuild, JobStep, Crashes

-----------------------------------------------------------------------------
(* The theorems                                                                *)

\* The invariant holds before the first start.
LEMMA InitInvariant == Init => PipelineInvariant
<1> SUFFICES ASSUME Init PROVE PipelineInvariant
  OBVIOUS
<1>1. Jobs = {} /\ queue \in Seq(Job) /\ pass \in Seq(Job) /\ Len(pass) <= 1
  BY FewJobs DEF Init, Jobs
<1>2. TypeOK
  <2>1. version \in 0 .. MaxVersions /\ versions \in 0 .. MaxVersions
    BY BoundsAssumption DEF Init, NoVersion
  <2>2. /\ hashes \in [Indices -> Texts \union {NoText}]
        /\ vectors \in [Indices -> Texts \union {NoText}]
    BY NoTextsTyped DEF Init
  <2>3. /\ process = "down" /\ source = NoSource /\ indexed = FALSE
        /\ failed = {} /\ kept = FALSE
    BY DEF Init
  <2> QED
    BY <1>1, <2>1, <2>2, <2>3 DEF TypeOK
<1> QED
  BY <1>1, <1>2 DEF Init, PipelineInvariant, VersionsInOrder, ChunksInOrder, VectorsMatch,
     RemovedNotesAreNotFound, RowsSettle, NoVersion

\* Every step keeps the invariant.
LEMMA NextInvariant == PipelineInvariant /\ [Next]_vars => PipelineInvariant'
<1> SUFFICES ASSUME PipelineInvariant, [Next]_vars PROVE PipelineInvariant'
  OBVIOUS
<1>1. CASE Next
  BY <1>1, TypeStep, VersionsStep, ChunksStep, MatchStep, RemovedStep, RowsStep
     DEF PipelineInvariant
<1>2. CASE UNCHANGED vars
  BY <1>2 DEF vars, PipelineInvariant, TypeOK, VersionsInOrder, ChunksInOrder, VectorsMatch,
     RemovedNotesAreNotFound, RowsSettle, RowsSoFar, Current, Jobs, sourceVars, jobVars,
     chunkVars, historyVars
<1> QED
  BY <1>1, <1>2

\* The invariant holds in every reachable state.
LEMMA PipelineInvariantHolds == Spec => []PipelineInvariant
  BY InitInvariant, NextInvariant, PTL DEF Spec

\* The variables keep their types: upsertNote, removeNote, the jobs of
\* embedAndStoreChunks, crashes and rebuilds never record a version, job or chunk
\* outside them.
THEOREM PipelineTypeCorrect == Spec => []TypeOK
<1>1. PipelineInvariant => TypeOK
  BY DEF PipelineInvariant
<1> QED
  BY <1>1, PipelineInvariantHolds, PTL

\* A path without an indexed note has no chunks and no vectors, whatever model
\* work outlived removeNote or the rebuild that did not find it, unless the
\* rebuild could read the note but not index it.
THEOREM RemovedNotesHaveNoVectors == Spec => []RemovedNotesAreNotFound
<1>1. PipelineInvariant => RemovedNotesAreNotFound
  BY DEF PipelineInvariant
<1> QED
  BY <1>1, PipelineInvariantHolds, PTL

\* Once the model work of the indexed content is over and none of it failed,
\* every chunk of it has its vector, and no older content has any:
\* isCurrentSourceVersion after each model call keeps obsolete jobs of the
\* watcher's queue and the rebuild's pass from writing. It takes that no crash
\* falls between the two DELETEs of a clean-up, for then it is false.
THEOREM SettledContentIsSearchable ==
    CrashBetweenDeletes = FALSE => (Spec => []EmbeddedContentIsSearchable)
<1> SUFFICES ASSUME CrashBetweenDeletes = FALSE PROVE Spec => []EmbeddedContentIsSearchable
  OBVIOUS
<1>1. ASSUME PipelineInvariant PROVE EmbeddedContentIsSearchable
  <2>1. TypeOK /\ RowsSettle /\ vectors = hashes
    BY <1>1 DEF PipelineInvariant, VectorsMatch
  <2>2. ~AtWork(version) => \A j \in Jobs : ~Current(j)
    BY <2>1, AtWorkFields DEF Current
  <2> QED
    BY <2>1, <2>2 DEF RowsSettle, EmbeddedContentIsSearchable
<1> QED
  BY <1>1, PipelineInvariantHolds, PTL

-----------------------------------------------------------------------------
(* What SearchableNote promises                                                *)

\* Each version has one job, and none once it failed.
Apart(q, p) ==
    /\ \A i, k \in 1 .. Len(q) : q[i].version = q[k].version => i = k
    /\ \A i \in 1 .. Len(q), k \in 1 .. Len(p) : q[i].version /= p[k].version
JobsAreApart ==
    /\ Apart(queue, pass)
    /\ \A j \in Jobs : j.version \notin failed
    /\ \A v \in failed : v <= versions

\* The job at work is at the head of one of the two sequences.
LEMMA HeadApart ==
    ASSUME TypeOK, Apart(queue, pass), NEW q \in Running
    PROVE  /\ queue \in Seq(Job) /\ pass \in Seq(Job)
           /\ \/ /\ q = queue /\ queue /= << >>
                 /\ ~(pass /= << >> /\ Head(pass) = Head(q))
              \/ /\ q = pass /\ pass /= << >>
                 /\ ~(queue /= << >> /\ Head(queue) = Head(q))
<1>1. queue \in Seq(Job) /\ pass \in Seq(Job) /\ q \in {queue, pass} /\ q /= << >>
  BY DEF TypeOK, Running
<1>2. \A s \in Seq(Job) : s /= << >> => Len(s) \in Nat \ {0} /\ Head(s) = s[1]
  BY HeadTailProperties, EmptySeq
<1>3. queue /= << >> /\ pass /= << >> => Head(queue) /= Head(pass)
  BY <1>1, <1>2 DEF Apart
<1> QED
  BY <1>1, <1>3

\* When a job leaves, the others stay apart and none has its version.
LEMMA DropApart ==
    ASSUME TypeOK, Apart(queue, pass), NEW q \in Running, SetJob(Head(q), << >>)
    PROVE  /\ Apart(queue', pass')
           /\ \A k \in Jobs' : k.version /= Head(q).version
<1>1. /\ queue \in Seq(Job) /\ pass \in Seq(Job) /\ Len(pass) <= 1
      /\ \/ /\ q = queue /\ queue /= << >>
            /\ ~(pass /= << >> /\ Head(pass) = Head(q))
         \/ /\ q = pass /\ pass /= << >>
            /\ ~(queue /= << >> /\ Head(queue) = Head(q))
  BY HeadApart DEF TypeOK
<1>2. \A s \in Seq(Job) : s /= << >> =>
          /\ << >> \o Tail(s) = Tail(s) /\ Tail(s) \in Seq(Job)
          /\ Len(s) \in Nat \ {0} /\ Len(Tail(s)) = Len(s) - 1 /\ Head(s) = s[1]
          /\ \A i \in 1 .. Len(Tail(s)) : Tail(s)[i] = s[i + 1]
  BY HeadOrTail, ConcatEmptySeq, HeadTailProperties, EmptySeq
<1>3. CASE /\ q = queue /\ queue /= << >>
           /\ ~(pass /= << >> /\ Head(pass) = Head(q))
  <2>1. queue' = Tail(queue) /\ pass' = pass
    BY <1>1, <1>2, <1>3, Zenon DEF SetJob
  <2>2. /\ Len(queue) \in Nat \ {0} /\ Len(queue') = Len(queue) - 1 /\ Head(q) = queue[1]
        /\ \A i \in 1 .. Len(queue') : i + 1 \in 2 .. Len(queue) /\ queue'[i] = queue[i + 1]
    BY <1>1, <1>2, <1>3, <2>1
  <2>3. Apart(queue', pass')
    BY <2>1, <2>2 DEF Apart
  <2>4. \A k \in JobsOf(queue') : k.version /= queue[1].version
    BY <2>2 DEF Apart, JobsOf
  <2>5. \A k \in JobsOf(pass') : k.version /= queue[1].version
    BY <2>1, <2>2 DEF Apart, JobsOf
  <2> QED
    BY <2>2, <2>3, <2>4, <2>5 DEF Jobs
<1>4. CASE /\ q = pass /\ pass /= << >>
           /\ ~(queue /= << >> /\ Head(queue) = Head(q))
  <2>1. pass' = << >> /\ queue' = queue
    BY <1>1, <1>2, <1>4, Zenon DEF SetJob
  <2>2. /\ Len(pass) = 1 /\ Head(q) = pass[1]
        /\ Len(pass') = 0
    <3>1. Len(pass) = 1 /\ Head(pass) = pass[1]
      BY <1>4, PassIsOne, Zenon
    <3>2. Len(pass') = 0
      BY <2>1
    <3> QED
      BY <1>4, <3>1, <3>2, Zenon
  <2>3. Apart(queue', pass') /\ JobsOf(pass') = {}
    BY <2>1, <2>2 DEF Apart, JobsOf
  <2>4. \A k \in JobsOf(queue') : k.version /= pass[1].version
    BY <2>1, <2>2 DEF Apart, JobsOf
  <2> QED
    BY <2>2, <2>3, <2>4 DEF Jobs
<1> QED
  BY <1>1, <1>3, <1>4

\* A job that goes on keeps its version, and so its place.
LEMMA ReplaceApart ==
    ASSUME TypeOK, Apart(queue, pass), NEW q \in Running, NEW k \in Job,
           k.version = Head(q).version, SetJob(Head(q), << k >>)
    PROVE  Apart(queue', pass')
<1>1. /\ queue \in Seq(Job) /\ pass \in Seq(Job) /\ Len(pass) <= 1
      /\ \/ /\ q = queue /\ queue /= << >>
            /\ ~(pass /= << >> /\ Head(pass) = Head(q))
         \/ /\ q = pass /\ pass /= << >>
            /\ ~(queue /= << >> /\ Head(queue) = Head(q))
  BY HeadApart DEF TypeOK
<1>2. \A s \in Seq(Job) : s /= << >> =>
          /\ Len(s) \in Nat \ {0} /\ Head(s) = s[1]
          /\ Len(<< k >> \o Tail(s)) = Len(s)
          /\ \A i \in 1 .. Len(s) :
                 (<< k >> \o Tail(s))[i] = IF i = 1 THEN k ELSE s[i]
  <2> SUFFICES ASSUME NEW s \in Seq(Job), s /= << >>
               PROVE  /\ Len(s) \in Nat \ {0} /\ Head(s) = s[1]
                      /\ Len(<< k >> \o Tail(s)) = Len(s)
                      /\ \A i \in 1 .. Len(s) :
                             (<< k >> \o Tail(s))[i] = IF i = 1 THEN k ELSE s[i]
    OBVIOUS
  <2>1. /\ Len(s) \in Nat \ {0} /\ Head(s) = s[1] /\ Tail(s) \in Seq(Job)
        /\ Len(Tail(s)) = Len(s) - 1
        /\ \A i \in 1 .. Len(Tail(s)) : Tail(s)[i] = s[i + 1]
    BY HeadTailProperties, EmptySeq
  <2> DEFINE t == Tail(s)
  <2>2. t \in Seq(Job)
    BY <2>1
  <2> HIDE DEF t
  <2>3. /\ Len(<< k >> \o t) = Len(t) + 1
        /\ \A i \in 1 .. Len(t) + 1 : (<< k >> \o t)[i] = IF i = 1 THEN k ELSE t[i - 1]
    BY <2>2
  <2> QED
    BY <2>1, <2>3 DEF t
<1>3. CASE /\ q = queue /\ queue /= << >>
           /\ ~(pass /= << >> /\ Head(pass) = Head(q))
  <2>1. queue' = << k >> \o Tail(queue) /\ pass' = pass
    BY <1>1, <1>3, Zenon DEF SetJob
  <2>2. /\ Len(queue) \in Nat \ {0} /\ Len(queue') = Len(queue)
        /\ \A i \in 1 .. Len(queue) : queue'[i].version = queue[i].version
    BY <1>1, <1>2, <1>3, <2>1
  <2> QED
    BY <2>1, <2>2 DEF Apart
<1>4. CASE /\ q = pass /\ pass /= << >>
           /\ ~(queue /= << >> /\ Head(queue) = Head(q))
  <2>1. pass' = << k >> /\ queue' = queue
    BY <1>1, <1>4, Zenon DEF SetJob
  <2>2. Len(pass) = 1 /\ Head(pass) = pass[1]
    BY <1>1, <1>2, <1>4
  <2>3. /\ Len(pass') = Len(pass)
        /\ \A i \in 1 .. Len(pass) : pass'[i].version = pass[i].version
    BY <1>4, <2>1, <2>2
  <2>4. queue' = queue
    BY <2>1
  <2> QED
    BY <2>3, <2>4 DEF Apart
<1> QED
  BY <1>1, <1>3, <1>4

\* A source write makes a version no job has; a failed job leaves.
LEMMA ApartStep == PipelineInvariant /\ JobsAreApart /\ Next => JobsAreApart'
<1> SUFFICES ASSUME TypeOK, VersionsInOrder, ChunksInOrder, JobsAreApart, Next
             PROVE  JobsAreApart'
  BY DEF PipelineInvariant
<1> USE BoundsAssumption DEF JobsAreApart
<1>0. versions \in Nat /\ queue \in Seq(Job) /\ pass \in Seq(Job)
  BY DEF TypeOK
<1>1. ASSUME NEW content \in Contents, Upsert(content) PROVE JobsAreApart'
  <2> DEFINE j == NewJob(content)
  <2>1. /\ versions < MaxVersions /\ versions' = versions + 1
        /\ queue' = Append(queue, j) /\ UNCHANGED <<pass, failed>>
    BY <1>1 DEF Upsert
  <2>2. j \in Job /\ j.version = versions + 1
    BY <2>1, NewJobFields
  <2> HIDE DEF j
  <2>3. /\ Len(queue') = Len(queue) + 1 /\ Len(queue) \in Nat
        /\ \A i \in 1 .. Len(queue) : queue'[i] = queue[i]
        /\ queue'[Len(queue) + 1] = j
        /\ Jobs' = Jobs \union {j}
    BY <1>0, <2>1, <2>2, AppendJobs DEF Jobs
  <2>4. /\ \A i \in 1 .. Len(queue) : queue[i] \in Jobs
        /\ \A i \in 1 .. Len(pass) : pass[i] \in Jobs
    BY DEF Jobs, JobsOf
  <2>5. \A k \in Jobs : k.version \in Nat /\ k.version /= versions + 1
    BY <1>0, JobsTyped, JobFields DEF VersionsInOrder
  <2>6. Apart(queue', pass')
    <3>1. ASSUME NEW i \in 1 .. Len(queue'), NEW k \in 1 .. Len(queue'),
                 queue'[i].version = queue'[k].version
          PROVE  i = k
      BY <2>2, <2>3, <2>4, <2>5, <3>1 DEF Apart
    <3>2. ASSUME NEW i \in 1 .. Len(queue'), NEW k \in 1 .. Len(pass')
          PROVE  queue'[i].version /= pass'[k].version
      BY <2>1, <2>2, <2>3, <2>4, <2>5 DEF Apart
    <3> QED
      BY <3>1, <3>2 DEF Apart
  <2>7. \A v \in failed : v <= versions /\ v \in Nat
    BY DEF TypeOK
  <2> QED
    BY <1>0, <2>1, <2>2, <2>3, <2>6, <2>7
<1>2. CASE Remove
  BY <1>2 DEF Remove, Jobs, jobVars, historyVars
<1>3. ASSUME NEW q \in Running, StartJob(Head(q)) \/ EmbedReturns(Head(q)) PROVE JobsAreApart'
  <2>1. /\ UNCHANGED <<process, sourceVars, historyVars>>
        /\ Head(q) \in Jobs /\ Head(q) \in Job
        /\ \/ ~Current(Head(q)) /\ SetJob(Head(q), << >>) /\ UNCHANGED chunkVars
           \/ Current(Head(q)) /\ Works(Head(q))
    BY <1>3, TurnFields
  <2>2. UNCHANGED <<versions, failed>>
    BY <2>1 DEF sourceVars, historyVars
  <2>3. CASE SetJob(Head(q), << >>)
    BY <2>2, <2>3, DropApart, DropJob
  <2>4. ASSUME NEW k \in Job, GoesOn(Head(q), k) PROVE JobsAreApart'
    <3>1. k.version = Head(q).version /\ SetJob(Head(q), << k >>)
      BY <2>4 DEF GoesOn
    <3>2. Apart(queue', pass') /\ Jobs' \subseteq Jobs \union {k}
      BY <3>1, ReplaceApart, ReplaceJob
    <3> QED
      BY <2>1, <2>2, <3>1, <3>2
  <2> QED
    BY <2>1, <2>3, <2>4 DEF Works, Done
<1>4. ASSUME NEW q \in Running, EmbedFails(Head(q)) PROVE JobsAreApart'
  <2>1. /\ SetJob(Head(q), << >>) /\ failed' = failed \union {Head(q).version}
        /\ versions' = versions
    BY <1>4 DEF EmbedFails, sourceVars
  <2>2. Head(q) \in Jobs /\ Head(q).version <= versions
    BY RunningFields DEF VersionsInOrder
  <2>3. Jobs' \subseteq Jobs /\ Apart(queue', pass') /\ \A k \in Jobs' : k.version /= Head(q).version
    BY <2>1, DropApart, DropJob
  <2> QED
    BY <2>1, <2>2, <2>3
<1>5. CASE Lost
  <2>1. /\ queue' = << >> /\ pass' = << >> /\ Jobs' = {}
        /\ UNCHANGED <<versions, failed>>
    BY <1>5, FewJobs DEF Lost, Jobs, historyVars
  <2> QED
    BY <2>1 DEF Apart
<1>8. CASE RebuildStarts
  BY <1>8 DEF RebuildStarts, Jobs, jobVars, historyVars
<1>9. ASSUME NEW content \in Contents, RebuildIndexes(content) PROVE JobsAreApart'
  <2> DEFINE j == NewJob(content)
  <2>1. /\ versions < MaxVersions /\ versions' = versions + 1
        /\ pass' = << j >> /\ UNCHANGED <<queue, failed>>
    BY <1>9 DEF RebuildIndexes
  <2>2. j \in Job /\ j.version = versions + 1
    BY <2>1, NewJobFields
  <2> HIDE DEF j
  <2>3. /\ Len(pass') = 1 /\ pass'[1] = j
        /\ Jobs' \subseteq Jobs \union {j}
    BY <2>1, <2>2, FewJobs DEF Jobs
  <2>4. \A i \in 1 .. Len(queue) : queue[i] \in Jobs
    BY DEF Jobs, JobsOf
  <2>5. \A k \in Jobs : k.version \in Nat /\ k.version /= versions + 1
    BY <1>0, JobsTyped, JobFields DEF VersionsInOrder
  <2>6. Apart(queue', pass')
    BY <2>1, <2>2, <2>3, <2>4, <2>5 DEF Apart
  <2>7. \A v \in failed : v <= versions /\ v \in Nat
    BY DEF TypeOK
  <2> QED
    BY <1>0, <2>1, <2>2, <2>3, <2>6, <2>7
<1>10. CASE RebuildFindsNothing
  BY <1>10 DEF RebuildFindsNothing, Jobs, jobVars, sourceVars
<1>11. CASE RebuildSkips
  BY <1>11 DEF RebuildSkips, Jobs, jobVars, sourceVars
<1> QED
  BY <1>1, <1>2, <1>3, <1>4, <1>5, <1>8, <1>9, <1>10, <1>11
     DEF Next, SourceWrite, Rebuild, JobStep, Crashes, Crash, CrashInCleanup, CrashInLastTurn

\* A path that is indexed has not been left with what an earlier run stored.
LEMMA KeptStep == VersionsInOrder /\ (indexed => ~kept) /\ Next => (indexed => ~kept)'
<1> SUFFICES ASSUME VersionsInOrder, indexed => ~kept, Next PROVE (indexed => ~kept)'
  OBVIOUS
<1> USE DEF sourceVars, historyVars
<1>1. CASE SourceWrite
  BY <1>1 DEF SourceWrite, Upsert, Remove
<1>2. CASE Rebuild
  BY <1>2 DEF Rebuild, RebuildStarts, RebuildIndexes, RebuildFindsNothing, RebuildSkips,
     VersionsInOrder
<1>3. CASE JobStep
  BY <1>3 DEF JobStep, StartJob, EmbedReturns, EmbedFails
<1>4. CASE Crashes
  BY <1>4 DEF Crashes, Crash, CrashInCleanup, CrashInLastTurn, Lost
<1> QED
  BY <1>1, <1>2, <1>3, <1>4 DEF Next

PromiseInvariant ==
    /\ PipelineInvariant
    /\ JobsAreApart
    /\ indexed => ~kept

\* The invariant holds in every reachable state.
LEMMA PromiseInvariantHolds == Spec => []PromiseInvariant
<1>1. Init => JobsAreApart /\ (indexed => ~kept)
  <2> SUFFICES ASSUME Init PROVE JobsAreApart
    BY DEF Init
  <2>1. Len(queue) = 0 /\ Jobs = {} /\ failed = {}
    BY FewJobs DEF Init, Jobs
  <2> QED
    BY <2>1 DEF JobsAreApart, Apart
<1>2. PipelineInvariant /\ JobsAreApart /\ (indexed => ~kept) /\ [Next]_vars =>
          JobsAreApart' /\ (indexed => ~kept)'
  <2> SUFFICES ASSUME PipelineInvariant, JobsAreApart, indexed => ~kept, [Next]_vars
               PROVE  JobsAreApart' /\ (indexed => ~kept)'
    OBVIOUS
  <2>1. CASE Next
    BY <2>1, ApartStep, KeptStep DEF PipelineInvariant
  <2>2. CASE UNCHANGED vars
    BY <2>2 DEF vars, JobsAreApart, Apart, Jobs, sourceVars, jobVars, historyVars
  <2> QED
    BY <2>1, <2>2
<1> QED
  BY <1>1, <1>2, PipelineInvariantHolds, PTL DEF Spec, PromiseInvariant

\* Whether a job of the path's version is at work, now and after a step.
LEMMA AtWorkNow == TypeOK => (AtWork(version) <=> \E j \in Jobs : Current(j))
  BY AtWorkFields DEF Current
LEMMA AtWorkNext == TypeOK' => (AtWork(version)' <=> (\E j \in Jobs : Current(j))')
  BY AtWorkNow, PTL

\* While a job of the path's version is at work, the note is.
LEMMA CurrentFields ==
    ASSUME PromiseInvariant, NEW j \in Jobs, Current(j)
    PROVE  /\ Mode = "at work" /\ process = "up" /\ indexed /\ version \notin failed
           /\ Findable = source /\ source = j.content /\ j \in Job
<1>1. AtWork(version)
  BY AtWorkNow DEF PromiseInvariant, PipelineInvariant
<1>2. process = "up" /\ indexed /\ version \notin failed /\ source = j.content /\ j \in Job
  BY JobsTyped DEF PromiseInvariant, PipelineInvariant, JobsAreApart, VersionsInOrder, Current
<1> QED
  BY <1>1, <1>2 DEF Mode, Findable

\* Chunks of the source: what a turn stores is one more, or all there is.
LEMMA StoredIsPromised ==
    ASSUME NEW j \in Job, Findable = j.content
    PROVE  /\ Stored(j) = {vectors} \union Promised!OneMore
           /\ Promised!WholeSource = Padded(j.content)
<1>1. DOMAIN j.content = Chunks(j) /\ Len(j.content) \in Nat
  BY JobFields DEF Job, Contents, Chunks
<1>2. \A i \in Indices : i \in Chunks(j) <=> i <= Len(j.content)
  BY <1>1, BoundsAssumption DEF Chunks, Indices
<1>3. Stored(j) = {vectors} \union Promised!OneMore
  BY <1>1 DEF Stored, Promised!OneMore
<1>4. Promised!WholeSource = [i \in Indices |-> IF i \in Chunks(j) THEN j.content[i] ELSE NoText]
  BY <1>1 DEF Promised!WholeSource
<1>5. Padded(j.content) = [i \in Indices |-> IF i \in Chunks(j) THEN j.content[i] ELSE NoText]
  BY <1>2 DEF Padded
<1> QED
  BY <1>3, <1>4, <1>5

\* A note that is written is at work.
LEMMA WriteIsPromised ==
    ASSUME PromiseInvariant, TypeOK', NEW content \in Contents, process' = "up", indexed' = TRUE,
           source' = content, version' = versions + 1, UNCHANGED <<failed, vectors>>,
           \E j \in Jobs' : j.version = versions + 1
    PROVE  Promised!Index(content)
<1>1. AtWork(version)'
  BY AtWorkNext DEF Current
<1>2. version' \notin failed'
  <2>1. versions \in Nat /\ \A v \in failed : v <= versions
    BY DEF PromiseInvariant, JobsAreApart, PipelineInvariant, TypeOK
  <2> QED
    BY <2>1
<1>3. Mode' = "at work" /\ Findable' = content
  BY <1>1, <1>2 DEF Mode, Findable
<1> QED
  BY <1>3 DEF Promised!Index

\* The server goes down in a turn that stores at most one chunk.
LEMMA StopIsPromised ==
    ASSUME Lost, vectors' = vectors \/ (Mode = "at work" /\ vectors' \in Promised!OneMore)
    PROVE  Promised!Stop
<1>1. Mode' = "stopped" /\ Findable' = NoSource
  BY DEF Lost, Mode, Findable
<1> QED
  BY <1>1 DEF Promised!Stop

\* A turn or a failed call of a job that is not the path's changes nothing that shows.
LEMMA ObsoleteIsHidden ==
    ASSUME PromiseInvariant, TypeOK', NEW j \in Jobs, ~Current(j), SetJob(j, << >>),
           UNCHANGED <<process, sourceVars, vectors, kept>>,
           failed' = failed \/ failed' = failed \union {j.version}
    PROVE  UNCHANGED <<Mode, Findable, vectors>>
<1>1. Jobs' \subseteq Jobs /\ Jobs \subseteq Jobs' \union {j}
  BY DropJob DEF PromiseInvariant, PipelineInvariant
<1>2. UNCHANGED <<process, source, indexed, version, kept, vectors>>
  BY DEF sourceVars
<1>3. version' \in failed' <=> version \in failed
  BY <1>2 DEF Current
<1>4. AtWork(version)' <=> AtWork(version)
  BY <1>1, <1>2, AtWorkNow, AtWorkNext DEF Current, PromiseInvariant, PipelineInvariant
<1>5. Findable' = Findable
  BY <1>2 DEF Findable
<1>6. (indexed' <=> indexed) /\ (kept' <=> kept)
  BY <1>2
<1>7. Mode' = Mode
  BY <1>2, <1>3, <1>4, <1>6 DEF Mode
<1> QED
  BY <1>2, <1>5, <1>7

\* A turn of the path's job stores a chunk, or its last and all there is to find.
LEMMA TurnIsPromised ==
    ASSUME CrashBetweenDeletes = FALSE, PromiseInvariant, PipelineInvariant', NEW q \in Running,
           StartJob(Head(q)) \/ EmbedReturns(Head(q))
    PROVE  Promised!Embed \/ Promised!Finish \/ UNCHANGED Promised!vars
<1> DEFINE j == Head(q)
<1>1. TypeOK /\ TypeOK' /\ ChunksInOrder /\ vectors = hashes /\ vectors' = hashes'
  BY DEF PromiseInvariant, PipelineInvariant, VectorsMatch
<1>2. /\ UNCHANGED <<process, sourceVars, historyVars>> /\ j \in Jobs /\ j \in Job
      /\ \/ ~Current(j) /\ SetJob(j, << >>) /\ UNCHANGED chunkVars
         \/ Current(j) /\ Works(j)
  BY <1>1, TurnFields
<1>3. CASE ~Current(j)
  <2>1. SetJob(j, << >>) /\ UNCHANGED <<process, sourceVars, vectors, kept, failed>>
    BY <1>2, <1>3 DEF chunkVars, historyVars
  <2>2. UNCHANGED <<Mode, Findable, vectors>>
    BY <1>1, <1>2, <1>3, <2>1, ObsoleteIsHidden
  <2> QED
    BY <2>2 DEF Promised!vars
<1>4. CASE Current(j)
  <2>1. /\ Mode = "at work" /\ process = "up" /\ indexed /\ version \notin failed
        /\ Findable = j.content
    BY <1>2, <1>4, CurrentFields
  <2>2. UNCHANGED <<process, source, indexed, version, versions, kept, failed>>
    BY <1>2 DEF sourceVars, historyVars
  <2>3. Findable' = Findable
    BY <2>2 DEF Findable
  <2>4. CASE Done(j)
    <3>1. \A k \in Jobs' : k.version /= j.version
      BY <1>1, <2>4, DropApart DEF Done, PromiseInvariant, JobsAreApart
    <3>2. ~AtWork(version)'
      BY <1>1, <1>4, <2>2, <3>1, AtWorkNext DEF Current
    <3>3. Mode' = "searchable"
      BY <2>1, <2>2, <3>2 DEF Mode
    <3>4. vectors' = Promised!WholeSource
      BY <1>1, <1>2, <2>1, <2>4, StoredIsPromised DEF Done
    <3> QED
      BY <2>1, <2>3, <3>3, <3>4 DEF Promised!Finish
  <2>5. ASSUME vectors' \in Stored(j), NEW k \in Job, GoesOn(j, k)
        PROVE  Promised!Embed \/ UNCHANGED Promised!vars
    <3>1. k \in Jobs' /\ k.version = j.version
      BY <1>1, <2>5, ReplaceJob DEF GoesOn
    <3>2. AtWork(version)'
      BY <1>1, <1>4, <2>2, <3>1, AtWorkNext DEF Current
    <3>3. Mode' = "at work"
      BY <2>1, <2>2, <3>2 DEF Mode
    <3>4. vectors' = vectors \/ vectors' \in Promised!OneMore
      BY <1>2, <2>1, <2>5, StoredIsPromised
    <3> QED
      BY <2>1, <2>3, <3>3, <3>4 DEF Promised!Embed, Promised!vars
  <2> QED
    BY <1>2, <1>4, <2>4, <2>5 DEF Works
<1> QED
  BY <1>3, <1>4

\* Every step is one that SearchableNote allows, or shows nothing.
LEMMA StepIsPromised ==
    CrashBetweenDeletes = FALSE /\ PromiseInvariant /\ PromiseInvariant' /\ [Next]_vars =>
        [Promised!Next]_(Promised!vars)
<1> SUFFICES ASSUME CrashBetweenDeletes = FALSE, PromiseInvariant, PromiseInvariant', [Next]_vars
             PROVE  [Promised!Next]_(Promised!vars)
  OBVIOUS
<1>0. TypeOK /\ TypeOK' /\ VersionsInOrder /\ ChunksInOrder /\ PipelineInvariant'
  BY DEF PromiseInvariant, PipelineInvariant
<1>1. ASSUME NEW content \in Contents, Upsert(content) PROVE Promised!Index(content)
  <2>1. /\ process' = "up" /\ indexed' = TRUE /\ source' = content /\ version' = versions + 1
        /\ versions < MaxVersions
        /\ queue' = Append(queue, NewJob(content)) /\ UNCHANGED <<failed, vectors>>
    BY <1>1 DEF Upsert, chunkVars
  <2>2. NewJob(content) \in Jobs' /\ NewJob(content).version = versions + 1
    BY <1>0, <2>1, AppendJobs, NewJobFields DEF Jobs, TypeOK
  <2> QED
    BY <1>0, <2>1, <2>2, WriteIsPromised
<1>2. CASE Remove
  <2>1. process' = "up" /\ ~indexed' /\ ~kept' /\ vectors' = NoTexts
    BY <1>2 DEF Remove, historyVars, PromiseInvariant
  <2>2. Mode' = "absent" /\ Findable' = NoSource
    BY <2>1 DEF Mode, Findable
  <2> QED
    BY <2>1, <2>2 DEF Promised!Next, Promised!Vanish, Promised!NoVectors, NoTexts
<1>3. ASSUME NEW q \in Running, StartJob(Head(q)) \/ EmbedReturns(Head(q))
      PROVE  Promised!Embed \/ Promised!Finish \/ UNCHANGED Promised!vars
  BY <1>0, <1>3, TurnIsPromised
<1>4. ASSUME NEW q \in Running, EmbedFails(Head(q))
      PROVE  Promised!Fail \/ UNCHANGED Promised!vars
  <2> DEFINE j == Head(q)
  <2>1. /\ SetJob(j, << >>) /\ failed' = failed \union {j.version}
        /\ UNCHANGED <<process, sourceVars, vectors, kept>>
    BY <1>4 DEF EmbedFails, chunkVars
  <2>2. j \in Jobs
    BY <1>0, RunningFields
  <2> HIDE DEF j
  <2>3. CASE ~Current(j)
    <3>1. UNCHANGED <<Mode, Findable, vectors>>
      BY <1>0, <2>1, <2>2, <2>3, ObsoleteIsHidden
    <3> QED
      BY <3>1 DEF Promised!vars
  <2>4. CASE Current(j)
    <3>1. Mode = "at work" /\ process = "up" /\ indexed
      BY <2>2, <2>4, CurrentFields
    <3>2. UNCHANGED <<process, source, indexed, version>> /\ version \in failed'
      BY <2>1, <2>4 DEF sourceVars, Current
    <3>3. Mode' = "failed" /\ Findable' = Findable
      BY <3>1, <3>2 DEF Mode, Findable
    <3> QED
      BY <2>1, <3>1, <3>3 DEF Promised!Fail
  <2> QED
    BY <2>3, <2>4
<1>5. CASE Crash
  BY <1>5, StopIsPromised DEF Crash, chunkVars, Promised!Next
<1>6. CASE CrashInCleanup
  BY <1>6, StopIsPromised DEF CrashInCleanup, Promised!Next
<1>7. ASSUME NEW q \in Running, CrashInLastTurn(Head(q)) PROVE Promised!Stop
  <2> DEFINE j == Head(q)
  <2>1. Lost /\ Current(j) /\ vectors' \in Stored(j) /\ j \in Jobs
    BY <1>0, <1>7, LastTurnFields, RunningFields
  <2> HIDE DEF j
  <2>2. Mode = "at work" /\ Findable = j.content /\ j \in Job
    BY <2>1, CurrentFields
  <2> QED
    BY <2>1, <2>2, StoredIsPromised, StopIsPromised
<1>8. CASE RebuildStarts
  <2>1. process = "down" /\ process' = "rebuilding" /\ vectors' = vectors
    BY <1>8 DEF RebuildStarts, chunkVars
  <2> QED
    BY <2>1 DEF Promised!vars, Mode, Findable
<1>9. ASSUME NEW content \in Contents, RebuildIndexes(content) PROVE Promised!Index(content)
  <2>1. /\ process' = "up" /\ indexed' = TRUE /\ source' = content /\ version' = versions + 1
        /\ versions < MaxVersions
        /\ pass' = << NewJob(content) >> /\ UNCHANGED <<failed, vectors>>
    BY <1>9 DEF RebuildIndexes, chunkVars
  <2>2. NewJob(content) \in Jobs' /\ NewJob(content).version = versions + 1
    BY <1>0, <2>1, FewJobs, NewJobFields DEF Jobs
  <2> QED
    BY <1>0, <2>1, <2>2, WriteIsPromised
<1>10. CASE RebuildFindsNothing
  <2>1. process' = "up" /\ ~indexed' /\ ~kept' /\ vectors' = NoTexts
    BY <1>0, <1>10 DEF RebuildFindsNothing, sourceVars, VersionsInOrder
  <2>2. Mode' = "absent" /\ Findable' = NoSource
    BY <2>1 DEF Mode, Findable
  <2> QED
    BY <2>1, <2>2 DEF Promised!Next, Promised!Vanish, Promised!NoVectors, NoTexts
<1>11. CASE RebuildSkips
  <2>1. /\ process = "rebuilding" /\ process' = "up" /\ ~indexed /\ ~indexed' /\ kept'
        /\ vectors' = vectors
    BY <1>0, <1>11 DEF RebuildSkips, sourceVars, chunkVars, VersionsInOrder
  <2>2. Mode = "stopped" /\ Mode' = "left" /\ Findable' = Findable
    BY <2>1 DEF Mode, Findable
  <2> QED
    BY <2>1, <2>2 DEF Promised!Next, Promised!Leave
<1>12. CASE UNCHANGED vars
  BY <1>12 DEF vars, sourceVars, jobVars, chunkVars, historyVars, Mode, Findable, AtWork,
     Promised!vars
<1>13. CASE SourceWrite
  BY <1>1, <1>2, <1>13 DEF SourceWrite, Promised!Next
<1>14. CASE Rebuild
  BY <1>8, <1>9, <1>10, <1>11, <1>14 DEF Rebuild, Promised!Next
<1>15. CASE JobStep
  BY <1>3, <1>4, <1>15 DEF JobStep, Promised!Next
<1>16. CASE Crashes
  BY <1>5, <1>6, <1>7, <1>16 DEF Crashes, Promised!Next
<1> QED
  BY <1>12, <1>13, <1>14, <1>15, <1>16 DEF Next

\* Versions, queues, hashes and the two kinds of job implement what a search may rely
\* on: vectors move to the indexed content and to no other, stay once they are all
\* there or the model failed, and go with the note (isCurrentSourceVersion,
\* embedAndStoreChunks, removeNote). Again no crash may fall between two DELETEs.
THEOREM EmbeddingImplementsSearchableNote ==
    CrashBetweenDeletes = FALSE => (Spec => ImplementsSearchableNote)
<1> SUFFICES ASSUME CrashBetweenDeletes = FALSE PROVE Spec => ImplementsSearchableNote
  OBVIOUS
<1>1. Init => Promised!Init
  BY DEF Init, Mode, Findable, Promised!Init, Promised!NoVectors, NoTexts
<1>2. PromiseInvariant /\ PromiseInvariant' /\ [Next]_vars => [Promised!Next]_(Promised!vars)
  BY StepIsPromised
<1> QED
  BY <1>1, <1>2, PromiseInvariantHolds, PTL DEF Spec, ImplementsSearchableNote, Promised!Spec
=============================================================================
