---------------------------- MODULE FileWriteLock ----------------------------
(* The per-file write locks every vault write goes through                      *)
(* (src/utils/file-write-lock.ts): one map from a folded path to the promise of *)
(* that file's most recent write, a queueing mode (withFileLock) and a fail-fast *)
(* mode over one or several files (withExclusive[Multi]FileLock).               *)
(*                                                                             *)
(* One step is one turn of the event loop that touches the map or a file.  The *)
(* promise reactions of a settled write run in registration order, so the      *)
(* clean-up that cleanupAfterWrite registers in the call itself always runs    *)
(* before a later write queued behind it starts, and the clean-ups of all keys *)
(* of one write run back to back: Forget is one step, and Start waits for it.  *)
EXTENDS Naturals

CONSTANTS
    Ops,        \* calls of the three lock helpers, each made once
    Paths,      \* spellings of file paths callers pass
    Keys,       \* folded lock keys
    Files,      \* files on disk
    LockKey,    \* lockKeyForPath: path -> key
    FileOf,     \* the file a path reaches
    NoOp        \* "no promise": an absent map entry, an empty predecessor

ASSUME NoOpAssumption == NoOp \notin Ops

ASSUME PathAssumption ==
    /\ LockKey \in [Paths -> Keys]
    /\ FileOf \in [Paths -> Files]

\* Lines 34-43: two spellings of one file fold to one key.  A second name of a
\* file through a symbolic link is outside it: resolve() does not follow links.
ASSUME FoldAssumption ==
    \A p, q \in Paths : FileOf[p] = FileOf[q] => LockKey[p] = LockKey[q]

VARIABLES
    tail,       \* fileWriteLocks: key -> the last accepted write, or NoOp
    phase,      \* where each call is in its life
    target,     \* the paths each call named
    prev,       \* the write each queued call waits for (previousWrite)
    seen,       \* what each operation read from each file
    content,    \* file -> the operations whose update it holds
    acked,      \* operations that resolved
    ticket,     \* history: the order in which calls were accepted
    clock       \* history: calls accepted so far

lockVars == <<tail, phase, target, prev, ticket, clock>>
dataVars == <<seen, content, acked>>
vars == <<tail, phase, target, prev, seen, content, acked, ticket, clock>>

Phases == {"uncalled", "queued", "running", "settled", "forgotten", "rejected"}

\* A file an operation has not read: no set of operations.
Unread == {NoOp}

KeysOf(op) == {LockKey[p] : p \in target[op]}
FilesOf(op) == {FileOf[p] : p \in target[op]}

\* A call whose promise is still in the chain: accepted, clean-up not yet run.
Live(op) == phase[op] \in {"queued", "running", "settled"}

Begun(op) == phase[op] \in {"running", "settled", "forgotten"}

-----------------------------------------------------------------------------
(* Calls                                                                       *)

Init ==
    /\ tail = [k \in Keys |-> NoOp]
    /\ phase = [op \in Ops |-> "uncalled"]
    /\ target = [op \in Ops |-> {}]
    /\ prev = [op \in Ops |-> NoOp]
    /\ seen = [op \in Ops |-> [f \in Files |-> Unread]]
    /\ content = [f \in Files |-> {}]
    /\ acked = {}
    /\ ticket = [op \in Ops |-> 0]
    /\ clock = 0

\* The promise is chained and becomes the tail of its keys, in one tick.
Accept(op, paths, previous) ==
    /\ phase' = [phase EXCEPT ![op] = "queued"]
    /\ target' = [target EXCEPT ![op] = paths]
    /\ prev' = [prev EXCEPT ![op] = previous]
    /\ tail' = [k \in Keys |->
                    IF k \in {LockKey[p] : p \in paths} THEN op ELSE tail[k]]
    /\ ticket' = [ticket EXCEPT ![op] = clock]
    /\ clock' = clock + 1

\* Mutants of the code, one per way to break a property; no specification here
\* uses them.  This one forgets to chain behind the previous write.
CallSerialUnchained(op, path) ==
    /\ phase[op] = "uncalled"
    /\ Accept(op, {path}, NoOp)
    /\ UNCHANGED dataVars

\* withFileLock: queue behind the file's most recent write.
CallSerial(op, path) ==
    /\ phase[op] = "uncalled"
    /\ Accept(op, {path}, tail[LockKey[path]])
    /\ UNCHANGED dataVars

\* Mutant: locks without looking for a write in flight.
CallExclusiveUnchecked(op, paths) ==
    /\ phase[op] = "uncalled"
    /\ Accept(op, paths, NoOp)
    /\ UNCHANGED dataVars

\* Mutant: content to find one of its keys free.
CallExclusiveAnyFree(op, paths) ==
    /\ phase[op] = "uncalled"
    /\ \E p \in paths : tail[LockKey[p]] = NoOp
    /\ Accept(op, paths, NoOp)
    /\ UNCHANGED dataVars

\* withExclusiveMultiFileLock; withExclusiveFileLock is its one-path case.
CallExclusive(op, paths) ==
    /\ phase[op] = "uncalled"
    /\ \A p \in paths : tail[LockKey[p]] = NoOp
    /\ Accept(op, paths, NoOp)
    /\ UNCHANGED dataVars

\* The same call with a write in flight on any of its keys: it throws and
\* leaves the map alone.
RejectExclusive(op, paths) ==
    /\ phase[op] = "uncalled"
    /\ \E p \in paths : tail[LockKey[p]] /= NoOp
    /\ phase' = [phase EXCEPT ![op] = "rejected"]
    /\ UNCHANGED <<tail, target, prev, ticket, clock, dataVars>>

-----------------------------------------------------------------------------
(* The operation, as its callers write it: read inside the lock, write back    *)
(* what was read plus its own change, one file at a time.                      *)

\* Mutant: starts while the previous write still runs.
StartEarly(op) ==
    /\ phase[op] = "queued"
    /\ phase' = [phase EXCEPT ![op] = "running"]
    /\ UNCHANGED <<tail, target, prev, ticket, clock, dataVars>>

\* Mutant: .then(operation) without the second handler, so that a failed write
\* makes the ones behind it skip their turn.
StartAfterSuccess(op) ==
    /\ phase[op] = "queued"
    /\ prev[op] /= NoOp => phase[prev[op]] = "forgotten" /\ prev[op] \in acked
    /\ phase' = [phase EXCEPT ![op] = "running"]
    /\ UNCHANGED <<tail, target, prev, ticket, clock, dataVars>>

\* The previous write settled either way and its clean-up ran.
Start(op) ==
    /\ phase[op] = "queued"
    /\ prev[op] /= NoOp => phase[prev[op]] = "forgotten"
    /\ phase' = [phase EXCEPT ![op] = "running"]
    /\ UNCHANGED <<tail, target, prev, ticket, clock, dataVars>>

ReadFile(op, f) ==
    /\ phase[op] = "running"
    /\ f \in FilesOf(op)
    /\ seen[op][f] = Unread
    /\ seen' = [seen EXCEPT ![op][f] = content[f]]
    /\ UNCHANGED <<lockVars, content, acked>>

\* Mutant: does not await its read, and lands a text made from no content.
WriteFileUnread(op, f) ==
    /\ phase[op] = "running"
    /\ f \in FilesOf(op)
    /\ op \notin content[f]
    /\ content' = [content EXCEPT ![f] = seen[op][f] \union {op}]
    /\ UNCHANGED <<lockVars, seen, acked>>

\* atomicWriteFile: the rename lands the whole new text at once.
WriteFile(op, f) ==
    /\ phase[op] = "running"
    /\ f \in FilesOf(op)
    /\ seen[op][f] /= Unread
    /\ op \notin content[f]
    /\ content' = [content EXCEPT ![f] = seen[op][f] \union {op}]
    /\ UNCHANGED <<lockVars, seen, acked>>

Resolve(op) ==
    /\ phase[op] = "running"
    /\ \A f \in FilesOf(op) : op \in content[f]
    /\ phase' = [phase EXCEPT ![op] = "settled"]
    /\ acked' = acked \union {op}
    /\ UNCHANGED <<tail, target, prev, ticket, clock, seen, content>>

\* The operation throws, possibly with some of its files already written.
Throw(op) ==
    /\ phase[op] = "running"
    /\ phase' = [phase EXCEPT ![op] = "settled"]
    /\ UNCHANGED <<tail, target, prev, ticket, clock, dataVars>>

\* Mutant: deletes the entry of every key it held, tail or not.
ForgetAlways(op) ==
    /\ phase[op] = "settled"
    /\ phase' = [phase EXCEPT ![op] = "forgotten"]
    /\ tail' = [k \in Keys |-> IF k \in KeysOf(op) THEN NoOp ELSE tail[k]]
    /\ UNCHANGED <<target, prev, ticket, clock, dataVars>>

\* cleanupAfterWrite: the entry goes only while this write is still the tail.
Forget(op) ==
    /\ phase[op] = "settled"
    /\ phase' = [phase EXCEPT ![op] = "forgotten"]
    /\ tail' = [k \in Keys |-> IF tail[k] = op THEN NoOp ELSE tail[k]]
    /\ UNCHANGED <<target, prev, ticket, clock, dataVars>>

-----------------------------------------------------------------------------
Call(op) ==
    \/ \E p \in Paths : CallSerial(op, p)
    \/ \E ps \in SUBSET Paths \ {{}} :
           CallExclusive(op, ps) \/ RejectExclusive(op, ps)

Run(op) ==
    \/ Start(op)
    \/ \E f \in Files : ReadFile(op, f) \/ WriteFile(op, f)
    \/ Resolve(op)
    \/ Throw(op)
    \/ Forget(op)

Next == \E op \in Ops : Call(op) \/ Run(op)

Spec == Init /\ [][Next]_vars

\* The event loop runs every ready reaction, and a file operation comes back.
\* Nobody is obliged to make a call.
FairSpec == Spec /\ \A op \in Ops : WF_vars(Run(op))

-----------------------------------------------------------------------------
(* Properties                                                                  *)

\* Every variable has its type.
TypeOK ==
    /\ tail \in [Keys -> Ops \union {NoOp}]
    /\ phase \in [Ops -> Phases]
    /\ target \in [Ops -> SUBSET Paths]
    /\ prev \in [Ops -> Ops \union {NoOp}]
    /\ seen \in [Ops -> [Files -> (SUBSET Ops) \union {Unread}]]
    /\ content \in [Files -> SUBSET Ops]
    /\ acked \subseteq Ops
    /\ ticket \in [Ops -> Nat]
    /\ clock \in Nat

\* No two operations work on one file at the same time, whatever modes and
\* spellings their callers used (lines 1-3, 17-23).
MutualExclusion ==
    \A a, b \in Ops :
        /\ a /= b
        /\ phase[a] = "running"
        /\ phase[b] = "running"
        => FilesOf(a) \intersect FilesOf(b) = {}

\* Operations on one key run in the order their calls were made: one that has
\* left the queue has every earlier one's clean-up behind it (lines 56-59).
CallOrder ==
    \A a, b \in Ops :
        /\ Live(a)
        /\ Begun(b)
        /\ KeysOf(a) \intersect KeysOf(b) /= {}
        => ticket[b] <= ticket[a]

\* The map holds a key exactly while a write on it is in flight: a finished,
\* failed or rejected call never leaves a file locked, and a busy file is never
\* shown free (lines 28-31, 74-76).
MapHoldsWritesInFlight ==
    \A k \in Keys :
        (tail[k] = NoOp) <=> ~ \E op \in Ops : Live(op) /\ k \in KeysOf(op)

\* The update of an operation that resolved is in all of its files for good: no
\* write based on an older read takes it out (lines 36-37, 101-104).
AckedUpdatesSurvive ==
    \A op \in acked : \A f \in FilesOf(op) : op \in content[f]

\* Every accepted call comes to its end: no cycle of waits, no lost wake-up, and
\* a throwing operation does not block the ones behind it (lines 56-59, 76-77).
EveryCallEnds ==
    \A op \in Ops : phase[op] = "queued" ~> phase[op] = "forgotten"

-----------------------------------------------------------------------------
(* The abstract specification                                                  *)

\* What the caller of an operation can tell of it.
StageOf(op) ==
    CASE phase[op] = "queued" -> "asked"
      [] phase[op] = "running" -> "working"
      [] phase[op] \in {"settled", "forgotten"} -> IF op \in acked THEN "done" ELSE "failed"
      [] OTHER -> "new"

\* A file's content without the updates of the operation still at work on it.
CommittedContent(f) == {op \in content[f] : phase[op] /= "running"}

Abstract == INSTANCE AtomicFileUpdates WITH
    stage <- [op \in Ops |-> StageOf(op)],
    named <- [op \in Ops |-> FilesOf(op)],
    turn <- ticket,
    calls <- clock,
    content <- [f \in Files |-> CommittedContent(f)]

\* To its callers an operation is one step on all the files it names, in the
\* order of the calls; only one that throws may leave its update in some of them.
ImplementsAtomicFileUpdates == Abstract!Spec

-----------------------------------------------------------------------------
(* The inductive invariant                                                     *)

TicketsInOrder ==
    \A a \in Ops :
        /\ Live(a) \/ Begun(a) => ticket[a] < clock
        /\ \A b \in Ops : Live(a) /\ Live(b) /\ ticket[a] = ticket[b] => a = b

\* The tail is the youngest live write of its key.
TailIsYoungest ==
    \A k \in Keys :
        /\ tail[k] /= NoOp => Live(tail[k]) /\ k \in KeysOf(tail[k])
        /\ \A a \in Ops :
               Live(a) /\ k \in KeysOf(a) =>
                   tail[k] /= NoOp /\ ticket[a] <= ticket[tail[k]]

\* Of two live writes with a key in common the younger is queued, on that key
\* alone, behind the older or behind one in between.
QueuedBehindOlder ==
    \A a, b \in Ops :
        /\ Live(a) /\ Live(b)
        /\ ticket[a] < ticket[b]
        /\ KeysOf(a) \intersect KeysOf(b) /= {}
        => /\ phase[b] = "queued"
           /\ prev[b] /= NoOp
           /\ Live(prev[b])
           /\ KeysOf(b) \subseteq KeysOf(prev[b])
           /\ ticket[a] <= ticket[prev[b]]

\* A running operation's reads are current until it writes the file itself, and
\* one that has not run yet has written and read nothing.
ReadsAreCurrent ==
    \A op \in Ops :
        /\ phase[op] = "running" =>
               \A f \in FilesOf(op) :
                   seen[op][f] /= Unread /\ op \notin content[f] => seen[op][f] = content[f]
        /\ phase[op] \in {"uncalled", "queued", "rejected"} =>
               /\ \A f \in Files : seen[op][f] = Unread
               /\ op \notin acked

\* A file holds updates only of operations that named it and have begun.
UpdatesWereNamed ==
    \A f \in Files : \A op \in content[f] : Begun(op) /\ f \in FilesOf(op)

\* What resolved is over.
AckedHaveEnded ==
    \A op \in acked : phase[op] \in {"settled", "forgotten"}

LockInv ==
    /\ TicketsInOrder
    /\ TailIsYoungest
    /\ QueuedBehindOlder
    /\ CallOrder

IInv ==
    /\ TypeOK
    /\ LockInv
    /\ ReadsAreCurrent
    /\ UpdatesWereNamed
    /\ AckedHaveEnded
    /\ AckedUpdatesSurvive
=============================================================================
