-------------------------- MODULE AtomicFileUpdates --------------------------
(* What the write locks promise their callers (utils/file-write-lock.ts 1-23),  *)
(* with no lock map, promise, queue or half-written state in sight.  Each       *)
(* operation that resolves is one step on all the files it named; operations    *)
(* with a file in common work one at a time, in the order they were asked for.  *)
(* An operation that throws may leave its update in some of its files: nothing  *)
(* in the code undoes a write.                                                  *)
EXTENDS Naturals

CONSTANTS Ops, Files

VARIABLES
    stage,      \* operation -> "new", "asked", "working", "done" or "failed"
    named,      \* operation -> the files it named
    turn,       \* operation -> its place in the order of the calls
    calls,      \* calls made so far
    content     \* file -> the operations whose update the file holds

vars == <<stage, named, turn, calls, content>>

Init ==
    /\ stage = [op \in Ops |-> "new"]
    /\ named = [op \in Ops |-> {}]
    /\ turn = [op \in Ops |-> 0]
    /\ calls = 0
    /\ content = [f \in Files |-> {}]

Ask(op, fs) ==
    /\ stage[op] = "new"
    /\ stage' = [stage EXCEPT ![op] = "asked"]
    /\ named' = [named EXCEPT ![op] = fs]
    /\ turn' = [turn EXCEPT ![op] = calls]
    /\ calls' = calls + 1
    /\ UNCHANGED content

\* Nobody works on a file it names, and nobody asked for one before.
Begin(op) ==
    /\ stage[op] = "asked"
    /\ \A other \in Ops \ {op} :
           named[op] \intersect named[other] /= {} =>
               /\ stage[other] /= "working"
               /\ stage[other] = "asked" => turn[op] < turn[other]
    /\ stage' = [stage EXCEPT ![op] = "working"]
    /\ UNCHANGED <<named, turn, calls, content>>

\* The update of the files fs: each keeps every earlier update.
Update(op, fs) ==
    content' = [f \in Files |-> content[f] \union (IF f \in fs THEN {op} ELSE {})]

\* The operation resolves: its update is in all of its files at once.
Commit(op) ==
    /\ stage[op] = "working"
    /\ stage' = [stage EXCEPT ![op] = "done"]
    /\ Update(op, named[op])
    /\ UNCHANGED <<named, turn, calls>>

\* It throws, with its update in those of its files it had written.
Abandon(op, fs) ==
    /\ stage[op] = "working"
    /\ fs \subseteq named[op]
    /\ stage' = [stage EXCEPT ![op] = "failed"]
    /\ Update(op, fs)
    /\ UNCHANGED <<named, turn, calls>>

Next ==
    \E op \in Ops :
        \/ \E fs \in SUBSET Files : Ask(op, fs) \/ Abandon(op, fs)
        \/ Begin(op)
        \/ Commit(op)

Spec == Init /\ [][Next]_vars
=============================================================================
