------------------------- MODULE FileWriteLockProofs -------------------------
(* What the write locks guarantee for any number of calls, paths and files.    *)
EXTENDS FileWriteLock, TLAPS

USE NoOpAssumption, PathAssumption

-----------------------------------------------------------------------------
(* Type correctness                                                            *)

\* The initial state has its types.
LEMMA InitType == Init => TypeOK
  BY DEF Init, TypeOK, Phases, Unread

\* A step keeps every variable in its type.
LEMMA NextType == TypeOK /\ [Next]_vars => TypeOK'
<1> SUFFICES ASSUME TypeOK, [Next]_vars PROVE TypeOK'
  OBVIOUS
<1> USE DEF TypeOK, Phases
<1>1. ASSUME NEW op \in Ops, NEW p \in Paths, CallSerial(op, p) PROVE TypeOK'
  <2>1. tail[LockKey[p]] \in Ops \union {NoOp}
    OBVIOUS
  <2> QED
    BY <1>1, <2>1 DEF CallSerial, Accept, dataVars
<1>2. ASSUME NEW op \in Ops, NEW ps \in SUBSET Paths, CallExclusive(op, ps)
      PROVE TypeOK'
  BY <1>2 DEF CallExclusive, Accept, dataVars
<1>3. ASSUME NEW op \in Ops, NEW ps \in SUBSET Paths, RejectExclusive(op, ps)
      PROVE TypeOK'
  BY <1>3 DEF RejectExclusive, dataVars
<1>4. ASSUME NEW op \in Ops, Start(op) PROVE TypeOK'
  BY <1>4 DEF Start, dataVars
<1>5. ASSUME NEW op \in Ops, NEW f \in Files, ReadFile(op, f) PROVE TypeOK'
  BY <1>5 DEF ReadFile, lockVars
<1>6. ASSUME NEW op \in Ops, NEW f \in Files, WriteFile(op, f) PROVE TypeOK'
  <2>1. seen[op][f] \in SUBSET Ops
    BY <1>6 DEF WriteFile
  <2> QED
    BY <1>6, <2>1 DEF WriteFile, lockVars
<1>7. ASSUME NEW op \in Ops, Resolve(op) PROVE TypeOK'
  BY <1>7 DEF Resolve
<1>8. ASSUME NEW op \in Ops, Throw(op) PROVE TypeOK'
  BY <1>8 DEF Throw, dataVars
<1>9. ASSUME NEW op \in Ops, Forget(op) PROVE TypeOK'
  BY <1>9 DEF Forget, dataVars
<1>10. CASE UNCHANGED vars
  BY <1>10 DEF vars
<1> QED
  BY <1>1, <1>2, <1>3, <1>4, <1>5, <1>6, <1>7, <1>8, <1>9, <1>10
     DEF Next, Call, Run

\* Every reachable state of the lock map and the files it guards is well typed.
THEOREM TypeCorrect == Spec => []TypeOK
  BY InitType, NextType, PTL DEF Spec
-----------------------------------------------------------------------------
(* The lock map                                                                *)

\* Where the map's invariant can break: a call is accepted, starts, settles or
\* is forgotten.  The four facts below are its four kinds of step.
LEMMA AcceptKeepsLockInv ==
  ASSUME TypeOK, LockInv, NEW b \in Ops, NEW ps \in SUBSET Paths,
         NEW q \in Ops \union {NoOp}, phase[b] = "uncalled", Accept(b, ps, q),
         q = NoOp => \A p \in ps : tail[LockKey[p]] = NoOp,
         q /= NoOp => \E p \in Paths : ps = {p} /\ q = tail[LockKey[p]]
  PROVE  LockInv'
<1> DEFINE NewKeys == {LockKey[p] : p \in ps}
<1> USE DEF TypeOK, Live, Begun
<1>1. /\ phase'[b] = "queued" /\ ~Live(b) /\ ~Begun(b) /\ Live(b)' /\ ~Begun(b)'
      /\ KeysOf(b)' = NewKeys
      /\ prev'[b] = q
      /\ ticket'[b] = clock
  BY DEF Accept, Live, Begun, KeysOf, Phases
<1>2. ASSUME NEW a \in Ops, a /= b
      PROVE  /\ Live(a)' <=> Live(a)
             /\ Begun(a)' <=> Begun(a)
             /\ phase'[a] = phase[a]
             /\ KeysOf(a)' = KeysOf(a)
             /\ prev'[a] = prev[a]
             /\ ticket'[a] = ticket[a]
  BY <1>2 DEF Accept, Live, Begun, KeysOf
<1>3. \A k \in Keys : tail'[k] = IF k \in NewKeys THEN b ELSE tail[k]
  BY DEF Accept
<1>4. clock' = clock + 1 /\ clock \in Nat /\ ticket \in [Ops -> Nat]
  BY DEF Accept
<1>5. \A a \in Ops : Live(a) \/ Begun(a) => ticket[a] < clock
  BY DEF LockInv, TicketsInOrder
<1>6. TicketsInOrder'
  <2>1. ASSUME NEW a \in Ops, Live(a)' \/ Begun(a)' PROVE ticket'[a] < clock'
    <3>1. CASE a = b
      BY <3>1, <1>1, <1>4
    <3>2. CASE a /= b
      <4>1. ticket[a] < clock /\ ticket'[a] = ticket[a] /\ ticket[a] \in Nat
        BY <2>1, <3>2, <1>2, <1>5
      <4> QED
        BY <4>1, <1>4
    <3> QED
      BY <3>1, <3>2
  <2>2. ASSUME NEW a \in Ops, NEW c \in Ops, Live(a)', Live(c)', ticket'[a] = ticket'[c]
        PROVE  a = c
    <3>1. CASE a /= b /\ c /= b
      BY <2>2, <3>1, <1>2 DEF LockInv, TicketsInOrder
    <3>2. ASSUME NEW d \in Ops, d /= b, Live(d)' PROVE ticket'[d] < ticket'[b]
      BY <3>2, <1>1, <1>2, <1>5
    <3> QED
      BY <2>2, <3>1, <3>2, <1>1, <1>4
  <2> QED
    BY <2>1, <2>2 DEF TicketsInOrder
<1>7. TailIsYoungest'
  <2> SUFFICES ASSUME NEW k \in Keys
               PROVE  /\ tail'[k] /= NoOp => Live(tail[k])' /\ k \in KeysOf(tail[k])'
                      /\ \A a \in Ops :
                             Live(a)' /\ k \in KeysOf(a)' =>
                               tail'[k] /= NoOp /\ (ticket[a] <= ticket[tail[k]])'
    BY DEF TailIsYoungest
  <2>1. CASE k \in NewKeys
    <3>1. tail'[k] = b
      BY <2>1, <1>3
    <3>2. ASSUME NEW a \in Ops, Live(a)' PROVE ticket'[a] <= ticket'[b]
      <4>1. CASE a = b
        BY <4>1, <1>1, <1>4
      <4>2. CASE a /= b
        BY <3>2, <4>2, <1>1, <1>2, <1>4, <1>5
      <4> QED
        BY <4>1, <4>2
    <3>3. /\ phase'[b] = "queued" /\ k \in {LockKey[p] : p \in target'[b]}
          /\ b /= NoOp
      BY <2>1, <1>1, NoOpAssumption DEF KeysOf
    <3>4. \A a \in Ops : Live(a)' /\ k \in KeysOf(a)' =>
                           tail'[k] /= NoOp /\ (ticket[a] <= ticket[tail[k]])'
      BY <3>1, <3>2, <3>3
    <3> QED
      BY <3>1, <3>3, <3>4 DEF KeysOf
  <2>2. CASE k \notin NewKeys
    <3>1. tail'[k] = tail[k]
      BY <2>2, <1>3
    <3>2. tail[k] /= NoOp => tail[k] \in Ops /\ tail[k] /= b
      BY <1>1 DEF LockInv, TailIsYoungest
    <3>3. /\ tail[k] /= NoOp => Live(tail[k]) /\ k \in KeysOf(tail[k])
          /\ \A a \in Ops :
                 Live(a) /\ k \in KeysOf(a) =>
                   tail[k] /= NoOp /\ ticket[a] <= ticket[tail[k]]
      BY DEF LockInv, TailIsYoungest
    <3>4. ASSUME tail[k] /= NoOp PROVE Live(tail[k])' /\ k \in KeysOf(tail[k])'
      <4>1. PICK y \in Ops : y = tail[k]
        BY <3>4, <3>2
      <4>2. Live(y)' /\ k \in KeysOf(y)'
        BY <4>1, <3>2, <3>3, <3>4, <1>2
      <4> QED
        BY <4>1, <4>2, <3>1 DEF KeysOf
    <3>5. ASSUME NEW a \in Ops, Live(a)', k \in KeysOf(a)'
          PROVE  tail'[k] /= NoOp /\ (ticket[a] <= ticket[tail[k]])'
      <4>1. a /= b
        BY <3>5, <2>2, <1>1
      <4>2. Live(a) /\ k \in KeysOf(a) /\ ticket'[a] = ticket[a]
        BY <3>5, <4>1, <1>2
      <4>3. tail[k] /= NoOp /\ ticket[a] <= ticket[tail[k]]
        BY <4>2, <3>3
      <4> QED
        BY <4>2, <4>3, <3>1, <3>2, <1>2
    <3> QED
      BY <3>1, <3>4, <3>5
  <2> QED
    BY <2>1, <2>2
<1>8. QueuedBehindOlder'
  <2> SUFFICES ASSUME NEW a \in Ops, NEW c \in Ops, Live(a)', Live(c)',
                      ticket'[a] < ticket'[c],
                      KeysOf(a)' \intersect KeysOf(c)' /= {}
               PROVE  /\ phase'[c] = "queued"
                      /\ prev'[c] /= NoOp
                      /\ Live(prev[c])'
                      /\ KeysOf(c)' \subseteq KeysOf(prev[c])'
                      /\ (ticket[a] <= ticket[prev[c]])'
    BY DEF QueuedBehindOlder
  <2>1. a /= b
    BY <1>1, <1>2, <1>4, <1>5
  <2>2. Live(a) /\ KeysOf(a)' = KeysOf(a) /\ ticket'[a] = ticket[a]
    BY <2>1, <1>2
  <2>3. CASE c = b
    <3>1. PICK k \in Keys : k \in KeysOf(a) /\ k \in NewKeys
      BY <2>2, <2>3, <1>1, PathAssumption
    <3>2. tail[k] /= NoOp /\ tail[k] \in Ops /\ Live(tail[k]) /\ k \in KeysOf(tail[k])
          /\ ticket[a] <= ticket[tail[k]]
      BY <3>1, <2>2 DEF LockInv, TailIsYoungest
    <3>3. q /= NoOp
      BY <3>1, <3>2
    <3>4. q = tail[k] /\ NewKeys = {k}
      BY <3>1, <3>3
    <3>5. q /= b
      BY <3>2, <3>4, <1>1
    <3> QED
      BY <2>2, <2>3, <3>2, <3>3, <3>4, <3>5, <1>1, <1>2
  <2>4. CASE c /= b
    <3>1. /\ Live(c) /\ KeysOf(c)' = KeysOf(c) /\ ticket'[c] = ticket[c]
          /\ prev'[c] = prev[c] /\ phase'[c] = phase[c]
      BY <2>4, <1>2
    <3>2. /\ phase[c] = "queued" /\ prev[c] /= NoOp /\ Live(prev[c])
          /\ KeysOf(c) \subseteq KeysOf(prev[c]) /\ ticket[a] <= ticket[prev[c]]
      BY <2>2, <3>1 DEF LockInv, QueuedBehindOlder
    <3>3. prev[c] \in Ops /\ prev[c] /= b
      BY <3>2, <1>1
    <3> QED
      BY <2>2, <3>1, <3>2, <3>3, <1>2
  <2> QED
    BY <2>3, <2>4
<1>9. CallOrder'
  <2> SUFFICES ASSUME NEW a \in Ops, NEW c \in Ops, Live(a)', Begun(c)',
                      KeysOf(a)' \intersect KeysOf(c)' /= {}
               PROVE  ticket'[c] <= ticket'[a]
    BY DEF CallOrder
  <2>1. c /= b
    BY <1>1
  <2>2. ticket'[c] < clock
    BY <2>1, <1>2, <1>5
  <2>3. CASE a = b
    BY <2>2, <2>3, <1>1, <1>2, <1>4, <2>1
  <2>4. CASE a /= b
    BY <2>1, <2>4, <1>2 DEF LockInv, CallOrder
  <2> QED
    BY <2>3, <2>4
<1> QED
  BY <1>6, <1>7, <1>8, <1>9 DEF LockInv
\* A step that leaves tickets, targets and the map alone and moves one accepted
\* call forward: from the queue to running, or from running to settled.
LEMMA AdvanceKeepsLockInv ==
  ASSUME TypeOK, LockInv, NEW b \in Ops,
         UNCHANGED <<tail, target, prev, ticket, clock>>,
         \/ /\ phase[b] = "queued"
            /\ prev[b] /= NoOp => phase[prev[b]] = "forgotten"
            /\ phase' = [phase EXCEPT ![b] = "running"]
         \/ /\ phase[b] = "running"
            /\ phase' = [phase EXCEPT ![b] = "settled"]
  PROVE  LockInv'
<1> USE DEF TypeOK, Live, Begun
<1>1. \A a \in Ops : (Live(a)' <=> Live(a)) /\ KeysOf(a)' = KeysOf(a)
  BY DEF KeysOf
<1>2. \A a \in Ops : a /= b => phase'[a] = phase[a]
  OBVIOUS
<1>3. TicketsInOrder'
  BY <1>1, <1>2 DEF LockInv, TicketsInOrder
<1>4. TailIsYoungest'
  BY <1>1 DEF LockInv, TailIsYoungest, KeysOf
<1>5. \A a \in Ops : Live(a) /\ ticket[a] < ticket[b]
                      /\ KeysOf(a) \intersect KeysOf(b) /= {} => FALSE
  <2> SUFFICES ASSUME NEW a \in Ops, Live(a), ticket[a] < ticket[b],
                      KeysOf(a) \intersect KeysOf(b) /= {}
               PROVE  FALSE
    OBVIOUS
  <2>1. phase[b] = "queued" /\ prev[b] /= NoOp /\ Live(prev[b])
    BY DEF LockInv, QueuedBehindOlder
  <2> QED
    BY <2>1
<1>6. QueuedBehindOlder'
  <2> SUFFICES ASSUME NEW a \in Ops, NEW c \in Ops, Live(a)', Live(c)',
                      ticket[a] < ticket[c],
                      KeysOf(a) \intersect KeysOf(c) /= {}
               PROVE  /\ phase'[c] = "queued"
                      /\ prev[c] /= NoOp
                      /\ Live(prev[c])'
                      /\ KeysOf(c) \subseteq KeysOf(prev[c])
                      /\ ticket[a] <= ticket[prev[c]]
    <3>1. prev' = prev /\ ticket' = ticket /\ target' = target
      OBVIOUS
    <3> QED
      BY <3>1 DEF QueuedBehindOlder, KeysOf
  <2>1. Live(a) /\ Live(c) /\ c /= b
    BY <1>1, <1>5
  <2>2. /\ phase[c] = "queued" /\ prev[c] /= NoOp /\ Live(prev[c])
        /\ KeysOf(c) \subseteq KeysOf(prev[c]) /\ ticket[a] <= ticket[prev[c]]
    BY <2>1 DEF LockInv, QueuedBehindOlder
  <2> QED
    BY <2>1, <2>2, <1>1, <1>2
<1>7. CallOrder'
  <2> SUFFICES ASSUME NEW a \in Ops, NEW c \in Ops, Live(a), Begun(c)',
                      KeysOf(a) \intersect KeysOf(c) /= {}
               PROVE  ticket[c] <= ticket[a]
    BY <1>1 DEF CallOrder, KeysOf
  <2>1. CASE c = b
    BY <2>1, <1>5
  <2>2. CASE c /= b
    BY <2>2, <1>2 DEF LockInv, CallOrder
  <2> QED
    BY <2>1, <2>2
<1> QED
  BY <1>3, <1>4, <1>6, <1>7 DEF LockInv

\* The clean-up of a settled call: what was queued behind it becomes first.
LEMMA ForgetKeepsLockInv ==
  ASSUME TypeOK, LockInv, NEW b \in Ops, Forget(b)
  PROVE  LockInv'
<1> USE DEF Live, Begun
<1>1. /\ phase[b] = "settled"
      /\ phase' = [phase EXCEPT ![b] = "forgotten"]
      /\ tail' = [k \in Keys |-> IF tail[k] = b THEN NoOp ELSE tail[k]]
      /\ UNCHANGED <<target, prev, ticket, clock>>
  BY DEF Forget
<1>2. \A a \in Ops : /\ KeysOf(a)' = KeysOf(a)
                     /\ Live(a)' <=> Live(a) /\ a /= b
                     /\ Begun(a)' <=> Begun(a)
                     /\ a /= b => phase'[a] = phase[a]
  BY <1>1 DEF KeysOf, TypeOK
<1>3. \A a \in Ops : Live(a) /\ a /= b /\ KeysOf(a) \intersect KeysOf(b) /= {}
                        => ~(ticket[a] <= ticket[b])
  <2> SUFFICES ASSUME NEW a \in Ops, Live(a), a /= b,
                      KeysOf(a) \intersect KeysOf(b) /= {}
               PROVE  ~(ticket[a] <= ticket[b])
    OBVIOUS
  <2>1. ticket[a] /= ticket[b]
    BY <1>1 DEF LockInv, TicketsInOrder
  <2>2. ~(ticket[a] < ticket[b])
    BY <1>1 DEF LockInv, QueuedBehindOlder
  <2>3. ticket[a] \in Nat /\ ticket[b] \in Nat
    BY DEF TypeOK
  <2> QED
    BY <2>1, <2>2, <2>3
<1>4. TicketsInOrder'
  BY <1>1, <1>2 DEF LockInv, TicketsInOrder
<1>5. TailIsYoungest'
  <2> SUFFICES ASSUME NEW k \in Keys
               PROVE  /\ tail'[k] /= NoOp => Live(tail[k])' /\ k \in KeysOf(tail[k])'
                      /\ \A a \in Ops :
                             Live(a)' /\ k \in KeysOf(a)' =>
                               tail'[k] /= NoOp /\ (ticket[a] <= ticket[tail[k]])'
    BY DEF TailIsYoungest
  <2>1. CASE tail[k] = b
    <3>1. tail'[k] = NoOp
      BY <2>1, <1>1
    <3>2. ASSUME NEW a \in Ops, Live(a)', k \in KeysOf(a)' PROVE FALSE
      <4>1. Live(a) /\ a /= b /\ k \in KeysOf(a)
        BY <3>2, <1>2
      <4>2. ticket[a] <= ticket[b] /\ k \in KeysOf(b)
        BY <2>1, <4>1, NoOpAssumption DEF LockInv, TailIsYoungest
      <4> QED
        BY <4>1, <4>2, <1>3
    <3> QED
      BY <3>1, <3>2
  <2>2. CASE tail[k] /= b
    <3>1. tail'[k] = tail[k]
      BY <2>2, <1>1
    <3>2. /\ tail[k] /= NoOp => Live(tail[k]) /\ k \in KeysOf(tail[k])
          /\ \A a \in Ops :
                 Live(a) /\ k \in KeysOf(a) =>
                   tail[k] /= NoOp /\ ticket[a] <= ticket[tail[k]]
      BY DEF LockInv, TailIsYoungest
    <3>3. ASSUME tail[k] /= NoOp PROVE Live(tail[k])' /\ k \in KeysOf(tail[k])'
      <4>1. PICK y \in Ops : y = tail[k]
        BY <3>3 DEF TypeOK
      <4>2. Live(y)' /\ k \in KeysOf(y)'
        BY <4>1, <3>2, <3>3, <2>2, <1>2
      <4> QED
        BY <4>1, <4>2, <3>1 DEF KeysOf
    <3>4. ASSUME NEW a \in Ops, Live(a)', k \in KeysOf(a)'
          PROVE  tail'[k] /= NoOp /\ (ticket[a] <= ticket[tail[k]])'
      BY <3>4, <3>1, <3>2, <1>1, <1>2
    <3> QED
      BY <3>1, <3>3, <3>4
  <2> QED
    BY <2>1, <2>2
<1>6. QueuedBehindOlder'
  <2> SUFFICES ASSUME NEW a \in Ops, NEW c \in Ops, Live(a), Live(c), a /= b, c /= b,
                      ticket[a] < ticket[c],
                      KeysOf(a) \intersect KeysOf(c) /= {}
               PROVE  /\ phase'[c] = "queued"
                      /\ prev[c] /= NoOp
                      /\ Live(prev[c])'
                      /\ KeysOf(c) \subseteq KeysOf(prev[c])
                      /\ ticket[a] <= ticket[prev[c]]
    BY <1>1, <1>2 DEF QueuedBehindOlder, KeysOf
  <2>1. /\ phase[c] = "queued" /\ prev[c] /= NoOp /\ Live(prev[c])
        /\ KeysOf(c) \subseteq KeysOf(prev[c]) /\ ticket[a] <= ticket[prev[c]]
    BY DEF LockInv, QueuedBehindOlder
  <2>2. KeysOf(prev[c]) \intersect KeysOf(a) /= {} /\ prev[c] \in Ops
    BY <2>1 DEF TypeOK
  <2>3. prev[c] /= b
    <3>1. ASSUME prev[c] = b PROVE FALSE
      <4>1. KeysOf(b) \intersect KeysOf(a) /= {} /\ ticket[a] <= ticket[b]
        BY <3>1, <2>1, <2>2
      <4> QED
        BY <4>1, <1>3
    <3> QED
      BY <3>1
  <2> QED
    BY <2>1, <2>2, <2>3, <1>1, <1>2
<1>7. CallOrder'
  BY <1>1, <1>2 DEF LockInv, CallOrder
<1> QED
  BY <1>4, <1>5, <1>6, <1>7 DEF LockInv
\* A step after which the same calls are queued, live and begun.
LEMMA SameLifeKeepsLockInv ==
  ASSUME TypeOK, LockInv, UNCHANGED <<tail, target, prev, ticket, clock>>,
         \A a \in Ops : /\ Live(a)' <=> Live(a)
                        /\ Begun(a)' <=> Begun(a)
                        /\ phase'[a] = "queued" <=> phase[a] = "queued"
  PROVE  LockInv'
<1>1. tail' = tail /\ target' = target /\ prev' = prev /\ ticket' = ticket
      /\ clock' = clock
  OBVIOUS
<1>2. \A a \in Ops : KeysOf(a)' = KeysOf(a)
  BY <1>1 DEF KeysOf
<1>3. TicketsInOrder'
  BY <1>1 DEF LockInv, TicketsInOrder
<1>4. TailIsYoungest'
  <2> SUFFICES ASSUME NEW k \in Keys
               PROVE  /\ tail[k] /= NoOp => Live(tail[k])' /\ k \in KeysOf(tail[k])
                      /\ \A a \in Ops : Live(a)' /\ k \in KeysOf(a) =>
                             tail[k] /= NoOp /\ ticket[a] <= ticket[tail[k]]
    BY <1>1 DEF TailIsYoungest, KeysOf
  <2>1. tail[k] /= NoOp => tail[k] \in Ops
    BY DEF TypeOK
  <2>2. tail[k] /= NoOp => (Live(tail[k])' <=> Live(tail[k]))
    BY <2>1, <1>1 DEF Live
  <2> QED
    BY <2>2 DEF LockInv, TailIsYoungest
<1>5. QueuedBehindOlder'
  <2> SUFFICES ASSUME NEW a \in Ops, NEW c \in Ops, Live(a)', Live(c)',
                      ticket[a] < ticket[c],
                      KeysOf(a) \intersect KeysOf(c) /= {}
               PROVE  /\ phase'[c] = "queued"
                      /\ prev[c] /= NoOp
                      /\ Live(prev[c])'
                      /\ KeysOf(c) \subseteq KeysOf(prev[c])
                      /\ ticket[a] <= ticket[prev[c]]
    BY <1>1 DEF QueuedBehindOlder, KeysOf
  <2>1. /\ phase[c] = "queued" /\ prev[c] /= NoOp /\ Live(prev[c])
        /\ KeysOf(c) \subseteq KeysOf(prev[c]) /\ ticket[a] <= ticket[prev[c]]
    BY DEF LockInv, QueuedBehindOlder
  <2>2. prev[c] \in Ops
    BY <2>1 DEF TypeOK
  <2>3. Live(prev[c])'
    BY <2>1, <2>2, <1>1 DEF Live
  <2> QED
    BY <2>1, <2>3
<1>6. CallOrder'
  BY <1>1, <1>2 DEF LockInv, CallOrder
<1> QED
  BY <1>3, <1>4, <1>5, <1>6 DEF LockInv

\* Every step keeps the map's invariant.
LEMMA NextLockInv == TypeOK /\ LockInv /\ [Next]_vars => LockInv'
<1> SUFFICES ASSUME TypeOK, LockInv, [Next]_vars PROVE LockInv'
  OBVIOUS
<1>1. ASSUME NEW op \in Ops, NEW p \in Paths, CallSerial(op, p) PROVE LockInv'
  <2>1. tail[LockKey[p]] \in Ops \union {NoOp}
    BY DEF TypeOK
  <2>2. phase[op] = "uncalled" /\ Accept(op, {p}, tail[LockKey[p]])
    BY <1>1 DEF CallSerial
  <2> QED
    BY <2>1, <2>2, AcceptKeepsLockInv
<1>2. ASSUME NEW op \in Ops, NEW ps \in SUBSET Paths, CallExclusive(op, ps)
      PROVE LockInv'
  BY <1>2, AcceptKeepsLockInv DEF CallExclusive
<1>3. ASSUME NEW op \in Ops, NEW ps \in SUBSET Paths, RejectExclusive(op, ps)
      PROVE LockInv'
  <2>1. /\ UNCHANGED <<tail, target, prev, ticket, clock>>
        /\ \A a \in Ops : (Live(a)' <=> Live(a)) /\ (Begun(a)' <=> Begun(a))
                           /\ (phase'[a] = "queued" <=> phase[a] = "queued")
    BY <1>3 DEF RejectExclusive, TypeOK, Live, Begun
  <2> QED
    BY <2>1, SameLifeKeepsLockInv
<1>4. ASSUME NEW op \in Ops, Start(op) PROVE LockInv'
  BY <1>4, AdvanceKeepsLockInv DEF Start
<1>5. ASSUME NEW op \in Ops, Resolve(op) \/ Throw(op) PROVE LockInv'
  BY <1>5, AdvanceKeepsLockInv DEF Resolve, Throw
<1>6. ASSUME NEW op \in Ops, Forget(op) PROVE LockInv'
  BY <1>6, ForgetKeepsLockInv
<1>7. ASSUME UNCHANGED lockVars PROVE LockInv'
  BY <1>7, SameLifeKeepsLockInv DEF lockVars, Live, Begun
<1>8. CASE UNCHANGED vars
  BY <1>7, <1>8 DEF vars, lockVars
<1> QED
  BY <1>1, <1>2, <1>3, <1>4, <1>5, <1>6, <1>7, <1>8
     DEF Next, Call, Run, ReadFile, WriteFile
-----------------------------------------------------------------------------
(* Mutual exclusion                                                            *)

\* Two live calls that share a file share a key, so the younger is queued.
\* Operations with a file in common have a key in common.
LEMMA SharedFileIsSharedKey ==
  ASSUME TypeOK, NEW a \in Ops, NEW b \in Ops,
         FilesOf(a) \intersect FilesOf(b) /= {}
  PROVE  KeysOf(a) \intersect KeysOf(b) /= {}
<1>1. PICK p \in target[a], q \in target[b] : FileOf[p] = FileOf[q]
  BY DEF FilesOf
<1>2. p \in Paths /\ q \in Paths
  BY DEF TypeOK
<1> QED
  BY <1>1, <1>2, FoldAssumption DEF KeysOf

LEMMA LockInvExcludes == TypeOK /\ LockInv => MutualExclusion
<1> SUFFICES ASSUME TypeOK, LockInv, NEW a \in Ops, NEW b \in Ops, a /= b,
                    phase[a] = "running", phase[b] = "running",
                    NEW f \in FilesOf(a) \intersect FilesOf(b)
             PROVE  FALSE
  BY DEF MutualExclusion
<1>5. KeysOf(a) \intersect KeysOf(b) /= {} /\ KeysOf(b) \intersect KeysOf(a) /= {}
  BY SharedFileIsSharedKey
<1>6. Live(a) /\ Live(b)
  BY DEF Live
<1>7. ~(ticket[a] < ticket[b]) /\ ~(ticket[b] < ticket[a]) /\ ticket[a] /= ticket[b]
  BY <1>5, <1>6 DEF LockInv, QueuedBehindOlder, TicketsInOrder
<1>8. ticket[a] \in Nat /\ ticket[b] \in Nat
  BY DEF TypeOK
<1> QED
  BY <1>7, <1>8

\* A free key has no write in flight, a taken one has its tail.
LEMMA LockInvMapsInFlight == TypeOK /\ LockInv => MapHoldsWritesInFlight
<1> SUFFICES ASSUME TypeOK, LockInv, NEW k \in Keys
             PROVE  (tail[k] = NoOp) <=> ~ \E op \in Ops : Live(op) /\ k \in KeysOf(op)
  BY DEF MapHoldsWritesInFlight
<1>1. tail[k] /= NoOp => tail[k] \in Ops
  BY DEF TypeOK
<1> QED
  BY <1>1 DEF LockInv, TailIsYoungest

-----------------------------------------------------------------------------
(* The files                                                                   *)

LEMMA NextReadsAreCurrent == IInv /\ [Next]_vars => ReadsAreCurrent'
<1> SUFFICES ASSUME IInv, [Next]_vars, NEW x \in Ops
             PROVE  /\ phase'[x] = "running" =>
                         \A g \in FilesOf(x)' :
                           seen'[x][g] /= Unread /\ x \notin content'[g]
                             => seen'[x][g] = content'[g]
                    /\ phase'[x] \in {"uncalled", "queued", "rejected"} =>
                         /\ \A g \in Files : seen'[x][g] = Unread
                         /\ x \notin acked'
  BY DEF ReadsAreCurrent
<1>0. TypeOK /\ MutualExclusion
  BY LockInvExcludes DEF IInv
<1> DEFINE Cur == phase[x] = "running" =>
                    \A g \in FilesOf(x) : seen[x][g] /= Unread /\ x \notin content[g]
                                              => seen[x][g] = content[g]
<1> DEFINE New == phase[x] \in {"uncalled", "queued", "rejected"} =>
                    (\A g \in Files : seen[x][g] = Unread) /\ x \notin acked
<1>a. Cur /\ New
  BY DEF IInv, ReadsAreCurrent
<1>b. \A op \in Ops : FilesOf(op) \subseteq Files
  BY <1>0, PathAssumption DEF FilesOf, TypeOK
<1>1. ASSUME NEW op \in Ops, NEW ps \in SUBSET Paths,
             \/ \E q : Accept(op, ps, q) /\ phase[op] = "uncalled"
             \/ RejectExclusive(op, ps),
             UNCHANGED dataVars
      PROVE  Cur' /\ New'
  <2>1. CASE x = op
    BY <1>1, <2>1, <1>0, <1>a DEF Accept, RejectExclusive, TypeOK, dataVars
  <2>2. CASE x /= op
    BY <1>1, <2>2, <1>0, <1>a DEF Accept, RejectExclusive, TypeOK, dataVars, FilesOf
  <2> QED
    BY <2>1, <2>2
<1>2. ASSUME NEW op \in Ops, Start(op) PROVE Cur' /\ New'
  BY <1>2, <1>0, <1>a, <1>b DEF Start, TypeOK, dataVars, FilesOf
<1>3. ASSUME NEW op \in Ops, NEW f \in Files, ReadFile(op, f) PROVE Cur' /\ New'
  <2>1. /\ phase' = phase /\ content' = content /\ acked' = acked /\ FilesOf(x)' = FilesOf(x)
        /\ seen' = [seen EXCEPT ![op][f] = content[f]] /\ phase[op] = "running"
    BY <1>3 DEF ReadFile, lockVars, FilesOf
  <2>2. \A g \in Files :
           seen'[x][g] = IF x = op /\ g = f THEN content[f] ELSE seen[x][g]
    BY <2>1, <1>0 DEF TypeOK
  <2> QED
    BY <2>1, <2>2, <1>a, <1>b
<1>4. ASSUME NEW op \in Ops, NEW f \in Files, WriteFile(op, f) PROVE Cur' /\ New'
  <2>1. /\ phase' = phase /\ seen' = seen /\ acked' = acked /\ FilesOf(x)' = FilesOf(x)
        /\ content' = [content EXCEPT ![f] = seen[op][f] \union {op}]
        /\ phase[op] = "running" /\ f \in FilesOf(op)
    BY <1>4 DEF WriteFile, lockVars, FilesOf
  <2>2. CASE x = op
    BY <2>1, <2>2, <1>0, <1>a, <1>b DEF TypeOK
  <2>3. CASE x /= op
    <3>1. phase[x] = "running" => f \notin FilesOf(x)
      BY <2>1, <2>3, <1>0 DEF MutualExclusion
    <3> QED
      BY <2>1, <3>1, <1>0, <1>a, <1>b DEF TypeOK
  <2> QED
    BY <2>2, <2>3
<1>5. ASSUME NEW op \in Ops, Resolve(op) \/ Throw(op) \/ Forget(op) PROVE Cur' /\ New'
  <2>1. /\ FilesOf(x)' = FilesOf(x) /\ seen' = seen /\ content' = content
        /\ acked' = acked \/ (acked' = acked \union {op} /\ phase'[op] = "settled")
        /\ phase'[x] \in {"settled", "forgotten"} \/ phase'[x] = phase[x]
    BY <1>5, <1>0 DEF Resolve, Throw, Forget, TypeOK, dataVars, FilesOf
  <2> QED
    BY <2>1, <1>a
<1>6. CASE UNCHANGED vars
  BY <1>6, <1>a DEF vars, FilesOf
<1>7. Cur' /\ New'
  <2>1. ASSUME NEW op \in Ops, NEW p \in Paths, CallSerial(op, p) PROVE Cur' /\ New'
    BY <2>1, <1>1 DEF CallSerial
  <2>2. ASSUME NEW op \in Ops, NEW ps \in SUBSET Paths,
               CallExclusive(op, ps) \/ RejectExclusive(op, ps)
        PROVE  Cur' /\ New'
    BY <2>2, <1>1 DEF CallExclusive, RejectExclusive
  <2>3. ASSUME NEW op \in Ops, Call(op) PROVE Cur' /\ New'
    BY <2>1, <2>2, <2>3 DEF Call
  <2>4. ASSUME NEW op \in Ops, Run(op) PROVE Cur' /\ New'
    BY <1>2, <1>3, <1>4, <1>5, <2>4 DEF Run
  <2> QED
    BY <2>3, <2>4, <1>6 DEF Next
<1> QED
  BY <1>7
\* Only a running operation writes, only to files it named, and neither changes.
LEMMA NextUpdatesWereNamed == IInv /\ [Next]_vars => UpdatesWereNamed'
<1> SUFFICES ASSUME IInv, [Next]_vars, NEW g \in Files, NEW x \in content'[g]
             PROVE  (Begun(x) /\ g \in FilesOf(x))'
  BY DEF UpdatesWereNamed
<1> USE DEF Begun
<1>0. TypeOK /\ ReadsAreCurrent
  BY DEF IInv
<1>a. ASSUME x \in content[g] PROVE x \in Ops /\ Begun(x) /\ g \in FilesOf(x)
  BY <1>a, <1>0 DEF IInv, UpdatesWereNamed, TypeOK
<1>1. ASSUME NEW op \in Ops, Call(op) PROVE (Begun(x) /\ g \in FilesOf(x))'
  <2>1. content' = content /\ phase[op] = "uncalled"
        /\ \A a \in Ops : a /= op => phase'[a] = phase[a] /\ target'[a] = target[a]
    BY <1>1, <1>0
       DEF Call, CallSerial, CallExclusive, RejectExclusive, Accept, TypeOK, dataVars
  <2> QED
    BY <2>1, <1>a DEF FilesOf
<1>2. ASSUME NEW op \in Ops, Start(op) \/ Resolve(op) \/ Throw(op) \/ Forget(op)
      PROVE  (Begun(x) /\ g \in FilesOf(x))'
  <2>1. content' = content /\ target' = target
        /\ \A a \in Ops : Begun(a) => Begun(a)'
    BY <1>2, <1>0 DEF Start, Resolve, Throw, Forget, TypeOK, dataVars
  <2> QED
    BY <2>1, <1>a DEF FilesOf
<1>3. ASSUME NEW op \in Ops, NEW f \in Files, ReadFile(op, f)
      PROVE  (Begun(x) /\ g \in FilesOf(x))'
  BY <1>3, <1>a DEF ReadFile, lockVars, FilesOf
<1>4. ASSUME NEW op \in Ops, NEW f \in Files, WriteFile(op, f)
      PROVE  (Begun(x) /\ g \in FilesOf(x))'
  <2>1. /\ phase' = phase /\ target' = target /\ phase[op] = "running"
        /\ f \in FilesOf(op) /\ content' = [content EXCEPT ![f] = content[f] \union {op}]
    BY <1>4, <1>0 DEF WriteFile, ReadsAreCurrent, lockVars
  <2>2. x \in content[g] \/ (x = op /\ g = f)
    BY <2>1, <1>0 DEF TypeOK
  <2> QED
    BY <2>1, <2>2, <1>a DEF FilesOf
<1>5. CASE UNCHANGED vars
  BY <1>5, <1>a DEF vars, FilesOf
<1> QED
  BY <1>1, <1>2, <1>3, <1>4, <1>5 DEF Next, Run

\* An operation is acknowledged in the step that ends it.
LEMMA NextAckedHaveEnded == IInv /\ [Next]_vars => AckedHaveEnded'
<1> SUFFICES ASSUME IInv, [Next]_vars, NEW x \in acked'
             PROVE  phase'[x] \in {"settled", "forgotten"}
  BY DEF AckedHaveEnded
<1>0. TypeOK /\ AckedHaveEnded
  BY DEF IInv
<1>1. ASSUME NEW op \in Ops, Call(op) PROVE phase'[x] \in {"settled", "forgotten"}
  BY <1>0, <1>1 DEF Call, CallSerial, CallExclusive, RejectExclusive, Accept, TypeOK,
     dataVars, AckedHaveEnded
<1>2. ASSUME NEW op \in Ops, Run(op) PROVE phase'[x] \in {"settled", "forgotten"}
  BY <1>0, <1>2 DEF Run, Start, ReadFile, WriteFile, Resolve, Throw, Forget, TypeOK,
     dataVars, lockVars, AckedHaveEnded
<1>3. CASE UNCHANGED vars
  BY <1>0, <1>3 DEF vars, AckedHaveEnded
<1> QED
  BY <1>1, <1>2, <1>3 DEF Next

LEMMA NextAckedUpdatesSurvive == IInv /\ [Next]_vars => AckedUpdatesSurvive'
<1> SUFFICES ASSUME IInv, [Next]_vars, NEW x \in acked', NEW g \in FilesOf(x)'
             PROVE  x \in content'[g]
  BY DEF AckedUpdatesSurvive
<1>0. TypeOK /\ ReadsAreCurrent
  BY DEF IInv
<1>a. ASSUME x \in acked, g \in FilesOf(x) PROVE x \in content[g]
  BY <1>a DEF IInv, AckedUpdatesSurvive
<1>b. \A op \in Ops : FilesOf(op) \subseteq Files
  BY <1>0, PathAssumption DEF FilesOf, TypeOK
<1>1. ASSUME NEW op \in Ops, NEW ps \in SUBSET Paths,
             \/ \E q : Accept(op, ps, q) /\ phase[op] = "uncalled"
             \/ RejectExclusive(op, ps),
             UNCHANGED dataVars
      PROVE  x \in content'[g]
  <2>1. x \in acked /\ content' = content /\ x \in Ops
    BY <1>1, <1>0 DEF dataVars, TypeOK
  <2>2. phase[op] = "uncalled"
    BY <1>1 DEF RejectExclusive
  <2>3. x /= op
    BY <2>1, <2>2, <1>0 DEF ReadsAreCurrent
  <2>4. FilesOf(x)' = FilesOf(x)
    BY <1>1, <2>1, <2>3, <1>0 DEF Accept, RejectExclusive, FilesOf, TypeOK
  <2> QED
    BY <2>1, <2>4, <1>a
<1>2. ASSUME NEW op \in Ops, Start(op) \/ Throw(op) \/ Forget(op) PROVE x \in content'[g]
  BY <1>2, <1>a DEF Start, Throw, Forget, dataVars, FilesOf
<1>3. ASSUME NEW op \in Ops, NEW f \in Files, ReadFile(op, f) PROVE x \in content'[g]
  BY <1>3, <1>a DEF ReadFile, lockVars, FilesOf
<1>4. ASSUME NEW op \in Ops, NEW f \in Files, WriteFile(op, f) PROVE x \in content'[g]
  <2>1. /\ content' = [content EXCEPT ![f] = seen[op][f] \union {op}]
        /\ seen[op][f] /= Unread /\ op \notin content[f]
        /\ phase[op] = "running" /\ f \in FilesOf(op)
    BY <1>4 DEF WriteFile
  <2>2. seen[op][f] = content[f]
    BY <2>1, <1>0 DEF ReadsAreCurrent
  <2>3. x \in content[g] /\ g \in Files
    <3>1. x \in acked /\ g \in FilesOf(x)
      BY <1>4 DEF WriteFile, lockVars, FilesOf
    <3> QED
      BY <3>1, <1>0, <1>a, <1>b DEF TypeOK
  <2>4. content \in [Files -> SUBSET Ops]
    BY <1>0 DEF TypeOK
  <2> QED
    BY <2>1, <2>2, <2>3, <2>4
<1>5. ASSUME NEW op \in Ops, Resolve(op) PROVE x \in content'[g]
  <2>1. FilesOf(x)' = FilesOf(x)
    BY <1>5 DEF Resolve, FilesOf
  <2> QED
    BY <1>5, <2>1, <1>a DEF Resolve
<1>6. CASE UNCHANGED vars
  BY <1>6, <1>a DEF vars, FilesOf
<1>7. ASSUME NEW op \in Ops, Call(op) PROVE x \in content'[g]
  <2>1. ASSUME NEW p \in Paths, CallSerial(op, p) PROVE x \in content'[g]
    BY <2>1, <1>1 DEF CallSerial
  <2>2. ASSUME NEW ps \in SUBSET Paths, CallExclusive(op, ps) \/ RejectExclusive(op, ps)
        PROVE  x \in content'[g]
    BY <2>2, <1>1 DEF CallExclusive, RejectExclusive
  <2> QED
    BY <2>1, <2>2, <1>7 DEF Call
<1>8. ASSUME NEW op \in Ops, Run(op) PROVE x \in content'[g]
  BY <1>2, <1>3, <1>4, <1>5, <1>8 DEF Run
<1> QED
  BY <1>6, <1>7, <1>8 DEF Next

-----------------------------------------------------------------------------
(* The theorems                                                                *)

LEMMA InitIInv == Init => IInv
<1> SUFFICES ASSUME Init PROVE IInv
  OBVIOUS
<1>1. TypeOK
  BY InitType
<1>2. \A op \in Ops : ~Live(op) /\ ~Begun(op)
  BY DEF Init, Live, Begun
<1>3. LockInv
  BY <1>2 DEF Init, LockInv, TicketsInOrder, TailIsYoungest, QueuedBehindOlder, CallOrder
<1>4. ReadsAreCurrent /\ UpdatesWereNamed /\ AckedHaveEnded /\ AckedUpdatesSurvive
  BY DEF Init, ReadsAreCurrent, UpdatesWereNamed, AckedHaveEnded, AckedUpdatesSurvive
<1> QED
  BY <1>1, <1>3, <1>4 DEF IInv

\* The inductive invariant: a tail that is the youngest live write of its key,
\* a queue ordered behind it, and reads that stay current while the lock is held.
THEOREM LockInvariant == Spec => []IInv
<1>1. IInv /\ [Next]_vars => IInv'
  BY NextType, NextLockInv, NextReadsAreCurrent, NextUpdatesWereNamed,
     NextAckedHaveEnded, NextAckedUpdatesSurvive DEF IInv
<1> QED
  BY InitIInv, <1>1, PTL DEF Spec

\* No two operations work on one file at once (file-write-lock.ts 1-3), for any
\* number of calls, any paths and any mix of the three modes.
THEOREM Exclusion == Spec => []MutualExclusion
<1>1. IInv => MutualExclusion
  BY LockInvExcludes DEF IInv
<1> QED
  BY LockInvariant, <1>1, PTL

\* Calls on one key run in the order they were made (lines 56-59).
THEOREM InOrder == Spec => []CallOrder
<1>1. IInv => CallOrder
  BY DEF IInv, LockInv
<1> QED
  BY LockInvariant, <1>1, PTL

\* The map never strands a key and never shows a busy one free (lines 28-31).
THEOREM NoStrandedLock == Spec => []MapHoldsWritesInFlight
<1>1. IInv => MapHoldsWritesInFlight
  BY LockInvMapsInFlight DEF IInv
<1> QED
  BY LockInvariant, <1>1, PTL

\* An update whose operation resolved is never lost (lines 36-37).
THEOREM NoLostUpdate == Spec => []AckedUpdatesSurvive
<1>1. IInv => AckedUpdatesSurvive
  BY DEF IInv
<1> QED
  BY LockInvariant, <1>1, PTL

-----------------------------------------------------------------------------
(* Refinement                                                                  *)

\* The lock module's steps are steps of the abstract one under the mapping that
\* shows an operation's updates in the step that ends it.
LEMMA StepImplementsAbstract ==
  IInv /\ [Next]_vars => [Abstract!Next]_(Abstract!vars)
<1> SUFFICES ASSUME IInv, [Next]_vars PROVE [Abstract!Next]_(Abstract!vars)
  OBVIOUS
<1> DEFINE Stage == [op \in Ops |-> StageOf(op)]
           Named == [op \in Ops |-> FilesOf(op)]
           Content == [f \in Files |-> CommittedContent(f)]
<1>0. TypeOK /\ LockInv /\ ReadsAreCurrent /\ UpdatesWereNamed /\ MutualExclusion
  BY LockInvExcludes DEF IInv
<1>b. \A op \in Ops : FilesOf(op) \subseteq Files
  BY <1>0, PathAssumption DEF FilesOf, TypeOK
<1>c. \A f \in Files : content[f] \subseteq Ops
  BY <1>0 DEF TypeOK
\* A call that is accepted asks for its files.
<1>1. ASSUME NEW op \in Ops, NEW ps \in SUBSET Paths, NEW q, phase[op] = "uncalled",
             Accept(op, ps, q), UNCHANGED dataVars
      PROVE  Abstract!Next
  <2>1. PICK fs \in SUBSET Files : fs = {FileOf[p] : p \in ps}
    BY PathAssumption
  <2>2. Stage[op] = "new" /\ Stage' = [Stage EXCEPT ![op] = "asked"]
    <3>1. \A a \in Ops : StageOf(a)' = IF a = op THEN "asked" ELSE StageOf(a)
      BY <1>1, <1>0 DEF Accept, StageOf, TypeOK, dataVars
    <3>2. StageOf(op) = "new"
      BY <1>1 DEF StageOf
    <3> QED
      BY <3>1, <3>2
  <2>3. Named' = [Named EXCEPT ![op] = fs]
    <3>1. \A a \in Ops : FilesOf(a)' = IF a = op THEN fs ELSE FilesOf(a)
      BY <1>1, <2>1, <1>0 DEF Accept, FilesOf, TypeOK
    <3> QED
      BY <3>1
  <2>4. Content' = Content
    <3>1. \A f \in Files : CommittedContent(f)' = CommittedContent(f)
      BY <1>1, <1>0, <1>c DEF Accept, CommittedContent, TypeOK, dataVars
    <3> QED
      BY <3>1
  <2>5. ticket' = [ticket EXCEPT ![op] = clock] /\ clock' = clock + 1
    BY <1>1 DEF Accept
  <2>6. Abstract!Ask(op, fs)
    BY <2>2, <2>3, <2>4, <2>5 DEF Abstract!Ask
  <2> QED
    BY <2>6 DEF Abstract!Next
\* One that is refused changes nothing its callers can tell.
<1>2. ASSUME NEW op \in Ops, NEW ps \in SUBSET Paths, RejectExclusive(op, ps)
      PROVE  UNCHANGED Abstract!vars
  <2>1. \A a \in Ops : StageOf(a)' = StageOf(a) /\ FilesOf(a)' = FilesOf(a)
    BY <1>2, <1>0 DEF RejectExclusive, StageOf, FilesOf, TypeOK, dataVars
  <2>2. \A f \in Files : CommittedContent(f)' = CommittedContent(f)
    BY <1>2, <1>0, <1>c DEF RejectExclusive, CommittedContent, TypeOK, dataVars
  <2>3. ticket' = ticket /\ clock' = clock
    BY <1>2 DEF RejectExclusive
  <2> QED
    BY <2>1, <2>2, <2>3 DEF Abstract!vars
\* What starts is the oldest of those that share a file with it.
<1>3. ASSUME NEW op \in Ops, Start(op) PROVE Abstract!Next
  <2>1. /\ phase[op] = "queued" /\ phase' = [phase EXCEPT ![op] = "running"]
        /\ prev[op] /= NoOp => phase[prev[op]] = "forgotten"
        /\ UNCHANGED <<target, ticket, clock, content, acked>>
    BY <1>3 DEF Start, dataVars
  <2>2. Stage[op] = "asked" /\ Stage' = [Stage EXCEPT ![op] = "working"]
    <3>1. \A a \in Ops : StageOf(a)' = IF a = op THEN "working" ELSE StageOf(a)
      BY <2>1, <1>0 DEF StageOf, TypeOK
    <3>2. StageOf(op) = "asked"
      BY <2>1 DEF StageOf
    <3> QED
      BY <3>1, <3>2
  <2>3. ASSUME NEW other \in Ops \ {op}, FilesOf(op) \intersect FilesOf(other) /= {}
        PROVE  StageOf(other) /= "working"
               /\ (StageOf(other) = "asked" => ticket[op] < ticket[other])
    <3>1. KeysOf(op) \intersect KeysOf(other) /= {} /\ Live(op)
      BY <2>1, <2>3, <1>0, SharedFileIsSharedKey DEF Live
    <3>2. ticket[op] \in Nat /\ ticket[other] \in Nat
      BY <1>0 DEF TypeOK
    <3>3. ASSUME Live(other) PROVE ticket[op] < ticket[other]
      <4>1. ~(ticket[other] < ticket[op])
        BY <3>1, <3>3, <2>1, <1>0 DEF LockInv, QueuedBehindOlder, Live
      <4>2. ticket[other] /= ticket[op]
        BY <3>1, <3>3, <1>0 DEF LockInv, TicketsInOrder
      <4> QED
        BY <4>1, <4>2, <3>2
    <3>4. phase[other] /= "running"
      <4>1. phase[other] = "running" => ticket[other] <= ticket[op]
        BY <3>1, <1>0 DEF LockInv, CallOrder, Begun
      <4> QED
        BY <4>1, <3>2, <3>3 DEF Live
    <3> QED
      BY <3>3, <3>4 DEF StageOf, Live
  <2>4. Named' = Named
    BY <2>1 DEF FilesOf
  <2>5. Content' = Content
    <3>1. \A f \in Files : op \notin content[f]
      BY <2>1, <1>0 DEF UpdatesWereNamed, Begun
    <3>2. \A f \in Files : CommittedContent(f)' = CommittedContent(f)
      BY <2>1, <3>1, <1>0, <1>c DEF CommittedContent, TypeOK
    <3> QED
      BY <3>2
  <2>6. Abstract!Begin(op)
    <3>1. \A other \in Ops \ {op} :
             Named[op] \intersect Named[other] /= {} =>
                 /\ Stage[other] /= "working"
                 /\ Stage[other] = "asked" => ticket[op] < ticket[other]
      BY <2>3
    <3> QED
      BY <2>1, <2>2, <2>4, <2>5, <3>1 DEF Abstract!Begin
  <2> QED
    BY <2>6 DEF Abstract!Next
\* What an operation reads and writes is its own until it ends.
<1>4. ASSUME NEW op \in Ops, NEW f \in Files, ReadFile(op, f) \/ WriteFile(op, f)
      PROVE  UNCHANGED Abstract!vars
  <2>1. /\ phase[op] = "running" /\ UNCHANGED <<phase, target, ticket, clock, acked>>
        /\ content' = content \/ content' = [content EXCEPT ![f] = content[f] \union {op}]
    BY <1>4, <1>0 DEF ReadFile, WriteFile, ReadsAreCurrent, lockVars
  <2>2. \A a \in Ops : StageOf(a)' = StageOf(a) /\ FilesOf(a)' = FilesOf(a)
    BY <2>1 DEF StageOf, FilesOf
  <2>3. \A g \in Files : CommittedContent(g)' = CommittedContent(g)
    BY <2>1, <1>0 DEF CommittedContent, TypeOK
  <2> QED
    BY <2>1, <2>2, <2>3 DEF Abstract!vars
\* The step that ends it shows its updates: all of them, if it resolves.
<1>5. ASSUME NEW op \in Ops, Resolve(op) \/ Throw(op) PROVE Abstract!Next
  <2>1. /\ phase[op] = "running" /\ phase' = [phase EXCEPT ![op] = "settled"]
        /\ UNCHANGED <<target, ticket, clock, content>>
    BY <1>5 DEF Resolve, Throw, dataVars
  <2>2. PICK fs \in SUBSET Files : fs = {f \in Files : op \in content[f]}
    OBVIOUS
  <2>3. fs \subseteq FilesOf(op)
    BY <2>2, <1>0 DEF UpdatesWereNamed
  <2>4. Content' = [f \in Files |-> Content[f] \union (IF f \in fs THEN {op} ELSE {})]
    <3>1. \A f \in Files : CommittedContent(f)'
                             = CommittedContent(f) \union (IF f \in fs THEN {op} ELSE {})
      BY <2>1, <2>2, <1>0, <1>c DEF CommittedContent, TypeOK
    <3> QED
      BY <3>1
  <2>5. Named' = Named
    BY <2>1 DEF FilesOf
  <2>6. StageOf(op) = "working"
    BY <2>1 DEF StageOf
  <2>7. \A a \in Ops : a /= op => StageOf(a)' = StageOf(a)
    BY <1>5, <2>1, <1>0 DEF StageOf, TypeOK, Resolve, Throw, dataVars
  <2>8. CASE Resolve(op)
    <3>1. fs = FilesOf(op)
      BY <2>2, <2>3, <2>8, <1>b DEF Resolve
    <3>2. StageOf(op)' = "done"
      BY <2>1, <2>8, <1>0 DEF Resolve, StageOf, TypeOK
    <3>3. Stage[op] = "working" /\ Stage' = [Stage EXCEPT ![op] = "done"]
      BY <2>6, <2>7, <3>2
    <3>4. Abstract!Commit(op)
      BY <2>1, <2>4, <2>5, <3>1, <3>3 DEF Abstract!Commit, Abstract!Update
    <3> QED
      BY <3>4 DEF Abstract!Next
  <2>9. CASE Throw(op)
    <3>1. op \notin acked
      BY <2>1 DEF IInv, AckedHaveEnded
    <3>2. StageOf(op)' = "failed"
      BY <2>1, <2>9, <3>1, <1>0 DEF Throw, StageOf, TypeOK, dataVars
    <3>3. Stage[op] = "working" /\ Stage' = [Stage EXCEPT ![op] = "failed"]
      BY <2>6, <2>7, <3>2
    <3>4. Abstract!Abandon(op, fs)
      BY <2>1, <2>3, <2>4, <2>5, <3>3 DEF Abstract!Abandon, Abstract!Update
    <3> QED
      BY <3>4 DEF Abstract!Next
  <2> QED
    BY <1>5, <2>8, <2>9
<1>6. ASSUME NEW op \in Ops, Forget(op) PROVE UNCHANGED Abstract!vars
  <2>1. /\ phase[op] = "settled" /\ phase' = [phase EXCEPT ![op] = "forgotten"]
        /\ UNCHANGED <<target, ticket, clock, content, acked>>
    BY <1>6 DEF Forget, dataVars
  <2>2. \A a \in Ops : StageOf(a)' = StageOf(a) /\ FilesOf(a)' = FilesOf(a)
    BY <2>1, <1>0 DEF StageOf, FilesOf, TypeOK
  <2>3. \A f \in Files : CommittedContent(f)' = CommittedContent(f)
    BY <2>1, <1>0, <1>c DEF CommittedContent, TypeOK
  <2> QED
    BY <2>1, <2>2, <2>3 DEF Abstract!vars
<1>7. CASE UNCHANGED vars
  BY <1>7 DEF vars, Abstract!vars, StageOf, FilesOf, CommittedContent
<1>8. ASSUME NEW op \in Ops, Call(op) PROVE [Abstract!Next]_(Abstract!vars)
  <2>1. ASSUME NEW p \in Paths, CallSerial(op, p) PROVE Abstract!Next
    BY <2>1, <1>1 DEF CallSerial
  <2>2. ASSUME NEW ps \in SUBSET Paths, CallExclusive(op, ps) PROVE Abstract!Next
    BY <2>2, <1>1 DEF CallExclusive
  <2> QED
    BY <1>8, <2>1, <2>2, <1>2 DEF Call
<1> QED
  BY <1>3, <1>4, <1>5, <1>6, <1>7, <1>8 DEF Next, Run

\* To their callers the lock helpers make each operation that resolves one step
\* on all the files it named, after every earlier call's operation on any of them
\* (AtomicFileUpdates), whatever the mode, number and spelling of the calls.
THEOREM LocksImplementAtomicUpdates == Spec => ImplementsAtomicFileUpdates
<1>1. Init => Abstract!Init
  BY DEF Init, Abstract!Init, StageOf, FilesOf, CommittedContent
<1> QED
  BY <1>1, LockInvariant, StepImplementsAbstract, PTL
     DEF Spec, ImplementsAtomicFileUpdates, Abstract!Spec
=============================================================================
