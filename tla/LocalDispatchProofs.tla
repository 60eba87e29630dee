------------------------- MODULE LocalDispatchProofs -------------------------
(***************************************************************************)
(* The dispatcher's invariants and that it implements OrderedDelivery, for   *)
(* any number of threads, connections and messages and any queue limit.      *)
(***************************************************************************)
EXTENDS LocalDispatch, TLAPS

USE DispatchAssumption

(* The facts about threads and messages that a step rests on, besides types:   *)
(* a thread past Lookup has its message, and nobody else ever takes it; a batch *)
(* is only held by a running drain; only the loop's thread drains.              *)
HandInv ==
    /\ \A t \in Thread : pc[t] = "enqueue" => hand[t] \in begun \ taken
    /\ \A s, t \in Thread : pc[s] = "enqueue" /\ pc[t] = "enqueue" /\ hand[s] = hand[t] => s = t
    /\ \A t \in Thread : pc[t] = "drain" => t = Loop
    /\ tasks # <<>> => Draining

LEMMA InitOK == Init => TypeOK /\ HandInv
<1>1. <<>> \in Seq(Msg)
  OBVIOUS
<1>2. ASSUME Init PROVE TypeOK
  <2>1. pending \in Seq(Msg) /\ tasks \in Seq(Msg) /\ out \in Seq(Msg)
    BY <1>1, <1>2 DEF Init
  <2>2. pc \in [Thread -> {"idle", "enqueue", "schedule", "drain"}] /\ hand \in [Thread -> Msg \union {None}]
    BY <1>2 DEF Init
  <2>3. open \in SUBSET Conn /\ flushScheduled \in BOOLEAN /\ functors \in Nat
    BY <1>2 DEF Init
  <2>4. begun \in SUBSET Msg /\ taken \in SUBSET begun
    BY <1>2 DEF Init
  <2> QED BY <2>1, <2>2, <2>3, <2>4 DEF TypeOK
<1>3. Init => HandInv
  BY DEF Init, HandInv
<1> QED BY <1>2, <1>3

LEMMA TypeStep == ASSUME TypeOK, HandInv, [Next]_vars PROVE TypeOK'
<1>1. CASE UNCHANGED vars
  BY <1>1 DEF vars, TypeOK
<1>2. ASSUME NEW t \in Thread, NEW m \in Msg, Lookup(t, m) PROVE TypeOK'
  BY <1>2 DEF Lookup, TypeOK, Goto
<1>3. ASSUME NEW t \in Thread, EnqueueFull(t) PROVE TypeOK'
  BY <1>3 DEF EnqueueFull, TypeOK, Goto
<1>4. ASSUME NEW t \in Thread, Enqueue(t) PROVE TypeOK'
  <2>1. hand[t] \in Msg /\ hand[t] \in begun
    BY <1>4 DEF Enqueue, TypeOK, HandInv
  <2>2. pending' \in Seq(Msg) /\ taken' \in SUBSET begun'
    BY <1>4, <2>1 DEF Enqueue, TypeOK
  <2> QED BY <1>4, <2>2 DEF Enqueue, TypeOK, Goto
<1>5. ASSUME NEW t \in Thread, Schedule(t) PROVE TypeOK'
  BY <1>5 DEF Schedule, TypeOK, Goto
<1>6. CASE RunFunctor
  BY <1>6 DEF RunFunctor, TypeOK, Goto
<1>7. CASE DrainSwap
  BY <1>7 DEF DrainSwap, TypeOK
<1>8. CASE DrainLeave
  BY <1>8 DEF DrainLeave, TypeOK, Goto
<1>9. CASE DrainSend
  <2>1. tasks' \in Seq(Msg) /\ out' \in Seq(Msg)
    BY <1>9 DEF DrainSend, TypeOK
  <2> QED BY <1>9, <2>1 DEF DrainSend, TypeOK
<1>10. ASSUME NEW c \in Conn, Close(c) PROVE TypeOK'
  BY <1>10 DEF Close, TypeOK
<1> QED BY <1>1, <1>2, <1>3, <1>4, <1>5, <1>6, <1>7, <1>8, <1>9, <1>10 DEF Next, LoopStep, Deliver

LEMMA HandStep == ASSUME TypeOK, HandInv, [Next]_vars PROVE HandInv'
<1>1. CASE UNCHANGED vars
  BY <1>1 DEF vars, HandInv, Draining
<1>2. ASSUME NEW t \in Thread, NEW m \in Msg, Lookup(t, m) PROVE HandInv'
  BY <1>2 DEF Lookup, Offered, TypeOK, HandInv, Goto, Draining
<1>3. ASSUME NEW t \in Thread, EnqueueFull(t) PROVE HandInv'
  BY <1>3 DEF EnqueueFull, TypeOK, HandInv, Goto, Draining
<1>4. ASSUME NEW t \in Thread, Enqueue(t) PROVE HandInv'
  BY <1>4 DEF Enqueue, TypeOK, HandInv, Goto, Draining
<1>5. ASSUME NEW t \in Thread, Schedule(t) PROVE HandInv'
  BY <1>5 DEF Schedule, TypeOK, HandInv, Goto, Draining
<1>6. CASE RunFunctor
  BY <1>6 DEF RunFunctor, TypeOK, HandInv, Goto, Draining
<1>7. CASE DrainSwap
  BY <1>7 DEF DrainSwap, TypeOK, HandInv, Draining
<1>8. CASE DrainLeave
  BY <1>8 DEF DrainLeave, TypeOK, HandInv, Goto, Draining
<1>9. CASE DrainSend
  BY <1>9 DEF DrainSend, TypeOK, HandInv, Draining
<1>10. ASSUME NEW c \in Conn, Close(c) PROVE HandInv'
  BY <1>10 DEF Close, TypeOK, HandInv, Draining
<1> QED BY <1>1, <1>2, <1>3, <1>4, <1>5, <1>6, <1>7, <1>8, <1>9, <1>10 DEF Next, LoopStep, Deliver

LEMMA DrainStep == ASSUME TypeOK, HandInv, OneDrain, [Next]_vars PROVE OneDrain'
<1> USE DEF OneDrain, Scheduling, Draining, TypeOK, Goto
<1>1. CASE UNCHANGED vars
  BY <1>1 DEF vars
<1>2. ASSUME NEW t \in Thread, NEW m \in Msg, Lookup(t, m) PROVE OneDrain'
  BY <1>2 DEF Lookup
<1>3. ASSUME NEW t \in Thread, EnqueueFull(t) PROVE OneDrain'
  BY <1>3 DEF EnqueueFull
<1>4. ASSUME NEW t \in Thread, Enqueue(t) PROVE OneDrain'
  <2>1. CASE flushScheduled
    BY <1>4, <2>1 DEF Enqueue
  <2>2. CASE ~flushScheduled
    BY <1>4, <2>2 DEF Enqueue
  <2> QED BY <2>1, <2>2
<1>5. ASSUME NEW t \in Thread, Schedule(t) PROVE OneDrain'
  <2>1. CASE t = Loop
    <3>1. \A s \in Thread : pc'[s] # "schedule"
      BY <1>5, <2>1 DEF Schedule
    <3>2. pc'[Loop] = "drain" /\ functors' = functors /\ functors = 0 /\ flushScheduled
      BY <1>5, <2>1 DEF Schedule
    <3> QED BY <1>5, <3>1, <3>2 DEF Schedule
  <2>2. CASE t # Loop
    BY <1>5, <2>2 DEF Schedule
  <2> QED BY <2>1, <2>2
<1>6. CASE RunFunctor
  BY <1>6 DEF RunFunctor
<1>7. CASE DrainSwap
  BY <1>7 DEF DrainSwap
<1>8. CASE DrainLeave
  BY <1>8 DEF DrainLeave
<1>9. CASE DrainSend
  BY <1>9 DEF DrainSend
<1>10. ASSUME NEW c \in Conn, Close(c) PROVE OneDrain'
  BY <1>10 DEF Close
<1> QED BY <1>1, <1>2, <1>3, <1>4, <1>5, <1>6, <1>7, <1>8, <1>9, <1>10 DEF Next, LoopStep, Deliver

(* Types, for any threads, connections, messages and limit: a thread that goes   *)
(* to queue a message has one (the LocalDeliveryTask is complete).                *)
THEOREM DispatchTypeCorrect == Spec => []TypeOK
BY InitOK, TypeStep, HandStep, PTL DEF Spec

(* A drain is under way exactly while the flag is set, one at a time, and none   *)
(* is missing while messages wait: the hand-over of flushScheduled between the    *)
(* two critical sections can neither lose a wake-up nor start two drains.         *)
THEOREM DrainCorrect == Spec => []OneDrain
<1>1. Init => OneDrain
  BY DEF Init, OneDrain, Scheduling, Draining
<1> QED BY <1>1, InitOK, TypeStep, HandStep, DrainStep, PTL DEF Spec

(***************************************************************************)
(* The limit is tested against pending alone.  One batch of at most Limit     *)
(* is out of it, so the backlog stays within twice the limit.                 *)
(***************************************************************************)
Bounds == Len(pending) <= Limit /\ Len(tasks) <= Limit

LEMMA BoundsStep == ASSUME TypeOK, Bounds, [Next]_vars PROVE Bounds'
<1> USE DEF Bounds, TypeOK
<1>1. CASE UNCHANGED <<pending, tasks>>
  BY <1>1
<1>2. ASSUME NEW t \in Thread, Enqueue(t) PROVE Bounds'
  <2>1. Len(pending') = Len(pending) + 1
    BY <1>2 DEF Enqueue
  <2> QED BY <1>2, <2>1 DEF Enqueue
<1>3. CASE DrainSwap
  BY <1>3 DEF DrainSwap
<1>4. CASE DrainSend
  <2>1. Len(tasks') = Len(tasks) - 1
    BY <1>4 DEF DrainSend
  <2> QED BY <1>4, <2>1 DEF DrainSend
<1> QED BY <1>1, <1>2, <1>3, <1>4 DEF Next, LoopStep, Deliver, Lookup, EnqueueFull, Schedule, RunFunctor,
        DrainLeave, Close, vars

(* local_delivery_queue_limit really bounds the memory a slow loop can hold       *)
(* (chatservice.cpp:727), although the batch being sent escapes its test.          *)
THEOREM BacklogCorrect == Spec => []BacklogBounded
<1>1. Init => Bounds
  BY DEF Init, Bounds
<1>2. TypeOK /\ Bounds => BacklogBounded
  BY DEF TypeOK, Bounds, BacklogBounded
<1> QED BY <1>1, <1>2, InitOK, TypeStep, HandStep, BoundsStep, PTL DEF Spec

-----------------------------------------------------------------------------
(* Refinement: pending behind the batch in hand is OrderedDelivery's queue.       *)

LEMMA AppendBehind ==
    ASSUME NEW S, NEW s \in Seq(S), NEW t \in Seq(S), NEW m \in S
    PROVE  s \o Append(t, m) = Append(s \o t, m)
OBVIOUS

LEMMA TakeInFront ==
    ASSUME NEW S, NEW s \in Seq(S), NEW t \in Seq(S), s # <<>>
    PROVE  s \o t # <<>> /\ Head(s \o t) = Head(s) /\ Tail(s \o t) = Tail(s) \o t
OBVIOUS

LEMMA PromiseInit == Init => Promise!Init
BY DEF Init, Promise!Init

LEMMA PromiseStep == ASSUME TypeOK, HandInv, [Next]_vars PROVE [Promise!Next]_Promise!vars
<1> USE DEF Promise!vars
<1>1. CASE UNCHANGED <<open, taken, pending, tasks, out>>
  BY <1>1
<1>2. ASSUME NEW t \in Thread, Enqueue(t) PROVE Promise!Next
  <2>1. hand[t] \in Msg /\ hand[t] \notin taken
    BY <1>2 DEF Enqueue, TypeOK, HandInv
  <2>2. tasks \o Append(pending, hand[t]) = Append(tasks \o pending, hand[t])
    BY <2>1, AppendBehind DEF TypeOK
  <2>3. Promise!Take(hand[t])
    BY <1>2, <2>1, <2>2 DEF Enqueue, Promise!Take
  <2> QED BY <2>1, <2>3 DEF Promise!Next
<1>3. ASSUME DrainSwap PROVE UNCHANGED Promise!vars
  BY <1>3 DEF DrainSwap, TypeOK
<1>4. ASSUME DrainSend PROVE Promise!Next
  <2>1. /\ tasks \o pending # <<>> /\ Head(tasks \o pending) = Head(tasks)
        /\ Tail(tasks \o pending) = Tail(tasks) \o pending
    BY <1>4, TakeInFront DEF DrainSend, TypeOK
  <2>2. CASE DestOf[Head(tasks)] \in open
    BY <1>4, <2>1, <2>2 DEF DrainSend, Promise!Next, Promise!Write
  <2>3. CASE DestOf[Head(tasks)] \notin open
    BY <1>4, <2>1, <2>3 DEF DrainSend, Promise!Next, Promise!Drop
  <2> QED BY <2>2, <2>3
<1>5. ASSUME NEW c \in Conn, Close(c) PROVE Promise!Next
  <2>1. Promise!Close(c)
    BY <1>5 DEF Close, Promise!Close
  <2> QED BY <2>1 DEF Promise!Next
<1> QED BY <1>1, <1>2, <1>3, <1>4, <1>5 DEF Next, LoopStep, Deliver, Lookup, EnqueueFull, Schedule,
        RunFunctor, DrainLeave, vars

(* Every message the dispatcher takes is written once, in the order of taking,    *)
(* or dropped only with its connection down, for every interleaving of senders,    *)
(* inline drains, posted drains and lost connections.                             *)
THEOREM DispatchKeepsPromise == Spec => KeepsPromise
<1> QED BY PromiseInit, InitOK, TypeStep, HandStep, PromiseStep, PTL DEF Spec, KeepsPromise, Promise!Spec
=============================================================================
