---------------------------- MODULE LocalDispatch ----------------------------
(***************************************************************************)
(* LocalLoopDispatcher of server/chatservice.cpp: how the handlers of any    *)
(* thread hand messages to the client connections of one I/O loop without     *)
(* posting a functor to that loop for every message.  The dispatchers of      *)
(* different loops share nothing.                                             *)
(*                                                                          *)
(* pendingMutex makes each critical section one step; what a thread does      *)
(* after it has released the mutex is a step of its own (pc).                 *)
(***************************************************************************)
EXTENDS Naturals, Sequences

CONSTANTS
    Thread,     \* threads that run handlers, the loop's own among them
    Loop,       \* the thread of the loop
    Conn,       \* client connections of the loop
    Msg,        \* messages; each is delivered at most once
    DestOf,     \* the connection a message is for
    Earlier,    \* bound: the messages whose delivery begins before a message's
    Limit,      \* local_delivery_queue_limit
    None        \* no message

ASSUME DispatchAssumption ==
    /\ Loop \in Thread /\ DestOf \in [Msg -> Conn] /\ None \notin Msg
    /\ Limit \in Nat \ {0}

VARIABLES
    open,            \* connections that are up
    pending,         \* dispatcher->pending
    flushScheduled,  \* dispatcher->flushScheduled
    functors,        \* drain functors in the loop's queue
    tasks,           \* the batch the drain has taken from pending
    pc, hand,        \* of each thread: what it does next, with which message
    begun,           \* messages whose delivery has begun
    taken,           \* messages for which enqueueLocalDelivery returned, or will return, true
    out              \* messages written to their connections, in order

vars == <<open, pending, flushScheduled, functors, tasks, pc, hand, begun, taken, out>>

TypeOK ==
    /\ open \in SUBSET Conn
    /\ pending \in Seq(Msg) /\ tasks \in Seq(Msg) /\ out \in Seq(Msg)
    /\ flushScheduled \in BOOLEAN /\ functors \in Nat
    /\ pc \in [Thread -> {"idle", "enqueue", "schedule", "drain"}]
    /\ hand \in [Thread -> Msg \union {None}]
    /\ begun \in SUBSET Msg /\ taken \in SUBSET begun

Init ==
    /\ open = Conn
    /\ pending = <<>> /\ tasks = <<>> /\ out = <<>>
    /\ flushScheduled = FALSE /\ functors = 0
    /\ pc = [t \in Thread |-> "idle"] /\ hand = [t \in Thread |-> None]
    /\ begun = {} /\ taken = {}

Goto(t, l) == pc' = [pc EXCEPT ![t] = l]

Offered(m) == m \notin begun /\ Earlier[m] \subseteq begun

(* Slip: the task is built without its message *)
LookupEmpty(t, m) ==
    /\ pc[t] = "idle" /\ Offered(m) /\ DestOf[m] \in open
    /\ begun' = begun \union {m}
    /\ Goto(t, "enqueue")
    /\ UNCHANGED <<open, pending, flushScheduled, functors, tasks, hand, taken, out>>

(* deliverToLocalUser: the table names the connection.  It may be lost before  *)
(* the message is queued for it.                                               *)
Lookup(t, m) ==
    /\ pc[t] = "idle" /\ Offered(m) /\ DestOf[m] \in open
    /\ begun' = begun \union {m}
    /\ hand' = [hand EXCEPT ![t] = m]
    /\ Goto(t, "enqueue")
    /\ UNCHANGED <<open, pending, flushScheduled, functors, tasks, taken, out>>

(* The critical section of enqueueLocalDelivery *)
EnqueueFull(t) ==
    /\ pc[t] = "enqueue" /\ Len(pending) >= Limit
    /\ Goto(t, "idle")
    /\ UNCHANGED <<open, pending, flushScheduled, functors, tasks, hand, begun, taken, out>>

(* Slip: the limit is tested against one too many *)
EnqueueOneTooMany(t) ==
    /\ pc[t] = "enqueue" /\ Len(pending) <= Limit
    /\ pending' = Append(pending, hand[t])
    /\ taken' = taken \union {hand[t]}
    /\ flushScheduled' = TRUE
    /\ Goto(t, IF flushScheduled THEN "idle" ELSE "schedule")
    /\ UNCHANGED <<open, functors, tasks, hand, begun, out>>

(* Slip: flushScheduled is not set under the lock *)
EnqueueFlagless(t) ==
    /\ pc[t] = "enqueue" /\ Len(pending) < Limit
    /\ pending' = Append(pending, hand[t])
    /\ taken' = taken \union {hand[t]}
    /\ Goto(t, IF flushScheduled THEN "idle" ELSE "schedule")
    /\ UNCHANGED <<open, flushScheduled, functors, tasks, hand, begun, out>>

Enqueue(t) ==
    /\ pc[t] = "enqueue" /\ Len(pending) < Limit
    /\ pending' = Append(pending, hand[t])
    /\ taken' = taken \union {hand[t]}
    /\ flushScheduled' = TRUE
    /\ Goto(t, IF flushScheduled THEN "idle" ELSE "schedule")
    /\ UNCHANGED <<open, functors, tasks, hand, begun, out>>

(* The loop's own thread drains on the spot, any other posts a functor *)
Schedule(t) ==
    /\ pc[t] = "schedule"
    /\ \/ t = Loop /\ Goto(t, "drain") /\ UNCHANGED functors
       \/ t # Loop /\ Goto(t, "idle") /\ functors' = functors + 1
    /\ UNCHANGED <<open, pending, flushScheduled, tasks, hand, begun, taken, out>>

-----------------------------------------------------------------------------
(* The loop's thread *)

RunFunctor ==
    /\ pc[Loop] = "idle" /\ functors > 0
    /\ functors' = functors - 1
    /\ Goto(Loop, "drain")
    /\ UNCHANGED <<open, pending, flushScheduled, tasks, hand, begun, taken, out>>

(* drainLocalDeliveriesInLoop: take all of pending, or leave *)
DrainSwap ==
    /\ pc[Loop] = "drain" /\ tasks = <<>> /\ pending # <<>>
    /\ tasks' = pending /\ pending' = <<>>
    /\ UNCHANGED <<open, flushScheduled, functors, pc, hand, begun, taken, out>>

(* Slip: one batch per functor, whatever arrived meanwhile *)
DrainLeaveAnyway ==
    /\ pc[Loop] = "drain" /\ tasks = <<>>
    /\ flushScheduled' = (pending # <<>>)
    /\ Goto(Loop, "idle")
    /\ UNCHANGED <<open, pending, functors, tasks, hand, begun, taken, out>>

DrainLeave ==
    /\ pc[Loop] = "drain" /\ tasks = <<>> /\ pending = <<>>
    /\ flushScheduled' = FALSE
    /\ Goto(Loop, "idle")
    /\ UNCHANGED <<open, pending, functors, tasks, hand, begun, taken, out>>

(* Slip: the batch is taken from its end *)
DrainSendLast ==
    /\ pc[Loop] = "drain" /\ tasks # <<>>
    /\ tasks' = SubSeq(tasks, 1, Len(tasks) - 1)
    /\ out' = IF DestOf[tasks[Len(tasks)]] \in open THEN Append(out, tasks[Len(tasks)]) ELSE out
    /\ UNCHANGED <<open, pending, flushScheduled, functors, pc, hand, begun, taken>>

(* conn->send: muduo gives up on a connection that is down *)
DrainSend ==
    /\ pc[Loop] = "drain" /\ tasks # <<>>
    /\ tasks' = Tail(tasks)
    /\ out' = IF DestOf[Head(tasks)] \in open THEN Append(out, Head(tasks)) ELSE out
    /\ UNCHANGED <<open, pending, flushScheduled, functors, pc, hand, begun, taken>>

(* A connection is lost: an event of its loop, between two functors *)
Close(c) ==
    /\ pc[Loop] = "idle" /\ c \in open
    /\ open' = open \ {c}
    /\ UNCHANGED <<pending, flushScheduled, functors, tasks, pc, hand, begun, taken, out>>

LoopStep == RunFunctor \/ DrainSwap \/ DrainLeave \/ DrainSend

Deliver(t) == EnqueueFull(t) \/ Enqueue(t) \/ Schedule(t)

Next ==
    \/ LoopStep
    \/ \E t \in Thread : Deliver(t) \/ \E m \in Msg : Lookup(t, m)
    \/ \E c \in Conn : Close(c)

Spec == Init /\ [][Next]_vars

(* A thread inside deliverToLocalUser goes on, and the loop runs its functors *)
FairSpec == Spec /\ WF_vars(LoopStep) /\ \A t \in Thread : WF_vars(Deliver(t))

-----------------------------------------------------------------------------
(* enqueueLocalDelivery 736 against drainLocalDeliveriesInLoop 693: the flag   *)
(* stands for exactly one drain that is about to be posted, posted or running, *)
(* and while messages wait there is one.  A flag that falls too early strands   *)
(* the queue; one drain too many writes messages out of order.                 *)
Scheduling == {t \in Thread : pc[t] = "schedule"}
Draining   == pc[Loop] = "drain"

OneDrain ==
    /\ pending # <<>> => flushScheduled
    /\ flushScheduled <=> Scheduling # {} \/ functors > 0 \/ Draining
    /\ functors <= 1
    /\ functors = 1 => Scheduling = {} /\ ~Draining
    /\ Draining => Scheduling = {}
    /\ \A s, t \in Scheduling : s = t

(* The queue limit bounds what waits for a loop, but not below twice its value:  *)
(* a batch being sent does not count.                                           *)
BacklogBounded == Len(tasks) + Len(pending) <= 2 * Limit

(* A message that was taken is written, or its connection is down *)
TakenSettles ==
    \A m \in Msg : m \in taken ~> DestOf[m] \notin open \/ \E i \in DOMAIN out : out[i] = m

(* The dispatcher implements OrderedDelivery: in particular two messages of one  *)
(* sender to one receiver on this path arrive in the order they were sent.       *)
Promise == INSTANCE OrderedDelivery WITH queue <- tasks \o pending
KeepsPromise == Promise!Spec
=============================================================================
