---------------------------- MODULE ClusterRouter ----------------------------
(***************************************************************************)
(* server/clusterrouter.cpp: one ShardChannel, the long-lived connection     *)
(* over which a node sends internal messages to another one, with its queue.  *)
(* Channels share nothing but the map they are found in.  Any handler thread  *)
(* (Sender) uses the channel; its TcpClient lives in one I/O loop, which is    *)
(* never a sender's (the router has threads of its own, line 61-80).           *)
(*                                                                          *)
(* The loop is muduo's: it polls for events, then runs the batch of functors   *)
(* that were posted up to then; what they post waits for the next batch.       *)
(* A critical section of channel->mutex is one step; what follows it is        *)
(* another one (pc of the sender, lpc of the loop).                            *)
(***************************************************************************)
EXTENDS Naturals, Sequences

CONSTANTS
    Sender,
    MaxMsg,      \* bound: messages given to the channel
    Limit,       \* connectingQueueLimit_
    HighWater,   \* highWaterMark_, in messages
    MaxConn      \* bound: connections that are made; the last one stays up

ASSUME RouterAssumption ==
    /\ Limit \in Nat \ {0} /\ HighWater \in Nat \ {0} /\ MaxConn \in Nat \ {0}
    /\ MaxMsg \in Nat

VARIABLES
    pending, connecting, overloaded, closing,   \* ShardChannel's fields ...
    connection,  \* ... channel->connection: the number of a connection, 0 for none
    client,      \* channel->client exists
    dial,        \* its connector: off, started in this turn of the loop, or under way
    sock,        \* the connection that is up (connected() holds), 0 for none
    conns,       \* how many connections there have been
    buf,         \* messages in the output buffer of sock
    lingering,   \* a connection shut down by disconnect() has not closed yet
    batch, queued,  \* functors being run, functors posted
    lpc, lmsg,   \* what the loop's thread does next, with which message
    pc, hand, via,  \* of a sender: the same, and the connection it copied
    stop,        \* stopChannel: what it does next and the connection it copied
    warmed,      \* the target is in warmedNodeInstances_
    by,          \* who gave the messages to sendInternalMessage, in order
    stream       \* messages written to a connection or its buffer, in order

chanVars == <<pending, connecting, overloaded, closing, connection>>
sockVars == <<client, dial, sock, conns, buf, lingering>>
loopVars == <<batch, queued, lpc, lmsg>>
sendVars == <<pc, hand, via, by>>
vars == <<chanVars, sockVars, loopVars, sendVars, stop, warmed, stream>>

(* Messages are numbered in the order in which they are given to the channel; 0 *)
(* is none                                                                     *)
Msg == 1..MaxMsg

Functor == [op: {"send"}, msg: Msg, conn: 1..MaxConn]
           \union [op: {"drain", "connect", "highWater", "writeComplete", "down"}]
           \union [op: {"stop"}, conn: 0..MaxConn]

TypeOK ==
    /\ pending \in Seq(Msg) /\ Len(pending) <= Limit
    /\ {connecting, overloaded, closing, client, lingering, warmed} \subseteq BOOLEAN
    /\ {connection, sock, conns} \subseteq 0..MaxConn
    /\ dial \in {"off", "new", "ready"} /\ buf \in Nat
    /\ batch \in Seq(Functor) /\ queued \in Seq(Functor)
    /\ lpc \in {"next", "up", "down", "drain", "drainSend", "ensure", "noClient"}
    /\ lmsg \in 0..MaxMsg
    /\ pc   \in [Sender -> {"idle", "send", "connect", "drain"}]
    /\ hand \in [Sender -> 0..MaxMsg]
    /\ via  \in [Sender -> 0..MaxConn]
    /\ stop \in [pc: {"no", "post", "done"}, conn: 0..MaxConn]
    /\ by \in Seq(Sender) /\ stream \in Seq(Msg)

Init ==
    /\ pending = <<>> /\ connecting = FALSE /\ overloaded = FALSE /\ closing = FALSE
    /\ connection = 0 /\ client = FALSE /\ dial = "off" /\ sock = 0 /\ conns = 0 /\ buf = 0
    /\ lingering = FALSE /\ batch = <<>> /\ queued = <<>> /\ lpc = "next" /\ lmsg = 0
    /\ pc = [s \in Sender |-> "idle"] /\ hand = [s \in Sender |-> 0]
    /\ via = [s \in Sender |-> 0]
    /\ stop = [pc |-> "no", conn |-> 0] /\ warmed = FALSE
    /\ by = <<>> /\ stream = <<>>

(* channel->connection && channel->connection->connected() *)
Connected == connection # 0 /\ connection = sock

Post(f)    == queued' = Append(queued, f)
Goto(s, l) == pc' = [pc EXCEPT ![s] = l]

-----------------------------------------------------------------------------
(* Senders: sendInternalMessage, prewarmNode *)

(* The critical section of enqueueOrSend *)
Given(s, m) ==
    /\ pc[s] = "idle" /\ m = Len(by) + 1
    /\ by' = Append(by, s)
    /\ UNCHANGED <<sockVars, loopVars, overloaded, closing, connection, stop, warmed, stream>>

Refuse(s, m) ==
    /\ Given(s, m)
    /\ \/ closing
       \/ ~(Connected /\ ~overloaded /\ pending = <<>>) /\ Len(pending) >= Limit
    /\ UNCHANGED <<pending, connecting, pc, hand, via>>

SendDirect(s, m) ==
    /\ Given(s, m) /\ ~closing
    /\ Connected /\ ~overloaded /\ pending = <<>>
    /\ Goto(s, "send")
    /\ hand' = [hand EXCEPT ![s] = m] /\ via' = [via EXCEPT ![s] = connection]
    /\ UNCHANGED <<pending, connecting>>

(* Slip: the limit is tested against one too many *)
QueueOneTooMany(s, m) ==
    /\ Given(s, m) /\ ~closing
    /\ ~(Connected /\ ~overloaded /\ pending = <<>>) /\ Len(pending) <= Limit
    /\ pending' = Append(pending, m)
    /\ connecting' = (connecting \/ ~Connected)
    /\ Goto(s, IF ~Connected /\ ~connecting THEN "connect"
               ELSE IF Connected /\ ~overloaded THEN "drain" ELSE "idle")
    /\ UNCHANGED <<hand, via>>

(* Slip: closing is not tested *)
QueueClosing(s, m) ==
    /\ Given(s, m)
    /\ ~(Connected /\ ~overloaded /\ pending = <<>>) /\ Len(pending) < Limit
    /\ pending' = Append(pending, m)
    /\ connecting' = (connecting \/ ~Connected)
    /\ Goto(s, IF ~Connected /\ ~connecting THEN "connect"
               ELSE IF Connected /\ ~overloaded THEN "drain" ELSE "idle")
    /\ UNCHANGED <<hand, via>>

Queue(s, m) ==
    /\ Given(s, m) /\ ~closing
    /\ ~(Connected /\ ~overloaded /\ pending = <<>>) /\ Len(pending) < Limit
    /\ pending' = Append(pending, m)
    /\ connecting' = (connecting \/ ~Connected)
    /\ Goto(s, IF ~Connected /\ ~connecting THEN "connect"
               ELSE IF Connected /\ ~overloaded THEN "drain" ELSE "idle")
    /\ UNCHANGED <<hand, via>>

(* connection->send from another thread posts to the loop, unless the         *)
(* connection is down                                                          *)
PostSend(s) ==
    /\ pc[s] = "send"
    /\ \/ via[s] = sock /\ Post([op |-> "send", msg |-> hand[s], conn |-> via[s]])
       \/ via[s] # sock /\ UNCHANGED queued
    /\ Goto(s, "idle")
    /\ UNCHANGED <<chanVars, sockVars, batch, lpc, lmsg, hand, via, stop, warmed, by, stream>>

(* scheduleConnect, and the drain of enqueueOrSend *)
PostOther(s) ==
    /\ pc[s] \in {"connect", "drain"}
    /\ Post([op |-> pc[s]])
    /\ Goto(s, "idle")
    /\ UNCHANGED <<chanVars, sockVars, batch, lpc, lmsg, hand, via, stop, warmed, by, stream>>

Prewarm(s) ==
    /\ pc[s] = "idle" /\ ~warmed
    /\ warmed' = TRUE
    /\ LET shouldConnect == ~closing /\ ~Connected /\ ~connecting
       IN  /\ connecting' = (connecting \/ shouldConnect)
           /\ Goto(s, IF shouldConnect THEN "connect" ELSE "idle")
    /\ UNCHANGED <<pending, overloaded, closing, connection, sockVars, loopVars, hand, via, stop,
                   by, stream>>

(* stopChannel, from closeAll *)
StopChannel ==
    /\ stop.pc = "no"
    /\ closing' = TRUE /\ connecting' = FALSE /\ pending' = <<>>
    /\ connection' = 0
    /\ stop' = [pc |-> "post", conn |-> connection]
    /\ UNCHANGED <<overloaded, sockVars, loopVars, sendVars, warmed, stream>>

PostStop ==
    /\ stop.pc = "post"
    /\ Post([op |-> "stop", conn |-> stop.conn])
    /\ stop' = [stop EXCEPT !.pc = "done"]
    /\ UNCHANGED <<chanVars, sockVars, batch, lpc, lmsg, sendVars, warmed, stream>>

-----------------------------------------------------------------------------
(* The loop: events (muduo's poll) *)

Polling == lpc = "next" /\ batch = <<>>

(* Every turn: the functors posted so far are taken, a connector started goes on *)
Turn ==
    /\ Polling /\ (queued # <<>> \/ dial = "new")
    /\ batch' = queued /\ queued' = <<>>
    /\ dial' = IF dial = "new" THEN "ready" ELSE dial
    /\ UNCHANGED <<chanVars, client, sock, conns, buf, lingering, lpc, lmsg, sendVars, stop, warmed, stream>>

Up ==
    /\ Polling /\ dial = "ready" /\ conns < MaxConn
    /\ conns' = conns + 1 /\ sock' = conns + 1 /\ buf' = 0 /\ dial' = "off"
    /\ lpc' = "up"
    /\ UNCHANGED <<chanVars, client, lingering, batch, queued, lmsg, sendVars, stop, warmed, stream>>

Down ==
    /\ Polling /\ sock # 0 /\ conns < MaxConn
    /\ sock' = 0 /\ buf' = 0
    /\ lpc' = "down"
    /\ UNCHANGED <<chanVars, client, dial, conns, lingering, batch, queued, lmsg, sendVars, stop, warmed, stream>>

Lingered ==
    /\ Polling /\ lingering
    /\ lingering' = FALSE
    /\ lpc' = "down"
    /\ UNCHANGED <<chanVars, client, dial, sock, conns, buf, batch, queued, lmsg, sendVars, stop, warmed, stream>>

(* The socket takes some of the buffer; an emptied one posts the callback *)
Writable ==
    /\ Polling /\ buf > 0
    /\ buf' \in 0..(buf - 1)
    /\ IF buf' = 0 THEN Post([op |-> "writeComplete"]) ELSE UNCHANGED queued
    /\ UNCHANGED <<chanVars, client, dial, sock, conns, lingering, batch, lpc, lmsg, sendVars, stop, warmed, stream>>

(* handleConnection *)
HandleUp ==
    /\ lpc = "up"
    /\ connection' = sock /\ connecting' = FALSE /\ overloaded' = FALSE
    /\ lpc' = "drain"
    /\ UNCHANGED <<pending, closing, sockVars, batch, queued, lmsg, sendVars, stop, warmed, stream>>

(* ... and muduo's client, told to retry, starts its connector again *)
HandleDown ==
    /\ lpc = "down"
    /\ connection' = 0 /\ connecting' = ~closing /\ overloaded' = FALSE
    /\ dial' = IF client THEN "new" ELSE dial
    /\ lpc' = "next"
    /\ UNCHANGED <<pending, closing, client, sock, conns, buf, lingering, batch, queued, lmsg,
                   sendVars, stop, warmed, stream>>

-----------------------------------------------------------------------------
(* The loop: functors *)

Running(op) == lpc = "next" /\ batch # <<>> /\ Head(batch).op = op /\ batch' = Tail(batch)

(* muduo's sendInLoop: dropped with a connection that is down; else written at  *)
(* once or, after what is there, to the buffer                                 *)
SendInLoop(m, k) ==
    \/ k # sock /\ UNCHANGED <<stream, buf, queued>>
    \/ /\ k = sock /\ stream' = Append(stream, m)
       /\ \/ buf = 0 /\ UNCHANGED buf /\ Post([op |-> "writeComplete"])
          \/ /\ buf' = buf + 1
             /\ IF buf < HighWater /\ buf' >= HighWater
                THEN Post([op |-> "highWater"]) ELSE UNCHANGED queued

RunSend ==
    /\ Running("send")
    /\ SendInLoop(Head(batch).msg, Head(batch).conn)
    /\ UNCHANGED <<chanVars, client, dial, sock, conns, lingering, lpc, lmsg, sendVars, stop, warmed>>

RunHighWater ==
    /\ Running("highWater")
    /\ overloaded' = TRUE
    /\ UNCHANGED <<pending, connecting, closing, connection, sockVars, queued, lpc, lmsg, sendVars, stop,
                   warmed, stream>>

(* Slip: the mark falls, and the queue is left for the next message to push *)
RunWriteCompleteNoDrain ==
    /\ Running("writeComplete")
    /\ overloaded' = FALSE
    /\ UNCHANGED <<pending, connecting, closing, connection, sockVars, queued, lpc, lmsg, sendVars, stop,
                   warmed, stream>>

RunWriteComplete ==
    /\ Running("writeComplete")
    /\ overloaded' = FALSE
    /\ lpc' = "drain"
    /\ UNCHANGED <<pending, connecting, closing, connection, sockVars, queued, lmsg, sendVars, stop,
                   warmed, stream>>

RunDrain ==
    /\ Running("drain")
    /\ lpc' = "drain"
    /\ UNCHANGED <<chanVars, sockVars, queued, lmsg, sendVars, stop, warmed, stream>>

(* One turn of drainPendingInLoop's loop *)
DrainLeave ==
    /\ lpc = "drain"
    /\ closing \/ overloaded \/ ~Connected \/ pending = <<>>
    /\ lpc' = "next"
    /\ UNCHANGED <<chanVars, sockVars, batch, queued, lmsg, sendVars, stop, warmed, stream>>

(* Slip: the message stays at the front until it is sent *)
DrainPeek ==
    /\ lpc = "drain" /\ ~closing /\ ~overloaded /\ Connected /\ pending # <<>>
    /\ lmsg' = Head(pending)
    /\ lpc' = "drainSend"
    /\ UNCHANGED <<pending, connecting, overloaded, closing, connection, sockVars, batch, queued,
                   sendVars, stop, warmed, stream>>

DrainPop ==
    /\ lpc = "drain" /\ ~closing /\ ~overloaded /\ Connected /\ pending # <<>>
    /\ lmsg' = Head(pending) /\ pending' = Tail(pending)
    /\ lpc' = "drainSend"
    /\ UNCHANGED <<connecting, overloaded, closing, connection, sockVars, batch, queued,
                   sendVars, stop, warmed, stream>>

DrainSend ==
    /\ lpc = "drainSend"
    /\ SendInLoop(lmsg, sock)
    /\ lmsg' = 0 /\ lpc' = "drain"
    /\ UNCHANGED <<chanVars, client, dial, sock, conns, lingering, batch, sendVars, stop, warmed>>

(* The functor of scheduleConnect; ensureClientInLoop reads closing unlocked *)
RunConnect ==
    /\ Running("connect")
    /\ IF closing \/ Connected
       THEN connecting' = FALSE /\ lpc' = "next"
       ELSE lpc' = "ensure" /\ UNCHANGED connecting
    /\ UNCHANGED <<pending, overloaded, closing, connection, sockVars, queued, lmsg, sendVars, stop,
                   warmed, stream>>

EnsureClient ==
    /\ lpc = "ensure"
    /\ client' = (client \/ ~closing)
    /\ IF client' THEN /\ dial' = IF dial = "off" /\ sock = 0 THEN "new" ELSE dial
                       /\ lpc' = "next"
                  ELSE lpc' = "noClient" /\ UNCHANGED dial
    /\ UNCHANGED <<chanVars, sock, conns, buf, lingering, batch, queued, lmsg, sendVars, stop, warmed, stream>>

ConnectFailed ==
    /\ lpc = "noClient"
    /\ connecting' = FALSE
    /\ lpc' = "next"
    /\ UNCHANGED <<pending, overloaded, closing, connection, sockVars, batch, queued, lmsg, sendVars, stop,
                   warmed, stream>>

(* The functor of stopChannel: forceClose if it copied the connection, and      *)
(* disconnect (a shutdown that completes when the peer closes), stop, reset      *)
RunStop ==
    /\ Running("stop")
    /\ client' = FALSE /\ dial' = "off"
    /\ sock' = 0 /\ buf' = 0
    /\ IF Head(batch).conn # 0 /\ Head(batch).conn = sock
       THEN Post([op |-> "down"]) /\ UNCHANGED lingering
       ELSE lingering' = (sock # 0) /\ UNCHANGED queued
    /\ UNCHANGED <<chanVars, conns, lpc, lmsg, sendVars, stop, warmed, stream>>

RunDown ==
    /\ Running("down")
    /\ lpc' = "down"
    /\ UNCHANGED <<chanVars, sockVars, queued, lmsg, sendVars, stop, warmed, stream>>

-----------------------------------------------------------------------------
LoopStep ==
    \/ Turn \/ HandleUp \/ HandleDown \/ RunSend \/ RunHighWater \/ RunWriteComplete \/ RunDrain
    \/ DrainLeave \/ DrainPop \/ DrainSend \/ RunConnect \/ EnsureClient \/ ConnectFailed
    \/ RunStop \/ RunDown

SenderStep(s) == PostSend(s) \/ PostOther(s)

Next ==
    \/ LoopStep \/ Up \/ Down \/ Lingered \/ Writable
    \/ \E s \in Sender :
          \/ SenderStep(s) \/ Prewarm(s)
          \/ \E m \in Msg : Refuse(s, m) \/ SendDirect(s, m) \/ Queue(s, m)
    \/ StopChannel \/ PostStop

Spec == Init /\ [][Next]_vars

(* The loop runs, a sender inside a call goes on, and the peer's node listens    *)
(* again and reads: retry is on.                                                *)
FairSpec ==
    /\ Spec /\ WF_vars(LoopStep) /\ WF_vars(Up) /\ WF_vars(Writable)
    /\ \A s \in Sender : WF_vars(SenderStep(s))

-----------------------------------------------------------------------------
(* enqueueOrSend 320-328, scheduleConnect 357 and handleConnection 441: a queued *)
(* message never waits for a wake-up that nobody will give.  The flags connecting *)
(* and overloaded each promise that somebody will drain; a promise broken once     *)
(* (by a lost connection, a late high-water mark, a connect that found nothing to   *)
(* do) would block the channel for good.                                          *)
PendingServed == pending # <<>> ~> pending = <<>>

(* A message given to the channel is written at most once and is in one place    *)
(* only, however connections come and go: the peer gets no duplicate.             *)
Places(m) ==
    {<<"pending", i>> : i \in {j \in DOMAIN pending : pending[j] = m}}
    \union {<<"stream", i>> : i \in {j \in DOMAIN stream : stream[j] = m}}
    \union {<<"functor", i>> : i \in {j \in DOMAIN (batch \o queued) :
                                         (batch \o queued)[j].op = "send" /\ (batch \o queued)[j].msg = m}}
    \union {<<"sender", s>> : s \in {t \in Sender : pc[t] = "send" /\ hand[t] = m}}
    \union {<<"drain", 0>> : x \in {y \in {0} : lmsg = m}}

AtMostOnce == \A m \in Msg : \A p, q \in Places(m) : p = q

(* stopChannel: a closed channel stays empty whatever senders and connect        *)
(* functors come late, and once its stop functor ran it has no client and makes   *)
(* no connection again.                                                          *)
StopPosted == \E i \in DOMAIN (batch \o queued) : (batch \o queued)[i].op = "stop"
StoppedStaysStopped ==
    /\ closing => pending = <<>>
    /\ stop.pc = "done" /\ ~StopPosted => ~client /\ dial = "off" /\ sock = 0

(* enqueueOrSend 302-305: queueing behind a backlog or a high-water mark keeps    *)
(* the sending order of a shard.  Messages of one sender are written in the order  *)
(* in which it gave them to the channel.                                          *)
InOrder ==
    \A i, j \in DOMAIN stream :
        i < j /\ by[stream[i]] = by[stream[j]] => stream[i] < stream[j]
=============================================================================
