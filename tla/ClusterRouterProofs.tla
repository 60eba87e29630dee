------------------------- MODULE ClusterRouterProofs -------------------------
(***************************************************************************)
(* The channel to another node, for any number of senders, messages,           *)
(* connections, limits and high-water marks, with connections lost at any        *)
(* point and a shutdown: type correctness (the queue keeps its limit), a closed   *)
(* channel stays closed, no message is in two places, and none that waits is      *)
(* forgotten.                                                                    *)
(***************************************************************************)
EXTENDS ClusterRouter, TLAPS

USE RouterAssumption

(* Functors *)
Plain == [op: {"drain", "connect", "highWater", "writeComplete", "down"}]
Send  == [op: {"send"}, msg: Msg, conn: 1..MaxConn]

(* What a sender or the loop carries between two steps *)
CarryInv ==
    /\ \A s \in Sender : pc[s] = "send" => hand[s] \in Msg /\ via[s] \in 1..MaxConn
    /\ lpc = "drainSend" <=> lmsg # 0

ChannelInv == TypeOK /\ CarryInv

(* TypeOK in two parts: the flags, and the rest *)
Flags == {connecting, overloaded, closing, client, lingering, warmed} \subseteq BOOLEAN
Shapes ==
    /\ pending \in Seq(Msg) /\ Len(pending) <= Limit
    /\ {connection, sock, conns} \subseteq 0..MaxConn
    /\ dial \in {"off", "new", "ready"} /\ buf \in Nat
    /\ batch \in Seq(Functor) /\ queued \in Seq(Functor)
    /\ lpc \in {"next", "up", "down", "drain", "drainSend", "ensure", "noClient"}
    /\ lmsg \in 0..MaxMsg
    /\ pc   \in [Sender -> {"idle", "send", "connect", "drain"}]
    /\ hand \in [Sender -> 0..MaxMsg]
    /\ via  \in [Sender -> 0..MaxConn]
    /\ stop \in [pc: {"no", "post", "done"}, conn: 0..MaxConn]
    /\ by \in Seq(Sender) /\ stream \in Seq(Msg)

LEMMA TypeParts == ChannelInv <=> Flags /\ Shapes /\ CarryInv
BY DEF ChannelInv, TypeOK, Flags, Shapes

LEMMA TypePartsNext == (ChannelInv <=> Flags /\ Shapes /\ CarryInv)'
BY TypeParts, PTL

-----------------------------------------------------------------------------
(* Sequences *)

LEMMA SeqTail ==
    ASSUME NEW S, NEW q \in Seq(S), q # <<>>
    PROVE  /\ Head(q) \in S /\ Tail(q) \in Seq(S) /\ Len(Tail(q)) = Len(q) - 1 /\ Len(q) \in Nat /\ Len(q) > 0
           /\ Head(q) = q[1] /\ \A i \in 1..Len(Tail(q)) : Tail(q)[i] = q[i + 1]
OBVIOUS

LEMMA SeqAppend ==
    ASSUME NEW S, NEW q \in Seq(S), NEW x \in S
    PROVE  /\ Append(q, x) \in Seq(S) /\ Len(Append(q, x)) = Len(q) + 1 /\ Len(q) \in Nat
           /\ Append(q, x)[Len(q) + 1] = x /\ \A i \in 1..Len(q) : Append(q, x)[i] = q[i]
OBVIOUS

LEMMA PostType ==
    ASSUME ChannelInv, NEW f \in Functor, Post(f)
    PROVE  queued' \in Seq(Functor)
BY SeqAppend DEF Post, ChannelInv, TypeOK

LEMMA PostPlain ==
    ASSUME NEW o \in {"drain", "connect", "highWater", "writeComplete", "down"}
    PROVE  [op |-> o] \in Functor
BY DEF Functor

LEMMA RunType ==
    ASSUME ChannelInv, NEW o, Running(o)
    PROVE  /\ batch' \in Seq(Functor) /\ Head(batch) \in Functor
           /\ o = "send" => Head(batch).msg \in Msg /\ Head(batch).conn \in 1..MaxConn
           /\ o = "stop" => Head(batch).conn \in 0..MaxConn
<1>1. batch' \in Seq(Functor) /\ Head(batch) \in Functor /\ Head(batch).op = o
  BY SeqTail DEF Running, ChannelInv, TypeOK
<1> QED BY <1>1 DEF Functor

LEMMA SendInLoopType ==
    ASSUME ChannelInv, NEW m \in Msg, NEW k, SendInLoop(m, k)
    PROVE  stream' \in Seq(Msg) /\ buf' \in Nat /\ queued' \in Seq(Functor)
<1>1. CASE k # sock /\ UNCHANGED <<stream, buf, queued>>
  BY <1>1 DEF ChannelInv, TypeOK
<1>2. CASE k = sock /\ stream' = Append(stream, m)
  <2>1. stream' \in Seq(Msg) /\ buf' \in Nat
    BY <1>2, SeqAppend DEF SendInLoop, ChannelInv, TypeOK
  <2>2. queued' \in Seq(Functor)
    BY <1>2, PostPlain, PostType DEF SendInLoop, ChannelInv, TypeOK
  <2> QED BY <2>1, <2>2
<1> QED BY <1>1, <1>2 DEF SendInLoop

-----------------------------------------------------------------------------
(* Types *)

LEMMA NoneQueued == \A S : <<>> \in Seq(S) /\ Len(<<>>) = 0
OBVIOUS

LEMMA ChannelInit == Init => ChannelInv
<1> SUFFICES ASSUME Init PROVE ChannelInv
  OBVIOUS
<1>1. pending \in Seq(Msg) /\ Len(pending) <= Limit /\ batch \in Seq(Functor) /\ queued \in Seq(Functor)
      /\ by \in Seq(Sender) /\ stream \in Seq(Msg)
  BY NoneQueued DEF Init
<1>2. pc \in [Sender -> {"idle", "send", "connect", "drain"}] /\ hand \in [Sender -> 0..MaxMsg]
      /\ via \in [Sender -> 0..MaxConn] /\ \A s \in Sender : pc[s] # "send"
  BY DEF Init
<1>3. {connecting, overloaded, closing, client, lingering, warmed} \subseteq BOOLEAN
  BY DEF Init
<1>4. Shapes /\ CarryInv
  BY <1>1, <1>2 DEF Init, Shapes, CarryInv
<1>5. Flags
  BY <1>3 DEF Flags
<1> QED BY <1>4, <1>5, TypeParts

LEMMA SenderStepOK ==
    ASSUME ChannelInv, NEW s \in Sender,
           PostSend(s) \/ PostOther(s) \/ Prewarm(s) \/ \E m \in Msg : Refuse(s, m) \/ SendDirect(s, m) \/ Queue(s, m)
    PROVE  ChannelInv'
<1>1. CASE PostSend(s)
  <2>1. queued' \in Seq(Functor)
    <3>1. hand[s] \in Msg /\ via[s] \in 1..MaxConn
      BY <1>1 DEF PostSend, ChannelInv, CarryInv
    <3>2. [op |-> "send", msg |-> hand[s], conn |-> via[s]] \in Functor
      BY <3>1 DEF Functor
    <3> QED BY <1>1, <3>2, PostType DEF PostSend, ChannelInv, TypeOK
  <2> QED BY <1>1, <2>1 DEF PostSend, Goto, ChannelInv, TypeOK, CarryInv, chanVars, sockVars
<1>2. CASE PostOther(s)
  <2>1. queued' \in Seq(Functor)
    BY <1>2, PostPlain, PostType DEF PostOther
  <2> QED BY <1>2, <2>1 DEF PostOther, Goto, ChannelInv, TypeOK, CarryInv, chanVars, sockVars
<1>3. CASE Prewarm(s)
  BY <1>3 DEF Prewarm, Goto, ChannelInv, TypeOK, CarryInv, sockVars, loopVars
<1>4. ASSUME NEW m \in Msg, Refuse(s, m) PROVE ChannelInv'
  <2>1. by' \in Seq(Sender)
    BY <1>4, SeqAppend DEF Refuse, Given, ChannelInv, TypeOK
  <2> QED BY <1>4, <2>1 DEF Refuse, Given, ChannelInv, TypeOK, CarryInv, sockVars, loopVars
<1>5. ASSUME NEW m \in Msg, SendDirect(s, m) PROVE ChannelInv'
  <2>1. by' \in Seq(Sender)
    BY <1>5, SeqAppend DEF SendDirect, Given, ChannelInv, TypeOK
  <2>2. connection \in 1..MaxConn /\ m \in 0..MaxMsg
    BY <1>5 DEF SendDirect, Connected, ChannelInv, TypeOK, Msg
  <2> QED BY <1>5, <2>1, <2>2 DEF SendDirect, Given, Goto, ChannelInv, TypeOK, CarryInv, sockVars, loopVars
<1>6. ASSUME NEW m \in Msg, Queue(s, m) PROVE ChannelInv'
  <2>1. by' \in Seq(Sender)
    BY <1>6, SeqAppend DEF Queue, Given, ChannelInv, TypeOK
  <2>2. pending' \in Seq(Msg) /\ Len(pending') <= Limit
    BY <1>6, SeqAppend DEF Queue, Given, ChannelInv, TypeOK
  <2> QED BY <1>6, <2>1, <2>2 DEF Queue, Given, Goto, ChannelInv, TypeOK, CarryInv, sockVars, loopVars
<1> QED BY <1>1, <1>2, <1>3, <1>4, <1>5, <1>6

LEMMA StopStepOK == ASSUME ChannelInv, StopChannel \/ PostStop PROVE ChannelInv'
<1>1. CASE StopChannel
  <2>1. pending' \in Seq(Msg) /\ Len(pending') <= Limit
    BY <1>1, NoneQueued DEF StopChannel
  <2>2. stop' \in [pc: {"no", "post", "done"}, conn: 0..MaxConn]
    BY <1>1 DEF StopChannel, ChannelInv, TypeOK
  <2>3. Shapes' /\ CarryInv'
    BY <1>1, <2>1, <2>2, TypeParts DEF StopChannel, Shapes, CarryInv, sockVars, loopVars, sendVars
  <2>4. Flags'
    BY <1>1, TypeParts DEF StopChannel, Flags, sockVars
  <2> QED BY <2>3, <2>4, TypePartsNext
<1>2. CASE PostStop
  <2>1. [op |-> "stop", conn |-> stop.conn] \in Functor
    BY DEF ChannelInv, TypeOK, Functor
  <2>2. queued' \in Seq(Functor)
    BY <1>2, <2>1, PostType DEF PostStop
  <2> QED BY <1>2, <2>2 DEF PostStop, ChannelInv, TypeOK, CarryInv, chanVars, sockVars, sendVars
<1> QED BY <1>1, <1>2

LEMMA EventOK ==
    ASSUME ChannelInv, Turn \/ Up \/ Down \/ Lingered \/ Writable \/ HandleUp \/ HandleDown
    PROVE  ChannelInv'
<1>1. CASE Turn
  BY <1>1 DEF Turn, ChannelInv, TypeOK, CarryInv, chanVars, sendVars
<1>2. CASE Up
  BY <1>2 DEF Up, Polling, ChannelInv, TypeOK, CarryInv, chanVars, sendVars
<1>3. CASE Down
  BY <1>3 DEF Down, Polling, ChannelInv, TypeOK, CarryInv, chanVars, sendVars
<1>4. CASE Lingered
  BY <1>4 DEF Lingered, Polling, ChannelInv, TypeOK, CarryInv, chanVars, sendVars
<1>5. CASE Writable
  <2>1. queued' \in Seq(Functor)
    BY <1>5, PostPlain, PostType DEF Writable, ChannelInv, TypeOK
  <2> QED BY <1>5, <2>1 DEF Writable, ChannelInv, TypeOK, CarryInv, chanVars, sendVars
<1>6. CASE HandleUp
  BY <1>6 DEF HandleUp, ChannelInv, TypeOK, CarryInv, sockVars, sendVars
<1>7. CASE HandleDown
  <2>1. connecting' \in BOOLEAN /\ dial' \in {"off", "new", "ready"}
    BY <1>7 DEF HandleDown, ChannelInv, TypeOK
  <2>2. Shapes' /\ CarryInv'
    BY <1>7, <2>1, TypeParts DEF HandleDown, Shapes, CarryInv, sendVars
  <2>3. Flags'
    <3>1. \A x \in {connecting', FALSE, closing, client, lingering, warmed} : x \in BOOLEAN
      BY <2>1, TypeParts DEF Flags
    <3>2. /\ overloaded' = FALSE /\ closing' = closing /\ client' = client
          /\ lingering' = lingering /\ warmed' = warmed
      BY <1>7 DEF HandleDown
    <3> QED BY <3>1, <3>2 DEF Flags
  <2> QED BY <2>2, <2>3, TypePartsNext
<1> QED BY <1>1, <1>2, <1>3, <1>4, <1>5, <1>6, <1>7

LEMMA FunctorOK ==
    ASSUME ChannelInv,
           RunSend \/ RunHighWater \/ RunWriteComplete \/ RunDrain \/ RunConnect \/ RunStop \/ RunDown
    PROVE  ChannelInv'
<1>1. CASE RunSend
  <2>1. /\ batch' \in Seq(Functor) /\ stream' \in Seq(Msg) /\ buf' \in Nat /\ queued' \in Seq(Functor)
    BY <1>1, RunType, SendInLoopType DEF RunSend
  <2> QED BY <1>1, <2>1 DEF RunSend, Running, ChannelInv, TypeOK, CarryInv, chanVars, sendVars
<1>2. CASE RunHighWater
  <2>1. batch' \in Seq(Functor)
    BY <1>2, RunType DEF RunHighWater
  <2> QED BY <1>2, <2>1 DEF RunHighWater, Running, ChannelInv, TypeOK, CarryInv, sockVars, sendVars
<1>3. CASE RunWriteComplete
  <2>1. batch' \in Seq(Functor)
    BY <1>3, RunType DEF RunWriteComplete
  <2> QED BY <1>3, <2>1 DEF RunWriteComplete, Running, ChannelInv, TypeOK, CarryInv, sockVars, sendVars
<1>4. CASE RunDrain \/ RunDown
  <2>1. batch' \in Seq(Functor) /\ lpc = "next" /\ lpc' \in {"drain", "down"}
    BY <1>4, RunType DEF RunDrain, RunDown, Running
  <2>2. UNCHANGED <<chanVars, sockVars, queued, lmsg, sendVars, stop, warmed, stream>>
    BY <1>4 DEF RunDrain, RunDown
  <2> QED BY <2>1, <2>2 DEF ChannelInv, TypeOK, CarryInv, chanVars, sockVars, sendVars
<1>5. CASE RunConnect
  <2>1. batch' \in Seq(Functor)
    BY <1>5, RunType DEF RunConnect
  <2> QED BY <1>5, <2>1 DEF RunConnect, Running, ChannelInv, TypeOK, CarryInv, sockVars, sendVars
<1>6. CASE RunStop
  <2>1. batch' \in Seq(Functor)
    BY <1>6, RunType DEF RunStop
  <2>2. queued' \in Seq(Functor)
    BY <1>6, PostPlain, PostType DEF RunStop, ChannelInv, TypeOK
  <2>3. lingering' \in BOOLEAN
    BY <1>6 DEF RunStop, ChannelInv, TypeOK
  <2>4. Shapes' /\ CarryInv'
    BY <1>6, <2>1, <2>2, TypeParts DEF RunStop, Running, Shapes, CarryInv, chanVars, sendVars
  <2>5. Flags'
    <3>1. \A x \in {connecting, overloaded, closing, FALSE, lingering', warmed} : x \in BOOLEAN
      BY <2>3, TypeParts DEF Flags
    <3>2. /\ connecting' = connecting /\ overloaded' = overloaded /\ closing' = closing
          /\ client' = FALSE /\ warmed' = warmed
      BY <1>6 DEF RunStop, chanVars
    <3> QED BY <3>1, <3>2 DEF Flags
  <2> QED BY <2>4, <2>5, TypePartsNext
<1> QED BY <1>1, <1>2, <1>3, <1>4, <1>5, <1>6

LEMMA DrainOK ==
    ASSUME ChannelInv, DrainLeave \/ DrainPop \/ DrainSend \/ EnsureClient \/ ConnectFailed
    PROVE  ChannelInv'
<1>1. CASE DrainLeave
  BY <1>1 DEF DrainLeave, ChannelInv, TypeOK, CarryInv, chanVars, sockVars, sendVars
<1>2. CASE DrainPop
  <2>1. pending' \in Seq(Msg) /\ Len(pending') <= Limit /\ lmsg' \in Msg
    BY <1>2, SeqTail DEF DrainPop, ChannelInv, TypeOK
  <2>2. lmsg' \in 0..MaxMsg /\ lmsg' # 0
    BY <2>1 DEF Msg
  <2> QED BY <1>2, <2>1, <2>2 DEF DrainPop, ChannelInv, TypeOK, CarryInv, sockVars, sendVars
<1>3. CASE DrainSend
  <2>1. lmsg \in Msg
    BY <1>3 DEF DrainSend, ChannelInv, TypeOK, CarryInv, Msg
  <2>2. stream' \in Seq(Msg) /\ buf' \in Nat /\ queued' \in Seq(Functor)
    BY <1>3, <2>1, SendInLoopType DEF DrainSend
  <2> QED BY <1>3, <2>2 DEF DrainSend, ChannelInv, TypeOK, CarryInv, chanVars, sendVars
<1>4. CASE EnsureClient
  BY <1>4 DEF EnsureClient, ChannelInv, TypeOK, CarryInv, chanVars, sendVars
<1>5. CASE ConnectFailed
  BY <1>5 DEF ConnectFailed, ChannelInv, TypeOK, CarryInv, sockVars, sendVars
<1> QED BY <1>1, <1>2, <1>3, <1>4, <1>5

LEMMA ChannelNext == ASSUME ChannelInv, [Next]_vars PROVE ChannelInv'
<1>1. CASE UNCHANGED vars
  BY <1>1 DEF vars, chanVars, sockVars, loopVars, sendVars, ChannelInv, TypeOK, CarryInv
<1> QED BY <1>1, SenderStepOK, StopStepOK, EventOK, FunctorOK, DrainOK DEF Next, LoopStep, SenderStep

LEMMA ChannelReached == Spec => []ChannelInv
BY ChannelInit, ChannelNext, PTL DEF Spec

(* enqueueOrSend and drainPendingInLoop: whatever senders, connections and the shutdown    *)
(* do, pendingMessages never exceeds connectingQueueLimit_, and every functor, sender and    *)
(* drain works on a message and a connection that exist.                                 *)
THEOREM ChannelTypeCorrect == Spec => []TypeOK
<1>1. ChannelInv => TypeOK
  BY DEF ChannelInv
<1> QED BY <1>1, ChannelReached, PTL

-----------------------------------------------------------------------------
(* A closed channel.  closing is set once, by stopChannel; until its functor has run    *)
(* it is posted or about to be, and afterwards nothing brings the client back: a         *)
(* connect functor that comes late finds closing set.                                   *)
HasStop(q) == \E i \in 1..Len(q) : q[i].op = "stop"
ClosedInv ==
    /\ closing <=> stop.pc # "no"
    /\ closing => pending = <<>>
    /\ stop.pc = "done" => HasStop(batch) \/ HasStop(queued) \/ (~client /\ dial = "off" /\ sock = 0)

LEMMA StopAppend ==
    ASSUME NEW q \in Seq(Functor), NEW f \in Functor
    PROVE  HasStop(Append(q, f)) <=> HasStop(q) \/ f.op = "stop"
<1>1. Append(q, f)[Len(q) + 1] = f /\ Len(Append(q, f)) = Len(q) + 1 /\ Len(q) \in Nat
      /\ \A i \in 1..Len(q) : Append(q, f)[i] = q[i]
  BY SeqAppend
<1>2. \A i \in 1..(Len(q) + 1) : i \in 1..Len(q) \/ i = Len(q) + 1
  BY <1>1
<1>3. Len(q) + 1 \in 1..(Len(q) + 1) /\ \A i \in 1..Len(q) : i \in 1..(Len(q) + 1)
  BY <1>1
<1> QED BY <1>1, <1>2, <1>3 DEF HasStop

LEMMA StopTail ==
    ASSUME NEW q \in Seq(Functor), q # <<>>, Head(q).op # "stop"
    PROVE  HasStop(q) => HasStop(Tail(q))
<1>1. SUFFICES ASSUME NEW i \in 1..Len(q), q[i].op = "stop" PROVE HasStop(Tail(q))
  BY DEF HasStop
<1>2. Head(q) = q[1] /\ Len(Tail(q)) = Len(q) - 1 /\ Len(q) \in Nat
      /\ \A j \in 1..Len(Tail(q)) : Tail(q)[j] = q[j + 1]
  BY SeqTail
<1>3. i # 1
  BY <1>1, <1>2
<1>4. i - 1 \in 1..Len(Tail(q)) /\ (i - 1) + 1 = i
  BY <1>2, <1>3
<1> QED BY <1>1, <1>2, <1>4 DEF HasStop

(* A step that leaves the stop functor, the flags of stopChannel and the client alone *)
LEMMA ClosedKept ==
    ASSUME ClosedInv, UNCHANGED <<closing, stop>>, closing => pending' = <<>>,
           HasStop(batch) \/ HasStop(queued) => HasStop(batch') \/ HasStop(queued'),
           closing /\ ~client /\ dial = "off" /\ sock = 0 => ~client' /\ dial' = "off" /\ sock' = 0
    PROVE  ClosedInv'
BY DEF ClosedInv

LEMMA PostKeeps ==
    ASSUME ChannelInv, NEW f \in Functor, Post(f) PROVE HasStop(queued) => HasStop(queued')
BY StopAppend DEF ChannelInv, TypeOK, Post

LEMMA RunKeeps ==
    ASSUME ChannelInv, NEW o, o # "stop", Running(o) PROVE HasStop(batch) => HasStop(batch')
BY StopTail DEF ChannelInv, TypeOK, Running

LEMMA SendKeeps ==
    ASSUME ChannelInv, NEW m, NEW k, SendInLoop(m, k) PROVE HasStop(queued) => HasStop(queued')
BY PostPlain, PostKeeps DEF SendInLoop

LEMMA ClosedNext == ASSUME ChannelInv, ClosedInv, [Next]_vars PROVE ClosedInv'
<1> DEFINE Mine == HasStop(batch) \/ HasStop(queued) => HasStop(batch') \/ HasStop(queued')
<1>1. CASE UNCHANGED vars
  BY <1>1 DEF vars, chanVars, sockVars, loopVars, ClosedInv
<1>2. ASSUME NEW s \in Sender, PostSend(s) \/ PostOther(s) PROVE ClosedInv'
  <2>1. UNCHANGED <<chanVars, sockVars, stop, batch>>
    BY <1>2 DEF PostSend, PostOther
  <2>2. HasStop(queued) => HasStop(queued')
    <3>1. CASE PostSend(s) /\ via[s] = sock
      <4>1. hand[s] \in Msg /\ via[s] \in 1..MaxConn
        BY <3>1 DEF PostSend, ChannelInv, CarryInv
      <4>2. [op |-> "send", msg |-> hand[s], conn |-> via[s]] \in Functor
        BY <4>1 DEF Functor
      <4> QED BY <3>1, <4>2, PostKeeps DEF PostSend
    <3>2. CASE PostSend(s) /\ via[s] # sock
      BY <3>2 DEF PostSend
    <3>3. CASE PostOther(s)
      BY <3>3, PostPlain, PostKeeps DEF PostOther
    <3> QED BY <1>2, <3>1, <3>2, <3>3
  <2> QED BY <2>1, <2>2, ClosedKept DEF chanVars, sockVars, ClosedInv
<1>3. ASSUME NEW s \in Sender, Prewarm(s) \/ \E m \in Msg : Refuse(s, m) \/ SendDirect(s, m) \/ Queue(s, m)
      PROVE  ClosedInv'
  <2>1. UNCHANGED <<sockVars, batch, queued, closing, stop>> /\ (closing => pending' = pending)
    BY <1>3 DEF Prewarm, Refuse, SendDirect, Queue, Given, loopVars
  <2> QED BY <2>1, ClosedKept DEF sockVars, ClosedInv
<1>4. CASE StopChannel
  BY <1>4 DEF StopChannel, ClosedInv
<1>5. CASE PostStop
  <2>1. [op |-> "stop", conn |-> stop.conn] \in Functor
    BY DEF ChannelInv, TypeOK, Functor
  <2>2. HasStop(queued')
    BY <1>5, <2>1, StopAppend DEF PostStop, Post, ChannelInv, TypeOK
  <2>3. closing' = closing /\ pending' = pending /\ stop'.pc # "no" /\ stop.pc # "no"
    BY <1>5 DEF PostStop, chanVars, ChannelInv, TypeOK
  <2> QED BY <2>2, <2>3 DEF ClosedInv
<1>6. CASE Turn
  <2>1. UNCHANGED <<chanVars, client, sock, stop>> /\ batch' = queued /\ batch = <<>>
        /\ (dial = "off" => dial' = "off")
    BY <1>6 DEF Turn, Polling
  <2>2. ~HasStop(batch)
    BY <2>1, NoneQueued DEF HasStop
  <2> QED BY <2>1, <2>2, ClosedKept DEF chanVars, ClosedInv
<1>7. CASE Up \/ Down \/ Lingered
  <2>1. UNCHANGED <<chanVars, client, batch, queued, stop>>
        /\ (dial = "off" /\ sock = 0 => dial' = "off" /\ sock' = 0)
    BY <1>7 DEF Up, Down, Lingered
  <2> QED BY <2>1, ClosedKept DEF chanVars, ClosedInv
<1>8. CASE Writable
  <2>1. UNCHANGED <<chanVars, client, dial, sock, batch, stop>>
    BY <1>8 DEF Writable
  <2>2. HasStop(queued) => HasStop(queued')
    BY <1>8, PostPlain, PostKeeps DEF Writable
  <2> QED BY <2>1, <2>2, ClosedKept DEF chanVars, ClosedInv
<1>9. CASE HandleUp \/ HandleDown
  <2>1. UNCHANGED <<pending, closing, client, sock, batch, queued, stop>> /\ (~client => dial' = dial)
    BY <1>9 DEF HandleUp, HandleDown, sockVars
  <2> QED BY <2>1, ClosedKept DEF ClosedInv
<1>10. CASE RunSend
  <2>1. UNCHANGED <<chanVars, client, dial, sock, stop>>
    BY <1>10 DEF RunSend
  <2>2. HasStop(queued) => HasStop(queued')
    BY <1>10, SendKeeps DEF RunSend
  <2>3. HasStop(batch) => HasStop(batch')
    BY <1>10, RunKeeps DEF RunSend
  <2> QED BY <2>1, <2>2, <2>3, ClosedKept DEF chanVars, ClosedInv
<1>11. CASE RunHighWater \/ RunWriteComplete \/ RunDrain \/ RunConnect \/ RunDown
  <2>1. UNCHANGED <<pending, closing, sockVars, queued, stop>>
    BY <1>11 DEF RunHighWater, RunWriteComplete, RunDrain, RunConnect, RunDown, chanVars
  <2>2. HasStop(batch) => HasStop(batch')
    BY <1>11, RunKeeps DEF RunHighWater, RunWriteComplete, RunDrain, RunConnect, RunDown
  <2> QED BY <2>1, <2>2, ClosedKept DEF sockVars, ClosedInv
<1>12. CASE DrainLeave \/ ConnectFailed
  <2>1. UNCHANGED <<pending, closing, sockVars, batch, queued, stop>>
    BY <1>12 DEF DrainLeave, ConnectFailed, chanVars
  <2> QED BY <2>1, ClosedKept DEF sockVars, ClosedInv
<1>13. CASE DrainPop
  <2>1. UNCHANGED <<closing, sockVars, batch, queued, stop>> /\ ~closing
    BY <1>13 DEF DrainPop
  <2> QED BY <2>1, ClosedKept DEF sockVars
<1>14. CASE DrainSend
  <2>1. UNCHANGED <<chanVars, client, dial, sock, batch, stop>>
    BY <1>14 DEF DrainSend
  <2>2. HasStop(queued) => HasStop(queued')
    BY <1>14, SendKeeps DEF DrainSend
  <2> QED BY <2>1, <2>2, ClosedKept DEF chanVars, ClosedInv
<1>15. CASE EnsureClient
  <2>1. UNCHANGED <<chanVars, sock, batch, queued, stop>> /\ (closing /\ ~client => ~client' /\ dial' = dial)
    BY <1>15 DEF EnsureClient
  <2> QED BY <2>1, ClosedKept DEF chanVars, ClosedInv
<1>16. CASE RunStop
  <2>1. UNCHANGED <<chanVars, stop>> /\ ~client' /\ dial' = "off" /\ sock' = 0
    BY <1>16 DEF RunStop
  <2> QED BY <2>1 DEF chanVars, ClosedInv
<1> QED BY <1>1, <1>2, <1>3, <1>4, <1>5, <1>6, <1>7, <1>8, <1>9, <1>10, <1>11, <1>12, <1>13, <1>14, <1>15, <1>16
        DEF Next, LoopStep, SenderStep

(* stopChannel: a message given to a channel that is closed is refused and none is kept;     *)
(* a connect functor, a lost connection or a connector under way that come late find the       *)
(* flag or no client, so that after the stop functor no connection is made again.              *)
THEOREM ClosedForGood == Spec => []StoppedStaysStopped
<1>1. Init => ClosedInv
  BY DEF Init, ClosedInv
<1>2. ChannelInv /\ ClosedInv => StoppedStaysStopped
  <2> SUFFICES ASSUME ChannelInv, HasStop(batch) \/ HasStop(queued) PROVE StopPosted
    BY DEF ClosedInv, StoppedStaysStopped
  <2>1. batch \in Seq(Functor) /\ queued \in Seq(Functor) /\ Len(batch) \in Nat /\ Len(queued) \in Nat
    BY DEF ChannelInv, TypeOK
  <2>2. DOMAIN (batch \o queued) = 1..(Len(batch) + Len(queued))
    BY <2>1
  <2>3. ASSUME NEW i \in 1..Len(batch), batch[i].op = "stop" PROVE StopPosted
    <3>1. (batch \o queued)[i] = batch[i] /\ i \in DOMAIN (batch \o queued)
      BY <2>1, <2>2
    <3> QED BY <2>3, <3>1 DEF StopPosted
  <2>4. ASSUME NEW i \in 1..Len(queued), queued[i].op = "stop" PROVE StopPosted
    <3>1. (batch \o queued)[Len(batch) + i] = queued[i] /\ Len(batch) + i \in DOMAIN (batch \o queued)
      BY <2>1, <2>2
    <3> QED BY <2>4, <3>1 DEF StopPosted
  <2> QED BY <2>3, <2>4 DEF HasStop
<1> QED BY <1>1, <1>2, ClosedNext, ChannelReached, PTL DEF Spec

-----------------------------------------------------------------------------
(* Where a message is: in a kind of place, once in each.  A message is new when it is   *)
(* given to the channel, which numbers it.                                              *)
Holds(q, m)  == \E i \in 1..Len(q) : q[i] = m
Distinct(q)  == \A i, j \in 1..Len(q) : q[i] = q[j] => i = j
Sends(q, m)  == \E i \in 1..Len(q) : q[i].op = "send" /\ q[i].msg = m
SendsOnce(q) == \A i, j \in 1..Len(q) :
                   q[i].op = "send" /\ q[j].op = "send" /\ q[i].msg = q[j].msg => i = j

Lies(l, m) ==
    \/ l = "pending" /\ Holds(pending, m)
    \/ l = "stream" /\ Holds(stream, m)
    \/ l = "batch" /\ Sends(batch, m)
    \/ l = "queued" /\ Sends(queued, m)
    \/ l = "sender" /\ \E s \in Sender : pc[s] = "send" /\ hand[s] = m
    \/ l = "drain" /\ lmsg = m

OnceEach ==
    /\ Distinct(pending) /\ Distinct(stream) /\ SendsOnce(batch) /\ SendsOnce(queued)
    /\ \A s, t \in Sender : pc[s] = "send" /\ pc[t] = "send" /\ hand[s] = hand[t] => s = t

OneKind ==
    \A m \in Msg :
        /\ \A l : Lies(l, m) => m <= Len(by)
        /\ \A k, l : Lies(k, m) /\ Lies(l, m) => k = l

LEMMA AppendHolds ==
    ASSUME NEW q \in Seq(Msg), NEW x \in Msg
    PROVE  /\ \A m : Holds(Append(q, x), m) <=> Holds(q, m) \/ m = x
           /\ Distinct(q) /\ ~Holds(q, x) => Distinct(Append(q, x))
<1>1. Append(q, x)[Len(q) + 1] = x /\ Len(Append(q, x)) = Len(q) + 1 /\ Len(q) \in Nat
      /\ \A i \in 1..Len(q) : Append(q, x)[i] = q[i]
  BY SeqAppend
<1>2. \A i \in 1..(Len(q) + 1) : i \in 1..Len(q) \/ i = Len(q) + 1
  BY <1>1
<1>3. Len(q) + 1 \in 1..(Len(q) + 1) /\ \A i \in 1..Len(q) : i \in 1..(Len(q) + 1)
  BY <1>1
<1>4. \A m : Holds(Append(q, x), m) <=> Holds(q, m) \/ m = x
  BY <1>1, <1>2, <1>3 DEF Holds
<1>5. Distinct(q) /\ ~Holds(q, x) => Distinct(Append(q, x))
  BY <1>1, <1>2 DEF Holds, Distinct
<1> QED BY <1>4, <1>5

LEMMA TailHolds ==
    ASSUME NEW q \in Seq(Msg), q # <<>>, Distinct(q)
    PROVE  /\ \A m : Holds(Tail(q), m) => Holds(q, m) /\ m # Head(q)
           /\ Holds(q, Head(q)) /\ Distinct(Tail(q))
<1>1. Head(q) = q[1] /\ Len(Tail(q)) = Len(q) - 1 /\ Len(q) \in Nat /\ Len(q) > 0
      /\ \A j \in 1..Len(Tail(q)) : Tail(q)[j] = q[j + 1]
  BY SeqTail
<1>2. \A j \in 1..Len(Tail(q)) : j + 1 \in 1..Len(q) /\ j + 1 # 1
  BY <1>1
<1>3. 1 \in 1..Len(q)
  BY <1>1
<1>4. \A m : Holds(Tail(q), m) => Holds(q, m) /\ m # Head(q)
  BY <1>1, <1>2, <1>3 DEF Holds, Distinct
<1>5. Distinct(Tail(q))
  <2> SUFFICES ASSUME NEW i \in 1..Len(Tail(q)), NEW j \in 1..Len(Tail(q)), Tail(q)[i] = Tail(q)[j] PROVE i = j
    BY DEF Distinct
  <2>1. i + 1 = j + 1
    BY <1>1, <1>2 DEF Distinct
  <2> QED BY <1>1, <2>1
<1> QED BY <1>1, <1>3, <1>4, <1>5 DEF Holds

LEMMA AppendSends ==
    ASSUME NEW q \in Seq(Functor), NEW f \in Functor
    PROVE  /\ \A m : Sends(Append(q, f), m) <=> Sends(q, m) \/ (f.op = "send" /\ f.msg = m)
           /\ SendsOnce(q) /\ (f.op = "send" => ~Sends(q, f.msg)) => SendsOnce(Append(q, f))
<1>1. Append(q, f)[Len(q) + 1] = f /\ Len(Append(q, f)) = Len(q) + 1 /\ Len(q) \in Nat
      /\ \A i \in 1..Len(q) : Append(q, f)[i] = q[i]
  BY SeqAppend
<1>2. \A i \in 1..(Len(q) + 1) : i \in 1..Len(q) \/ i = Len(q) + 1
  BY <1>1
<1>3. Len(q) + 1 \in 1..(Len(q) + 1) /\ \A i \in 1..Len(q) : i \in 1..(Len(q) + 1)
  BY <1>1
<1>4. \A m : Sends(Append(q, f), m) <=> Sends(q, m) \/ (f.op = "send" /\ f.msg = m)
  BY <1>1, <1>2, <1>3 DEF Sends
<1>5. SendsOnce(q) /\ (f.op = "send" => ~Sends(q, f.msg)) => SendsOnce(Append(q, f))
  BY <1>1, <1>2 DEF Sends, SendsOnce
<1> QED BY <1>4, <1>5

LEMMA TailSends ==
    ASSUME NEW q \in Seq(Functor), q # <<>>, SendsOnce(q)
    PROVE  /\ \A m : Sends(Tail(q), m) => Sends(q, m) /\ ~(Head(q).op = "send" /\ Head(q).msg = m)
           /\ Head(q).op = "send" => Sends(q, Head(q).msg)
           /\ SendsOnce(Tail(q))
<1>1. Head(q) = q[1] /\ Len(Tail(q)) = Len(q) - 1 /\ Len(q) \in Nat /\ Len(q) > 0
      /\ \A j \in 1..Len(Tail(q)) : Tail(q)[j] = q[j + 1]
  BY SeqTail
<1>2. \A j \in 1..Len(Tail(q)) : j + 1 \in 1..Len(q) /\ j + 1 # 1
  BY <1>1
<1>3. 1 \in 1..Len(q)
  BY <1>1
<1>4. \A m : Sends(Tail(q), m) => Sends(q, m) /\ ~(Head(q).op = "send" /\ Head(q).msg = m)
  BY <1>1, <1>2, <1>3 DEF Sends, SendsOnce
<1>5. SendsOnce(Tail(q))
  <2> SUFFICES ASSUME NEW i \in 1..Len(Tail(q)), NEW j \in 1..Len(Tail(q)), Tail(q)[i].op = "send",
                      Tail(q)[j].op = "send", Tail(q)[i].msg = Tail(q)[j].msg PROVE i = j
    BY DEF SendsOnce
  <2>1. i + 1 = j + 1
    BY <1>1, <1>2 DEF SendsOnce
  <2> QED BY <1>1, <2>1
<1> QED BY <1>1, <1>3, <1>4, <1>5 DEF Sends

(* One message goes from a to b; nothing else goes anywhere.  A new one was nowhere. *)
Goes(x, a, b) ==
    \A m \in Msg : \A l : Lies(l, m)' => (Lies(l, m) /\ ~(m = x /\ l = a)) \/ (m = x /\ l = b)

LEMMA KindStep ==
    ASSUME OneKind, Len(by) \in Nat, Len(by') \in Nat, Len(by) <= Len(by'),
           NEW x \in Msg, NEW a, NEW b, x <= Len(by'), Lies(a, x) \/ \A l : ~Lies(l, x),
           Goes(x, a, b)
    PROVE  OneKind'
<1> SUFFICES ASSUME NEW m \in Msg
             PROVE  /\ \A l : Lies(l, m)' => m <= Len(by')
                    /\ \A k, l : Lies(k, m)' /\ Lies(l, m)' => k = l
  BY DEF OneKind
<1>1. m \in Nat
  BY DEF Msg
<1>2. CASE m = x
  BY <1>2 DEF OneKind, Goes
<1>3. CASE m # x
  BY <1>1, <1>3 DEF OneKind, Goes
<1> QED BY <1>2, <1>3

LEMMA KindKept ==
    ASSUME OneKind, Len(by) \in Nat, Len(by') \in Nat, Len(by) <= Len(by'),
           \A m \in Msg : \A l : Lies(l, m)' => Lies(l, m)
    PROVE  OneKind'
<1>1. \A m \in Msg : m \in Nat
  BY DEF Msg
<1> QED BY <1>1 DEF OneKind

PlaceInv == ChannelInv /\ OnceEach /\ OneKind

LEMMA PlainOnce ==
    ASSUME PlaceInv, NEW o \in {"drain", "connect", "highWater", "writeComplete", "down"}, Post([op |-> o])
    PROVE  SendsOnce(queued') /\ \A m : Sends(queued', m) => Sends(queued, m)
<1>1. [op |-> o] \in Functor /\ [op |-> o].op # "send" /\ queued \in Seq(Functor)
  BY PostPlain DEF PlaceInv, ChannelInv, TypeOK
<1> QED BY <1>1, AppendSends DEF PlaceInv, OnceEach, Post

LEMMA RunOnce ==
    ASSUME PlaceInv, NEW o, Running(o)
    PROVE  /\ SendsOnce(batch')
           /\ \A m : Sends(batch', m) => Sends(batch, m) /\ ~(o = "send" /\ Head(batch).msg = m)
           /\ o = "send" => Sends(batch, Head(batch).msg)
BY TailSends DEF PlaceInv, ChannelInv, TypeOK, OnceEach, Running

LEMMA SendOnce ==
    ASSUME PlaceInv, NEW x \in Msg, NEW k, SendInLoop(x, k), ~Holds(stream, x)
    PROVE  /\ SendsOnce(queued') /\ \A m : Sends(queued', m) => Sends(queued, m)
           /\ Distinct(stream') /\ \A m : Holds(stream', m) => Holds(stream, m) \/ m = x
<1>1. SendsOnce(queued') /\ \A m : Sends(queued', m) => Sends(queued, m)
  BY PlainOnce DEF SendInLoop, PlaceInv, OnceEach
<1>2. Distinct(stream') /\ \A m : Holds(stream', m) => Holds(stream, m) \/ m = x
  <2>1. stream \in Seq(Msg) /\ Distinct(stream)
    BY DEF PlaceInv, ChannelInv, TypeOK, OnceEach
  <2>2. stream' = stream \/ stream' = Append(stream, x)
    BY DEF SendInLoop
  <2> QED BY <2>1, <2>2, AppendHolds
<1> QED BY <1>1, <1>2

LEMMA GivenLength ==
    ASSUME PlaceInv, NEW s \in Sender, NEW m, Given(s, m)
    PROVE  Len(by) \in Nat /\ Len(by') \in Nat /\ Len(by') = Len(by) + 1 /\ m = Len(by')
           /\ \A l : m \in Msg => ~Lies(l, m)
<1>1. by \in Seq(Sender) /\ m = Len(by) + 1
  BY DEF PlaceInv, ChannelInv, TypeOK, Given
<1>2. Len(by) \in Nat /\ Len(by') = Len(by) + 1
  BY <1>1, SeqAppend DEF Given
<1>3. ASSUME NEW l, m \in Msg PROVE ~Lies(l, m)
  BY <1>1, <1>2, <1>3 DEF PlaceInv, OneKind
<1> QED BY <1>1, <1>2, <1>3

LEMMA SenderPlaces ==
    ASSUME PlaceInv, NEW s \in Sender,
           PostSend(s) \/ PostOther(s) \/ Prewarm(s) \/ \E m \in Msg : Refuse(s, m) \/ SendDirect(s, m) \/ Queue(s, m)
    PROVE  OnceEach' /\ OneKind'
<1>1. /\ pc \in [Sender -> {"idle", "send", "connect", "drain"}] /\ hand \in [Sender -> 0..MaxMsg]
      /\ OnceEach /\ OneKind /\ Len(by) \in Nat /\ queued \in Seq(Functor) /\ pending \in Seq(Msg)
  BY DEF PlaceInv, ChannelInv, TypeOK
<1> DEFINE Carries(t, m) == pc[t] = "send" /\ hand[t] = m
<1>2. CASE PostSend(s)
  <2> DEFINE x == hand[s]
             f == [op |-> "send", msg |-> x, conn |-> via[s]]
  <2>1. x \in Msg /\ f \in Functor /\ f.op = "send" /\ f.msg = x /\ Lies("sender", x)
    BY <1>2 DEF PostSend, PlaceInv, ChannelInv, CarryInv, Functor, Lies
  <2>2. ~Sends(queued, x) /\ x <= Len(by)
    BY <1>1, <2>1 DEF OneKind, Lies
  <2>3. UNCHANGED <<pending, stream, batch, lmsg, by, hand>> /\ pc' = [pc EXCEPT ![s] = "idle"]
        /\ (queued' = Append(queued, f) \/ queued' = queued)
    BY <1>2 DEF PostSend, Post, Goto, chanVars
  <2> HIDE DEF f, x
  <2>4. SendsOnce(queued') /\ \A m : Sends(queued', m) => Sends(queued, m) \/ m = x
    <3>1. CASE queued' = Append(queued, f)
      BY <1>1, <2>1, <2>2, <3>1, AppendSends DEF OnceEach
    <3> QED BY <1>1, <2>3, <3>1 DEF OnceEach
  <2>5. \A t \in Sender : pc'[t] = "send" => t # s /\ pc[t] = "send"
    BY <1>1, <2>3
  <2>6. \A t \in Sender : pc'[t] = "send" => hand[t] # x
    BY <1>1, <1>2, <2>5 DEF OnceEach, PostSend, x
  <2>7. OnceEach'
    BY <1>1, <2>3, <2>4, <2>5 DEF OnceEach
  <2>8. Goes(x, "sender", "queued")
    BY <2>3, <2>4, <2>5, <2>6 DEF Lies, Goes
  <2> QED BY <1>1, <2>1, <2>2, <2>3, <2>7, <2>8, KindStep
<1>3. CASE PostOther(s) \/ Prewarm(s)
  <2>1. UNCHANGED <<pending, stream, batch, lmsg, by, hand>> /\ \A t \in Sender : pc'[t] = "send" => pc[t] = "send"
    BY <1>1, <1>3 DEF PostOther, Prewarm, Goto, chanVars, loopVars
  <2>2. SendsOnce(queued') /\ \A m : Sends(queued', m) => Sends(queued, m)
    BY <1>1, <1>3, PlainOnce DEF PostOther, Prewarm, loopVars, OnceEach
  <2>3. OnceEach'
    BY <1>1, <2>1, <2>2 DEF OnceEach
  <2>4. \A m \in Msg : \A l : Lies(l, m)' => Lies(l, m)
    BY <2>1, <2>2 DEF Lies
  <2> QED BY <1>1, <2>1, <2>3, <2>4, KindKept
<1>4. ASSUME NEW m \in Msg, Refuse(s, m) PROVE OnceEach' /\ OneKind'
  <2>1. UNCHANGED <<pending, stream, batch, queued, lmsg, pc, hand>> /\ Given(s, m)
    BY <1>4 DEF Refuse, Given, loopVars
  <2>2. OnceEach' /\ \A x \in Msg : \A l : Lies(l, x)' => Lies(l, x)
    BY <1>1, <2>1 DEF OnceEach, Lies
  <2> QED BY <1>1, <2>1, <2>2, GivenLength, KindKept
<1>5. ASSUME NEW m \in Msg, SendDirect(s, m) PROVE OnceEach' /\ OneKind'
  <2>1. UNCHANGED <<pending, stream, batch, queued, lmsg>> /\ Given(s, m)
        /\ pc' = [pc EXCEPT ![s] = "send"] /\ hand' = [hand EXCEPT ![s] = m]
    BY <1>5 DEF SendDirect, Given, Goto, loopVars
  <2>2. \A l : ~Lies(l, m)
    BY <2>1, GivenLength
  <2>3. \A t \in Sender \ {s} : pc'[t] = pc[t] /\ hand'[t] = hand[t]
    BY <1>1, <2>1
  <2>4. hand'[s] = m
    BY <1>1, <2>1
  <2>5. \A t \in Sender \ {s} : pc'[t] = "send" => hand'[t] # m
    BY <2>2, <2>3 DEF Lies
  <2>6. OnceEach'
    BY <1>1, <2>1, <2>3, <2>4, <2>5 DEF OnceEach
  <2>7. Goes(m, "none", "sender")
    BY <2>1, <2>3, <2>4 DEF Lies, Goes
  <2> QED BY <1>1, <2>1, <2>2, <2>6, <2>7, GivenLength, KindStep
<1>6. ASSUME NEW m \in Msg, Queue(s, m) PROVE OnceEach' /\ OneKind'
  <2>1. UNCHANGED <<stream, batch, queued, lmsg, hand>> /\ Given(s, m) /\ pending' = Append(pending, m)
        /\ \A t \in Sender : pc'[t] = "send" => pc[t] = "send"
    BY <1>1, <1>6 DEF Queue, Given, Goto, loopVars
  <2>2. \A l : ~Lies(l, m)
    BY <2>1, GivenLength
  <2>3. ~Holds(pending, m)
    BY <2>2 DEF Lies
  <2>4. Distinct(pending') /\ \A x : Holds(pending', x) => Holds(pending, x) \/ x = m
    BY <1>1, <2>1, <2>3, AppendHolds DEF OnceEach
  <2>5. OnceEach'
    BY <1>1, <2>1, <2>4 DEF OnceEach
  <2>6. Goes(m, "none", "pending")
    BY <2>1, <2>4 DEF Lies, Goes
  <2> QED BY <1>1, <2>1, <2>2, <2>5, <2>6, GivenLength, KindStep
<1> QED BY <1>2, <1>3, <1>4, <1>5, <1>6

LEMMA LoopPlaces ==
    ASSUME PlaceInv, UNCHANGED <<pc, hand, by>>,
           \/ Turn \/ RunSend \/ DrainPop \/ DrainSend
    PROVE  OnceEach' /\ OneKind'
<1>1. /\ OnceEach /\ OneKind /\ Len(by) \in Nat /\ queued \in Seq(Functor) /\ batch \in Seq(Functor)
      /\ pending \in Seq(Msg)
  BY DEF PlaceInv, ChannelInv, TypeOK
<1>2. CASE Turn
  <2>1. UNCHANGED <<pending, stream, lmsg>> /\ batch' = queued /\ queued' = <<>>
    BY <1>2 DEF Turn, chanVars
  <2>2. \A m : ~Sends(queued', m)
    BY <2>1, NoneQueued DEF Sends
  <2>3. SendsOnce(queued')
    BY <2>1, NoneQueued DEF SendsOnce
  <2>4. OnceEach'
    BY <1>1, <2>1, <2>3 DEF OnceEach
  <2>5. \A m \in Msg : \A l : Lies(l, m)' => IF l = "batch" THEN Lies("queued", m) ELSE l # "queued" /\ Lies(l, m)
    BY <2>1, <2>2 DEF Lies
  <2>6. OneKind'
    <3> SUFFICES ASSUME NEW m \in Msg
                 PROVE  /\ \A l : Lies(l, m)' => m <= Len(by')
                        /\ \A k, l : Lies(k, m)' /\ Lies(l, m)' => k = l
      BY DEF OneKind
    <3>1. \A k, l : Lies(k, m) /\ Lies(l, m) => k = l
      BY <1>1 DEF OneKind
    <3>2. \A k, l : Lies(k, m)' /\ Lies(l, m)' => k = l
      BY <2>5, <3>1
    <3>3. \A l : Lies(l, m)' => m <= Len(by')
      BY <1>1, <2>5 DEF OneKind
    <3> QED BY <3>2, <3>3
  <2> QED BY <2>4, <2>6
<1>3. CASE RunSend
  <2> DEFINE x == Head(batch).msg
  <2>1. Running("send") /\ SendInLoop(x, Head(batch).conn) /\ x \in Msg /\ UNCHANGED <<pending, lmsg>>
    BY <1>3, RunType DEF RunSend, PlaceInv, chanVars
  <2> HIDE DEF x
  <2>2. /\ SendsOnce(batch') /\ \A m : Sends(batch', m) => Sends(batch, m) /\ m # x
        /\ Lies("batch", x)
    BY <2>1, RunOnce DEF x, Lies
  <2>3. ~Holds(stream, x) /\ x <= Len(by)
    BY <1>1, <2>1, <2>2 DEF OneKind, Lies
  <2>4. /\ SendsOnce(queued') /\ \A m : Sends(queued', m) => Sends(queued, m)
        /\ Distinct(stream') /\ \A m : Holds(stream', m) => Holds(stream, m) \/ m = x
    BY <2>1, <2>3, SendOnce
  <2>5. OnceEach'
    BY <1>1, <2>1, <2>2, <2>4 DEF OnceEach
  <2>6. Goes(x, "batch", "stream")
    BY <2>1, <2>2, <2>4 DEF Lies, Goes
  <2> QED BY <1>1, <2>1, <2>2, <2>3, <2>5, <2>6, KindStep
<1>4. CASE DrainPop
  <2> DEFINE x == Head(pending)
  <2>1. /\ UNCHANGED <<stream, batch, queued>> /\ pending # <<>> /\ pending' = Tail(pending) /\ lmsg' = x
        /\ lmsg = 0
    BY <1>4 DEF DrainPop, PlaceInv, ChannelInv, CarryInv
  <2>2. /\ \A m : Holds(pending', m) => Holds(pending, m) /\ m # x
        /\ Lies("pending", x) /\ Distinct(pending') /\ x \in Msg
    BY <1>1, <2>1, TailHolds, SeqTail DEF OnceEach, Lies
  <2> HIDE DEF x
  <2>3. x <= Len(by)
    BY <1>1, <2>2 DEF OneKind
  <2>4. OnceEach'
    BY <1>1, <2>1, <2>2 DEF OnceEach
  <2>5. Goes(x, "pending", "drain")
    BY <2>1, <2>2 DEF Lies, Goes
  <2> QED BY <1>1, <2>2, <2>3, <2>4, <2>5, KindStep
<1>5. CASE DrainSend
  <2>1. /\ SendInLoop(lmsg, sock) /\ lmsg' = 0 /\ UNCHANGED <<pending, batch>>
        /\ lmsg \in Msg /\ Lies("drain", lmsg)
    BY <1>5 DEF DrainSend, PlaceInv, ChannelInv, CarryInv, TypeOK, Msg, chanVars, Lies
  <2>2. ~Holds(stream, lmsg) /\ lmsg <= Len(by)
    BY <1>1, <2>1 DEF OneKind, Lies
  <2>3. /\ SendsOnce(queued') /\ \A m : Sends(queued', m) => Sends(queued, m)
        /\ Distinct(stream') /\ \A m : Holds(stream', m) => Holds(stream, m) \/ m = lmsg
    BY <2>1, <2>2, SendOnce
  <2>4. OnceEach'
    BY <1>1, <2>1, <2>3 DEF OnceEach
  <2>5. \A m \in Msg : m # 0
    BY DEF Msg
  <2>6. Goes(lmsg, "drain", "stream")
    BY <2>1, <2>3, <2>5 DEF Lies, Goes
  <2> QED BY <1>1, <2>1, <2>2, <2>4, <2>6, KindStep
<1> QED BY <1>2, <1>3, <1>4, <1>5

(* Every other step takes messages away at most *)
LEMMA OtherPlaces ==
    ASSUME PlaceInv, UNCHANGED <<stream, lmsg, pc, hand, by>>,
           pending' = pending \/ pending' = <<>>,
           batch' = batch \/ \E o : Running(o),
           queued' = queued \/ \E f \in Functor : f.op # "send" /\ Post(f)
    PROVE  OnceEach' /\ OneKind'
<1>1. OnceEach /\ OneKind /\ Len(by) \in Nat /\ queued \in Seq(Functor)
  BY DEF PlaceInv, ChannelInv, TypeOK
<1>2. SendsOnce(queued') /\ \A m : Sends(queued', m) => Sends(queued, m)
  BY <1>1, AppendSends DEF OnceEach, Post
<1>3. SendsOnce(batch') /\ \A m : Sends(batch', m) => Sends(batch, m)
  BY <1>1, RunOnce DEF OnceEach
<1>4. Distinct(pending') /\ \A m : Holds(pending', m) => Holds(pending, m)
  BY <1>1, NoneQueued DEF OnceEach, Distinct, Holds
<1>5. OnceEach'
  BY <1>1, <1>2, <1>3, <1>4 DEF OnceEach
<1>6. \A m \in Msg : \A l : Lies(l, m)' => Lies(l, m)
  BY <1>2, <1>3, <1>4 DEF Lies
<1> QED BY <1>1, <1>5, <1>6, KindKept

LEMMA PlainFunctor ==
    ASSUME NEW o \in {"drain", "connect", "highWater", "writeComplete", "down"}
    PROVE  [op |-> o] \in Functor /\ [op |-> o].op # "send"
BY PostPlain

LEMMA PlaceNext == ASSUME PlaceInv, [Next]_vars PROVE PlaceInv'
<1>1. ChannelInv'
  BY ChannelNext DEF PlaceInv
<1>2. OnceEach' /\ OneKind'
  <2>1. CASE UNCHANGED vars \/ StopChannel \/ Up \/ Down \/ Lingered \/ HandleUp \/ HandleDown
             \/ DrainLeave \/ EnsureClient \/ ConnectFailed
    <3>1. UNCHANGED <<stream, lmsg, pc, hand, by, batch, queued>> /\ (pending' = pending \/ pending' = <<>>)
      BY <2>1 DEF vars, chanVars, sockVars, loopVars, sendVars, StopChannel, Up, Down, Lingered, HandleUp,
         HandleDown, DrainLeave, EnsureClient, ConnectFailed
    <3> QED BY <3>1, OtherPlaces
  <2>2. CASE PostStop
    <3>1. [op |-> "stop", conn |-> stop.conn] \in Functor
      BY DEF PlaceInv, ChannelInv, TypeOK, Functor
    <3>2. UNCHANGED <<stream, lmsg, pc, hand, by, batch, pending>> /\ Post([op |-> "stop", conn |-> stop.conn])
      BY <2>2 DEF PostStop, chanVars, sendVars
    <3> QED BY <3>1, <3>2, OtherPlaces
  <2>3. CASE Writable
    <3>1. UNCHANGED <<stream, lmsg, pc, hand, by, batch, pending>>
          /\ (queued' = queued \/ Post([op |-> "writeComplete"]))
      BY <2>3 DEF Writable, chanVars, sendVars
    <3> QED BY <3>1, PlainFunctor, OtherPlaces
  <2>4. CASE RunHighWater \/ RunWriteComplete \/ RunDrain \/ RunConnect \/ RunDown
    <3>1. UNCHANGED <<stream, lmsg, pc, hand, by, queued, pending>> /\ \E o : Running(o)
      BY <2>4 DEF RunHighWater, RunWriteComplete, RunDrain, RunConnect, RunDown, chanVars, sendVars
    <3> QED BY <3>1, OtherPlaces
  <2>5. CASE RunStop
    <3>1. UNCHANGED <<stream, lmsg, pc, hand, by, pending>> /\ Running("stop")
          /\ (queued' = queued \/ Post([op |-> "down"]))
      BY <2>5 DEF RunStop, chanVars, sendVars
    <3> QED BY <3>1, PlainFunctor, OtherPlaces
  <2>6. CASE Turn \/ RunSend \/ DrainPop \/ DrainSend
    <3>1. UNCHANGED <<pc, hand, by>>
      BY <2>6 DEF Turn, RunSend, DrainPop, DrainSend, sendVars
    <3> QED BY <2>6, <3>1, LoopPlaces
  <2> QED BY <2>1, <2>2, <2>3, <2>4, <2>5, <2>6, SenderPlaces DEF Next, LoopStep, SenderStep
<1> QED BY <1>1, <1>2 DEF PlaceInv

(* enqueueOrSend, drainPendingInLoop, sendInLoop: however connections come and go while       *)
(* messages are in the queue, in a sender's hand, in a posted functor or in the loop's, each   *)
(* message is in one place only and is written to the peer at most once.                      *)
THEOREM NoDuplicate == Spec => []AtMostOnce
<1>1. Init => PlaceInv
  <2> SUFFICES ASSUME Init PROVE PlaceInv
    OBVIOUS
  <2>1. /\ pending = <<>> /\ stream = <<>> /\ batch = <<>> /\ queued = <<>> /\ lmsg = 0
        /\ \A s \in Sender : pc[s] # "send"
    BY DEF Init
  <2>2. OnceEach
    BY <2>1, NoneQueued DEF OnceEach, Distinct, SendsOnce
  <2>3. \A m \in Msg : \A l : ~Lies(l, m)
    BY <2>1, NoneQueued DEF Lies, Holds, Sends, Msg
  <2> QED BY <2>2, <2>3, ChannelInit DEF PlaceInv, OneKind
<1>2. PlaceInv => AtMostOnce
  <2> SUFFICES ASSUME PlaceInv, NEW m \in Msg, NEW p \in Places(m), NEW q \in Places(m) PROVE p = q
    BY DEF AtMostOnce
  <2>1. /\ batch \in Seq(Functor) /\ queued \in Seq(Functor) /\ pending \in Seq(Msg) /\ stream \in Seq(Msg)
        /\ OnceEach /\ \A k, l : Lies(k, m) /\ Lies(l, m) => k = l
    BY DEF PlaceInv, ChannelInv, TypeOK, OneKind
  <2> DEFINE all == batch \o queued
             At(l, x) == \/ l = "pending" /\ x \in DOMAIN pending /\ pending[x] = m
                         \/ l = "stream" /\ x \in DOMAIN stream /\ stream[x] = m
                         \/ l = "functor" /\ x \in DOMAIN all /\ all[x].op = "send" /\ all[x].msg = m
                         \/ l = "sender" /\ x \in Sender /\ pc[x] = "send" /\ hand[x] = m
                         \/ l = "drain" /\ x = 0 /\ lmsg = m
  <2>2. ASSUME NEW r \in Places(m) PROVE \E l, x : At(l, x) /\ r = <<l, x>>
    BY <2>2 DEF Places
  <2>3. ASSUME NEW x \in DOMAIN all, all[x].op = "send", all[x].msg = m
        PROVE  \/ x \in 1..Len(batch) /\ all[x] = batch[x] /\ Lies("batch", m)
               \/ /\ x \in (Len(batch) + 1)..(Len(batch) + Len(queued)) /\ all[x] = queued[x - Len(batch)]
                  /\ x - Len(batch) \in 1..Len(queued) /\ Lies("queued", m)
    <3>1. Len(batch) \in Nat /\ Len(queued) \in Nat /\ DOMAIN all = 1..(Len(batch) + Len(queued))
      BY <2>1
    <3>2. CASE x \in 1..Len(batch)
      <4>1. all[x] = batch[x]
        BY <2>1, <3>2
      <4> QED BY <2>3, <3>2, <4>1 DEF Lies, Sends
    <3>3. CASE x \notin 1..Len(batch)
      <4>1. x \in (Len(batch) + 1)..(Len(batch) + Len(queued)) /\ x - Len(batch) \in 1..Len(queued)
        BY <3>1, <3>3
      <4>2. all[x] = queued[x - Len(batch)]
        BY <2>1, <4>1
      <4> QED BY <2>3, <4>1, <4>2 DEF Lies, Sends
    <3> QED BY <3>2, <3>3
  <2>4. ASSUME NEW x, NEW y, At("functor", x), At("functor", y) PROVE x = y
    <3>1. Len(batch) \in Nat /\ Len(queued) \in Nat
      BY <2>1
    <3> HIDE DEF all
    <3>2. x \in DOMAIN all /\ all[x].op = "send" /\ all[x].msg = m
          /\ y \in DOMAIN all /\ all[y].op = "send" /\ all[y].msg = m
      BY <2>4
    <3>3. CASE Lies("batch", m)
      <4>1. ~Lies("queued", m)
        BY <2>1, <3>3
      <4>2. x \in 1..Len(batch) /\ y \in 1..Len(batch) /\ all[x] = batch[x] /\ all[y] = batch[y]
        BY <2>3, <3>2, <4>1
      <4> QED BY <2>1, <3>2, <4>2 DEF OnceEach, SendsOnce
    <3>4. CASE ~Lies("batch", m)
      <4>1. /\ x \in (Len(batch) + 1)..(Len(batch) + Len(queued)) /\ all[x] = queued[x - Len(batch)]
            /\ y \in (Len(batch) + 1)..(Len(batch) + Len(queued)) /\ all[y] = queued[y - Len(batch)]
            /\ x - Len(batch) \in 1..Len(queued) /\ y - Len(batch) \in 1..Len(queued)
        BY <2>3, <3>2, <3>4
      <4>2. x - Len(batch) = y - Len(batch)
        BY <2>1, <3>2, <4>1 DEF OnceEach, SendsOnce
      <4> QED BY <3>1, <4>1, <4>2
    <3> QED BY <3>3, <3>4
  <2>5. ASSUME NEW l, NEW x, NEW y, At(l, x), At(l, y) PROVE x = y
    <3>1. CASE l = "functor"
      BY <2>4, <2>5, <3>1
    <3>2. CASE l = "pending" \/ l = "stream"
      <4>1. DOMAIN pending = 1..Len(pending) /\ DOMAIN stream = 1..Len(stream)
        BY <2>1
      <4> QED BY <2>1, <2>5, <3>2, <4>1 DEF OnceEach, Distinct
    <3>3. CASE l = "sender" \/ l = "drain"
      BY <2>1, <2>5, <3>3 DEF OnceEach
    <3> QED BY <2>5, <3>1, <3>2, <3>3
  <2>6. ASSUME NEW l, NEW x, At(l, x)
        PROVE  \E k : Lies(k, m) /\ l = (IF k \in {"batch", "queued"} THEN "functor" ELSE k)
    <3>1. CASE l = "functor"
      BY <2>3, <2>6, <3>1
    <3>2. CASE l # "functor"
      <4>1. Lies(l, m) /\ l \notin {"batch", "queued"}
        BY <2>1, <2>6, <3>2 DEF Lies, Holds
      <4> QED BY <4>1
    <3> QED BY <3>1, <3>2
  <2> HIDE DEF At
  <2>7. PICK l, x : At(l, x) /\ p = <<l, x>>
    BY <2>2
  <2>8. PICK k, y : At(k, y) /\ q = <<k, y>>
    BY <2>2
  <2>9. l = k
    BY <2>1, <2>6, <2>7, <2>8
  <2> QED BY <2>5, <2>7, <2>8, <2>9
<1> QED BY <1>1, <1>2, PlaceNext, PTL DEF Spec

-----------------------------------------------------------------------------
(* No lost wake-up: the state half of PendingServed.  Whatever waits in the queue, somebody *)
(* is on his way to it.                                                                 *)
Has(q, o) == \E i \in 1..Len(q) : q[i].op = o
Posted(o) == Has(batch, o) \/ Has(queued, o)
Asked(o)  == \E s \in Sender : pc[s] = o

(* drainPendingInLoop is running or about to run *)
DrainComes ==
    lpc \in {"up", "drain", "drainSend"} \/ Posted("drain") \/ Posted("writeComplete") \/ Asked("drain")

(* The connector is at work or about to be started *)
ConnectComes == lpc \in {"down", "ensure"} \/ dial # "off" \/ Posted("connect") \/ Asked("connect")

(* Above the high-water mark there are bytes to be written, the last of which posts the   *)
(* callback that drains, or it is posted, or a new connection is about to be taken over.     *)
QueueNotForgotten ==
    pending # <<>> =>
       IF sock = 0 THEN ConnectComes
       ELSE IF overloaded THEN buf > 0 \/ Posted("writeComplete") \/ lpc = "up"
       ELSE DrainComes

(* A high-water callback never runs after the write-complete one that ends what it tells  *)
(* of, and none is left when the next connection comes up: a mark set late would stay set.   *)
Followed(q) ==
    \A i \in 1..Len(q) : q[i].op = "highWater" => \E j \in (i + 1)..Len(q) : q[j].op = "writeComplete"
WaterInv ==
    /\ sock # 0 /\ buf = 0 =>
         /\ Followed(queued)
         /\ Followed(batch) \/ Has(queued, "writeComplete")
         /\ overloaded => Posted("writeComplete") \/ lpc = "up"
    /\ dial = "ready" => ~Has(queued, "highWater")

(* What the loop's label says of the connection, until stopChannel *)
SocketInv ==
    /\ lpc = "up" => sock # 0
    /\ lpc = "down" => sock = 0 /\ client
    /\ lpc \notin {"up", "down"} => connection = sock
    /\ lpc # "noClient"
    /\ lpc = "drainSend" => sock # 0
    /\ lpc = "ensure" => sock = 0
    /\ sock = 0 \/ dial = "off"
    /\ sock # 0 \/ dial # "off" => client
    /\ ~lingering /\ ~Posted("down") /\ ~Posted("stop")

(* What the two flags promise *)
FlagInv ==
    /\ sock = 0 /\ connecting => ConnectComes
    /\ sock = 0 /\ lpc # "down" /\ pending # <<>> => connecting
    /\ sock # 0 /\ ~overloaded /\ pending # <<>> => DrainComes

OpenInv == SocketInv /\ WaterInv /\ FlagInv
WakeInv == ChannelInv /\ ClosedInv /\ (~closing => OpenInv)

LEMMA HasAppend ==
    ASSUME NEW q \in Seq(Functor), NEW f \in Functor, NEW o
    PROVE  Has(Append(q, f), o) <=> Has(q, o) \/ f.op = o
<1>1. Append(q, f)[Len(q) + 1] = f /\ Len(Append(q, f)) = Len(q) + 1 /\ Len(q) \in Nat
      /\ \A i \in 1..Len(q) : Append(q, f)[i] = q[i]
  BY SeqAppend
<1>2. \A i \in 1..(Len(q) + 1) : i \in 1..Len(q) \/ i = Len(q) + 1
  BY <1>1
<1>3. Len(q) + 1 \in 1..(Len(q) + 1) /\ \A i \in 1..Len(q) : i \in 1..(Len(q) + 1)
  BY <1>1
<1> QED BY <1>1, <1>2, <1>3 DEF Has

LEMMA HasTail ==
    ASSUME NEW q \in Seq(Functor), q # <<>>, NEW o
    PROVE  /\ Has(Tail(q), o) => Has(q, o)
           /\ Has(q, o) /\ Head(q).op # o => Has(Tail(q), o)
           /\ Has(q, Head(q).op)
<1>1. Head(q) = q[1] /\ Len(Tail(q)) = Len(q) - 1 /\ Len(q) \in Nat /\ Len(q) > 0
      /\ \A j \in 1..Len(Tail(q)) : Tail(q)[j] = q[j + 1]
  BY SeqTail
<1>2. \A j \in 1..Len(Tail(q)) : j + 1 \in 1..Len(q)
  BY <1>1
<1>3. 1 \in 1..Len(q)
  BY <1>1
<1>4. Has(Tail(q), o) => Has(q, o)
  BY <1>1, <1>2 DEF Has
<1>5. ASSUME NEW i \in 1..Len(q), q[i].op = o, Head(q).op # o PROVE Has(Tail(q), o)
  <2>1. i # 1
    BY <1>1, <1>5
  <2>2. i - 1 \in 1..Len(Tail(q)) /\ (i - 1) + 1 = i
    BY <1>1, <2>1
  <2> QED BY <1>1, <1>5, <2>2 DEF Has
<1>6. Has(q, Head(q).op)
  BY <1>1, <1>3 DEF Has
<1> QED BY <1>4, <1>5, <1>6 DEF Has

LEMMA FollowedAppend ==
    ASSUME NEW q \in Seq(Functor), NEW f \in Functor
    PROVE  /\ Followed(q) /\ f.op # "highWater" => Followed(Append(q, f))
           /\ f.op = "writeComplete" => Followed(Append(q, f))
<1>1. Append(q, f)[Len(q) + 1] = f /\ Len(Append(q, f)) = Len(q) + 1 /\ Len(q) \in Nat
      /\ \A i \in 1..Len(q) : Append(q, f)[i] = q[i]
  BY SeqAppend
<1>2. \A i \in 1..(Len(q) + 1) : i \in 1..Len(q) \/ i = Len(q) + 1
  BY <1>1
<1>3. \A i \in 1..Len(q) : /\ Len(q) + 1 \in (i + 1)..(Len(q) + 1)
                           /\ \A j \in (i + 1)..Len(q) : j \in 1..Len(q) /\ j \in (i + 1)..(Len(q) + 1)
  BY <1>1
<1>4. Followed(q) /\ f.op # "highWater" => Followed(Append(q, f))
  BY <1>1, <1>2, <1>3 DEF Followed
<1>5. f.op = "writeComplete" => Followed(Append(q, f))
  BY <1>1, <1>2, <1>3 DEF Followed
<1> QED BY <1>4, <1>5

LEMMA FollowedTail ==
    ASSUME NEW q \in Seq(Functor), q # <<>>, Followed(q)
    PROVE  Followed(Tail(q)) /\ (Head(q).op = "highWater" => Has(Tail(q), "writeComplete"))
<1>1. Head(q) = q[1] /\ Len(Tail(q)) = Len(q) - 1 /\ Len(q) \in Nat /\ Len(q) > 0
      /\ \A j \in 1..Len(Tail(q)) : Tail(q)[j] = q[j + 1]
  BY SeqTail
<1>2. ASSUME NEW i \in 1..Len(q), NEW j \in (i + 1)..Len(q)
      PROVE  /\ j - 1 \in 1..Len(Tail(q)) /\ (j - 1) + 1 = j
             /\ j - 1 \in ((i - 1) + 1)..Len(Tail(q))
  BY <1>1
<1>3. 1 \in 1..Len(q) /\ \A i \in 1..Len(Tail(q)) : i + 1 \in 1..Len(q) /\ (i + 1) - 1 = i
  BY <1>1
<1>4. ASSUME NEW i \in 1..Len(Tail(q)), Tail(q)[i].op = "highWater"
      PROVE  \E j \in (i + 1)..Len(Tail(q)) : Tail(q)[j].op = "writeComplete"
  <2>1. i + 1 \in 1..Len(q) /\ q[i + 1].op = "highWater"
    BY <1>1, <1>3, <1>4
  <2>2. PICK j \in ((i + 1) + 1)..Len(q) : q[j].op = "writeComplete"
    BY <2>1 DEF Followed
  <2>3. j - 1 \in 1..Len(Tail(q)) /\ (j - 1) + 1 = j /\ j - 1 \in (i + 1)..Len(Tail(q))
    BY <1>2, <1>3, <2>1
  <2> QED BY <1>1, <2>2, <2>3
<1>5. ASSUME Head(q).op = "highWater" PROVE Has(Tail(q), "writeComplete")
  <2>1. PICK j \in (1 + 1)..Len(q) : q[j].op = "writeComplete"
    BY <1>1, <1>3, <1>5 DEF Followed
  <2>2. j - 1 \in 1..Len(Tail(q)) /\ (j - 1) + 1 = j
    BY <1>2, <1>3
  <2> QED BY <1>1, <2>1, <2>2 DEF Has
<1> QED BY <1>4, <1>5 DEF Followed

(* What a posted functor, one that is taken, and a sender's step change *)
LEMMA PostedMore ==
    ASSUME ChannelInv, NEW f \in Functor, Post(f), batch' = batch
    PROVE  /\ \A o : Posted(o)' <=> Posted(o) \/ f.op = o
           /\ \A o : Has(queued', o) <=> Has(queued, o) \/ f.op = o
           /\ f.op # "highWater" /\ Followed(queued) => Followed(queued')
           /\ f.op = "writeComplete" => Followed(queued')
<1>1. queued \in Seq(Functor) /\ queued' = Append(queued, f)
  BY DEF ChannelInv, TypeOK, Post
<1> QED BY <1>1, HasAppend, FollowedAppend DEF Posted

LEMMA TakenOne ==
    ASSUME ChannelInv, NEW r, Running(r)
    PROVE  /\ \A o : Has(batch', o) => Has(batch, o)
           /\ \A o : Has(batch, o) /\ o # r => Has(batch', o)
           /\ Has(batch, r)
           /\ Followed(batch) => Followed(batch')
           /\ Followed(batch) /\ r = "highWater" => Has(batch', "writeComplete")
<1>1. batch \in Seq(Functor) /\ batch # <<>> /\ batch' = Tail(batch) /\ Head(batch).op = r
  BY DEF ChannelInv, TypeOK, Running
<1> QED BY <1>1, HasTail, FollowedTail

LEMMA AskedBy ==
    ASSUME ChannelInv, NEW s \in Sender, NEW l, pc' = [pc EXCEPT ![s] = l]
    PROVE  \A o : Asked(o)' <=> l = o \/ \E t \in Sender \ {s} : pc[t] = o
<1>1. \A t \in Sender : pc'[t] = IF t = s THEN l ELSE pc[t]
  BY DEF ChannelInv, TypeOK
<1> QED BY <1>1 DEF Asked

LEMMA DialIs == ChannelInv => dial \in {"off", "new", "ready"} /\ buf \in Nat /\ connection \in Nat /\ sock \in Nat /\ conns \in Nat
                             /\ connecting \in BOOLEAN /\ overloaded \in BOOLEAN /\ client \in BOOLEAN
BY DEF ChannelInv, TypeOK

(* A sender that posts what it has promised, or drops it *)
LEMMA WakePosts ==
    ASSUME ChannelInv, OpenInv, NEW s \in Sender, PostSend(s) \/ PostOther(s)
    PROVE  OpenInv'
<1>1. PICK o \in {"send", "connect", "drain"} : pc[s] = o /\ pc' = [pc EXCEPT ![s] = "idle"]
  BY DEF PostSend, PostOther, Goto
<1>2. UNCHANGED <<chanVars, sockVars, batch, lpc>>
  BY DEF PostSend, PostOther
<1>3. \A x : x # o => (Asked(x) => Asked(x)')
  BY <1>1, AskedBy DEF Asked
<1>4. CASE queued' = queued /\ o = "send"
  <2>1. \A x : Posted(x)' <=> Posted(x)
    BY <1>2, <1>4 DEF Posted
  <2>2. WaterInv'
    BY <1>2, <1>4, <2>1 DEF OpenInv, WaterInv, sockVars, chanVars
  <2>3. SocketInv'
    BY <1>2, <2>1 DEF OpenInv, SocketInv, sockVars, chanVars
  <2>4. FlagInv'
    BY <1>2, <1>3, <1>4, <2>1 DEF OpenInv, FlagInv, ConnectComes, DrainComes, sockVars, chanVars
  <2> QED BY <2>2, <2>3, <2>4 DEF OpenInv
<1>5. ASSUME NEW f \in Functor, f.op = o, Post(f) PROVE OpenInv'
  <2>1. /\ \A x : Posted(x)' <=> Posted(x) \/ o = x
        /\ \A x : Has(queued', x) <=> Has(queued, x) \/ o = x
        /\ Followed(queued) => Followed(queued')
    BY <1>1, <1>2, <1>5, PostedMore
  <2>2. WaterInv'
    BY <1>2, <2>1 DEF OpenInv, WaterInv, sockVars, chanVars
  <2>3. SocketInv'
    BY <1>2, <2>1 DEF OpenInv, SocketInv, sockVars, chanVars
  <2>4. FlagInv'
    BY <1>2, <1>3, <2>1 DEF OpenInv, FlagInv, ConnectComes, DrainComes, sockVars, chanVars
  <2> QED BY <2>2, <2>3, <2>4 DEF OpenInv
<1>6. PostSend(s) => [op |-> "send", msg |-> hand[s], conn |-> via[s]] \in Functor
  BY DEF PostSend, ChannelInv, CarryInv, Functor
<1> QED BY <1>1, <1>4, <1>5, <1>6, PostPlain DEF PostSend, PostOther

(* A sender in its critical section *)
LEMMA WakeGives ==
    ASSUME ChannelInv, OpenInv, NEW s \in Sender,
           Prewarm(s) \/ \E m \in Msg : Refuse(s, m) \/ SendDirect(s, m) \/ Queue(s, m)
    PROVE  OpenInv'
<1>1. UNCHANGED <<sockVars, loopVars, overloaded, connection>> /\ pc[s] = "idle"
  BY DEF Prewarm, Refuse, SendDirect, Queue, Given
<1>2. \A x : Posted(x)' <=> Posted(x)
  BY <1>1 DEF Posted, loopVars
<1>3. WaterInv'
  BY <1>1, <1>2 DEF OpenInv, WaterInv, sockVars, loopVars
<1>4. SocketInv'
  BY <1>1, <1>2 DEF OpenInv, SocketInv, sockVars, loopVars
<1>5. FlagInv'
  <2>1. PICK l : pc' = [pc EXCEPT ![s] = l] \/ (pc' = pc /\ l = "idle")
    BY DEF Prewarm, Refuse, SendDirect, Queue, Goto
  <2>2. \A x : (Asked(x) /\ x # "idle" => Asked(x)') /\ (pc' = [pc EXCEPT ![s] = l] => Asked(l)')
    BY <1>1, <2>1, AskedBy DEF Asked
  <2>3. (ConnectComes => ConnectComes') /\ (DrainComes => DrainComes')
    BY <1>1, <1>2, <2>2 DEF ConnectComes, DrainComes, sockVars, loopVars
  <2>4. SocketInv /\ FlagInv
    BY DEF OpenInv
  <2>5. CASE \E m \in Msg : Refuse(s, m) \/ SendDirect(s, m)
    <3>1. UNCHANGED <<pending, connecting>>
      BY <2>5 DEF Refuse, SendDirect
    <3> QED BY <1>1, <2>3, <2>4, <3>1 DEF FlagInv, sockVars, loopVars
  <2>6. CASE Prewarm(s)
    <3>1. pending' = pending /\ (connecting' => connecting \/ Asked("connect")') /\ (connecting => connecting')
      <4>1. \A x : pc' = [pc EXCEPT ![s] = x] => Asked(x)'
        BY AskedBy
      <4> QED BY <2>6, <4>1 DEF Prewarm, Goto
    <3>2. Asked("connect")' => ConnectComes'
      BY DEF ConnectComes
    <3> QED BY <1>1, <2>3, <2>4, <3>1, <3>2 DEF FlagInv, sockVars, loopVars
  <2>7. ASSUME NEW m \in Msg, Queue(s, m) PROVE FlagInv'
    <3>1. \A x : pc' = [pc EXCEPT ![s] = x] => Asked(x)'
      BY AskedBy
    <3>2. /\ connecting' <=> connecting \/ ~Connected
          /\ ~Connected /\ ~connecting => Asked("connect")'
          /\ Connected /\ ~overloaded => Asked("drain")'
      BY <2>7, <3>1 DEF Queue, Goto
    <3>3. (Asked("connect")' => ConnectComes') /\ (Asked("drain")' => DrainComes')
      BY DEF ConnectComes, DrainComes
    <3>4. sock = 0 => ~Connected
      BY DEF Connected
    <3>5. sock # 0 /\ ~Connected => lpc = "up"
      BY <2>4, DialIs DEF Connected, SocketInv
    <3>6. lpc = "up" => DrainComes'
      BY <1>1 DEF DrainComes, loopVars
    <3> QED BY <1>1, <2>3, <2>4, <3>2, <3>3, <3>4, <3>5, <3>6 DEF FlagInv, sockVars, loopVars
  <2> QED BY <2>5, <2>6, <2>7
<1> QED BY <1>3, <1>4, <1>5 DEF OpenInv

(* Events of the loop *)
LEMMA WakeEvents ==
    ASSUME ChannelInv, OpenInv, Turn \/ Up \/ Down \/ Lingered \/ Writable
    PROVE  OpenInv'
<1>1. /\ lpc = "next" /\ SocketInv /\ WaterInv /\ FlagInv
      /\ \A x : ~Has(<<>>, x)
      /\ batch = <<>> \/ Writable
  BY NoneQueued DEF OpenInv, Turn, Up, Down, Lingered, Writable, Polling, Has
<1>2. Followed(<<>>)
  BY NoneQueued DEF Followed
<1>3. ~Lingered
  BY <1>1 DEF Lingered, SocketInv
<1>4. CASE Turn
  <2>1. /\ UNCHANGED <<chanVars, client, sock, conns, buf, lingering, lpc, pc>>
        /\ batch = <<>> /\ batch' = queued /\ queued' = <<>>
        /\ dial' = IF dial = "new" THEN "ready" ELSE dial
    BY <1>4 DEF Turn, Polling, sendVars
  <2>2. \A x : Posted(x)' <=> Posted(x)
    BY <1>1, <2>1 DEF Posted
  <2>3. \A x : Asked(x)' <=> Asked(x)
    BY <2>1 DEF Asked
  <2>4. SocketInv'
    BY <1>1, <2>1, <2>2 DEF SocketInv, chanVars
  <2>5. WaterInv'
    BY <1>1, <1>2, <2>1, <2>2 DEF WaterInv, chanVars
  <2>6. FlagInv'
    BY <1>1, <2>1, <2>2, <2>3 DEF FlagInv, ConnectComes, DrainComes, chanVars
  <2> QED BY <2>4, <2>5, <2>6 DEF OpenInv
<1>5. CASE Up
  <2>1. /\ UNCHANGED <<chanVars, client, lingering, batch, queued, pc>>
        /\ sock' = conns + 1 /\ dial' = "off" /\ lpc' = "up" /\ dial = "ready" /\ batch = <<>>
    BY <1>5 DEF Up, Polling, sendVars
  <2>2. sock' # 0
    BY <2>1, DialIs
  <2>3. \A x : Posted(x)' <=> Posted(x)
    BY <2>1 DEF Posted
  <2>4. SocketInv'
    BY <1>1, <2>1, <2>2, <2>3 DEF SocketInv, chanVars
  <2>5. Followed(queued')
    BY <1>1, <2>1 DEF WaterInv, Followed, Has
  <2>6. WaterInv'
    BY <1>1, <1>2, <2>1, <2>5 DEF WaterInv
  <2>7. FlagInv'
    BY <2>1, <2>2 DEF FlagInv, DrainComes
  <2> QED BY <2>4, <2>6, <2>7 DEF OpenInv
<1>6. CASE Down
  <2>1. /\ UNCHANGED <<chanVars, client, dial, conns, lingering, batch, queued, pc>>
        /\ sock # 0 /\ sock' = 0 /\ lpc' = "down"
    BY <1>6 DEF Down, sendVars
  <2>2. \A x : Posted(x)' <=> Posted(x)
    BY <2>1 DEF Posted
  <2>3. SocketInv'
    BY <1>1, <2>1, <2>2 DEF SocketInv, chanVars
  <2>4. WaterInv'
    BY <1>1, <2>1 DEF WaterInv
  <2>5. FlagInv'
    BY <2>1 DEF FlagInv, ConnectComes
  <2> QED BY <2>3, <2>4, <2>5 DEF OpenInv
<1>7. CASE Writable
  <2>1. /\ UNCHANGED <<chanVars, client, dial, sock, conns, lingering, batch, lpc, pc>>
        /\ IF buf' = 0 THEN Post([op |-> "writeComplete"]) ELSE queued' = queued
    BY <1>7 DEF Writable, sendVars
  <2>2. \A x : Asked(x)' <=> Asked(x)
    BY <2>1 DEF Asked
  <2>3. /\ \A x : Posted(x) => Posted(x)'
        /\ \A x : x # "writeComplete" => (Has(queued', x) => Has(queued, x)) /\ (Posted(x)' => Posted(x))
        /\ buf' = 0 => Posted("writeComplete")' /\ Has(queued', "writeComplete") /\ Followed(queued')
    <3>1. CASE buf' = 0
      BY <2>1, <3>1, PostPlain, PostedMore
    <3>2. CASE buf' # 0
      BY <2>1, <3>2 DEF Posted
    <3> QED BY <3>1, <3>2
  <2>4. SocketInv'
    BY <1>1, <2>1, <2>3 DEF SocketInv, chanVars
  <2>5. WaterInv'
    BY <1>1, <2>1, <2>3 DEF WaterInv, chanVars
  <2>6. FlagInv'
    BY <1>1, <2>1, <2>2, <2>3 DEF FlagInv, ConnectComes, DrainComes, chanVars
  <2> QED BY <2>4, <2>5, <2>6 DEF OpenInv
<1> QED BY <1>3, <1>4, <1>5, <1>6, <1>7

(* The connection callback *)
LEMMA WakeHandles ==
    ASSUME ChannelInv, OpenInv, ~closing, HandleUp \/ HandleDown
    PROVE  OpenInv'
<1>1. SocketInv /\ WaterInv /\ FlagInv /\ UNCHANGED <<batch, queued, pc, closing, client, sock, buf, lingering>>
  BY DEF OpenInv, HandleUp, HandleDown, sendVars, sockVars
<1>2. \A x : Posted(x)' <=> Posted(x)
  BY <1>1 DEF Posted
<1>3. CASE HandleUp
  <2>1. connection' = sock /\ ~overloaded' /\ lpc = "up" /\ lpc' = "drain" /\ dial' = dial
    BY <1>3 DEF HandleUp, sockVars
  <2>2. SocketInv'
    BY <1>1, <1>2, <2>1 DEF SocketInv
  <2>3. WaterInv'
    BY <1>1, <1>2, <2>1 DEF WaterInv
  <2>4. FlagInv'
    BY <1>1, <2>1 DEF FlagInv, DrainComes, SocketInv
  <2> QED BY <2>2, <2>3, <2>4 DEF OpenInv
<1>4. CASE HandleDown
  <2>1. /\ connection' = 0 /\ connecting' = TRUE /\ lpc = "down" /\ lpc' = "next"
        /\ sock = 0 /\ dial' = "new"
    BY <1>1, <1>4 DEF HandleDown, SocketInv
  <2>2. SocketInv'
    BY <1>1, <1>2, <2>1 DEF SocketInv
  <2>3. WaterInv'
    BY <1>1, <1>2, <2>1 DEF WaterInv
  <2>4. FlagInv'
    BY <1>1, <2>1 DEF FlagInv, ConnectComes
  <2> QED BY <2>2, <2>3, <2>4 DEF OpenInv
<1> QED BY <1>3, <1>4

(* Writing a message leaves bytes, or posts the callback that there are none *)
LEMMA SentOn ==
    ASSUME ChannelInv, NEW m, NEW k, SendInLoop(m, k), WaterInv
    PROVE  /\ \A x : Has(queued, x) => Has(queued', x)
           /\ \A x : x \notin {"writeComplete", "highWater"} => (Has(queued', x) => Has(queued, x))
           /\ sock = 0 /\ k # 0 => UNCHANGED <<buf, queued>>
           /\ sock # 0 /\ buf' = 0 => /\ Followed(queued')
                                      /\ \/ Has(queued', "writeComplete")
                                         \/ buf = 0 /\ queued' = queued
<1>1. CASE k # sock
  BY <1>1 DEF SendInLoop, WaterInv
<1>2. CASE k = sock
  <2>1. \/ queued' = queued /\ buf' = buf + 1
        \/ buf' = 0 /\ Post([op |-> "writeComplete"])
        \/ buf' = buf + 1 /\ Post([op |-> "highWater"])
    BY <1>2 DEF SendInLoop
  <2>2. queued \in Seq(Functor) /\ buf \in Nat
    BY DEF ChannelInv, TypeOK
  <2>3. ASSUME NEW o \in {"writeComplete", "highWater"}, Post([op |-> o])
        PROVE  /\ \A x : Has(queued', x) <=> Has(queued, x) \/ o = x
               /\ o = "writeComplete" => Followed(queued')
    <3>1. [op |-> o] \in Functor
      BY PostPlain
    <3> QED BY <2>2, <2>3, <3>1, HasAppend, FollowedAppend DEF Post
  <2> QED BY <1>2, <2>1, <2>2, <2>3
<1> QED BY <1>1, <1>2

LEMMA WakeSends ==
    ASSUME ChannelInv, OpenInv, RunSend \/ DrainSend
    PROVE  OpenInv'
<1>1. SocketInv /\ WaterInv /\ FlagInv
  BY DEF OpenInv
<1>2. PICK m, k : SendInLoop(m, k) /\ (sock = 0 => k # 0)
  <2>1. CASE RunSend
    <3>1. Head(batch).conn \in 1..MaxConn
      BY <2>1, RunType DEF RunSend
    <3> QED BY <2>1, <3>1 DEF RunSend
  <2>2. CASE DrainSend
    BY <1>1, <2>2 DEF DrainSend, SocketInv
  <2> QED BY <2>1, <2>2
<1>3. UNCHANGED <<chanVars, client, dial, sock, conns, lingering, pc>> /\ (batch' = batch \/ Running("send"))
  BY DEF RunSend, DrainSend, sendVars
<1>4. \/ lpc = "next" /\ lpc' = "next"
      \/ lpc = "drainSend" /\ lpc' = "drain"
  BY DEF RunSend, DrainSend, Running
<1>5. /\ \A x : Has(queued, x) => Has(queued', x)
      /\ \A x : x \notin {"writeComplete", "highWater"} => (Has(queued', x) => Has(queued, x))
      /\ sock = 0 => UNCHANGED <<buf, queued>>
      /\ sock # 0 /\ buf' = 0 => /\ Followed(queued')
                                 /\ \/ Has(queued', "writeComplete")
                                    \/ buf = 0 /\ queued' = queued
  BY <1>1, <1>2, <1>3, SentOn
<1>6. /\ \A x : Has(batch', x) => Has(batch, x)
      /\ \A x : Has(batch, x) /\ x # "send" => Has(batch', x)
      /\ Followed(batch) => Followed(batch')
  BY <1>3, TakenOne
<1>7. /\ \A x : Posted(x) /\ x # "send" => Posted(x)'
      /\ \A x : x \notin {"writeComplete", "highWater"} => (Posted(x)' => Posted(x))
      /\ Has(queued', "writeComplete") => Posted("writeComplete")'
  BY <1>5, <1>6 DEF Posted
<1>8. \A x : Asked(x)' <=> Asked(x)
  BY <1>3 DEF Asked
<1>9. SocketInv'
  BY <1>1, <1>3, <1>4, <1>7 DEF SocketInv, chanVars
<1>10. WaterInv'
  BY <1>1, <1>3, <1>4, <1>5, <1>6, <1>7 DEF WaterInv, SocketInv, chanVars
<1>11. FlagInv'
  BY <1>1, <1>3, <1>4, <1>7, <1>8 DEF FlagInv, SocketInv, ConnectComes, DrainComes, chanVars
<1> QED BY <1>9, <1>10, <1>11 DEF OpenInv

(* The other functors *)
LEMMA WakeRuns ==
    ASSUME ChannelInv, OpenInv, ~closing,
           RunHighWater \/ RunWriteComplete \/ RunDrain \/ RunConnect \/ RunStop \/ RunDown
    PROVE  OpenInv'
<1>1. SocketInv /\ WaterInv /\ FlagInv
  BY DEF OpenInv
<1>2. ~RunStop /\ ~RunDown
  <2>1. ~Has(batch, "stop") /\ ~Has(batch, "down")
    BY <1>1 DEF SocketInv, Posted
  <2> QED BY <2>1, TakenOne DEF RunStop, RunDown
<1>3. PICK r \in {"highWater", "writeComplete", "drain", "connect"} :
          /\ Running(r)
          /\ r = "highWater" <=> RunHighWater
          /\ r = "writeComplete" <=> RunWriteComplete
          /\ r = "drain" <=> RunDrain
          /\ r = "connect" <=> RunConnect
  BY <1>2 DEF RunHighWater, RunWriteComplete, RunDrain, RunConnect, Running
<1>4. /\ UNCHANGED <<pending, closing, connection, sockVars, queued, pc>> /\ lpc = "next"
      /\ r # "connect" => connecting' = connecting
      /\ r \in {"drain", "connect"} => overloaded' = overloaded
  BY <1>2, <1>3 DEF RunHighWater, RunWriteComplete, RunDrain, RunConnect, Running, sendVars, chanVars
<1>5. /\ \A x : Has(batch', x) => Has(batch, x)
      /\ \A x : Has(batch, x) /\ x # r => Has(batch', x)
      /\ Followed(batch) => Followed(batch')
      /\ Followed(batch) /\ r = "highWater" => Has(batch', "writeComplete")
  BY <1>3, TakenOne
<1>6. /\ \A x : Posted(x)' => Posted(x)
      /\ \A x : Posted(x) /\ x # r => Posted(x)'
      /\ Has(batch', "writeComplete") \/ Has(queued, "writeComplete") => Posted("writeComplete")'
  BY <1>4, <1>5 DEF Posted
<1>7. \A x : Asked(x)' <=> Asked(x)
  BY <1>4 DEF Asked
<1>8. connection = sock
  BY <1>1, <1>4 DEF SocketInv
<1>9. CASE r = "highWater"
  <2>1. overloaded' = TRUE /\ lpc' = "next"
    BY <1>3, <1>9 DEF RunHighWater, Running
  <2>2. SocketInv'
    BY <1>1, <1>4, <1>6, <2>1 DEF SocketInv, sockVars
  <2>3. WaterInv'
    BY <1>1, <1>4, <1>5, <1>6, <1>9, <2>1 DEF WaterInv, sockVars
  <2>4. FlagInv'
    BY <1>1, <1>4, <1>6, <1>7, <1>9, <2>1 DEF FlagInv, ConnectComes, sockVars
  <2> QED BY <2>2, <2>3, <2>4 DEF OpenInv
<1>10. CASE r = "writeComplete"
  <2>1. overloaded' = FALSE /\ lpc' = "drain"
    BY <1>3, <1>10 DEF RunWriteComplete, Running
  <2>2. SocketInv'
    BY <1>1, <1>4, <1>6, <2>1 DEF SocketInv, sockVars
  <2>3. WaterInv'
    BY <1>1, <1>4, <1>5, <1>6, <1>10, <2>1 DEF WaterInv, sockVars
  <2>4. FlagInv'
    BY <1>1, <1>4, <1>6, <1>7, <1>10, <2>1 DEF FlagInv, ConnectComes, DrainComes, sockVars
  <2> QED BY <2>2, <2>3, <2>4 DEF OpenInv
<1>11. CASE r = "drain"
  <2>1. lpc' = "drain"
    BY <1>3, <1>11 DEF RunDrain
  <2>2. SocketInv'
    BY <1>1, <1>4, <1>6, <2>1 DEF SocketInv, sockVars
  <2>3. WaterInv'
    BY <1>1, <1>4, <1>5, <1>6, <1>11, <2>1 DEF WaterInv, sockVars
  <2>4. FlagInv'
    BY <1>1, <1>4, <1>6, <1>7, <1>11, <2>1 DEF FlagInv, ConnectComes, DrainComes, sockVars
  <2> QED BY <2>2, <2>3, <2>4 DEF OpenInv
<1>12. CASE r = "connect"
  <2>1. \/ sock # 0 /\ lpc' = "next"
        \/ sock = 0 /\ lpc' = "ensure" /\ connecting' = connecting
    <3>1. IF Connected THEN connecting' = FALSE /\ lpc' = "next"
          ELSE lpc' = "ensure" /\ connecting' = connecting
      BY <1>3, <1>12 DEF RunConnect
    <3> QED BY <1>8, <3>1, DialIs DEF Connected
  <2>2. SocketInv'
    BY <1>1, <1>4, <1>6, <2>1 DEF SocketInv, sockVars
  <2>3. WaterInv'
    BY <1>1, <1>4, <1>5, <1>6, <1>12, <2>1 DEF WaterInv, sockVars
  <2>4. FlagInv'
    BY <1>1, <1>4, <1>6, <1>7, <1>12, <2>1 DEF FlagInv, ConnectComes, DrainComes, sockVars
  <2> QED BY <2>2, <2>3, <2>4 DEF OpenInv
<1> QED BY <1>9, <1>10, <1>11, <1>12

(* The drain and the connect functor's second half *)
LEMMA WakeLoops ==
    ASSUME ChannelInv, OpenInv, ~closing, DrainLeave \/ DrainPop \/ EnsureClient \/ ConnectFailed
    PROVE  OpenInv'
<1>1. /\ SocketInv /\ WaterInv /\ FlagInv
      /\ UNCHANGED <<overloaded, closing, connection, sock, buf, lingering, batch, queued, pc>>
  BY DEF OpenInv, DrainLeave, DrainPop, EnsureClient, ConnectFailed, sendVars, chanVars, sockVars
<1>2. /\ \A x : Posted(x)' <=> Posted(x)
      /\ \A x : Asked(x)' <=> Asked(x)
  BY <1>1 DEF Posted, Asked
<1>3. ~ConnectFailed
  BY <1>1 DEF ConnectFailed, SocketInv
<1>4. CASE DrainLeave
  <2>1. /\ UNCHANGED <<pending, connecting, client, dial>> /\ lpc = "drain" /\ lpc' = "next"
        /\ overloaded \/ ~Connected \/ pending = <<>>
    BY <1>4 DEF DrainLeave, chanVars, sockVars
  <2>2. connection = sock /\ (~Connected => sock = 0)
    BY <1>1, <2>1, DialIs DEF SocketInv, Connected
  <2>3. SocketInv' /\ WaterInv'
    BY <1>1, <1>2, <2>1 DEF SocketInv, WaterInv
  <2>4. FlagInv'
    BY <1>1, <1>2, <2>1, <2>2 DEF FlagInv, ConnectComes, DrainComes
  <2> QED BY <2>3, <2>4 DEF OpenInv
<1>5. CASE DrainPop
  <2>1. UNCHANGED <<connecting, client, dial>> /\ lpc = "drain" /\ lpc' = "drainSend" /\ Connected
    BY <1>5 DEF DrainPop, sockVars
  <2>2. sock # 0 /\ connection = sock
    BY <2>1 DEF Connected
  <2>3. SocketInv' /\ WaterInv'
    BY <1>1, <1>2, <2>1, <2>2 DEF SocketInv, WaterInv
  <2>4. FlagInv'
    BY <1>1, <2>1, <2>2 DEF FlagInv, DrainComes
  <2> QED BY <2>3, <2>4 DEF OpenInv
<1>6. CASE EnsureClient
  <2>1. /\ UNCHANGED <<pending, connecting>> /\ lpc = "ensure" /\ lpc' = "next" /\ client' = TRUE
        /\ dial' = IF dial = "off" /\ sock = 0 THEN "new" ELSE dial
    BY <1>6 DEF EnsureClient, chanVars
  <2>2. sock = 0 /\ dial' # "off" /\ (dial' = "ready" => dial = "ready") /\ connection = sock
    BY <1>1, <2>1 DEF SocketInv
  <2>3. SocketInv'
    BY <1>1, <1>2, <2>1, <2>2 DEF SocketInv
  <2>4. WaterInv'
    BY <1>1, <1>2, <2>1, <2>2 DEF WaterInv
  <2>5. FlagInv'
    BY <1>1, <1>2, <2>1, <2>2 DEF FlagInv, ConnectComes
  <2> QED BY <2>3, <2>4, <2>5 DEF OpenInv
<1> QED BY <1>3, <1>4, <1>5, <1>6

LEMMA WakeNext == ASSUME WakeInv, [Next]_vars PROVE WakeInv'
<1>1. ChannelInv' /\ ClosedInv'
  BY ChannelNext, ClosedNext DEF WakeInv
<1> SUFFICES ASSUME ~closing' PROVE OpenInv'
  BY <1>1 DEF WakeInv
<1>2. closing => closing'
  BY DEF Next, LoopStep, SenderStep, vars, chanVars, PostSend, PostOther, Prewarm, Refuse, SendDirect, Queue, Given,
         StopChannel, PostStop, Turn, Up, Down, Lingered, Writable, HandleUp, HandleDown, RunSend, RunHighWater,
         RunWriteComplete, RunDrain, DrainLeave, DrainPop, DrainSend, RunConnect, EnsureClient, ConnectFailed,
         RunStop, RunDown
<1>3. ChannelInv /\ OpenInv /\ ~closing
  BY <1>2 DEF WakeInv
<1>4. CASE UNCHANGED vars
  <2>1. /\ \A x : Posted(x)' <=> Posted(x)
        /\ \A x : Asked(x)' <=> Asked(x)
    BY <1>4 DEF Posted, Asked, vars, loopVars, sendVars
  <2> QED BY <1>3, <1>4, <2>1 DEF vars, chanVars, sockVars, loopVars, sendVars, OpenInv, SocketInv, WaterInv,
             FlagInv, ConnectComes, DrainComes
<1>5. ~StopChannel /\ ~PostStop
  BY <1>3 DEF StopChannel, PostStop, WakeInv, ClosedInv
<1> QED BY <1>3, <1>4, <1>5, WakePosts, WakeGives, WakeEvents, WakeHandles, WakeSends, WakeRuns, WakeLoops
        DEF Next, LoopStep, SenderStep

(* enqueueOrSend 320-328, scheduleConnect, drainPendingInLoop, the callbacks: in every state of any  *)
(* channel with messages in its queue, one of those that drain it is on its way.  The     *)
(* flags connecting and overloaded, the connector, the callbacks and what senders have still to post    *)
(* never leave the queue to itself, through connections lost at any point, marks set late    *)
(* and connects that find nothing to do.  PendingServed adds that it comes in the end.       *)
THEOREM NoMessageForgotten == Spec => []QueueNotForgotten
<1>1. Init => WakeInv
  <2> SUFFICES ASSUME Init PROVE WakeInv
    OBVIOUS
  <2>1. ChannelInv /\ ClosedInv
    BY ChannelInit DEF Init, ClosedInv
  <2>2. \A x : ~Posted(x)
    BY NoneQueued DEF Init, Posted, Has
  <2>3. \A x : ~Has(queued, x)
    BY <2>2 DEF Posted
  <2>4. OpenInv
    BY <2>2, <2>3 DEF Init, OpenInv, SocketInv, WaterInv, FlagInv
  <2> QED BY <2>1, <2>4 DEF WakeInv
<1>2. WakeInv => QueueNotForgotten
  <2> SUFFICES ASSUME WakeInv, pending # <<>>
               PROVE  IF sock = 0 THEN ConnectComes
                      ELSE IF overloaded THEN buf > 0 \/ Posted("writeComplete") \/ lpc = "up"
                      ELSE DrainComes
    BY DEF QueueNotForgotten
  <2>1. ~closing
    BY DEF WakeInv, ClosedInv
  <2>2. SocketInv /\ WaterInv /\ FlagInv /\ buf \in Nat
    BY <2>1, DialIs DEF WakeInv, OpenInv
  <2> QED BY <2>2 DEF WaterInv, FlagInv, ConnectComes
<1> QED BY <1>1, <1>2, WakeNext, PTL DEF Spec
=============================================================================
