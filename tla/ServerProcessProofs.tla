------------------------- MODULE ServerProcessProofs -------------------------
(***************************************************************************)
(* The router's map of channels in the life of a server process: ChannelKnown   *)
(* and PrewarmCovers for any number of threads, shards, instances and channels,  *)
(* with SIGINT on any thread and a crash at any point.  Then its lease: type        *)
(* correctness, and LeaseKept for every time to live and every interval of the       *)
(* heartbeat below it.                                                            *)
(***************************************************************************)
EXTENDS ServerProcess, TLAPS

USE RouterMapAssumption, ProcessAssumption

UseType == [pc: {"none", "find", "insert", "touch"}, warm: 0..(Shards + 1),
            shard: 0..Shards, chan: 0..MaxChan]

MapType ==
    /\ connMap \in [Shard -> 0..MaxChan]
    /\ chan \in [Chan -> {"absent", "idle", "active", "closing"}]
    /\ use \in [Caller -> UseType]
    /\ closing \in [pc: {"no", "clear", "stop", "done"}, left: SUBSET Chan]

Open == closing.pc \in {"no", "clear"}   \* closeAll has not emptied the map

Covered(s) == connMap[s] # 0 /\ chan[connMap[s]] = "active"

(* A call of the router has a shard to look for; until closeAll a channel in the map *)
(* is not closing, and the one a thread is about to touch is the map's; the shards    *)
(* of a marked node are covered, or a thread in prewarmNode has still to come to them  *)
MapInv ==
    /\ \A t \in Caller : IF use[t].pc = "none" THEN use[t] = NoUse
                         ELSE use[t].warm # 0 /\ ShardOf(t) \in Shard
    /\ closing.pc # "stop" => closing.left = {}
    /\ Open => \A s \in Shard : connMap[s] # 0 => chan[connMap[s]] \in {"idle", "active"}
    /\ Open => \A t \in Caller : use[t].pc = "touch" =>
                  use[t].chan # 0 /\ use[t].chan = connMap[ShardOf(t)]
    /\ warmed # 0 /\ Open =>
          \A s \in Shard : Covered(s) \/ \E t \in Caller : use[t].warm \in 1..s

(* closeAll comes after unregisterNode *)
CloseInv == closing.pc # "no" => sig.pc \in {"close", "db"}

IInv == MapType /\ MapInv /\ ChannelKnown /\ CloseInv

-----------------------------------------------------------------------------
(* The steps of the router, and the two by which the process begins and ends it *)

MarkClear ==
    /\ closing.pc = "no" /\ closing' = [closing EXCEPT !.pc = "clear"]
    /\ UNCHANGED <<connMap, chan, warmed, use>>

Reset ==
    /\ connMap' = [s \in Shard |-> 0] /\ chan' = [c \in Chan |-> "absent"] /\ warmed' = 0
    /\ use' = [t \in Caller |-> NoUse] /\ closing' = [pc |-> "no", left |-> {}]

MapStep ==
    \/ UNCHANGED routerVars
    \/ \E t \in Caller : \/ \E r \in 1..Remotes, s \in Shard \union {0} : Forward(t, r, s)
                         \/ RouterStep(t)
    \/ CloseClear \/ CloseStop \/ MarkClear \/ Reset

LEMMA HandlerMaps ==
    ASSUME CloseInv, HandlerStep PROVE MapStep /\ CloseInv'
<1>1. CASE Users \/ Stop \/ Join
  BY <1>1 DEF Users, Stop, Join, Go, Handler, CloseInv, MapStep, routerVars
<1>2. CASE Cleanup
  BY <1>2 DEF Cleanup, Go, Handler, CloseInv, MapStep, routerVars
<1>3. CASE Unregister
  BY <1>3 DEF Unregister, Go, Handler, CloseInv, MapStep, MarkClear
<1>4. CASE CloseAll
  BY <1>4 DEF CloseAll, Go, Handler, CloseInv, MapStep
<1>5. CASE Exit \/ Abort
  BY <1>5 DEF Exit, Abort, Die, MapStep, Reset, CloseInv
<1> QED BY <1>1, <1>2, <1>3, <1>4, <1>5 DEF HandlerStep, Leave

LEMMA ThreadMaps ==
    ASSUME NEW t \in Thread, ThreadStep(t) PROVE MapStep /\ UNCHANGED sig /\ (closing' = closing)
<1>1. CASE LeaseAct(t)
  BY <1>1 DEF LeaseAct, MapStep, routerVars
<1>2. CASE Prewarm
  BY <1>2 DEF Prewarm, MapStep, routerVars, Forward
<1>3. CASE t \in Caller /\ RouterAct(t)
  BY <1>3 DEF RouterAct, MapStep, RouterStep, Find, Insert, Touch
<1> QED BY <1>1, <1>2, <1>3 DEF ThreadStep

LEMMA NextMaps ==
    ASSUME CloseInv, [Next]_vars PROVE MapStep /\ CloseInv'
<1>1. CASE UNCHANGED vars
  BY <1>1 DEF vars, MapStep, routerVars, CloseInv
<1>2. CASE Boot \/ Clock
  BY <1>2 DEF Boot, Clock, MapStep, routerVars, CloseInv
<1>3. CASE Crash
  BY <1>3 DEF Crash, Die, MapStep, Reset, CloseInv
<1>4. CASE HandlerStep
  BY <1>4, HandlerMaps
<1>5. ASSUME NEW t \in Thread, ThreadStep(t) PROVE MapStep /\ CloseInv'
  BY <1>5, ThreadMaps DEF CloseInv
<1>6. ASSUME NEW t \in Target, Interrupt(t) PROVE MapStep /\ CloseInv'
  BY <1>6 DEF Interrupt, MapStep, routerVars, CloseInv, NoSig
<1>7. ASSUME NEW t \in Worker, BeginBind(t) \/ BeginForward(t) PROVE MapStep /\ CloseInv'
  BY <1>7 DEF BeginBind, BeginForward, MapStep, routerVars, Forward, CloseInv
<1> QED BY <1>1, <1>2, <1>3, <1>4, <1>5, <1>6, <1>7 DEF Next
-----------------------------------------------------------------------------
(* Each step of the map keeps the invariant *)

LEMMA InitInv == Init => IInv
<1> SUFFICES ASSUME Init PROVE IInv
  OBVIOUS
<1>1. MapType
  BY DEF Init, RouterInit, MapType, UseType, NoUse
<1>2. MapInv
  BY DEF Init, RouterInit, MapInv, NoUse, Open, Covered
<1>3. ChannelKnown /\ CloseInv
  BY DEF Init, RouterInit, ChannelKnown, CloseInv
<1> QED BY <1>1, <1>2, <1>3 DEF IInv

LEMMA Bounds == Shards \in Nat \ {0} /\ MaxChan \in Nat \ {0}
  OBVIOUS

LEMMA OnwardsType ==
    ASSUME NEW u \in UseType, u.warm # 0
    PROVE  /\ Onwards(u) \in UseType
           /\ IF Onwards(u).pc = "none" THEN Onwards(u) = NoUse
              ELSE /\ Onwards(u).pc = "find" /\ Onwards(u).warm = u.warm /\ Onwards(u).shard = u.shard
                   /\ u.warm \in Shard \/ u.shard \in Shard
           /\ u.warm \in Shard => Onwards(u).warm = u.warm
<1>1. CASE u.warm <= Shards \/ u.shard # 0
  <2>1. Onwards(u) = [u EXCEPT !.pc = "find", !.chan = 0] /\ 0 \in 0..MaxChan
    BY <1>1, Bounds DEF Onwards
  <2>2. Onwards(u) \in UseType
    BY <2>1 DEF UseType
  <2>3. Onwards(u).pc = "find" /\ Onwards(u).warm = u.warm /\ Onwards(u).shard = u.shard
    BY <2>1 DEF UseType
  <2>4. u.warm \in Shard \/ u.shard \in Shard
    BY <1>1 DEF UseType, Shard
  <2> QED BY <2>2, <2>3, <2>4
<1>2. CASE ~(u.warm <= Shards \/ u.shard # 0)
  <2>1. Onwards(u) = NoUse
    BY <1>2 DEF Onwards
  <2> QED BY <1>2, <2>1 DEF UseType, Shard, NoUse
<1> QED BY <1>1, <1>2

(* What a thread does to its own call, when map and channels stay *)
LEMMA UseStep ==
    ASSUME MapType, MapInv, ChannelKnown, NEW t \in Caller, NEW u \in UseType,
           use' = [use EXCEPT ![t] = u], UNCHANGED <<connMap, chan, closing>>,
           IF u.pc = "none" THEN u = NoUse
           ELSE u.warm # 0 /\ (IF u.warm <= Shards THEN u.warm ELSE u.shard) \in Shard,
           Open /\ u.pc = "touch" =>
               u.chan # 0 /\ u.chan = connMap[IF u.warm <= Shards THEN u.warm ELSE u.shard],
           warmed' # 0 /\ Open => \A s \in Shard : Covered(s) \/ \E r \in Caller : use'[r].warm \in 1..s
    PROVE  MapType' /\ MapInv' /\ ChannelKnown'
<1>1. use'[t] = u /\ \A r \in Caller \ {t} : use'[r] = use[r]
  BY DEF MapType
<1>2. MapType'
  BY DEF MapType
<1>3. ChannelKnown'
  BY DEF ChannelKnown
<1>4. \A r \in Caller : IF use'[r].pc = "none" THEN use'[r] = NoUse
                        ELSE use'[r].warm # 0 /\ ShardOf(r)' \in Shard
  BY <1>1 DEF MapInv, ShardOf
<1>5. Open' => \A r \in Caller : use'[r].pc = "touch" =>
                  use'[r].chan # 0 /\ use'[r].chan = connMap'[ShardOf(r)']
  BY <1>1 DEF MapInv, ShardOf, Open
<1>6. warmed' # 0 /\ Open' =>
          \A s \in Shard : Covered(s)' \/ \E r \in Caller : use'[r].warm \in 1..s
  BY DEF Open, Covered
<1> QED BY <1>2, <1>3, <1>4, <1>5, <1>6 DEF MapInv, Open

LEMMA ForwardInv ==
    ASSUME IInv, NEW t \in Caller, NEW r \in 1..Remotes, NEW s \in Shard \union {0}, Forward(t, r, s)
    PROVE  MapType' /\ MapInv' /\ ChannelKnown'
<1> DEFINE u == [NoUse EXCEPT !.shard = s, !.warm = IF warmed = r THEN Shards + 1 ELSE 1]
<1>1. /\ u \in UseType /\ u.warm # 0 /\ u.warm = (IF warmed = r THEN Shards + 1 ELSE 1)
      /\ u.pc = "none" /\ u.shard = s
  <2>1. NoUse \in UseType /\ NoUse.pc = "none"
    BY Bounds DEF NoUse, UseType
  <2>2. s \in 0..Shards /\ (IF warmed = r THEN Shards + 1 ELSE 1) \in 1..(Shards + 1)
    BY Bounds DEF Shard
  <2>3. ASSUME NEW w \in 1..(Shards + 1), u = [NoUse EXCEPT !.shard = s, !.warm = w]
        PROVE  u \in UseType /\ u.warm = w /\ u.warm # 0 /\ u.pc = "none" /\ u.shard = s
    <3> HIDE DEF u
    <3>1. w \in 0..(Shards + 1) /\ w # 0
      BY Bounds
    <3>2. u \in UseType
      BY <2>1, <2>2, <2>3, <3>1 DEF UseType
    <3>3. u.warm = w /\ u.pc = "none" /\ u.shard = s
      BY <2>1, <2>3 DEF UseType
    <3> QED BY <3>1, <3>2, <3>3
  <2> QED BY <2>2, <2>3
<1>2. use' = [use EXCEPT ![t] = Onwards(u)] /\ UNCHANGED <<connMap, chan, closing>> /\ warmed' = r
  BY DEF Forward
<1>3. use[t].warm = 0
  BY DEF Forward, NoUse
<1> HIDE DEF u
<1>4. /\ Onwards(u) \in UseType
      /\ IF Onwards(u).pc = "none" THEN Onwards(u) = NoUse
         ELSE /\ Onwards(u).pc = "find" /\ Onwards(u).warm = u.warm /\ Onwards(u).shard = u.shard
              /\ u.warm \in Shard \/ u.shard \in Shard
      /\ u.warm \in Shard => Onwards(u).warm = u.warm
  BY <1>1, OnwardsType
<1>5. IF Onwards(u).pc = "none" THEN Onwards(u) = NoUse
      ELSE /\ Onwards(u).warm # 0
           /\ (IF Onwards(u).warm <= Shards THEN Onwards(u).warm ELSE Onwards(u).shard) \in Shard
  BY <1>1, <1>4 DEF UseType, Shard
<1>6. Open => \A z \in Shard : Covered(z) \/ \E q \in Caller : use'[q].warm \in 1..z
  <2>1. CASE warmed = r
    <3>1. Open => \A z \in Shard : Covered(z) \/ \E q \in Caller : use[q].warm \in 1..z
      BY <2>1 DEF IInv, MapInv
    <3>2. \A q \in Caller, z \in Shard : use[q].warm \in 1..z => q # t
      BY <1>3
    <3>3. \A q \in Caller \ {t} : use'[q] = use[q]
      BY <1>2 DEF IInv, MapType
    <3> QED BY <3>1, <3>2, <3>3
  <2>2. CASE warmed # r
    <3>1. use'[t].warm = 1
      BY <1>1, <1>2, <1>4, <2>2 DEF Shard, IInv, MapType
    <3> QED BY <3>1 DEF Shard
  <2> QED BY <2>1, <2>2
<1>7. Onwards(u).pc # "touch"
  BY <1>4 DEF NoUse
<1> QED BY <1>2, <1>4, <1>5, <1>6, <1>7, UseStep DEF IInv

LEMMA CallShard ==
    ASSUME IInv, NEW t \in Caller, use[t].pc # "none"
    PROVE  /\ use[t] \in UseType /\ use[t].warm # 0 /\ ShardOf(t) \in Shard
           /\ connMap[ShardOf(t)] \in 0..MaxChan
  BY DEF IInv, MapInv, MapType

(* A call that looks its channel up, now or when it would insert one *)
LEMMA LookInv ==
    ASSUME IInv, NEW t \in Caller, use[t].pc \in {"find", "insert"}, NEW l \in {"insert", "touch"},
           l = "touch" => connMap[ShardOf(t)] # 0,
           use' = [use EXCEPT ![t].pc = l, ![t].chan = connMap[ShardOf(t)]],
           UNCHANGED <<connMap, chan, closing, warmed>>
    PROVE  MapType' /\ MapInv' /\ ChannelKnown'
<1> DEFINE u == [use[t] EXCEPT !.pc = l, !.chan = connMap[ShardOf(t)]]
<1>1. /\ use[t] \in UseType /\ use[t].warm # 0 /\ ShardOf(t) \in Shard
      /\ connMap[ShardOf(t)] \in 0..MaxChan
  BY CallShard
<1>2. /\ u \in UseType /\ u.pc = l /\ u.warm = use[t].warm /\ u.shard = use[t].shard
      /\ u.chan = connMap[ShardOf(t)]
  BY <1>1 DEF UseType
<1>3. use' = [use EXCEPT ![t] = u]
  BY DEF IInv, MapType
<1>4. \A r \in Caller : use'[r].warm = use[r].warm
  BY <1>2, <1>3 DEF IInv, MapType
<1>5. warmed' # 0 /\ Open => \A s \in Shard : Covered(s) \/ \E r \in Caller : use'[r].warm \in 1..s
  BY <1>4 DEF IInv, MapInv
<1>6. ShardOf(t) = IF u.warm <= Shards THEN u.warm ELSE u.shard
  BY <1>2 DEF ShardOf
<1> HIDE DEF u
<1>7. u.pc # "none" /\ u.warm # 0 /\ (IF u.warm <= Shards THEN u.warm ELSE u.shard) \in Shard
  BY <1>1, <1>2, <1>6
<1>8. u.pc = "touch" => u.chan # 0 /\ u.chan = connMap[IF u.warm <= Shards THEN u.warm ELSE u.shard]
  BY <1>2, <1>6
<1> QED BY <1>2, <1>3, <1>5, <1>7, <1>8, UseStep DEF IInv

LEMMA FindInv ==
    ASSUME IInv, NEW t \in Caller, Find(t) PROVE MapType' /\ MapInv' /\ ChannelKnown'
<1> DEFINE l == IF connMap[ShardOf(t)] = 0 THEN "insert" ELSE "touch"
<1>1. use' = [use EXCEPT ![t].pc = l, ![t].chan = connMap[ShardOf(t)]]
  BY DEF Find
<1> QED BY <1>1, LookInv DEF Find

LEMMA InsertInv ==
    ASSUME IInv, NEW t \in Caller, Insert(t) PROVE MapType' /\ MapInv' /\ ChannelKnown'
<1> DEFINE z == ShardOf(t)
<1>1. use[t] \in UseType /\ use[t].warm # 0 /\ z \in Shard /\ connMap[z] \in 0..MaxChan
  BY CallShard DEF Insert
<1>2. CASE /\ connMap[z] # 0
           /\ use' = [use EXCEPT ![t].pc = "touch", ![t].chan = connMap[z]]
           /\ UNCHANGED <<connMap, chan>>
  BY <1>2, LookInv DEF Insert
<1>3. ASSUME connMap[z] = 0, NEW new \in Chan, chan[new] = "absent",
             connMap' = [connMap EXCEPT ![z] = new], chan' = [chan EXCEPT ![new] = "idle"],
             use' = [use EXCEPT ![t].pc = "touch", ![t].chan = new]
      PROVE  MapType' /\ MapInv' /\ ChannelKnown'
  <2> DEFINE u == [use[t] EXCEPT !.pc = "touch", !.chan = new]
  <2>1. u \in UseType /\ u.pc = "touch" /\ u.warm = use[t].warm /\ u.shard = use[t].shard /\ u.chan = new
    <3>1. new \in 0..MaxChan
      BY DEF Chan
    <3>2. u \in UseType
      BY <1>1, <3>1 DEF UseType
    <3>3. u.pc = "touch" /\ u.warm = use[t].warm /\ u.shard = use[t].shard /\ u.chan = new
      BY <1>1 DEF UseType
    <3> QED BY <3>2, <3>3
  <2>2. use' = [use EXCEPT ![t] = u] /\ UNCHANGED <<closing, warmed>>
    BY <1>3 DEF IInv, MapType, Insert
  <2> HIDE DEF u
  <2>3. use'[t] = u /\ \A r \in Caller \ {t} : use'[r] = use[r]
    BY <2>2 DEF IInv, MapType
  <2>4. new # 0 /\ new \in 0..MaxChan
    BY DEF Chan
  <2>5. connMap'[z] = new /\ \A s \in Shard \ {z} : connMap'[s] = connMap[s]
    BY <1>1, <1>3 DEF IInv, MapType
  <2>6. chan'[new] = "idle" /\ \A c \in Chan \ {new} : chan'[c] = chan[c]
    BY <1>3 DEF IInv, MapType
  <2>7. MapType'
    <3>1. connMap' \in [Shard -> 0..MaxChan]
      BY <1>3, <2>4 DEF IInv, MapType
    <3>2. chan' \in [Chan -> {"absent", "idle", "active", "closing"}]
      BY <1>3 DEF IInv, MapType
    <3>3. use' \in [Caller -> UseType]
      BY <2>1, <2>2 DEF IInv, MapType
    <3> QED BY <2>2, <3>1, <3>2, <3>3 DEF IInv, MapType
  <2>8. ChannelKnown'
    <3> SUFFICES ASSUME NEW c \in Chan, chan'[c] \in {"idle", "active"}
                 PROVE  c \in closing'.left \/ \E s \in Shard : connMap'[s] = c
      BY DEF ChannelKnown
    <3>1. CASE c = new
      BY <3>1, <1>1, <2>5
    <3>2. CASE c # new
      <4>1. c # 0 /\ (c \in closing.left \/ \E s \in Shard : connMap[s] = c)
        BY <3>2, <2>6 DEF IInv, ChannelKnown, Chan
      <4> QED BY <4>1, <1>3, <2>2, <2>5
    <3> QED BY <3>1, <3>2
  <2>9. \A s \in Shard : connMap[s] # 0 => s # z
    BY <1>3
  <2>10. \A r \in Caller : ShardOf(r)' = ShardOf(r) /\ use'[r].warm = use[r].warm
    BY <2>1, <2>3 DEF ShardOf
  <2>11. \A r \in Caller : IF use'[r].pc = "none" THEN use'[r] = NoUse
                           ELSE use'[r].warm # 0 /\ ShardOf(r)' \in Shard
    BY <1>1, <2>1, <2>3, <2>10 DEF IInv, MapInv
  <2>12. Open' => \A s \in Shard : connMap'[s] # 0 => chan'[connMap'[s]] \in {"idle", "active"}
    <3> SUFFICES ASSUME Open, NEW s \in Shard, connMap'[s] # 0
                 PROVE  chan'[connMap'[s]] \in {"idle", "active"}
      BY <2>2 DEF Open
    <3>1. CASE s = z
      BY <3>1, <2>5, <2>6
    <3>2. CASE s # z
      <4>1. connMap'[s] = connMap[s] /\ connMap[s] \in Chan /\ chan[connMap[s]] \in {"idle", "active"}
        BY <3>2, <2>5 DEF IInv, MapType, MapInv, Chan
      <4>2. connMap[s] # new
        BY <4>1, <1>3
      <4> QED BY <4>1, <4>2, <2>6
    <3> QED BY <3>1, <3>2
  <2>13. Open' => \A r \in Caller : use'[r].pc = "touch" =>
                     use'[r].chan # 0 /\ use'[r].chan = connMap'[ShardOf(r)']
    <3> SUFFICES ASSUME Open, NEW r \in Caller, use'[r].pc = "touch"
                 PROVE  use'[r].chan # 0 /\ use'[r].chan = connMap'[ShardOf(r)]
      BY <2>2, <2>10 DEF Open
    <3>1. CASE r = t
      BY <3>1, <2>1, <2>3, <2>4, <2>5
    <3>2. CASE r # t
      <4>1. use'[r] = use[r] /\ use[r].chan # 0 /\ use[r].chan = connMap[ShardOf(r)] /\ ShardOf(r) \in Shard
        BY <3>2, <2>3, CallShard DEF IInv, MapInv
      <4> QED BY <4>1, <2>5, <2>9
    <3> QED BY <3>1, <3>2
  <2>14. warmed' # 0 /\ Open' =>
            \A s \in Shard : Covered(s)' \/ \E r \in Caller : use'[r].warm \in 1..s
    <3> SUFFICES ASSUME warmed # 0, Open, NEW s \in Shard
                 PROVE  Covered(s)' \/ \E r \in Caller : use'[r].warm \in 1..s
      BY <2>2 DEF Open
    <3>1. CASE Covered(s)
      <4>1. connMap'[s] = connMap[s] /\ connMap[s] \in Chan /\ connMap[s] # new
        BY <3>1, <1>3, <2>5, <2>9 DEF Covered, IInv, MapType, Chan
      <4> QED BY <3>1, <4>1, <2>6 DEF Covered
    <3>2. CASE \E r \in Caller : use[r].warm \in 1..s
      BY <3>2, <2>10
    <3> QED BY <3>1, <3>2 DEF IInv, MapInv
  <2> QED BY <2>2, <2>7, <2>8, <2>11, <2>12, <2>13, <2>14 DEF MapInv, IInv, Open
<1> QED BY <1>2, <1>3 DEF Insert

LEMMA TouchInv ==
    ASSUME IInv, NEW t \in Caller, Touch(t) PROVE MapType' /\ MapInv' /\ ChannelKnown'
<1> DEFINE z == ShardOf(t)
           v == [use[t] EXCEPT !.warm = use[t].warm + 1]
           u == IF use[t].warm <= Shards THEN Onwards(v) ELSE NoUse
<1>1. use[t] \in UseType /\ use[t].warm # 0 /\ z \in Shard /\ use[t].pc = "touch"
  BY CallShard DEF Touch
<1>2. use[t].warm <= Shards =>
         /\ v \in UseType /\ v.warm = use[t].warm + 1 /\ v.warm # 0 /\ v.shard = use[t].shard
         /\ z = use[t].warm
  <2> SUFFICES ASSUME use[t].warm <= Shards
               PROVE  /\ v \in UseType /\ v.warm = use[t].warm + 1 /\ v.warm # 0
                      /\ v.shard = use[t].shard /\ z = use[t].warm
    OBVIOUS
  <2>1. use[t].warm + 1 \in 1..(Shards + 1)
    BY <1>1 DEF UseType
  <2> QED BY <1>1, <2>1, Bounds DEF ShardOf, UseType
<1>3. use' = [use EXCEPT ![t] = u] /\ UNCHANGED <<connMap, closing, warmed>>
  BY DEF Touch, IInv, MapType
<1>4. use[t].warm <= Shards =>
         /\ Onwards(v) \in UseType
         /\ IF Onwards(v).pc = "none" THEN Onwards(v) = NoUse
            ELSE /\ Onwards(v).pc = "find" /\ Onwards(v).warm = v.warm /\ Onwards(v).shard = v.shard
                 /\ v.warm \in Shard \/ v.shard \in Shard
         /\ v.warm \in Shard => Onwards(v).warm = v.warm
  <2> HIDE DEF v
  <2> QED BY <1>2, OnwardsType
<1>5. /\ u \in UseType /\ u.pc # "touch"
      /\ IF u.pc = "none" THEN u = NoUse
         ELSE u.warm # 0 /\ (IF u.warm <= Shards THEN u.warm ELSE u.shard) \in Shard
  <2>1. CASE use[t].warm <= Shards
    <3> HIDE DEF v
    <3> QED BY <2>1, <1>1, <1>2, <1>4 DEF Shard, NoUse, UseType
  <2>2. CASE ~(use[t].warm <= Shards)
    BY <2>2 DEF NoUse, UseType
  <2> QED BY <2>1, <2>2
<1>6. \A s \in Shard : use[t].warm \in 1..s => s = z \/ u.warm \in 1..s
  <2> SUFFICES ASSUME NEW s \in Shard, use[t].warm \in 1..s, s # z PROVE u.warm \in 1..s
    OBVIOUS
  <2>1. use[t].warm <= Shards /\ v.warm \in 1..s /\ v.warm \in Shard
    BY <1>1, <1>2 DEF Shard, UseType
  <2> HIDE DEF v
  <2> QED BY <2>1, <1>4
<1> HIDE DEF u, v
<1>7. use'[t] = u /\ \A r \in Caller \ {t} : use'[r] = use[r]
  BY <1>3 DEF IInv, MapType
<1>8. \A c \in Chan : /\ chan'[c] = chan[c] \/ (chan[c] = "idle" /\ chan'[c] = "active")
                      /\ c = use[t].chan => chan'[c] # "idle"
  BY DEF Touch, IInv, MapType
<1>9. MapType'
  <2>1. chan' \in [Chan -> {"absent", "idle", "active", "closing"}]
    BY DEF Touch, IInv, MapType
  <2> QED BY <1>3, <1>5, <2>1 DEF IInv, MapType
<1>10. ChannelKnown'
  BY <1>3, <1>8 DEF IInv, ChannelKnown
<1>11. \A r \in Caller : IF use'[r].pc = "none" THEN use'[r] = NoUse
                         ELSE use'[r].warm # 0 /\ ShardOf(r)' \in Shard
  BY <1>5, <1>7 DEF IInv, MapInv, ShardOf
<1>12. Open' => \A s \in Shard : connMap'[s] # 0 => chan'[connMap'[s]] \in {"idle", "active"}
  <2> SUFFICES ASSUME Open, NEW s \in Shard, connMap[s] # 0
               PROVE  chan'[connMap[s]] \in {"idle", "active"}
    BY <1>3 DEF Open
  <2>1. connMap[s] \in Chan /\ chan[connMap[s]] \in {"idle", "active"}
    BY DEF IInv, MapType, MapInv, Chan
  <2> QED BY <2>1, <1>8
<1>13. Open' => \A r \in Caller : use'[r].pc = "touch" =>
                   use'[r].chan # 0 /\ use'[r].chan = connMap'[ShardOf(r)']
  BY <1>3, <1>5, <1>7 DEF IInv, MapInv, ShardOf, Open
<1>14. warmed' # 0 /\ Open' =>
          \A s \in Shard : Covered(s)' \/ \E r \in Caller : use'[r].warm \in 1..s
  <2> SUFFICES ASSUME warmed # 0, Open, NEW s \in Shard
               PROVE  Covered(s)' \/ \E r \in Caller : use'[r].warm \in 1..s
    BY <1>3 DEF Open
  <2>1. CASE Covered(s)
    <3>1. connMap[s] \in Chan
      BY <2>1 DEF Covered, IInv, MapType, Chan
    <3> QED BY <2>1, <3>1, <1>3, <1>8 DEF Covered
  <2>2. CASE s = z
    <3>1. use[t].chan = connMap[z] /\ connMap[z] # 0
      BY <1>1 DEF IInv, MapInv
    <3>2. connMap[z] \in Chan /\ chan[connMap[z]] \in {"idle", "active"}
      BY <3>1, <1>1 DEF IInv, MapInv, MapType, Chan
    <3> QED BY <2>2, <3>1, <3>2, <1>3, <1>8 DEF Covered
  <2>3. ASSUME NEW r \in Caller, use[r].warm \in 1..s, s # z
        PROVE  \E q \in Caller : use'[q].warm \in 1..s
    <3>1. CASE r = t
      BY <3>1, <2>3, <1>6, <1>7
    <3>2. CASE r # t
      BY <3>2, <2>3, <1>7
    <3> QED BY <3>1, <3>2
  <2> QED BY <2>1, <2>2, <2>3 DEF IInv, MapInv
<1> QED BY <1>3, <1>9, <1>10, <1>11, <1>12, <1>13, <1>14 DEF MapInv, IInv, Open

(* closeAll, and what surrounds it: the shards need not be covered any more *)
LEMMA CloseStepInv ==
    ASSUME IInv, CloseClear \/ CloseStop \/ MarkClear \/ Reset
    PROVE  MapType' /\ MapInv' /\ ChannelKnown'
<1>1. CASE CloseClear
  <2>1. closing'.pc = "stop" /\ closing'.left = {connMap[s] : s \in Shard} \ {0}
    BY <1>1 DEF CloseClear
  <2>2. closing'.left \subseteq Chan
    BY <2>1 DEF IInv, MapType, Chan
  <2>3. MapType'
    BY <1>1, <2>1, <2>2 DEF CloseClear, IInv, MapType
  <2>4. MapInv'
    BY <1>1, <2>1 DEF CloseClear, IInv, MapInv, Open, ShardOf
  <2>5. ChannelKnown'
    BY <1>1, <2>1 DEF CloseClear, IInv, MapInv, ChannelKnown, Chan
  <2> QED BY <2>3, <2>4, <2>5
<1>2. CASE CloseStop
  <2>1. PICK c \in closing.left : /\ chan' = [chan EXCEPT ![c] = "closing"]
                                  /\ closing' = [closing EXCEPT !.left = @ \ {c}]
    BY <1>2 DEF CloseStop
  <2>2. closing.pc = "stop" /\ UNCHANGED <<connMap, warmed, use>>
    BY <1>2 DEF CloseStop
  <2>3. closing'.pc = "stop" /\ closing'.left = closing.left \ {c} /\ c \in Chan
    BY <2>1, <2>2 DEF IInv, MapType
  <2>4. MapType'
    BY <2>1, <2>2, <2>3 DEF IInv, MapType
  <2>5. MapInv'
    BY <2>2, <2>3 DEF IInv, MapInv, Open, ShardOf
  <2>6. ChannelKnown'
    BY <2>1, <2>2, <2>3 DEF IInv, MapType, ChannelKnown
  <2> QED BY <2>4, <2>5, <2>6
<1>3. CASE MarkClear
  <2>1. closing'.pc = "clear" /\ closing'.left = closing.left /\ closing.pc = "no" /\ closing.left = {}
    BY <1>3 DEF MarkClear, IInv, MapType, MapInv
  <2>2. MapType'
    BY <1>3 DEF MarkClear, IInv, MapType
  <2>3. MapInv'
    BY <1>3, <2>1 DEF MarkClear, IInv, MapInv, Open, ShardOf, Covered
  <2>4. ChannelKnown'
    BY <1>3, <2>1 DEF MarkClear, IInv, ChannelKnown
  <2> QED BY <2>2, <2>3, <2>4
<1>4. CASE Reset
  <2>1. MapType'
    BY <1>4 DEF Reset, MapType, UseType, NoUse
  <2>2. MapInv'
    BY <1>4 DEF Reset, MapInv, Open, NoUse, Covered
  <2>3. ChannelKnown'
    BY <1>4 DEF Reset, ChannelKnown
  <2> QED BY <2>1, <2>2, <2>3
<1> QED BY <1>1, <1>2, <1>3, <1>4

LEMMA NextInv == ASSUME IInv, [Next]_vars PROVE IInv'
<1>1. MapStep /\ CloseInv'
  BY NextMaps DEF IInv
<1>2. CASE UNCHANGED routerVars
  BY <1>1, <1>2 DEF routerVars, IInv, MapType, MapInv, ChannelKnown, Open, Covered, ShardOf
<1>3. ASSUME NEW t \in Caller, NEW r \in 1..Remotes, NEW s \in Shard \union {0}, Forward(t, r, s)
      PROVE  IInv'
  BY <1>1, <1>3, ForwardInv DEF IInv
<1>4. ASSUME NEW t \in Caller, RouterStep(t) PROVE IInv'
  BY <1>1, <1>4, FindInv, InsertInv, TouchInv DEF RouterStep, IInv
<1>5. CASE CloseClear \/ CloseStop \/ MarkClear \/ Reset
  BY <1>1, <1>5, CloseStepInv DEF IInv
<1> QED BY <1>1, <1>2, <1>3, <1>4, <1>5 DEF MapStep

-----------------------------------------------------------------------------
(* getOrCreateChannel and closeAll: a channel that may connect is the map's for its   *)
(* shard, or is about to be stopped, for any number of threads and shards.             *)
THEOREM ChannelsKnown == Spec => []ChannelKnown
<1>1. Init => IInv
  BY InitInv
<1>2. IInv /\ [Next]_vars => IInv'
  BY NextInv
<1>3. IInv => ChannelKnown
  BY DEF IInv
<1> QED BY <1>1, <1>2, <1>3, PTL DEF Spec

(* prewarmNode: a node marked as warmed has a connecting channel for each shard when    *)
(* nobody is warming it, whichever threads met the mark or died in between.            *)
THEOREM WarmedIsCovered == Spec => []PrewarmCovers
<1>1. Init => IInv
  BY InitInv
<1>2. IInv /\ [Next]_vars => IInv'
  BY NextInv
<1>3. IInv => PrewarmCovers
  <2> SUFFICES ASSUME IInv, warmed # 0, Open, \A t \in Caller : use[t].warm \notin Shard
               PROVE  \A s \in Shard : connMap[s] # 0 /\ chan[connMap[s]] = "active"
    BY DEF PrewarmCovers, Open
  <2>1. \A s \in Shard, t \in Caller : use[t].warm \notin 1..s
    BY DEF IInv, MapType, UseType, Shard
  <2> QED BY <2>1 DEF IInv, MapInv, Covered
<1> QED BY <1>1, <1>2, <1>3, PTL DEF Spec

-----------------------------------------------------------------------------
(* The lease *)
USE LeaseAssumption

Entry   == [inst: 0..MaxInst, ttl: 0..Ttl, sessions: SUBSET Instance]
SigType == [on: Thread \union {None},
            pc: {"no", "users", "stop", "join", "cleanup", "unregister", "close", "db"},
            held: {"none", "command", "cache", "heap"}]
Label   == {"off", "start", "hmset", "expire", "nodes", "threads", "list", "loop",
            "sleep", "set", "sadd"}

(* What the types of a step rest on: a process that is gone has no threads, one that *)
(* is there is an instance                                                         *)
LifeInv ==
    /\ Alive => inst \in Instance
    /\ ~Alive => at = AtRest

LEMMA LeaseTypes ==
    LeaseTypeOK <=> /\ db \in Entry /\ inst \in 0..MaxInst /\ ctx \in BOOLEAN /\ running \in BOOLEAN
                    /\ lock \in Thread \union {None} /\ since \in 0..Gap
                    /\ at \in [Thread -> Label]
  BY DEF LeaseTypeOK, Entry, Label

(* A command that goes through leaves what it says; one that fails ends the context *)
LEMMA CommandDone ==
    ASSUME NEW ok \in BOOLEAN, NEW next \in Entry, Command(ok, next), db \in Entry, ctx \in BOOLEAN
    PROVE  db' \in Entry /\ ctx' \in BOOLEAN /\ (ctx' => ok /\ ctx /\ db' = next)
  BY DEF Command

LEMMA Entries ==
    ASSUME db \in Entry, inst \in 0..MaxInst
    PROVE  /\ Hashed \in Entry /\ Renewed \in Entry /\ Aged \in Entry
           /\ \A k \in SUBSET db.sessions : [db EXCEPT !.sessions = k] \in Entry
           /\ [db EXCEPT !.inst = 0, !.ttl = 0] \in Entry
           /\ inst \in Instance => [db EXCEPT !.sessions = @ \union {inst}] \in Entry
<1>0. 0 \in 0..MaxInst /\ 0 \in 0..Ttl /\ Ttl \in 0..Ttl
  OBVIOUS
<1>1. Hashed \in Entry
  <2>1. CASE db.inst = 0
    BY <1>0, <2>1 DEF Hashed, Entry
  <2>2. CASE db.inst # 0
    BY <2>2 DEF Hashed, Entry
  <2> QED BY <2>1, <2>2
<1>2. Renewed \in Entry
  <2>1. CASE db.inst = 0
    BY <1>0, <2>1 DEF Renewed, Entry
  <2>2. CASE db.inst # 0
    BY <1>0, <2>2 DEF Renewed, Entry
  <2> QED BY <2>1, <2>2
<1>3. [db EXCEPT !.inst = 0, !.ttl = 0] \in Entry
  BY <1>0 DEF Entry
<1>4. Aged \in Entry
  <2>1. CASE db.ttl = 1
    BY <1>3, <2>1 DEF Aged
  <2>2. CASE db.ttl # 1
    BY <2>2 DEF Aged, Entry
  <2> QED BY <2>1, <2>2
<1>5. \A k \in SUBSET db.sessions : [db EXCEPT !.sessions = k] \in Entry
  BY DEF Entry
<1>6. inst \in Instance => [db EXCEPT !.sessions = @ \union {inst}] \in Entry
  BY DEF Entry
<1> QED BY <1>1, <1>2, <1>3, <1>4, <1>5, <1>6

LEMMA LeaseInitOK == Init => LeaseTypeOK /\ LifeInv /\ sig \in SigType /\ tasks \in Nat
<1> SUFFICES ASSUME Init PROVE LeaseTypeOK /\ LifeInv /\ sig \in SigType /\ tasks \in Nat
  OBVIOUS
<1>1. db \in Entry
  BY DEF Init, LeaseInit, Entry
<1>2. at \in [Thread -> Label]
  BY DEF Init, LeaseInit, AtRest, Label
<1>3. LeaseTypeOK
  <2>1. inst \in 0..MaxInst /\ since \in 0..Gap
    BY DEF Init, LeaseInit
  <2>2. lock \in Thread \union {None}
    BY DEF Init, LeaseInit
  <2>3. ctx \in BOOLEAN /\ running \in BOOLEAN
    BY DEF Init, LeaseInit
  <2> QED BY <1>1, <1>2, <2>1, <2>2, <2>3, LeaseTypes
<1>4. LifeInv
  BY DEF Init, LeaseInit, LifeInv, Alive, AtRest, Thread
<1>5. sig \in SigType /\ tasks \in Nat
  BY DEF Init, NoSig, SigType
<1> QED BY <1>3, <1>4, <1>5
-----------------------------------------------------------------------------
(* Types *)

(* A thread's step that sends a command *)
LEMMA CommandTypes ==
    ASSUME LeaseTypeOK, LifeInv, NEW t \in Thread, NEW ok \in BOOLEAN, NEW next \in Entry, NEW l \in Label \ {"off"},
           Alive, Command(ok, next), Goto(t, l), UNCHANGED inst, running' \in BOOLEAN,
           lock' \in Thread \union {None}, since' \in 0..Gap
    PROVE  LeaseTypeOK' /\ LifeInv'
<1>1. db \in Entry /\ ctx \in BOOLEAN /\ at \in [Thread -> Label] /\ inst \in 0..MaxInst
  BY LeaseTypes
<1>2. db' \in Entry /\ ctx' \in BOOLEAN
  BY <1>1, CommandDone
<1>3. at' \in [Thread -> Label] /\ Alive' /\ inst' \in Instance
  BY <1>1 DEF Goto, Alive, LifeInv, Thread
<1> QED BY <1>1, <1>2, <1>3 DEF LeaseTypeOK, Entry, Label, LifeInv

(* ... and one that sends none *)
LEMMA QuietTypes ==
    ASSUME LeaseTypeOK, LifeInv, NEW t \in Thread, NEW l \in Label \ {"off"},
           Alive, Goto(t, l), UNCHANGED <<db, inst, ctx, running, lock, since>>
    PROVE  LeaseTypeOK' /\ LifeInv'
<1>1. at' \in [Thread -> Label] /\ Alive'
  BY LeaseTypes DEF Goto, Alive, Thread
<1> QED BY <1>1 DEF LeaseTypeOK, Label, LifeInv, Alive

LEMMA AliveAt ==
    ASSUME LeaseTypeOK, LifeInv, NEW t \in Thread,
           at[t] \notin {"off", "loop"} \/ (t = Main /\ at[t] # "off")
    PROVE  Alive
  BY DEF LifeInv, AtRest, Alive, Thread

LEMMA LeaseStepTypes ==
    ASSUME LeaseTypeOK, LifeInv, NEW t \in Thread, LeaseStep(t)
    PROVE  LeaseTypeOK' /\ LifeInv'
<1>1. /\ db \in Entry /\ inst \in 0..MaxInst /\ running \in BOOLEAN /\ since \in 0..Gap /\ 0 \in 0..Gap
      /\ lock \in Thread \union {None}
  BY LeaseTypes
<1>2. /\ Hashed \in Entry /\ Renewed \in Entry
      /\ inst \in Instance => [db EXCEPT !.sessions = @ \union {inst}] \in Entry
  BY <1>1, Entries
<1>3. \A ok \in BOOLEAN : \A q \in Thread : Registered(q, ok) => \E l \in Label \ {"off"} : Goto(q, l)
  BY DEF Registered, Label
<1>4. CASE Hmset(t)
  <2>1. Alive
    BY <1>4, AliveAt DEF Hmset
  <2>2. PICK ok \in BOOLEAN : /\ Command(ok, Hashed)
                              /\ IF ok THEN Goto(t, "expire") /\ lock' = t
                                 ELSE Registered(t, FALSE) /\ UNCHANGED lock
    BY <1>4 DEF Hmset
  <2>3. PICK l \in Label \ {"off"} : Goto(t, l)
    BY <1>3, <2>2 DEF Label
  <2>4. UNCHANGED <<inst, running, since>> /\ lock' \in Thread \union {None}
    BY <1>1, <1>4, <2>2 DEF Hmset
  <2> QED BY <1>1, <1>2, <2>1, <2>2, <2>3, <2>4, CommandTypes
<1>5. CASE Expire(t)
  <2>1. Alive
    BY <1>5, AliveAt DEF Expire
  <2>2. PICK ok \in BOOLEAN :
          /\ Command(ok, Renewed)
          /\ IF ok THEN Goto(t, "nodes") /\ since' = 0 /\ UNCHANGED lock
             ELSE Registered(t, FALSE) /\ lock' = None /\ UNCHANGED since
    BY <1>5 DEF Expire
  <2>3. PICK l \in Label \ {"off"} : Goto(t, l)
    BY <1>3, <2>2 DEF Label
  <2>4. UNCHANGED <<inst, running>> /\ lock' \in Thread \union {None} /\ since' \in 0..Gap
    BY <1>1, <1>5, <2>2 DEF Expire
  <2> QED BY <1>1, <1>2, <2>1, <2>2, <2>3, <2>4, CommandTypes
<1>6. CASE AddNode(t)
  <2>1. Alive
    BY <1>6, AliveAt DEF AddNode
  <2>2. PICK ok \in BOOLEAN : Command(ok, db) /\ Registered(t, ok)
    BY <1>6 DEF AddNode
  <2>3. PICK l \in Label \ {"off"} : Goto(t, l)
    BY <1>3, <2>2
  <2>4. UNCHANGED <<inst, running, since>> /\ lock' \in Thread \union {None}
    BY <1>6 DEF AddNode
  <2> QED BY <1>1, <2>1, <2>2, <2>3, <2>4, CommandTypes
<1>7. CASE t = Main /\ EnterInit
  <2>1. Alive /\ Goto(t, "hmset") /\ UNCHANGED <<db, inst, ctx, running, lock, since>>
    BY <1>7, AliveAt DEF EnterInit
  <2> QED BY <2>1, QuietTypes DEF Label
<1>8. CASE t = Main /\ StartBeat
  <2>1. Alive /\ at \in [Thread -> Label]
    BY <1>8, AliveAt, LeaseTypes DEF StartBeat
  <2>2. at' \in [Thread -> Label] /\ Alive' /\ running' = TRUE /\ UNCHANGED <<db, inst, ctx, lock, since>>
    BY <1>8, <2>1 DEF StartBeat, Label, Alive, Thread
  <2> QED BY <2>1, <2>2 DEF LeaseTypeOK, Label, LifeInv, Alive
<1>9. CASE t = Main /\ ListNodes
  <2>1. Alive /\ Goto(t, "loop") /\ UNCHANGED <<inst, running, lock, since>>
    BY <1>9, AliveAt DEF ListNodes
  <2>2. PICK ok \in BOOLEAN : Command(ok, db)
    BY <1>9 DEF ListNodes
  <2> QED BY <1>1, <2>1, <2>2, CommandTypes DEF Label
<1>10. CASE t = Beat /\ Wake
  <2>1. Alive /\ UNCHANGED <<db, inst, ctx, running, lock, since>>
    BY <1>10, AliveAt DEF Wake
  <2>2. CASE running
    BY <1>10, <2>1, <2>2, QuietTypes DEF Wake, Label
  <2>3. CASE ~running
    <3>1. at' \in [Thread -> Label] /\ Alive'
      BY <1>10, <2>1, <2>3, LeaseTypes DEF Wake, Goto, Alive, Label, Thread
    <3> QED BY <2>1, <3>1 DEF LeaseTypeOK, Label, LifeInv, Alive
  <2> QED BY <2>2, <2>3
<1>11. CASE Bind(t)
  <2>1. Alive /\ inst \in Instance
    BY <1>11, AliveAt DEF Bind, LifeInv
  <2>2. PICK ok \in BOOLEAN :
          /\ Command(ok, [db EXCEPT !.sessions = @ \union {inst}])
          /\ IF ok THEN Goto(t, "sadd") /\ lock' = t ELSE Goto(t, "loop") /\ UNCHANGED lock
    BY <1>11 DEF Bind
  <2>3. PICK l \in Label \ {"off"} : Goto(t, l)
    BY <2>2 DEF Label
  <2>4. UNCHANGED <<inst, running, since>> /\ lock' \in Thread \union {None}
    BY <1>1, <1>11, <2>2 DEF Bind
  <2>5. [db EXCEPT !.sessions = @ \union {inst}] \in Entry
    BY <1>2, <2>1
  <2> QED BY <1>1, <2>1, <2>2, <2>3, <2>4, <2>5, CommandTypes
<1>12. CASE BindSadd(t)
  <2>1. Alive
    BY <1>12, AliveAt DEF BindSadd
  <2>2. PICK ok \in BOOLEAN : Command(ok, db)
    BY <1>12 DEF BindSadd
  <2>3. Goto(t, "loop") /\ UNCHANGED <<inst, running, since>> /\ lock' \in Thread \union {None}
    BY <1>12 DEF BindSadd
  <2> QED BY <1>1, <2>1, <2>2, <2>3, CommandTypes DEF Label
<1> QED BY <1>4, <1>5, <1>6, <1>7, <1>8, <1>9, <1>10, <1>11, <1>12 DEF LeaseStep
(* The handler's commands *)
LEMMA HandlerTypes ==
    ASSUME LeaseTypeOK, LifeInv, sig \in SigType,
           Users \/ Stop \/ Join \/ Cleanup \/ Unregister \/ CloseAll
    PROVE  LeaseTypeOK' /\ LifeInv' /\ sig' \in SigType /\ sig'.pc # "no" /\ UNCHANGED <<at, tasks>>
<1>1. db \in Entry /\ inst \in 0..MaxInst /\ ctx \in BOOLEAN /\ running \in BOOLEAN
  BY LeaseTypes
<1>2. ASSUME NEW l \in {"users", "stop", "join", "cleanup", "unregister", "close", "db"}, Go(l)
      PROVE  sig' \in SigType /\ sig'.pc # "no"
  BY <1>2 DEF Go, SigType
<1>3. ASSUME NEW ok \in BOOLEAN, NEW next \in Entry, Command(ok, next),
             UNCHANGED <<inst, running, lock, at, since>>
      PROVE  LeaseTypeOK' /\ LifeInv'
  <2>1. db' \in Entry /\ ctx' \in BOOLEAN
    BY <1>1, <1>3, CommandDone
  <2> QED BY <1>3, <2>1 DEF LeaseTypeOK, Entry, LifeInv, Alive
<1>4. ASSUME running' \in BOOLEAN, UNCHANGED <<db, inst, ctx, lock, at, since>>
      PROVE  LeaseTypeOK' /\ LifeInv'
  BY <1>4 DEF LeaseTypeOK, LifeInv, Alive
<1>5. CASE Users
  <2>1. Go("stop") /\ UNCHANGED <<inst, running, lock, at, since, tasks>> /\ \E ok \in BOOLEAN : Command(ok, db)
    BY <1>5 DEF Users
  <2> QED BY <1>1, <1>2, <1>3, <2>1
<1>6. CASE Stop
  <2>1. Go("join") \/ Go("cleanup")
    BY <1>6 DEF Stop
  <2>2. running' \in BOOLEAN /\ UNCHANGED <<db, inst, ctx, lock, at, since, tasks>>
    BY <1>6 DEF Stop
  <2> QED BY <1>2, <1>4, <2>1, <2>2
<1>7. CASE Join
  <2>1. Go("cleanup") /\ UNCHANGED <<db, inst, ctx, running, lock, at, since, tasks>>
    BY <1>7 DEF Join, leaseVars
  <2> QED BY <1>1, <1>2, <1>4, <2>1
<1>8. CASE Cleanup
  <2>1. Go("unregister") /\ UNCHANGED <<inst, running, lock, at, since, tasks>>
    BY <1>8 DEF Cleanup
  <2>2. PICK ok \in BOOLEAN, kept \in SUBSET db.sessions : Command(ok, [db EXCEPT !.sessions = kept])
    BY <1>8 DEF Cleanup
  <2>3. [db EXCEPT !.sessions = kept] \in Entry
    BY <1>1, Entries
  <2> QED BY <1>2, <1>3, <2>1, <2>2, <2>3
<1>9. CASE Unregister
  <2>1. Go("close") /\ UNCHANGED <<inst, running, lock, at, since, tasks>>
    BY <1>9 DEF Unregister
  <2>2. PICK ok \in BOOLEAN : Command(ok, [db EXCEPT !.inst = 0, !.ttl = 0])
    BY <1>9 DEF Unregister
  <2>3. [db EXCEPT !.inst = 0, !.ttl = 0] \in Entry
    BY <1>1, Entries
  <2> QED BY <1>2, <1>3, <2>1, <2>2, <2>3
<1>10. CASE CloseAll
  <2>1. (Go("db") \/ Go("close")) /\ UNCHANGED <<db, inst, ctx, running, lock, at, since, tasks>>
    BY <1>10 DEF CloseAll, leaseVars
  <2> QED BY <1>1, <1>2, <1>4, <2>1
<1> QED BY <1>5, <1>6, <1>7, <1>8, <1>9, <1>10

LEMMA DieTypes ==
    ASSUME LeaseTypeOK, Die
    PROVE  LeaseTypeOK' /\ LifeInv' /\ sig' \in SigType /\ tasks' \in Nat
<1>1. db' \in Entry /\ inst' \in 0..MaxInst /\ since' \in 0..Gap
  BY LeaseTypes DEF Die
<1>2. ctx' \in BOOLEAN /\ running' \in BOOLEAN
  BY DEF Die
<1>3. lock' \in Thread \union {None}
  BY DEF Die
<1>4. at' \in [Thread -> Label] /\ at' = AtRest /\ at'[Main] = "off"
  BY DEF Die, AtRest, Label, Thread
<1>5. LeaseTypeOK'
  BY <1>1, <1>2, <1>3, <1>4 DEF LeaseTypeOK, Entry, Label
<1>6. LifeInv'
  BY <1>4 DEF LifeInv, Alive
<1>7. sig' \in SigType /\ tasks' \in Nat
  BY DEF Die, NoSig, SigType
<1> QED BY <1>5, <1>6, <1>7

LEMMA ProcessTypes ==
    ASSUME LeaseTypeOK, LifeInv, sig \in SigType, tasks \in Nat, [Next]_vars
    PROVE  LeaseTypeOK' /\ LifeInv' /\ sig' \in SigType /\ tasks' \in Nat
<1>1. CASE UNCHANGED vars
  BY <1>1 DEF vars, leaseVars, LeaseTypeOK, LifeInv, Alive
<1>2. CASE Boot
  <2>1. inst' \in Instance /\ ~Alive /\ at' = [at EXCEPT ![Main] = "start"] /\ ctx' = TRUE /\ since' = 0
        /\ UNCHANGED <<db, running, lock, sig>> /\ tasks' = MaxTask[inst']
    BY <1>2 DEF Boot, Start, Goto, LeaseTypeOK, Instance
  <2>2. at' \in [Thread -> Label] /\ Alive' /\ at \in [Thread -> Label]
    BY <2>1, LeaseTypes DEF Alive, Label, Thread
  <2>3. inst' \in 0..MaxInst /\ since' \in 0..Gap
    BY <2>1 DEF Instance
  <2>5. tasks' \in Nat
    BY <2>1
  <2>4. LeaseTypeOK'
    BY <2>1, <2>2, <2>3 DEF LeaseTypeOK, Label
  <2> QED BY <2>1, <2>2, <2>4, <2>5 DEF LifeInv
<1>3. CASE Crash
  BY <1>3, DieTypes DEF Crash
<1>4. CASE Clock
  <2>1. db' = Aged /\ since' = (IF ~Renewing THEN since ELSE since + 1) /\ (~Renewing \/ since < Gap)
        /\ UNCHANGED <<inst, ctx, running, lock, at, sig, tasks>>
    BY <1>4 DEF Clock, Tick
  <2>2. db \in Entry /\ inst \in 0..MaxInst /\ since \in 0..Gap
    BY LeaseTypes
  <2>3. db' \in Entry
    BY <2>1, <2>2, Entries
  <2>4. since' \in 0..Gap
    BY <2>1, <2>2
  <2> QED BY <2>1, <2>3, <2>4 DEF LeaseTypeOK, Entry, LifeInv, Alive
<1>5. CASE HandlerStep
  <2>1. CASE Exit \/ Abort
    BY <2>1, DieTypes DEF Exit, Abort
  <2>2. CASE Users \/ Stop \/ Join \/ Cleanup \/ Unregister \/ CloseAll
    BY <2>2, HandlerTypes
  <2> QED BY <1>5, <2>1, <2>2 DEF HandlerStep, Leave
<1>6. ASSUME NEW t \in Thread, ThreadStep(t)
      PROVE  LeaseTypeOK' /\ LifeInv' /\ sig' \in SigType /\ tasks' \in Nat
  <2>1. CASE LeaseAct(t)
    BY <2>1, LeaseStepTypes DEF LeaseAct
  <2>2. CASE t = Main /\ Prewarm
    BY <2>2, LeaseStepTypes DEF Prewarm, LeaseStep
  <2>3. CASE RouterAct(t)
    BY <2>3 DEF RouterAct, leaseVars, LeaseTypeOK, LifeInv, Alive
  <2> QED BY <1>6, <2>1, <2>2, <2>3 DEF ThreadStep
<1>7. ASSUME NEW t \in Target, Interrupt(t)
      PROVE  LeaseTypeOK' /\ LifeInv' /\ sig' \in SigType /\ tasks' \in Nat
  <2>1. PICK m \in Holds(t) : /\ sig' = [on |-> t, pc |-> "users", held |-> m]
                              /\ lock' = IF m = "command" THEN t ELSE lock
    BY <1>7 DEF Interrupt
  <2>2. t \in Thread /\ m \in {"none", "command", "cache", "heap"}
    <3>1. t \in Thread
      OBVIOUS
    <3>2. CASE lock = t
      BY <2>1, <3>2 DEF Holds
    <3>3. CASE lock # t
      BY <2>1, <3>3 DEF Holds
    <3> QED BY <3>1, <3>2, <3>3
  <2>3. UNCHANGED <<db, inst, ctx, running, at, since, tasks>>
    BY <1>7 DEF Interrupt
  <2>4. lock' \in Thread \union {None}
    BY <2>1, <2>2 DEF LeaseTypeOK
  <2> QED BY <2>1, <2>2, <2>3, <2>4 DEF LeaseTypeOK, LifeInv, Alive, SigType
<1>8. ASSUME NEW t \in Worker, BeginBind(t)
      PROVE  LeaseTypeOK' /\ LifeInv' /\ sig' \in SigType /\ tasks' \in Nat
  <2>1. /\ Alive /\ t \in Thread /\ Goto(t, "set") /\ tasks' \in Nat
        /\ UNCHANGED <<db, inst, ctx, running, lock, since, sig>>
    BY <1>8 DEF BeginBind, Serving, Alive, Thread
  <2> QED BY <2>1, QuietTypes DEF Label
<1>9. ASSUME NEW t \in Worker, BeginForward(t)
      PROVE  LeaseTypeOK' /\ LifeInv' /\ sig' \in SigType /\ tasks' \in Nat
  BY <1>9 DEF BeginForward, leaseVars, LeaseTypeOK, LifeInv, Alive
<1> QED BY <1>1, <1>2, <1>3, <1>4, <1>5, <1>6, <1>7, <1>8, <1>9 DEF Next
(* RouterTypeOK has, beside MapType, the mark of prewarmNode *)
LEMMA WarmedType == ASSUME warmed \in 0..Remotes, MapStep PROVE warmed' \in 0..Remotes
<1>1. ASSUME NEW t \in Caller, NEW r \in 1..Remotes, NEW s \in Shard \union {0}, Forward(t, r, s)
      PROVE  warmed' \in 0..Remotes
  BY <1>1 DEF Forward
<1>2. CASE UNCHANGED routerVars \/ CloseClear \/ CloseStop \/ MarkClear
  BY <1>2 DEF routerVars, CloseClear, CloseStop, MarkClear
<1>3. CASE Reset
  BY <1>3 DEF Reset
<1>4. ASSUME NEW t \in Caller, RouterStep(t) PROVE warmed' \in 0..Remotes
  BY <1>4 DEF RouterStep, Find, Insert, Touch
<1> QED BY <1>1, <1>2, <1>3, <1>4 DEF MapStep

TypeInv == LeaseTypeOK /\ LifeInv /\ sig \in SigType /\ tasks \in Nat /\ warmed \in 0..Remotes /\ IInv

LEMMA TypeInit == Init => TypeInv
  BY LeaseInitOK, InitInv DEF TypeInv, Init, RouterInit

LEMMA TypeNext == TypeInv /\ [Next]_vars => TypeInv'
<1> SUFFICES ASSUME TypeInv, [Next]_vars PROVE TypeInv'
  OBVIOUS
<1>1. LeaseTypeOK' /\ LifeInv' /\ sig' \in SigType /\ tasks' \in Nat
  BY ProcessTypes DEF TypeInv
<1>2. IInv'
  BY NextInv DEF TypeInv
<1>3. warmed' \in 0..Remotes
  BY NextMaps, WarmedType DEF TypeInv, IInv
<1> QED BY <1>1, <1>2, <1>3 DEF TypeInv

(* Every state of a server process is well typed, for all constants. *)
THEOREM ProcessTypeCorrect == Spec => []TypeOK
<1>1. TypeInv => TypeOK
  BY DEF TypeInv, TypeOK, IInv, MapType, UseType, RouterTypeOK, SigType
<1> QED BY <1>1, TypeInit, TypeNext, PTL DEF Spec

-----------------------------------------------------------------------------
(* LeaseKept.  As long as the process is healthy (its context works, no signal) the    *)
(* heartbeat thread is there from the end of init on, the entry names the instance      *)
(* from HMSET on, and from EXPIRE on what is left of its time covers what Gap still       *)
(* allows.                                                                        *)

Healthy == sig = NoSig /\ ctx

LeaseInv ==
    /\ at[Main] \in {"off", "start", "hmset", "expire", "nodes", "threads", "list", "loop"}
    /\ at[Beat] \in {"off", "sleep", "hmset", "expire", "nodes"}
    /\ \A t \in Worker : at[t] \in {"loop", "set", "sadd"}
    /\ Healthy =>
          /\ IF at[Main] \in {"list", "loop"} THEN running /\ at[Beat] # "off" ELSE at[Beat] = "off"
          /\ at[Main] \in {"expire", "nodes", "threads", "list", "loop"} => db.inst = inst
          /\ at[Main] \in {"nodes", "threads", "list", "loop"} => Ttl <= db.ttl + since

LEMMA LeaseInvInit == Init => LeaseInv
  BY DEF Init, LeaseInit, AtRest, LeaseInv, Healthy, Thread

(* A command that leaves the entry's instance and time alone *)
LEMMA HealthyCommand ==
    ASSUME TypeInv, NEW ok \in BOOLEAN, NEW next \in Entry, Command(ok, next), UNCHANGED sig
    PROVE  Healthy' => Healthy /\ ok /\ db' = next
  BY CommandDone, LeaseTypes DEF TypeInv, Healthy
LEMMA LeaseFacts ==
    ASSUME TypeInv
    PROVE  /\ at \in [Thread -> Label] /\ Main \in Thread /\ Beat \in Thread /\ Worker \subseteq Thread
           /\ Main # Beat /\ Main \notin Worker /\ Beat \notin Worker
           /\ db \in Entry /\ inst \in 0..MaxInst /\ since \in 0..Gap
           /\ Alive => inst \in Instance /\ inst # 0
           /\ ~Alive => at = AtRest
<1>1. at \in [Thread -> Label] /\ db \in Entry /\ inst \in 0..MaxInst /\ since \in 0..Gap
  BY LeaseTypes DEF TypeInv
<1>2. Alive => inst \in Instance /\ inst # 0
  BY DEF TypeInv, LifeInv, Instance
<1> QED BY <1>1, <1>2 DEF Thread, TypeInv, LifeInv

(* The commands of a renewal *)
LEMMA HmsetLease ==
    ASSUME TypeInv, LeaseInv, NEW t \in {Main, Beat}, Hmset(t), UNCHANGED sig PROVE LeaseInv'
<1>1. PICK ok \in BOOLEAN : /\ Command(ok, Hashed)
                            /\ IF ok THEN Goto(t, "expire") /\ lock' = t
                               ELSE Registered(t, FALSE) /\ UNCHANGED lock
  BY DEF Hmset
<1>2. at[t] = "hmset" /\ UNCHANGED <<inst, running, since>>
  BY DEF Hmset
<1>3. Hashed \in Entry
  BY LeaseFacts, Entries
<1>4. Healthy' => Healthy /\ ok /\ db' = Hashed
  BY <1>1, <1>3, HealthyCommand
<1>5. Alive /\ inst # 0
  BY <1>2, AliveAt, LeaseFacts DEF TypeInv
<1>6. Hashed.inst = inst /\ (db.inst # 0 => Hashed.ttl = db.ttl)
  BY LeaseFacts DEF Hashed, Entry
<1>7. CASE t = Main
  <2>1. /\ at'[Main] \in {"expire", "loop"} /\ (ok => at'[Main] = "expire")
        /\ at'[Beat] = at[Beat] /\ \A w \in Worker : at'[w] = at[w]
    BY <1>1, <1>7, LeaseFacts DEF Registered, Goto
  <2> QED BY <1>2, <1>4, <1>6, <1>7, <2>1 DEF LeaseInv
<1>8. CASE t = Beat
  <2>1. /\ at'[Beat] \in {"expire", "sleep"} /\ at'[Main] = at[Main] /\ \A w \in Worker : at'[w] = at[w]
    BY <1>1, <1>8, LeaseFacts DEF Registered, Goto
  <2>2. Healthy => at[Main] \in {"list", "loop"} /\ running /\ db.inst = inst
    BY <1>2, <1>8 DEF LeaseInv
  <2> QED BY <1>2, <1>4, <1>5, <1>6, <2>1, <2>2 DEF LeaseInv
<1> QED BY <1>7, <1>8

LEMMA ExpireLease ==
    ASSUME TypeInv, LeaseInv, NEW t \in {Main, Beat}, Expire(t), UNCHANGED sig PROVE LeaseInv'
<1>1. PICK ok \in BOOLEAN : /\ Command(ok, Renewed)
                            /\ IF ok THEN Goto(t, "nodes") /\ since' = 0 /\ UNCHANGED lock
                               ELSE Registered(t, FALSE) /\ lock' = None /\ UNCHANGED since
  BY DEF Expire
<1>2. at[t] = "expire" /\ UNCHANGED <<inst, running>>
  BY DEF Expire
<1>3. Renewed \in Entry
  BY LeaseFacts, Entries
<1>4. Healthy' => Healthy /\ ok /\ db' = Renewed
  BY <1>1, <1>3, HealthyCommand
<1>5. Alive /\ inst # 0
  BY <1>2, AliveAt, LeaseFacts DEF TypeInv
<1>6. Renewed.inst = db.inst /\ (db.inst # 0 => Renewed.ttl = Ttl)
  BY LeaseFacts DEF Renewed, Entry
<1>7. Healthy => db.inst = inst
  BY <1>2 DEF LeaseInv
<1>8. Healthy' => db'.inst = inst' /\ Ttl <= db'.ttl + since'
  BY <1>1, <1>2, <1>4, <1>5, <1>6, <1>7
<1>9. CASE t = Main
  <2>1. /\ at'[Main] \in {"nodes", "loop"} /\ (ok => at'[Main] = "nodes")
        /\ at'[Beat] = at[Beat] /\ \A w \in Worker : at'[w] = at[w]
    BY <1>1, <1>9, LeaseFacts DEF Registered, Goto
  <2> QED BY <1>2, <1>4, <1>8, <1>9, <2>1 DEF LeaseInv
<1>10. CASE t = Beat
  <2>1. /\ at'[Beat] \in {"nodes", "sleep"} /\ at'[Main] = at[Main] /\ \A w \in Worker : at'[w] = at[w]
    BY <1>1, <1>10, LeaseFacts DEF Registered, Goto
  <2>2. Healthy => at[Main] \in {"list", "loop"} /\ running
    BY <1>2, <1>10 DEF LeaseInv
  <2> QED BY <1>2, <1>4, <1>8, <2>1, <2>2 DEF LeaseInv
<1> QED BY <1>9, <1>10

LEMMA AddNodeLease ==
    ASSUME TypeInv, LeaseInv, NEW t \in {Main, Beat}, AddNode(t), UNCHANGED sig PROVE LeaseInv'
<1>1. PICK ok \in BOOLEAN : Command(ok, db) /\ Registered(t, ok)
  BY DEF AddNode
<1>2. at[t] = "nodes" /\ UNCHANGED <<inst, running, since>>
  BY DEF AddNode
<1>3. Healthy' => Healthy /\ ok /\ db' = db
  BY <1>1, LeaseFacts, HealthyCommand
<1>4. CASE t = Main
  <2>1. /\ at'[Main] \in {"threads", "loop"} /\ (ok => at'[Main] = "threads")
        /\ at'[Beat] = at[Beat] /\ \A w \in Worker : at'[w] = at[w]
    BY <1>1, <1>4, LeaseFacts DEF Registered, Goto
  <2> QED BY <1>2, <1>3, <1>4, <2>1 DEF LeaseInv
<1>5. CASE t = Beat
  <2>1. at'[Beat] = "sleep" /\ at'[Main] = at[Main] /\ \A w \in Worker : at'[w] = at[w]
    BY <1>1, <1>5, LeaseFacts DEF Registered, Goto
  <2> QED BY <1>2, <1>3, <1>5, <2>1 DEF LeaseInv
<1> QED BY <1>4, <1>5

LEMMA LeaseStepLease ==
    ASSUME TypeInv, LeaseInv, NEW t \in Thread, LeaseStep(t), UNCHANGED sig PROVE LeaseInv'
<1>1. CASE t = Main /\ EnterInit
  <2>1. /\ at'[Main] = "hmset" /\ at[Main] = "start" /\ at'[Beat] = at[Beat] /\ \A w \in Worker : at'[w] = at[w]
        /\ UNCHANGED <<db, inst, ctx, running, since>>
    BY <1>1, LeaseFacts DEF EnterInit, Goto
  <2> QED BY <2>1 DEF LeaseInv, Healthy
<1>2. CASE t = Main /\ StartBeat
  <2>1. /\ at'[Main] = "list" /\ at[Main] = "threads" /\ at'[Beat] = "sleep" /\ \A w \in Worker : at'[w] = at[w]
        /\ UNCHANGED <<db, inst, ctx, since>> /\ running' = TRUE
    BY <1>2, LeaseFacts DEF StartBeat
  <2> QED BY <2>1 DEF LeaseInv, Healthy
<1>3. CASE t = Main /\ ListNodes
  <2>1. /\ at'[Main] = "loop" /\ at[Main] = "list" /\ at'[Beat] = at[Beat] /\ \A w \in Worker : at'[w] = at[w]
        /\ UNCHANGED <<inst, running, since>> /\ \E ok \in BOOLEAN : Command(ok, db)
    BY <1>3, LeaseFacts DEF ListNodes, Goto
  <2>2. Healthy' => Healthy /\ db' = db
    BY <2>1, LeaseFacts, HealthyCommand
  <2> QED BY <2>1, <2>2 DEF LeaseInv
<1>4. CASE t = Beat /\ Wake
  <2>1. /\ at'[Main] = at[Main] /\ at'[Beat] = (IF running THEN "hmset" ELSE "off") /\ at[Beat] = "sleep"
        /\ \A w \in Worker : at'[w] = at[w]
        /\ UNCHANGED <<db, inst, ctx, running, since>>
    BY <1>4, LeaseFacts DEF Wake, Goto
  <2> QED BY <2>1 DEF LeaseInv, Healthy
<1>5. CASE t \in Worker /\ Bind(t)
  <2>1. PICK ok \in BOOLEAN : Command(ok, [db EXCEPT !.sessions = @ \union {inst}])
    BY <1>5 DEF Bind
  <2>2. at[t] = "set" /\ UNCHANGED <<inst, running, since>>
    BY <1>5 DEF Bind
  <2>3. [db EXCEPT !.sessions = @ \union {inst}] \in Entry
    BY <2>2, AliveAt, LeaseFacts, Entries DEF TypeInv
  <2>4. Healthy' => Healthy /\ db'.inst = db.inst /\ db'.ttl = db.ttl
    BY <2>1, <2>3, HealthyCommand, LeaseFacts DEF Entry
  <2>5. /\ at'[t] \in {"sadd", "loop"} /\ at'[Main] = at[Main] /\ at'[Beat] = at[Beat]
        /\ \A w \in Worker \ {t} : at'[w] = at[w]
    BY <1>5, LeaseFacts DEF Bind, Goto
  <2> QED BY <1>5, <2>2, <2>4, <2>5 DEF LeaseInv
<1>6. CASE t \in Worker /\ BindSadd(t)
  <2>1. /\ at'[t] = "loop" /\ at'[Main] = at[Main] /\ at'[Beat] = at[Beat]
        /\ \A w \in Worker \ {t} : at'[w] = at[w]
        /\ UNCHANGED <<inst, running, since>> /\ \E ok \in BOOLEAN : Command(ok, db)
    BY <1>6, LeaseFacts DEF BindSadd, Goto
  <2>2. Healthy' => Healthy /\ db' = db
    BY <2>1, LeaseFacts, HealthyCommand
  <2> QED BY <1>6, <2>1, <2>2 DEF LeaseInv
<1> QED BY <1>1, <1>2, <1>3, <1>4, <1>5, <1>6, HmsetLease, ExpireLease, AddNodeLease DEF LeaseStep

(* Time.  A healthy process with an entry is about to renew it: it is never stalled *)
LEMMA ClockLease ==
    ASSUME LapseBetween = FALSE, TypeInv, LeaseInv, Clock PROVE LeaseInv'
<1>1. /\ db' = Aged /\ since' = (IF ~Renewing THEN since ELSE since + 1)
      /\ (~Renewing \/ since < Gap)
      /\ (db.ttl = 1 /\ Renewing => \A t \in Thread : at[t] # "expire")
      /\ UNCHANGED <<inst, ctx, running, lock, at, sig>>
  BY DEF Clock, Tick
<1>2. SUFFICES ASSUME Healthy, at[Main] \in {"expire", "nodes", "threads", "list", "loop"}
               PROVE  /\ db'.inst = inst
                      /\ at[Main] # "expire" => Ttl <= db'.ttl + since'
  BY <1>1 DEF LeaseInv, Healthy
<1>3. Renewing
  <2>1. Alive /\ ctx /\ ~Held("command") /\ ~Held("cache") /\ Runs(Main) /\ Runs(Beat)
    BY <1>2 DEF Healthy, NoSig, Held, Runs, Alive
  <2>2. at[Main] \in {"list", "loop"} => running /\ at[Beat] \in {"sleep", "hmset", "expire", "nodes"}
    BY <1>2 DEF LeaseInv
  <2> QED BY <1>2, <2>1, <2>2 DEF Renewing
<1>4. db.inst = inst /\ (at[Main] # "expire" => Ttl <= db.ttl + since)
  BY <1>2 DEF LeaseInv
<1>5. db.ttl # 1
  <2>1. CASE at[Main] = "expire"
    BY <1>1, <1>3, <2>1, LeaseFacts
  <2>2. CASE at[Main] # "expire"
    BY <1>1, <1>3, <1>4, <2>2, LeaseFacts DEF Entry
  <2> QED BY <2>1, <2>2
<1>6. db'.inst = db.inst /\ db'.ttl = IF db.ttl = 0 THEN 0 ELSE db.ttl - 1
  BY <1>1, <1>5, LeaseFacts DEF Aged, Entry
<1>7. db.ttl \in 0..Ttl /\ since \in 0..Gap /\ since' = since + 1 /\ since < Gap
  BY <1>1, <1>3, LeaseFacts DEF Entry
<1> QED BY <1>4, <1>6, <1>7

LEMMA LeaseInvNext ==
    ASSUME LapseBetween = FALSE, TypeInv, LeaseInv, [Next]_vars PROVE LeaseInv'
<1>1. ASSUME UNCHANGED <<at, sig, db, inst, ctx, running, since>> PROVE LeaseInv'
  BY <1>1 DEF LeaseInv, Healthy
<1>2. ASSUME UNCHANGED at, ~Healthy' PROVE LeaseInv'
  BY <1>2 DEF LeaseInv
<1>3. CASE UNCHANGED vars
  BY <1>1, <1>3 DEF vars, leaseVars
<1>4. CASE Boot
  <2>1. at = AtRest /\ at' = [at EXCEPT ![Main] = "start"]
    BY <1>4, LeaseFacts DEF Boot, Start, Goto
  <2>2. at'[Main] = "start" /\ at'[Beat] = "off" /\ \A w \in Worker : at'[w] = "loop"
    BY <2>1, LeaseFacts DEF AtRest
  <2> QED BY <2>2 DEF LeaseInv
<1>5. ASSUME Die PROVE LeaseInv'
  <2>1. at'[Main] = "off" /\ at'[Beat] = "off" /\ (\A w \in Worker : at'[w] = "loop") /\ ~Healthy'
    BY <1>5, LeaseFacts DEF Die, AtRest, Healthy
  <2> QED BY <2>1 DEF LeaseInv
<1>6. CASE HandlerStep
  <2>1. CASE Exit \/ Abort
    BY <1>5, <2>1 DEF Exit, Abort
  <2>2. CASE Users \/ Stop \/ Join \/ Cleanup \/ Unregister \/ CloseAll
    <3>1. UNCHANGED at /\ sig'.pc # "no"
      BY <2>2, HandlerTypes DEF TypeInv
    <3> QED BY <1>2, <3>1 DEF Healthy, NoSig
  <2> QED BY <1>6, <2>1, <2>2 DEF HandlerStep, Leave
<1>7. ASSUME NEW t \in Thread, ThreadStep(t) PROVE LeaseInv'
  <2>1. CASE LeaseAct(t)
    BY <2>1, LeaseStepLease DEF LeaseAct
  <2>2. CASE t = Main /\ Prewarm
    BY <2>2, LeaseStepLease DEF Prewarm, LeaseStep
  <2>3. CASE RouterAct(t)
    BY <1>1, <2>3 DEF RouterAct, leaseVars
  <2> QED BY <1>7, <2>1, <2>2, <2>3 DEF ThreadStep
<1>8. ASSUME NEW t \in Target, Interrupt(t) PROVE LeaseInv'
  <2>1. UNCHANGED at /\ \E m \in Holds(t) : sig' = [on |-> t, pc |-> "users", held |-> m]
    BY <1>8 DEF Interrupt
  <2> QED BY <1>2, <2>1 DEF Healthy, NoSig
<1>9. ASSUME NEW t \in Worker, BeginBind(t) PROVE LeaseInv'
  <2>1. /\ at'[t] = "set" /\ at'[Main] = at[Main] /\ at'[Beat] = at[Beat]
        /\ \A w \in Worker \ {t} : at'[w] = at[w]
        /\ UNCHANGED <<db, inst, ctx, running, since, sig>>
    BY <1>9, LeaseFacts DEF BeginBind, Goto
  <2> QED BY <2>1 DEF LeaseInv, Healthy
<1>10. ASSUME NEW t \in Worker, BeginForward(t) PROVE LeaseInv'
  BY <1>1, <1>10 DEF BeginForward, leaseVars
<1> QED BY <1>3, <1>4, <1>5, <1>6, <1>7, <1>8, <1>9, <1>10, ClockLease DEF Next, Crash

(* heartbeatLoop and registerNode: a healthy node that renews within Gap < Ttl is        *)
(* registered from the end of init on, for every Ttl and Gap and any number of restarts,   *)
(* provided the old entry does not lapse between HMSET and EXPIRE.                         *)
THEOREM LeaseIsKept == ASSUME LapseBetween = FALSE PROVE Spec => []LeaseKept
<1>1. Init => TypeInv /\ LeaseInv
  BY TypeInit, LeaseInvInit
<1>2. TypeInv /\ LeaseInv /\ [Next]_vars => TypeInv' /\ LeaseInv'
  BY TypeNext, LeaseInvNext
<1>3. TypeInv /\ LeaseInv => LeaseKept
  <2> SUFFICES ASSUME TypeInv, LeaseInv, at[Main] \in {"list", "loop"}, Healthy
               PROVE  db.inst = inst /\ db.ttl # 0
    BY DEF LeaseKept, Healthy
  <2>1. db.inst = inst /\ Ttl <= db.ttl + since
    BY DEF LeaseInv
  <2> QED BY <2>1, LeaseFacts DEF Entry
<1> QED BY <1>1, <1>2, <1>3, PTL DEF Spec
-----------------------------------------------------------------------------
(* NoImmortalSession.  LeaseInv is about a process without a signal; here the signal may   *)
(* have met any thread, and what matters is who goes on to renew.                         *)

(* Who is about to renew the entry and can *)
MainRenews == ctx /\ Runs(Main) /\ ~Held("command") /\ at[Main] \in {"expire", "nodes", "threads"}
BeatRenews ==
    /\ ctx /\ Runs(Beat) /\ ~Held("command")
    /\ at[Beat] \in {"hmset", "expire", "nodes"} \/ (at[Beat] = "sleep" /\ running /\ ~Held("cache"))

InitPart == {"off", "start", "hmset", "expire", "nodes", "threads"}   \* before there are other threads

(* Threads, command_mtx_ and the handler: until init is through the main thread is        *)
(* alone, only it can meet the signal, and from cleanupSelf on the heartbeat is joined      *)
ControlInv ==
    /\ at[Main] \in InitPart =>
          /\ at[Beat] = "off" /\ ~running /\ (sig = NoSig \/ sig.on = Main)
          /\ \A w \in Worker : at[w] = "loop" /\ use[w] = NoUse
    /\ at[Beat] # "off" => sig.pc = "join" \/ (running /\ sig.pc \in {"no", "users", "stop"})
    /\ Held("command") => lock # None /\ lock = sig.on
    /\ \A t \in Thread : at[t] \in {"expire", "nodes", "sadd"} => lock = t

(* What is in Redis: who can renew keeps an entry with a time to live; an entry without    *)
(* one is the work of an init that has not come to EXPIRE, or never will                   *)
EntryInv ==
    /\ MainRenews \/ BeatRenews => db.inst = inst
    /\ (MainRenews /\ at[Main] # "expire") \/ BeatRenews => Ttl <= db.ttl + since
    /\ Alive /\ ctx /\ db.inst = inst /\ db.ttl = 0 => at[Main] = "expire"
    /\ db.inst \in 0..inst /\ db.sessions \subseteq 1..inst
    /\ at[Main] \in InitPart \ {"off"} => inst \notin db.sessions
    /\ NoImmortalSession

LEMMA ControlInit == Init => ControlInv /\ EntryInv
  BY DEF Init, LeaseInit, RouterInit, AtRest, ControlInv, EntryInv, MainRenews, BeatRenews, NoSig, Held,
         Runs, Thread, InitPart, NoImmortalSession, Alive

(* Who is in a call of the router stays or was there before *)
LEMMA UseOfWorkers ==
    ASSUME MapType, NEW t \in Caller, RouterStep(t)
    PROVE  \A w \in Worker : use[w] = NoUse => use'[w] = NoUse
<1> SUFFICES ASSUME NEW w \in Worker, use[w] = NoUse PROVE use'[w] = NoUse
  OBVIOUS
<1>1. w # t /\ w \in Caller
  BY DEF RouterStep, Find, Insert, Touch, NoUse
<1> QED BY <1>1 DEF RouterStep, Find, Insert, Touch, MapType

LEMMA LeaseStepControl ==
    ASSUME TypeInv, LeaseInv, ControlInv, NEW t \in Thread, Runs(t), LeaseStep(t), UNCHANGED <<use, sig>>
    PROVE  ControlInv'
<1>1. CASE Hmset(t) /\ t \in {Main, Beat}
  <2>1. /\ lock = None /\ at[t] = "hmset" /\ running' = running
        /\ \A q \in Thread \ {t} : at'[q] = at[q]
        /\ \/ at'[t] = "expire" /\ lock' = t
           \/ at'[t] \in {"loop", "sleep"} /\ lock' = None /\ (t = Main => at'[t] = "loop")
              /\ (t = Beat => at'[t] = "sleep")
    BY <1>1, LeaseFacts DEF Hmset, Registered, Goto
  <2>2. t = Main \/ t = Beat
    BY <1>1
  <2>3. ~Held("command") /\ \A q \in Thread : at[q] \notin {"expire", "nodes", "sadd"}
    BY <2>1, LeaseFacts DEF ControlInv, Thread
  <2>4. \A q \in Thread : at'[q] \in {"expire", "nodes", "sadd"} => lock' = q
    BY <2>1, <2>3
  <2>5. CASE t = Main
    BY <2>1, <2>3, <2>4, <2>5, LeaseFacts DEF ControlInv, InitPart, Held
  <2>6. CASE t = Beat
    BY <2>1, <2>3, <2>4, <2>6, LeaseFacts DEF ControlInv, InitPart, Held
  <2> QED BY <2>2, <2>5, <2>6
<1>2. CASE Expire(t) /\ t \in {Main, Beat}
  <2>1. /\ lock = t /\ at[t] = "expire" /\ running' = running
        /\ \A q \in Thread \ {t} : at'[q] = at[q]
        /\ \/ at'[t] = "nodes" /\ lock' = t
           \/ at'[t] \in {"loop", "sleep"} /\ lock' = None /\ (t = Main => at'[t] = "loop")
              /\ (t = Beat => at'[t] = "sleep")
    BY <1>2, LeaseFacts DEF Expire, Registered, Goto, ControlInv
  <2>2. t = Main \/ t = Beat
    BY <1>2
  <2> QED BY <2>1, <2>2, LeaseFacts DEF ControlInv, InitPart, Held, Runs
<1>3. CASE AddNode(t) /\ t \in {Main, Beat}
  <2>1. /\ lock = t /\ at[t] = "nodes" /\ running' = running /\ lock' = None
        /\ \A q \in Thread \ {t} : at'[q] = at[q]
        /\ (t = Main => at'[t] \in {"threads", "loop"}) /\ (t = Beat => at'[t] = "sleep")
    BY <1>3, LeaseFacts DEF AddNode, Registered, Goto, ControlInv
  <2>2. t = Main \/ t = Beat
    BY <1>3
  <2> QED BY <2>1, <2>2, LeaseFacts DEF ControlInv, InitPart, Held, Runs
<1>4. CASE t = Main /\ EnterInit
  <2>1. at[Main] = "start" /\ at' = [at EXCEPT ![Main] = "hmset"] /\ UNCHANGED <<running, lock>>
    BY <1>4 DEF EnterInit, Goto
  <2> QED BY <2>1, LeaseFacts DEF ControlInv, InitPart, Held
<1>5. CASE t = Main /\ StartBeat
  <2>1. /\ at[Main] = "threads" /\ at' = [at EXCEPT ![Main] = "list", ![Beat] = "sleep"]
        /\ running' = TRUE /\ lock' = lock
    BY <1>5 DEF StartBeat
  <2>2. sig = NoSig
    BY <1>5, <2>1 DEF ControlInv, InitPart, Runs
  <2> QED BY <2>1, <2>2, LeaseFacts DEF ControlInv, InitPart, Held, NoSig
<1>6. CASE t = Main /\ ListNodes
  <2>1. at[Main] = "list" /\ at' = [at EXCEPT ![Main] = "loop"] /\ UNCHANGED <<running, lock>>
    BY <1>6 DEF ListNodes, Goto
  <2> QED BY <2>1, LeaseFacts DEF ControlInv, InitPart, Held
<1>7. CASE t = Beat /\ Wake
  <2>1. /\ at[Beat] = "sleep" /\ at' = [at EXCEPT ![Beat] = IF running THEN "hmset" ELSE "off"]
        /\ UNCHANGED <<running, lock>>
    BY <1>7 DEF Wake, Goto
  <2> QED BY <2>1, LeaseFacts DEF ControlInv, InitPart, Held
<1>8. CASE t \in Worker /\ Bind(t)
  <2>1. /\ at[t] = "set" /\ lock = None /\ running' = running
        /\ \A q \in Thread \ {t} : at'[q] = at[q]
        /\ \/ at'[t] = "sadd" /\ lock' = t
           \/ at'[t] = "loop" /\ lock' = None
    BY <1>8, LeaseFacts DEF Bind, Goto
  <2>2. at[Main] \notin InitPart
    BY <1>8, <2>1 DEF ControlInv
  <2>3. ~Held("command") /\ \A q \in Thread : at[q] \notin {"expire", "nodes", "sadd"}
    BY <2>1, LeaseFacts DEF ControlInv, Thread
  <2>4. \A q \in Thread : at'[q] \in {"expire", "nodes", "sadd"} => lock' = q
    BY <2>1, <2>3
  <2>5. at'[Main] = at[Main] /\ at'[Beat] = at[Beat]
    BY <1>8, <2>1, LeaseFacts
  <2> QED BY <2>1, <2>2, <2>3, <2>4, <2>5, LeaseFacts DEF ControlInv, Held
<1>9. CASE t \in Worker /\ BindSadd(t)
  <2>1. /\ at[t] = "sadd" /\ lock = t /\ running' = running /\ lock' = None
        /\ \A q \in Thread \ {t} : at'[q] = at[q]
        /\ at'[t] = "loop"
    BY <1>9, LeaseFacts DEF BindSadd, Goto, ControlInv
  <2>2. at[Main] \notin InitPart
    BY <1>9, <2>1 DEF ControlInv
  <2> QED BY <1>9, <2>1, <2>2, LeaseFacts DEF ControlInv, Held, Runs
<1> QED BY <1>1, <1>2, <1>3, <1>4, <1>5, <1>6, <1>7, <1>8, <1>9 DEF LeaseStep

LEMMA ControlNext ==
    ASSUME TypeInv, LeaseInv, ControlInv, [Next]_vars PROVE ControlInv'
<1>1. ASSUME UNCHANGED <<at, running, lock, sig, use>> PROVE ControlInv'
  BY <1>1 DEF ControlInv, Held
<1>2. CASE UNCHANGED vars
  BY <1>1, <1>2 DEF vars, leaseVars, routerVars
<1>3. CASE Boot
  <2>1. /\ at' = [at EXCEPT ![Main] = "start"] /\ UNCHANGED <<running, lock, sig, use>> /\ at[Main] = "off"
    BY <1>3 DEF Boot, Start, Goto, routerVars, Alive
  <2> QED BY <2>1, LeaseFacts DEF ControlInv, InitPart, Held
<1>4. ASSUME Die PROVE ControlInv'
  <2>1. at' = AtRest /\ running' = FALSE /\ lock' = None /\ sig' = NoSig /\ use' = [q \in Caller |-> NoUse]
    BY <1>4 DEF Die
  <2> QED BY <2>1, LeaseFacts DEF ControlInv, InitPart, Held, AtRest, NoSig, Thread
<1>5. CASE Clock
  BY <1>1, <1>5 DEF Clock, Tick, routerVars
<1>6. CASE HandlerStep
  <2>0. sig \in SigType /\ sig' \in SigType
    BY <1>6, TypeNext DEF TypeInv
  <2>1. CASE Exit \/ Abort
    BY <1>4, <2>1 DEF Exit, Abort
  <2>2. CASE Users
    BY <2>0, <2>2 DEF Users, Handler, Go, ControlInv, Held, SigType, routerVars, NoSig
  <2>3. CASE Stop
    BY <2>0, <2>3 DEF Stop, Handler, Go, ControlInv, Held, SigType, routerVars, NoSig
  <2>4. CASE Join
    BY <2>0, <2>4 DEF Join, Handler, Go, ControlInv, Held, SigType, routerVars, leaseVars, NoSig
  <2>5. CASE Cleanup \/ Unregister
    BY <2>0, <2>5 DEF Cleanup, Unregister, Handler, Go, ControlInv, Held, SigType, routerVars, NoSig
  <2>6. CASE CloseAll
    BY <2>0, <2>6 DEF CloseAll, CloseClear, CloseStop, Handler, Go, ControlInv, Held, SigType, leaseVars, NoSig
  <2> QED BY <1>6, <2>1, <2>2, <2>3, <2>4, <2>5, <2>6 DEF HandlerStep, Leave
<1>7. ASSUME NEW t \in Thread, ThreadStep(t) PROVE ControlInv'
  <2>1. CASE LeaseAct(t)
    BY <2>1, LeaseStepControl DEF LeaseAct, routerVars
  <2>2. CASE t = Main /\ Prewarm
    <3>1. /\ at[Main] = "list" /\ at' = [at EXCEPT ![Main] = "loop"] /\ UNCHANGED <<running, lock, sig>>
      BY <2>2 DEF Prewarm, ListNodes, Goto
    <3> QED BY <3>1, LeaseFacts DEF ControlInv, InitPart, Held
  <2>3. CASE t \in Caller /\ RouterAct(t)
    <3>1. UNCHANGED <<at, running, lock, sig>> /\ RouterStep(t) /\ MapType
      BY <2>3 DEF RouterAct, leaseVars, TypeInv, IInv
    <3>2. \A w \in Worker : use[w] = NoUse => use'[w] = NoUse
      BY <2>3, <3>1, UseOfWorkers
    <3> QED BY <3>1, <3>2 DEF ControlInv, Held
  <2> QED BY <1>7, <2>1, <2>2, <2>3 DEF ThreadStep
<1>8. ASSUME NEW t \in Target, Interrupt(t) PROVE ControlInv'
  <2>1. PICK m \in Holds(t) : /\ sig' = [on |-> t, pc |-> "users", held |-> m]
                              /\ lock' = IF m = "command" THEN t ELSE lock
    BY <1>8 DEF Interrupt
  <2>2. /\ sig = NoSig /\ at[t] \notin {"off", "start"} /\ UNCHANGED <<at, running, use>>
        /\ (t \in Worker => at[t] # "loop" \/ use[t] # NoUse)
    BY <1>8 DEF Interrupt, routerVars
  <2>3. t \in Thread /\ t # None
    BY LeaseFacts DEF Thread
  <2>4. at[Main] \in InitPart => t = Main
    BY <2>2, <2>3 DEF ControlInv, Thread
  <2>5. lock' # lock => lock = None /\ m = "command"
    BY <2>1 DEF Holds
  <2>6. \A q \in Thread : at[q] \in {"expire", "nodes", "sadd"} => lock' = q
    BY <2>5, LeaseFacts DEF ControlInv, Thread
  <2>7. at[Beat] # "off" => running
    BY <2>2 DEF ControlInv, NoSig
  <2> QED BY <2>1, <2>2, <2>3, <2>4, <2>6, <2>7 DEF ControlInv, Held
<1>9. ASSUME NEW t \in Worker, BeginBind(t) PROVE ControlInv'
  <2>1. /\ at' = [at EXCEPT ![t] = "set"] /\ at[Main] = "loop" /\ at[t] = "loop"
        /\ UNCHANGED <<running, lock, sig, use>>
    BY <1>9 DEF BeginBind, Serving, Goto, routerVars
  <2> QED BY <2>1, LeaseFacts DEF ControlInv, InitPart, Held
<1>10. ASSUME NEW t \in Worker, BeginForward(t) PROVE ControlInv'
  <2>1. at[Main] = "loop" /\ UNCHANGED <<at, running, lock, sig>>
    BY <1>10 DEF BeginForward, Serving, leaseVars
  <2> QED BY <2>1 DEF ControlInv, InitPart, Held
<1> QED BY <1>2, <1>3, <1>4, <1>5, <1>6, <1>7, <1>8, <1>9, <1>10 DEF Next, Crash

(* A step that leaves the entry alone, deletes sessions at most, and after which nobody    *)
(* can renew who could not before                                                         *)
LEMMA EntryFrame ==
    ASSUME EntryInv, inst' = inst, db'.inst = db.inst, db'.ttl = db.ttl, db'.sessions \subseteq db.sessions,
           MainRenews' => MainRenews /\ (at[Main] = "expire" => at'[Main] = "expire"),
           BeatRenews' => BeatRenews \/ (MainRenews /\ at[Main] # "expire"),
           MainRenews' \/ BeatRenews' => since' = since,
           Alive' /\ ctx' => Alive /\ ctx /\ (at[Main] = "expire" => at'[Main] = "expire"),
           at'[Main] \in InitPart \ {"off"} => at[Main] \in InitPart \ {"off"}
    PROVE  EntryInv'
<1>1. NoImmortalSession'
  BY DEF EntryInv, NoImmortalSession
<1>2. db'.inst \in 0..inst' /\ db'.sessions \subseteq 1..inst'
  BY DEF EntryInv
<1>3. MainRenews' \/ BeatRenews' => db'.inst = inst'
  BY DEF EntryInv
<1>4. (MainRenews' /\ at'[Main] # "expire") \/ BeatRenews' => Ttl <= db'.ttl + since'
  BY DEF EntryInv
<1>5. Alive' /\ ctx' /\ db'.inst = inst' /\ db'.ttl = 0 => at'[Main] = "expire"
  BY DEF EntryInv
<1>6. at'[Main] \in InitPart \ {"off"} => inst' \notin db'.sessions
  BY DEF EntryInv
<1> QED BY <1>1, <1>2, <1>3, <1>4, <1>5, <1>6 DEF EntryInv

(* Whoever holds command_mtx_ or takes it, the handler's thread does not *)
LEMMA Renewer ==
    ASSUME TypeInv, LeaseInv, ControlInv, EntryInv, ctx, NEW t \in {Main, Beat}, Runs(t),
           (at[t] = "hmset" /\ lock = None) \/ at[t] = "expire"
    PROVE  /\ ~Held("command") /\ Alive
           /\ t = Main /\ at[t] = "expire" => MainRenews
           /\ t = Beat => BeatRenews /\ at[Main] \notin InitPart /\ db.inst = inst /\ db.ttl # 0
<1>1. ~Held("command")
  BY LeaseFacts DEF ControlInv, Runs
<1>2. Alive
  BY LeaseFacts, AliveAt DEF TypeInv
<1>3. t = Main /\ at[t] = "expire" => MainRenews
  BY <1>1 DEF MainRenews
<1>4. t = Beat => BeatRenews /\ at[Main] \notin InitPart
  BY <1>1 DEF BeatRenews, ControlInv
<1>5. BeatRenews => db.inst = inst /\ db.ttl # 0
  BY LeaseFacts DEF EntryInv, Entry
<1> QED BY <1>1, <1>2, <1>3, <1>4, <1>5

LEMMA HmsetEntry ==
    ASSUME TypeInv, LeaseInv, ControlInv, EntryInv, NEW t \in {Main, Beat}, Runs(t), Hmset(t), UNCHANGED sig
    PROVE  EntryInv'
<1>1. PICK ok \in BOOLEAN : /\ Command(ok, Hashed)
                            /\ IF ok THEN Goto(t, "expire") /\ lock' = t
                               ELSE Registered(t, FALSE) /\ UNCHANGED lock
  BY DEF Hmset
<1>2. at[t] = "hmset" /\ lock = None /\ UNCHANGED <<inst, running, since>>
  BY DEF Hmset
<1>3. /\ \A q \in Thread \ {t} : at'[q] = at[q]
      /\ IF ok THEN at'[t] = "expire" ELSE at'[t] = (IF t = Beat THEN "sleep" ELSE "loop")
  BY <1>1, LeaseFacts DEF Registered, Goto
<1>4. (db' = db /\ ~ctx') \/ (ctx /\ db' = Hashed)
  BY <1>1 DEF Command
<1>5. ctx' => ctx /\ ok /\ db' = Hashed
  BY <1>1 DEF Command
<1>6. Hashed.inst = inst /\ Hashed.sessions = db.sessions /\ (db.inst # 0 => Hashed.ttl = db.ttl)
  BY LeaseFacts DEF Hashed, Entry
<1>7. CASE ~ctx
  <2>1. db' = db /\ ~ctx'
    BY <1>4, <1>5, <1>7
  <2>2. at'[Main] \in InitPart \ {"off"} => at[Main] \in InitPart \ {"off"}
    BY <1>2, <1>3, LeaseFacts DEF InitPart
  <2> QED BY <1>2, <2>1, <2>2, EntryFrame DEF MainRenews, BeatRenews
<1>8. CASE ctx /\ t = Main
  <2>1. at[Main] \in InitPart \ {"off"} /\ inst \notin db.sessions /\ at[Beat] = "off" /\ at'[Beat] = "off"
    BY <1>2, <1>3, <1>8, LeaseFacts DEF EntryInv, InitPart, ControlInv
  <2>2. at'[Main] \in {"expire", "loop"} /\ (ctx' => at'[Main] = "expire")
    BY <1>3, <1>5, <1>8, LeaseFacts
  <2>3. db'.sessions = db.sessions /\ (db' = db \/ db'.inst = inst)
    BY <1>4, <1>6
  <2>4. db'.inst \in 0..inst' /\ db'.sessions \subseteq 1..inst' /\ NoImmortalSession'
    BY <1>2, <2>1, <2>3, LeaseFacts DEF EntryInv, NoImmortalSession
  <2>5. MainRenews' => db'.inst = inst' /\ at'[Main] = "expire"
    BY <1>2, <1>5, <1>6, <2>2 DEF MainRenews
  <2>6. ~BeatRenews'
    BY <2>1 DEF BeatRenews
  <2> QED BY <1>2, <2>1, <2>2, <2>3, <2>4, <2>5, <2>6 DEF EntryInv
<1>9. CASE ctx /\ t = Beat
  <2>1. BeatRenews /\ at[Main] \notin InitPart /\ db.inst = inst /\ db.ttl # 0 /\ inst # 0
    BY <1>2, <1>9, Renewer, LeaseFacts
  <2>2. db'.inst = db.inst /\ db'.ttl = db.ttl /\ db'.sessions = db.sessions
    BY <1>4, <1>6, <2>1
  <2>3. at'[Main] = at[Main] /\ ~MainRenews'
    BY <1>3, <1>9, <2>1, LeaseFacts DEF MainRenews, InitPart
  <2> QED BY <1>2, <1>5, <2>1, <2>2, <2>3, EntryFrame DEF Alive
<1> QED BY <1>7, <1>8, <1>9

LEMMA ExpireEntry ==
    ASSUME TypeInv, LeaseInv, ControlInv, EntryInv, NEW t \in {Main, Beat}, Runs(t), Expire(t), UNCHANGED sig
    PROVE  EntryInv'
<1>1. PICK ok \in BOOLEAN : /\ Command(ok, Renewed)
                            /\ IF ok THEN Goto(t, "nodes") /\ since' = 0 /\ UNCHANGED lock
                               ELSE Registered(t, FALSE) /\ lock' = None /\ UNCHANGED since
  BY DEF Expire
<1>2. at[t] = "expire" /\ UNCHANGED <<inst, running>>
  BY DEF Expire
<1>3. /\ \A q \in Thread \ {t} : at'[q] = at[q]
      /\ IF ok THEN at'[t] = "nodes" ELSE at'[t] = (IF t = Beat THEN "sleep" ELSE "loop")
  BY <1>1, LeaseFacts DEF Registered, Goto
<1>4. (db' = db /\ ~ctx') \/ (ctx /\ db' = Renewed)
  BY <1>1 DEF Command
<1>5. ctx' => ctx /\ ok /\ db' = Renewed /\ since' = 0
  BY <1>1 DEF Command
<1>6. Renewed.inst = db.inst /\ Renewed.sessions = db.sessions /\ (db.inst # 0 => Renewed.ttl = Ttl /\ Ttl # 0)
  BY LeaseFacts DEF Renewed, Entry
<1>7. at'[Main] \in InitPart \ {"off"} => at[Main] \in InitPart \ {"off"}
  BY <1>2, <1>3, LeaseFacts DEF InitPart
<1>8. /\ db'.inst \in 0..inst' /\ db'.sessions \subseteq 1..inst' /\ NoImmortalSession'
      /\ db'.sessions = db.sessions
  BY <1>2, <1>4, <1>6 DEF EntryInv, NoImmortalSession
<1>9. at'[Main] \in InitPart \ {"off"} => inst' \notin db'.sessions
  BY <1>2, <1>7, <1>8 DEF EntryInv
<1>10. ctx' => db.inst = inst /\ inst # 0
  <2>1. ctx' => ctx
    BY <1>5
  <2> QED BY <1>2, <2>1, Renewer, LeaseFacts DEF EntryInv
<1>11. ctx' => db'.inst = inst' /\ db'.ttl = Ttl /\ Ttl <= db'.ttl + since' /\ db'.ttl # 0
  BY <1>2, <1>5, <1>6, <1>10
<1> QED BY <1>8, <1>9, <1>11 DEF EntryInv, MainRenews, BeatRenews

LEMMA BindEntry ==
    ASSUME TypeInv, LeaseInv, ControlInv, EntryInv, NEW t \in Worker, Bind(t), UNCHANGED sig
    PROVE  EntryInv'
<1>1. PICK ok \in BOOLEAN : Command(ok, [db EXCEPT !.sessions = @ \union {inst}])
  BY DEF Bind
<1>2. at[t] = "set" /\ UNCHANGED <<inst, running, since>>
  BY DEF Bind
<1>3. at'[Main] = at[Main] /\ at'[Beat] = at[Beat]
  BY LeaseFacts DEF Bind, Goto
<1>4. at[Main] \notin InitPart /\ Alive /\ at[Main] # "expire"
  BY <1>2 DEF ControlInv, InitPart, Alive
<1>5. /\ db'.inst = db.inst /\ db'.ttl = db.ttl
      /\ (db'.sessions = db.sessions \/ (ctx /\ db'.sessions = db.sessions \union {inst}))
  BY <1>1, LeaseFacts DEF Command, Entry
<1>6. ctx' => ctx
  BY <1>1 DEF Command
<1>7. NoImmortalSession'
  <2>1. ctx /\ db.inst # 0 /\ db.ttl = 0 => db.inst # inst
    BY <1>4 DEF EntryInv
  <2> QED BY <1>5, <2>1 DEF EntryInv, NoImmortalSession
<1>8. db'.inst \in 0..inst' /\ db'.sessions \subseteq 1..inst'
  BY <1>2, <1>4, <1>5, LeaseFacts DEF EntryInv, Instance
<1>9. (MainRenews' => MainRenews) /\ (BeatRenews' => BeatRenews)
  BY <1>2, <1>3, <1>6 DEF MainRenews, BeatRenews, Held, Runs
<1> QED BY <1>2, <1>3, <1>4, <1>5, <1>6, <1>7, <1>8, <1>9 DEF EntryInv, Alive

LEMMA LeaseStepEntry ==
    ASSUME TypeInv, LeaseInv, ControlInv, EntryInv, NEW t \in Thread, Runs(t),
           t = Beat /\ at[t] = "sleep" => ~Held("cache"), LeaseStep(t), UNCHANGED sig
    PROVE  EntryInv'
<1>1. CASE AddNode(t) /\ t \in {Main, Beat}
  <2>1. /\ at[t] = "nodes" /\ UNCHANGED <<db, inst, running, since>> /\ (ctx' => ctx)
        /\ \A q \in Thread \ {t} : at'[q] = at[q]
        /\ (t = Main => at'[t] = "loop" \/ at'[t] = "threads") /\ (t = Beat => at'[t] = "sleep")
    BY <1>1, LeaseFacts DEF AddNode, Command, Registered, Goto
  <2>2. (MainRenews' => MainRenews) /\ (BeatRenews' => BeatRenews)
    BY <1>1, <2>1, LeaseFacts DEF MainRenews, BeatRenews, Held, Runs
  <2>3. at'[Main] = at[Main] \/ (at[Main] = "nodes" /\ at'[Main] \in {"loop", "threads"})
    BY <1>1, <2>1, LeaseFacts
  <2> QED BY <2>1, <2>2, <2>3, EntryFrame DEF Alive, InitPart
<1>2. CASE t = Main /\ EnterInit
  <2>1. at[Main] = "start" /\ at' = [at EXCEPT ![Main] = "hmset"] /\ UNCHANGED <<db, inst, ctx, running, since>>
    BY <1>2 DEF EnterInit, Goto
  <2>2. at'[Main] = "hmset" /\ at'[Beat] = at[Beat]
    BY <2>1, LeaseFacts
  <2> QED BY <2>1, <2>2, EntryFrame DEF Alive, InitPart, MainRenews, BeatRenews, Held, Runs
<1>3. CASE t = Main /\ StartBeat
  <2>1. /\ at[Main] = "threads" /\ at' = [at EXCEPT ![Main] = "list", ![Beat] = "sleep"]
        /\ UNCHANGED <<db, inst, ctx, since>>
    BY <1>3 DEF StartBeat
  <2>2. at'[Main] = "list" /\ sig = NoSig
    BY <1>3, <2>1, LeaseFacts DEF ControlInv, InitPart, Runs
  <2>3. ctx => MainRenews
    BY <1>3, <2>1, <2>2 DEF MainRenews, Held, NoSig
  <2> QED BY <2>1, <2>2, <2>3, EntryFrame DEF Alive, InitPart, MainRenews, BeatRenews
<1>4. CASE t = Main /\ ListNodes
  <2>1. /\ at[Main] = "list" /\ at' = [at EXCEPT ![Main] = "loop"] /\ (ctx' => ctx)
        /\ UNCHANGED <<db, inst, running, since>>
    BY <1>4 DEF ListNodes, Goto, Command
  <2>2. at'[Main] = "loop" /\ at'[Beat] = at[Beat]
    BY <2>1, LeaseFacts
  <2> QED BY <2>1, <2>2, EntryFrame DEF Alive, InitPart, MainRenews, BeatRenews, Held, Runs
<1>5. CASE t = Beat /\ Wake
  <2>1. /\ at[Beat] = "sleep" /\ at' = [at EXCEPT ![Beat] = IF running THEN "hmset" ELSE "off"]
        /\ UNCHANGED <<db, inst, ctx, running, since>>
    BY <1>5 DEF Wake, Goto
  <2>2. at'[Main] = at[Main] /\ at'[Beat] = (IF running THEN "hmset" ELSE "off")
    BY <2>1, LeaseFacts
  <2>3. (MainRenews' => MainRenews) /\ (BeatRenews' => BeatRenews)
    BY <1>5, <2>1, <2>2 DEF MainRenews, BeatRenews, Held, Runs
  <2> QED BY <2>1, <2>2, <2>3, EntryFrame DEF Alive
<1>6. CASE t \in Worker /\ BindSadd(t)
  <2>1. /\ at'[Main] = at[Main] /\ at'[Beat] = at[Beat] /\ (ctx' => ctx)
        /\ UNCHANGED <<db, inst, running, since>>
    BY <1>6, LeaseFacts DEF BindSadd, Goto, Command
  <2> QED BY <2>1, EntryFrame DEF Alive, MainRenews, BeatRenews, Held, Runs
<1> QED BY <1>1, <1>2, <1>3, <1>4, <1>5, <1>6, HmsetEntry, ExpireEntry, BindEntry DEF LeaseStep

LEMMA ClockEntry ==
    ASSUME LapseBetween = FALSE, TypeInv, LeaseInv, ControlInv, EntryInv, Clock PROVE EntryInv'
<1>1. /\ db' = Aged /\ since' = (IF ~Renewing THEN since ELSE since + 1)
      /\ (~Renewing \/ since < Gap)
      /\ (db.ttl = 1 /\ Renewing => \A t \in Thread : at[t] # "expire")
      /\ UNCHANGED <<inst, ctx, running, lock, at, sig>>
  BY DEF Clock, Tick
<1>2. (MainRenews' <=> MainRenews) /\ (BeatRenews' <=> BeatRenews) /\ (Alive' <=> Alive)
  BY <1>1 DEF MainRenews, BeatRenews, Held, Runs, Alive
<1>3. MainRenews \/ BeatRenews => Renewing
  <2>1. at[Beat] # "off" => Alive
    BY LeaseFacts DEF AtRest
  <2> QED BY <2>1 DEF Renewing, MainRenews, BeatRenews, Alive
<1>4. /\ db'.sessions = db.sessions
      /\ IF db.ttl = 1 THEN db'.inst = 0 /\ db'.ttl = 0
         ELSE db'.inst = db.inst /\ db'.ttl = IF db.ttl = 0 THEN 0 ELSE db.ttl - 1
  BY <1>1, LeaseFacts DEF Aged, Entry
<1>5. db.ttl \in 0..Ttl /\ since \in 0..Gap /\ db.inst \in 0..inst
  BY LeaseFacts DEF Entry, EntryInv
<1>6. MainRenews /\ at[Main] = "expire" => db.ttl # 1
  BY <1>1, <1>3, LeaseFacts
<1>7. (MainRenews /\ at[Main] # "expire") \/ BeatRenews
        => db.ttl # 1 /\ Ttl <= db'.ttl + since'
  <2> SUFFICES ASSUME (MainRenews /\ at[Main] # "expire") \/ BeatRenews
               PROVE  db.ttl # 1 /\ Ttl <= db'.ttl + since'
    OBVIOUS
  <2>1. Ttl <= db.ttl + since /\ since < Gap /\ since' = since + 1
    BY <1>1, <1>3 DEF EntryInv
  <2> QED BY <1>4, <1>5, <2>1
<1>8. NoImmortalSession'
  BY <1>4, <1>5 DEF EntryInv, NoImmortalSession
<1>9. db'.inst \in 0..inst' /\ db'.sessions \subseteq 1..inst'
  BY <1>1, <1>4, <1>5, LeaseFacts DEF EntryInv
<1>10. Alive' /\ ctx' /\ db'.inst = inst' /\ db'.ttl = 0 => at'[Main] = "expire"
  <2>1. Alive => inst # 0
    BY LeaseFacts
  <2> QED BY <1>1, <1>2, <1>4, <1>5, <2>1 DEF EntryInv
<1> QED BY <1>1, <1>2, <1>4, <1>6, <1>7, <1>8, <1>9, <1>10 DEF EntryInv

LEMMA EntryNext ==
    ASSUME LapseBetween = FALSE, TypeInv, LeaseInv, ControlInv, EntryInv, [Next]_vars PROVE EntryInv'
<1>1. ASSUME UNCHANGED <<at, db, inst, ctx, since, running, sig>> PROVE EntryInv'
  BY <1>1, EntryFrame DEF MainRenews, BeatRenews, Held, Runs, Alive
<1>2. CASE UNCHANGED vars
  BY <1>1, <1>2 DEF vars, leaseVars
<1>3. CASE Boot
  <2>1. /\ inst' = inst + 1 /\ at' = [at EXCEPT ![Main] = "start"] /\ db' = db /\ ~Alive
    BY <1>3 DEF Boot, Start, Goto
  <2>2. at'[Main] = "start" /\ at'[Beat] = "off" /\ inst \in Nat
    BY <2>1, LeaseFacts DEF AtRest
  <2>3. ~MainRenews' /\ ~BeatRenews'
    BY <2>2 DEF MainRenews, BeatRenews
  <2>4. /\ db'.inst \in 0..inst' /\ db'.sessions \subseteq 1..inst' /\ NoImmortalSession'
        /\ db'.inst # inst' /\ inst' \notin db'.sessions
    BY <2>1, <2>2 DEF EntryInv, NoImmortalSession
  <2> QED BY <2>2, <2>3, <2>4 DEF EntryInv
<1>4. ASSUME Die PROVE EntryInv'
  <2>1. at'[Main] = "off" /\ at'[Beat] = "off" /\ UNCHANGED <<db, inst>> /\ ~ctx'
    BY <1>4, LeaseFacts DEF Die, AtRest
  <2> QED BY <2>1, EntryFrame DEF MainRenews, BeatRenews, Alive, InitPart
<1>5. CASE HandlerStep
  <2>1. CASE Exit \/ Abort
    BY <1>4, <2>1 DEF Exit, Abort
  <2>2. sig \in SigType /\ db \in Entry
    BY LeaseFacts DEF TypeInv
  <2>3. CASE Users \/ Cleanup
    <3>1. /\ UNCHANGED <<inst, running, at, since>> /\ (ctx' => ctx) /\ sig'.on = sig.on /\ sig'.held = sig.held
      BY <2>2, <2>3 DEF Users, Cleanup, Go, Command, SigType
    <3>2. db'.inst = db.inst /\ db'.ttl = db.ttl /\ db'.sessions \subseteq db.sessions
      BY <2>2, <2>3 DEF Users, Cleanup, Command, Entry
    <3> QED BY <3>1, <3>2, EntryFrame DEF MainRenews, BeatRenews, Held, Runs, Alive
  <2>4. CASE Stop \/ Join \/ CloseAll
    <3>1. /\ UNCHANGED <<db, inst, at, since, ctx>> /\ sig'.on = sig.on /\ sig'.held = sig.held
          /\ (running' => running)
      BY <2>2, <2>4 DEF Stop, Join, CloseAll, Go, SigType, leaseVars
    <3> QED BY <3>1, EntryFrame DEF MainRenews, BeatRenews, Held, Runs, Alive
  <2>5. CASE Unregister
    <3>1. /\ UNCHANGED <<inst, running, at, since>> /\ (ctx' => ctx) /\ sig'.on = sig.on /\ sig'.held = sig.held
          /\ sig.pc = "unregister"
      BY <2>2, <2>5 DEF Unregister, Go, Command, SigType, Handler
    <3>2. /\ db'.sessions = db.sessions
          /\ (db'.inst = db.inst /\ db'.ttl = db.ttl) \/ db'.inst = 0
      BY <2>2, <2>5 DEF Unregister, Command, Entry
    <3>3. ~MainRenews' /\ ~BeatRenews'
      BY <3>1 DEF ControlInv, MainRenews, BeatRenews, Runs, NoSig, InitPart
    <3>4. db'.inst \in 0..inst' /\ db'.sessions \subseteq 1..inst' /\ NoImmortalSession'
      BY <3>1, <3>2, LeaseFacts DEF EntryInv, NoImmortalSession
    <3>5. Alive => inst # 0
      BY LeaseFacts
    <3> QED BY <3>1, <3>2, <3>3, <3>4, <3>5 DEF EntryInv, Alive
  <2> QED BY <1>5, <2>1, <2>3, <2>4, <2>5 DEF HandlerStep, Leave
<1>6. ASSUME NEW t \in Thread, ThreadStep(t) PROVE EntryInv'
  <2>1. CASE LeaseAct(t)
    BY <2>1, LeaseStepEntry DEF LeaseAct
  <2>2. CASE t = Main /\ Prewarm
    BY <2>2, LeaseStepEntry, LeaseFacts DEF Prewarm, LeaseStep
  <2>3. CASE RouterAct(t)
    BY <1>1, <2>3 DEF RouterAct, leaseVars
  <2> QED BY <1>6, <2>1, <2>2, <2>3 DEF ThreadStep
<1>7. ASSUME NEW t \in Target, Interrupt(t) PROVE EntryInv'
  <2>1. sig = NoSig /\ UNCHANGED <<db, inst, ctx, running, at, since>>
    BY <1>7 DEF Interrupt
  <2>2. (MainRenews' => MainRenews) /\ (BeatRenews' => BeatRenews)
    BY <2>1, LeaseFacts DEF MainRenews, BeatRenews, Held, Runs, NoSig
  <2> QED BY <2>1, <2>2, EntryFrame DEF Alive
<1>8. ASSUME NEW t \in Worker, BeginBind(t) PROVE EntryInv'
  <2>1. /\ at'[Main] = at[Main] /\ at'[Beat] = at[Beat] /\ UNCHANGED <<db, inst, ctx, running, since, sig>>
    BY <1>8, LeaseFacts DEF BeginBind, Goto
  <2> QED BY <2>1, EntryFrame DEF MainRenews, BeatRenews, Held, Runs, Alive
<1>9. ASSUME NEW t \in Worker, BeginForward(t) PROVE EntryInv'
  BY <1>1, <1>9 DEF BeginForward, leaseVars
<1> QED BY <1>2, <1>3, <1>4, <1>5, <1>6, <1>7, <1>8, <1>9, ClockEntry DEF Next, Crash

(* registerNode 189 and 205: an entry without a time to live never names an instance that   *)
(* a session names, whatever thread a signal meets, whichever command fails and wherever       *)
(* the process dies, for every Ttl and Gap and any number of restarts and users.  The           *)
(* hypothesis is LeaseIsKept's: a node that served unregistered, because its entry lapsed        *)
(* before EXPIRE, would have sessions when its next heartbeat writes the entry anew.             *)
THEOREM NoSessionForEver == ASSUME LapseBetween = FALSE PROVE Spec => []NoImmortalSession
<1> DEFINE I == TypeInv /\ LeaseInv /\ ControlInv /\ EntryInv
<1>1. Init => I
  BY TypeInit, LeaseInvInit, ControlInit
<1>2. I /\ [Next]_vars => I'
  BY TypeNext, LeaseInvNext, ControlNext, EntryNext
<1>3. I => NoImmortalSession
  BY DEF EntryInv
<1> QED BY <1>1, <1>2, <1>3, PTL DEF Spec
=============================================================================
