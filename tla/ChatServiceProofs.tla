-------------------------- MODULE ChatServiceProofs --------------------------
(***************************************************************************)
(* For any set of users, nodes, connections, workers and messages, with        *)
(* crashes, restarts and shutdowns: ChatService is type correct, and the         *)
(* connection table of every node is truthful (TableTruthful).                   *)
(***************************************************************************)
EXTENDS ChatService, TLAPS

USE RedisAssumption, ActorAssumption, ServiceAssumption

LEMMA NoCallType == NoCall \in Call
BY DEF NoCall, Call, ServicePc

LEMMA NoJobType == NoJob \in Job
BY DEF NoJob, Job

LEMMA NoProcessType == NoProcess \in Process
BY DEF NoProcess, Process, Phase

LEMMA InitTypeOK == Init => TypeOK
BY NoCallType, NoJobType, NoProcessType
   DEF Init, TypeOK, ServiceTypeOK, RegistryInit, RegistryTypeOK, RedisInit, RedisTypeOK

(***************************************************************************)
(* What the steps of NodeRegistry preserve besides types: CallOK, ProcOK.    *)
(***************************************************************************)
CallPart ==
    /\ call \in [Actor -> Call] /\ proc \in [Node -> Process]
    /\ \A n \in Node : ProcOK(n)
    /\ \A a \in Actor : CallOK(a)

RegistryInv == RegistryTypeOK /\ CallPart

(* One thread moves, and knows what it must know at its new label *)
LEMMA CallStep ==
    ASSUME CallPart, NEW a \in Actor, NEW r \in Call, proc' = proc,
           call' = [call EXCEPT ![a] = r],
           r.pc # "idle" => r.user \in User /\ Serving(HomeOf[a]),
           r.pc \in RoutePc => r.route \in Route
    PROVE  CallPart'
<1>1. call' \in [Actor -> Call] /\ proc' \in [Node -> Process]
  BY DEF CallPart
<1>2. ASSUME NEW b \in Actor PROVE CallOK(b)'
  <2>1. CASE b = a
    BY <2>1 DEF CallPart, CallOK, At, Serving
  <2>2. CASE b # a
    BY <2>2 DEF CallPart, CallOK, At, Serving
  <2> QED BY <2>1, <2>2
<1>3. \A n \in Node : ProcOK(n)'
  BY DEF CallPart, ProcOK
<1> QED BY <1>1, <1>2, <1>3 DEF CallPart

LEMMA GotoStep ==
    ASSUME CallPart, NEW a \in Actor, NEW l \in RegistryPc \union ServicePc, proc' = proc,
           ~At(a, "idle"), Goto(a, l), l \in RoutePc => call[a].route \in Route
    PROVE  CallPart'
<1> DEFINE r == [call[a] EXCEPT !.pc = l]
<1>1. call[a] \in Call /\ call[a].user \in User /\ Serving(HomeOf[a])
  BY DEF CallPart, CallOK
<1>2. r \in Call /\ r.user = call[a].user /\ r.route = call[a].route /\ r.pc = l
  BY <1>1 DEF Call
<1>3. call' = [call EXCEPT ![a] = r]
  BY DEF Goto
<1> HIDE DEF r
<1> QED BY <1>1, <1>2, <1>3, CallStep

LEMMA RouteStep ==
    ASSUME CallPart, NEW a \in Actor, NEW l \in RegistryPc, NEW q \in Route, proc' = proc,
           ~At(a, "idle"), call' = [call EXCEPT ![a].pc = l, ![a].route = q]
    PROVE  CallPart'
<1> DEFINE r == [call[a] EXCEPT !.pc = l, !.route = q]
<1>1. call[a] \in Call /\ call[a].user \in User /\ Serving(HomeOf[a])
  BY DEF CallPart, CallOK
<1>2. r \in Call /\ r.user = call[a].user /\ r.route = q /\ r.pc = l
  BY <1>1 DEF Call
<1>3. call' = [call EXCEPT ![a] = r]
  OBVIOUS
<1> HIDE DEF r
<1> QED BY <1>1, <1>2, <1>3, CallStep

LEMMA EnterStep ==
    ASSUME CallPart, NEW a \in Actor, NEW fn \in {"resolve", "query", "bind", "unbind"},
           NEW u \in User, proc' = proc, Serving(HomeOf[a]), Enter(a, fn, u)
    PROVE  CallPart'
<1> DEFINE r == [fn |-> fn, pc |-> fn, user |-> u, route |-> None]
<1>1. r \in Call /\ r.user = u /\ r.pc = fn
  BY DEF Call, RegistryPc
<1>2. call' = [call EXCEPT ![a] = r]
  BY DEF Enter
<1>3. r.pc \notin RoutePc
  BY <1>1 DEF RoutePc
<1> HIDE DEF r
<1> QED BY <1>1, <1>2, <1>3, CallStep

LEMMA ReturnStep ==
    ASSUME CallPart, NEW a \in Actor, proc' = proc, job \in [Actor -> Job], Return(a)
    PROVE  CallPart' /\ job' \in [Actor -> Job]
<1>1. NoCall.pc = "idle" /\ NoCall.pc \notin RoutePc
  BY DEF NoCall, RoutePc
<1>2. CallPart'
  BY <1>1, NoCallType, CallStep DEF Return
<1> QED BY <1>2, NoJobType DEF Return

LEMMA QueryNodeType ==
    ASSUME metaCache \in [Node -> [Node -> Instance \union {None}]],
           NEW a \in Actor, NEW k, NEW m \in Instance \union {None}, QueryNode(a, k, m)
    PROVE  metaCache' \in [Node -> [Node -> Instance \union {None}]]
<1>1. CASE UNCHANGED metaCache
  BY <1>1
<1>2. CASE metaCache' = [metaCache EXCEPT ![HomeOf[a]][k] = m]
  <2>1. metaCache[HomeOf[a]] \in [Node -> Instance \union {None}]
    OBVIOUS
  <2>2. [metaCache[HomeOf[a]] EXCEPT ![k] = m] \in [Node -> Instance \union {None}]
    BY <2>1
  <2> QED BY <1>2, <2>2
<1> QED BY <1>1, <1>2 DEF QueryNode, GetNode

(* A process moves on and, if it serves, keeps serving *)
LEMMA ProcStep ==
    ASSUME CallPart, NEW n \in Node, NEW p \in Process, call' = call,
           proc' = [proc EXCEPT ![n] = p],
           p.ctl # "down" => p.inst # 0, p.hb # "off" => p.ctl # "down",
           Serving(n) => p.ctl \notin {"down", "warm"}
    PROVE  CallPart'
<1>1. call' \in [Actor -> Call] /\ proc' \in [Node -> Process]
  BY DEF CallPart
<1>2. \A v \in Node : ProcOK(v)'
  BY DEF CallPart, ProcOK
<1>3. ASSUME NEW v \in Node, Serving(v) PROVE Serving(v)'
  BY <1>3 DEF CallPart, Serving
<1>4. ASSUME NEW b \in Actor PROVE CallOK(b)'
  BY <1>3 DEF CallPart, CallOK, At
<1> QED BY <1>1, <1>2, <1>4 DEF CallPart

(* Every step of a registry call preserves the registry's invariant *)
LEMMA RegistryStepOK ==
    ASSUME RegistryInv, NEW a \in Actor, RegistryStep(a)
    PROVE  RegistryInv' /\ ~At(a, "idle") /\ proc' = proc
<1> DEFINE n == HomeOf[a]
           u == call[a].user
<1>1. CallPart /\ RegistryTypeOK
  BY DEF RegistryInv
<1>2. ~At(a, "idle") /\ proc' = proc
  <2>1. CASE ResolveFast(a) \/ QueryCache(a) \/ GetSession(a) \/ FillRoute(a)
    BY <2>1 DEF At, ResolveFast, QueryCache, GetSession, FillRoute
  <2>2. CASE CheckNode(a) \/ ResolveNode(a) \/ DropDel(a) \/ DropSrem(a)
    BY <2>2 DEF At, CheckNode, ResolveNode, DropDel, DropSrem
  <2>3. CASE BindSet(a) \/ BindSadd(a) \/ BindFill(a)
    BY <2>3 DEF At, BindSet, BindSadd, BindFill
  <2>4. CASE UnbindErase(a) \/ UnbindDel(a) \/ UnbindSrem(a)
    BY <2>4 DEF At, UnbindErase, UnbindDel, UnbindSrem
  <2> QED BY <2>1, <2>2, <2>3, <2>4 DEF RegistryStep
<1>3. n \in Node /\ u \in User /\ Self(n) \in Route
  <2>1. n \in Node /\ u \in User /\ Serving(n)
    BY <1>1, <1>2 DEF CallPart, CallOK
  <2>2. proc[n].inst \in Instance
    BY <1>1, <2>1 DEF CallPart, ProcOK, Serving, Process
  <2> QED BY <2>1, <2>2 DEF Self, Route
<1>4. call[a].pc \in RoutePc => call[a].route \in Route
  BY <1>1 DEF CallPart, CallOK
<1>5. CASE ResolveFast(a)
  <2>1. ASSUME routeCache[n][u] # None, call' = [call EXCEPT ![a].pc = "found", ![a].route = routeCache[n][u]]
        PROVE  CallPart'
    <3>1. routeCache[n][u] \in Route
      BY <1>1, <1>3, <2>1 DEF RegistryTypeOK
    <3>2. "found" \in RegistryPc
      BY DEF RegistryPc
    <3> QED BY <1>1, <1>2, <2>1, <3>1, <3>2, RouteStep
  <2>2. ASSUME Goto(a, "query") PROVE CallPart'
    <3>1. "query" \in RegistryPc /\ "query" \notin RoutePc
      BY DEF RegistryPc, RoutePc
    <3> QED BY <1>1, <1>2, <2>2, <3>1, GotoStep
  <2>3. CallPart'
    BY <1>5, <2>1, <2>2 DEF ResolveFast
  <2>4. RegistryTypeOK'
    BY <1>5, <1>1, <1>3, <1>4, <2>3 DEF ResolveFast, CallPart, RegistryTypeOK, RedisTypeOK, redisVars, At, RoutePc
  <2> QED BY <1>2, <2>3, <2>4 DEF RegistryInv
<1>6. CASE QueryCache(a)
  <2>1. ASSUME routeCache[n][u] # None, call' = [call EXCEPT ![a].pc = "check", ![a].route = routeCache[n][u]]
        PROVE  CallPart'
    <3>1. routeCache[n][u] \in Route
      BY <1>1, <1>3, <2>1 DEF RegistryTypeOK
    <3>2. "check" \in RegistryPc
      BY DEF RegistryPc
    <3> QED BY <1>1, <1>2, <2>1, <3>1, <3>2, RouteStep
  <2>2. ASSUME Goto(a, "get") PROVE CallPart'
    <3>1. "get" \in RegistryPc /\ "get" \notin RoutePc
      BY DEF RegistryPc, RoutePc
    <3> QED BY <1>1, <1>2, <2>2, <3>1, GotoStep
  <2>3. CallPart'
    BY <1>6, <2>1, <2>2 DEF QueryCache
  <2>4. RegistryTypeOK'
    BY <1>6, <1>1, <1>3, <1>4, <2>3 DEF QueryCache, CallPart, RegistryTypeOK, RedisTypeOK, redisVars, At, RoutePc
  <2> QED BY <1>2, <2>3, <2>4 DEF RegistryInv
<1>7. CASE GetSession(a)
  <2>1. ASSUME session[u] # None, call' = [call EXCEPT ![a].pc = "fill", ![a].route = session[u]]
        PROVE  CallPart'
    <3>1. session[u] \in Route
      BY <1>1, <1>3, <2>1 DEF RegistryTypeOK, RedisTypeOK
    <3>2. "fill" \in RegistryPc
      BY DEF RegistryPc
    <3> QED BY <1>1, <1>2, <2>1, <3>1, <3>2, RouteStep
  <2>2. ASSUME Goto(a, "missing") PROVE CallPart'
    <3>1. "missing" \in RegistryPc /\ "missing" \notin RoutePc
      BY DEF RegistryPc, RoutePc
    <3> QED BY <1>1, <1>2, <2>2, <3>1, GotoStep
  <2>3. CallPart'
    BY <1>7, <2>1, <2>2 DEF GetSession
  <2>4. RegistryTypeOK'
    BY <1>7, <1>1, <1>3, <1>4, <2>3 DEF GetSession, CallPart, RegistryTypeOK, RedisTypeOK, redisVars, At, RoutePc
  <2> QED BY <1>2, <2>3, <2>4 DEF RegistryInv
<1>8. CASE FillRoute(a)
  <2>3. CallPart'
    BY <1>8, <1>1, <1>2, <1>4, GotoStep DEF FillRoute, At, RegistryPc, RoutePc
  <2>4. RegistryTypeOK'
    BY <1>8, <1>1, <1>3, <1>4, <2>3 DEF FillRoute, CallPart, RegistryTypeOK, RedisTypeOK, redisVars, At, RoutePc
  <2> QED BY <1>2, <2>3, <2>4 DEF RegistryInv
<1>9. CASE CheckNode(a)
  <2>1. PICK l \in RegistryPc : Goto(a, l)
    BY <1>9 DEF CheckNode, RegistryPc
  <2>2. call[a].route \in Route
    BY <1>9, <1>4 DEF CheckNode, At, RoutePc
  <2>3. CallPart'
    BY <1>1, <1>2, <2>1, <2>2, GotoStep
  <2>5. PICK m \in Instance \union {None} : QueryNode(a, call[a].route.node, m)
    BY <1>9 DEF CheckNode
  <2>6. metaCache' \in [Node -> [Node -> Instance \union {None}]]
    BY <1>1, <2>5, QueryNodeType DEF RegistryTypeOK
  <2>4. RegistryTypeOK'
    BY <1>9, <1>1, <2>3, <2>6 DEF CheckNode, CallPart, RegistryTypeOK, RedisTypeOK, redisVars
  <2> QED BY <1>2, <2>3, <2>4 DEF RegistryInv
<1>10. CASE ResolveNode(a)
  <2>1. PICK l \in RegistryPc : Goto(a, l)
    BY <1>10 DEF ResolveNode, RegistryPc
  <2>2. call[a].route \in Route
    BY <1>10, <1>4 DEF ResolveNode, At, RoutePc
  <2>3. CallPart'
    BY <1>1, <1>2, <2>1, <2>2, GotoStep
  <2>5. PICK m \in Instance \union {None} : QueryNode(a, call[a].route.node, m)
    BY <1>10 DEF ResolveNode
  <2>6. metaCache' \in [Node -> [Node -> Instance \union {None}]]
    BY <1>1, <2>5, QueryNodeType DEF RegistryTypeOK
  <2>4. RegistryTypeOK'
    BY <1>10, <1>1, <2>3, <2>6 DEF ResolveNode, CallPart, RegistryTypeOK, RedisTypeOK, redisVars
  <2> QED BY <1>2, <2>3, <2>4 DEF RegistryInv
<1>11. CASE DropDel(a)
  <2>3. CallPart'
    BY <1>11, <1>1, <1>2, <1>4, GotoStep DEF DropDel, At, RegistryPc, RoutePc
  <2>4. RedisTypeOK'
    BY <1>11, <1>1, <1>3 DEF DropDel, redisVars, RegistryTypeOK, RedisTypeOK, DelSession
  <2>5. routeCache' \in [Node -> [User -> Route \union {None}]] /\ metaCache' = metaCache
    BY <1>11, <1>1 DEF DropDel, RegistryTypeOK
  <2> QED BY <1>1, <1>2, <2>3, <2>4, <2>5 DEF CallPart, RegistryInv, RegistryTypeOK
<1>12. CASE DropSrem(a)
  <2>3. CallPart'
    BY <1>12, <1>1, <1>2, <1>4, GotoStep DEF DropSrem, At, RegistryPc, RoutePc
  <2>4. RedisTypeOK'
    BY <1>12, <1>1, <1>3, <1>4 DEF DropSrem, redisVars, RegistryTypeOK, RedisTypeOK, RemNodeUser, At, RoutePc, Route
  <2>5. routeCache' \in [Node -> [User -> Route \union {None}]] /\ metaCache' = metaCache
    BY <1>12, <1>1, <1>3 DEF DropSrem, RegistryTypeOK
  <2> QED BY <1>1, <1>2, <2>3, <2>4, <2>5 DEF CallPart, RegistryInv, RegistryTypeOK
<1>13. CASE BindSet(a)
  <2>1. ASSUME call' = [call EXCEPT ![a].pc = "bindSadd", ![a].route = Self(n)] PROVE CallPart'
    <3>1. "bindSadd" \in RegistryPc
      BY DEF RegistryPc
    <3> QED BY <1>1, <1>2, <1>3, <2>1, <3>1, RouteStep
  <2>2. ASSUME Goto(a, "refused") PROVE CallPart'
    <3>1. "refused" \in RegistryPc /\ "refused" \notin RoutePc
      BY DEF RegistryPc, RoutePc
    <3> QED BY <1>1, <1>2, <2>2, <3>1, GotoStep
  <2>3. CallPart'
    BY <1>13, <2>1, <2>2 DEF BindSet
  <2>4. RedisTypeOK'
    <3>1. CASE SetSessionNX(u, Self(n))
      BY <1>1, <1>3, <3>1 DEF SetSessionNX, RegistryTypeOK, RedisTypeOK
    <3>2. CASE UNCHANGED redisVars
      BY <1>1, <3>2 DEF redisVars, RegistryTypeOK, RedisTypeOK
    <3> QED BY <1>13, <3>1, <3>2 DEF BindSet
  <2>5. routeCache' \in [Node -> [User -> Route \union {None}]] /\ metaCache' = metaCache
    BY <1>13, <1>1 DEF BindSet, RegistryTypeOK
  <2> QED BY <1>1, <1>2, <2>3, <2>4, <2>5 DEF CallPart, RegistryInv, RegistryTypeOK
<1>14. CASE BindSadd(a)
  <2>3. CallPart'
    BY <1>14, <1>1, <1>2, <1>4, GotoStep DEF BindSadd, At, RegistryPc, RoutePc
  <2>4. RedisTypeOK'
    BY <1>14, <1>1, <1>3 DEF BindSadd, redisVars, RegistryTypeOK, RedisTypeOK, AddNodeUser
  <2>5. routeCache' \in [Node -> [User -> Route \union {None}]] /\ metaCache' = metaCache
    BY <1>14, <1>1 DEF BindSadd, RegistryTypeOK
  <2> QED BY <1>1, <1>2, <2>3, <2>4, <2>5 DEF CallPart, RegistryInv, RegistryTypeOK
<1>15. CASE BindFill(a)
  <2>3. CallPart'
    BY <1>15, <1>1, <1>2, <1>4, GotoStep DEF BindFill, At, RegistryPc, RoutePc
  <2>4. RedisTypeOK'
    BY <1>15, <1>1, <1>3 DEF BindFill, redisVars, RegistryTypeOK, RedisTypeOK
  <2>5. routeCache' \in [Node -> [User -> Route \union {None}]] /\ metaCache' = metaCache
    BY <1>15, <1>1, <1>3, <1>4 DEF BindFill, RegistryTypeOK, At, RoutePc
  <2> QED BY <1>1, <1>2, <2>3, <2>4, <2>5 DEF CallPart, RegistryInv, RegistryTypeOK
<1>16. CASE UnbindErase(a)
  <2>3. CallPart'
    BY <1>16, <1>1, <1>2, <1>4, GotoStep DEF UnbindErase, At, RegistryPc, RoutePc
  <2>4. RedisTypeOK'
    BY <1>16, <1>1, <1>3 DEF UnbindErase, redisVars, RegistryTypeOK, RedisTypeOK
  <2>5. routeCache' \in [Node -> [User -> Route \union {None}]] /\ metaCache' = metaCache
    BY <1>16, <1>1, <1>3 DEF UnbindErase, RegistryTypeOK
  <2> QED BY <1>1, <1>2, <2>3, <2>4, <2>5 DEF CallPart, RegistryInv, RegistryTypeOK
<1>17. CASE UnbindDel(a)
  <2>3. CallPart'
    BY <1>17, <1>1, <1>2, <1>4, GotoStep DEF UnbindDel, At, RegistryPc, RoutePc
  <2>4. RedisTypeOK'
    BY <1>17, <1>1, <1>3 DEF UnbindDel, redisVars, RegistryTypeOK, RedisTypeOK, DelSession
  <2>5. routeCache' \in [Node -> [User -> Route \union {None}]] /\ metaCache' = metaCache
    BY <1>17, <1>1 DEF UnbindDel, RegistryTypeOK
  <2> QED BY <1>1, <1>2, <2>3, <2>4, <2>5 DEF CallPart, RegistryInv, RegistryTypeOK
<1>18. CASE UnbindSrem(a)
  <2>3. CallPart'
    BY <1>18, <1>1, <1>2, <1>4, GotoStep DEF UnbindSrem, At, RegistryPc, RoutePc
  <2>4. RedisTypeOK'
    BY <1>18, <1>1, <1>3 DEF UnbindSrem, redisVars, RegistryTypeOK, RedisTypeOK, RemNodeUser
  <2>5. routeCache' \in [Node -> [User -> Route \union {None}]] /\ metaCache' = metaCache
    BY <1>18, <1>1 DEF UnbindSrem, RegistryTypeOK
  <2> QED BY <1>1, <1>2, <2>3, <2>4, <2>5 DEF CallPart, RegistryInv, RegistryTypeOK
<1> QED BY <1>5, <1>6, <1>7, <1>8, <1>9, <1>10, <1>11, <1>12, <1>13, <1>14, <1>15, <1>16, <1>17, <1>18 DEF RegistryStep
-----------------------------------------------------------------------------
(***************************************************************************)
(* The handlers and the process's own steps preserve the same invariant.     *)
(***************************************************************************)
Typed == RegistryInv /\ ServiceTypeOK

LEMMA IdleStep ==
    ASSUME CallPart, NEW a \in Actor, Idle(a)
    PROVE  HomeOf[a] \in Node /\ Serving(HomeOf[a])
BY DEF CallPart, Idle

LEMMA LocalsType ==
    ASSUME job \in [Actor -> Job], NEW a \in Actor,
           NEW k \in {"none", "login", "loginBadPwd", "leave", "chat", "frame"}, NEW h \in SUBSET Msg,
           \/ job' = [job EXCEPT ![a].kind = k]
           \/ job' = [job EXCEPT ![a].hand = h]
           \/ job' = [job EXCEPT ![a].kind = k, ![a].hand = h]
           \/ job' = [job EXCEPT ![a].seen = "offline"]
    PROVE  job' \in [Actor -> Job]
BY DEF Job

LEMMA LoginStepTyped == ASSUME Typed, NEW c \in Conn, LoginStep(c) PROVE Typed'
<1>1. c \in Actor /\ CallPart /\ RegistryTypeOK /\ ServiceTypeOK
  BY DEF Typed, RegistryInv
<1>2. ~At(c, "idle") => call[c].user \in User /\ Serving(HomeOf[c])
  BY <1>1 DEF CallPart, CallOK
<1>3. CASE LoginReject(c)
  <2>1. CallPart' /\ job' \in [Actor -> Job]
    BY <1>3, <1>1, ReturnStep DEF LoginReject, ServiceTypeOK
  <2>2. RegistryTypeOK'
    BY <1>3, <1>1, <2>1 DEF LoginReject, CallPart, RegistryTypeOK, RedisTypeOK, redisVars, registryVars
  <2>3. ServiceTypeOK'
    BY <1>3, <1>1, <1>2, <2>1 DEF LoginReject, ServiceTypeOK, At, SetConn
  <2> QED BY <2>1, <2>2, <2>3 DEF Typed, RegistryInv
<1>4. CASE LoginReset(c)
  <2>1. CallPart'
    BY <1>4, <1>1 DEF LoginReset, CallPart, registryVars, CallOK, ProcOK, At, Serving
  <2>2. RegistryTypeOK'
    BY <1>4, <1>1, <2>1 DEF LoginReset, CallPart, RegistryTypeOK, RedisTypeOK, redisVars, registryVars
  <2>3. ServiceTypeOK'
    BY <1>4, <1>1, <1>2, <2>1, LocalsType DEF LoginReset, ServiceTypeOK, At, SetConn
  <2> QED BY <2>1, <2>2, <2>3 DEF Typed, RegistryInv
<1>5. CASE LoginAdd(c)
  <2>1. CallPart'
    BY <1>5, <1>1, <1>2, EnterStep DEF LoginAdd, At
  <2>2. RegistryTypeOK'
    BY <1>5, <1>1, <2>1 DEF LoginAdd, CallPart, RegistryTypeOK, RedisTypeOK, redisVars, registryVars
  <2>3. ServiceTypeOK'
    BY <1>5, <1>1, <1>2, <2>1 DEF LoginAdd, ServiceTypeOK, At, SetConn
  <2> QED BY <2>1, <2>2, <2>3 DEF Typed, RegistryInv
<1>6. CASE LoginUndo(c)
  <2>1. CallPart' /\ job' \in [Actor -> Job]
    BY <1>6, <1>1, ReturnStep DEF LoginUndo, ServiceTypeOK
  <2>2. RegistryTypeOK'
    BY <1>6, <1>1, <2>1 DEF LoginUndo, CallPart, RegistryTypeOK, RedisTypeOK, redisVars, registryVars
  <2>3. ServiceTypeOK'
    BY <1>6, <1>1, <1>2, <2>1 DEF LoginUndo, ServiceTypeOK, At, SetConn
  <2> QED BY <2>1, <2>2, <2>3 DEF Typed, RegistryInv
<1>7. CASE LoginOnline(c)
  <2>1. CallPart'
    <3>1. "offlineQuery" \in ServicePc /\ "offlineQuery" \notin RoutePc
      BY DEF ServicePc, RoutePc
    <3> QED BY <1>7, <1>1, <3>1, GotoStep DEF LoginOnline, At
  <2>2. RegistryTypeOK'
    BY <1>7, <1>1, <2>1 DEF LoginOnline, CallPart, RegistryTypeOK, RedisTypeOK, redisVars, registryVars
  <2>3. ServiceTypeOK'
    BY <1>7, <1>1, <1>2, <2>1 DEF LoginOnline, ServiceTypeOK, At, SetConn
  <2> QED BY <2>1, <2>2, <2>3 DEF Typed, RegistryInv
<1>8. CASE LoginOfflineQuery(c)
  <2>1. CallPart'
    <3>1. {"ack", "offlineRemove"} \subseteq ServicePc /\ {"ack", "offlineRemove"} \intersect RoutePc = {}
      BY DEF ServicePc, RoutePc
    <3>2. PICK l \in {"ack", "offlineRemove"} : Goto(c, l)
      BY <1>8 DEF LoginOfflineQuery
    <3> QED BY <1>8, <1>1, <3>1, <3>2, GotoStep DEF LoginOfflineQuery, At
  <2>2. RegistryTypeOK'
    BY <1>8, <1>1, <2>1 DEF LoginOfflineQuery, CallPart, RegistryTypeOK, RedisTypeOK, redisVars, registryVars
  <2>4. offline[call[c].user] \in SUBSET Msg
    BY <1>1, <1>2, <1>8 DEF LoginOfflineQuery, At, ServiceTypeOK
  <2>5. job' \in [Actor -> Job]
    <3>1. job' = [job EXCEPT ![c].hand = offline[call[c].user]] /\ job \in [Actor -> Job]
      BY <1>1, <1>8 DEF LoginOfflineQuery, ServiceTypeOK
    <3> QED BY <1>1, <2>4, <3>1, LocalsType
  <2>3. ServiceTypeOK'
    BY <1>1, <1>8, <2>5 DEF LoginOfflineQuery, ServiceTypeOK
  <2> QED BY <2>1, <2>2, <2>3 DEF Typed, RegistryInv
<1>9. CASE LoginOfflineRemove(c)
  <2>1. CallPart'
    <3>1. "ack" \in ServicePc /\ "ack" \notin RoutePc
      BY DEF ServicePc, RoutePc
    <3> QED BY <1>9, <1>1, <3>1, GotoStep DEF LoginOfflineRemove, At
  <2>2. RegistryTypeOK'
    BY <1>9, <1>1, <2>1 DEF LoginOfflineRemove, CallPart, RegistryTypeOK, RedisTypeOK, redisVars, registryVars
  <2>3. ServiceTypeOK'
    BY <1>9, <1>1, <1>2, <2>1 DEF LoginOfflineRemove, ServiceTypeOK, At, SetConn
  <2> QED BY <2>1, <2>2, <2>3 DEF Typed, RegistryInv
<1>10. CASE LoginAck(c)
  <2>1. CallPart' /\ job' \in [Actor -> Job]
    BY <1>10, <1>1, ReturnStep DEF LoginAck, ServiceTypeOK
  <2>2. RegistryTypeOK'
    BY <1>10, <1>1, <2>1 DEF LoginAck, CallPart, RegistryTypeOK, RedisTypeOK, redisVars, registryVars
  <2>3. ServiceTypeOK'
    BY <1>10, <1>1, <1>2, <2>1 DEF LoginAck, ServiceTypeOK, At, SetConn, Job
  <2> QED BY <2>1, <2>2, <2>3 DEF Typed, RegistryInv
<1> QED BY <1>3, <1>4, <1>5, <1>6, <1>7, <1>8, <1>9, <1>10 DEF LoginStep

LEMMA ConnNextTyped == ASSUME Typed, NEW c \in Conn, ConnNext(c) PROVE Typed'
<1>1. c \in Actor /\ CallPart /\ RegistryTypeOK /\ ServiceTypeOK
  BY DEF Typed, RegistryInv
<1>2. ~At(c, "idle") => call[c].user \in User /\ Serving(HomeOf[c])
  BY <1>1 DEF CallPart, CallOK
<1>3. CASE Connect(c)
  <2>1. CallPart'
    BY <1>3, <1>1 DEF Connect, CallPart, registryVars, CallOK, ProcOK, At, Serving
  <2>2. RegistryTypeOK'
    BY <1>3, <1>1, <2>1 DEF Connect, CallPart, RegistryTypeOK, RedisTypeOK, redisVars, registryVars
  <2>3. ServiceTypeOK'
    BY <1>3, <1>1, <1>2, <2>1 DEF Connect, ServiceTypeOK, serviceVars, At, SetConn
  <2> QED BY <2>1, <2>2, <2>3 DEF Typed, RegistryInv
<1>4. ASSUME NEW u \in User, NEW kind \in {"login", "loginBadPwd"}, Login(c, u, kind) PROVE Typed'
  <2>1. CallPart'
    BY <1>4, <1>1, IdleStep, EnterStep DEF Login
  <2>2. RegistryTypeOK'
    BY <1>4, <1>1, <2>1 DEF Login, CallPart, RegistryTypeOK, RedisTypeOK, redisVars, registryVars
  <2>3. ServiceTypeOK'
    BY <1>4, <1>1, <1>2, <2>1 DEF Login, ServiceTypeOK, serviceVars, At, SetConn, Job
  <2> QED BY <2>1, <2>2, <2>3 DEF Typed, RegistryInv
<1>5. CASE Logout(c)
  <2>0. loggedIn[c] \in User
    BY <1>5, <1>1 DEF Logout, ServiceTypeOK
  <2>1. CallPart'
    BY <1>5, <1>1, <2>0, IdleStep, EnterStep DEF Logout, Leave
  <2>2. RegistryTypeOK'
    BY <1>5, <1>1, <2>1 DEF Logout, CallPart, RegistryTypeOK, RedisTypeOK, redisVars, registryVars
  <2>3. ServiceTypeOK'
    BY <1>5, <1>1, <1>2, <2>1, <2>0, LocalsType DEF Logout, ServiceTypeOK, serviceVars, At, SetConn, Leave
  <2> QED BY <2>1, <2>2, <2>3 DEF Typed, RegistryInv
<1>6. CASE Close(c)
  <2>1. CallPart'
    <3>1. CASE \E u \in User : Leave(c, u)
      BY <1>6, <1>1, <3>1, IdleStep, EnterStep DEF Close, Leave
    <3>2. CASE UNCHANGED call
      BY <1>6, <1>1, <3>2 DEF Close, CallPart, CallOK, ProcOK, At, Serving
    <3> QED BY <1>6, <3>1, <3>2 DEF Close
  <2>2. RegistryTypeOK'
    BY <1>6, <1>1, <2>1 DEF Close, CallPart, RegistryTypeOK, RedisTypeOK, redisVars, registryVars
  <2>4. \/ userConnMap' = userConnMap /\ job' = job
        \/ \E u \in User : Leave(c, u)
    BY <1>6 DEF Close
  <2>5. job' \in [Actor -> Job] /\ userConnMap' \in [Node -> [User -> Conn \union {None}]]
    <3>1. ASSUME NEW u \in User, Leave(c, u)
          PROVE  job' \in [Actor -> Job] /\ userConnMap' \in [Node -> [User -> Conn \union {None}]]
      BY <1>1, <3>1, LocalsType DEF ServiceTypeOK, Leave, SetConn
    <3> QED BY <1>1, <2>4, <3>1 DEF ServiceTypeOK
  <2>3. ServiceTypeOK'
    BY <1>6, <1>1, <2>5 DEF Close, ServiceTypeOK
  <2> QED BY <2>1, <2>2, <2>3 DEF Typed, RegistryInv
<1>7. CASE LeaveState(c)
  <2>1. CallPart' /\ job' \in [Actor -> Job]
    BY <1>7, <1>1, ReturnStep DEF LeaveState, ServiceTypeOK
  <2>2. RegistryTypeOK'
    BY <1>7, <1>1, <2>1 DEF LeaveState, CallPart, RegistryTypeOK, RedisTypeOK, redisVars, registryVars
  <2>3. ServiceTypeOK'
    BY <1>7, <1>1, <1>2, <2>1 DEF LeaveState, ServiceTypeOK, serviceVars, At, SetConn
  <2> QED BY <2>1, <2>2, <2>3 DEF Typed, RegistryInv
<1>8. CASE LoginStep(c)
  BY <1>8, LoginStepTyped
<1> QED BY <1>3, <1>4, <1>5, <1>6, <1>7, <1>8 DEF ConnNext

LEMMA WorkerNextTyped == ASSUME Typed, NEW w \in Worker, WorkerNext(w) PROVE Typed'
<1>1. w \in Actor /\ CallPart /\ RegistryTypeOK /\ ServiceTypeOK
  BY DEF Typed, RegistryInv
<1>2. ~At(w, "idle") => call[w].user \in User /\ Serving(HomeOf[w])
  BY <1>1 DEF CallPart, CallOK
<1>3. CASE ChatStale(w)
  <2>1. CallPart'
    BY <1>3, <1>1, <1>2, EnterStep DEF ChatStale, At
  <2>2. RegistryTypeOK'
    BY <1>3, <1>1, <2>1 DEF ChatStale, CallPart, RegistryTypeOK, RedisTypeOK, redisVars, registryVars
  <2>3. ServiceTypeOK'
    BY <1>3, <1>1, <1>2, <2>1 DEF ChatStale, ServiceTypeOK, serviceVars, At, SetConn
  <2> QED BY <2>1, <2>2, <2>3 DEF Typed, RegistryInv
<1>4. CASE ChatSend(w)
  <2>1. CallPart' /\ job' \in [Actor -> Job]
    BY <1>4, <1>1, ReturnStep DEF ChatSend, ServiceTypeOK
  <2>2. RegistryTypeOK'
    BY <1>4, <1>1, <2>1 DEF ChatSend, CallPart, RegistryTypeOK, RedisTypeOK, redisVars, registryVars
  <2>3. ServiceTypeOK'
    BY <1>4, <1>1, <1>2, <2>1 DEF ChatSend, ServiceTypeOK, serviceVars, At, SetConn, Job
  <2> QED BY <2>1, <2>2, <2>3 DEF Typed, RegistryInv
<1>5. CASE ChatSendFail(w)
  <2>1. CallPart'
    <3>1. "sendFailed" \in ServicePc /\ "sendFailed" \notin RoutePc
      BY DEF ServicePc, RoutePc
    <3> QED BY <1>5, <1>1, <3>1, GotoStep DEF ChatSendFail, At
  <2>2. RegistryTypeOK'
    BY <1>5, <1>1, <2>1 DEF ChatSendFail, CallPart, RegistryTypeOK, RedisTypeOK, redisVars, registryVars
  <2>3. ServiceTypeOK'
    BY <1>5, <1>1, <1>2, <2>1 DEF ChatSendFail, ServiceTypeOK, serviceVars, At, SetConn
  <2> QED BY <2>1, <2>2, <2>3 DEF Typed, RegistryInv
<1>6. CASE FrameStale(w)
  <2>1. CallPart'
    BY <1>6, <1>1, <1>2, EnterStep DEF FrameStale, At
  <2>2. RegistryTypeOK'
    BY <1>6, <1>1, <2>1 DEF FrameStale, CallPart, RegistryTypeOK, RedisTypeOK, redisVars, registryVars
  <2>3. ServiceTypeOK'
    BY <1>6, <1>1, <1>2, <2>1 DEF FrameStale, ServiceTypeOK, serviceVars, At, SetConn
  <2> QED BY <2>1, <2>2, <2>3 DEF Typed, RegistryInv
<1>7. CASE OfflineStore(w)
  <2>1. CallPart' /\ job' \in [Actor -> Job]
    BY <1>7, <1>1, ReturnStep DEF OfflineStore, ServiceTypeOK
  <2>2. RegistryTypeOK'
    BY <1>7, <1>1, <2>1 DEF OfflineStore, CallPart, RegistryTypeOK, RedisTypeOK, redisVars, registryVars
  <2>3. ServiceTypeOK'
    BY <1>7, <1>1, <1>2, <2>1 DEF OfflineStore, ServiceTypeOK, serviceVars, At, SetConn, Job
  <2> QED BY <2>1, <2>2, <2>3 DEF Typed, RegistryInv
<1>8. ASSUME NEW m \in Msg, Chat(w, m) PROVE Typed'
  <2>0. To[m] \in User
    OBVIOUS
  <2>1. CallPart'
    <3>1. CASE Enter(w, "resolve", To[m])
      BY <1>8, <1>1, <2>0, <3>1, IdleStep, EnterStep DEF Chat
    <3>2. CASE UNCHANGED call
      BY <1>8, <1>1, <3>2 DEF Chat, CallPart, CallOK, ProcOK, At, Serving
    <3> QED BY <1>8, <3>1, <3>2 DEF Chat
  <2>2. RegistryTypeOK'
    BY <1>8, <1>1, <2>1 DEF Chat, CallPart, RegistryTypeOK, RedisTypeOK, redisVars, registryVars
  <2>4. \/ job' = job
        \/ job' = [job EXCEPT ![w].kind = "chat", ![w].hand = {m}]
    BY <1>8 DEF Chat
  <2>5. job' \in [Actor -> Job]
    <3>1. CASE job' = job
      BY <1>1, <3>1 DEF ServiceTypeOK
    <3>2. CASE job' = [job EXCEPT ![w].kind = "chat", ![w].hand = {m}]
      <4>1. job \in [Actor -> Job] /\ {m} \in SUBSET Msg
        BY <1>1 DEF ServiceTypeOK
      <4> QED BY <3>2, <4>1, SMTT(20) DEF Job
    <3> QED BY <2>4, <3>1, <3>2
  <2>3. ServiceTypeOK'
    BY <1>8, <1>1, <2>5 DEF Chat, ServiceTypeOK
  <2> QED BY <2>1, <2>2, <2>3 DEF Typed, RegistryInv
<1>9. ASSUME NEW m \in Msg, Frame(w, m) PROVE Typed'
  <2>0. To[m] \in User
    OBVIOUS
  <2>1. CallPart'
    <3>1. CASE Enter(w, "query", To[m])
      BY <1>9, <1>1, <2>0, <3>1, IdleStep, EnterStep DEF Frame
    <3>2. CASE UNCHANGED call
      BY <1>9, <1>1, <3>2 DEF Frame, CallPart, CallOK, ProcOK, At, Serving
    <3> QED BY <1>9, <3>1, <3>2 DEF Frame
  <2>2. RegistryTypeOK'
    BY <1>9, <1>1, <2>1 DEF Frame, CallPart, RegistryTypeOK, RedisTypeOK, redisVars, registryVars
  <2>4. \/ job' = job
        \/ job' = [job EXCEPT ![w].kind = "frame", ![w].hand = {m}]
    BY <1>9 DEF Frame
  <2>5. job' \in [Actor -> Job]
    <3>1. CASE job' = job
      BY <1>1, <3>1 DEF ServiceTypeOK
    <3>2. CASE job' = [job EXCEPT ![w].kind = "frame", ![w].hand = {m}]
      <4>1. job \in [Actor -> Job] /\ {m} \in SUBSET Msg
        BY <1>1 DEF ServiceTypeOK
      <4> QED BY <3>2, <4>1, SMTT(20) DEF Job
    <3> QED BY <2>4, <3>1, <3>2
  <2>3. ServiceTypeOK'
    BY <1>9, <1>1, <2>5 DEF Frame, ServiceTypeOK
  <2> QED BY <2>1, <2>2, <2>3 DEF Typed, RegistryInv
<1> QED BY <1>3, <1>4, <1>5, <1>6, <1>7, <1>8, <1>9 DEF WorkerNext, WorkerStep

LEMMA RegistryNextTyped == ASSUME Typed, RegistryNext PROVE Typed'
<1>1. CallPart /\ RegistryTypeOK /\ ServiceTypeOK /\ UNCHANGED serviceVars
  BY DEF Typed, RegistryInv, RegistryNext
<1>2. ServiceTypeOK'
  BY <1>1 DEF ServiceTypeOK, serviceVars
<1>3. ASSUME NEW a \in Actor, RegistryStep(a) PROVE RegistryInv'
  BY <1>3, RegistryStepOK DEF Typed
<1>4. ASSUME NEW n \in Node, Boot(n) PROVE RegistryInv'
  <2>1. CallPart'
    <3> DEFINE p == [NoProcess EXCEPT !.inst = proc[n].inst + 1, !.ctl = "warm", !.running = TRUE, !.hb = "sleep"]
    <3>1. proc[n] \in Process /\ ProcOK(n)
      BY <1>1 DEF CallPart
    <3>2. p \in Process
      <4>1. proc[n].inst + 1 \in Instance
        BY <1>4, <3>1 DEF Boot, Process, Instance
      <4> QED BY <4>1 DEF Process, Phase, NoProcess
    <3>3. proc' = [proc EXCEPT ![n] = p] /\ call' = call
      BY <1>4 DEF Boot, SetCtl
    <3>4. /\ p.ctl # "down" => p.inst # 0
          /\ p.hb # "off" => p.ctl # "down"
          /\ Serving(n) => p.ctl \notin {"down", "warm"}
      BY <1>4, <3>1 DEF Boot, ProcOK, Serving, Process, NoProcess, Instance
    <3> HIDE DEF p
    <3> QED BY <1>1, <3>2, <3>3, <3>4, ProcStep
  <2>3. proc[n].inst + 1 \in Instance
    BY <1>1, <1>4 DEF Boot, CallPart, Process, Instance
  <2>2. RegistryTypeOK'
    BY <1>4, <1>1, <2>1, <2>3 DEF Boot, CallPart, RegistryTypeOK, RedisTypeOK, redisVars, RegisterNode
  <2> QED BY <2>1, <2>2 DEF RegistryInv
<1>5. ASSUME NEW n \in Node, BootWarm(n) PROVE RegistryInv'
  <2>1. CallPart'
    <3> DEFINE p == [proc[n] EXCEPT !.ctl = "up"]
    <3>1. proc[n] \in Process /\ ProcOK(n)
      BY <1>1 DEF CallPart
    <3>2. p \in Process
      BY <1>5, <1>1, <3>1 DEF BootWarm, Process, Phase, RegistryTypeOK, RedisTypeOK
    <3>3. proc' = [proc EXCEPT ![n] = p] /\ call' = call
      BY <1>5 DEF BootWarm, SetCtl
    <3>4. /\ p.ctl # "down" => p.inst # 0
          /\ p.hb # "off" => p.ctl # "down"
          /\ Serving(n) => p.ctl \notin {"down", "warm"}
      BY <1>5, <3>1 DEF BootWarm, ProcOK, Serving, Process
    <3> HIDE DEF p
    <3> QED BY <1>1, <3>2, <3>3, <3>4, ProcStep
  <2>2. RegistryTypeOK'
    BY <1>5, <1>1, <2>1 DEF BootWarm, CallPart, RegistryTypeOK, RedisTypeOK, redisVars, registryVars
  <2> QED BY <2>1, <2>2 DEF RegistryInv
<1>6. ASSUME NEW n \in Node, HeartbeatWake(n) PROVE RegistryInv'
  <2>1. CallPart'
    <3> DEFINE p == [proc[n] EXCEPT !.hb = IF proc[n].running THEN "beat" ELSE "off"]
    <3>1. proc[n] \in Process /\ ProcOK(n)
      BY <1>1 DEF CallPart
    <3>2. p \in Process
      BY <1>6, <1>1, <3>1 DEF HeartbeatWake, Process, Phase, RegistryTypeOK, RedisTypeOK
    <3>3. proc' = [proc EXCEPT ![n] = p] /\ call' = call
      BY <1>6 DEF HeartbeatWake, SetCtl
    <3>4. /\ p.ctl # "down" => p.inst # 0
          /\ p.hb # "off" => p.ctl # "down"
          /\ Serving(n) => p.ctl \notin {"down", "warm"}
      BY <1>6, <3>1 DEF HeartbeatWake, ProcOK, Serving, Process
    <3> HIDE DEF p
    <3> QED BY <1>1, <3>2, <3>3, <3>4, ProcStep
  <2>2. RegistryTypeOK'
    BY <1>6, <1>1, <2>1 DEF HeartbeatWake, CallPart, RegistryTypeOK, RedisTypeOK, redisVars, registryVars
  <2> QED BY <2>1, <2>2 DEF RegistryInv
<1>7. ASSUME NEW n \in Node, HeartbeatRenew(n) PROVE RegistryInv'
  <2>1. CallPart'
    <3> DEFINE p == [proc[n] EXCEPT !.hb = "sleep"]
    <3>1. proc[n] \in Process /\ ProcOK(n)
      BY <1>1 DEF CallPart
    <3>2. p \in Process
      BY <1>7, <1>1, <3>1 DEF HeartbeatRenew, Process, Phase, RegistryTypeOK, RedisTypeOK
    <3>3. proc' = [proc EXCEPT ![n] = p] /\ call' = call
      BY <1>7 DEF HeartbeatRenew, SetCtl
    <3>4. /\ p.ctl # "down" => p.inst # 0
          /\ p.hb # "off" => p.ctl # "down"
          /\ Serving(n) => p.ctl \notin {"down", "warm"}
      BY <1>7, <3>1 DEF HeartbeatRenew, ProcOK, Serving, Process
    <3> HIDE DEF p
    <3> QED BY <1>1, <3>2, <3>3, <3>4, ProcStep
  <2>3. proc[n].inst \in Instance
    BY <1>1, <1>7 DEF HeartbeatRenew, CallPart, ProcOK, Process
  <2>2. RegistryTypeOK'
    BY <1>7, <1>1, <2>1, <2>3 DEF HeartbeatRenew, CallPart, RegistryTypeOK, RedisTypeOK, redisVars, RegisterNode
  <2> QED BY <2>1, <2>2 DEF RegistryInv
<1>8. ASSUME NEW n \in Node, ExpireDeadNode(n) PROVE RegistryInv'
  <2>1. CallPart'
    BY <1>8, <1>1 DEF ExpireDeadNode, CallPart, registryVars, CallOK, ProcOK, At, Serving
  <2>2. RegistryTypeOK'
    BY <1>8, <1>1, <2>1 DEF ExpireDeadNode, CallPart, RegistryTypeOK, RedisTypeOK, redisVars, registryVars, ExpireNodeMeta
  <2> QED BY <2>1, <2>2 DEF RegistryInv
<1>9. ASSUME NEW n \in Node, NEW u \in User, ExpireRoute(n, u) PROVE RegistryInv'
  <2>1. CallPart'
    BY <1>9, <1>1 DEF ExpireRoute, CallPart, registryVars, CallOK, ProcOK, At, Serving
  <2>2. RegistryTypeOK'
    BY <1>9, <1>1, <2>1 DEF ExpireRoute, CallPart, RegistryTypeOK, RedisTypeOK, redisVars, registryVars
  <2> QED BY <2>1, <2>2 DEF RegistryInv
<1>10. ASSUME NEW n \in Node, NEW v \in Node, ExpireMeta(n, v) PROVE RegistryInv'
  <2>1. CallPart'
    BY <1>10, <1>1 DEF ExpireMeta, CallPart, registryVars, CallOK, ProcOK, At, Serving
  <2>2. RegistryTypeOK'
    BY <1>10, <1>1, <2>1 DEF ExpireMeta, CallPart, RegistryTypeOK, RedisTypeOK, redisVars, registryVars
  <2> QED BY <2>1, <2>2 DEF RegistryInv
<1> QED BY <1>1, <1>2, <1>3, <1>4, <1>5, <1>6, <1>7, <1>8, <1>9, <1>10 DEF RegistryNext, Typed

LEMMA ProcStepTyped ==
    ASSUME Typed, NEW n \in Node, ResetStep(n) \/ Crash(n)
    PROVE  Typed'
<1>1. CallPart /\ RegistryTypeOK /\ ServiceTypeOK
  BY DEF Typed, RegistryInv
<1>2. CASE ResetBegin(n)
  <2>1. CallPart'
    <3> DEFINE p == [proc[n] EXCEPT !.users = nodeUsers[n], !.ctl = "stop"]
    <3>1. proc[n] \in Process /\ ProcOK(n)
      BY <1>1 DEF CallPart
    <3>2. p \in Process
      BY <1>2, <1>1, <3>1 DEF ResetBegin, Process, Phase, RegistryTypeOK, RedisTypeOK
    <3>3. proc' = [proc EXCEPT ![n] = p] /\ call' = call
      BY <1>2 DEF ResetBegin, SetCtl
    <3>4. /\ p.ctl # "down" => p.inst # 0
          /\ p.hb # "off" => p.ctl # "down"
          /\ Serving(n) => p.ctl \notin {"down", "warm"}
      BY <1>2, <3>1 DEF ResetBegin, ProcOK, Serving, Process
    <3> HIDE DEF p
    <3> QED BY <1>1, <3>2, <3>3, <3>4, ProcStep
  <2>2. RegistryTypeOK'
    BY <1>2, <1>1, <2>1 DEF ResetBegin, CallPart, RegistryTypeOK, RedisTypeOK, redisVars
  <2>3. ServiceTypeOK'
    BY <1>2, <1>1 DEF ResetBegin, ServiceTypeOK, serviceVars
  <2> QED BY <2>1, <2>2, <2>3 DEF Typed, RegistryInv
<1>3. CASE ResetStop(n)
  <2>1. CallPart'
    <3> DEFINE p == [proc[n] EXCEPT !.running = FALSE, !.ctl = "join"]
    <3>1. proc[n] \in Process /\ ProcOK(n)
      BY <1>1 DEF CallPart
    <3>2. p \in Process
      BY <1>3, <1>1, <3>1 DEF ResetStop, Process, Phase, RegistryTypeOK, RedisTypeOK
    <3>3. proc' = [proc EXCEPT ![n] = p] /\ call' = call
      BY <1>3 DEF ResetStop, SetCtl
    <3>4. /\ p.ctl # "down" => p.inst # 0
          /\ p.hb # "off" => p.ctl # "down"
          /\ Serving(n) => p.ctl \notin {"down", "warm"}
      BY <1>3, <3>1 DEF ResetStop, ProcOK, Serving, Process
    <3> HIDE DEF p
    <3> QED BY <1>1, <3>2, <3>3, <3>4, ProcStep
  <2>2. RegistryTypeOK'
    BY <1>3, <1>1, <2>1 DEF ResetStop, CallPart, RegistryTypeOK, RedisTypeOK, redisVars
  <2>3. ServiceTypeOK'
    BY <1>3, <1>1 DEF ResetStop, ServiceTypeOK, serviceVars
  <2> QED BY <2>1, <2>2, <2>3 DEF Typed, RegistryInv
<1>4. CASE ResetJoin(n)
  <2>1. CallPart'
    <3> DEFINE p == [proc[n] EXCEPT !.left = nodeUsers[n], !.ctl = "unbind"]
    <3>1. proc[n] \in Process /\ ProcOK(n)
      BY <1>1 DEF CallPart
    <3>2. p \in Process
      BY <1>4, <1>1, <3>1 DEF ResetJoin, Process, Phase, RegistryTypeOK, RedisTypeOK
    <3>3. proc' = [proc EXCEPT ![n] = p] /\ call' = call
      BY <1>4 DEF ResetJoin, SetCtl
    <3>4. /\ p.ctl # "down" => p.inst # 0
          /\ p.hb # "off" => p.ctl # "down"
          /\ Serving(n) => p.ctl \notin {"down", "warm"}
      BY <1>4, <3>1 DEF ResetJoin, ProcOK, Serving, Process
    <3> HIDE DEF p
    <3> QED BY <1>1, <3>2, <3>3, <3>4, ProcStep
  <2>2. RegistryTypeOK'
    BY <1>4, <1>1, <2>1 DEF ResetJoin, CallPart, RegistryTypeOK, RedisTypeOK, redisVars
  <2>3. ServiceTypeOK'
    BY <1>4, <1>1 DEF ResetJoin, ServiceTypeOK, serviceVars
  <2> QED BY <2>1, <2>2, <2>3 DEF Typed, RegistryInv
<1>5. CASE ResetDel(n)
  <2>1. CallPart'
    <3>1. proc[n] \in Process /\ ProcOK(n)
      BY <1>1 DEF CallPart
    <3>2. PICK u \in proc[n].left : proc' = [proc EXCEPT ![n] = [proc[n] EXCEPT !.left = @ \ {u}, !.cur = u]]
      BY <1>5 DEF ResetDel
    <3> DEFINE p == [proc[n] EXCEPT !.left = @ \ {u}, !.cur = u]
    <3>3. u \in User /\ p \in Process
      BY <3>1 DEF Process
    <3>4. /\ p.ctl # "down" => p.inst # 0
          /\ p.hb # "off" => p.ctl # "down"
          /\ Serving(n) => p.ctl \notin {"down", "warm"}
      BY <3>1 DEF ProcOK, Serving, Process
    <3>5. call' = call
      BY <1>5 DEF ResetDel
    <3> HIDE DEF p
    <3> QED BY <1>1, <3>2, <3>3, <3>4, <3>5, ProcStep DEF p
  <2>2. RegistryTypeOK'
    <3>1. PICK u : DelSession(u)
      BY <1>5 DEF ResetDel
    <3> QED BY <1>5, <1>1, <2>1, <3>1 DEF ResetDel, CallPart, RegistryTypeOK, RedisTypeOK, DelSession
  <2>3. ServiceTypeOK'
    BY <1>5, <1>1 DEF ResetDel, ServiceTypeOK, serviceVars
  <2> QED BY <2>1, <2>2, <2>3 DEF Typed, RegistryInv
<1>6. CASE ResetSrem(n)
  <2>1. CallPart'
    <3> DEFINE p == [proc[n] EXCEPT !.cur = None]
    <3>1. proc[n] \in Process /\ ProcOK(n)
      BY <1>1 DEF CallPart
    <3>2. p \in Process
      BY <1>6, <1>1, <3>1 DEF ResetSrem, Process, Phase, RegistryTypeOK, RedisTypeOK
    <3>3. proc' = [proc EXCEPT ![n] = p] /\ call' = call
      BY <1>6 DEF ResetSrem, SetCtl
    <3>4. /\ p.ctl # "down" => p.inst # 0
          /\ p.hb # "off" => p.ctl # "down"
          /\ Serving(n) => p.ctl \notin {"down", "warm"}
      BY <1>6, <3>1 DEF ResetSrem, ProcOK, Serving, Process
    <3> HIDE DEF p
    <3> QED BY <1>1, <3>2, <3>3, <3>4, ProcStep
  <2>2. RegistryTypeOK'
    BY <1>6, <1>1, <2>1 DEF ResetSrem, CallPart, RegistryTypeOK, RedisTypeOK, redisVars, RemNodeUser
  <2>3. ServiceTypeOK'
    BY <1>6, <1>1 DEF ResetSrem, ServiceTypeOK, serviceVars
  <2> QED BY <2>1, <2>2, <2>3 DEF Typed, RegistryInv
<1>7. CASE ResetUnregister(n)
  <2>1. CallPart'
    <3> DEFINE p == [proc[n] EXCEPT !.ctl = "clear"]
    <3>1. proc[n] \in Process /\ ProcOK(n)
      BY <1>1 DEF CallPart
    <3>2. p \in Process
      BY <1>7, <1>1, <3>1 DEF ResetUnregister, Process, Phase, RegistryTypeOK, RedisTypeOK
    <3>3. proc' = [proc EXCEPT ![n] = p] /\ call' = call
      BY <1>7 DEF ResetUnregister, SetCtl
    <3>4. /\ p.ctl # "down" => p.inst # 0
          /\ p.hb # "off" => p.ctl # "down"
          /\ Serving(n) => p.ctl \notin {"down", "warm"}
      BY <1>7, <3>1 DEF ResetUnregister, ProcOK, Serving, Process
    <3> HIDE DEF p
    <3> QED BY <1>1, <3>2, <3>3, <3>4, ProcStep
  <2>2. RegistryTypeOK'
    BY <1>7, <1>1, <2>1 DEF ResetUnregister, CallPart, RegistryTypeOK, RedisTypeOK, redisVars, UnregisterNode
  <2>3. ServiceTypeOK'
    BY <1>7, <1>1 DEF ResetUnregister, ServiceTypeOK, serviceVars
  <2> QED BY <2>1, <2>2, <2>3 DEF Typed, RegistryInv
<1>8. CASE ResetClear(n)
  <2>1. CallPart'
    <3> DEFINE p == [proc[n] EXCEPT !.ctl = "db"]
    <3>1. proc[n] \in Process /\ ProcOK(n)
      BY <1>1 DEF CallPart
    <3>2. p \in Process
      BY <1>8, <1>1, <3>1 DEF ResetClear, Process, Phase, RegistryTypeOK, RedisTypeOK
    <3>3. proc' = [proc EXCEPT ![n] = p] /\ call' = call
      BY <1>8 DEF ResetClear, SetCtl
    <3>4. /\ p.ctl # "down" => p.inst # 0
          /\ p.hb # "off" => p.ctl # "down"
          /\ Serving(n) => p.ctl \notin {"down", "warm"}
      BY <1>8, <3>1 DEF ResetClear, ProcOK, Serving, Process
    <3> HIDE DEF p
    <3> QED BY <1>1, <3>2, <3>3, <3>4, ProcStep
  <2>2. RegistryTypeOK'
    BY <1>8, <1>1, <2>1 DEF ResetClear, CallPart, RegistryTypeOK, RedisTypeOK, redisVars
  <2>3. ServiceTypeOK'
    BY <1>8, <1>1 DEF ResetClear, ServiceTypeOK, serviceVars
  <2> QED BY <2>1, <2>2, <2>3 DEF Typed, RegistryInv
<1>9. CASE ResetState(n)
  <2>1. CallPart'
    <3>1. proc[n] \in Process /\ ProcOK(n)
      BY <1>1 DEF CallPart
    <3>2. PICK u \in proc[n].users : proc' = [proc EXCEPT ![n] = [proc[n] EXCEPT !.users = @ \ {u}]]
      BY <1>9 DEF ResetState
    <3> DEFINE p == [proc[n] EXCEPT !.users = @ \ {u}]
    <3>3. u \in User /\ p \in Process
      BY <3>1 DEF Process
    <3>4. /\ p.ctl # "down" => p.inst # 0
          /\ p.hb # "off" => p.ctl # "down"
          /\ Serving(n) => p.ctl \notin {"down", "warm"}
      BY <3>1 DEF ProcOK, Serving, Process
    <3>5. call' = call
      BY <1>9 DEF ResetState
    <3> HIDE DEF p
    <3> QED BY <1>1, <3>2, <3>3, <3>4, <3>5, ProcStep DEF p
  <2>2. RegistryTypeOK'
    BY <1>9, <1>1, <2>1 DEF ResetState, CallPart, RegistryTypeOK, RedisTypeOK, redisVars
  <2>3. ServiceTypeOK'
    BY <1>9, <1>1 DEF ResetState, ServiceTypeOK, serviceVars
  <2> QED BY <2>1, <2>2, <2>3 DEF Typed, RegistryInv
<1>10. CASE Gone(n)
  <2>1. CallPart'
    <3>1. call' \in [Actor -> Call] /\ proc' \in [Node -> Process]
      BY <1>10, <1>1, NoCallType DEF Gone, CallPart, Process, Phase, NoProcess
    <3>2. \A v \in Node : ProcOK(v)'
      BY <1>10, <1>1 DEF Gone, CallPart, ProcOK, NoProcess
    <3>3. \A a \in Actor : CallOK(a)'
      BY <1>10, <1>1 DEF Gone, CallPart, CallOK, At, Serving, NoProcess, NoCall, RoutePc
    <3> QED BY <3>1, <3>2, <3>3 DEF CallPart
  <2>2. RegistryTypeOK'
    BY <1>10, <1>1, <2>1 DEF Gone, CallPart, RegistryTypeOK, RedisTypeOK, redisVars
  <2>3. ServiceTypeOK'
    BY <1>10, <1>1, NoJobType DEF Gone, ServiceTypeOK
  <2> QED BY <2>1, <2>2, <2>3 DEF Typed, RegistryInv
<1> QED BY <1>2, <1>3, <1>4, <1>5, <1>6, <1>7, <1>8, <1>9, <1>10 DEF ResetStep, ResetExit, Crash

LEMMA InitTyped == Init => Typed
BY InitTypeOK, NoCallType, NoProcessType
   DEF Init, Typed, TypeOK, RegistryInv, RegistryInit, CallPart, CallOK, ProcOK, At, NoCall, NoProcess, RoutePc

LEMMA NextTyped == ASSUME Typed, [Next]_vars PROVE Typed'
<1>1. CASE UNCHANGED vars
  BY <1>1 DEF vars, registryVars, redisVars, serviceVars, Typed, RegistryInv, CallPart, CallOK, ProcOK, At,
              Serving, RegistryTypeOK, RedisTypeOK, ServiceTypeOK
<1>2. CASE Next
  BY <1>2, RegistryNextTyped, ConnNextTyped, WorkerNextTyped, ProcStepTyped DEF Next
<1> QED BY <1>1, <1>2

(* The program's state is always of the declared types, and a thread inside a   *)
(* registry call always knows the user and, once it has one, the route it is      *)
(* about (the locals of queryUserNode and its siblings are set before use).       *)
THEOREM TypeCorrect == Spec => []TypeOK
<1>1. Typed => TypeOK
  BY DEF Typed, TypeOK, RegistryInv
<1> QED BY InitTyped, NextTyped, <1>1, PTL DEF Spec

-----------------------------------------------------------------------------
(* TableTruthful is not inductive alone: a connection cannot be lost while its  *)
(* own login runs only because handlers of one connection run one at a time,     *)
(* which HandlerInv states.                                                     *)
AckPc  == {"offlineQuery", "offlineRemove", "ack"}
BindPc == {"bind", "bindSadd", "bindFill", "bound", "refused"}

HandlerInv ==
    /\ \A a \in Actor : At(a, "idle") => Kind(a) = "none"
    /\ \A c \in Conn : call[c].pc \in AckPc => Kind(c) = "login"
    /\ \A c \in Conn : IsLogin(c) => c \in open /\ loggedIn[c] = None

TableInv == Typed /\ HandlerInv /\ TableTruthful

(* Only a's handler moves *)
OnlyMoves(a) == \A b \in Actor \ {a} : call'[b] = call[b] /\ job'[b] = job[b]

(* What a's new label and locals owe to HandlerInv *)
Owes(a) ==
    /\ call'[a].pc = "idle" => job'[a].kind = "none"
    /\ a \in Conn =>
          /\ call'[a].pc \in AckPc => job'[a].kind = "login"
          /\ job'[a].kind \in {"login", "loginBadPwd"} => a \in open' /\ loggedIn'[a] = None

LEMMA HandlerStep ==
    ASSUME TableInv, NEW a \in Actor, OnlyMoves(a), Owes(a),
           \A c \in Conn \ {a} : /\ c \in open => c \in open'
                                 /\ loggedIn'[c] = loggedIn[c]
    PROVE  HandlerInv'
BY DEF TableInv, HandlerInv, OnlyMoves, Owes, At, Kind, IsLogin

(* A step of a's that leaves the table and the connections alone *)
LEMMA TableKept ==
    ASSUME TableInv, NEW a \in Actor, OnlyMoves(a), Owes(a),
           UNCHANGED <<open, loggedIn, userConnMap>>,
           \A u \in User : a \in Conn /\ InLogin(a, u) => InLogin(a, u)'
    PROVE  HandlerInv' /\ TableTruthful'
<1>1. HandlerInv'
  BY HandlerStep
<1>2. ASSUME NEW c \in Conn, NEW u \in User, InLogin(c, u) PROVE InLogin(c, u)'
  <2>1. CASE c = a
    BY <2>1, <1>2
  <2>2. CASE c # a
    BY <2>2, <1>2 DEF OnlyMoves, InLogin, Kind
  <2> QED BY <2>1, <2>2
<1>3. TableTruthful'
  BY <1>2 DEF TableInv, Typed, ServiceTypeOK, TableTruthful
<1> QED BY <1>1, <1>3

(* A registry call goes on at label l, for the same user *)
Advances(a, l) ==
    /\ \A b \in Actor \ {a} : call'[b] = call[b]
    /\ call'[a].user = call[a].user
    /\ call'[a].pc = l

LEMMA Advance ==
    ASSUME call \in [Actor -> Call], NEW a \in Actor, NEW l,
           Goto(a, l) \/ \E q : call' = [call EXCEPT ![a].pc = l, ![a].route = q]
    PROVE  Advances(a, l)
<1>1. call[a] \in Call
  OBVIOUS
<1>2. CASE Goto(a, l)
  BY <1>1, <1>2 DEF Goto, Call, Advances
<1>3. ASSUME NEW q, call' = [call EXCEPT ![a].pc = l, ![a].route = q] PROVE Advances(a, l)
  BY <1>1, <1>3 DEF Call, Advances
<1> QED BY <1>2, <1>3

LookupPc == {"resolve", "query", "get", "fill", "check", "node", "drop", "dropSrem", "found",
             "missing", "unbind", "del", "srem", "unbound"}

LEMMA RegistryStepMoves ==
    ASSUME RegistryInv, NEW a \in Actor, RegistryStep(a)
    PROVE  \E l \in LookupPc \union BindPc :
              /\ Advances(a, l)
              /\ call[a].pc \in LookupPc \union BindPc
              /\ call[a].pc \in BindPc => l \in BindPc
<1>1. call \in [Actor -> Call]
  BY DEF RegistryInv, CallPart
<1> DEFINE Heads(l) == Goto(a, l) \/ \E q : call' = [call EXCEPT ![a].pc = l, ![a].route = q]
<1>2. CASE BindSet(a) \/ BindSadd(a) \/ BindFill(a)
  <2>1. PICK l \in BindPc : Heads(l)
    BY <1>2 DEF BindSet, BindSadd, BindFill, BindPc
  <2>2. call[a].pc \in BindPc
    BY <1>2 DEF BindSet, BindSadd, BindFill, At, BindPc
  <2> QED BY <1>1, <2>1, <2>2, Advance
<1>3. CASE ~(BindSet(a) \/ BindSadd(a) \/ BindFill(a))
  <2>1. PICK l \in LookupPc : Heads(l)
    <3>1. CASE ResolveFast(a) \/ QueryCache(a) \/ GetSession(a) \/ FillRoute(a)
      BY <3>1, Zenon DEF ResolveFast, QueryCache, GetSession, FillRoute, LookupPc
    <3>2. CASE CheckNode(a) \/ ResolveNode(a)
      BY <3>2 DEF CheckNode, ResolveNode, LookupPc
    <3>3. CASE DropDel(a) \/ DropSrem(a) \/ UnbindErase(a) \/ UnbindDel(a) \/ UnbindSrem(a)
      BY <3>3 DEF DropDel, DropSrem, UnbindErase, UnbindDel, UnbindSrem, LookupPc
    <3> QED BY <1>3, <3>1, <3>2, <3>3 DEF RegistryStep
  <2>2. call[a].pc \in LookupPc
    <3>1. CASE ResolveFast(a) \/ QueryCache(a) \/ GetSession(a) \/ FillRoute(a)
      BY <3>1 DEF ResolveFast, QueryCache, GetSession, FillRoute, At, LookupPc
    <3>2. CASE CheckNode(a) \/ ResolveNode(a) \/ DropDel(a) \/ DropSrem(a)
      BY <3>2 DEF CheckNode, ResolveNode, DropDel, DropSrem, At, LookupPc
    <3>3. CASE UnbindErase(a) \/ UnbindDel(a) \/ UnbindSrem(a)
      BY <3>3 DEF UnbindErase, UnbindDel, UnbindSrem, At, LookupPc
    <3> QED BY <1>3, <3>1, <3>2, <3>3 DEF RegistryStep
  <2>3. call[a].pc \notin BindPc
    BY <2>2 DEF LookupPc, BindPc
  <2> QED BY <1>1, <2>1, <2>2, <2>3, Advance
<1> QED BY <1>2, <1>3

LEMMA RegistryNextTable == ASSUME TableInv, RegistryNext PROVE HandlerInv' /\ TableTruthful'
<1>1. RegistryInv /\ UNCHANGED serviceVars
  BY DEF TableInv, Typed, RegistryNext
<1>2. ASSUME NEW a \in Actor, RegistryStep(a) PROVE HandlerInv' /\ TableTruthful'
  <2>1. PICK l \in LookupPc \union BindPc :
          /\ Advances(a, l)
          /\ call[a].pc \in LookupPc \union BindPc
          /\ call[a].pc \in BindPc => l \in BindPc
    BY <1>1, <1>2, RegistryStepMoves
  <2>2. OnlyMoves(a)
    BY <1>1, <2>1 DEF OnlyMoves, serviceVars, Advances
  <2>3. "idle" \notin LookupPc \union BindPc /\ AckPc \intersect (LookupPc \union BindPc) = {}
    BY DEF LookupPc, BindPc, AckPc
  <2>4. Owes(a)
    BY <1>1, <2>1, <2>3 DEF Owes, TableInv, HandlerInv, IsLogin, Kind, serviceVars, Advances
  <2>5. \A u \in User : InLogin(a, u) => InLogin(a, u)'
    BY <1>1, <2>1, <2>3 DEF InLogin, Kind, serviceVars, AckPc, BindPc, Advances
  <2> QED BY <1>1, <2>2, <2>4, <2>5, TableKept DEF serviceVars
<1>3. ASSUME UNCHANGED call PROVE HandlerInv' /\ TableTruthful'
  BY <1>1, <1>3 DEF TableInv, HandlerInv, TableTruthful, InLogin, IsLogin, Kind, At, serviceVars
<1> QED BY <1>2, <1>3, Zenon DEF RegistryNext, Boot, BootWarm, HeartbeatWake, HeartbeatRenew,
                          ExpireDeadNode, ExpireRoute, ExpireMeta, registryVars

(* A handler's own steps: the pointwise effect on call and job of Return,      *)
(* Enter and Goto, and then what they owe                                      *)
LEMMA ReturnMoves ==
    ASSUME Typed, NEW a \in Actor, Return(a)
    PROVE  OnlyMoves(a) /\ Owes(a) /\ call'[a] = NoCall /\ job'[a] = NoJob
<1>1. call \in [Actor -> Call] /\ job \in [Actor -> Job]
  BY DEF Typed, RegistryInv, CallPart, ServiceTypeOK
<1>2. OnlyMoves(a) /\ call'[a] = NoCall /\ job'[a] = NoJob
  BY <1>1 DEF Return, OnlyMoves
<1> QED BY <1>2 DEF Owes, NoCall, NoJob, AckPc

LEMMA EnterMoves ==
    ASSUME Typed, NEW a \in Actor, NEW fn \in {"resolve", "query", "bind", "unbind"}, NEW u,
           Enter(a, fn, u)
    PROVE  /\ \A b \in Actor \ {a} : call'[b] = call[b]
           /\ call'[a].pc = fn /\ call'[a].user = u
           /\ call'[a].pc \notin AckPc \union {"idle"}
<1>1. call \in [Actor -> Call]
  BY DEF Typed, RegistryInv, CallPart
<1> QED BY <1>1 DEF Enter, AckPc

LEMMA LoginStepTable == ASSUME TableInv, NEW c \in Conn, LoginStep(c) PROVE HandlerInv' /\ TableTruthful'
<1>1. c \in Actor /\ Typed /\ call \in [Actor -> Call] /\ job \in [Actor -> Job] /\ call[c] \in Call
  BY DEF TableInv, Typed, RegistryInv, CallPart, ServiceTypeOK
<1>2. /\ ~At(c, "idle") => call[c].user \in User
      /\ IsLogin(c) => c \in open /\ loggedIn[c] = None
      /\ call[c].pc \in AckPc => Kind(c) = "login"
  BY <1>1 DEF TableInv, Typed, RegistryInv, CallPart, CallOK, HandlerInv
<1>3. CASE LoginReject(c)
  <2>1. OnlyMoves(c) /\ Owes(c)
    BY <1>1, <1>3, ReturnMoves DEF LoginReject
  <2>2. \A u \in User : ~InLogin(c, u)
    BY <1>3 DEF LoginReject, InLogin, At
  <2> QED BY <1>1, <1>3, <2>1, <2>2, TableKept DEF LoginReject
<1>4. CASE LoginReset(c)
  <2>1. call' = call /\ job' = [job EXCEPT ![c].seen = "offline"]
    BY <1>4 DEF LoginReset, registryVars
  <2>2. OnlyMoves(c) /\ job'[c].kind = job[c].kind
    BY <1>1, <2>1 DEF OnlyMoves, Job
  <2>3. Owes(c)
    BY <1>1, <1>2, <1>4, <2>1, <2>2 DEF Owes, LoginReset, At, Kind, IsLogin, AckPc
  <2>4. \A u \in User : InLogin(c, u) => InLogin(c, u)'
    BY <2>1, <2>2 DEF InLogin, Kind
  <2> QED BY <1>1, <1>4, <2>2, <2>3, <2>4, TableKept DEF LoginReset
<1>5. CASE LoginAdd(c)
  <2>1. /\ \A b \in Actor \ {c} : call'[b] = call[b]
        /\ call'[c].pc = "bind" /\ call'[c].user = call[c].user
        /\ call'[c].pc \notin AckPc \union {"idle"}
    BY <1>1, <1>5, EnterMoves DEF LoginAdd
  <2>2. job' = job /\ Kind(c) = "login" /\ call[c].user \in User /\ At(c, "missing")
    BY <1>2, <1>5 DEF LoginAdd, At
  <2>3. OnlyMoves(c) /\ Owes(c)
    BY <1>2, <1>5, <2>1, <2>2 DEF OnlyMoves, Owes, LoginAdd, Kind, IsLogin
  <2>4. HandlerInv'
    BY <1>1, <1>5, <2>3, HandlerStep DEF LoginAdd
  <2>5. \A u \in User : u = call[c].user => InLogin(c, u)'
    BY <2>1, <2>2 DEF InLogin, Kind
  <2>6. ASSUME NEW d \in Conn, NEW u \in User, InLogin(d, u) PROVE d # c /\ InLogin(d, u)'
    BY <2>1, <2>2, <2>6 DEF InLogin, Kind, At
  <2>7. ASSUME NEW n \in Node, NEW u \in User, NEW d, d = userConnMap'[n][u], d # None
        PROVE  HomeOf[d] = n /\ d \in open' /\ (loggedIn'[d] = u \/ InLogin(d, u)')
    <3>1. userConnMap \in [Node -> [User -> Conn \union {None}]] /\ open' = open /\ loggedIn' = loggedIn
      BY <1>1, <1>5 DEF Typed, ServiceTypeOK, LoginAdd
    <3>2. CASE n = HomeOf[c] /\ u = call[c].user
      <4>1. d = c
        BY <2>7, <3>1, <3>2, <1>5 DEF LoginAdd, SetConn
      <4>2. c \in open
        BY <1>2, <2>2 DEF IsLogin
      <4> QED BY <2>5, <3>1, <3>2, <4>1, <4>2
    <3>3. CASE ~(n = HomeOf[c] /\ u = call[c].user)
      <4>1. d = userConnMap[n][u]
        BY <2>7, <3>1, <3>3, <1>5 DEF LoginAdd, SetConn
      <4> QED BY <2>6, <2>7, <3>1, <4>1 DEF TableInv, TableTruthful
    <3> QED BY <3>2, <3>3
  <2> QED BY <2>4, <2>7 DEF TableTruthful
<1>6. CASE LoginUndo(c)
  <2>1. OnlyMoves(c) /\ Owes(c)
    BY <1>1, <1>6, ReturnMoves DEF LoginUndo
  <2>2. HandlerInv'
    BY <1>1, <1>6, <2>1, HandlerStep DEF LoginUndo
  <2>3. ASSUME NEW d \in Conn \ {c}, NEW u \in User, InLogin(d, u) PROVE InLogin(d, u)'
    BY <2>1, <2>3 DEF InLogin, Kind, OnlyMoves
  <2>4. \A u \in User : InLogin(c, u) => u = call[c].user
    BY DEF InLogin
  <2>5. ASSUME NEW n \in Node, NEW u \in User, NEW d, d = userConnMap'[n][u], d # None
        PROVE  HomeOf[d] = n /\ d \in open' /\ (loggedIn'[d] = u \/ InLogin(d, u)')
    <3>1. userConnMap \in [Node -> [User -> Conn \union {None}]] /\ open' = open /\ loggedIn' = loggedIn
      BY <1>1, <1>6 DEF Typed, ServiceTypeOK, LoginUndo
    <3>2. ~(n = HomeOf[c] /\ u = call[c].user) /\ d = userConnMap[n][u]
      BY <2>5, <3>1, <1>6 DEF LoginUndo, SetConn
    <3> QED BY <2>3, <2>4, <2>5, <3>1, <3>2 DEF TableInv, TableTruthful
  <2> QED BY <2>2, <2>5 DEF TableTruthful
<1>7. CASE LoginOnline(c) \/ LoginOfflineQuery(c) \/ LoginOfflineRemove(c)
  <2>1. PICK l \in AckPc : Goto(c, l)
    BY <1>7 DEF LoginOnline, LoginOfflineQuery, LoginOfflineRemove, AckPc
  <2>2. Advances(c, l)
    BY <1>1, <2>1, Advance
  <2>3. Kind(c) = "login" /\ OnlyMoves(c) /\ job'[c].kind = job[c].kind
    <3>1. CASE UNCHANGED job
      BY <1>2, <1>7, <2>2, <3>1 DEF OnlyMoves, Advances, LoginOnline, LoginOfflineQuery, LoginOfflineRemove, At, AckPc
    <3>2. CASE job' = [job EXCEPT ![c].hand = offline[call[c].user]]
      BY <1>1, <1>2, <1>7, <2>2, <3>2 DEF OnlyMoves, Advances, Job, LoginOnline, LoginOfflineQuery,
         LoginOfflineRemove, At, AckPc
    <3> QED BY <1>7, <3>1, <3>2 DEF LoginOnline, LoginOfflineQuery, LoginOfflineRemove
  <2>4. UNCHANGED <<open, loggedIn, userConnMap>>
    BY <1>7 DEF LoginOnline, LoginOfflineQuery, LoginOfflineRemove
  <2>5. Owes(c)
    BY <1>2, <2>2, <2>3, <2>4 DEF Owes, Advances, AckPc, IsLogin, Kind
  <2>6. \A u \in User : InLogin(c, u) => InLogin(c, u)'
    BY <2>2, <2>3 DEF InLogin, Advances, Kind, AckPc
  <2> QED BY <1>1, <2>3, <2>4, <2>5, <2>6, TableKept
<1>8. CASE LoginAck(c)
  <2>1. OnlyMoves(c) /\ Owes(c)
    BY <1>1, <1>8, ReturnMoves DEF LoginAck
  <2>2. open' = open /\ userConnMap' = userConnMap /\ loggedIn' = [loggedIn EXCEPT ![c] = call[c].user]
    BY <1>8 DEF LoginAck
  <2>3. loggedIn \in [Conn -> User \union {None}] /\ userConnMap \in [Node -> [User -> Conn \union {None}]]
    BY <1>1 DEF Typed, ServiceTypeOK
  <2>4. HandlerInv'
    BY <1>1, <2>1, <2>2, <2>3, HandlerStep
  <2>5. loggedIn[c] = None
    BY <1>2, <1>8 DEF LoginAck, At, AckPc, IsLogin
  <2>6. ASSUME NEW d \in Conn, NEW u \in User, loggedIn[d] = u \/ InLogin(d, u)
        PROVE  loggedIn'[d] = u \/ InLogin(d, u)'
    <3>1. CASE d = c
      BY <2>2, <2>3, <2>5, <2>6, <3>1 DEF InLogin
    <3>2. CASE d # c
      BY <2>1, <2>2, <2>3, <2>6, <3>2 DEF InLogin, OnlyMoves, Kind
    <3> QED BY <3>1, <3>2
  <2> QED BY <2>2, <2>3, <2>4, <2>6 DEF TableInv, TableTruthful
<1> QED BY <1>3, <1>4, <1>5, <1>6, <1>7, <1>8 DEF LoginStep

LEMMA ConnNextTable == ASSUME TableInv, NEW c \in Conn, ConnNext(c) PROVE HandlerInv' /\ TableTruthful'
<1>1. c \in Actor /\ Typed /\ call \in [Actor -> Call] /\ job \in [Actor -> Job]
  BY DEF TableInv, Typed, RegistryInv, CallPart, ServiceTypeOK
<1>2. /\ loggedIn \in [Conn -> User \union {None}]
      /\ userConnMap \in [Node -> [User -> Conn \union {None}]]
  BY <1>1 DEF Typed, ServiceTypeOK
<1>3. ASSUME Idle(c) PROVE Kind(c) = "none" /\ (\A u \in User : ~InLogin(c, u)) /\ HomeOf[c] \in Node
  BY <1>1, <1>3 DEF TableInv, HandlerInv, Idle, At, InLogin
(* The thread leaves with user u: nothing in the table points to c any more *)
<1>4. ASSUME Idle(c), NEW u \in User, Leave(c, u), loggedIn' = [loggedIn EXCEPT ![c] = None],
             open' \in {open, open \ {c}}, loggedIn[c] = u
      PROVE  HandlerInv' /\ TableTruthful'
  <2>1. /\ \A b \in Actor \ {c} : call'[b] = call[b]
        /\ call'[c].pc \notin AckPc \union {"idle"}
    BY <1>1, <1>4, EnterMoves DEF Leave
  <2>2. job' = [job EXCEPT ![c].kind = "leave"] /\ job'[c].kind = "leave"
    BY <1>1, <1>4 DEF Leave, Job
  <2>3. OnlyMoves(c) /\ Owes(c)
    BY <1>1, <2>1, <2>2 DEF OnlyMoves, Owes
  <2>4. HandlerInv'
    BY <1>1, <1>2, <1>4, <2>3, HandlerStep
  <2>5. ASSUME NEW d \in Conn \ {c}, NEW v \in User, InLogin(d, v) PROVE InLogin(d, v)'
    BY <2>3, <2>5 DEF InLogin, Kind, OnlyMoves
  <2>6. ASSUME NEW n \in Node, NEW v \in User, NEW d, d = userConnMap'[n][v], d # None
        PROVE  HomeOf[d] = n /\ d \in open' /\ (loggedIn'[d] = v \/ InLogin(d, v)')
    <3>1. d = userConnMap[n][v] /\ ~(n = HomeOf[c] /\ v = u)
      BY <1>2, <1>4, <2>6 DEF Leave, SetConn
    <3>2. d \in Conn /\ HomeOf[d] = n /\ d \in open /\ (loggedIn[d] = v \/ InLogin(d, v))
      BY <1>2, <2>6, <3>1 DEF TableInv, TableTruthful
    <3>3. d # c
      BY <1>3, <1>4, <3>1, <3>2
    <3> QED BY <1>2, <1>4, <2>5, <3>2, <3>3
  <2> QED BY <2>4, <2>6 DEF TableTruthful
<1>5. CASE Connect(c)
  BY <1>5 DEF Connect, registryVars, TableInv, HandlerInv, TableTruthful, InLogin, IsLogin, Kind, At
<1>6. CASE Logout(c)
  <2>1. loggedIn[c] \in User
    BY <1>2, <1>6 DEF Logout
  <2> QED BY <1>4, <1>6, <2>1 DEF Logout
<1>7. CASE Close(c)
  <2> DEFINE held == {u \in User : userConnMap[HomeOf[c]][u] = c}
  <2>1. Idle(c) /\ open' = open \ {c} /\ loggedIn' = [loggedIn EXCEPT ![c] = None]
    BY <1>7 DEF Close
  <2>2. \A u \in held : loggedIn[c] = u
    BY <1>3, <2>1 DEF TableInv, TableTruthful
  <2>3. ASSUME NEW u \in held, Leave(c, u) PROVE HandlerInv' /\ TableTruthful'
    BY <1>4, <2>1, <2>2, <2>3
  <2>4. ASSUME held = {}, UNCHANGED <<userConnMap, job, call>> PROVE HandlerInv' /\ TableTruthful'
    <3>1. HandlerInv'
      BY <1>1, <1>2, <1>3, <2>1, <2>4 DEF TableInv, HandlerInv, IsLogin, Kind, At
    <3>2. ASSUME NEW n \in Node, NEW v \in User, NEW d, d = userConnMap[n][v], d # None
          PROVE  HomeOf[d] = n /\ d \in open' /\ (loggedIn'[d] = v \/ InLogin(d, v)')
      <4>1. HomeOf[d] = n /\ d \in open /\ (loggedIn[d] = v \/ InLogin(d, v)) /\ d \in Conn
        BY <1>2, <3>2 DEF TableInv, TableTruthful
      <4>2. d # c
        BY <2>4, <3>2, <4>1
      <4>3. InLogin(d, v)' = InLogin(d, v)
        BY <2>4 DEF InLogin, Kind
      <4> QED BY <1>2, <2>1, <4>1, <4>2, <4>3
    <3> QED BY <2>4, <3>1, <3>2 DEF TableTruthful
  <2> QED BY <1>7, <2>3, <2>4 DEF Close
<1>8. CASE LeaveState(c)
  <2>1. OnlyMoves(c) /\ Owes(c)
    BY <1>1, <1>8, ReturnMoves DEF LeaveState
  <2>2. \A u \in User : ~InLogin(c, u)
    BY <1>8 DEF LeaveState, InLogin
  <2> QED BY <1>1, <1>8, <2>1, <2>2, TableKept DEF LeaveState
<1>9. ASSUME NEW u \in User, NEW kind \in {"login", "loginBadPwd"}, Login(c, u, kind)
      PROVE  HandlerInv' /\ TableTruthful'
  <2>1. Idle(c) /\ UNCHANGED <<open, loggedIn, userConnMap>> /\ c \in open /\ loggedIn[c] = None
    BY <1>9 DEF Login
  <2>2. /\ \A b \in Actor \ {c} : call'[b] = call[b]
        /\ call'[c].pc \notin AckPc \union {"idle"}
    BY <1>1, <1>9, EnterMoves DEF Login
  <2>3. OnlyMoves(c) /\ Owes(c)
    BY <1>1, <1>9, <2>1, <2>2 DEF OnlyMoves, Owes, Login
  <2> QED BY <1>1, <1>3, <2>1, <2>3, TableKept
<1> QED BY <1>5, <1>6, <1>7, <1>8, <1>9, LoginStepTable DEF ConnNext

LEMMA WorkerNextTable == ASSUME TableInv, NEW w \in Worker, WorkerNext(w) PROVE HandlerInv' /\ TableTruthful'
<1>1. w \in Actor /\ w \notin Conn /\ Typed /\ call \in [Actor -> Call] /\ job \in [Actor -> Job]
  BY DEF TableInv, Typed, RegistryInv, CallPart, ServiceTypeOK
<1>2. UNCHANGED <<open, loggedIn, userConnMap>>
  BY DEF WorkerNext, WorkerStep, ChatStale, ChatSend, ChatSendFail, FrameStale, OfflineStore, Chat, Frame,
         serviceVars
<1>3. At(w, "idle") => Kind(w) = "none"
  BY <1>1 DEF TableInv, HandlerInv
<1>4. OnlyMoves(w) /\ Owes(w)
  <2>1. CASE UNCHANGED <<call, job>>
    BY <1>1, <1>3, <2>1 DEF OnlyMoves, Owes, At, Kind
  <2>2. CASE Return(w)
    BY <1>1, <2>2, ReturnMoves
  <2>3. ASSUME NEW fn \in {"resolve", "query", "unbind"}, NEW u, Enter(w, fn, u),
               \A b \in Actor \ {w} : job'[b] = job[b]
        PROVE  OnlyMoves(w) /\ Owes(w)
    <3>1. /\ \A b \in Actor \ {w} : call'[b] = call[b]
          /\ call'[w].pc \notin AckPc \union {"idle"}
      BY <1>1, <2>3, EnterMoves
    <3> QED BY <1>1, <2>3, <3>1 DEF OnlyMoves, Owes
  <2>4. CASE Goto(w, "sendFailed") /\ UNCHANGED job
    <3>1. Advances(w, "sendFailed")
      BY <1>1, <2>4, Advance
    <3> QED BY <1>1, <2>4, <3>1 DEF OnlyMoves, Owes, Advances
  <2>5. CASE ChatStale(w) \/ FrameStale(w)
    BY <1>1, <2>3, <2>5 DEF ChatStale, FrameStale, serviceVars
  <2>6. CASE ChatSend(w) \/ OfflineStore(w)
    BY <2>2, <2>6 DEF ChatSend, OfflineStore
  <2>7. CASE ChatSendFail(w)
    BY <2>4, <2>7 DEF ChatSendFail, serviceVars
  <2>8. ASSUME NEW m \in Msg, Chat(w, m) \/ Frame(w, m) PROVE OnlyMoves(w) /\ Owes(w)
    BY <1>1, <2>1, <2>3, <2>8 DEF Chat, Frame
  <2> QED BY <2>5, <2>6, <2>7, <2>8 DEF WorkerNext, WorkerStep
<1> QED BY <1>1, <1>2, <1>4, TableKept

LEMMA GoneTable == ASSUME TableInv, NEW n \in Node, Gone(n) PROVE HandlerInv' /\ TableTruthful'
<1>1. HandlerInv'
  BY DEF TableInv, Typed, ServiceTypeOK, HandlerInv, Gone, At, Kind, IsLogin, NoCall, NoJob, AckPc
<1>2. ASSUME NEW k \in Node, NEW u \in User, NEW c, c = userConnMap'[k][u], c # None
      PROVE  HomeOf[c] = k /\ c \in open' /\ (loggedIn'[c] = u \/ InLogin(c, u)')
  <2>1. k # n /\ c = userConnMap[k][u] /\ c \in Conn
    BY <1>2 DEF TableInv, Typed, ServiceTypeOK, Gone
  <2>2. HomeOf[c] = k /\ c \in open /\ (loggedIn[c] = u \/ InLogin(c, u))
    BY <1>2, <2>1 DEF TableInv, TableTruthful
  <2> QED BY <2>1, <2>2 DEF Gone, InLogin, Kind
<1> QED BY <1>1, <1>2 DEF TableTruthful

LEMMA NextTable == ASSUME TableInv, [Next]_vars PROVE HandlerInv' /\ TableTruthful'
<1>1. ASSUME UNCHANGED <<call, job, open, loggedIn, userConnMap>> PROVE HandlerInv' /\ TableTruthful'
  BY <1>1 DEF TableInv, HandlerInv, TableTruthful, InLogin, IsLogin, Kind, At
<1>2. CASE UNCHANGED vars
  BY <1>1, <1>2 DEF vars, registryVars, serviceVars
<1>3. ASSUME NEW n \in Node, ResetStep(n) \/ Crash(n) PROVE HandlerInv' /\ TableTruthful'
  BY <1>1, <1>3, GoneTable DEF ResetStep, ResetBegin, ResetStop, ResetJoin, ResetDel, ResetSrem,
     ResetUnregister, ResetClear, ResetState, ResetExit, Crash, SetCtl, serviceVars
<1> QED BY <1>2, <1>3, RegistryNextTable, ConnNextTable, WorkerNextTable DEF Next

(* Whatever the interleaving of logins, logouts, lost connections, messages,    *)
(* shutdowns and crashes, an entry of userConnMap names a live connection of     *)
(* its node whose client is, or is being, logged in as that user: what           *)
(* deliverToLocalUser relies on.                                                 *)
THEOREM TableCorrect == Spec => []TableTruthful
<1>1. Init => TableInv
  BY InitTyped DEF Init, RegistryInit, TableInv, HandlerInv, TableTruthful, At, Kind, IsLogin, NoCall, NoJob, AckPc
<1>2. TableInv /\ [Next]_vars => TableInv'
  BY NextTyped, NextTable DEF TableInv
<1>3. TableInv => TableTruthful
  BY DEF TableInv
<1> QED BY <1>1, <1>2, <1>3, PTL DEF Spec
=============================================================================
