--------------------------- MODULE RegistryProofs ---------------------------
(***************************************************************************)
(* The control plane in Redis, for any number of nodes, users and threads.    *)
(* With crashes and restarts: a node that unregistered itself stays unregistered, *)
(* and a session that outlives its process is invalid.  Without: whoever is logged  *)
(* in holds the session, and every session is in its node's list.                *)
(* Then, on top of these, what happens to one-to-one messages.                  *)
(***************************************************************************)
EXTENDS ChatServiceProofs

USE RedisAssumption, ActorAssumption, ServiceAssumption

(* Past the join the heartbeat thread is gone: without it a late renewal could  *)
(* follow unregisterNode, and GoneStaysGone is not inductive.  What a node has    *)
(* in Redis names its last process, and a process that was shut down left nothing. *)
ShutdownInv ==
    \A n \in Node :
        /\ proc[n].ctl \in {"unbind", "clear", "db"} => proc[n].hb = "off"
        /\ proc[n].ctl \in {"clear", "db"} => nodeMeta[n] = None /\ n \notin nodeIds
        /\ nodeMeta[n] \in {None, proc[n].inst}
        /\ proc[n].ctl = "down" /\ n \notin CrashNodes => nodeMeta[n] = None

LEMMA RedisKept ==
    ASSUME ShutdownInv, UNCHANGED <<nodeMeta, nodeIds, proc>>
    PROVE  ShutdownInv'
BY DEF ShutdownInv

LEMMA RegistryNextShutdown == ASSUME Typed, ShutdownInv, RegistryNext PROVE ShutdownInv'
<1>1. proc \in [Node -> Process] /\ nodeMeta \in [Node -> Instance \union {None}]
      /\ \A n \in Node : proc[n].hb # "off" => proc[n].ctl # "down"
  BY DEF Typed, RegistryInv, CallPart, RegistryTypeOK, RedisTypeOK, ProcOK
<1>2. ASSUME NEW a \in Actor, RegistryStep(a) PROVE ShutdownInv'
  <2>1. CASE ResolveFast(a) \/ QueryCache(a) \/ GetSession(a) \/ FillRoute(a)
    BY <2>1, RedisKept DEF ResolveFast, QueryCache, GetSession, FillRoute, redisVars
  <2>2. CASE CheckNode(a) \/ ResolveNode(a) \/ DropDel(a) \/ DropSrem(a)
    BY <2>2, RedisKept DEF CheckNode, ResolveNode, DropDel, DropSrem, DelSession, RemNodeUser, redisVars
  <2>3. CASE BindSet(a) \/ BindSadd(a) \/ BindFill(a)
    BY <2>3, RedisKept DEF BindSet, BindSadd, BindFill, SetSessionNX, AddNodeUser, redisVars
  <2>4. CASE UnbindErase(a) \/ UnbindDel(a) \/ UnbindSrem(a)
    BY <2>4, RedisKept DEF UnbindErase, UnbindDel, UnbindSrem, DelSession, RemNodeUser, redisVars
  <2> QED BY <1>2, <2>1, <2>2, <2>3, <2>4 DEF RegistryStep
<1>3. ASSUME NEW n \in Node, Boot(n) PROVE ShutdownInv'
  BY <1>1, <1>3 DEF Boot, RegisterNode, ShutdownInv, Process, NoProcess
<1>4. ASSUME NEW n \in Node, BootWarm(n) PROVE ShutdownInv'
  BY <1>1, <1>4 DEF BootWarm, redisVars, ShutdownInv, Process
<1>5. ASSUME NEW n \in Node, HeartbeatWake(n) PROVE ShutdownInv'
  BY <1>1, <1>5 DEF HeartbeatWake, redisVars, ShutdownInv, Process
<1>6. ASSUME NEW n \in Node, HeartbeatRenew(n) PROVE ShutdownInv'
  BY <1>1, <1>6 DEF HeartbeatRenew, RegisterNode, ShutdownInv, Process
<1>7. ASSUME NEW n \in Node, ExpireDeadNode(n) PROVE ShutdownInv'
  BY <1>1, <1>7 DEF ExpireDeadNode, ExpireNodeMeta, registryVars, ShutdownInv
<1>8. ASSUME NEW n \in Node, (\E u \in User : ExpireRoute(n, u)) \/ (\E k \in Node : ExpireMeta(n, k))
      PROVE  ShutdownInv'
  BY <1>8, RedisKept DEF ExpireRoute, ExpireMeta, redisVars
<1> QED BY <1>2, <1>3, <1>4, <1>5, <1>6, <1>7, <1>8 DEF RegistryNext

LEMMA ResetShutdown == ASSUME Typed, ShutdownInv, NEW n \in Node, ResetStep(n) \/ Crash(n) PROVE ShutdownInv'
<1>1. proc \in [Node -> Process] /\ nodeMeta \in [Node -> Instance \union {None}]
  BY DEF Typed, RegistryInv, CallPart, RegistryTypeOK, RedisTypeOK
<1>2. CASE ResetBegin(n) \/ ResetStop(n)
  BY <1>1, <1>2 DEF ResetBegin, ResetStop, redisVars, ShutdownInv, Process
<1>3. CASE ResetJoin(n)
  BY <1>1, <1>3 DEF ResetJoin, redisVars, ShutdownInv, Process
<1>4. CASE ResetDel(n)
  BY <1>1, <1>4 DEF ResetDel, DelSession, ShutdownInv, Process
<1>5. CASE ResetSrem(n)
  BY <1>1, <1>5 DEF ResetSrem, RemNodeUser, ShutdownInv, Process
<1>6. CASE ResetUnregister(n)
  BY <1>1, <1>6 DEF ResetUnregister, UnregisterNode, SetCtl, ShutdownInv, Process
<1>7. CASE ResetClear(n)
  BY <1>1, <1>7 DEF ResetClear, SetCtl, redisVars, ShutdownInv, Process
<1>8. CASE ResetState(n)
  BY <1>1, <1>8 DEF ResetState, redisVars, ShutdownInv, Process
<1>9. CASE Gone(n) /\ (proc[n].ctl = "db" \/ n \in CrashNodes)
  BY <1>1, <1>9 DEF Gone, redisVars, ShutdownInv, Process, NoProcess
<1> QED BY <1>2, <1>3, <1>4, <1>5, <1>6, <1>7, <1>8, <1>9 DEF ResetStep, ResetExit, Crash

LEMMA NextShutdown == ASSUME Typed, ShutdownInv, [Next]_vars PROVE ShutdownInv'
<1>1. CASE UNCHANGED vars
  BY <1>1, RedisKept DEF vars, redisVars, registryVars
<1>2. ASSUME NEW c \in Conn, ConnNext(c) PROVE ShutdownInv'
  BY <1>2, RedisKept DEF ConnNext, LoginStep, Connect, Login, LoginReject, LoginReset, LoginAdd, LoginUndo,
     LoginOnline, LoginOfflineQuery, LoginOfflineRemove, LoginAck, Logout, Close, LeaveState,
     redisVars, registryVars
<1>3. ASSUME NEW w \in Worker, WorkerNext(w) PROVE ShutdownInv'
  BY <1>3, RedisKept DEF WorkerNext, WorkerStep, ChatStale, ChatSend, ChatSendFail, FrameStale, OfflineStore,
     Chat, Frame, redisVars
<1> QED BY <1>1, <1>2, <1>3, RegistryNextShutdown, ResetShutdown DEF Next

LEMMA TypedReached == Spec => []Typed
BY InitTyped, NextTyped, PTL DEF Spec

LEMMA ShutdownReached == Spec => []ShutdownInv
<1>1. Init => ShutdownInv
  BY DEF Init, RegistryInit, RedisInit, NoProcess, ShutdownInv
<1> QED BY <1>1, InitTyped, NextTyped, NextShutdown, PTL DEF Spec

(* NodeRegistry::stop joins the heartbeat before unregisterNode runs, so the     *)
(* entry of a node that shuts down cannot reappear before the process is gone.   *)
THEOREM GoneForGood == Spec => []GoneStaysGone
<1>1. ShutdownInv => GoneStaysGone
  BY DEF ShutdownInv, GoneStaysGone
<1> QED BY <1>1, ShutdownReached, PTL

(* reset: a session that outlives the orderly end of its process, bound while the   *)
(* handler was already deleting the others, is invalid to whoever asks Redis: the     *)
(* metadata is gone, or belongs to a later instance.                                *)
THEOREM LateSessionsAreInvalid == Spec => []LateSessionsInvalid
<1>1. Typed /\ ShutdownInv => LateSessionsInvalid
  <2> SUFFICES ASSUME Typed, ShutdownInv, NEW u \in User, Stale(u), session[u].node \notin CrashNodes
               PROVE  ~SessionValid(session[u], nodeMeta[session[u].node])
    BY DEF LateSessionsInvalid
  <2> DEFINE n == session[u].node
  <2>1. session[u] \in Route
    BY DEF Typed, RegistryInv, RegistryTypeOK, RedisTypeOK, Stale
  <2>2. n \in Node /\ nodeMeta[n] \in {None, proc[n].inst}
    BY <2>1 DEF Route, ShutdownInv
  <2>3. CASE proc[n].ctl = "down"
    BY <2>2, <2>3 DEF ShutdownInv, SessionValid
  <2>4. CASE proc[n].inst # session[u].inst
    BY <2>2, <2>4 DEF SessionValid
  <2> QED BY <2>3, <2>4 DEF Stale
<1> QED BY <1>1, ShutdownReached, TypedReached, PTL

-----------------------------------------------------------------------------
(* While no process ends, what every node knows of another one is true: a route   *)
(* that is stored anywhere names the instance that is running, so queryUserNode     *)
(* never takes a session for stale.                                              *)
Current(r) == nodeMeta[r.node] = r.inst

ProcsSteady ==
    \A n \in Node :
        /\ proc[n].ctl \in {"down", "warm", "up"} /\ proc[n].cur = None
        /\ nodeMeta[n] = IF proc[n].ctl = "down" THEN None ELSE proc[n].inst
MetaTrue     == \A n, k \in Node : metaCache[n][k] \in {None, nodeMeta[k]}
SessionsLive == \A u \in User : session[u] # None => Current(session[u])
RoutesLive   == \A n \in Node, u \in User : routeCache[n][u] # None => Current(routeCache[n][u])
CallsLive    ==
    \A a \in Actor :
        /\ call[a].route # None => Current(call[a].route)
        /\ call[a].pc \notin {"drop", "dropSrem"}

Steady == ProcsSteady /\ MetaTrue /\ SessionsLive /\ RoutesLive /\ CallsLive

(* What is not None stays current while the metadata stays *)
LEMMA SteadyStep ==
    ASSUME Typed, Steady, UNCHANGED <<nodeMeta, proc>>, NEW a \in Actor,
           \A b \in Actor \ {a} : call'[b] = call[b],
           call'[a].route # None => Current(call'[a].route),
           call'[a].pc \notin {"drop", "dropSrem"},
           \A u \in User : session'[u] # None => Current(session'[u]),
           \A n \in Node, u \in User : routeCache'[n][u] # None => Current(routeCache'[n][u]),
           \A n, k \in Node : metaCache'[n][k] \in {None, nodeMeta[k]}
    PROVE  Steady'
BY DEF Steady, ProcsSteady, MetaTrue, SessionsLive, RoutesLive, CallsLive, Current

LEMMA QueryNodeTrue ==
    ASSUME Typed, Steady, NEW a \in Actor, NEW k \in Node, NEW m \in Instance \union {None},
           QueryNode(a, k, m), nodeMeta[k] # None
    PROVE  m = nodeMeta[k] /\ \A n, j \in Node : metaCache'[n][j] \in {None, nodeMeta[j]}
<1>1. metaCache \in [Node -> [Node -> Instance \union {None}]] /\ HomeOf[a] \in Node
  BY DEF Typed, RegistryInv, RegistryTypeOK
<1>2. CASE UNCHANGED metaCache /\ metaCache[HomeOf[a]][k] # None /\ m = metaCache[HomeOf[a]][k]
  BY <1>1, <1>2 DEF Steady, MetaTrue
<1>3. CASE m = nodeMeta[k] /\ metaCache' = [metaCache EXCEPT ![HomeOf[a]][k] = m]
  BY <1>1, <1>3 DEF Steady, MetaTrue
<1> QED BY <1>2, <1>3 DEF QueryNode, GetNode

(* The pointwise effect of a registry call's step on the call *)
LEMMA GotoMoves ==
    ASSUME Typed, NEW a \in Actor, NEW l, Goto(a, l)
    PROVE  /\ \A b \in Actor \ {a} : call'[b] = call[b]
           /\ call'[a].pc = l /\ call'[a].user = call[a].user /\ call'[a].route = call[a].route
           /\ call'[a].fn = call[a].fn
<1>1. call \in [Actor -> Call] /\ call[a] \in Call
  BY DEF Typed, RegistryInv, CallPart
<1> QED BY <1>1 DEF Goto, Call

(* What a thread in a call has, and where it is *)
LEMMA CallFacts ==
    ASSUME Typed, NEW a \in Actor, ~At(a, "idle")
    PROVE  /\ HomeOf[a] \in Node /\ call[a].user \in User /\ Serving(HomeOf[a])
           /\ call[a].pc \in RoutePc => call[a].route \in Route
           /\ Self(HomeOf[a]) \in Route
<1>1. HomeOf[a] \in Node /\ call[a].user \in User /\ Serving(HomeOf[a])
      /\ (call[a].pc \in RoutePc => call[a].route \in Route)
  BY DEF Typed, RegistryInv, CallPart, CallOK
<1>2. proc[HomeOf[a]].inst \in Instance
  BY <1>1 DEF Typed, RegistryInv, CallPart, ProcOK, Serving, Process
<1> QED BY <1>1, <1>2 DEF Self, Route

LEMMA RegistryStepSteady == ASSUME Typed, Steady, NEW a \in Actor, RegistryStep(a) PROVE Steady'
<1> DEFINE n == HomeOf[a]
           u == call[a].user
<1>1. ~At(a, "idle") /\ proc' = proc
  BY RegistryStepOK DEF Typed
<1>2. n \in Node /\ u \in User /\ Serving(n) /\ (call[a].pc \in RoutePc => call[a].route \in Route)
  BY <1>1, CallFacts
<1>3. /\ session \in [User -> Route \union {None}]
      /\ routeCache \in [Node -> [User -> Route \union {None}]]
      /\ \A v \in User : session[v] # None => Current(session[v])
      /\ \A k \in Node, v \in User : routeCache[k][v] # None => Current(routeCache[k][v])
      /\ \A k, j \in Node : metaCache[k][j] \in {None, nodeMeta[j]}
      /\ call[a].route # None => Current(call[a].route)
      /\ call[a].pc \notin {"drop", "dropSrem"}
  BY DEF Typed, RegistryInv, RegistryTypeOK, RedisTypeOK, Steady, MetaTrue, SessionsLive, RoutesLive, CallsLive
<1>13. call \in [Actor -> Call] /\ call[a] \in Call
  BY DEF Typed, RegistryInv, CallPart
<1>4. CASE ResolveFast(a) \/ QueryCache(a) \/ GetSession(a)
  <2>1. UNCHANGED <<redisVars, routeCache, metaCache>>
    BY <1>4 DEF ResolveFast, QueryCache, GetSession
  <2>2. /\ \A b \in Actor \ {a} : call'[b] = call[b]
        /\ call'[a].route # None => Current(call'[a].route)
        /\ call'[a].pc \notin {"drop", "dropSrem"}
    <3>1. ASSUME NEW l \in {"query", "get", "missing"}, Goto(a, l)
          PROVE  /\ \A b \in Actor \ {a} : call'[b] = call[b]
                 /\ call'[a].route # None => Current(call'[a].route)
                 /\ call'[a].pc \notin {"drop", "dropSrem"}
      BY <1>3, <3>1, GotoMoves
    <3>2. ASSUME NEW l \in {"found", "check", "fill"}, NEW r \in {routeCache[n][u], session[u]}, r # None,
                 call' = [call EXCEPT ![a].pc = l, ![a].route = r]
          PROVE  /\ \A b \in Actor \ {a} : call'[b] = call[b]
                 /\ call'[a].route # None => Current(call'[a].route)
                 /\ call'[a].pc \notin {"drop", "dropSrem"}
      <4>1. Current(r)
        BY <1>2, <1>3, <3>2
      <4>2. /\ \A b \in Actor \ {a} : call'[b] = call[b]
            /\ call'[a].route = r /\ call'[a].pc = l
        BY <1>13, <3>2 DEF Call
      <4> QED BY <4>1, <4>2
    <3>3. CASE ResolveFast(a)
      BY <3>1, <3>2, <3>3 DEF ResolveFast
    <3>4. CASE QueryCache(a)
      BY <3>1, <3>2, <3>4 DEF QueryCache
    <3>5. CASE GetSession(a)
      BY <3>1, <3>2, <3>5 DEF GetSession
    <3> QED BY <1>4, <3>3, <3>4, <3>5
  <2> QED BY <1>1, <1>3, <2>1, <2>2, SteadyStep DEF redisVars
<1>5. CASE FillRoute(a) \/ BindFill(a)
  <2>1. PICK l \in {"check", "bound"} : Goto(a, l)
    BY <1>5 DEF FillRoute, BindFill
  <2>2. UNCHANGED <<redisVars, metaCache>> /\ call[a].route \in Route
        /\ routeCache' = [routeCache EXCEPT ![n][u] = call[a].route]
    BY <1>2, <1>5 DEF FillRoute, BindFill, At, RoutePc
  <2>3. \A k \in Node, v \in User : routeCache'[k][v] \in {routeCache[k][v], call[a].route}
    BY <1>3, <2>2
  <2>4. \A k \in Node, v \in User : routeCache'[k][v] # None => Current(routeCache'[k][v])
    BY <1>3, <2>3
  <2> QED BY <1>1, <1>3, <2>1, <2>2, <2>4, GotoMoves, SteadyStep DEF redisVars
<1>6. CASE CheckNode(a) \/ ResolveNode(a)
  <2>1. call[a].route \in Route /\ UNCHANGED <<redisVars, routeCache>>
    BY <1>2, <1>6 DEF CheckNode, ResolveNode, At, RoutePc
  <2>2. call[a].route.node \in Node /\ nodeMeta[call[a].route.node] = call[a].route.inst
        /\ call[a].route.inst \in Instance
    BY <1>3, <2>1 DEF Current, Route
  <2>3. PICK m \in Instance \union {None} :
          /\ QueryNode(a, call[a].route.node, m)
          /\ \/ Goto(a, IF ~SessionValid(call[a].route, m) THEN "drop"
                        ELSE IF call[a].fn = "resolve" THEN "node" ELSE "found")
             \/ Goto(a, IF m = None THEN "missing" ELSE "found")
    BY <1>6 DEF CheckNode, ResolveNode
  <2>4. m = nodeMeta[call[a].route.node] /\ \A k, j \in Node : metaCache'[k][j] \in {None, nodeMeta[j]}
    BY <2>2, <2>3, QueryNodeTrue
  <2>5. SessionValid(call[a].route, m)
    BY <2>2, <2>4 DEF SessionValid
  <2>6. PICK l \in {"node", "found", "missing"} : Goto(a, l)
    BY <2>3, <2>5
  <2> QED BY <1>1, <1>3, <2>1, <2>4, <2>6, GotoMoves, SteadyStep DEF redisVars
<1>7. CASE BindSet(a)
  <2>1. Current(Self(n)) /\ UNCHANGED <<nodeMeta, routeCache, metaCache>>
    BY <1>2, <1>7 DEF Steady, ProcsSteady, Current, Self, Serving, BindSet, SetSessionNX, redisVars
  <2>2. CASE SetSessionNX(u, Self(n)) /\ call' = [call EXCEPT ![a].pc = "bindSadd", ![a].route = Self(n)]
    <3>1. \A v \in User : session'[v] \in {session[v], Self(n)}
      BY <1>3, <2>2 DEF SetSessionNX
    <3>2. \A v \in User : session'[v] # None => Current(session'[v])
      BY <1>3, <2>1, <3>1
    <3>3. /\ \A b \in Actor \ {a} : call'[b] = call[b]
          /\ call'[a].route = Self(n) /\ call'[a].pc = "bindSadd"
      BY <1>13, <2>2 DEF Call
    <3>4. Current(call'[a].route)
      BY <2>1, <3>3
    <3> QED BY <1>1, <1>3, <2>1, <3>2, <3>3, <3>4, SteadyStep
  <2>3. CASE UNCHANGED redisVars /\ Goto(a, "refused")
    BY <1>1, <1>3, <2>1, <2>3, GotoMoves, SteadyStep DEF redisVars
  <2> QED BY <1>7, <2>2, <2>3 DEF BindSet
<1>8. CASE BindSadd(a)
  BY <1>1, <1>3, <1>8, GotoMoves, SteadyStep DEF BindSadd, AddNodeUser
<1>9. CASE UnbindErase(a)
  <2>1. \A k \in Node, v \in User : routeCache'[k][v] \in {routeCache[k][v], None}
    BY <1>3, <1>9 DEF UnbindErase
  <2> QED BY <1>1, <1>3, <1>9, <2>1, GotoMoves, SteadyStep DEF UnbindErase, redisVars
<1>10. CASE UnbindDel(a)
  <2>1. \A v \in User : session'[v] \in {session[v], None}
    BY <1>3, <1>10 DEF UnbindDel, DelSession
  <2> QED BY <1>1, <1>3, <1>10, <2>1, GotoMoves, SteadyStep DEF UnbindDel, DelSession
<1>11. CASE UnbindSrem(a)
  BY <1>1, <1>3, <1>11, GotoMoves, SteadyStep DEF UnbindSrem, RemNodeUser
<1>12. ~DropDel(a) /\ ~DropSrem(a)
  BY <1>3 DEF DropDel, DropSrem, At
<1> QED BY <1>4, <1>5, <1>6, <1>7, <1>8, <1>9, <1>10, <1>11, <1>12 DEF RegistryStep

(* A handler's own steps leave the registry alone, and give its thread no route *)
CallQuiet(a) ==
    /\ \A b \in Actor \ {a} : call'[b] = call[b]
    /\ call'[a].route \in {None, call[a].route}
    /\ call'[a].pc \notin {"drop", "dropSrem"}

LEMMA ServiceQuiet ==
    ASSUME Typed, Steady, NEW a \in Actor, (a \in Conn /\ ConnNext(a)) \/ (a \in Worker /\ WorkerNext(a))
    PROVE  UNCHANGED <<redisVars, routeCache, metaCache, proc>> /\ CallQuiet(a)
<1>1. call \in [Actor -> Call] /\ call[a] \in Call
  BY DEF Typed, RegistryInv, CallPart
<1>2. ASSUME UNCHANGED call PROVE CallQuiet(a)
  BY <1>2 DEF CallQuiet, Steady, CallsLive
<1>3. ASSUME Return(a) PROVE CallQuiet(a)
  BY <1>1, <1>3 DEF Return, NoCall, CallQuiet
<1>4. ASSUME NEW fn \in {"resolve", "query", "bind", "unbind"}, NEW u, Enter(a, fn, u) PROVE CallQuiet(a)
  BY <1>1, <1>4 DEF Enter, CallQuiet
<1>5. ASSUME NEW l \in ServicePc, Goto(a, l) PROVE CallQuiet(a)
  BY <1>5, GotoMoves DEF CallQuiet, ServicePc
<1>6. CASE a \in Conn /\ ConnNext(a)
  <2>1. UNCHANGED <<redisVars, routeCache, metaCache, proc>>
    BY <1>6 DEF ConnNext, LoginStep, Connect, Login, LoginReject, LoginReset, LoginAdd, LoginUndo,
       LoginOnline, LoginOfflineQuery, LoginOfflineRemove, LoginAck, Logout, Close, LeaveState, registryVars
  <2>2. CASE Connect(a) \/ LoginReset(a)
    BY <1>2, <2>2 DEF Connect, LoginReset, registryVars
  <2>3. CASE Logout(a) \/ Close(a)
    BY <1>2, <1>4, <2>3 DEF Logout, Close, Leave
  <2>4. CASE LeaveState(a) \/ LoginReject(a) \/ LoginUndo(a) \/ LoginAck(a)
    BY <1>3, <2>4 DEF LeaveState, LoginReject, LoginUndo, LoginAck
  <2>5. CASE LoginAdd(a) \/ \E u \in User, kind \in {"login", "loginBadPwd"} : Login(a, u, kind)
    BY <1>4, <2>5 DEF LoginAdd, Login
  <2>6. CASE LoginOnline(a) \/ LoginOfflineQuery(a) \/ LoginOfflineRemove(a)
    BY <1>5, <2>6 DEF LoginOnline, LoginOfflineQuery, LoginOfflineRemove, ServicePc
  <2> QED BY <1>6, <2>1, <2>2, <2>3, <2>4, <2>5, <2>6 DEF ConnNext, LoginStep
<1>7. CASE a \in Worker /\ WorkerNext(a)
  <2>1. UNCHANGED <<redisVars, routeCache, metaCache, proc>>
    BY <1>7 DEF WorkerNext, WorkerStep, ChatStale, ChatSend, ChatSendFail, FrameStale, OfflineStore, Chat, Frame
  <2>2. CASE ChatStale(a) \/ FrameStale(a) \/ \E m \in Msg : Chat(a, m) \/ Frame(a, m)
    BY <1>2, <1>4, <2>2 DEF ChatStale, FrameStale, Chat, Frame
  <2>3. CASE ChatSend(a) \/ OfflineStore(a)
    BY <1>3, <2>3 DEF ChatSend, OfflineStore
  <2>4. CASE ChatSendFail(a)
    BY <1>5, <2>4 DEF ChatSendFail, ServicePc
  <2> QED BY <1>7, <2>1, <2>2, <2>3, <2>4 DEF WorkerNext, WorkerStep
<1> QED BY <1>6, <1>7

(* The steps of a node that neither dies nor is told to stop: what was in Redis about it stays *)
LEMMA MetaGrows ==
    ASSUME Typed, Steady, NEW n \in Node,
           Boot(n) \/ BootWarm(n) \/ HeartbeatWake(n) \/ HeartbeatRenew(n) \/ ExpireDeadNode(n)
    PROVE  /\ UNCHANGED <<session, nodeUsers, routeCache, call>>
           /\ \A k \in Node : nodeMeta[k] # None => nodeMeta'[k] = nodeMeta[k]
           /\ \A k, j \in Node : metaCache'[k][j] \in {metaCache[k][j], nodeMeta'[j]}
           /\ ProcsSteady'
<1>1. /\ proc \in [Node -> Process] /\ nodeMeta \in [Node -> Instance \union {None}]
      /\ metaCache \in [Node -> [Node -> Instance \union {None}]]
      /\ proc[n].hb # "off" => proc[n].ctl # "down"
      /\ \A k \in Node : /\ proc[k].ctl \in {"down", "warm", "up"} /\ proc[k].cur = None
                         /\ nodeMeta[k] = IF proc[k].ctl = "down" THEN None ELSE proc[k].inst
  BY DEF Typed, RegistryInv, RegistryTypeOK, RedisTypeOK, CallPart, ProcOK, Steady, ProcsSteady
<1>2. CASE Boot(n)
  <2>1. nodeMeta[n] = None
    BY <1>1, <1>2 DEF Boot
  <2> QED BY <1>1, <1>2, <2>1 DEF Boot, RegisterNode, NoProcess, ProcsSteady, Process
<1>3. CASE BootWarm(n)
  <2>1. ProcsSteady'
    BY <1>1, <1>3 DEF BootWarm, redisVars, ProcsSteady, Process
  <2> QED BY <1>1, <1>3, <2>1 DEF BootWarm, redisVars
<1>4. CASE HeartbeatWake(n)
  BY <1>1, <1>4 DEF HeartbeatWake, redisVars, ProcsSteady, Process
<1>5. CASE HeartbeatRenew(n)
  <2>1. nodeMeta[n] = proc[n].inst
    BY <1>1, <1>5 DEF HeartbeatRenew
  <2> QED BY <1>1, <1>5, <2>1 DEF HeartbeatRenew, RegisterNode, ProcsSteady, Process
<1>6. ~ExpireDeadNode(n)
  BY <1>1 DEF ExpireDeadNode, ExpireNodeMeta
<1> QED BY <1>2, <1>3, <1>4, <1>5, <1>6

(* Steady nodes have nothing of a shutdown under way *)
LEMMA NoDeath ==
    ASSUME Steady, CrashNodes = {}, ResetNodes = {}, NEW n \in Node
    PROVE  ~ResetStep(n) /\ ~Crash(n)
BY DEF Steady, ProcsSteady, ResetStep, ResetBegin, ResetStop, ResetJoin, ResetDel, ResetSrem,
       ResetUnregister, ResetClear, ResetState, ResetExit, Crash

LEMMA NextSteady ==
    ASSUME Typed, Steady, CrashNodes = {}, ResetNodes = {}, [Next]_vars
    PROVE  Steady'
<1>1. CASE UNCHANGED vars
  BY <1>1 DEF vars, registryVars, redisVars, Steady, ProcsSteady, MetaTrue, SessionsLive, RoutesLive,
              CallsLive, Current
<1>2. ASSUME NEW a \in Actor, (a \in Conn /\ ConnNext(a)) \/ (a \in Worker /\ WorkerNext(a)) PROVE Steady'
  <2>1. UNCHANGED <<redisVars, routeCache, metaCache, proc>> /\ CallQuiet(a)
    BY <1>2, ServiceQuiet
  <2>2. /\ \A u \in User : session[u] # None => Current(session[u])
        /\ \A n \in Node, u \in User : routeCache[n][u] # None => Current(routeCache[n][u])
        /\ \A n, k \in Node : metaCache[n][k] \in {None, nodeMeta[k]}
        /\ call[a].route # None => Current(call[a].route)
    BY DEF Steady, MetaTrue, SessionsLive, RoutesLive, CallsLive
  <2> QED BY <2>1, <2>2, SteadyStep DEF CallQuiet, redisVars
<1>3. ASSUME NEW n \in Node,
             Boot(n) \/ BootWarm(n) \/ HeartbeatWake(n) \/ HeartbeatRenew(n) \/ ExpireDeadNode(n)
      PROVE  Steady'
  <2>1. /\ UNCHANGED <<session, nodeUsers, routeCache, call>>
        /\ \A k \in Node : nodeMeta[k] # None => nodeMeta'[k] = nodeMeta[k]
        /\ \A k, j \in Node : metaCache'[k][j] \in {metaCache[k][j], nodeMeta'[j]}
        /\ ProcsSteady'
    BY <1>3, MetaGrows
  <2>2. ASSUME NEW r \in Route, Current(r) PROVE Current(r)'
    <3>1. r.node \in Node /\ r.inst \in Instance
      BY DEF Route
    <3> QED BY <2>1, <2>2, <3>1 DEF Current
  <2>3. /\ \A u \in User : session[u] # None => session[u] \in Route
        /\ \A k \in Node, u \in User : routeCache[k][u] # None => routeCache[k][u] \in Route
        /\ \A a \in Actor : call[a].route # None => call[a].route \in Route
    BY DEF Typed, RegistryInv, RegistryTypeOK, RedisTypeOK, Call
  <2>4. MetaTrue'
    BY <2>1 DEF Steady, MetaTrue
  <2>5. SessionsLive' /\ RoutesLive' /\ CallsLive'
    BY <2>1, <2>2, <2>3 DEF Steady, SessionsLive, RoutesLive, CallsLive
  <2> QED BY <2>1, <2>4, <2>5 DEF Steady
<1>4. ASSUME NEW n \in Node, NEW u \in User, ExpireRoute(n, u) PROVE Steady'
  <2>1. \A k \in Node, v \in User : routeCache'[k][v] \in {routeCache[k][v], None}
    BY <1>4 DEF Typed, RegistryInv, RegistryTypeOK, ExpireRoute
  <2> QED BY <1>4, <2>1 DEF ExpireRoute, redisVars, Steady, ProcsSteady, MetaTrue, SessionsLive, RoutesLive,
                            CallsLive, Current
<1>5. ASSUME NEW n \in Node, NEW k \in Node, ExpireMeta(n, k) PROVE Steady'
  <2>1. \A i, j \in Node : metaCache'[i][j] \in {metaCache[i][j], None}
    BY <1>5 DEF Typed, RegistryInv, RegistryTypeOK, ExpireMeta
  <2> QED BY <1>5, <2>1 DEF ExpireMeta, redisVars, Steady, ProcsSteady, MetaTrue, SessionsLive, RoutesLive,
                            CallsLive, Current
<1>6. ASSUME NEW n \in Node PROVE ~ResetStep(n) /\ ~Crash(n)
  BY NoDeath
<1>7. CASE RegistryNext
  BY <1>3, <1>4, <1>5, <1>7, RegistryStepSteady DEF RegistryNext
<1> QED BY <1>1, <1>2, <1>6, <1>7 DEF Next

-----------------------------------------------------------------------------
(* Who owns a user's session: a logged in client, a login past its SET NX, and a    *)
(* departure that has not issued its DEL yet.  SessionHeldWhileLoggedIn alone is not  *)
(* inductive: the login that is about to answer errno 0, and the departure that is      *)
(* about to delete, must own the session as well.                                 *)
HoldPc == {"bindSadd", "bindFill", "bound", "offlineQuery", "offlineRemove", "ack"}
Owner(c, u) ==
    \/ loggedIn[c] = u
    \/ Kind(c) = "login" /\ call[c].pc \in HoldPc /\ call[c].user = u
    \/ Kind(c) = "leave" /\ call[c].pc \in {"unbind", "del"} /\ call[c].user = u

Owned(c, u) ==
    /\ session[u] = Self(HomeOf[c]) /\ Serving(HomeOf[c])
    /\ \A d \in Conn \ {c} : ~Owner(d, u)

HeldInv ==
    /\ \A a \in Actor \ Conn : At(a, "idle")
    /\ \A c \in Conn : /\ call[c].pc \in {"unbind", "del"} => Kind(c) = "leave"
                       /\ call[c].pc \in BindPc => Kind(c) = "login"
                       /\ Kind(c) = "leave" => loggedIn[c] = None
    /\ \A c \in Conn, u \in User : Owner(c, u) => Owned(c, u)

SessionInv == TableInv /\ Steady /\ HeldInv

(* Nobody but c moves, and c owns nothing it did not own *)
LEMMA HeldStep ==
    ASSUME HeldInv, Conn \subseteq Actor, NEW c \in Conn, OnlyMoves(c), UNCHANGED <<session, proc>>,
           \A d \in Conn \ {c} : loggedIn'[d] = loggedIn[d],
           \A u \in User : Owner(c, u)' => Owner(c, u),
           call'[c].pc \in {"unbind", "del"} => job'[c].kind = "leave",
           call'[c].pc \in BindPc => job'[c].kind = "login",
           job'[c].kind = "leave" => loggedIn'[c] = None
    PROVE  HeldInv'
<1>1. ASSUME NEW d \in Conn \ {c}, NEW u \in User PROVE Owner(d, u)' = Owner(d, u)
  BY DEF OnlyMoves, Owner, Kind
<1>2. ASSUME NEW d \in Conn, NEW u \in User, Owner(d, u)' PROVE Owned(d, u)'
  <2>1. Owner(d, u) /\ Owned(d, u)
    BY <1>1, <1>2 DEF HeldInv
  <2>2. \A e \in Conn \ {d} : ~Owner(e, u)'
    BY <1>1, <2>1 DEF Owned
  <2> QED BY <2>1, <2>2 DEF Owned, Self, Serving
<1>3. \A a \in Actor \ Conn : At(a, "idle")'
  BY DEF OnlyMoves, HeldInv, At
<1>4. ASSUME NEW d \in Conn
      PROVE  /\ call'[d].pc \in {"unbind", "del"} => job'[d].kind = "leave"
             /\ call'[d].pc \in BindPc => job'[d].kind = "login"
             /\ job'[d].kind = "leave" => loggedIn'[d] = None
  BY DEF OnlyMoves, HeldInv, Kind
<1> QED BY <1>2, <1>3, <1>4 DEF HeldInv, Kind

LEMMA OwnedIsSession ==
    ASSUME Typed, NEW c \in Conn, NEW u \in User, Owned(c, u)
    PROVE  session[u] \in Route
<1>1. HomeOf[c] \in Node
  OBVIOUS
<1>2. proc[HomeOf[c]].inst \in Instance
  BY <1>1 DEF Typed, RegistryInv, CallPart, ProcOK, Serving, Process, Owned
<1> QED BY <1>1, <1>2 DEF Owned, Self, Route

LEMMA RegistryStepHeld == ASSUME SessionInv, NEW a \in Actor, RegistryStep(a), UNCHANGED serviceVars PROVE HeldInv'
<1>1. /\ Typed /\ Steady /\ HeldInv /\ Conn \subseteq Actor /\ proc' = proc
      /\ call \in [Actor -> Call] /\ session \in [User -> Route \union {None}]
      /\ ~At(a, "idle") /\ ~At(a, "drop") /\ ~At(a, "dropSrem")
  BY RegistryStepOK DEF SessionInv, TableInv, Typed, RegistryInv, RegistryTypeOK, RedisTypeOK, CallPart,
     Steady, CallsLive, At
<1>2. /\ a \in Conn /\ call[a].user \in User /\ Serving(HomeOf[a]) /\ Self(HomeOf[a]) \in Route
      /\ call[a].pc \in {"unbind", "del"} => Kind(a) = "leave"
      /\ call[a].pc \in BindPc => Kind(a) = "login"
      /\ Kind(a) = "leave" => loggedIn[a] = None
  BY <1>1, CallFacts DEF HeldInv
<1> DEFINE u == call[a].user
<1>3. ASSUME NEW l, Advances(a, l), UNCHANGED session, l # "unbind",
             l \in BindPc => call[a].pc \in BindPc,
             l \in HoldPc => call[a].pc \in HoldPc,
             l = "del" => call[a].pc = "unbind"
      PROVE  HeldInv'
  <2>1. OnlyMoves(a) /\ UNCHANGED <<loggedIn, job>>
    BY <1>3 DEF Advances, OnlyMoves, serviceVars
  <2>2. \A v \in User : Owner(a, v)' => Owner(a, v)
    BY <1>3, <2>1 DEF Advances, Owner, Kind
  <2>3. /\ call'[a].pc \in {"unbind", "del"} => job'[a].kind = "leave"
        /\ call'[a].pc \in BindPc => job'[a].kind = "login"
        /\ job'[a].kind = "leave" => loggedIn'[a] = None
    BY <1>2, <1>3, <2>1 DEF Advances, Kind
  <2> QED BY <1>1, <1>2, <1>3, <2>1, <2>2, <2>3, HeldStep
<1>4. CASE BindSet(a)
  <2>1. call[a].pc = "bind" /\ Kind(a) = "login"
    BY <1>2, <1>4 DEF BindSet, At, BindPc
  <2>2. CASE SetSessionNX(u, Self(HomeOf[a])) /\ call' = [call EXCEPT ![a].pc = "bindSadd", ![a].route = Self(HomeOf[a])]
    <3>1. Advances(a, "bindSadd")
      BY <1>1, <2>2, Advance
    <3>2. session[u] = None /\ session'[u] = Self(HomeOf[a])
          /\ \A v \in User \ {u} : session'[v] = session[v]
      BY <1>1, <1>2, <2>2 DEF SetSessionNX
    <3>3. \A d \in Conn : ~Owner(d, u)
      BY <1>1, <1>2, <3>2, OwnedIsSession DEF HeldInv, Owned
    <3>4. OnlyMoves(a) /\ UNCHANGED <<loggedIn, job>>
      BY <3>1 DEF Advances, OnlyMoves, serviceVars
    <3>5. ASSUME NEW d \in Conn, NEW v \in User, Owner(d, v)', d # a \/ v # u PROVE Owner(d, v) /\ v # u
      <4>1. CASE d = a
        BY <2>1, <3>1, <3>4, <3>5, <4>1 DEF Owner, Advances, Kind
      <4>2. CASE d # a
        BY <3>3, <3>4, <3>5, <4>2 DEF Owner, OnlyMoves, Kind
      <4> QED BY <4>1, <4>2
    <3>6. ASSUME NEW d \in Conn, NEW v \in User, Owner(d, v)' PROVE Owned(d, v)'
      <4>1. CASE d = a /\ v = u
        BY <1>1, <1>2, <3>2, <3>5, <4>1 DEF Owned, Self, Serving
      <4>2. CASE ~(d = a /\ v = u)
        <5>1. Owner(d, v) /\ v # u /\ Owned(d, v)
          BY <1>1, <3>5, <3>6, <4>2 DEF HeldInv
        <5> QED BY <1>1, <3>2, <3>5, <5>1 DEF Owned, Self, Serving
      <4> QED BY <4>1, <4>2
    <3> QED BY <1>1, <2>1, <3>1, <3>4, <3>6 DEF HeldInv, OnlyMoves, Advances, Kind, At
  <2>3. CASE UNCHANGED redisVars /\ Goto(a, "refused")
    <3>1. Advances(a, "refused")
      BY <1>1, <2>3, Advance
    <3> QED BY <1>3, <2>1, <2>3, <3>1 DEF redisVars, BindPc, HoldPc
  <2> QED BY <1>4, <2>2, <2>3 DEF BindSet
<1>5. CASE UnbindDel(a)
  <2>1. Advances(a, "srem") /\ call[a].pc = "del" /\ Kind(a) = "leave"
    BY <1>1, <1>2, <1>5, Advance DEF UnbindDel, At
  <2>2. OnlyMoves(a) /\ UNCHANGED <<loggedIn, job>>
    BY <2>1 DEF Advances, OnlyMoves, serviceVars
  <2>3. \A d \in Conn \ {a} : ~Owner(d, u)
    BY <1>1, <1>2, <2>1 DEF HeldInv, Owner, Owned
  <2>4. \A v \in User \ {u} : session'[v] = session[v]
    BY <1>1, <1>5 DEF UnbindDel, DelSession
  <2>5. ASSUME NEW d \in Conn, NEW v \in User, Owner(d, v)' PROVE Owner(d, v) /\ v # u
    <3>1. CASE d = a
      BY <1>2, <2>1, <2>2, <2>5, <3>1 DEF Owner, Advances, Kind, HoldPc
    <3>2. CASE d # a
      BY <2>2, <2>3, <2>5, <3>2 DEF Owner, OnlyMoves, Kind
    <3> QED BY <3>1, <3>2
  <2>6. ASSUME NEW d \in Conn, NEW v \in User, Owner(d, v)' PROVE Owned(d, v)'
    <3>1. Owner(d, v) /\ v # u /\ Owned(d, v)
      BY <1>1, <2>5, <2>6 DEF HeldInv
    <3> QED BY <1>1, <2>4, <2>5, <3>1 DEF Owned, Self, Serving
  <2> QED BY <1>1, <2>1, <2>2, <2>6 DEF HeldInv, OnlyMoves, Advances, Kind, At, BindPc
<1>6. CASE BindSadd(a)
  <2>1. Advances(a, "bindFill") /\ call[a].pc = "bindSadd" /\ UNCHANGED session
    BY <1>1, <1>6, Advance DEF BindSadd, AddNodeUser, At
  <2> QED BY <1>3, <2>1 DEF HoldPc, BindPc
<1>7. CASE BindFill(a)
  <2>1. Advances(a, "bound") /\ call[a].pc = "bindFill" /\ UNCHANGED session
    BY <1>1, <1>7, Advance DEF BindFill, At, redisVars
  <2> QED BY <1>3, <2>1 DEF HoldPc, BindPc
<1>8. CASE UnbindErase(a)
  <2>1. Advances(a, "del") /\ call[a].pc = "unbind" /\ UNCHANGED session
    BY <1>1, <1>8, Advance DEF UnbindErase, At, redisVars
  <2> QED BY <1>3, <2>1 DEF HoldPc, BindPc
<1>9. CASE ~(BindSet(a) \/ BindSadd(a) \/ BindFill(a) \/ UnbindErase(a) \/ UnbindDel(a))
  <2> DEFINE Away == {"query", "found", "get", "missing", "fill", "check", "node", "drop", "unbound"}
  <2>1. UNCHANGED session /\ \E l \in Away : \E q : Goto(a, l) \/ call' = [call EXCEPT ![a].pc = l, ![a].route = q]
    <3>1. CASE ResolveFast(a) \/ QueryCache(a) \/ GetSession(a) \/ FillRoute(a)
      BY <3>1, Zenon DEF ResolveFast, QueryCache, GetSession, FillRoute, redisVars
    <3>2. CASE CheckNode(a) \/ ResolveNode(a) \/ UnbindSrem(a)
      BY <3>2 DEF CheckNode, ResolveNode, UnbindSrem, RemNodeUser, redisVars
    <3>3. ~DropDel(a) /\ ~DropSrem(a)
      BY <1>1 DEF DropDel, DropSrem
    <3> QED BY <1>9, <3>1, <3>2, <3>3 DEF RegistryStep
  <2>2. PICK l \in Away : Advances(a, l)
    BY <1>1, <2>1, Advance
  <2> QED BY <1>3, <2>1, <2>2 DEF HoldPc, BindPc
<1> QED BY <1>4, <1>5, <1>6, <1>7, <1>8, <1>9

LEMMA ConnNextHeld == ASSUME SessionInv, NEW c \in Conn, ConnNext(c) PROVE HeldInv'
<1>1. /\ Typed /\ HeldInv /\ c \in Actor /\ Conn \subseteq Actor
      /\ call \in [Actor -> Call] /\ job \in [Actor -> Job] /\ call[c] \in Call /\ job[c] \in Job
      /\ loggedIn \in [Conn -> User \union {None}]
      /\ UNCHANGED <<session, proc>>
  <2>1. UNCHANGED <<redisVars, proc>>
    BY ServiceQuiet DEF SessionInv, TableInv
  <2> QED BY <2>1 DEF SessionInv, TableInv, Typed, RegistryInv, CallPart, ServiceTypeOK, redisVars
<1>2. /\ At(c, "idle") => Kind(c) = "none"
      /\ call[c].pc \in AckPc => Kind(c) = "login"
      /\ IsLogin(c) => loggedIn[c] = None
      /\ Kind(c) = "leave" => loggedIn[c] = None
  BY <1>1 DEF SessionInv, TableInv, HandlerInv, HeldInv
<1>3. ASSUME Return(c), UNCHANGED loggedIn PROVE HeldInv'
  <2>1. OnlyMoves(c) /\ call'[c] = NoCall /\ job'[c] = NoJob
    BY <1>1, <1>3, ReturnMoves
  <2> QED BY <1>1, <1>3, <2>1, HeldStep DEF NoCall, NoJob, Owner, Kind, BindPc, HoldPc
<1>4. ASSUME NEW fn \in {"query", "bind", "unbind"}, NEW u, NEW v \in User, Enter(c, fn, u),
             \A b \in Actor \ {c} : job'[b] = job[b],
             \A d \in Conn \ {c} : loggedIn'[d] = loggedIn[d],
             loggedIn'[c] = None,
             IF fn = "unbind" THEN job'[c].kind = "leave" /\ u = v /\ loggedIn[c] = v
             ELSE job'[c].kind # "leave",
             fn = "bind" => job'[c].kind = "login"
      PROVE  HeldInv'
  <2>1. OnlyMoves(c) /\ call'[c].pc = fn /\ call'[c].user = u
    BY <1>1, <1>4, EnterMoves DEF OnlyMoves
  <2>2. \A w \in User : Owner(c, w)' => Owner(c, w)
    BY <1>1, <1>4, <2>1 DEF Owner, Kind, HoldPc
  <2> QED BY <1>1, <1>4, <2>1, <2>2, HeldStep DEF BindPc
<1>5. CASE Connect(c)
  BY <1>1, <1>5 DEF Connect, registryVars, HeldInv, Owner, Owned, Self, Serving, Kind, At
<1>6. CASE LoginReject(c) \/ LoginUndo(c) \/ LeaveState(c)
  BY <1>3, <1>6 DEF LoginReject, LoginUndo, LeaveState
<1>7. CASE LoginReset(c)
  <2>1. call' = call /\ job' = [job EXCEPT ![c].seen = "offline"] /\ UNCHANGED loggedIn
    BY <1>7 DEF LoginReset, registryVars
  <2>2. OnlyMoves(c) /\ job'[c].kind = job[c].kind
    BY <1>1, <2>1 DEF OnlyMoves, Job
  <2>3. \A w \in User : Owner(c, w)' => Owner(c, w)
    BY <2>1, <2>2 DEF Owner, Kind
  <2> QED BY <1>1, <2>1, <2>2, <2>3, HeldStep DEF HeldInv, Kind
<1>8. ASSUME NEW u \in User, NEW kind \in {"login", "loginBadPwd"}, Login(c, u, kind) PROVE HeldInv'
  <2>1. Enter(c, "query", u) /\ loggedIn[c] = None /\ UNCHANGED loggedIn
        /\ job' = [job EXCEPT ![c] = [kind |-> kind, seen |-> userState[u], hand |-> {}]]
    BY <1>8 DEF Login
  <2>2. job'[c].kind = kind /\ \A b \in Actor \ {c} : job'[b] = job[b]
    BY <1>1, <2>1
  <2> QED BY <1>4, <2>1, <2>2
<1>9. CASE LoginAdd(c)
  <2>1. Enter(c, "bind", call[c].user) /\ UNCHANGED <<loggedIn, job>> /\ Kind(c) = "login" /\ ~At(c, "idle")
    BY <1>9 DEF LoginAdd, At
  <2>2. call[c].user \in User
    BY <1>1, <2>1, CallFacts
  <2> QED BY <1>2, <1>4, <2>1, <2>2 DEF Kind, IsLogin
<1>10. CASE LoginOnline(c) \/ LoginOfflineQuery(c) \/ LoginOfflineRemove(c)
  <2>1. PICK l \in AckPc : Goto(c, l)
    BY <1>10 DEF LoginOnline, LoginOfflineQuery, LoginOfflineRemove, AckPc
  <2>2. Advances(c, l) /\ Kind(c) = "login" /\ call[c].pc \in HoldPc /\ UNCHANGED loggedIn
    BY <1>1, <1>2, <1>10, <2>1, Advance DEF LoginOnline, LoginOfflineQuery, LoginOfflineRemove, At, HoldPc, AckPc
  <2>3. OnlyMoves(c) /\ job'[c].kind = job[c].kind
    <3>1. CASE UNCHANGED job
      BY <2>2, <3>1 DEF OnlyMoves, Advances
    <3>2. CASE job' = [job EXCEPT ![c].hand = offline[call[c].user]]
      BY <1>1, <2>2, <3>2 DEF OnlyMoves, Advances, Job
    <3> QED BY <1>10, <3>1, <3>2 DEF LoginOnline, LoginOfflineQuery, LoginOfflineRemove
  <2>4. \A w \in User : Owner(c, w)' => Owner(c, w)
    BY <2>2, <2>3 DEF Owner, Advances, Kind
  <2> QED BY <1>1, <2>2, <2>3, <2>4, HeldStep DEF Advances, AckPc, BindPc, Kind
<1>11. CASE LoginAck(c)
  <2>1. OnlyMoves(c) /\ call'[c] = NoCall /\ job'[c] = NoJob
    BY <1>1, <1>11, ReturnMoves DEF LoginAck
  <2>2. loggedIn' = [loggedIn EXCEPT ![c] = call[c].user] /\ call[c].pc = "ack" /\ Kind(c) = "login"
    BY <1>2, <1>11 DEF LoginAck, At, AckPc
  <2>3. \A w \in User : Owner(c, w)' => Owner(c, w)
    BY <1>1, <2>1, <2>2 DEF Owner, Kind, HoldPc, NoJob
  <2> QED BY <1>1, <2>1, <2>2, <2>3, HeldStep DEF NoCall, NoJob, BindPc
(* A departure's user is the one its client was logged in as *)
<1>12. ASSUME Idle(c), NEW u \in User, Leave(c, u), loggedIn[c] = u,
              loggedIn' = [loggedIn EXCEPT ![c] = None]
       PROVE  HeldInv'
  <2>1. Enter(c, "unbind", u) /\ job' = [job EXCEPT ![c].kind = "leave"]
    BY <1>12 DEF Leave
  <2>2. job'[c].kind = "leave" /\ \A b \in Actor \ {c} : job'[b] = job[b]
    BY <1>1, <2>1 DEF Job
  <2>3. loggedIn'[c] = None /\ \A d \in Conn \ {c} : loggedIn'[d] = loggedIn[d]
    BY <1>1, <1>12
  <2> QED BY <1>4, <1>12, <2>1, <2>2, <2>3
<1>13. CASE Logout(c)
  <2>1. loggedIn[c] \in User
    BY <1>1, <1>13 DEF Logout
  <2> QED BY <1>12, <1>13, <2>1 DEF Logout
<1>14. CASE Close(c)
  <2> DEFINE held == {u \in User : userConnMap[HomeOf[c]][u] = c}
  <2>1. Idle(c) /\ loggedIn' = [loggedIn EXCEPT ![c] = None]
    BY <1>14 DEF Close
  <2>2. \A u \in held : loggedIn[c] = u
    <3>1. \A u \in User : ~InLogin(c, u)
      BY <2>1 DEF InLogin, Idle, At
    <3> QED BY <1>1, <3>1 DEF SessionInv, TableInv, TableTruthful
  <2>3. ASSUME NEW u \in held, Leave(c, u) PROVE HeldInv'
    BY <1>12, <2>1, <2>2, <2>3
  <2>4. ASSUME UNCHANGED <<job, call>> PROVE HeldInv'
    <3>1. OnlyMoves(c) /\ \A d \in Conn \ {c} : loggedIn'[d] = loggedIn[d]
      BY <1>1, <2>1, <2>4 DEF OnlyMoves
    <3>2. \A w \in User : Owner(c, w)' => Owner(c, w)
      BY <1>1, <2>1, <2>4 DEF Owner, Kind
    <3> QED BY <1>1, <2>1, <2>4, <3>1, <3>2, HeldStep DEF HeldInv, Kind
  <2> QED BY <1>14, <2>3, <2>4 DEF Close
<1> QED BY <1>5, <1>6, <1>7, <1>8, <1>9, <1>10, <1>11, <1>13, <1>14 DEF ConnNext, LoginStep

LEMMA NextHeld ==
    ASSUME SessionInv, [Next]_vars, CrashNodes = {}, ResetNodes = {}, Worker = {}
    PROVE  HeldInv'
<1>1. ASSUME UNCHANGED <<session, call, job, loggedIn>>,
             \A n \in Node : Serving(n) => Serving(n)' /\ proc'[n].inst = proc[n].inst
      PROVE  HeldInv'
  <2>1. \A c \in Conn : HomeOf[c] \in Node
    OBVIOUS
  <2>2. \A c \in Conn, u \in User : Owner(c, u)' = Owner(c, u)
    BY <1>1 DEF Owner, Kind
  <2>3. \A c \in Conn, u \in User : Owned(c, u) => Owned(c, u)'
    BY <1>1, <2>1, <2>2 DEF Owned, Self
  <2> QED BY <1>1, <2>2, <2>3 DEF SessionInv, HeldInv, Kind, At
<1>2. CASE UNCHANGED vars
  BY <1>1, <1>2 DEF vars, redisVars, registryVars, serviceVars, Serving
<1>3. CASE RegistryNext
  <2>1. ASSUME NEW n \in Node, Boot(n) \/ BootWarm(n) \/ HeartbeatWake(n) \/ HeartbeatRenew(n)
        PROVE  \A k \in Node : Serving(k) => Serving(k)' /\ proc'[k].inst = proc[k].inst
    BY <2>1 DEF SessionInv, TableInv, Typed, RegistryInv, CallPart, Process, Serving, Boot, BootWarm,
       HeartbeatWake, HeartbeatRenew
  <2>2. ASSUME NEW n \in Node,
               \/ Boot(n) \/ BootWarm(n) \/ HeartbeatWake(n) \/ HeartbeatRenew(n) \/ ExpireDeadNode(n)
               \/ \E u \in User : ExpireRoute(n, u)
               \/ \E k \in Node : ExpireMeta(n, k)
        PROVE  UNCHANGED <<session, call>>
    BY <2>2 DEF Boot, BootWarm, HeartbeatWake, HeartbeatRenew, ExpireDeadNode, ExpireRoute, ExpireMeta,
       RegisterNode, ExpireNodeMeta, redisVars, registryVars
  <2>3. ASSUME NEW n \in Node,
               ExpireDeadNode(n) \/ (\E u \in User : ExpireRoute(n, u)) \/ (\E k \in Node : ExpireMeta(n, k))
        PROVE  \A k \in Node : Serving(k) => Serving(k)' /\ proc'[k].inst = proc[k].inst
    BY <2>3 DEF ExpireDeadNode, ExpireRoute, ExpireMeta, registryVars, Serving
  <2>4. ASSUME NEW a \in Actor, RegistryStep(a) PROVE HeldInv'
    BY <1>3, <2>4, RegistryStepHeld DEF RegistryNext
  <2> QED BY <1>1, <1>3, <2>1, <2>2, <2>3, <2>4 DEF RegistryNext, serviceVars
<1>4. ASSUME NEW n \in Node PROVE ~ResetStep(n) /\ ~Crash(n)
  BY NoDeath DEF SessionInv
<1> QED BY <1>2, <1>3, <1>4, ConnNextHeld DEF Next

(* login: from errno 0 until it logs out or is lost, a client's node owns the      *)
(* user's session in Redis and no second client is logged in as that user.  It     *)
(* rests on queryUserNode never dropping a session that is good, so on nodes that   *)
(* neither crash nor shut down; and on no message handler unbinding a user whose    *)
(* login it does not see, so on no worker: FrameStale and ChatStale delete sessions  *)
(* that are held (run one_node_per_user shows what that does).                    *)
THEOREM SessionsAreHeld ==
    ASSUME CrashNodes = {}, ResetNodes = {}, Worker = {}
    PROVE  Spec => []SessionHeldWhileLoggedIn
<1>1. Init => SessionInv
  <2>1. Init => TableInv
    BY InitTyped DEF Init, RegistryInit, TableInv, HandlerInv, TableTruthful, At, Kind, IsLogin, NoCall, NoJob, AckPc
  <2>2. Init => Steady
    BY DEF Init, RegistryInit, RedisInit, NoProcess, NoCall, Steady, ProcsSteady, MetaTrue, SessionsLive,
       RoutesLive, CallsLive
  <2>3. Init => HeldInv
    BY DEF Init, RegistryInit, NoCall, NoJob, HeldInv, Owner, Kind, At, BindPc, HoldPc
  <2> QED BY <2>1, <2>2, <2>3 DEF SessionInv
<1>2. SessionInv /\ [Next]_vars => SessionInv'
  BY NextTyped, NextTable, NextSteady, NextHeld DEF SessionInv, TableInv
<1>3. SessionInv => SessionHeldWhileLoggedIn
  <2> SUFFICES ASSUME SessionInv, NEW c \in Conn, loggedIn[c] # None
               PROVE  /\ session[loggedIn[c]] = Self(HomeOf[c])
                      /\ \A d \in Conn \ {c} : loggedIn[d] # loggedIn[c]
    BY DEF SessionHeldWhileLoggedIn
  <2>1. loggedIn[c] \in User
    BY DEF SessionInv, TableInv, Typed, ServiceTypeOK
  <2> QED BY <2>1 DEF SessionInv, HeldInv, Owner, Owned
<1> QED BY <1>1, <1>2, <1>3, PTL DEF Spec

(* login 156-158: an online user belongs to one node only.  The run one_node_per_user  *)
(* refutes it; here is what it takes: without message handlers that unbind users, and    *)
(* without crashes and shutdowns, it is true of any number of logins and logouts.       *)
THEOREM OneNodeWithoutHandlers ==
    ASSUME CrashNodes = {}, ResetNodes = {}, Worker = {}
    PROVE  Spec => []OneNodePerUser
<1>1. SessionHeldWhileLoggedIn => OneNodePerUser
  BY DEF SessionHeldWhileLoggedIn, OneNodePerUser
<1> QED BY <1>1, SessionsAreHeld, PTL

-----------------------------------------------------------------------------
(* The functions that issue two commands hold command_mtx_ between them: one of      *)
(* them at a time per node.  When unbindUser is between its DEL and its SREM, the      *)
(* session is gone or belongs to another node, whose lists it will not touch.        *)
LockPc == {"dropSrem", "bindSadd", "srem"}

CoverInv ==
    /\ NodeUsersCoverSessions
    /\ \A a, b \in Actor :
          call[a].pc \in LockPc /\ call[b].pc \in LockPc /\ HomeOf[a] = HomeOf[b] => a = b
    /\ \A a \in Actor :
          At(a, "srem") /\ session[call[a].user] # None => session[call[a].user].node # HomeOf[a]

Others(a) == \A b \in Actor \ {a} : call'[b] = call[b]

LEMMA CoverStep ==
    ASSUME CoverInv, NEW a \in Actor, Others(a), UNCHANGED <<session, nodeUsers>>,
           call[a].pc \notin LockPc, call'[a].pc \notin LockPc
    PROVE  CoverInv'
<1>1. \A b \in Actor : call'[b].pc \in LockPc => b # a /\ call'[b] = call[b]
  BY DEF Others
<1>2. ASSUME NEW n, NEW u \in User, Binding(n, u) PROVE Binding(n, u)'
  <2>1. PICK b \in Actor : HomeOf[b] = n /\ call[b].user = u /\ At(b, "bindSadd")
    BY <1>2 DEF Binding
  <2>2. call'[b] = call[b]
    BY <2>1 DEF Others, At, LockPc
  <2> QED BY <2>1, <2>2 DEF Binding, At
<1>3. NodeUsersCoverSessions'
  BY <1>2 DEF CoverInv, NodeUsersCoverSessions
<1>4. \A b \in Actor : At(b, "srem")' => At(b, "srem") /\ call'[b] = call[b]
  BY <1>1 DEF At, LockPc
<1> QED BY <1>1, <1>3, <1>4 DEF CoverInv

LEMMA RegistryStepCover == ASSUME Typed, Steady, CoverInv, NEW a \in Actor, RegistryStep(a) PROVE CoverInv'
<1> DEFINE n == HomeOf[a]
           u == call[a].user
<1>1. /\ call \in [Actor -> Call] /\ session \in [User -> Route \union {None}]
      /\ nodeUsers \in [Node -> SUBSET User]
      /\ ~At(a, "idle") /\ ~At(a, "drop") /\ ~At(a, "dropSrem")
  BY RegistryStepOK DEF Typed, RegistryInv, RegistryTypeOK, RedisTypeOK, CallPart, Steady, CallsLive, At
<1>2. n \in Node /\ u \in User /\ Self(n) \in Route /\ Self(n).node = n
  BY <1>1, CallFacts DEF Self
<1>3. ASSUME CommandFree(n) PROVE \A b \in Actor : HomeOf[b] = n => call[b].pc \notin LockPc
  BY <1>3 DEF CommandFree, LockPc
<1>4. CASE BindSet(a)
  <2>1. call[a].pc = "bind" /\ CommandFree(n)
    BY <1>4 DEF BindSet, At
  <2>2. CASE SetSessionNX(u, Self(n)) /\ call' = [call EXCEPT ![a].pc = "bindSadd", ![a].route = Self(n)]
    <3>1. Advances(a, "bindSadd")
      BY <1>1, <2>2, Advance
    <3>2. session'[u] = Self(n) /\ nodeUsers' = nodeUsers
          /\ \A v \in User \ {u} : session'[v] = session[v]
      BY <1>1, <1>2, <2>2 DEF SetSessionNX
    <3>3. HomeOf[a] = n /\ call'[a].user = u /\ call'[a].pc = "bindSadd"
      BY <3>1 DEF Advances
    <3>4. ASSUME NEW v \in User, v # u, Binding(session[v].node, v) PROVE Binding(session[v].node, v)'
      <4>1. PICK b \in Actor : HomeOf[b] = session[v].node /\ call[b].user = v /\ At(b, "bindSadd")
        BY <3>4 DEF Binding
      <4>2. call'[b] = call[b]
        BY <2>1, <3>1, <4>1 DEF Advances, At
      <4> QED BY <3>2, <3>4, <4>1, <4>2 DEF Binding, At
    <3>5. NodeUsersCoverSessions'
      <4>1. ASSUME NEW v \in User, session'[v] # None
            PROVE  v \in nodeUsers'[session'[v].node] \/ Binding(session[v].node, v)'
        <5>1. CASE v = u
          BY <1>2, <3>2, <3>3, <5>1 DEF Binding, At
        <5>2. CASE v # u
          BY <3>2, <3>4, <4>1, <5>2 DEF CoverInv, NodeUsersCoverSessions
        <5> QED BY <5>1, <5>2
      <4> QED BY <4>1 DEF NodeUsersCoverSessions
    <3>6. ASSUME NEW b \in Actor, call'[b].pc \in LockPc PROVE b = a \/ (HomeOf[b] # n /\ call'[b] = call[b])
      BY <1>3, <2>1, <3>1, <3>6 DEF Advances
    <3>7. ASSUME NEW b \in Actor, At(b, "srem")', session'[call'[b].user] # None
          PROVE  session'[call'[b].user].node # HomeOf[b]
      <4>1. call'[b] = call[b] /\ HomeOf[b] # n /\ At(b, "srem")
        BY <3>1, <3>6, <3>7 DEF Advances, At, LockPc
      <4>2. call[b].user \in User
        BY <4>1, CallFacts DEF At
      <4> QED BY <1>2, <3>2, <3>7, <4>1, <4>2 DEF CoverInv
    <3> QED BY <3>5, <3>6, <3>7 DEF CoverInv
  <2>3. CASE UNCHANGED redisVars /\ Goto(a, "refused")
    <3>1. Advances(a, "refused")
      BY <1>1, <2>3, Advance
    <3>2. Others(a) /\ call[a].pc \notin LockPc /\ call'[a].pc \notin LockPc
      BY <2>1, <3>1 DEF Advances, Others, LockPc
    <3> QED BY <2>3, <3>2, CoverStep DEF redisVars
  <2> QED BY <1>4, <2>2, <2>3 DEF BindSet
<1>5. CASE BindSadd(a)
  <2>1. Advances(a, "bindFill") /\ call[a].pc = "bindSadd" /\ session' = session
        /\ nodeUsers' = [nodeUsers EXCEPT ![n] = @ \union {u}]
    BY <1>1, <1>5, Advance DEF BindSadd, AddNodeUser, At
  <2>2. ASSUME NEW k \in Node, NEW v \in User, Binding(k, v) PROVE v \in nodeUsers'[k] \/ Binding(k, v)'
    <3>1. PICK b \in Actor : HomeOf[b] = k /\ call[b].user = v /\ At(b, "bindSadd")
      BY <2>2 DEF Binding
    <3> QED BY <1>1, <2>1, <3>1 DEF Advances, Binding, At
  <2>3. \A v \in User : session[v] # None => session[v].node \in Node
    BY <1>1 DEF Route
  <2>4. NodeUsersCoverSessions'
    BY <1>1, <2>1, <2>2, <2>3 DEF CoverInv, NodeUsersCoverSessions
  <2> QED BY <2>1, <2>4 DEF CoverInv, Advances, At, LockPc
<1>6. CASE UnbindDel(a)
  <2>1. Advances(a, "srem") /\ call[a].pc = "del" /\ CommandFree(n) /\ nodeUsers' = nodeUsers
        /\ session' = [session EXCEPT ![u] = None]
    BY <1>1, <1>6, Advance DEF UnbindDel, DelSession, At
  <2>2. session'[u] = None /\ \A v \in User : session'[v] \in {session[v], None}
    BY <1>1, <1>2, <2>1
  <2>3. ASSUME NEW k, NEW v \in User, Binding(k, v) PROVE Binding(k, v)'
    BY <2>1, <2>3 DEF Advances, Binding, At
  <2>4. NodeUsersCoverSessions'
    BY <2>1, <2>2, <2>3 DEF CoverInv, NodeUsersCoverSessions
  <2>5. ASSUME NEW b \in Actor, call'[b].pc \in LockPc PROVE b = a \/ (HomeOf[b] # n /\ call'[b] = call[b])
    BY <1>3, <2>1, <2>5 DEF Advances
  <2>6. ASSUME NEW b \in Actor, At(b, "srem")', session'[call'[b].user] # None
        PROVE  session'[call'[b].user].node # HomeOf[b]
    <3>1. b # a
      <4>1. call'[a].user = u
        BY <2>1 DEF Advances
      <4> QED BY <2>2, <2>6, <4>1
    <3>2. call'[b] = call[b] /\ At(b, "srem")
      BY <2>1, <2>6, <3>1 DEF Advances, At
    <3>3. call[b].user \in User
      BY <3>2, CallFacts DEF At
    <3> QED BY <2>2, <2>6, <3>2, <3>3 DEF CoverInv
  <2> QED BY <2>4, <2>5, <2>6 DEF CoverInv
<1>7. CASE UnbindSrem(a)
  <2>1. Advances(a, "unbound") /\ call[a].pc = "srem" /\ session' = session
        /\ nodeUsers' = [nodeUsers EXCEPT ![n] = @ \ {u}]
    BY <1>1, <1>7, Advance DEF UnbindSrem, RemNodeUser, At
  <2>2. session[u] # None => session[u].node # n
    BY <2>1 DEF CoverInv, At
  <2>3. ASSUME NEW k, NEW v \in User, Binding(k, v) PROVE Binding(k, v)'
    BY <2>1, <2>3 DEF Advances, Binding, At
  <2>4. \A v \in User : session[v] # None => session[v].node \in Node
    BY <1>1 DEF Route
  <2>5. NodeUsersCoverSessions'
    BY <1>1, <2>1, <2>2, <2>3, <2>4 DEF CoverInv, NodeUsersCoverSessions
  <2> QED BY <2>1, <2>5 DEF CoverInv, Advances, At, LockPc
<1>8. CASE ~(BindSet(a) \/ BindSadd(a) \/ UnbindDel(a) \/ UnbindSrem(a))
  <2> DEFINE Free == {"query", "found", "get", "missing", "fill", "check", "node", "drop", "bound", "del"}
  <2>1. /\ UNCHANGED <<session, nodeUsers>> /\ call[a].pc \notin LockPc
        /\ \E l \in Free : \E q : Goto(a, l) \/ call' = [call EXCEPT ![a].pc = l, ![a].route = q]
    <3>1. CASE ResolveFast(a) \/ QueryCache(a) \/ GetSession(a) \/ FillRoute(a)
      BY <3>1, Zenon DEF ResolveFast, QueryCache, GetSession, FillRoute, redisVars, At, LockPc
    <3>2. CASE CheckNode(a) \/ ResolveNode(a) \/ BindFill(a) \/ UnbindErase(a)
      BY <3>2 DEF CheckNode, ResolveNode, BindFill, UnbindErase, redisVars, At, LockPc
    <3>3. ~DropDel(a) /\ ~DropSrem(a)
      BY <1>1 DEF DropDel, DropSrem
    <3> QED BY <1>8, <3>1, <3>2, <3>3 DEF RegistryStep
  <2>2. PICK l \in Free : Advances(a, l)
    BY <1>1, <2>1, Advance
  <2> QED BY <2>1, <2>2, CoverStep DEF Advances, Others, LockPc
<1> QED BY <1>4, <1>5, <1>6, <1>7, <1>8

(* The handlers' own steps run without the lock, and leave it as it is *)
LEMMA ServiceUnlocked ==
    ASSUME Typed, NEW a \in Actor, (a \in Conn /\ ConnNext(a)) \/ (a \in Worker /\ WorkerNext(a))
    PROVE  call' = call \/ {call[a].pc, call'[a].pc} \intersect LockPc = {}
<1>1. call \in [Actor -> Call] /\ call[a] \in Call
  BY DEF Typed, RegistryInv, CallPart
<1>2. ASSUME Return(a) PROVE call'[a].pc = "idle"
  BY <1>1, <1>2 DEF Return, NoCall
<1>3. ASSUME NEW fn \in {"resolve", "query", "bind", "unbind"}, NEW u, Enter(a, fn, u) PROVE call'[a].pc = fn
  BY <1>1, <1>3 DEF Enter
<1>4. ASSUME NEW l, Goto(a, l) PROVE call'[a].pc = l
  BY <1>1, <1>4 DEF Goto, Call
<1>5. CASE a \in Conn /\ ConnNext(a)
  <2>1. CASE Connect(a) \/ LoginReset(a)
    BY <2>1 DEF Connect, LoginReset, registryVars
  <2>2. CASE Logout(a) \/ Close(a)
    BY <1>3, <2>2 DEF Logout, Close, Leave, Idle, At, LockPc
  <2>3. CASE LeaveState(a) \/ LoginReject(a) \/ LoginUndo(a) \/ LoginAck(a)
    BY <1>2, <2>3 DEF LeaveState, LoginReject, LoginUndo, LoginAck, At, LockPc
  <2>4. CASE LoginAdd(a) \/ \E u \in User, kind \in {"login", "loginBadPwd"} : Login(a, u, kind)
    BY <1>3, <2>4 DEF LoginAdd, Login, Idle, At, LockPc
  <2>5. CASE LoginOnline(a) \/ LoginOfflineQuery(a) \/ LoginOfflineRemove(a)
    BY <1>4, <2>5 DEF LoginOnline, LoginOfflineQuery, LoginOfflineRemove, At, LockPc
  <2> QED BY <1>5, <2>1, <2>2, <2>3, <2>4, <2>5 DEF ConnNext, LoginStep
<1>6. CASE a \in Worker /\ WorkerNext(a)
  <2>1. CASE ChatStale(a) \/ FrameStale(a) \/ \E m \in Msg : Chat(a, m) \/ Frame(a, m)
    BY <1>3, <2>1 DEF ChatStale, FrameStale, Chat, Frame, Idle, At, LockPc
  <2>2. CASE ChatSend(a) \/ OfflineStore(a)
    BY <1>2, <2>2 DEF ChatSend, OfflineStore, StoreReady, At, LockPc
  <2>3. CASE ChatSendFail(a)
    BY <1>4, <2>3 DEF ChatSendFail, At, LockPc
  <2> QED BY <1>6, <2>1, <2>2, <2>3 DEF WorkerNext, WorkerStep
<1> QED BY <1>5, <1>6

LEMMA NextCover ==
    ASSUME Typed, Steady, CoverInv, CrashNodes = {}, ResetNodes = {}, [Next]_vars
    PROVE  CoverInv'
<1>1. ASSUME UNCHANGED <<session, nodeUsers, call>> PROVE CoverInv'
  BY <1>1 DEF CoverInv, NodeUsersCoverSessions, Binding, At
<1>2. CASE UNCHANGED vars
  BY <1>1, <1>2 DEF vars, redisVars, registryVars
<1>3. ASSUME NEW a \in Actor, (a \in Conn /\ ConnNext(a)) \/ (a \in Worker /\ WorkerNext(a)) PROVE CoverInv'
  <2>1. UNCHANGED <<session, nodeUsers>> /\ Others(a)
    BY <1>3, ServiceQuiet DEF CallQuiet, Others, redisVars
  <2>2. call' = call \/ {call[a].pc, call'[a].pc} \intersect LockPc = {}
    BY <1>3, ServiceUnlocked
  <2> QED BY <1>1, <2>1, <2>2, CoverStep
<1>4. ASSUME NEW n \in Node,
             \/ Boot(n) \/ BootWarm(n) \/ HeartbeatWake(n) \/ HeartbeatRenew(n) \/ ExpireDeadNode(n)
             \/ \E u \in User : ExpireRoute(n, u)
             \/ \E k \in Node : ExpireMeta(n, k)
      PROVE  UNCHANGED <<session, nodeUsers, call>>
  BY <1>4 DEF Boot, BootWarm, HeartbeatWake, HeartbeatRenew, ExpireDeadNode, ExpireRoute, ExpireMeta,
     RegisterNode, ExpireNodeMeta, redisVars, registryVars
<1>5. CASE RegistryNext
  BY <1>1, <1>4, <1>5, RegistryStepCover DEF RegistryNext
<1>6. ASSUME NEW n \in Node PROVE ~ResetStep(n) /\ ~Crash(n)
  BY NoDeath
<1> QED BY <1>2, <1>3, <1>5, <1>6 DEF Next

LEMMA SteadyReached == ASSUME CrashNodes = {}, ResetNodes = {} PROVE Spec => [](Typed /\ Steady)
<1>1. Init => Steady
  BY DEF Init, RegistryInit, RedisInit, NoProcess, NoCall, Steady, ProcsSteady, MetaTrue, SessionsLive,
     RoutesLive, CallsLive
<1> QED BY <1>1, InitTyped, NextTyped, NextSteady, PTL DEF Spec

(* cleanupSelf deletes the sessions it finds in chat:node-users, so every session    *)
(* must be listed there: bindUser writes both under command_mtx_, and unbindUser's     *)
(* two commands cannot straddle a new bind on their node.  True with any number of      *)
(* message handlers, as long as no node is taken for dead by another.               *)
THEOREM SessionsAreListed ==
    ASSUME CrashNodes = {}, ResetNodes = {}
    PROVE  Spec => []NodeUsersCoverSessions
<1>1. Init => CoverInv
  BY DEF Init, RegistryInit, RedisInit, NoCall, CoverInv, NodeUsersCoverSessions, At, LockPc
<1>2. Typed /\ Steady /\ CoverInv /\ [Next]_vars => CoverInv'
  BY NextCover
<1>3. CoverInv => NodeUsersCoverSessions
  BY DEF CoverInv
<1> QED BY <1>1, <1>2, <1>3, SteadyReached, PTL DEF Spec

-----------------------------------------------------------------------------
(***************************************************************************)
(* One-to-one messages, for any number of nodes, connections and workers,    *)
(* with crashes, shutdowns and full delivery queues: a message on the live    *)
(* path is in one place only.  Without crashes and shutdowns, nothing but      *)
(* login's own deletion of what it has just read loses one.                    *)
(***************************************************************************)

(* Whose message a thread has in hand: a message handler's is for the user its call  *)
(* is about; a login's are those it read for the user who logs in.                *)
HandOK(a) ==
    /\ Kind(a) \in {"chat", "frame"} => a \in Worker /\ ~At(a, "idle")
    /\ \A m \in job[a].hand :
          /\ To[m] = call[a].user
          /\ \/ Kind(a) \in {"chat", "frame"}
             \/ Kind(a) = "login" /\ call[a].pc \in {"offlineRemove", "ack"}

HandInv ==
    /\ \A a \in Actor : HandOK(a)
    /\ \A u \in User : \A m \in offline[u] : To[m] = u

(* LiveCopyUnique alone is not inductive: the offline messages that a login has in   *)
(* hand must not be live, and a message not sent yet must be nowhere.             *)
Flying(m)  == \E n \in Node : m \in frames[n]
Live(m)    == Flying(m) \/ \E w \in Worker : m \in job[w].hand
Settled(m) == m \in handed \/ m \in offline[To[m]] \/ \E c \in Conn : m \in job[c].hand

CopyOK(m) ==
    /\ \A v, w \in Worker : m \in job[v].hand /\ m \in job[w].hand => v = w
    /\ \A n, k \in Node : m \in frames[n] /\ m \in frames[k] => n = k
    /\ \A w \in Worker : m \in job[w].hand => ~Flying(m)
    /\ Live(m) => ~Settled(m)
    /\ m \notin sent => ~Live(m) /\ ~Settled(m)

MessageInv == Typed /\ HandlerInv /\ TableTruthful /\ HandInv /\ \A m \in Msg : CopyOK(m)

-----------------------------------------------------------------------------
LEMMA HandStep ==
    ASSUME HandInv, NEW a \in Actor, OnlyMoves(a), HandOK(a)',
           \A u \in User : \A m \in offline'[u] : To[m] = u
    PROVE  HandInv'
<1>1. \A b \in Actor \ {a} : HandOK(b)'
  BY DEF HandInv, OnlyMoves, HandOK, Kind, At
<1> QED BY <1>1 DEF HandInv

(* A message that turns up nowhere new stays as it was *)
LEMMA CopyShrinks ==
    ASSUME NEW m \in Msg, CopyOK(m), Conn \union Worker \subseteq Actor,
           \A a \in Actor : m \in job'[a].hand => m \in job[a].hand,
           \A n \in Node : m \in frames'[n] => m \in frames[n],
           m \in offline'[To[m]] => m \in offline[To[m]],
           m \in handed' => m \in handed, m \in sent => m \in sent'
    PROVE  CopyOK(m)'
<1>1. Flying(m)' => Flying(m)
  BY DEF Flying
<1>2. Live(m)' => Live(m)
  BY <1>1 DEF Live
<1>3. Settled(m)' => Settled(m)
  BY DEF Settled
<1> QED BY <1>1, <1>2, <1>3 DEF CopyOK

(* A thread with an empty hand is what an idle thread is *)
LEMMA IdleHands ==
    ASSUME MessageInv, NEW a \in Actor, At(a, "idle")
    PROVE  Kind(a) = "none" /\ job[a].hand = {}
<1>1. Kind(a) = "none" /\ job[a].hand \subseteq Msg
  BY DEF MessageInv, HandlerInv, Typed, ServiceTypeOK, Job
<1> QED BY <1>1 DEF MessageInv, HandInv, HandOK

(* Steps after which no message is anywhere it was not before *)
NothingNew ==
    /\ \A a \in Actor : job'[a].hand \subseteq job[a].hand
    /\ \A n \in Node : frames'[n] \subseteq frames[n]
    /\ \A u \in User : offline'[u] \subseteq offline[u]
    /\ handed' \subseteq handed /\ sent \subseteq sent'

LEMMA NothingNewStep ==
    ASSUME MessageInv, NothingNew
    PROVE  (\A m \in Msg : CopyOK(m)') /\ \A u \in User : \A m \in offline'[u] : To[m] = u
<1>1. ASSUME NEW m \in Msg PROVE CopyOK(m)'
  <2>1. To[m] \in User
    OBVIOUS
  <2> QED BY <2>1, CopyShrinks DEF MessageInv, NothingNew
<1>2. \A u \in User : \A m \in offline'[u] : To[m] = u
  BY DEF MessageInv, HandInv, NothingNew
<1> QED BY <1>1, <1>2

Copies == HandInv /\ \A m \in Msg : CopyOK(m)

LEMMA QuietCopies ==
    ASSUME MessageInv, UNCHANGED <<job, frames, offline, handed, sent>>,
           \A a \in Actor : \/ call'[a] = call[a]
                            \/ /\ call'[a].user = call[a].user
                               /\ call[a].pc \notin AckPc /\ call'[a].pc # "idle"
    PROVE  Copies'
<1>1. NothingNew
  BY DEF NothingNew
<1>2. \A a \in Actor : HandOK(a)'
  BY DEF MessageInv, HandInv, HandOK, Kind, At, AckPc
<1> QED BY <1>1, <1>2, NothingNewStep DEF Copies, HandInv

LEMMA RegistryNextCopies == ASSUME MessageInv, RegistryNext PROVE Copies'
<1>1. RegistryInv /\ UNCHANGED serviceVars
  BY DEF MessageInv, Typed, RegistryNext
<1>2. ASSUME NEW a \in Actor, RegistryStep(a) PROVE Copies'
  <2>1. PICK l \in LookupPc \union BindPc : Advances(a, l) /\ call[a].pc \in LookupPc \union BindPc
    BY <1>1, <1>2, RegistryStepMoves
  <2>2. "idle" \notin LookupPc \union BindPc /\ AckPc \intersect (LookupPc \union BindPc) = {}
    BY DEF LookupPc, BindPc, AckPc
  <2> QED BY <1>1, <2>1, <2>2, QuietCopies DEF Advances, serviceVars
<1>3. CASE UNCHANGED call
  BY <1>1, <1>3, QuietCopies DEF serviceVars
<1> QED BY <1>2, <1>3, Zenon DEF RegistryNext, Boot, BootWarm, HeartbeatWake, HeartbeatRenew,
                          ExpireDeadNode, ExpireRoute, ExpireMeta, registryVars

(* One thread moves, and has nothing in hand afterwards that it did not have before *)
LEMMA HandlerCopies ==
    ASSUME MessageInv, NEW a \in Actor, OnlyMoves(a), job'[a].hand \subseteq job[a].hand, HandOK(a)',
           UNCHANGED <<frames, handed, sent>>, \A u \in User : offline'[u] \subseteq offline[u]
    PROVE  Copies'
<1>1. NothingNew
  BY DEF NothingNew, OnlyMoves
<1> QED BY <1>1, NothingNewStep, HandStep DEF Copies, MessageInv

LEMMA LoginStepCopies == ASSUME MessageInv, NEW c \in Conn, LoginStep(c) PROVE Copies'
<1>1. /\ c \in Actor /\ c \notin Worker /\ Typed /\ job \in [Actor -> Job] /\ job[c] \in Job
      /\ call \in [Actor -> Call] /\ call[c] \in Call /\ offline \in [User -> SUBSET Msg]
      /\ HandOK(c) /\ (call[c].pc \in AckPc => Kind(c) = "login")
      /\ (~At(c, "idle") => call[c].user \in User)
  BY CallFacts DEF MessageInv, Typed, RegistryInv, CallPart, ServiceTypeOK, HandInv, HandlerInv
<1>2. CASE LoginReject(c) \/ LoginUndo(c)
  <2>1. OnlyMoves(c) /\ job'[c] = NoJob
    BY <1>1, <1>2, ReturnMoves DEF LoginReject, LoginUndo
  <2> QED BY <1>1, <1>2, <2>1, HandlerCopies DEF LoginReject, LoginUndo, NoJob, HandOK, Kind
<1>3. CASE LoginReset(c)
  <2>1. OnlyMoves(c) /\ call' = call /\ job'[c].kind = job[c].kind /\ job'[c].hand = job[c].hand
    BY <1>1, <1>3 DEF LoginReset, registryVars, OnlyMoves, Job
  <2> QED BY <1>1, <1>3, <2>1, HandlerCopies DEF LoginReset, HandOK, Kind, At
<1>4. CASE LoginAdd(c)
  <2>1. OnlyMoves(c) /\ job' = job /\ call'[c].user = call[c].user /\ Kind(c) = "login" /\ call[c].pc = "missing"
    BY <1>1, <1>4, EnterMoves DEF LoginAdd, OnlyMoves, At
  <2> QED BY <1>1, <1>4, <2>1, HandlerCopies DEF LoginAdd, HandOK, Kind
<1>5. CASE LoginOnline(c)
  <2>1. Advances(c, "offlineQuery") /\ job' = job /\ Kind(c) = "login" /\ call[c].pc = "bound"
    BY <1>1, <1>5, Advance DEF LoginOnline, At
  <2> QED BY <1>1, <1>5, <2>1, HandlerCopies DEF LoginOnline, HandOK, Kind, Advances, OnlyMoves
<1>6. CASE LoginOfflineRemove(c)
  <2>1. Advances(c, "ack") /\ job' = job /\ Kind(c) = "login" /\ call[c].pc = "offlineRemove"
        /\ offline' = [offline EXCEPT ![call[c].user] = {}]
    BY <1>1, <1>6, Advance DEF LoginOfflineRemove, At, AckPc
  <2>2. HandOK(c)'
    BY <1>1, <2>1 DEF HandOK, Kind, Advances
  <2>3. \A u \in User : offline'[u] \subseteq offline[u]
    BY <1>1, <2>1
  <2> QED BY <1>1, <1>6, <2>1, <2>2, <2>3, HandlerCopies DEF LoginOfflineRemove, Advances, OnlyMoves
<1>7. CASE LoginOfflineQuery(c)
  <2> DEFINE u == call[c].user
  <2>1. /\ job' = [job EXCEPT ![c].hand = offline[u]] /\ Kind(c) = "login" /\ u \in User
        /\ \E l \in {"ack", "offlineRemove"} : Goto(c, l) /\ (offline[u] = {} \/ l = "offlineRemove")
        /\ UNCHANGED <<frames, offline, handed, sent>>
    BY <1>1, <1>7 DEF LoginOfflineQuery, At, AckPc
  <2>2. PICK l \in {"ack", "offlineRemove"} : Advances(c, l)
    BY <1>1, <2>1, Advance
  <2>3. job'[c].hand = offline[u] /\ job'[c].kind = "login" /\ OnlyMoves(c)
    BY <1>1, <2>1, <2>2 DEF Job, Kind, OnlyMoves, Advances
  <2>4. \A m \in offline[u] : To[m] = u
    BY <2>1 DEF MessageInv, HandInv
  <2>5. HandOK(c)'
    BY <2>2, <2>3, <2>4 DEF HandOK, Kind, Advances
  <2>6. ASSUME NEW m \in Msg PROVE CopyOK(m)'
    <3>1. CopyOK(m)
      BY DEF MessageInv
    <3>2. \A w \in Worker : job'[w] = job[w]
      BY <1>1, <2>3 DEF OnlyMoves
    <3>3. Live(m)' = Live(m) /\ Flying(m)' = Flying(m)
      BY <2>1, <3>2 DEF Live, Flying
    <3>4. Settled(m)' => Settled(m)
      BY <1>1, <2>1, <2>3, <2>4 DEF Settled, OnlyMoves
    <3> QED BY <2>1, <3>1, <3>2, <3>3, <3>4 DEF CopyOK
  <2> QED BY <1>1, <2>1, <2>3, <2>5, <2>6, HandStep DEF Copies, MessageInv, HandInv
<1>8. CASE LoginAck(c)
  <2>1. OnlyMoves(c) /\ job'[c] = NoJob /\ handed' = handed \union job[c].hand
        /\ UNCHANGED <<frames, offline, sent>>
    BY <1>1, <1>8, ReturnMoves DEF LoginAck
  <2>2. HandInv'
    BY <1>1, <2>1, HandStep DEF MessageInv, HandInv, HandOK, NoJob, Kind
  <2>3. ASSUME NEW m \in Msg PROVE CopyOK(m)'
    <3>1. CopyOK(m) /\ \A w \in Worker : job'[w] = job[w]
      BY <1>1, <2>1 DEF MessageInv, OnlyMoves
    <3>2. Live(m)' = Live(m) /\ Flying(m)' = Flying(m)
      BY <2>1, <3>1 DEF Live, Flying
    <3>3. Settled(m)' => Settled(m)
      BY <1>1, <2>1 DEF Settled, OnlyMoves, NoJob
    <3> QED BY <2>1, <3>1, <3>2, <3>3 DEF CopyOK
  <2> QED BY <2>2, <2>3 DEF Copies
<1> QED BY <1>2, <1>3, <1>4, <1>5, <1>6, <1>7, <1>8 DEF LoginStep

LEMMA ConnNextCopies == ASSUME MessageInv, NEW c \in Conn, ConnNext(c) PROVE Copies'
<1>1. /\ c \in Actor /\ c \notin Worker /\ Typed /\ job \in [Actor -> Job] /\ job[c] \in Job
      /\ call \in [Actor -> Call] /\ HandOK(c)
      /\ (Idle(c) => job[c].hand = {})
  BY IdleHands DEF MessageInv, Typed, RegistryInv, CallPart, ServiceTypeOK, HandInv, Idle
<1>2. CASE Connect(c)
  BY <1>2, QuietCopies DEF Connect, registryVars
<1>3. ASSUME Idle(c), UNCHANGED <<frames, offline, handed, sent>>,
             UNCHANGED <<call, job>> \/ \E u \in User : Leave(c, u)
      PROVE  Copies'
  <2>1. CASE UNCHANGED <<call, job>>
    BY <1>3, <2>1, QuietCopies
  <2>2. ASSUME NEW u \in User, Leave(c, u) PROVE Copies'
    <3>1. OnlyMoves(c) /\ job'[c].kind = "leave" /\ job'[c].hand = {}
      BY <1>1, <1>3, <2>2, EnterMoves DEF Leave, OnlyMoves, Job
    <3> QED BY <1>1, <1>3, <3>1, HandlerCopies DEF HandOK, Kind
  <2> QED BY <1>3, <2>1, <2>2
<1>4. CASE Logout(c)
  <2>1. loggedIn[c] \in User
    BY <1>1, <1>4 DEF Logout, Typed, ServiceTypeOK
  <2> QED BY <1>3, <1>4, <2>1 DEF Logout
<1>5. CASE Close(c)
  BY <1>3, <1>5 DEF Close
<1>6. CASE LeaveState(c)
  <2>1. OnlyMoves(c) /\ job'[c] = NoJob
    BY <1>1, <1>6, ReturnMoves DEF LeaveState
  <2> QED BY <1>1, <1>6, <2>1, HandlerCopies DEF LeaveState, NoJob, HandOK, Kind
<1>7. ASSUME NEW u \in User, NEW kind \in {"login", "loginBadPwd"}, Login(c, u, kind) PROVE Copies'
  <2>1. OnlyMoves(c) /\ job'[c].kind = kind /\ job'[c].hand = {}
    BY <1>1, <1>7, EnterMoves DEF Login, OnlyMoves
  <2> QED BY <1>1, <1>7, <2>1, HandlerCopies DEF Login, HandOK, Kind
<1> QED BY <1>2, <1>4, <1>5, <1>6, <1>7, LoginStepCopies DEF ConnNext

LEMMA WorkerNextCopies == ASSUME MessageInv, NEW w \in Worker, WorkerNext(w) PROVE Copies'
<1>1. /\ w \in Actor /\ w \notin Conn /\ Conn \union Worker \subseteq Actor /\ Typed
      /\ job \in [Actor -> Job] /\ job[w] \in Job /\ call \in [Actor -> Call]
      /\ offline \in [User -> SUBSET Msg] /\ frames \in [Node -> SUBSET Msg] /\ HandOK(w)
      /\ (Idle(w) => job[w].hand = {})
      /\ HomeOf[w] \in Node
  BY IdleHands DEF MessageInv, Typed, RegistryInv, CallPart, ServiceTypeOK, HandInv, Idle
<1>2. ASSUME NEW m \in Msg PROVE CopyOK(m) /\ To[m] \in User
  BY DEF MessageInv
<1>3. CASE ChatStale(w) \/ FrameStale(w)
  <2>1. OnlyMoves(w) /\ job' = job /\ call'[w].pc = "unbind" /\ call'[w].user = call[w].user
        /\ Kind(w) \in {"chat", "frame"} /\ UNCHANGED <<frames, offline, handed, sent>>
    BY <1>1, <1>3, EnterMoves DEF ChatStale, FrameStale, OnlyMoves, serviceVars
  <2> QED BY <1>1, <2>1, HandlerCopies DEF HandOK, Kind, At
<1>4. CASE ChatSendFail(w)
  <2>1. Advances(w, "sendFailed") /\ job' = job /\ Kind(w) = "chat" /\ UNCHANGED <<frames, offline, handed, sent>>
    BY <1>1, <1>4, Advance DEF ChatSendFail, serviceVars
  <2>2. OnlyMoves(w)
    BY <2>1 DEF OnlyMoves, Advances
  <2> QED BY <1>1, <2>1, <2>2, HandlerCopies DEF HandOK, Kind, At, Advances
<1>5. CASE ChatSend(w)
  <2>1. OnlyMoves(w) /\ job'[w] = NoJob /\ UNCHANGED <<offline, handed, sent>>
        /\ frames' = [frames EXCEPT ![call[w].route.node] = @ \union job[w].hand]
    BY <1>1, <1>5, ReturnMoves DEF ChatSend
  <2>2. HandInv'
    BY <1>1, <2>1, HandStep DEF MessageInv, HandInv, HandOK, NoJob, Kind
  <2>3. ASSUME NEW m \in Msg PROVE CopyOK(m)'
    <3>1. Settled(m)' => Settled(m)
      BY <1>1, <2>1 DEF Settled, OnlyMoves
    <3>2. \A v \in Worker : m \in job'[v].hand => v # w /\ m \in job[v].hand
      BY <2>1 DEF OnlyMoves, NoJob
    <3>3. CASE m \in job[w].hand
      <4>1. /\ ~Flying(m) /\ ~Settled(m) /\ m \in sent
            /\ \A v \in Worker : m \in job[v].hand => v = w
        BY <1>2, <3>3 DEF CopyOK, Live
      <4>2. \A n \in Node : m \in frames'[n] => n = call[w].route.node
        BY <1>1, <2>1, <4>1 DEF Flying
      <4> QED BY <2>1, <3>1, <3>2, <4>1, <4>2 DEF CopyOK
    <3>4. CASE m \notin job[w].hand
      <4>1. \A n \in Node : m \in frames'[n] => m \in frames[n]
        BY <1>1, <2>1, <3>4
      <4>2. \A a \in Actor : m \in job'[a].hand => m \in job[a].hand
        BY <2>1 DEF OnlyMoves, NoJob
      <4> QED BY <1>1, <1>2, <2>1, <4>1, <4>2, CopyShrinks
    <3> QED BY <3>3, <3>4
  <2> QED BY <2>2, <2>3 DEF Copies
<1>6. CASE OfflineStore(w)
  <2> DEFINE u == call[w].user
  <2>1. OnlyMoves(w) /\ job'[w] = NoJob /\ UNCHANGED <<frames, handed, sent>>
        /\ offline' = [offline EXCEPT ![u] = @ \union job[w].hand]
    BY <1>1, <1>6, ReturnMoves DEF OfflineStore
  <2>2. \A m \in job[w].hand : To[m] = u
    BY <1>1 DEF HandOK
  <2>3. HandInv'
    <3>1. \A v \in User : \A m \in offline'[v] : To[m] = v
      BY <1>1, <2>1, <2>2 DEF MessageInv, HandInv
    <3> QED BY <1>1, <2>1, <3>1, HandStep DEF MessageInv, HandOK, NoJob, Kind
  <2>4. ASSUME NEW m \in Msg PROVE CopyOK(m)'
    <3>1. Flying(m)' = Flying(m)
      BY <2>1 DEF Flying
    <3>2. \A v \in Worker : m \in job'[v].hand => v # w /\ m \in job[v].hand
      BY <2>1 DEF OnlyMoves, NoJob
    <3>3. CASE m \in job[w].hand
      <4>1. /\ ~Flying(m) /\ m \in sent
            /\ \A v \in Worker : m \in job[v].hand => v = w
        BY <1>2, <3>3 DEF CopyOK, Live
      <4>2. ~Live(m)'
        BY <3>1, <3>2, <4>1 DEF Live
      <4> QED BY <2>1, <3>1, <3>2, <4>1, <4>2 DEF CopyOK, Flying
    <3>4. CASE m \notin job[w].hand
      <4>1. m \in offline'[To[m]] => m \in offline[To[m]]
        BY <1>1, <1>2, <2>1, <3>4
      <4>2. \A a \in Actor : m \in job'[a].hand => m \in job[a].hand
        BY <2>1 DEF OnlyMoves, NoJob
      <4> QED BY <1>1, <1>2, <2>1, <4>1, <4>2, CopyShrinks
    <3> QED BY <3>3, <3>4
  <2> QED BY <2>3, <2>4 DEF Copies
(* The message that is taken up is nowhere any more, and goes to one of two places *)
<1>7. ASSUME NEW m \in Msg, NEW kind \in {"chat", "frame"}, Idle(w), UNCHANGED offline, sent' = sent \union {m},
             ~Settled(m), \A v \in Worker : m \notin job[v].hand, \A n \in Node : m \notin frames'[n],
             \A n \in Node : frames'[n] \subseteq frames[n],
             \/ handed' = handed \union {m} /\ UNCHANGED <<call, job>>
             \/ /\ job' = [job EXCEPT ![w].kind = kind, ![w].hand = {m}] /\ UNCHANGED handed
                /\ \E fn \in {"resolve", "query"} : Enter(w, fn, To[m])
      PROVE  Copies'
  <2>1. CASE handed' = handed \union {m} /\ UNCHANGED <<call, job>>
    <3>1. HandInv'
      BY <1>1, <1>7, <2>1, HandStep DEF MessageInv, HandInv, OnlyMoves, HandOK, Kind, At
    <3>2. ~Live(m)'
      BY <1>7, <2>1 DEF Live, Flying
    <3>3. ASSUME NEW x \in Msg \ {m} PROVE CopyOK(x)'
      BY <1>1, <1>2, <1>7, <2>1, CopyShrinks
    <3>4. CopyOK(m)'
      BY <1>7, <2>1, <3>2 DEF CopyOK, Live, Flying
    <3> QED BY <3>1, <3>3, <3>4 DEF Copies
  <2>2. CASE /\ job' = [job EXCEPT ![w].kind = kind, ![w].hand = {m}] /\ UNCHANGED handed
             /\ \E fn \in {"resolve", "query"} : Enter(w, fn, To[m])
    <3>1. /\ OnlyMoves(w) /\ job'[w].kind = kind /\ job'[w].hand = {m}
          /\ call'[w].user = To[m] /\ call'[w].pc # "idle"
      BY <1>1, <2>2, EnterMoves DEF OnlyMoves, Job
    <3>2. HandInv'
      BY <1>1, <1>7, <3>1, HandStep DEF MessageInv, HandInv, HandOK, Kind, At
    <3>3. ~Settled(m)' /\ ~Flying(m)'
      BY <1>1, <1>7, <2>2, <3>1 DEF Settled, OnlyMoves, Flying
    <3>4. \A v \in Worker : m \in job'[v].hand => v = w
      BY <1>7, <3>1 DEF OnlyMoves
    <3>5. CopyOK(m)'
      BY <1>7, <3>3, <3>4 DEF CopyOK, Flying
    <3>6. ASSUME NEW x \in Msg \ {m} PROVE CopyOK(x)'
      <4>1. \A a \in Actor : x \in job'[a].hand => x \in job[a].hand
        BY <3>1 DEF OnlyMoves
      <4> QED BY <1>1, <1>2, <1>7, <2>2, <4>1, CopyShrinks
    <3> QED BY <3>2, <3>5, <3>6 DEF Copies
  <2> QED BY <1>7, <2>1, <2>2
<1>8. ASSUME NEW m \in Msg, Chat(w, m) PROVE Copies'
  <2>1. ~Settled(m) /\ ~Live(m)
    BY <1>2, <1>8 DEF Chat, CopyOK
  <2> QED BY <1>7, <1>8, <2>1 DEF Chat, Live, Flying
<1>9. ASSUME NEW m \in Msg, Frame(w, m) PROVE Copies'
  <2>1. Flying(m) /\ Live(m) /\ Idle(w) /\ frames' = [frames EXCEPT ![HomeOf[w]] = @ \ {m}]
        /\ m \in frames[HomeOf[w]]
    BY <1>1, <1>9 DEF Frame, Flying, Live
  <2>2. ~Settled(m) /\ m \in sent /\ \A v \in Worker : m \notin job[v].hand
    BY <1>2, <2>1 DEF CopyOK
  <2>3. \A n \in Node : m \notin frames'[n] /\ frames'[n] \subseteq frames[n]
    BY <1>1, <1>2, <2>1 DEF CopyOK
  <2> QED BY <1>7, <1>9, <2>1, <2>2, <2>3 DEF Frame
<1> QED BY <1>3, <1>4, <1>5, <1>6, <1>8, <1>9 DEF WorkerNext, WorkerStep

LEMMA ProcStepCopies == ASSUME MessageInv, NEW n \in Node, ResetStep(n) \/ Crash(n) PROVE Copies'
<1>1. CASE Gone(n)
  <2>1. /\ frames \in [Node -> SUBSET Msg] /\ job \in [Actor -> Job]
        /\ \A a \in Actor : HandOK(a)
    BY DEF MessageInv, Typed, ServiceTypeOK, HandInv
  <2>2. \A a \in Actor : \/ call'[a] = NoCall /\ job'[a] = NoJob
                         \/ call'[a] = call[a] /\ job'[a] = job[a]
    BY <1>1 DEF Gone
  <2>3. NothingNew
    BY <1>1, <2>2 DEF Gone, NothingNew, NoJob
  <2>4. \A a \in Actor : HandOK(a)'
    BY <2>1, <2>2 DEF HandOK, Kind, At, NoJob
  <2> QED BY <2>3, <2>4, NothingNewStep DEF Copies, HandInv
<1>2. CASE ~Gone(n)
  BY <1>2, QuietCopies DEF ResetStep, ResetBegin, ResetStop, ResetJoin, ResetDel, ResetSrem,
     ResetUnregister, ResetClear, ResetState, ResetExit, Crash, SetCtl, serviceVars
<1> QED BY <1>1, <1>2

LEMMA NextCopies == ASSUME MessageInv, [Next]_vars PROVE MessageInv'
<1>1. Typed' /\ HandlerInv' /\ TableTruthful'
  BY NextTyped, NextTable DEF MessageInv, TableInv
<1>2. ASSUME UNCHANGED vars PROVE Copies'
  BY <1>2, QuietCopies DEF vars, registryVars, serviceVars
<1>3. Copies'
  BY <1>2, RegistryNextCopies, ConnNextCopies, WorkerNextCopies, ProcStepCopies DEF Next
<1> QED BY <1>1, <1>3 DEF Copies, MessageInv

LEMMA MessageInvReached == Spec => []MessageInv
<1>1. Init => MessageInv
  <2>1. Init => HandlerInv /\ TableTruthful
    BY DEF Init, RegistryInit, HandlerInv, TableTruthful, At, Kind, IsLogin, NoCall, NoJob, AckPc
  <2>2. Init => HandInv
    BY DEF Init, HandInv, HandOK, Kind, NoJob
  <2>3. Init => \A m \in Msg : CopyOK(m)
    BY DEF Init, CopyOK, Live, Flying, Settled, NoJob
  <2> QED BY <2>1, <2>2, <2>3, InitTyped DEF MessageInv
<1> QED BY <1>1, NextCopies, PTL DEF Spec

(* oneChat and handleClusterOneChatFrame: whatever crashes, shuts down or is full,   *)
(* a message that is under way is in one handler's hand or on the way to one node,     *)
(* and then neither delivered nor stored: no step of the path both forwards a message   *)
(* and stores it, and so nobody gets it twice.                                     *)
THEOREM OneLiveCopy == Spec => []LiveCopyUnique
<1>1. MessageInv => LiveCopyUnique
  <2> SUFFICES ASSUME NEW m \in Msg, MessageInv
               PROVE  LET places == {n \in Node : m \in frames[n]}
                      IN  /\ Carriers(m) # {} => places = {}
                          /\ \A n, k \in places : n = k
                          /\ \A v, w \in Carriers(m) : v = w
                          /\ Carriers(m) # {} \/ places # {} => m \notin handed /\ m \notin offline[To[m]]
    BY DEF LiveCopyUnique
  <2> QED BY DEF MessageInv, CopyOK, Carriers, Live, Flying, Settled
<1> QED BY <1>1, MessageInvReached, PTL

-----------------------------------------------------------------------------
(* No step loses m: it stays where it was or comes to another of its places *)
LEMMA MovedOnly ==
    ASSUME MessageInv, NEW m \in Msg, NEW a \in Actor, Held(m), ~Held(m)',
           \A b \in Actor \ {a} : job'[b] = job[b],
           \A n \in Node : m \in frames[n] => m \in frames'[n],
           m \in handed => m \in handed', m \in offline[To[m]] => m \in offline'[To[m]]
    PROVE  m \in job[a].hand
BY DEF Held

LEMMA NothingLost ==
    ASSUME MessageInv, Steady, CrashNodes = {}, ResetNodes = {}, [Next]_vars,
           NEW m \in Msg, Held(m), ~Held(m)'
    PROVE  \E c \in Conn : At(c, "offlineRemove") /\ To[m] = call[c].user
<1>1. /\ job \in [Actor -> Job] /\ offline \in [User -> SUBSET Msg] /\ frames \in [Node -> SUBSET Msg]
      /\ Conn \union Worker \subseteq Actor /\ To[m] \in User
  BY DEF MessageInv, Typed, ServiceTypeOK
<1>2. ~UNCHANGED <<job, frames, offline, handed>>
  BY DEF Held
<1>3. CASE UNCHANGED vars \/ RegistryNext
  BY <1>2, <1>3 DEF vars, RegistryNext, serviceVars
<1>4. ASSUME NEW n \in Node PROVE ~ResetStep(n) /\ ~Crash(n)
  BY NoDeath
<1>5. ASSUME NEW c \in Conn, ConnNext(c) PROVE At(c, "offlineRemove") /\ To[m] = call[c].user
  <2>1. /\ c \in Actor /\ job[c] \in Job /\ HandOK(c) /\ c \notin Worker /\ (Idle(c) => job[c].hand = {})
        /\ (~At(c, "idle") => call[c].user \in User) /\ call \in [Actor -> Call]
    BY IdleHands, CallFacts DEF MessageInv, HandInv, Idle, Typed, ServiceTypeOK, RegistryInv, CallPart
  <2>2. ASSUME \A b \in Actor \ {c} : job'[b] = job[b], UNCHANGED <<frames, offline, handed>>
        PROVE  m \in job[c].hand /\ m \notin job'[c].hand
    BY <1>1, <2>1, <2>2, MovedOnly DEF Held
  <2>3. CASE Connect(c) \/ Logout(c) \/ Close(c) \/ \E u \in User, kind \in {"login", "loginBadPwd"} : Login(c, u, kind)
    <3>1. Idle(c) /\ UNCHANGED <<frames, offline, handed>> /\ \A b \in Actor \ {c} : job'[b] = job[b]
      BY <1>1, <2>1, <2>3 DEF Connect, Logout, Close, Leave, Login
    <3> QED BY <2>1, <2>2, <3>1
  <2>4. CASE LeaveState(c) \/ LoginReject(c) \/ LoginUndo(c)
    <3>1. UNCHANGED <<frames, offline, handed>> /\ \A b \in Actor \ {c} : job'[b] = job[b]
      BY <1>1, <2>1, <2>4 DEF LeaveState, LoginReject, LoginUndo, Return
    <3>2. \/ Kind(c) = "leave"
          \/ call[c].pc \in {"found", "missing", "refused"} /\ IsLogin(c)
      BY <2>4 DEF LeaveState, LoginReject, LoginUndo, At, IsLogin
    <3> QED BY <2>1, <2>2, <3>1, <3>2 DEF HandOK, IsLogin
  <2>5. CASE LoginReset(c) \/ LoginAdd(c) \/ LoginOnline(c)
    <3>1. UNCHANGED <<frames, offline, handed>> /\ \A b \in Actor : job'[b].hand = job[b].hand
      BY <1>1, <2>1, <2>5 DEF LoginReset, LoginAdd, LoginOnline, Job
    <3> QED BY <1>1, <3>1 DEF Held
  <2>6. CASE LoginOfflineQuery(c)
    <3>1. UNCHANGED <<frames, offline, handed>> /\ \A b \in Actor \ {c} : job'[b] = job[b]
      BY <1>1, <2>1, <2>6 DEF LoginOfflineQuery
    <3>2. call[c].pc = "offlineQuery"
      BY <2>6 DEF LoginOfflineQuery, At
    <3>3. Kind(c) = "login"
      BY <3>2 DEF MessageInv, HandlerInv, AckPc
    <3> QED BY <2>1, <2>2, <3>1, <3>2, <3>3 DEF HandOK
  <2>7. CASE LoginOfflineRemove(c)
    <3>1. /\ At(c, "offlineRemove") /\ UNCHANGED <<frames, handed, job>>
          /\ offline' = [offline EXCEPT ![call[c].user] = {}]
      BY <2>7 DEF LoginOfflineRemove
    <3>2. m \in offline[To[m]] /\ m \notin offline'[To[m]]
      BY <1>1, <3>1 DEF Held
    <3> QED BY <1>1, <3>1, <3>2
  <2>8. CASE LoginAck(c)
    <3>1. /\ UNCHANGED <<frames, offline>> /\ handed' = handed \union job[c].hand
          /\ \A b \in Actor \ {c} : job'[b] = job[b]
      BY <1>1, <2>1, <2>8 DEF LoginAck, Return
    <3>2. m \in job[c].hand /\ m \notin handed'
      BY <1>1, <2>1, <3>1, MovedOnly DEF Held
    <3> QED BY <3>1, <3>2
  <2> QED BY <1>5, <2>3, <2>4, <2>5, <2>6, <2>7, <2>8 DEF ConnNext, LoginStep
<1>6. ASSUME NEW w \in Worker, WorkerNext(w) PROVE FALSE
  <2>1. /\ w \in Actor /\ job[w] \in Job /\ HandOK(w) /\ (Idle(w) => job[w].hand = {})
        /\ HomeOf[w] \in Node /\ call[w] \in Call
    BY IdleHands DEF MessageInv, HandInv, Idle, Typed, ServiceTypeOK, RegistryInv, CallPart
  <2>2. CASE ChatStale(w) \/ FrameStale(w) \/ ChatSendFail(w)
    BY <1>2, <2>2 DEF ChatStale, FrameStale, ChatSendFail, serviceVars
  <2>3. CASE ChatSend(w)
    <3>1. /\ UNCHANGED <<offline, handed>> /\ \A b \in Actor \ {w} : job'[b] = job[b]
          /\ frames' = [frames EXCEPT ![call[w].route.node] = @ \union job[w].hand]
          /\ At(w, "found")
      BY <1>1, <2>1, <2>3 DEF ChatSend, Return
    <3>2. call[w].route.node \in Node
      BY <2>1, <3>1 DEF MessageInv, Typed, RegistryInv, CallPart, CallOK, At, RoutePc, Route
    <3>3. \A n \in Node : frames[n] \subseteq frames'[n]
      BY <1>1, <3>1
    <3>4. m \in job[w].hand
      BY <2>1, <3>1, <3>3, MovedOnly
    <3>5. m \in frames'[call[w].route.node]
      BY <1>1, <3>1, <3>2, <3>4
    <3> QED BY <3>2, <3>5 DEF Held
  <2>4. CASE OfflineStore(w)
    <3>1. /\ UNCHANGED <<frames, handed>> /\ \A b \in Actor \ {w} : job'[b] = job[b]
          /\ offline' = [offline EXCEPT ![call[w].user] = @ \union job[w].hand]
      BY <1>1, <2>1, <2>4 DEF OfflineStore, Return
    <3>2. m \in offline[To[m]] => m \in offline'[To[m]]
      BY <1>1, <3>1
    <3>3. m \in job[w].hand /\ To[m] = call[w].user
      BY <2>1, <3>1, <3>2, MovedOnly DEF HandOK
    <3> QED BY <1>1, <3>1, <3>3 DEF Held
  <2>5. ASSUME NEW x \in Msg, NEW kind \in {"chat", "frame"}, Idle(w), UNCHANGED offline,
               \A n \in Node : frames[n] \subseteq frames'[n] \union {x},
               \/ handed' = handed \union {x} /\ UNCHANGED job
               \/ job' = [job EXCEPT ![w].kind = kind, ![w].hand = {x}] /\ UNCHANGED handed
        PROVE  FALSE
    <3>1. \A b \in Actor : job[b].hand \subseteq job'[b].hand
      BY <1>1, <2>1, <2>5 DEF Job
    <3>2. x \in handed' \/ x \in job'[w].hand
      BY <1>1, <2>1, <2>5 DEF Job
    <3> QED BY <2>1, <2>5, <3>1, <3>2 DEF Held
  <2>6. ASSUME NEW x \in Msg, Chat(w, x) PROVE FALSE
    BY <2>5, <2>6 DEF Chat
  <2>7. ASSUME NEW x \in Msg, Frame(w, x) PROVE FALSE
    <3>1. \A n \in Node : frames[n] \subseteq frames'[n] \union {x}
      BY <1>1, <2>7 DEF Frame
    <3> QED BY <2>5, <2>7, <3>1 DEF Frame
  <2> QED BY <1>6, <2>2, <2>3, <2>4, <2>6, <2>7 DEF WorkerNext, WorkerStep
<1> QED BY <1>3, <1>4, <1>5, <1>6 DEF Next

(* oneChat 397-398: as long as no process ends, the handlers of the message path lose    *)
(* nothing, whatever routes and sessions do meanwhile.  A process that ends takes its     *)
(* handlers and frames with it, hence the hypotheses.  The one step that can make a        *)
(* message vanish is login's deletion of messages that arrived after it had read them.  *)
THEOREM HotPathLosesNothing ==
    ASSUME CrashNodes = {}, ResetNodes = {}
    PROVE  Spec => HotPathConserves
<1>1. MessageInv /\ Steady /\ [Next]_vars =>
         [\A m \in sent : Held(m) /\ ~Held(m)' =>
             \E c \in Conn : At(c, "offlineRemove") /\ To[m] = call[c].user]_vars
  BY NothingLost DEF MessageInv, Typed, ServiceTypeOK
<1> QED BY <1>1, MessageInvReached, SteadyReached, PTL DEF Spec, HotPathConserves
=============================================================================
