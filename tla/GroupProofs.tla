----------------------------- MODULE GroupProofs -----------------------------
(***************************************************************************)
(* Group messages beside everything ChatService does, for any number of      *)
(* nodes, members, group handlers and workers: types, and no member gets a     *)
(* group message twice (with crashes, shutdowns and full queues); without       *)
(* processes that end, none of the handlers' steps loses a copy.               *)
(***************************************************************************)
EXTENDS GroupChat, RegistryProofs

USE RedisAssumption, ActorAssumption, ServiceAssumption, GroupAssumption

(* A handler runs in a process that serves.  groupChat looks up in Redis only the     *)
(* members that it keeps in unresolvedIds, after the walk over the table;             *)
(* handleClusterGroupChat looks up the user it is at.                               *)
TaskOK(w) ==
    /\ ~Doing(w, "none") => Serving(HomeOf[w]) /\ task[w].msg \in Msg
    /\ Doing(w, "group") /\ ~At(w, "idle") => task[w].scan = {} /\ call[w].user \in task[w].ask
    /\ Doing(w, "frame") /\ ~At(w, "idle") => call[w].user \in task[w].scan

GroupTyped ==
    /\ Typed
    /\ task \in [GroupWorker -> Task]
    /\ gframes \subseteq [to: Node, msg: Msg, users: SUBSET User]
    /\ ghanded \subseteq Msg \X User
    /\ \A w \in GroupWorker : TaskOK(w)

-----------------------------------------------------------------------------
(* Types *)

LEMMA NoTaskType == NoTask \in Task
BY DEF NoTask, Task

LEMMA TypedAfter ==
    ASSUME Typed, CallPart',
           UNCHANGED <<redisVars, routeCache, proc, open, loggedIn, userConnMap, userState, frames, handed, job>>,
           metaCache' \in [Node -> [Node -> Instance \union {None}]],
           offline' \in [User -> SUBSET Msg], sent' \in SUBSET Msg
    PROVE  Typed'
<1>1. RegistryTypeOK'
  BY DEF Typed, RegistryInv, RegistryTypeOK, RedisTypeOK, redisVars, CallPart
<1>2. ServiceTypeOK'
  BY DEF Typed, ServiceTypeOK
<1> QED BY <1>1, <1>2 DEF Typed, RegistryInv

LEMMA TypedKept ==
    ASSUME Typed, UNCHANGED vars PROVE Typed'
BY NextTyped

(* Where a thread of the group handlers is, whatever step of the service is taken: *)
(* it stays, goes on in its registry call, or is gone with its process            *)
LEMMA ServiceCall ==
    ASSUME Typed, Next, NEW a \in Actor, a \notin Conn \union Worker
    PROVE  \/ call'[a] = call[a]
           \/ call'[a].user = call[a].user /\ ~At(a, "idle") /\ call'[a].pc # "idle"
           \/ call'[a] = NoCall /\ Ends(HomeOf[a])
<1>1. call \in [Actor -> Call] /\ job \in [Actor -> Job] /\ Conn \union Worker \subseteq Actor
      /\ RegistryInv /\ proc \in [Node -> Process] /\ HomeOf[a] \in Node
  BY DEF Typed, RegistryInv, CallPart, ServiceTypeOK
<1>2. ASSUME NEW b \in Actor, b # a, Return(b) \/ \E fn, u : Enter(b, fn, u) \/ \E l : Goto(b, l)
      PROVE  call'[a] = call[a]
  BY <1>1, <1>2 DEF Return, Enter, Goto
<1>3. ASSUME NEW c \in Conn, ConnNext(c) PROVE call'[a] = call[a]
  <2>1. c \in Actor /\ c # a
    BY <1>1
  <2>2. \/ call' = call
        \/ Return(c) \/ (\E fn, u : Enter(c, fn, u)) \/ (\E l : Goto(c, l))
    BY <1>3 DEF ConnNext, LoginStep, Connect, Logout, Close, Leave, LeaveState, Login, LoginReject, LoginReset,
       LoginAdd, LoginUndo, LoginOnline, LoginOfflineQuery, LoginOfflineRemove, LoginAck, registryVars
  <2> QED BY <1>2, <2>1, <2>2
<1>4. ASSUME NEW w \in Worker, WorkerNext(w) PROVE call'[a] = call[a]
  <2>1. w \in Actor /\ w # a
    BY <1>1
  <2>2. \/ call' = call
        \/ Return(w) \/ (\E fn, u : Enter(w, fn, u)) \/ (\E l : Goto(w, l))
    BY <1>4 DEF WorkerNext, WorkerStep, ChatStale, ChatSend, ChatSendFail, FrameStale, OfflineStore, Chat, Frame
  <2> QED BY <1>2, <2>1, <2>2
<1>5. ASSUME NEW n \in Node, ResetStep(n) \/ Crash(n)
      PROVE  call'[a] = call[a] \/ (call'[a] = NoCall /\ Ends(HomeOf[a]))
  <2>1. CASE ResetExit(n) \/ Crash(n)
    <3>1. proc[n].ctl # "down" /\ Gone(n)
      BY <2>1 DEF ResetExit, Crash
    <3>2. proc'[n].ctl = "down"
      BY <1>1, <3>1 DEF Gone, NoProcess
    <3> QED BY <1>1, <3>1, <3>2 DEF Gone, Ends
  <2>2. CASE ~ResetExit(n) /\ ~Crash(n)
    BY <1>5, <2>2 DEF ResetStep, ResetBegin, ResetStop, ResetJoin, ResetDel, ResetSrem, ResetUnregister,
       ResetClear, ResetState
  <2> QED BY <2>1, <2>2
<1>6. ASSUME NEW b \in Actor, RegistryStep(b)
      PROVE  \/ call'[a] = call[a]
             \/ call'[a].user = call[a].user /\ ~At(a, "idle") /\ call'[a].pc # "idle"
  <2>1. PICK l \in LookupPc \union BindPc : Advances(b, l) /\ call[b].pc \in LookupPc \union BindPc
    BY <1>1, <1>6, RegistryStepMoves
  <2>2. "idle" \notin LookupPc \union BindPc
    BY DEF LookupPc, BindPc
  <2> QED BY <2>1, <2>2 DEF Advances, At
<1>7. CASE RegistryNext
  <2>1. ASSUME ~\E b \in Actor : RegistryStep(b) PROVE call' = call
    BY <1>7, <2>1, Zenon DEF RegistryNext, Boot, BootWarm, HeartbeatWake, HeartbeatRenew, ExpireDeadNode, ExpireRoute,
       ExpireMeta, registryVars
  <2> QED BY <1>6, <2>1
<1> QED BY <1>3, <1>4, <1>5, <1>7 DEF Next

(* A process stops serving only when it ends *)
LEMMA ServesOn ==
    ASSUME Typed, Next, NEW n \in Node, Serving(n), ~Serving(n)'
    PROVE  Ends(n)
<1>1. proc \in [Node -> Process] /\ RegistryInv
  BY DEF Typed, RegistryInv, CallPart
<1>2. proc' # proc
  BY DEF Serving
<1>3. CASE RegistryNext
  <2>1. ASSUME NEW a \in Actor PROVE ~RegistryStep(a)
    BY <1>1, <1>2, RegistryStepOK
  <2>2. PICK k \in Node : Boot(k) \/ BootWarm(k) \/ HeartbeatWake(k) \/ HeartbeatRenew(k)
    BY <1>2, <1>3, <2>1 DEF RegistryNext, ExpireDeadNode, ExpireRoute, ExpireMeta, registryVars
  <2>3. CASE k = n
    BY <1>1, <2>2, <2>3 DEF Boot, BootWarm, HeartbeatWake, HeartbeatRenew, Serving, Process
  <2>4. CASE k # n
    BY <1>1, <2>2, <2>4 DEF Boot, BootWarm, HeartbeatWake, HeartbeatRenew, Serving
  <2> QED BY <2>3, <2>4
<1>4. ASSUME NEW c \in Conn PROVE ~ConnNext(c)
  BY <1>2 DEF ConnNext, LoginStep, Connect, Logout, Close, LeaveState, Login, LoginReject, LoginReset,
       LoginAdd, LoginUndo, LoginOnline, LoginOfflineQuery, LoginOfflineRemove, LoginAck, registryVars
<1>5. ASSUME NEW w \in Worker PROVE ~WorkerNext(w)
  BY <1>2 DEF WorkerNext, WorkerStep, ChatStale, ChatSend, ChatSendFail, FrameStale, OfflineStore, Chat, Frame
<1>6. ASSUME NEW k \in Node, ResetStep(k) \/ Crash(k) PROVE Ends(n)
  <2>1. CASE ResetExit(k) \/ Crash(k)
    BY <1>1, <2>1 DEF ResetExit, Crash, Gone, NoProcess, Serving, Ends
  <2>2. CASE k # n /\ ~ResetExit(k) /\ ~Crash(k)
    BY <1>1, <1>6, <2>2 DEF ResetStep, ResetBegin, ResetStop, ResetJoin, ResetDel, ResetSrem, ResetUnregister,
       ResetClear, ResetState, SetCtl, Serving
  <2>3. CASE k = n /\ ~ResetExit(k) /\ ~Crash(k)
    <3> DEFINE l == proc'[n].ctl
    <3>0. proc[n] \in Process
      BY <1>1
    <3>1. CASE ResetBegin(n) \/ ResetStop(n) \/ ResetJoin(n) \/ ResetUnregister(n) \/ ResetClear(n)
      BY <1>1, <3>0, <3>1 DEF ResetBegin, ResetStop, ResetJoin, ResetUnregister, ResetClear, SetCtl, Serving, Process
    <3>2. CASE ResetDel(n) \/ ResetSrem(n) \/ ResetState(n)
      <4>1. l = proc[n].ctl
        <5>1. CASE ResetDel(n)
          BY <1>1, <3>0, <5>1 DEF ResetDel, Process
        <5>2. CASE ResetSrem(n)
          BY <1>1, <3>0, <5>2 DEF ResetSrem, Process
        <5>3. CASE ResetState(n)
          BY <1>1, <3>0, <5>3 DEF ResetState, Process
        <5> QED BY <3>2, <5>1, <5>2, <5>3
      <4> QED BY <4>1 DEF Serving
    <3> QED BY <1>6, <2>3, <3>1, <3>2 DEF ResetStep
  <2> QED BY <2>1, <2>2, <2>3
<1> QED BY <1>3, <1>4, <1>5, <1>6 DEF Next

(* One handler moves: what is left to show *)
LEMMA TaskStep ==
    ASSUME GroupTyped, NEW w \in GroupWorker, Typed', proc' = proc,
           \A b \in Actor \ {w} : call'[b] = call[b],
           task' \in [GroupWorker -> Task], \A x \in GroupWorker \ {w} : task'[x] = task[x],
           gframes' \subseteq [to: Node, msg: Msg, users: SUBSET User], ghanded' \subseteq Msg \X User,
           TaskOK(w)'
    PROVE  GroupTyped'
<1>1. \A x \in GroupWorker \ {w} : TaskOK(x)'
  BY DEF GroupTyped, TaskOK, Doing, At, Serving
<1> QED BY <1>1 DEF GroupTyped

(* The steps that change nothing of the service but the thread's own call *)
LEMMA CallOnly ==
    ASSUME Typed, CallPart', UNCHANGED <<redisVars, routeCache, metaCache, proc, serviceVars>> PROVE Typed'
<1>1. offline' \in [User -> SUBSET Msg] /\ sent' \in SUBSET Msg
      /\ metaCache' \in [Node -> [Node -> Instance \union {None}]]
  BY DEF Typed, RegistryInv, RegistryTypeOK, ServiceTypeOK, serviceVars
<1> QED BY <1>1, TypedAfter DEF serviceVars

LEMMA GroupEnter ==
    ASSUME GroupTyped, NEW w \in GroupWorker, ~Doing(w, "none"), NEW u \in User,
           NEW fn \in {"resolve", "query", "bind", "unbind"}, Enter(w, fn, u),
           UNCHANGED <<redisVars, routeCache, metaCache, proc, serviceVars, groupVars>>,
           Doing(w, "group") => task[w].scan = {} /\ u \in task[w].ask,
           Doing(w, "frame") => u \in task[w].scan
    PROVE  GroupTyped'
<1>1. w \in Actor /\ Typed /\ CallPart /\ Serving(HomeOf[w])
  BY DEF GroupTyped, Typed, RegistryInv, TaskOK
<1>2. Typed'
  BY <1>1, EnterStep, CallOnly
<1>3. call'[w].user = u /\ \A b \in Actor \ {w} : call'[b] = call[b]
  BY <1>1, EnterMoves
<1>4. TaskOK(w)'
  BY <1>1, <1>3 DEF GroupTyped, TaskOK, Doing, Serving, groupVars
<1> QED BY <1>2, <1>3, <1>4, TaskStep DEF GroupTyped, groupVars

LEMMA GroupDone ==
    ASSUME GroupTyped, NEW w \in GroupWorker, Done(w), proc' = proc
    PROVE  /\ CallPart' /\ At(w, "idle")'
           /\ \A b \in Actor \ {w} : call'[b] = call[b]
<1>1. w \in Actor /\ CallPart /\ call \in [Actor -> Call]
  BY DEF GroupTyped, Typed, RegistryInv, CallPart
<1>2. NoCall.pc = "idle" /\ NoCall.pc \notin RoutePc
  BY DEF NoCall, RoutePc
<1>3. CallPart'
  BY <1>1, <1>2, NoCallType, CallStep DEF Done
<1> QED BY <1>1, <1>2, <1>3 DEF Done, At

LEMMA GroupStepTyped ==
    ASSUME GroupTyped, NEW w \in GroupWorker,
           GroupStep(w) \/ GroupFrame(w) \/ \E m \in Msg : Group(w, m)
    PROVE  GroupTyped'
<1>1. /\ w \in Actor /\ Typed /\ TaskOK(w) /\ CallPart /\ call \in [Actor -> Call]
      /\ task \in [GroupWorker -> Task] /\ task[w] \in Task
      /\ gframes \subseteq [to: Node, msg: Msg, users: SUBSET User] /\ ghanded \subseteq Msg \X User
      /\ offline \in [User -> SUBSET Msg] /\ sent \in SUBSET Msg
      /\ metaCache \in [Node -> [Node -> Instance \union {None}]]
      /\ userConnMap \in [Node -> [User -> Conn \union {None}]] /\ HomeOf[w] \in Node
  BY DEF GroupTyped, Typed, RegistryInv, CallPart, ServiceTypeOK, RegistryTypeOK
<1>2. ~At(w, "idle") => call[w].user \in User /\ (At(w, "found") => call[w].route \in Route)
  BY <1>1, CallFacts DEF At, RoutePc
<1>3. ASSUME NEW m \in Msg, Group(w, m) PROVE GroupTyped'
  <2>1. Typed'
    BY <1>1, <1>3, TypedAfter DEF Group, registryVars, CallPart, CallOK, ProcOK, At, Serving
  <2>2. task' \in [GroupWorker -> Task] /\ task'[w] = [NoTask EXCEPT !.kind = "group", !.msg = m, !.scan = Members[m]]
    BY <1>1, <1>3, NoTaskType DEF Group, Task
  <2>3. TaskOK(w)'
    BY <1>1, <1>3, <2>2 DEF Group, Free, Idle, At, registryVars, TaskOK, Doing, NoTask, Serving
  <2> QED BY <1>1, <1>3, <2>1, <2>2, <2>3, TaskStep DEF Group, registryVars
<1>4. CASE GroupFrame(w)
  <2>1. PICK f \in gframes : /\ gframes' = gframes \ {f}
                             /\ task' = [task EXCEPT ![w] = [NoTask EXCEPT !.kind = "frame", !.msg = f.msg,
                                                                           !.scan = f.users]]
    BY <1>4 DEF GroupFrame
  <2>2. task' \in [GroupWorker -> Task] /\ task'[w] = [NoTask EXCEPT !.kind = "frame", !.msg = f.msg, !.scan = f.users]
    BY <1>1, <2>1, NoTaskType DEF Task
  <2>3. TaskOK(w)'
    BY <1>1, <1>4, <2>2 DEF GroupFrame, Free, Idle, At, vars, registryVars, TaskOK, Doing, NoTask, Serving
  <2>4. Typed'
    BY <1>1, <1>4, TypedKept DEF GroupFrame
  <2> QED BY <1>1, <1>4, <2>1, <2>2, <2>3, <2>4, TaskStep DEF GroupFrame, vars, registryVars
<1>5. CASE Scan(w) \/ SendLocal(w) \/ FrameHand(w) \/ Leaves(w)
  <2>1. Typed' /\ UNCHANGED <<vars, gframes>>
    BY <1>1, <1>5, TypedKept DEF Scan, SendLocal, FrameHand, Leaves
  <2>2. task' \in [GroupWorker -> Task]
    <3>1. CASE Scan(w)
      <4>1. PICK u \in User : LET c == userConnMap[HomeOf[w]][u]
              IN  IF c # None
                  THEN task' = [task EXCEPT ![w].scan = @ \ {u}, ![w].local = @ \union {<<u, c>>}]
                  ELSE task' = [task EXCEPT ![w].scan = @ \ {u}, ![w].ask = @ \union {u}]
        BY <1>1, <3>1 DEF Scan, Task
      <4>2. userConnMap[HomeOf[w]][u] \in Conn \union {None}
        BY <1>1
      <4>3. CASE userConnMap[HomeOf[w]][u] = None
        <5>1. task' = [task EXCEPT ![w].scan = @ \ {u}, ![w].ask = @ \union {u}]
          BY <4>1, <4>3
        <5> QED BY <1>1, <5>1 DEF Task
      <4>4. CASE userConnMap[HomeOf[w]][u] # None
        <5> DEFINE x == <<u, userConnMap[HomeOf[w]][u]>>
        <5>1. task' = [task EXCEPT ![w].scan = @ \ {u}, ![w].local = @ \union {x}]
          BY <4>1, <4>4
        <5>2. x \in User \X Conn
          BY <4>2, <4>4
        <5> HIDE DEF x
        <5> QED BY <1>1, <5>1, <5>2, ZenonT(60) DEF Task
      <4> QED BY <4>3, <4>4
    <3>2. CASE SendLocal(w)
      <4>1. PICK x \in task[w].local : task' = [task EXCEPT ![w].local = @ \ {x}]
        BY <3>2 DEF SendLocal
      <4> QED BY <1>1, <4>1 DEF Task
    <3>3. CASE FrameHand(w)
      <4>1. PICK u \in task[w].scan : task' = [task EXCEPT ![w].scan = @ \ {u}]
        BY <3>3 DEF FrameHand
      <4> QED BY <1>1, <4>1 DEF Task
    <3>4. CASE Leaves(w)
      BY <1>1, <3>4, NoTaskType DEF Leaves
    <3> QED BY <1>5, <3>1, <3>2, <3>3, <3>4
  <2>3. \A x \in GroupWorker \ {w} : task'[x] = task[x]
    BY <1>1, <1>5 DEF Scan, SendLocal, FrameHand, Leaves
  <2>4. ghanded' \subseteq Msg \X User
    <3>1. CASE SendLocal(w)
      <4>1. PICK x \in task[w].local : ghanded' = IF x[2] \in open THEN ghanded \union {<<task[w].msg, x[1]>>} ELSE ghanded
        BY <3>1 DEF SendLocal
      <4>2. x \in User \X Conn
        BY <1>1 DEF Task
      <4>3. task[w].msg \in Msg
        BY <1>1, <3>1 DEF SendLocal, Resolved, Doing, TaskOK
      <4> QED BY <1>1, <4>1, <4>2, <4>3
    <3>2. CASE FrameHand(w)
      <4>1. task[w].msg \in Msg
        BY <1>1, <3>2 DEF FrameHand, Doing, TaskOK
      <4> QED BY <1>1, <3>2, <4>1 DEF FrameHand, Task
    <3> QED BY <1>1, <1>5, <3>1, <3>2 DEF Scan, Leaves
  <2>5. At(w, "idle")
    <3>1. CASE Scan(w)
      BY <1>1, <3>1 DEF Scan, TaskOK
    <3>2. CASE SendLocal(w)
      BY <1>1, <3>2 DEF SendLocal, Resolved, TaskOK
    <3> QED BY <1>5, <3>1, <3>2 DEF FrameHand, Leaves
  <2>6. TaskOK(w)'
    <3>1. task'[w].kind # "none" => Serving(HomeOf[w]) /\ task'[w].msg \in Msg
      <4>1. CASE Leaves(w)
        BY <1>1, <4>1 DEF Leaves, NoTask
      <4>2. task[w].msg \in Msg /\ Serving(HomeOf[w])
        BY <1>1, <1>5, <4>1 DEF Scan, SendLocal, FrameHand, TaskOK, Doing, Resolved, Leaves
      <4>3. CASE ~Leaves(w)
        <5>1. \/ \E S : task' = [task EXCEPT ![w].local = S]
              \/ \E S : task' = [task EXCEPT ![w].scan = S]
              \/ \E S, L : task' = [task EXCEPT ![w].scan = S, ![w].local = L]
              \/ \E S, A : task' = [task EXCEPT ![w].scan = S, ![w].ask = A]
          BY <1>5, <4>3 DEF Scan, SendLocal, FrameHand
        <5>2. task'[w].msg = task[w].msg
          <6>0. task \in [GroupWorker -> Task] /\ task[w] \in Task
            BY <1>1
          <6>1. ASSUME NEW S, task' = [task EXCEPT ![w].local = S] PROVE task'[w].msg = task[w].msg
            BY <6>0, <6>1 DEF Task
          <6>2. ASSUME NEW S, task' = [task EXCEPT ![w].scan = S] PROVE task'[w].msg = task[w].msg
            BY <6>0, <6>2 DEF Task
          <6>3. ASSUME NEW S, NEW L, task' = [task EXCEPT ![w].scan = S, ![w].local = L] PROVE task'[w].msg = task[w].msg
            BY <6>0, <6>3 DEF Task
          <6>4. ASSUME NEW S, NEW L, task' = [task EXCEPT ![w].scan = S, ![w].ask = L] PROVE task'[w].msg = task[w].msg
            BY <6>0, <6>4 DEF Task
          <6> QED BY <5>1, <6>1, <6>2, <6>3, <6>4
        <5> QED BY <4>2, <5>2
      <4> QED BY <4>1, <4>3
    <3> QED BY <2>1, <2>5, <3>1 DEF vars, registryVars, TaskOK, Doing, At, Serving
  <2> QED BY <2>1, <2>2, <2>3, <2>4, <2>6, TaskStep, <1>1 DEF vars, registryVars
<1>6. CASE Ask(w) \/ AskSelf(w) \/ FrameQuery(w) \/ FrameUnbind(w)
  <2>1. CASE Ask(w)
    <3>1. PICK u \in task[w].ask : Enter(w, "resolve", u)
      BY <2>1 DEF Ask
    <3>2. u \in User
      BY <1>1, <3>1 DEF Task
    <3> QED BY <2>1, <3>1, <3>2, GroupEnter DEF Ask, Doing
  <2>2. CASE AskSelf(w)
    BY <1>1, <1>2, <2>2, GroupEnter DEF AskSelf, Doing, At, TaskOK
  <2>3. CASE FrameQuery(w)
    <3>1. PICK u \in task[w].scan : Enter(w, "query", u)
      BY <2>3 DEF FrameQuery
    <3>2. u \in User
      BY <1>1, <3>1 DEF Task
    <3> QED BY <2>3, <3>1, <3>2, GroupEnter DEF FrameQuery, Doing
  <2>4. CASE FrameUnbind(w)
    BY <1>1, <1>2, <2>4, GroupEnter DEF FrameUnbind, Doing, At, TaskOK
  <2> QED BY <1>6, <2>1, <2>2, <2>3, <2>4
<1>7. CASE AskRemote(w) \/ AskOffline(w) \/ FrameStore(w)
  <2>1. /\ Done(w) /\ call[w].user \in User /\ UNCHANGED <<gframes, ghanded>>
        /\ UNCHANGED <<redisVars, routeCache, metaCache, proc, open, loggedIn, userConnMap, userState, frames, sent,
                       handed, job>>
    BY <1>2, <1>7 DEF AskRemote, AskOffline, FrameStore, At, serviceVars
  <2>2. CallPart' /\ At(w, "idle")' /\ \A b \in Actor \ {w} : call'[b] = call[b]
    BY <2>1, GroupDone
  <2>3. offline' \in [User -> SUBSET Msg]
    <3>1. CASE FrameStore(w)
      <4>1. task[w].msg \in Msg
        BY <1>1, <3>1 DEF FrameStore, Doing, TaskOK
      <4> QED BY <1>1, <2>1, <3>1, <4>1 DEF FrameStore
    <3> QED BY <1>1, <1>7, <3>1 DEF AskRemote, AskOffline, serviceVars
  <2>4. Typed'
    BY <1>1, <2>1, <2>2, <2>3, TypedAfter
  <2>5. task' \in [GroupWorker -> Task] /\ (\A x \in GroupWorker \ {w} : task'[x] = task[x]) 
        /\ task'[w].kind = task[w].kind /\ task'[w].msg = task[w].msg
    <3>1. CASE AskRemote(w)
      <4>1. call[w].route.node \in Node
        BY <1>2, <3>1 DEF AskRemote, At, Route
      <4>2. task[w] \in Task /\ task \in [GroupWorker -> Task]
        BY <1>1
      <4> DEFINE y == [task[w] EXCEPT !.ask = @ \ {call[w].user},
                                      !.route[call[w].route.node] = @ \union {call[w].user}]
      <4>3. task' = [task EXCEPT ![w] = y]
        BY <3>1, <4>2 DEF AskRemote, Task
      <4>4. y \in Task /\ y.kind = task[w].kind /\ y.msg = task[w].msg
        BY <2>1, <4>1, <4>2 DEF Task
      <4> HIDE DEF y
      <4> QED BY <1>1, <4>2, <4>3, <4>4
    <3>2. CASE AskOffline(w)
      BY <1>1, <2>1, <3>2, ZenonT(60) DEF AskOffline, Task
    <3>3. CASE FrameStore(w)
      BY <1>1, <2>1, <3>3 DEF FrameStore, Task
    <3> QED BY <1>7, <3>1, <3>2, <3>3
  <2>6. TaskOK(w)'
    BY <1>1, <2>1, <2>2, <2>5 DEF TaskOK, Doing, Serving
  <2> QED BY <1>1, <2>1, <2>2, <2>4, <2>5, <2>6, TaskStep
<1>8. CASE StoreOffline(w)
  <2>1. PICK u \in task[w].off : /\ offline' = [offline EXCEPT ![u] = @ \union {task[w].msg}]
                                 /\ task' = [task EXCEPT ![w].off = @ \ {u}]
    BY <1>8 DEF StoreOffline
  <2>2. u \in User
    BY <1>1 DEF Task
  <2>3. offline' \in [User -> SUBSET Msg]
    <3>1. task[w].msg \in Msg
      BY <1>1, <1>8 DEF StoreOffline, Sorted, Resolved, Doing, TaskOK
    <3> QED BY <1>1, <2>1, <2>2, <3>1
  <2>4. UNCHANGED <<redisVars, registryVars, open, loggedIn, userConnMap, userState, frames, sent, handed, job, gframes, ghanded>>
    BY <1>8 DEF StoreOffline
  <2>5. CallPart'
    BY <1>1, <2>4 DEF registryVars, CallPart, CallOK, ProcOK, At, Serving
  <2>6. Typed'
    BY <1>1, <2>3, <2>4, <2>5, TypedAfter DEF registryVars
  <2>7. task' \in [GroupWorker -> Task] /\ (\A x \in GroupWorker \ {w} : task'[x] = task[x])
        /\ task'[w].kind = task[w].kind /\ task'[w].scan = task[w].scan /\ task'[w].ask = task[w].ask
        /\ task'[w].msg = task[w].msg
    BY <1>1, <2>1 DEF Task
  <2>8. TaskOK(w)'
    BY <1>1, <2>4, <2>7 DEF TaskOK, Doing, At, Serving, registryVars
  <2> QED BY <1>1, <2>4, <2>6, <2>7, <2>8, TaskStep DEF registryVars
<1>9. ASSUME NEW k \in Node, RouteSend(w, k) \/ RouteFail(w, k) PROVE GroupTyped'
  <2>1. UNCHANGED <<redisVars, routeCache, proc, call, serviceVars, ghanded>>
    BY <1>9 DEF RouteSend, RouteFail
  <2>2. metaCache' \in [Node -> [Node -> Instance \union {None}]]
    <3>1. PICK m \in Instance \union {None} : QueryNode(w, k, m)
      BY <1>9 DEF RouteSend, RouteFail
    <3> QED BY <1>1, <3>1, QueryNodeType
  <2>3. CallPart'
    BY <1>1, <2>1 DEF CallPart, CallOK, ProcOK, At, Serving
  <2>4. Typed'
    BY <1>1, <2>1, <2>2, <2>3, TypedAfter DEF serviceVars
  <2>5. task' \in [GroupWorker -> Task] /\ (\A x \in GroupWorker \ {w} : task'[x] = task[x])
        /\ task'[w].kind = task[w].kind /\ task'[w].scan = task[w].scan /\ task'[w].ask = task[w].ask
        /\ task'[w].msg = task[w].msg
    <3>1. CASE RouteSend(w, k)
      BY <1>1, <3>1 DEF RouteSend, Task
    <3>2. CASE RouteFail(w, k)
      BY <1>1, <3>2 DEF RouteFail, Task
    <3> QED BY <1>9, <3>1, <3>2
  <2>6. gframes' \subseteq [to: Node, msg: Msg, users: SUBSET User]
    <3>1. task[w].msg \in Msg /\ task[w].route[k] \in SUBSET User
      BY <1>1, <1>9 DEF RouteSend, RouteFail, Bucket, Resolved, Doing, TaskOK, Task
    <3>2. FrameFor(w, k) \in [to: Node, msg: Msg, users: SUBSET User]
      BY <3>1 DEF FrameFor
    <3> QED BY <1>1, <1>9, <3>2 DEF RouteSend, RouteFail
  <2>7. TaskOK(w)'
    BY <1>1, <2>1, <2>5 DEF TaskOK, Doing, At, Serving
  <2> QED BY <1>1, <2>1, <2>4, <2>5, <2>6, <2>7, TaskStep
<1> QED BY <1>3, <1>4, <1>5, <1>6, <1>7, <1>8, <1>9 DEF GroupStep

LEMMA ServiceTyped == ASSUME GroupTyped, Service PROVE GroupTyped'
<1>1. Typed /\ Next /\ Typed' /\ task \in [GroupWorker -> Task] /\ GroupWorker \subseteq Actor
      /\ GroupWorker \intersect (Conn \union Worker) = {}
  BY NextTyped DEF GroupTyped, Service
<1>2. task' = [w \in GroupWorker |-> IF Ends(HomeOf[w]) THEN NoTask ELSE task[w]]
  BY DEF Service
<1>3. task' \in [GroupWorker -> Task]
  BY <1>1, <1>2, NoTaskType
<1>4. gframes' \subseteq gframes /\ ghanded' = ghanded
  BY DEF Service
<1>5. ASSUME NEW w \in GroupWorker PROVE TaskOK(w)'
  <2>1. w \in Actor /\ w \notin Conn \union Worker /\ HomeOf[w] \in Node /\ TaskOK(w)
    BY <1>1 DEF GroupTyped
  <2>2. CASE Ends(HomeOf[w])
    BY <1>2, <2>2 DEF TaskOK, Doing, NoTask
  <2>3. CASE ~Ends(HomeOf[w])
    <3>1. task'[w] = task[w] /\ (Serving(HomeOf[w]) => Serving(HomeOf[w])')
      BY <1>1, <1>2, <2>1, <2>3, ServesOn
    <3>2. \/ call'[w] = call[w]
          \/ call'[w].user = call[w].user /\ ~At(w, "idle") /\ call'[w].pc # "idle"
      BY <1>1, <2>1, <2>3, ServiceCall
    <3> QED BY <2>1, <3>1, <3>2 DEF TaskOK, Doing, At
  <2> QED BY <2>2, <2>3
<1> QED BY <1>1, <1>3, <1>4, <1>5 DEF GroupTyped

LEMMA GroupNextTyped == ASSUME GroupTyped, [GroupNext]_gvars PROVE GroupTyped'
<1>1. CASE UNCHANGED gvars
  <2>1. Typed'
    BY <1>1, TypedKept DEF gvars, GroupTyped
  <2> QED BY <1>1, <2>1 DEF gvars, groupVars, vars, registryVars, GroupTyped, TaskOK, Doing, At, Serving
<1>2. CASE GroupNext
  BY <1>2, ServiceTyped, GroupStepTyped DEF GroupNext
<1> QED BY <1>1, <1>2

LEMMA GroupInitTyped == GroupInit => GroupTyped
BY InitTyped, NoTaskType DEF GroupInit, GroupTyped, TaskOK, Doing, NoTask

LEMMA GroupTypedReached == GroupSpec => []GroupTyped
BY GroupInitTyped, GroupNextTyped, PTL DEF GroupSpec

(* groupChat and handleClusterGroupChat: whatever else the service does in between, a   *)
(* handler's lists hold members of a message it was given, and what it asks the          *)
(* registry about is a user of its list.                                               *)
THEOREM GroupTypeCorrect == GroupSpec => []GroupTypeOK
<1>1. GroupTyped => GroupTypeOK
  BY DEF GroupTyped, GroupTypeOK, Typed, RegistryInv, TypeOK
<1> QED BY <1>1, GroupTypedReached, PTL

-----------------------------------------------------------------------------
(* Where a copy of m for u is: in the list l of handler x (y tells entries of a list     *)
(* apart), in the frame x, handed over or stored.  CopyPlaces counts the nodes with a      *)
(* frame for u under way; here frames count, since a handler takes one at a time.         *)
InList(t, l, x, y, m, u) ==
    /\ t.msg = m
    /\ \/ l = "scan" /\ y = x /\ u \in t.scan
       \/ l = "ask" /\ y = x /\ u \in t.ask
       \/ l = "off" /\ y = x /\ u \in t.off
       \/ l = "local" /\ y \in Conn /\ <<u, y>> \in t.local
       \/ l = "route" /\ y \in Node /\ u \in t.route[y]

Outside(l, x, y, m, u) ==
    \/ l = "wire" /\ x \in gframes /\ y = x /\ x.msg = m /\ u \in x.users
    \/ l = "handed" /\ x = m /\ y = u /\ <<m, u>> \in ghanded
    \/ l = "offline" /\ x = m /\ y = u /\ m \in offline[u]

Spot(l, x, y, m, u) ==
    \/ x \in GroupWorker /\ InList(task[x], l, x, y, m, u)
    \/ Outside(l, x, y, m, u)

(* A message is sent to a group or to a user, once: while a one-to-one handler has it,   *)
(* it is nowhere in the group handlers' hands, and before it is sent it is nowhere.       *)
Apart(m) ==
    /\ m \notin sent => ~Live(m) /\ \A u \in User : \A l, x, y : ~Spot(l, x, y, m, u)
    /\ Live(m) => \A u \in User : \A l, x, y : Spot(l, x, y, m, u) => l = "offline"
    /\ \A u \in User : \A l, x, y, k, a, b :
          Spot(l, x, y, m, u) /\ Spot(k, a, b, m, u) => l = k /\ x = a /\ y = b

GroupInv == GroupTyped /\ \A m \in Msg : Apart(m)

(* A step moves at most one copy of m for u, from <<l, x, y>> to <<k, a, b>>, and never   *)
(* one that is stored already                                                          *)
Keeps(m, u) == \A i, j, o : Spot(i, j, o, m, u)' => Spot(i, j, o, m, u)
Moves(m, u, l, x, y, k, a, b) ==
    /\ l # "offline"
    /\ \A i, j, o : Spot(i, j, o, m, u)' =>
          \/ Spot(i, j, o, m, u) /\ ~(i = l /\ j = x /\ o = y)
          \/ i = k /\ j = a /\ o = b /\ Spot(l, x, y, m, u)

LEMMA ApartStep ==
    ASSUME NEW m \in Msg, Apart(m), Live(m)' => Live(m), sent' = sent,
           \A u \in User : Keeps(m, u) \/ \E l, x, y, k, a, b : Moves(m, u, l, x, y, k, a, b)
    PROVE  Apart(m)'
<1>1. m \notin sent => \A u \in User : \A l, x, y : ~Spot(l, x, y, m, u)'
  BY DEF Apart, Keeps, Moves
<1>2. Live(m) => \A u \in User : \A l, x, y : Spot(l, x, y, m, u)' => l = "offline"
  BY DEF Apart, Keeps, Moves
<1>3. ASSUME NEW u \in User, NEW l, NEW x, NEW y, NEW k, NEW a, NEW b,
             Spot(l, x, y, m, u)', Spot(k, a, b, m, u)'
      PROVE  l = k /\ x = a /\ y = b
  <2>1. CASE Keeps(m, u)
    BY <1>3, <2>1 DEF Apart, Keeps
  <2>2. ASSUME NEW l0, NEW x0, NEW y0, NEW k0, NEW a0, NEW b0, Moves(m, u, l0, x0, y0, k0, a0, b0)
        PROVE  l = k /\ x = a /\ y = b
    BY <1>3, <2>2 DEF Apart, Moves
  <2> QED BY <2>1, <2>2
<1> QED BY <1>1, <1>2, <1>3 DEF Apart

(* The handler w moves: its own places, and those outside of it *)
OthersTasks(w) == \A x \in GroupWorker \ {w} : task'[x] = task[x]
Lists == {"scan", "ask", "off", "local", "route"}

LEMMA ListNames == \A t, l, x, y, m, u : InList(t, l, x, y, m, u) => l \in Lists
BY DEF InList, Lists

LEMMA OutsideNames == \A l, x, y, m, u : Outside(l, x, y, m, u) => l \notin Lists
BY DEF Outside, Lists

(* The copy <<l, w, y>> comes to another place of its handler, or leaves it *)
LEMMA TaskMoves ==
    ASSUME NEW w \in GroupWorker, OthersTasks(w), NEW m, NEW u, NEW l, NEW y, NEW k, NEW a, NEW b,
           InList(task[w], l, w, y, m, u), ~InList(task'[w], l, w, y, m, u),
           \A i, o : InList(task'[w], i, w, o, m, u) =>
                       InList(task[w], i, w, o, m, u) \/ (i = k /\ w = a /\ o = b),
           \A i, j, o : Outside(i, j, o, m, u)' => Outside(i, j, o, m, u) \/ (i = k /\ j = a /\ o = b)
    PROVE  Moves(m, u, l, w, y, k, a, b)
<1>1. \A i, j, o : j \in GroupWorker \ {w} => InList(task'[j], i, j, o, m, u) = InList(task[j], i, j, o, m, u)
  BY DEF OthersTasks
<1>2. l # "offline" /\ l \in Lists /\ Spot(l, w, y, m, u)
  BY DEF InList, Lists, Spot
<1>3. ASSUME NEW i, NEW j, NEW o, Spot(i, j, o, m, u)'
      PROVE  \/ Spot(i, j, o, m, u) /\ ~(i = l /\ j = w /\ o = y)
             \/ i = k /\ j = a /\ o = b /\ Spot(l, w, y, m, u)
  <2>1. CASE j \in GroupWorker /\ InList(task'[j], i, j, o, m, u)
    BY <1>1, <1>2, <2>1 DEF Spot
  <2>2. CASE Outside(i, j, o, m, u)'
    <3>1. CASE Outside(i, j, o, m, u)
      BY <1>2, <3>1, OutsideNames DEF Spot
    <3> QED BY <1>2, <2>2, <3>1
  <2> QED BY <1>3, <2>1, <2>2 DEF Spot
<1> QED BY <1>2, <1>3 DEF Moves

LEMMA KeepsTask ==
    ASSUME NEW w \in GroupWorker, OthersTasks(w), NEW m, NEW u,
           \A i, o : InList(task'[w], i, w, o, m, u) => InList(task[w], i, w, o, m, u),
           \A i, j, o : Outside(i, j, o, m, u)' => Outside(i, j, o, m, u)
    PROVE  Keeps(m, u)
<1>1. \A i, j, o : j \in GroupWorker \ {w} => InList(task'[j], i, j, o, m, u) = InList(task[j], i, j, o, m, u)
  BY DEF InList, OthersTasks
<1> QED BY <1>1 DEF Keeps, Spot

LEMMA ScanApart ==
    ASSUME GroupInv, NEW w \in GroupWorker, Scan(w), NEW m \in Msg PROVE Apart(m)'
<1>1. task \in [GroupWorker -> Task] /\ task[w] \in Task /\ Apart(m)
      /\ userConnMap \in [Node -> [User -> Conn \union {None}]] /\ HomeOf[w] \in Node
  BY DEF GroupInv, GroupTyped, Typed, ServiceTypeOK
<1>2. OthersTasks(w) /\ UNCHANGED <<job, frames, gframes, ghanded, offline, sent>>
  BY <1>1 DEF Scan, OthersTasks, vars, serviceVars
<1>3. PICK v \in User : /\ v \in task[w].scan
                        /\ LET c == userConnMap[HomeOf[w]][v]
                           IN  IF c # None
                               THEN task' = [task EXCEPT ![w].scan = @ \ {v}, ![w].local = @ \union {<<v, c>>}]
                               ELSE task' = [task EXCEPT ![w].scan = @ \ {v}, ![w].ask = @ \union {v}]
  BY <1>1 DEF Scan, Task
<1>4. ASSUME NEW u \in User PROVE Keeps(m, u) \/ \E l, x, y, k, a, b : Moves(m, u, l, x, y, k, a, b)
  <2> DEFINE c == userConnMap[HomeOf[w]][v]
  <2>1. CASE c = None
    <3>1. task' = [task EXCEPT ![w].scan = @ \ {v}, ![w].ask = @ \union {v}]
      BY <1>3, <2>1
    <3>2. /\ task'[w].msg = task[w].msg /\ task'[w].scan = task[w].scan \ {v} /\ task'[w].ask = task[w].ask \union {v}
          /\ task'[w].off = task[w].off /\ task'[w].local = task[w].local /\ task'[w].route = task[w].route
      BY <1>1, <3>1 DEF Task
    <3>3. CASE u = v /\ task[w].msg = m
      <4>1. InList(task[w], "scan", w, w, m, u) /\ ~InList(task'[w], "scan", w, w, m, u)
        BY <1>3, <3>2, <3>3 DEF InList
      <4>2. \A i, o : InList(task'[w], i, w, o, m, u) => InList(task[w], i, w, o, m, u) \/ (i = "ask" /\ o = w)
        BY <3>2, <3>3 DEF InList
      <4>3. Moves(m, u, "scan", w, w, "ask", w, w)
        BY <1>2, <4>1, <4>2, TaskMoves DEF Outside
      <4> QED BY <4>3
    <3>4. CASE ~(u = v /\ task[w].msg = m)
      <4>1. \A i, o : InList(task'[w], i, w, o, m, u) => InList(task[w], i, w, o, m, u)
        BY <3>2, <3>4 DEF InList
      <4> QED BY <1>2, <4>1, KeepsTask DEF Outside
    <3> QED BY <3>3, <3>4
  <2>2. CASE c # None
    <3>1. task' = [task EXCEPT ![w].scan = @ \ {v}, ![w].local = @ \union {<<v, c>>}]
      BY <1>3, <2>2
    <3>2. /\ task'[w].msg = task[w].msg /\ task'[w].scan = task[w].scan \ {v} /\ task'[w].local = task[w].local \union {<<v, c>>}
          /\ task'[w].off = task[w].off /\ task'[w].ask = task[w].ask /\ task'[w].route = task[w].route
      BY <1>1, <3>1 DEF Task
    <3>3. CASE u = v /\ task[w].msg = m
      <4>1. InList(task[w], "scan", w, w, m, u) /\ ~InList(task'[w], "scan", w, w, m, u)
        BY <1>3, <3>2, <3>3 DEF InList
      <4>2. \A i, o : InList(task'[w], i, w, o, m, u) => InList(task[w], i, w, o, m, u) \/ (i = "local" /\ o = c)
        BY <3>2, <3>3 DEF InList
      <4>3. Moves(m, u, "scan", w, w, "local", w, c)
        BY <1>2, <4>1, <4>2, TaskMoves DEF Outside
      <4> QED BY <4>3
    <3>4. CASE ~(u = v /\ task[w].msg = m)
      <4>1. \A i, o : InList(task'[w], i, w, o, m, u) => InList(task[w], i, w, o, m, u)
        BY <3>2, <3>4 DEF InList
      <4> QED BY <1>2, <4>1, KeepsTask DEF Outside
    <3> QED BY <3>3, <3>4
  <2> QED BY <2>1, <2>2
<1>5. Live(m)' = Live(m)
  BY <1>2 DEF Live, Flying
<1> QED BY <1>1, <1>2, <1>4, <1>5, ApartStep

(* What every step of a handler starts from *)
LEMMA TaskFacts ==
    ASSUME GroupInv, NEW w \in GroupWorker, NEW m \in Msg
    PROVE  /\ task \in [GroupWorker -> Task] /\ task[w] \in Task /\ Apart(m) /\ TaskOK(w)
           /\ w \in Actor /\ HomeOf[w] \in Node /\ offline \in [User -> SUBSET Msg]
           /\ (~At(w, "idle") => call[w].user \in User /\ (At(w, "found") => call[w].route \in Route))
<1>1. w \in Actor /\ Typed
  BY DEF GroupInv, GroupTyped
<1> QED BY <1>1, CallFacts DEF GroupInv, GroupTyped, Typed, ServiceTypeOK, At, RoutePc

LEMMA LiveKept == ASSUME UNCHANGED <<job, frames>> PROVE \A m : Live(m)' => Live(m)
BY DEF Live, Flying

(* resolveUserNode has answered: the member goes to a bucket, or to the offline ones *)
LEMMA AskApart ==
    ASSUME GroupInv, NEW w \in GroupWorker, AskRemote(w) \/ AskOffline(w), NEW m \in Msg PROVE Apart(m)'
<1> DEFINE v == call[w].user
           n == call[w].route.node
<1>1. /\ task \in [GroupWorker -> Task] /\ task[w] \in Task /\ Apart(m)
      /\ v \in task[w].ask /\ v \in User
  BY TaskFacts DEF AskRemote, AskOffline, TaskOK, At
<1>2. OthersTasks(w) /\ UNCHANGED <<job, frames, gframes, ghanded, offline, sent>>
  BY <1>1 DEF AskRemote, AskOffline, OthersTasks, serviceVars
<1>3. CASE AskRemote(w)
  <2>1. n \in Node
    BY <1>3, TaskFacts DEF AskRemote, At, Route
  <2>2. /\ task'[w].msg = task[w].msg /\ task'[w].ask = task[w].ask \ {v} /\ task'[w].scan = task[w].scan
        /\ task'[w].off = task[w].off /\ task'[w].local = task[w].local
        /\ task'[w].route = [task[w].route EXCEPT ![n] = @ \union {v}]
    BY <1>1, <1>3 DEF AskRemote, Task
  <2>3. task[w].route \in [Node -> SUBSET User]
    BY <1>1 DEF Task
  <2> HIDE DEF v, n
  <2>4. ASSUME NEW u \in User PROVE Keeps(m, u) \/ \E l, x, y, k, a, b : Moves(m, u, l, x, y, k, a, b)
    <3>1. CASE u = v /\ task[w].msg = m
      <4>1. InList(task[w], "ask", w, w, m, u) /\ ~InList(task'[w], "ask", w, w, m, u)
        BY <1>1, <2>2, <3>1 DEF InList
      <4>2. \A i, o : InList(task'[w], i, w, o, m, u) => InList(task[w], i, w, o, m, u) \/ (i = "route" /\ o = n)
        BY <2>1, <2>2, <2>3, <3>1 DEF InList
      <4>3. Moves(m, u, "ask", w, w, "route", w, n)
        BY <1>2, <4>1, <4>2, TaskMoves DEF Outside
      <4> QED BY <4>3
    <3>2. CASE ~(u = v /\ task[w].msg = m)
      <4>1. \A i, o : InList(task'[w], i, w, o, m, u) => InList(task[w], i, w, o, m, u)
        BY <2>1, <2>2, <2>3, <3>2 DEF InList
      <4> QED BY <1>2, <4>1, KeepsTask DEF Outside
    <3> QED BY <3>1, <3>2
  <2> QED BY <1>1, <1>2, <2>4, LiveKept, ApartStep
<1>4. CASE AskOffline(w)
  <2>2. /\ task'[w].msg = task[w].msg /\ task'[w].ask = task[w].ask \ {v} /\ task'[w].scan = task[w].scan
        /\ task'[w].off = task[w].off \union {v} /\ task'[w].local = task[w].local /\ task'[w].route = task[w].route
    BY <1>1, <1>4 DEF AskOffline, Task
  <2> HIDE DEF v, n
  <2>4. ASSUME NEW u \in User PROVE Keeps(m, u) \/ \E l, x, y, k, a, b : Moves(m, u, l, x, y, k, a, b)
    <3>1. CASE u = v /\ task[w].msg = m
      <4>1. InList(task[w], "ask", w, w, m, u) /\ ~InList(task'[w], "ask", w, w, m, u)
        BY <1>1, <2>2, <3>1 DEF InList
      <4>2. \A i, o : InList(task'[w], i, w, o, m, u) => InList(task[w], i, w, o, m, u) \/ (i = "off" /\ o = w)
        BY <2>2, <3>1 DEF InList
      <4>3. Moves(m, u, "ask", w, w, "off", w, w)
        BY <1>2, <4>1, <4>2, TaskMoves DEF Outside
      <4> QED BY <4>3
    <3>2. CASE ~(u = v /\ task[w].msg = m)
      <4>1. \A i, o : InList(task'[w], i, w, o, m, u) => InList(task[w], i, w, o, m, u)
        BY <2>2, <3>2 DEF InList
      <4> QED BY <1>2, <4>1, KeepsTask DEF Outside
    <3> QED BY <3>1, <3>2
  <2> QED BY <1>1, <1>2, <2>4, LiveKept, ApartStep
<1> QED BY <1>3, <1>4

(* A connection found is served, or dropped *)
LEMMA SendLocalApart ==
    ASSUME GroupInv, NEW w \in GroupWorker, SendLocal(w), NEW m \in Msg PROVE Apart(m)'
<1>1. task \in [GroupWorker -> Task] /\ task[w] \in Task /\ Apart(m)
  BY TaskFacts
<1>2. OthersTasks(w) /\ UNCHANGED <<job, frames, gframes, offline, sent>>
  BY <1>1 DEF SendLocal, OthersTasks, vars, serviceVars
<1>3. PICK x \in task[w].local : /\ task' = [task EXCEPT ![w].local = @ \ {x}]
                                 /\ ghanded' = IF x[2] \in open THEN ghanded \union {<<task[w].msg, x[1]>>} ELSE ghanded
  BY DEF SendLocal
<1>4. PICK v \in User, c \in Conn : x = <<v, c>>
  BY <1>1 DEF Task
<1>5. /\ task'[w].msg = task[w].msg /\ task'[w].scan = task[w].scan /\ task'[w].ask = task[w].ask
      /\ task'[w].off = task[w].off /\ task'[w].local = task[w].local \ {<<v, c>>} /\ task'[w].route = task[w].route
  BY <1>1, <1>3, <1>4 DEF Task
<1>6. ghanded' \in {ghanded, ghanded \union {<<task[w].msg, v>>}} /\ <<v, c>> \in task[w].local
  BY <1>3, <1>4
<1>7. ASSUME NEW u \in User PROVE Keeps(m, u) \/ \E l, p, y, k, a, b : Moves(m, u, l, p, y, k, a, b)
  <2>1. CASE u = v /\ task[w].msg = m
    <3>1. InList(task[w], "local", w, c, m, u) /\ ~InList(task'[w], "local", w, c, m, u)
      BY <1>5, <1>6, <2>1 DEF InList
    <3>2. \A i, o : InList(task'[w], i, w, o, m, u) => InList(task[w], i, w, o, m, u)
      BY <1>5, <2>1 DEF InList
    <3>3. \A i, j, o : Outside(i, j, o, m, u)' => Outside(i, j, o, m, u) \/ (i = "handed" /\ j = m /\ o = u)
      BY <1>2 DEF Outside
    <3>4. Moves(m, u, "local", w, c, "handed", m, u)
      BY <1>2, <3>1, <3>2, <3>3, TaskMoves
    <3> QED BY <3>4
  <2>2. CASE ~(u = v /\ task[w].msg = m)
    <3>1. \A i, o : InList(task'[w], i, w, o, m, u) => InList(task[w], i, w, o, m, u)
      BY <1>5, <2>2 DEF InList
    <3>2. <<m, u>> \in ghanded' => <<m, u>> \in ghanded
      BY <1>6, <2>2
    <3> QED BY <1>2, <3>1, <3>2, KeepsTask DEF Outside
  <2> QED BY <2>1, <2>2
<1> QED BY <1>1, <1>2, <1>7, LiveKept, ApartStep

LEMMA StoreApart ==
    ASSUME GroupInv, NEW w \in GroupWorker, StoreOffline(w), NEW m \in Msg PROVE Apart(m)'
<1>1. task \in [GroupWorker -> Task] /\ task[w] \in Task /\ Apart(m) /\ offline \in [User -> SUBSET Msg]
  BY TaskFacts
<1>2. OthersTasks(w) /\ UNCHANGED <<job, frames, gframes, ghanded, sent>>
  BY <1>1 DEF StoreOffline, OthersTasks
<1>3. PICK v \in User : /\ v \in task[w].off /\ offline' = [offline EXCEPT ![v] = @ \union {task[w].msg}]
                        /\ task' = [task EXCEPT ![w].off = @ \ {v}]
  BY <1>1 DEF StoreOffline, Task
<1>5. /\ task'[w].msg = task[w].msg /\ task'[w].scan = task[w].scan /\ task'[w].ask = task[w].ask
      /\ task'[w].off = task[w].off \ {v} /\ task'[w].local = task[w].local /\ task'[w].route = task[w].route
  BY <1>1, <1>3 DEF Task
<1>7. ASSUME NEW u \in User PROVE Keeps(m, u) \/ \E l, p, y, k, a, b : Moves(m, u, l, p, y, k, a, b)
  <2>1. CASE u = v /\ task[w].msg = m
    <3>1. InList(task[w], "off", w, w, m, u) /\ ~InList(task'[w], "off", w, w, m, u)
      BY <1>3, <1>5, <2>1 DEF InList
    <3>2. \A i, o : InList(task'[w], i, w, o, m, u) => InList(task[w], i, w, o, m, u)
      BY <1>5, <2>1 DEF InList
    <3>3. \A i, j, o : Outside(i, j, o, m, u)' => Outside(i, j, o, m, u) \/ (i = "offline" /\ j = m /\ o = u)
      BY <1>2 DEF Outside
    <3>4. Moves(m, u, "off", w, w, "offline", m, u)
      BY <1>2, <3>1, <3>2, <3>3, TaskMoves
    <3> QED BY <3>4
  <2>2. CASE ~(u = v /\ task[w].msg = m)
    <3>1. \A i, o : InList(task'[w], i, w, o, m, u) => InList(task[w], i, w, o, m, u)
      BY <1>5, <2>2 DEF InList
    <3>2. m \in offline'[u] => m \in offline[u]
      BY <1>1, <1>3, <2>2
    <3> QED BY <1>2, <3>1, <3>2, KeepsTask DEF Outside
  <2> QED BY <2>1, <2>2
<1> QED BY <1>1, <1>2, <1>7, LiveKept, ApartStep

(* A bucket goes out as a frame, or falls back as a whole *)
LEMMA RouteApart ==
    ASSUME GroupInv, NEW w \in GroupWorker, NEW n \in Node, RouteSend(w, n) \/ RouteFail(w, n), NEW m \in Msg
    PROVE  Apart(m)'
<1>1. task \in [GroupWorker -> Task] /\ task[w] \in Task /\ Apart(m) /\ task[w].route \in [Node -> SUBSET User]
  BY TaskFacts DEF Task
<1>2. OthersTasks(w) /\ UNCHANGED <<job, frames, ghanded, offline, sent>>
  BY <1>1 DEF RouteSend, RouteFail, OthersTasks, serviceVars
<1>3. CASE RouteSend(w, n)
  <2>1. gframes' = gframes \union {FrameFor(w, n)}
    BY <1>3 DEF RouteSend
  <2>2. /\ task'[w].msg = task[w].msg /\ task'[w].scan = task[w].scan /\ task'[w].ask = task[w].ask
        /\ task'[w].off = task[w].off /\ task'[w].local = task[w].local
        /\ task'[w].route = [task[w].route EXCEPT ![n] = {}]
    BY <1>1, <1>3 DEF RouteSend, Task
  <2> DEFINE f == FrameFor(w, n)
  <2>3. f.msg = task[w].msg /\ f.users = task[w].route[n]
    BY DEF FrameFor
  <2> HIDE DEF f
  <2>4. ASSUME NEW u \in User PROVE Keeps(m, u) \/ \E l, p, y, k, a, b : Moves(m, u, l, p, y, k, a, b)
    <3>1. \A i, o : InList(task'[w], i, w, o, m, u) => InList(task[w], i, w, o, m, u)
      BY <1>1, <2>2 DEF InList
    <3>2. CASE u \in task[w].route[n] /\ task[w].msg = m
      <4>1. InList(task[w], "route", w, n, m, u) /\ ~InList(task'[w], "route", w, n, m, u)
        BY <1>1, <2>2, <3>2 DEF InList
      <4>2. \A i, j, o : Outside(i, j, o, m, u)' => Outside(i, j, o, m, u) \/ (i = "wire" /\ j = f /\ o = f)
        BY <1>2, <2>1 DEF Outside, f
      <4>3. Moves(m, u, "route", w, n, "wire", f, f)
        BY <1>2, <3>1, <4>1, <4>2, TaskMoves
      <4> QED BY <4>3
    <3>3. CASE ~(u \in task[w].route[n] /\ task[w].msg = m)
      <4>1. \A i, j, o : Outside(i, j, o, m, u)' => Outside(i, j, o, m, u)
        BY <1>2, <2>1, <2>3, <3>3 DEF Outside, f
      <4> QED BY <1>2, <3>1, <4>1, KeepsTask
    <3> QED BY <3>2, <3>3
  <2> QED BY <1>1, <1>2, <2>4, LiveKept, ApartStep
<1>4. CASE RouteFail(w, n)
  <2>1. gframes' = gframes
    BY <1>4 DEF RouteFail
  <2>2. /\ task'[w].msg = task[w].msg /\ task'[w].scan = task[w].scan /\ task'[w].ask = task[w].ask
        /\ task'[w].off = task[w].off \union task[w].route[n] /\ task'[w].local = task[w].local
        /\ task'[w].route = [task[w].route EXCEPT ![n] = {}]
    BY <1>1, <1>4 DEF RouteFail, Task
  <2>3. \A u, i, j, o : Outside(i, j, o, m, u)' => Outside(i, j, o, m, u)
    BY <1>2, <2>1 DEF Outside
  <2>4. ASSUME NEW u \in User PROVE Keeps(m, u) \/ \E l, p, y, k, a, b : Moves(m, u, l, p, y, k, a, b)
    <3>2. CASE u \in task[w].route[n] /\ task[w].msg = m
      <4>1. InList(task[w], "route", w, n, m, u) /\ ~InList(task'[w], "route", w, n, m, u)
        BY <1>1, <2>2, <3>2 DEF InList
      <4>2. \A i, o : InList(task'[w], i, w, o, m, u) => InList(task[w], i, w, o, m, u) \/ (i = "off" /\ o = w)
        BY <1>1, <2>2, <3>2 DEF InList
      <4>3. Moves(m, u, "route", w, n, "off", w, w)
        BY <1>2, <2>3, <4>1, <4>2, TaskMoves
      <4> QED BY <4>3
    <3>3. CASE ~(u \in task[w].route[n] /\ task[w].msg = m)
      <4>1. \A i, o : InList(task'[w], i, w, o, m, u) => InList(task[w], i, w, o, m, u)
        BY <1>1, <2>2, <3>3 DEF InList
      <4> QED BY <1>2, <2>3, <4>1, KeepsTask
    <3> QED BY <3>2, <3>3
  <2> QED BY <1>1, <1>2, <2>4, LiveKept, ApartStep
<1> QED BY <1>3, <1>4

(* handleClusterGroupChat hands over or stores the user it is at *)
LEMMA FrameUserApart ==
    ASSUME GroupInv, NEW w \in GroupWorker, FrameHand(w) \/ FrameStore(w), NEW m \in Msg PROVE Apart(m)'
<1>1. task \in [GroupWorker -> Task] /\ task[w] \in Task /\ Apart(m) /\ offline \in [User -> SUBSET Msg]
  BY TaskFacts
<1>2. OthersTasks(w) /\ UNCHANGED <<job, frames, gframes, sent>>
  BY <1>1 DEF FrameHand, FrameStore, OthersTasks, vars, serviceVars
<1>3. PICK v \in User :
         /\ v \in task[w].scan /\ task' = [task EXCEPT ![w].scan = @ \ {v}]
         /\ \/ ghanded' = ghanded \union {<<task[w].msg, v>>} /\ UNCHANGED offline
            \/ offline' = [offline EXCEPT ![v] = @ \union {task[w].msg}] /\ UNCHANGED ghanded
  <2>1. CASE FrameHand(w)
    BY <1>1, <2>1 DEF FrameHand, Task, vars, serviceVars
  <2>2. CASE FrameStore(w)
    BY <2>2, TaskFacts DEF FrameStore, TaskOK, At
  <2> QED BY <2>1, <2>2
<1>5. /\ task'[w].msg = task[w].msg /\ task'[w].scan = task[w].scan \ {v} /\ task'[w].ask = task[w].ask
      /\ task'[w].off = task[w].off /\ task'[w].local = task[w].local /\ task'[w].route = task[w].route
  BY <1>1, <1>3 DEF Task
<1>7. ASSUME NEW u \in User PROVE Keeps(m, u) \/ \E l, p, y, k, a, b : Moves(m, u, l, p, y, k, a, b)
  <2>0. \A i, o : InList(task'[w], i, w, o, m, u) => InList(task[w], i, w, o, m, u)
    BY <1>5 DEF InList
  <2>1. CASE u = v /\ task[w].msg = m
    <3>1. InList(task[w], "scan", w, w, m, u) /\ ~InList(task'[w], "scan", w, w, m, u)
      BY <1>3, <1>5, <2>1 DEF InList
    <3>2. CASE UNCHANGED offline
      <4>1. \A i, j, o : Outside(i, j, o, m, u)' => Outside(i, j, o, m, u) \/ (i = "handed" /\ j = m /\ o = u)
        BY <1>2, <3>2 DEF Outside
      <4>2. Moves(m, u, "scan", w, w, "handed", m, u)
        BY <1>2, <2>0, <3>1, <4>1, TaskMoves
      <4> QED BY <4>2
    <3>3. CASE UNCHANGED ghanded
      <4>1. \A i, j, o : Outside(i, j, o, m, u)' => Outside(i, j, o, m, u) \/ (i = "offline" /\ j = m /\ o = u)
        BY <1>2, <3>3 DEF Outside
      <4>2. Moves(m, u, "scan", w, w, "offline", m, u)
        BY <1>2, <2>0, <3>1, <4>1, TaskMoves
      <4> QED BY <4>2
    <3> QED BY <1>3, <3>2, <3>3
  <2>2. CASE ~(u = v /\ task[w].msg = m)
    <3>1. (m \in offline'[u] => m \in offline[u]) /\ (<<m, u>> \in ghanded' => <<m, u>> \in ghanded)
      BY <1>1, <1>3, <2>2
    <3> QED BY <1>2, <2>0, <3>1, KeepsTask DEF Outside
  <2> QED BY <2>1, <2>2
<1> QED BY <1>1, <1>2, <1>7, LiveKept, ApartStep

(* ... after it took the frame *)
LEMMA GroupFrameApart ==
    ASSUME GroupInv, NEW w \in GroupWorker, GroupFrame(w), NEW m \in Msg PROVE Apart(m)'
<1>1. task \in [GroupWorker -> Task] /\ task[w] \in Task /\ Apart(m)
  BY TaskFacts
<1>2. OthersTasks(w) /\ UNCHANGED <<job, frames, ghanded, offline, sent>>
  BY <1>1 DEF GroupFrame, OthersTasks, vars, serviceVars
<1>3. PICK f \in gframes : /\ gframes' = gframes \ {f}
                           /\ task'[w] = [NoTask EXCEPT !.kind = "frame", !.msg = f.msg, !.scan = f.users]
  BY <1>1 DEF GroupFrame
<1>4. /\ task'[w].msg = f.msg /\ task'[w].scan = f.users /\ task'[w].ask = {} /\ task'[w].off = {}
      /\ task'[w].local = {} /\ \A n \in Node : task'[w].route[n] = {}
  BY <1>3 DEF NoTask
<1>5. \A i, j, o : j \in GroupWorker \ {w} => \A u : InList(task'[j], i, j, o, m, u) = InList(task[j], i, j, o, m, u)
  BY <1>2 DEF OthersTasks
<1>6. ASSUME NEW u \in User PROVE Keeps(m, u) \/ \E l, p, y, k, a, b : Moves(m, u, l, p, y, k, a, b)
  <2>1. \A i, o : InList(task'[w], i, w, o, m, u) => i = "scan" /\ o = w /\ f.msg = m /\ u \in f.users
    BY <1>4 DEF InList
  <2>2. \A i, j, o : Outside(i, j, o, m, u)' => Outside(i, j, o, m, u) /\ ~(i = "wire" /\ j = f /\ o = f)
    BY <1>2, <1>3 DEF Outside
  <2>3. CASE f.msg = m /\ u \in f.users
    <3>1. Outside("wire", f, f, m, u)
      BY <2>3 DEF Outside
    <3>2. ASSUME NEW i, NEW j, NEW o, Spot(i, j, o, m, u)'
          PROVE  \/ Spot(i, j, o, m, u) /\ ~(i = "wire" /\ j = f /\ o = f)
                 \/ i = "scan" /\ j = w /\ o = w
      <4>1. CASE Outside(i, j, o, m, u)'
        BY <2>2, <4>1 DEF Spot
      <4>2. CASE j \in GroupWorker \ {w} /\ InList(task'[j], i, j, o, m, u)
        <5>1. i # "wire" /\ Spot(i, j, o, m, u)
          BY <1>5, <4>2, ListNames DEF Spot, Lists
        <5> QED BY <5>1
      <4> QED BY <2>1, <3>2, <4>1, <4>2 DEF Spot
    <3>3. Spot("wire", f, f, m, u)
      BY <3>1 DEF Spot
    <3>4. Moves(m, u, "wire", f, f, "scan", w, w)
      BY <3>2, <3>3 DEF Moves
    <3> QED BY <3>4
  <2>4. CASE ~(f.msg = m /\ u \in f.users)
    <3>1. \A i, j, o : Spot(i, j, o, m, u)' => Spot(i, j, o, m, u)
      BY <1>5, <2>1, <2>2, <2>4 DEF Spot
    <3> QED BY <3>1 DEF Keeps
  <2> QED BY <2>3, <2>4
<1> QED BY <1>1, <1>2, <1>6, LiveKept, ApartStep

(* A message sent to a group starts in the handler's list, and was nowhere before *)
LEMMA GroupApart ==
    ASSUME GroupInv, NEW w \in GroupWorker, NEW x \in Msg, Group(w, x), NEW m \in Msg PROVE Apart(m)'
<1>1. task \in [GroupWorker -> Task] /\ Apart(m)
  BY TaskFacts
<1>2. OthersTasks(w) /\ UNCHANGED <<job, frames, gframes, ghanded, offline>> /\ sent' = sent \union {x} /\ x \notin sent
  BY <1>1 DEF Group, OthersTasks
<1>3. task'[w] = [NoTask EXCEPT !.kind = "group", !.msg = x, !.scan = Members[x]]
  BY <1>1 DEF Group
<1>4. /\ task'[w].msg = x /\ task'[w].scan = Members[x] /\ task'[w].ask = {} /\ task'[w].off = {}
      /\ task'[w].local = {} /\ \A n \in Node : task'[w].route[n] = {}
  BY <1>3 DEF NoTask
<1>5. \A i, o, u : InList(task'[w], i, w, o, m, u) => i = "scan" /\ o = w /\ m = x
  BY <1>4 DEF InList
<1>6. ASSUME NEW u, NEW i, NEW j, NEW o, Spot(i, j, o, m, u)'
      PROVE  Spot(i, j, o, m, u) \/ (i = "scan" /\ j = w /\ o = w /\ m = x)
  <2>1. CASE Outside(i, j, o, m, u)'
    <3>1. Outside(i, j, o, m, u)
      BY <1>2, <2>1 DEF Outside
    <3> QED BY <3>1 DEF Spot
  <2>2. CASE j \in GroupWorker \ {w} /\ InList(task'[j], i, j, o, m, u)
    BY <1>2, <2>2 DEF OthersTasks, Spot
  <2> QED BY <1>5, <1>6, <2>1, <2>2 DEF Spot
<1>7. Live(m)' = Live(m)
  BY <1>2 DEF Live, Flying
<1>8. CASE m = x
  <2>1. ~Live(m) /\ \A u \in User : \A l, y, z : ~Spot(l, y, z, m, u)
    BY <1>1, <1>2, <1>8 DEF Apart
  <2> QED BY <1>2, <1>6, <1>7, <1>8, <2>1 DEF Apart
<1>9. CASE m # x
  <2>1. \A u \in User : \A l, y, z : Spot(l, y, z, m, u)' => Spot(l, y, z, m, u)
    BY <1>6, <1>9
  <2>2. m \in sent' <=> m \in sent
    BY <1>2, <1>9
  <2> QED BY <1>1, <1>7, <2>1, <2>2 DEF Apart
<1> QED BY <1>8, <1>9

LEMMA GroupStepApart ==
    ASSUME GroupInv, NEW w \in GroupWorker,
           GroupStep(w) \/ GroupFrame(w) \/ (\E x \in Msg : Group(w, x)), NEW m \in Msg
    PROVE  Apart(m)'
<1>1. CASE Ask(w) \/ AskSelf(w) \/ FrameQuery(w) \/ FrameUnbind(w)
  <2>1. UNCHANGED <<task, gframes, ghanded, offline, sent, job, frames>>
    BY <1>1 DEF Ask, AskSelf, FrameQuery, FrameUnbind, serviceVars, groupVars
  <2>2. \A u : Keeps(m, u)
    BY <2>1 DEF Keeps, Spot, Outside
  <2> QED BY <2>1, <2>2, TaskFacts, LiveKept, ApartStep
<1>2. CASE Leaves(w)
  <2>1. task \in [GroupWorker -> Task] /\ UNCHANGED <<gframes, ghanded, offline, sent, job, frames>>
        /\ task' = [task EXCEPT ![w] = NoTask]
    BY <1>2, TaskFacts DEF Leaves, vars, serviceVars
  <2>2. OthersTasks(w) /\ \A i, o, u : ~InList(task'[w], i, w, o, m, u)
    BY <2>1 DEF OthersTasks, InList, NoTask
  <2>3. \A u : Keeps(m, u)
    BY <2>1, <2>2, KeepsTask DEF Outside
  <2> QED BY <2>1, <2>3, TaskFacts, LiveKept, ApartStep
<1> QED BY <1>1, <1>2, ScanApart, AskApart, SendLocalApart, StoreApart, RouteApart, FrameUserApart, GroupFrameApart,
           GroupApart DEF GroupStep

(* What the rest of the service does to a message: it goes on the live path only when    *)
(* it is sent, and is stored only from there                                          *)
LEMMA NextCarries ==
    ASSUME Typed, Next, NEW m \in Msg
    PROVE  /\ Live(m)' => Live(m) \/ (m \notin sent /\ m \in sent')
           /\ m \in sent => m \in sent'
           /\ \A u \in User : m \in offline'[u] => m \in offline[u] \/ Live(m)
<1>1. /\ job \in [Actor -> Job] /\ offline \in [User -> SUBSET Msg] /\ frames \in [Node -> SUBSET Msg]
      /\ Conn \union Worker \subseteq Actor /\ Conn \intersect Worker = {} /\ HomeOf \in [Actor -> Node]
  BY DEF Typed, ServiceTypeOK
<1> DEFINE Carries == /\ Live(m)' => Live(m) \/ (m \notin sent /\ m \in sent')
                      /\ m \in sent => m \in sent'
                      /\ \A u \in User : m \in offline'[u] => m \in offline[u] \/ Live(m)
<1>2. ASSUME sent' = sent, \A n \in Node : m \in frames'[n] => m \in frames[n],
             \A w \in Worker : m \in job'[w].hand => m \in job[w].hand,
             \A u \in User : m \in offline'[u] => m \in offline[u] \/ Live(m)
      PROVE  Carries
  BY <1>2 DEF Live, Flying
<1>3. CASE RegistryNext
  BY <1>2, <1>3 DEF RegistryNext, serviceVars
<1>4. ASSUME NEW c \in Conn, ConnNext(c) PROVE Carries
  <2>1. sent' = sent /\ frames' = frames
    BY <1>4 DEF ConnNext, LoginStep, Connect, Logout, Close, LeaveState, Login, LoginReject, LoginReset,
       LoginAdd, LoginUndo, LoginOnline, LoginOfflineQuery, LoginOfflineRemove, LoginAck
  <2>2. \A w \in Worker : job'[w] = job[w]
    <3>1. \/ job' = job \/ Return(c) \/ (\E u : Leave(c, u)) \/ (\E q : job' = [job EXCEPT ![c] = q])
          \/ (\E q : job' = [job EXCEPT ![c].seen = q]) \/ (\E q : job' = [job EXCEPT ![c].hand = q])
      BY <1>4 DEF ConnNext, LoginStep, Connect, Logout, Close, LeaveState, Login, LoginReject, LoginReset,
         LoginAdd, LoginUndo, LoginOnline, LoginOfflineQuery, LoginOfflineRemove, LoginAck
    <3> QED BY <1>1, <3>1 DEF Return, Leave
  <2>3. offline' = offline \/ offline' = [offline EXCEPT ![call[c].user] = {}]
    BY <1>4 DEF ConnNext, LoginStep, Connect, Logout, Close, LeaveState, Login, LoginReject, LoginReset,
       LoginAdd, LoginUndo, LoginOnline, LoginOfflineQuery, LoginOfflineRemove, LoginAck
  <2> QED BY <1>1, <1>2, <2>1, <2>2, <2>3
<1>5. ASSUME NEW w \in Worker, WorkerNext(w) PROVE Carries
  <2>0. w \in Actor /\ job[w] \in Job
    BY <1>1
  <2>1. CASE ChatStale(w) \/ FrameStale(w) \/ ChatSendFail(w)
    BY <1>2, <2>1 DEF ChatStale, FrameStale, ChatSendFail, serviceVars
  <2>2. CASE ChatSend(w)
    <3>1. /\ frames' = [frames EXCEPT ![call[w].route.node] = @ \union job[w].hand]
          /\ job' = [job EXCEPT ![w] = NoJob] /\ sent' = sent /\ offline' = offline
      BY <2>2 DEF ChatSend, Return
    <3>2. \A v \in Worker : m \in job'[v].hand => m \in job[v].hand
      BY <1>1, <3>1 DEF NoJob
    <3>3. \A n \in Node : m \in frames'[n] => m \in frames[n] \/ m \in job[w].hand
      BY <1>1, <3>1
    <3> QED BY <3>1, <3>2, <3>3 DEF Live, Flying
  <2>3. CASE OfflineStore(w)
    <3>1. /\ offline' = [offline EXCEPT ![call[w].user] = @ \union job[w].hand]
          /\ job' = [job EXCEPT ![w] = NoJob] /\ sent' = sent /\ frames' = frames
      BY <2>3 DEF OfflineStore, Return
    <3>2. \A v \in Worker : m \in job'[v].hand => m \in job[v].hand
      BY <1>1, <3>1 DEF NoJob
    <3>3. \A u \in User : m \in offline'[u] => m \in offline[u] \/ m \in job[w].hand
      BY <1>1, <3>1
    <3> QED BY <1>2, <3>1, <3>2, <3>3 DEF Live
  <2>4. ASSUME NEW x \in Msg, Chat(w, x) PROVE Carries
    <3>1. sent' = sent \union {x} /\ x \notin sent /\ UNCHANGED <<offline, frames>>
          /\ (job' = job \/ job' = [job EXCEPT ![w].kind = "chat", ![w].hand = {x}])
      BY <2>4 DEF Chat
    <3>2. \A v \in Worker : m \in job'[v].hand => m \in job[v].hand \/ m = x
      <4>1. CASE job' = job
        BY <4>1
      <4>2. CASE job' = [job EXCEPT ![w].kind = "chat", ![w].hand = {x}]
        BY <1>1, <2>0, <4>2 DEF Job
      <4> QED BY <3>1, <4>1, <4>2
    <3> QED BY <3>1, <3>2 DEF Live, Flying
  <2>5. ASSUME NEW x \in Msg, Frame(w, x) PROVE Carries
    <3>1. sent' = sent /\ UNCHANGED offline /\ x \in frames[HomeOf[w]]
          /\ frames' = [frames EXCEPT ![HomeOf[w]] = @ \ {x}]
          /\ (job' = job \/ job' = [job EXCEPT ![w].kind = "frame", ![w].hand = {x}])
      BY <2>5 DEF Frame
    <3>2. \A v \in Worker : m \in job'[v].hand => m \in job[v].hand \/ m = x
      BY <1>1, <2>0, <3>1 DEF Job
    <3>3. Live(x) /\ \A n \in Node : m \in frames'[n] => m \in frames[n]
      BY <1>1, <2>0, <3>1 DEF Live, Flying
    <3> QED BY <3>1, <3>2, <3>3 DEF Live, Flying
  <2> QED BY <1>5, <2>1, <2>2, <2>3, <2>4, <2>5 DEF WorkerNext, WorkerStep
<1>6. ASSUME NEW n \in Node, ResetStep(n) \/ Crash(n) PROVE Carries
  <2>1. CASE Gone(n)
    BY <1>1, <1>2, <2>1 DEF Gone, NoJob
  <2>2. CASE ~Gone(n)
    BY <1>2, <1>6, <2>2 DEF ResetStep, ResetBegin, ResetStop, ResetJoin, ResetDel, ResetSrem,
     ResetUnregister, ResetClear, ResetState, ResetExit, Crash, SetCtl, serviceVars
  <2> QED BY <2>1, <2>2
<1> QED BY <1>3, <1>4, <1>5, <1>6 DEF Next

LEMMA ServiceApart == ASSUME GroupInv, Service, NEW m \in Msg PROVE Apart(m)'
<1>1. Typed /\ Next /\ Apart(m)
  BY DEF GroupInv, GroupTyped, Service
<1>2. /\ Live(m)' => Live(m) \/ (m \notin sent /\ m \in sent')
      /\ m \in sent => m \in sent'
      /\ \A u \in User : m \in offline'[u] => m \in offline[u] \/ Live(m)
  BY <1>1, NextCarries
<1>3. \A w \in GroupWorker : task'[w] \in {NoTask, task[w]}
  BY DEF Service
<1>4. \A l, x, y, u : ~InList(NoTask, l, x, y, m, u)
  BY DEF InList, NoTask
<1>5. gframes' \subseteq gframes /\ ghanded' = ghanded
  BY DEF Service
<1>6. ASSUME NEW u \in User, NEW l, NEW x, NEW y, Spot(l, x, y, m, u)'
      PROVE  Spot(l, x, y, m, u) \/ (l = "offline" /\ x = m /\ y = u /\ Live(m))
  <2>1. CASE x \in GroupWorker /\ InList(task'[x], l, x, y, m, u)
    BY <1>3, <1>4, <2>1 DEF Spot
  <2>2. CASE Outside(l, x, y, m, u)'
    BY <1>2, <1>5, <2>2 DEF Spot, Outside
  <2> QED BY <1>6, <2>1, <2>2 DEF Spot
<1>7. \A u \in User : \A l, x, y : Spot(l, x, y, m, u) /\ l = "offline" => x = m /\ y = u
  BY DEF Spot, Outside, InList
<1>8. m \notin sent' => ~Live(m)' /\ \A u \in User : \A l, x, y : ~Spot(l, x, y, m, u)'
  BY <1>1, <1>2, <1>6 DEF Apart
<1>9. Live(m)' => \A u \in User : \A l, x, y : Spot(l, x, y, m, u)' => l = "offline"
  BY <1>1, <1>2, <1>6 DEF Apart
<1>10. ASSUME NEW u \in User, NEW l, NEW x, NEW y, NEW k, NEW a, NEW b,
              Spot(l, x, y, m, u)', Spot(k, a, b, m, u)'
       PROVE  l = k /\ x = a /\ y = b
  BY <1>1, <1>6, <1>7, <1>10 DEF Apart
<1> QED BY <1>8, <1>9, <1>10 DEF Apart

LEMMA GroupNextApart == ASSUME GroupInv, [GroupNext]_gvars PROVE GroupInv'
<1>1. GroupTyped'
  BY GroupNextTyped DEF GroupInv
<1>2. ASSUME NEW m \in Msg PROVE Apart(m)'
  <2>1. CASE UNCHANGED gvars
    <3>1. UNCHANGED <<task, gframes, ghanded, offline, sent, job, frames>>
      BY <2>1 DEF gvars, groupVars, vars, serviceVars
    <3>2. \A u : Keeps(m, u)
      BY <3>1 DEF Keeps, Spot, Outside
    <3> QED BY <3>1, <3>2, LiveKept, ApartStep DEF GroupInv
  <2> QED BY <2>1, ServiceApart, GroupStepApart DEF GroupNext
<1> QED BY <1>1, <1>2 DEF GroupInv

LEMMA GroupInvReached == GroupSpec => []GroupInv
<1>1. ASSUME GroupInit, NEW m \in Msg PROVE Apart(m)
  <2>1. ~Live(m)
    BY <1>1 DEF GroupInit, Init, Live, Flying, NoJob
  <2>2. \A u \in User : \A l, x, y : ~Spot(l, x, y, m, u)
    BY <1>1 DEF GroupInit, Init, Spot, Outside, InList, NoTask
  <2> QED BY <2>1, <2>2 DEF Apart
<1>2. GroupInit => GroupInv
  BY <1>1, GroupInitTyped DEF GroupInv
<1> QED BY <1>2, GroupNextApart, PTL DEF GroupSpec

(* groupChat and handleClusterGroupChat: whatever routes, sessions and processes do       *)
(* between a handler's walks, and though a bucket that could not be sent falls back as a    *)
(* whole, the copy of a group message for one member is in one list, in the frames of one   *)
(* node, handed over or stored: no member gets it twice.                                  *)
THEOREM OneCopyPerMember == GroupSpec => []GroupCopyUnique
<1>1. ASSUME GroupInv, NEW m \in Msg, NEW u \in User, NEW p \in CopyPlaces(m, u), NEW q \in CopyPlaces(m, u)
      PROVE  p = q
  <2> DEFINE Place(l, x, y) == IF l \in {"scan", "ask", "off"} THEN <<x, l>>
                               ELSE IF l \in {"local", "route"} THEN <<x, y>>
                               ELSE IF l = "wire" THEN <<x.to, "wire">> ELSE <<l, "done">>
  <2>1. ASSUME NEW r \in CopyPlaces(m, u) PROVE \E l, x, y : Spot(l, x, y, m, u) /\ r = Place(l, x, y)
    <3>1. ASSUME r \in GroupWorker \X {"scan", "ask", "off"}, task[r[1]].msg = m, u \in task[r[1]][r[2]]
          PROVE  \E l, x, y : Spot(l, x, y, m, u) /\ r = Place(l, x, y)
      <4>1. PICK w \in GroupWorker, l \in {"scan", "ask", "off"} : r = <<w, l>>
        BY <3>1
      <4>2. InList(task[w], l, w, w, m, u)
        BY <3>1, <4>1 DEF InList
      <4> QED BY <4>1, <4>2 DEF Spot
    <3>2. ASSUME r \in GroupWorker \X Conn, task[r[1]].msg = m, <<u, r[2]>> \in task[r[1]].local
          PROVE  \E l, x, y : Spot(l, x, y, m, u) /\ r = Place(l, x, y)
      <4>1. PICK w \in GroupWorker, c \in Conn : r = <<w, c>>
        BY <3>2
      <4>2. InList(task[w], "local", w, c, m, u)
        BY <3>2, <4>1 DEF InList
      <4> QED BY <4>1, <4>2 DEF Spot
    <3>3. ASSUME r \in GroupWorker \X Node, task[r[1]].msg = m, u \in task[r[1]].route[r[2]]
          PROVE  \E l, x, y : Spot(l, x, y, m, u) /\ r = Place(l, x, y)
      <4>1. PICK w \in GroupWorker, n \in Node : r = <<w, n>>
        BY <3>3
      <4>2. InList(task[w], "route", w, n, m, u)
        BY <3>3, <4>1 DEF InList
      <4> QED BY <4>1, <4>2 DEF Spot
    <3>4. ASSUME NEW f \in gframes, r = <<f.to, "wire">>, f.msg = m, u \in f.users
          PROVE  \E l, x, y : Spot(l, x, y, m, u) /\ r = Place(l, x, y)
      <4>1. Spot("wire", f, f, m, u)
        BY <3>4 DEF Spot, Outside
      <4> QED BY <3>4, <4>1
    <3>5. ASSUME r = <<"handed", "done">>, <<m, u>> \in ghanded
          PROVE  \E l, x, y : Spot(l, x, y, m, u) /\ r = Place(l, x, y)
      <4>1. Spot("handed", m, u, m, u)
        BY <3>5 DEF Spot, Outside
      <4> QED BY <3>5, <4>1
    <3>6. ASSUME r = <<"offline", "done">>, m \in offline[u]
          PROVE  \E l, x, y : Spot(l, x, y, m, u) /\ r = Place(l, x, y)
      <4>1. Spot("offline", m, u, m, u)
        BY <3>6 DEF Spot, Outside
      <4> QED BY <3>6, <4>1
    <3> HIDE DEF Place
    <3>7. \/ r \in GroupWorker \X {"scan", "ask", "off"} /\ task[r[1]].msg = m /\ u \in task[r[1]][r[2]]
          \/ r \in GroupWorker \X Conn /\ task[r[1]].msg = m /\ <<u, r[2]>> \in task[r[1]].local
          \/ r \in GroupWorker \X Node /\ task[r[1]].msg = m /\ u \in task[r[1]].route[r[2]]
          \/ \E f \in gframes : r = <<f.to, "wire">> /\ f.msg = m /\ u \in f.users
          \/ r = <<"handed", "done">> /\ <<m, u>> \in ghanded
          \/ r = <<"offline", "done">> /\ m \in offline[u]
      BY <2>1 DEF CopyPlaces
    <3> QED BY <3>1, <3>2, <3>3, <3>4, <3>5, <3>6, <3>7
  <2> HIDE DEF Place
  <2>2. PICK l, x, y : Spot(l, x, y, m, u) /\ p = Place(l, x, y)
    BY <2>1
  <2>3. PICK k, a, b : Spot(k, a, b, m, u) /\ q = Place(k, a, b)
    BY <2>1
  <2>4. l = k /\ x = a /\ y = b
    BY <1>1, <2>2, <2>3 DEF GroupInv, Apart
  <2> QED BY <2>2, <2>3, <2>4
<1>2. GroupInv => GroupCopyUnique
  BY <1>1 DEF GroupCopyUnique
<1> QED BY <1>2, GroupInvReached, PTL

-----------------------------------------------------------------------------
(* Nothing is lost.  A copy is in a list of a handler, or outside of them *)
Has(t, m, u) ==
    /\ t.msg = m
    /\ \/ u \in t.scan \/ u \in t.ask \/ u \in t.off
       \/ \E c \in Conn : <<u, c>> \in t.local
       \/ \E n \in Node : u \in t.route[n]

Away(m, u) ==
    \/ \E f \in gframes : f.msg = m /\ u \in f.users
    \/ <<m, u>> \in ghanded
    \/ m \in offline[u]

Placed(m, u) == (\E w \in GroupWorker : Has(task[w], m, u)) \/ Away(m, u)

(* No process ends: none begins a shutdown.  A handler that returned left nothing in    *)
(* its lists                                                                           *)
Undying ==
    /\ \A n \in Node : proc[n].ctl \in {"down", "warm", "up"} /\ proc[n].cur = None
    /\ \A w \in GroupWorker : Doing(w, "none") => task[w] = NoTask

LEMMA PlacesPlaced ==
    GroupTyped => \A m \in Msg, u \in User : CopyPlaces(m, u) # {} <=> Placed(m, u)
<1> SUFFICES ASSUME GroupTyped, NEW m \in Msg, NEW u \in User PROVE CopyPlaces(m, u) # {} <=> Placed(m, u)
  OBVIOUS
<1>1. ASSUME NEW p \in CopyPlaces(m, u) PROVE Placed(m, u)
  BY <1>1 DEF CopyPlaces, Placed, Has, Away
<1>2. ASSUME Placed(m, u) PROVE CopyPlaces(m, u) # {}
  <2>1. ASSUME NEW w \in GroupWorker, NEW l \in {"scan", "ask", "off"}, task[w].msg = m, u \in task[w][l]
        PROVE  <<w, l>> \in CopyPlaces(m, u)
    BY <2>1 DEF CopyPlaces
  <2>2. ASSUME NEW w \in GroupWorker, NEW c \in Conn, task[w].msg = m, <<u, c>> \in task[w].local
        PROVE  <<w, c>> \in CopyPlaces(m, u)
    BY <2>2 DEF CopyPlaces
  <2>3. ASSUME NEW w \in GroupWorker, NEW n \in Node, task[w].msg = m, u \in task[w].route[n]
        PROVE  <<w, n>> \in CopyPlaces(m, u)
    BY <2>3 DEF CopyPlaces
  <2>4. ASSUME NEW f \in gframes, f.msg = m, u \in f.users PROVE <<f.to, "wire">> \in CopyPlaces(m, u)
    <3>1. f.to \in Node
      BY DEF GroupTyped
    <3> QED BY <2>4, <3>1 DEF CopyPlaces
  <2>5. ASSUME <<m, u>> \in ghanded PROVE <<"handed", "done">> \in CopyPlaces(m, u)
    BY <2>5 DEF CopyPlaces
  <2>6. ASSUME m \in offline[u] PROVE <<"offline", "done">> \in CopyPlaces(m, u)
    BY <2>6 DEF CopyPlaces
  <2>7. CASE Away(m, u)
    BY <2>4, <2>5, <2>6, <2>7 DEF Away
  <2>8. ASSUME NEW w \in GroupWorker, Has(task[w], m, u) PROVE CopyPlaces(m, u) # {}
    <3>1. CASE \E l \in {"scan", "ask", "off"} : u \in task[w][l]
      BY <2>1, <2>8, <3>1 DEF Has
    <3> QED BY <2>2, <2>3, <2>8, <3>1 DEF Has
  <2> QED BY <1>2, <2>7, <2>8 DEF Placed
<1> QED BY <1>1, <1>2

LEMMA PlacesPlacedNext ==
    (GroupTyped => \A m \in Msg, u \in User : CopyPlaces(m, u) # {} <=> Placed(m, u))'
BY PlacesPlaced, PTL

(* Only the handler w moves *)
LEMMA StaysPlaced ==
    ASSUME NEW w \in GroupWorker, OthersTasks(w), NEW m, NEW u, Placed(m, u),
           Has(task[w], m, u) => Has(task'[w], m, u) \/ Away(m, u)',
           Away(m, u) => Away(m, u)' \/ Has(task'[w], m, u)
    PROVE  Placed(m, u)'
<1>1. \A x \in GroupWorker \ {w} : Has(task'[x], m, u) = Has(task[x], m, u)
  BY DEF OthersTasks, Has
<1> QED BY <1>1 DEF Placed

(* Without shutdowns and crashes a process that runs stays *)
LEMMA NobodyEnds ==
    ASSUME Typed, Undying, CrashNodes = {}, ResetNodes = {}, Next
    PROVE  \A n \in Node : proc'[n].ctl \in {"down", "warm", "up"} /\ proc'[n].cur = None /\ ~Ends(n)
<1>1. /\ proc \in [Node -> Process] /\ RegistryInv
      /\ \A n \in Node : proc[n].ctl \in {"down", "warm", "up"} /\ proc[n].cur = None
  BY DEF Typed, RegistryInv, CallPart, Undying
<1>2. CASE proc' = proc
  BY <1>1, <1>2 DEF Ends
<1>3. CASE proc' # proc
  <2>1. ASSUME NEW c \in Conn PROVE ~ConnNext(c)
    BY <1>3 DEF ConnNext, LoginStep, Connect, Logout, Close, LeaveState, Login, LoginReject, LoginReset,
         LoginAdd, LoginUndo, LoginOnline, LoginOfflineQuery, LoginOfflineRemove, LoginAck, registryVars
  <2>2. ASSUME NEW w \in Worker PROVE ~WorkerNext(w)
    BY <1>3 DEF WorkerNext, WorkerStep, ChatStale, ChatSend, ChatSendFail, FrameStale, OfflineStore, Chat, Frame
  <2>3. ASSUME NEW n \in Node PROVE ~ResetStep(n) /\ ~Crash(n)
    BY <1>1 DEF ResetStep, ResetBegin, ResetStop, ResetJoin, ResetDel, ResetSrem, ResetUnregister,
       ResetClear, ResetState, ResetExit, Crash
  <2>4. ASSUME NEW a \in Actor PROVE ~RegistryStep(a)
    BY <1>1, <1>3, RegistryStepOK
  <2>5. PICK k \in Node : Boot(k) \/ BootWarm(k) \/ HeartbeatWake(k) \/ HeartbeatRenew(k)
    BY <1>3, <2>1, <2>2, <2>3, <2>4 DEF Next, RegistryNext, ExpireDeadNode, ExpireRoute, ExpireMeta, registryVars
  <2>6. (proc'[k].ctl = proc[k].ctl \/ proc'[k].ctl \in {"warm", "up"}) /\ proc'[k].cur = None
    <3>1. proc[k] \in Process /\ proc[k].cur = None
      BY <1>1
    <3>2. CASE Boot(k)
      BY <1>1, <3>2 DEF Boot, NoProcess
    <3>3. CASE BootWarm(k)
      BY <1>1, <3>1, <3>3 DEF BootWarm, Process
    <3>4. CASE HeartbeatWake(k) \/ HeartbeatRenew(k)
      <4>1. \E h : proc' = [proc EXCEPT ![k].hb = h]
        BY <3>4 DEF HeartbeatWake, HeartbeatRenew
      <4> QED BY <1>1, <3>1, <4>1 DEF Process
    <3> QED BY <2>5, <3>2, <3>3, <3>4
  <2>7. \A n \in Node \ {k} : proc'[n] = proc[n]
    BY <1>1, <2>5 DEF Boot, BootWarm, HeartbeatWake, HeartbeatRenew
  <2> QED BY <1>1, <2>6, <2>7 DEF Ends
<1> QED BY <1>2, <1>3

(* Only the last step of a login takes stored messages away *)
LEMMA StoredStays ==
    ASSUME Typed, CrashNodes = {}, ResetNodes = {}, Undying, Next,
           NEW m \in Msg, NEW u \in User, m \in offline[u], m \notin offline'[u]
    PROVE  \E c \in Conn : At(c, "offlineRemove") /\ call[c].user = u
<1>1. offline \in [User -> SUBSET Msg]
  BY DEF Typed, ServiceTypeOK
<1>2. CASE RegistryNext
  BY <1>2 DEF RegistryNext, serviceVars
<1>3. ASSUME NEW c \in Conn, ConnNext(c) PROVE At(c, "offlineRemove") /\ call[c].user = u
  <2>1. LoginOfflineRemove(c)
    BY <1>3 DEF ConnNext, LoginStep, Connect, Logout, Close, LeaveState, Login, LoginReject, LoginReset,
       LoginAdd, LoginUndo, LoginOnline, LoginOfflineQuery, LoginAck
  <2> QED BY <1>1, <2>1 DEF LoginOfflineRemove
<1>4. ASSUME NEW w \in Worker PROVE ~WorkerNext(w)
  <2>1. ~OfflineStore(w)
    BY <1>1 DEF OfflineStore
  <2> QED BY <2>1 DEF WorkerNext, WorkerStep, ChatStale, ChatSend, ChatSendFail, FrameStale, Chat, Frame, serviceVars
<1>5. ASSUME NEW n \in Node PROVE ~ResetStep(n) /\ ~Crash(n)
  BY DEF Undying, ResetStep, ResetBegin, ResetStop, ResetJoin, ResetDel, ResetSrem, ResetUnregister,
     ResetClear, ResetState, ResetExit, Crash
<1> QED BY <1>2, <1>3, <1>4, <1>5 DEF Next

LEMMA UndyingKept ==
    ASSUME GroupTyped, Undying, CrashNodes = {}, ResetNodes = {}, [GroupNext]_gvars
    PROVE  Undying'
<1>1. task \in [GroupWorker -> Task] /\ Typed
  BY DEF GroupTyped
<1>2. CASE UNCHANGED gvars
  BY <1>2 DEF gvars, groupVars, vars, registryVars, Undying, Doing
<1>3. CASE Service
  <2>1. \A n \in Node : proc'[n].ctl \in {"down", "warm", "up"} /\ proc'[n].cur = None
    BY <1>1, <1>3, NobodyEnds DEF Service
  <2>2. \A w \in GroupWorker : task'[w] \in {NoTask, task[w]}
    BY <1>3 DEF Service
  <2> QED BY <2>1, <2>2 DEF Undying, Doing
<1>4. ASSUME NEW w \in GroupWorker, GroupStep(w) \/ GroupFrame(w) \/ \E m \in Msg : Group(w, m)
      PROVE  Undying'
  <2>1. proc' = proc /\ OthersTasks(w)
    BY <1>1, <1>4, Zenon DEF GroupStep, GroupFrame, Group, Scan, Ask, AskSelf, AskRemote, AskOffline, SendLocal,
       StoreOffline, FrameHand, FrameQuery, FrameUnbind, FrameStore, Leaves, RouteSend, RouteFail, vars,
       registryVars, groupVars, OthersTasks
  <2>2. task'[w].kind # "none" \/ task'[w] = NoTask
    <3>1. CASE Leaves(w)
      BY <1>1, <3>1 DEF Leaves
    <3>2. CASE GroupFrame(w) \/ \E m \in Msg : Group(w, m)
      <4>1. \/ \E x, us : task'[w] = [NoTask EXCEPT !.kind = "group", !.msg = x, !.scan = us]
            \/ \E x, us : task'[w] = [NoTask EXCEPT !.kind = "frame", !.msg = x, !.scan = us]
        BY <1>1, <3>2 DEF GroupFrame, Group
      <4> QED BY <4>1 DEF NoTask
    <3>3. CASE Ask(w) \/ AskSelf(w) \/ FrameQuery(w) \/ FrameUnbind(w)
      BY <3>3 DEF Ask, AskSelf, FrameQuery, FrameUnbind, groupVars, Doing
    <3>4. CASE Scan(w) \/ AskRemote(w) \/ AskOffline(w) \/ SendLocal(w) \/ StoreOffline(w)
               \/ FrameHand(w) \/ FrameStore(w) \/ \E k \in Node : RouteSend(w, k) \/ RouteFail(w, k)
      <4>1. task[w] \in Task /\ ~Doing(w, "none")
        BY <1>1, <3>4 DEF Scan, AskRemote, AskOffline, SendLocal, StoreOffline, FrameHand, FrameStore,
           RouteSend, RouteFail, Bucket, Sorted, Resolved, Doing
      <4>2. task'[w].kind = task[w].kind
        <5>1. CASE Scan(w)
          <6>1. PICK a, b : \/ task' = [task EXCEPT ![w].scan = a, ![w].local = b]
                            \/ task' = [task EXCEPT ![w].scan = a, ![w].ask = b]
            BY <5>1 DEF Scan
          <6>2. CASE task' = [task EXCEPT ![w].scan = a, ![w].local = b]
            BY <1>1, <4>1, <6>2 DEF Task
          <6>3. CASE task' = [task EXCEPT ![w].scan = a, ![w].ask = b]
            BY <1>1, <4>1, <6>3 DEF Task
          <6> QED BY <6>1, <6>2, <6>3
        <5>7. CASE FrameHand(w) \/ FrameStore(w)
          <6>1. \E a : task' = [task EXCEPT ![w].scan = a]
            BY <5>7 DEF FrameHand, FrameStore
          <6> QED BY <1>1, <4>1, <6>1 DEF Task
        <5>2. CASE AskRemote(w)
          BY <1>1, <4>1, <5>2 DEF AskRemote, Task
        <5>3. CASE AskOffline(w)
          BY <1>1, <4>1, <5>3 DEF AskOffline, Task
        <5>4. CASE SendLocal(w) \/ StoreOffline(w)
          BY <1>1, <4>1, <5>4 DEF SendLocal, StoreOffline, Task
        <5>5. ASSUME NEW k \in Node, RouteSend(w, k) PROVE task'[w].kind = task[w].kind
          BY <1>1, <4>1, <5>5 DEF RouteSend, Task
        <5>6. ASSUME NEW k \in Node, RouteFail(w, k) PROVE task'[w].kind = task[w].kind
          BY <1>1, <4>1, <5>6 DEF RouteFail, Task
        <5> QED BY <3>4, <5>1, <5>2, <5>3, <5>4, <5>5, <5>6, <5>7
      <4> QED BY <4>1, <4>2 DEF Doing
    <3> QED BY <1>4, <3>1, <3>2, <3>3, <3>4 DEF GroupStep
  <2> QED BY <2>1, <2>2 DEF Undying, OthersTasks, Doing
<1> QED BY <1>2, <1>3, <1>4 DEF GroupNext

(* What a handler drops: a message for a connection that is down *)
Dropped(m, u) == \E w \in GroupWorker, c \in Conn \ open : task[w].msg = m /\ <<u, c>> \in task[w].local

LEMMA HandlersKeep ==
    ASSUME GroupInv, Undying, NEW w \in GroupWorker,
           GroupStep(w) \/ GroupFrame(w) \/ (\E x \in Msg : Group(w, x)),
           NEW m \in Msg, NEW u \in User, Placed(m, u), ~Dropped(m, u)
    PROVE  Placed(m, u)'
<1>1. /\ task \in [GroupWorker -> Task] /\ task[w] \in Task /\ TaskOK(w) /\ HomeOf[w] \in Node
      /\ offline \in [User -> SUBSET Msg] /\ task[w].route \in [Node -> SUBSET User]
      /\ task[w].local \in SUBSET (User \X Conn)
  BY TaskFacts DEF Task
<1>2. OthersTasks(w)
  BY <1>1, Zenon DEF GroupStep, GroupFrame, Group, Scan, Ask, AskSelf, AskRemote, AskOffline, SendLocal,
     StoreOffline, FrameHand, FrameQuery, FrameUnbind, FrameStore, Leaves, RouteSend, RouteFail,
     groupVars, OthersTasks
<1> DEFINE S == task[w]
           T == task'[w]
<1>3. ASSUME UNCHANGED <<gframes, ghanded, offline>>, Has(S, m, u) => Has(T, m, u) PROVE Placed(m, u)'
  BY <1>2, <1>3, StaysPlaced DEF Away
<1>4. CASE Ask(w) \/ AskSelf(w) \/ FrameQuery(w) \/ FrameUnbind(w)
  BY <1>3, <1>4 DEF Ask, AskSelf, FrameQuery, FrameUnbind, serviceVars, groupVars
<1>5. CASE Leaves(w)
  <2>1. ~Has(S, m, u)
    BY <1>5 DEF Leaves, NoTask, Has
  <2> QED BY <1>3, <1>5, <2>1 DEF Leaves, vars, serviceVars
<1>6. CASE Scan(w)
  <2>1. PICK v \in S.scan :
          LET c == userConnMap[HomeOf[w]][v]
          IN  IF c # None
              THEN task' = [task EXCEPT ![w].scan = @ \ {v}, ![w].local = @ \union {<<v, c>>}]
              ELSE task' = [task EXCEPT ![w].scan = @ \ {v}, ![w].ask = @ \union {v}]
    BY <1>6 DEF Scan
  <2>2. UNCHANGED <<gframes, ghanded, offline>>
    BY <1>6 DEF Scan, vars, serviceVars
  <2> DEFINE c == userConnMap[HomeOf[w]][v]
  <2>3. CASE c = None
    <3>1. /\ T.msg = S.msg /\ T.scan = S.scan \ {v} /\ T.ask = S.ask \union {v}
          /\ T.off = S.off /\ T.local = S.local /\ T.route = S.route
      BY <1>1, <2>1, <2>3 DEF Task
    <3> QED BY <1>3, <2>2, <3>1 DEF Has
  <2>4. CASE c # None
    <3>1. /\ T.msg = S.msg /\ T.scan = S.scan \ {v} /\ T.ask = S.ask
          /\ T.off = S.off /\ T.local = S.local \union {<<v, c>>} /\ T.route = S.route
      BY <1>1, <2>1, <2>4 DEF Task
    <3>2. c \in Conn
      BY <1>1, <2>1, <2>4 DEF GroupInv, GroupTyped, Typed, ServiceTypeOK, Task
    <3> HIDE DEF c
    <3> QED BY <1>3, <2>2, <3>1, <3>2 DEF Has
  <2> QED BY <2>3, <2>4
<1>7. CASE AskRemote(w)
  <2>1. call[w].user \in S.ask /\ call[w].route.node \in Node
    BY <1>1, <1>7, TaskFacts DEF AskRemote, TaskOK, At, Route
  <2>2. /\ T.msg = S.msg /\ T.ask = S.ask \ {call[w].user} /\ T.scan = S.scan
        /\ T.off = S.off /\ T.local = S.local
        /\ T.route = [S.route EXCEPT ![call[w].route.node] = @ \union {call[w].user}]
    BY <1>1, <1>7 DEF AskRemote, Task
  <2>3. UNCHANGED <<gframes, ghanded, offline>>
    BY <1>7 DEF AskRemote, serviceVars
  <2>4. \A n \in Node : S.route[n] \subseteq T.route[n]
    BY <1>1, <2>2
  <2>5. call[w].user \in T.route[call[w].route.node]
    BY <1>1, <2>1, <2>2
  <2> HIDE DEF S, T
  <2>6. Has(S, m, u) => Has(T, m, u)
    BY <2>1, <2>2, <2>4, <2>5 DEF Has
  <2> QED BY <1>3, <2>3, <2>6
<1>8. CASE AskOffline(w)
  <2>2. /\ T.msg = S.msg /\ T.ask = S.ask \ {call[w].user} /\ T.scan = S.scan
        /\ T.off = S.off \union {call[w].user} /\ T.local = S.local /\ T.route = S.route
    BY <1>1, <1>8 DEF AskOffline, Task
  <2>3. UNCHANGED <<gframes, ghanded, offline>>
    BY <1>8 DEF AskOffline, serviceVars
  <2> QED BY <1>3, <2>2, <2>3 DEF Has
<1>9. CASE SendLocal(w)
  <2>1. PICK x \in S.local : /\ task' = [task EXCEPT ![w].local = @ \ {x}]
                             /\ ghanded' = IF x[2] \in open THEN ghanded \union {<<S.msg, x[1]>>} ELSE ghanded
    BY <1>9 DEF SendLocal
  <2>2. PICK v \in User, c \in Conn : x = <<v, c>>
    BY <1>1
  <2>3. /\ T.msg = S.msg /\ T.scan = S.scan /\ T.ask = S.ask
        /\ T.off = S.off /\ T.local = S.local \ {<<v, c>>} /\ T.route = S.route
    BY <1>1, <2>1, <2>2 DEF Task
  <2>4. UNCHANGED <<gframes, offline>> /\ (<<m, u>> \in ghanded => <<m, u>> \in ghanded')
    BY <1>9, <2>1 DEF SendLocal, vars, serviceVars
  <2>5. CASE S.msg = m /\ u = v
    <3>1. c \in open
      BY <2>1, <2>2, <2>5 DEF Dropped
    <3>2. <<m, u>> \in ghanded'
      BY <2>1, <2>2, <2>5, <3>1
    <3> QED BY <3>2 DEF Placed, Away
  <2>6. CASE ~(S.msg = m /\ u = v)
    <3>1. Has(S, m, u) => Has(T, m, u)
      BY <2>3, <2>6 DEF Has
    <3> QED BY <1>2, <2>4, <3>1, StaysPlaced DEF Away
  <2> QED BY <2>5, <2>6
<1>10. CASE StoreOffline(w)
  <2>1. PICK v \in User : /\ offline' = [offline EXCEPT ![v] = @ \union {S.msg}]
                          /\ task' = [task EXCEPT ![w].off = @ \ {v}]
    BY <1>1, <1>10 DEF StoreOffline, Task
  <2>2. /\ T.msg = S.msg /\ T.scan = S.scan /\ T.ask = S.ask
        /\ T.off = S.off \ {v} /\ T.local = S.local /\ T.route = S.route
    BY <1>1, <2>1 DEF Task
  <2>3. UNCHANGED <<gframes, ghanded>> /\ (m \in offline[u] => m \in offline'[u])
    BY <1>1, <1>10, <2>1 DEF StoreOffline
  <2>4. S.msg = m /\ u = v => m \in offline'[u]
    BY <1>1, <2>1
  <2>5. Has(S, m, u) => Has(T, m, u) \/ m \in offline'[u]
    BY <2>2, <2>4 DEF Has
  <2> QED BY <1>2, <2>3, <2>5, StaysPlaced DEF Away
<1>11. CASE \E n \in Node : RouteSend(w, n) \/ RouteFail(w, n)
  <2>1. PICK n \in Node : RouteSend(w, n) \/ RouteFail(w, n)
    BY <1>11
  <2>2. CASE RouteSend(w, n)
    <3>1. /\ T.msg = S.msg /\ T.scan = S.scan /\ T.ask = S.ask
          /\ T.off = S.off /\ T.local = S.local /\ T.route = [S.route EXCEPT ![n] = {}]
      BY <1>1, <2>2 DEF RouteSend, Task
    <3>2. gframes' = gframes \union {FrameFor(w, n)} /\ UNCHANGED <<ghanded, offline>>
      BY <2>2 DEF RouteSend, serviceVars
    <3>3. FrameFor(w, n).msg = S.msg /\ FrameFor(w, n).users = S.route[n]
      BY DEF FrameFor
    <3>4. Has(S, m, u) => Has(T, m, u) \/ (FrameFor(w, n).msg = m /\ u \in FrameFor(w, n).users)
      BY <1>1, <3>1, <3>3 DEF Has
    <3>5. FrameFor(w, n) \in gframes' /\ gframes \subseteq gframes'
      BY <3>2
    <3>6. (Has(S, m, u) => Has(T, m, u) \/ Away(m, u)') /\ (Away(m, u) => Away(m, u)')
      BY <3>2, <3>4, <3>5 DEF Away
    <3> QED BY <1>2, <3>6, StaysPlaced
  <2>3. CASE RouteFail(w, n)
    <3>1. /\ T.msg = S.msg /\ T.scan = S.scan /\ T.ask = S.ask
          /\ T.off = S.off \union S.route[n] /\ T.local = S.local /\ T.route = [S.route EXCEPT ![n] = {}]
      BY <1>1, <2>3 DEF RouteFail, Task
    <3>2. UNCHANGED <<gframes, ghanded, offline>>
      BY <2>3 DEF RouteFail, serviceVars
    <3> QED BY <1>1, <1>3, <3>1, <3>2 DEF Has
  <2> QED BY <2>1, <2>2, <2>3
<1>12. CASE FrameHand(w) \/ FrameStore(w)
  <2>1. PICK v \in User :
           /\ task' = [task EXCEPT ![w].scan = @ \ {v}] /\ UNCHANGED gframes
           /\ \/ ghanded' = ghanded \union {<<S.msg, v>>} /\ UNCHANGED offline
              \/ offline' = [offline EXCEPT ![v] = @ \union {S.msg}] /\ UNCHANGED ghanded
    <3>1. CASE FrameHand(w)
      BY <1>1, <3>1 DEF FrameHand, Task, vars, serviceVars
    <3>2. CASE FrameStore(w)
      BY <3>2, TaskFacts DEF FrameStore, TaskOK, At
    <3> QED BY <1>12, <3>1, <3>2
  <2>2. /\ T.msg = S.msg /\ T.scan = S.scan \ {v} /\ T.ask = S.ask
        /\ T.off = S.off /\ T.local = S.local /\ T.route = S.route
    BY <1>1, <2>1 DEF Task
  <2>3. /\ m \in offline[u] => m \in offline'[u]
        /\ <<m, u>> \in ghanded => <<m, u>> \in ghanded'
        /\ S.msg = m /\ u = v => m \in offline'[u] \/ <<m, u>> \in ghanded'
    BY <1>1, <2>1
  <2>4. Has(S, m, u) => Has(T, m, u) \/ (S.msg = m /\ u = v)
    BY <2>2 DEF Has
  <2> QED BY <1>2, <2>1, <2>3, <2>4, StaysPlaced DEF Away
<1>13. CASE GroupFrame(w)
  <2>1. PICK f \in gframes : /\ gframes' = gframes \ {f}
                             /\ T = [NoTask EXCEPT !.kind = "frame", !.msg = f.msg, !.scan = f.users]
    BY <1>1, <1>13 DEF GroupFrame
  <2>2. T.msg = f.msg /\ T.scan = f.users
    BY <2>1 DEF NoTask
  <2>3. UNCHANGED <<ghanded, offline>> /\ S = NoTask
    BY <1>13 DEF GroupFrame, vars, serviceVars, Free, Undying
  <2>4. ~Has(S, m, u)
    BY <2>3 DEF Has, NoTask
  <2>5. Away(m, u) => Away(m, u)' \/ Has(T, m, u)
    BY <2>1, <2>2, <2>3 DEF Away, Has
  <2> QED BY <1>2, <2>4, <2>5, StaysPlaced
<1>14. CASE \E x \in Msg : Group(w, x)
  <2>1. UNCHANGED <<gframes, ghanded, offline>> /\ S = NoTask
    BY <1>14 DEF Group, Free, Undying
  <2>2. ~Has(S, m, u)
    BY <2>1 DEF Has, NoTask
  <2> QED BY <1>3, <2>1, <2>2
<1> QED BY <1>4, <1>5, <1>6, <1>7, <1>8, <1>9, <1>10, <1>11, <1>12, <1>13, <1>14 DEF GroupStep

LEMMA GroupLosesNothing ==
    ASSUME GroupInv, Undying, CrashNodes = {}, ResetNodes = {}, [GroupNext]_gvars,
           NEW m \in Msg, NEW u \in User, Placed(m, u), ~Placed(m, u)'
    PROVE  \/ Dropped(m, u)
           \/ \E c \in Conn : At(c, "offlineRemove") /\ call[c].user = u
<1>1. CASE UNCHANGED gvars
  <2>1. Placed(m, u)'
    BY <1>1 DEF gvars, groupVars, vars, serviceVars, Placed, Has, Away
  <2> QED BY <2>1
<1>2. CASE Service
  <2>1. Typed /\ Next /\ task \in [GroupWorker -> Task] /\ \A w \in GroupWorker : HomeOf[w] \in Node
    BY <1>2 DEF GroupInv, GroupTyped, Service
  <2>2. \A n \in Node : ~Ends(n)
    BY <2>1, NobodyEnds
  <2>3. (\A w \in GroupWorker : task'[w] = task[w]) /\ UNCHANGED <<gframes, ghanded>>
    BY <1>2, <2>1, <2>2 DEF Service
  <2>4. \A w \in GroupWorker : Has(task'[w], m, u) = Has(task[w], m, u)
    BY <2>3
  <2>5. m \in offline[u] /\ m \notin offline'[u]
    BY <2>3, <2>4 DEF Placed, Away
  <2> QED BY <2>1, <2>5, StoredStays
<1> QED BY <1>1, <1>2, HandlersKeep DEF GroupNext

(* groupChat and handleClusterGroupChat: as long as no process ends, the handlers        *)
(* lose no member's copy, whatever sessions, routes and the other handlers do between the    *)
(* walks: what is not reached falls back to the next list.  A copy vanishes only with a      *)
(* connection that went down after the lookup, or when a login deletes what it has not read. *)
THEOREM GroupLosesNoCopy ==
    ASSUME CrashNodes = {}, ResetNodes = {}
    PROVE  GroupSpec => GroupConserves
<1>1. GroupInit => Undying
  BY DEF GroupInit, Init, RegistryInit, NoProcess, Undying
<1>2. GroupInv /\ Undying /\ [GroupNext]_gvars => Undying'
  BY UndyingKept DEF GroupInv
<1>3. GroupInv /\ GroupInv' /\ Undying /\ [GroupNext]_gvars =>
         [\A m \in Msg, u \in User :
             CopyPlaces(m, u) # {} /\ CopyPlaces(m, u)' = {} =>
                 \/ \E w \in GroupWorker, c \in Conn \ open : task[w].msg = m /\ <<u, c>> \in task[w].local
                 \/ \E c \in Conn : At(c, "offlineRemove") /\ call[c].user = u]_gvars
  <2> SUFFICES ASSUME GroupInv, GroupInv', Undying, [GroupNext]_gvars, NEW m \in Msg, NEW u \in User,
                      CopyPlaces(m, u) # {}, CopyPlaces(m, u)' = {}
               PROVE  Dropped(m, u) \/ \E c \in Conn : At(c, "offlineRemove") /\ call[c].user = u
    BY DEF Dropped
  <2>1. Placed(m, u)
    BY PlacesPlaced DEF GroupInv
  <2>2. ~Placed(m, u)'
    BY PlacesPlacedNext DEF GroupInv
  <2> QED BY <2>1, <2>2, GroupLosesNothing
<1> QED BY <1>1, <1>2, <1>3, GroupInvReached, PTL DEF GroupSpec, GroupConserves
=============================================================================
