------------------------------- MODULE GroupChat -------------------------------
(***************************************************************************)
(* Group messages: groupChat on the sender's node and handleClusterGroupChat on  *)
(* the others, beside everything ChatService does.  Both walk over a list of      *)
(* users with many steps of other threads in between; groupChat sorts them into   *)
(* local variables first (connections, unresolved, per node, offline) and acts     *)
(* on those later, in that order.  Lists are sets here: a user is in a group once.  *)
(***************************************************************************)
EXTENDS ChatService

CONSTANTS
    GroupWorker,   \* threads that run these handlers
    Members        \* of a message sent to a group: the group without its sender

ASSUME GroupAssumption ==
    /\ GroupWorker \subseteq Actor /\ GroupWorker \intersect (Conn \union Worker) = {}
    /\ Members \in [Msg -> SUBSET User]

VARIABLES
    task,      \* the handler of each thread and its local variables
    gframes,   \* group messages under way to a node
    ghanded    \* <<m, u>>: m was handed to a connection that the table had for u

groupVars == <<task, gframes, ghanded>>
gvars     == <<vars, groupVars>>

Task == [kind: {"none", "group", "frame"}, msg: Msg \union {None},
         scan: SUBSET User,              \* users not looked at yet
         local: SUBSET (User \X Conn),   \* localConns, and whose each was
         ask: SUBSET User,               \* unresolvedIds
         route: [Node -> SUBSET User],   \* remoteNodeUsers
         off: SUBSET User]               \* offlineIds

NoTask == [kind |-> "none", msg |-> None, scan |-> {}, local |-> {}, ask |-> {},
           route |-> [n \in Node |-> {}], off |-> {}]

GroupTypeOK ==
    /\ TypeOK
    /\ task \in [GroupWorker -> Task]
    /\ gframes \subseteq [to: Node, msg: Msg, users: SUBSET User]
    /\ ghanded \subseteq Msg \X User

GroupInit ==
    /\ Init
    /\ task = [w \in GroupWorker |-> NoTask] /\ gframes = {} /\ ghanded = {}

-----------------------------------------------------------------------------
(* groupChat *)

Doing(w, kind) == task[w].kind = kind
Free(w)        == Doing(w, "none") /\ Idle(w)
Done(w)        == call' = [call EXCEPT ![w] = NoCall]

(* queryGroupUsers, and the local variables set up *)
Group(w, m) ==
    /\ Free(w) /\ m \notin sent /\ Members[m] # {}
    /\ sent' = sent \union {m}
    /\ task' = [task EXCEPT ![w] = [NoTask EXCEPT !.kind = "group", !.msg = m, !.scan = Members[m]]]
    /\ UNCHANGED <<redisVars, registryVars, open, loggedIn, userConnMap, userState, offline, frames,
                   handed, job, gframes, ghanded>>

(* Slip: the connection found is not tested *)
ScanUntested(w) ==
    /\ Doing(w, "group")
    /\ \E u \in task[w].scan :
          LET c == userConnMap[HomeOf[w]][u]
          IN  task' = [task EXCEPT ![w].scan = @ \ {u}, ![w].local = @ \union {<<u, c>>}]
    /\ UNCHANGED <<vars, gframes, ghanded>>

(* getLocalConnection for one member after the other *)
Scan(w) ==
    /\ Doing(w, "group")
    /\ \E u \in task[w].scan :
          LET c == userConnMap[HomeOf[w]][u]
          IN  IF c # None
              THEN task' = [task EXCEPT ![w].scan = @ \ {u}, ![w].local = @ \union {<<u, c>>}]
              ELSE task' = [task EXCEPT ![w].scan = @ \ {u}, ![w].ask = @ \union {u}]
    /\ UNCHANGED <<vars, gframes, ghanded>>

(* resolveUserNode for one unresolved user after the other *)
Ask(w) ==
    /\ Doing(w, "group") /\ task[w].scan = {} /\ At(w, "idle")
    /\ \E u \in task[w].ask : Enter(w, "resolve", u)
    /\ UNCHANGED <<redisVars, routeCache, metaCache, proc, serviceVars, groupVars>>

AskSelf(w) ==
    /\ Doing(w, "group") /\ At(w, "found") /\ OnSelf(w)
    /\ Enter(w, "unbind", call[w].user)
    /\ UNCHANGED <<redisVars, routeCache, metaCache, proc, serviceVars, groupVars>>

AskRemote(w) ==
    /\ Doing(w, "group") /\ At(w, "found") /\ ~OnSelf(w)
    /\ task' = [task EXCEPT ![w].ask = @ \ {call[w].user},
                            ![w].route[call[w].route.node] = @ \union {call[w].user}]
    /\ Done(w)
    /\ UNCHANGED <<redisVars, routeCache, metaCache, proc, serviceVars, gframes, ghanded>>

AskOffline(w) ==
    /\ Doing(w, "group") /\ (At(w, "missing") \/ At(w, "unbound"))
    /\ task' = [task EXCEPT ![w].ask = @ \ {call[w].user}, ![w].off = @ \union {call[w].user}]
    /\ Done(w)
    /\ UNCHANGED <<redisVars, routeCache, metaCache, proc, serviceVars, gframes, ghanded>>

Resolved(w) == Doing(w, "group") /\ task[w].scan = {} /\ task[w].ask = {}

(* send on the connections found; muduo drops what is for one that is down *)
SendLocal(w) ==
    /\ Resolved(w)
    /\ \E x \in task[w].local :
          /\ task' = [task EXCEPT ![w].local = @ \ {x}]
          /\ ghanded' = IF x[2] \in open THEN ghanded \union {<<task[w].msg, x[1]>>} ELSE ghanded
    /\ UNCHANGED <<vars, gframes>>

(* A bucket goes to its node, or to the offline users *)
Bucket(w, k)  == Resolved(w) /\ task[w].local = {} /\ task[w].route[k] # {}
FrameFor(w, k)  == [to |-> k, msg |-> task[w].msg, users |-> task[w].route[k]]

(* Slip: no continue after a successful sendGroupChat *)
RouteFallsThrough(w, k) ==
    /\ Bucket(w, k)
    /\ \E m \in Instance : QueryNode(w, k, m)
    /\ gframes' = gframes \union {FrameFor(w, k)}
    /\ task' = [task EXCEPT ![w].route[k] = {}, ![w].off = @ \union task[w].route[k]]
    /\ UNCHANGED <<redisVars, routeCache, proc, call, serviceVars, ghanded>>

RouteSend(w, k) ==
    /\ Bucket(w, k)
    /\ \E m \in Instance : QueryNode(w, k, m)
    /\ gframes' = gframes \union {FrameFor(w, k)}
    /\ task' = [task EXCEPT ![w].route[k] = {}]
    /\ UNCHANGED <<redisVars, routeCache, proc, call, serviceVars, ghanded>>

(* Slip: the users of a bucket that could not be sent are forgotten *)
RouteFailForgets(w, k) ==
    /\ Bucket(w, k)
    /\ \E m \in Instance \union {None} : QueryNode(w, k, m)
    /\ task' = [task EXCEPT ![w].route[k] = {}]
    /\ UNCHANGED <<redisVars, routeCache, proc, call, serviceVars, gframes, ghanded>>

(* The node is not known any more, or the router refuses *)
RouteFail(w, k) ==
    /\ Bucket(w, k)
    /\ \E m \in Instance \union {None} : QueryNode(w, k, m)
    /\ task' = [task EXCEPT ![w].route[k] = {}, ![w].off = @ \union task[w].route[k]]
    /\ UNCHANGED <<redisVars, routeCache, proc, call, serviceVars, gframes, ghanded>>

Sorted(w) ==
    Resolved(w) /\ task[w].local = {} /\ \A k \in Node : task[w].route[k] = {}

StoreOffline(w) ==
    /\ Sorted(w)
    /\ \E u \in task[w].off :
          /\ offline' = [offline EXCEPT ![u] = @ \union {task[w].msg}]
          /\ task' = [task EXCEPT ![w].off = @ \ {u}]
    /\ UNCHANGED <<redisVars, registryVars, open, loggedIn, userConnMap, userState, frames, sent,
                   handed, job, gframes, ghanded>>

-----------------------------------------------------------------------------
(* handleClusterGroupChat: each user is done with before the next *)

GroupFrame(w) ==
    /\ Free(w)
    /\ \E f \in gframes :
          /\ f.to = HomeOf[w]
          /\ gframes' = gframes \ {f}
          /\ task' = [task EXCEPT ![w] = [NoTask EXCEPT !.kind = "frame", !.msg = f.msg,
                                                        !.scan = f.users]]
    /\ UNCHANGED <<vars, ghanded>>

FrameHand(w) ==
    /\ Doing(w, "frame") /\ At(w, "idle")
    /\ \E u \in task[w].scan :
          /\ CanHand(HomeOf[w], u)
          /\ ghanded' = ghanded \union {<<task[w].msg, u>>}
          /\ task' = [task EXCEPT ![w].scan = @ \ {u}]
    /\ UNCHANGED <<vars, gframes>>

FrameQuery(w) ==
    /\ Doing(w, "frame") /\ At(w, "idle")
    /\ \E u \in task[w].scan : CannotHand(HomeOf[w], u) /\ Enter(w, "query", u)
    /\ UNCHANGED <<redisVars, routeCache, metaCache, proc, serviceVars, groupVars>>

FrameUnbind(w) ==
    /\ Doing(w, "frame") /\ (At(w, "missing") \/ (At(w, "found") /\ OnSelf(w)))
    /\ Enter(w, "unbind", call[w].user)
    /\ UNCHANGED <<redisVars, routeCache, metaCache, proc, serviceVars, groupVars>>

FrameStore(w) ==
    /\ Doing(w, "frame") /\ (At(w, "unbound") \/ (At(w, "found") /\ ~OnSelf(w)))
    /\ offline' = [offline EXCEPT ![call[w].user] = @ \union {task[w].msg}]
    /\ task' = [task EXCEPT ![w].scan = @ \ {call[w].user}]
    /\ Done(w)
    /\ UNCHANGED <<redisVars, routeCache, metaCache, proc, open, loggedIn, userConnMap, userState,
                   frames, sent, handed, job, gframes, ghanded>>

(* Either handler returns when its lists are empty *)
Leaves(w) ==
    /\ ~Doing(w, "none") /\ At(w, "idle")
    /\ task[w] = [NoTask EXCEPT !.kind = task[w].kind, !.msg = task[w].msg]
    /\ task' = [task EXCEPT ![w] = NoTask]
    /\ UNCHANGED <<vars, gframes, ghanded>>

-----------------------------------------------------------------------------
GroupStep(w) ==
    \/ Scan(w) \/ Ask(w) \/ AskSelf(w) \/ AskRemote(w) \/ AskOffline(w) \/ SendLocal(w)
    \/ StoreOffline(w) \/ FrameHand(w) \/ FrameQuery(w) \/ FrameUnbind(w) \/ FrameStore(w)
    \/ Leaves(w)
    \/ \E k \in Node : RouteSend(w, k) \/ RouteFail(w, k)

(* The rest of the service; a process that ends takes its handlers with it, and   *)
(* some of the frames under way                                                  *)
Ends(n) == proc[n].ctl # "down" /\ proc'[n].ctl = "down"

Service ==
    /\ Next
    /\ task' = [w \in GroupWorker |-> IF Ends(HomeOf[w]) THEN NoTask ELSE task[w]]
    /\ IF \E n \in Node : Ends(n) THEN gframes' \in SUBSET gframes ELSE UNCHANGED gframes
    /\ UNCHANGED ghanded

GroupNext ==
    \/ Service
    \/ \E w \in GroupWorker : GroupStep(w) \/ GroupFrame(w) \/ \E m \in Msg : Group(w, m)

GroupSpec == GroupInit /\ [][GroupNext]_gvars

-----------------------------------------------------------------------------
(* Where the copy of m for u is *)
CopyPlaces(m, u) ==
    {p \in GroupWorker \X {"scan", "ask", "off"} : task[p[1]].msg = m /\ u \in task[p[1]][p[2]]}
    \union {p \in GroupWorker \X Conn : task[p[1]].msg = m /\ <<u, p[2]>> \in task[p[1]].local}
    \union {p \in GroupWorker \X Node : task[p[1]].msg = m /\ u \in task[p[1]].route[p[2]]}
    \union {<<n, "wire">> : n \in {k \in Node : \E f \in gframes : f.to = k /\ f.msg = m /\ u \in f.users}}
    \union {<<d, "done">> : d \in {x \in {"handed", "offline"} :
                                     IF x = "handed" THEN <<m, u>> \in ghanded ELSE m \in offline[u]}}

(* groupChat sorts a member into one of its lists, and each list into one place:   *)
(* no member gets a group message twice, though routes change between the two       *)
(* walks and a bucket that could not be sent falls back as a whole.                *)
GroupCopyUnique ==
    \A m \in Msg, u \in User : \A p, q \in CopyPlaces(m, u) : p = q

(* A member's copy of a group message is not lost on the way: it vanishes only     *)
(* when its connection went down after groupChat had looked it up, or when a login   *)
(* of that member takes the offline messages.                                     *)
GroupConserves ==
    [][\A m \in Msg, u \in User :
          CopyPlaces(m, u) # {} /\ CopyPlaces(m, u)' = {} =>
              \/ \E w \in GroupWorker, c \in Conn \ open : task[w].msg = m /\ <<u, c>> \in task[w].local
              \/ \E c \in Conn : At(c, "offlineRemove") /\ call[c].user = u]_gvars
=============================================================================
