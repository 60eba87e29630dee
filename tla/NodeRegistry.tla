---------------------------- MODULE NodeRegistry ----------------------------
(***************************************************************************)
(* server/noderegistry.cpp: each node's view of the control plane.  A       *)
(* process keeps two caches with a TTL of at most one second (a user's      *)
(* route, a node's metadata), a heartbeat thread that renews its entry in   *)
(* Redis, and functions that any of its threads calls.  A function that     *)
(* issues several Redis commands is a sequence of steps of the calling      *)
(* thread (an Actor): call[a] holds its program counter and registers.  The  *)
(* labels "found", "missing", "bound", "refused" and "unbound" are returns: *)
(* the caller's next step starts there.                                     *)
(*                                                                          *)
(* Redis::command_mtx_ serialises the functions of one process, not those   *)
(* of different processes: CommandFree.                                      *)
(***************************************************************************)
EXTENDS Redis

CONSTANTS
    Actor,     \* threads that run handlers
    HomeOf,    \* the node whose process a thread belongs to
    BeatNodes  \* bound: the nodes whose heartbeat thread gets to run

ASSUME ActorAssumption == HomeOf \in [Actor -> Node] /\ BeatNodes \subseteq Node

VARIABLES
    routeCache,  \* userRouteCache_, per node
    metaCache,   \* nodeMetaCache_, per node
    proc,        \* the process of a node: instance, phase, heartbeat thread
    call         \* the registry call each thread is in

registryVars == <<routeCache, metaCache, proc, call>>

(***************************************************************************)
(* proc[n].ctl is the phase of the process: not running, starting up,       *)
(* serving, or inside ChatService::reset.  users and left are the local     *)
(* vectors selfUsers (reset) and users (cleanupSelf), cur the user whose    *)
(* unbindUserNode is between its two commands.                              *)
(***************************************************************************)
Phase == {"down", "warm", "up", "stop", "join", "unbind", "clear", "db"}

Process == [inst: Instance \union {0}, ctl: Phase, running: BOOLEAN,
            hb: {"off", "sleep", "beat"},
            users: SUBSET User, left: SUBSET User, cur: User \union {None}]

RegistryPc == {"resolve", "query", "get", "fill", "check", "node", "drop", "dropSrem",
               "bind", "bindSadd", "bindFill", "unbind", "del", "srem",
               "found", "missing", "bound", "refused", "unbound"}
ServicePc  == {"idle", "offlineQuery", "offlineRemove", "ack", "sendFailed"}

Call == [fn: {"none", "resolve", "query", "bind", "unbind"}, pc: RegistryPc \union ServicePc,
         user: User \union {None}, route: Route \union {None}]

NoCall    == [fn |-> "none", pc |-> "idle", user |-> None, route |-> None]
NoProcess == [inst |-> 0, ctl |-> "down", running |-> FALSE, hb |-> "off",
              users |-> {}, left |-> {}, cur |-> None]

RegistryTypeOK ==
    /\ RedisTypeOK
    /\ routeCache \in [Node -> [User -> Route \union {None}]]
    /\ metaCache  \in [Node -> [Node -> Instance \union {None}]]
    /\ proc       \in [Node -> Process]
    /\ call       \in [Actor -> Call]

RegistryInit ==
    /\ RedisInit
    /\ routeCache = [n \in Node |-> [u \in User |-> None]]
    /\ metaCache  = [n \in Node |-> [k \in Node |-> None]]
    /\ proc       = [n \in Node |-> NoProcess]
    /\ call       = [a \in Actor |-> NoCall]

-----------------------------------------------------------------------------
(* Helpers *)

At(a, l)   == call[a].pc = l
Goto(a, l) == call' = [call EXCEPT ![a].pc = l]
Enter(a, fn, u) ==
    call' = [call EXCEPT ![a] = [fn |-> fn, pc |-> fn, user |-> u, route |-> None]]

(* Slip: a session bound before init has set selfInstanceId_ *)
SelfUnset(n) == [node |-> n, inst |-> 0]

Self(n)     == [node |-> n, inst |-> proc[n].inst]
OnSelf(a)   == call[a].route.node = HomeOf[a]          \* isSelfNode
Serving(n)  == proc[n].ctl \notin {"down", "warm"}     \* the I/O threads run

RoutePc == {"fill", "check", "node", "drop", "dropSrem", "bindSadd", "bindFill", "found"}

(* What every thread in a call can rely on: its process serves, it knows its   *)
(* user, and from the point where it has a route it keeps one                  *)
CallOK(a) ==
    /\ ~At(a, "idle") => call[a].user \in User /\ Serving(HomeOf[a])
    /\ call[a].pc \in RoutePc => call[a].route \in Route

ProcOK(n) ==
    /\ proc[n].ctl # "down" => proc[n].inst # 0
    /\ proc[n].hb # "off" => proc[n].ctl # "down"

(* Slip: command_mtx_ is released between the two commands of a function *)
CommandFreeAlways(n) == TRUE

(* command_mtx_ of n's process is not held by a function between two commands *)
CommandFree(n) ==
    /\ proc[n].cur = None
    /\ \A a \in Actor : HomeOf[a] = n => call[a].pc \notin {"dropSrem", "bindSadd", "srem"}

-----------------------------------------------------------------------------
(* queryUserNode and resolveUserNode *)

(* The fast path of resolveUserNode: both caches hit and agree *)
ResolveFast(a) ==
    LET n == HomeOf[a]
        r == routeCache[n][call[a].user]
    IN  /\ At(a, "resolve")
        /\ \/ /\ r # None /\ metaCache[n][r.node] = r.inst
              /\ call' = [call EXCEPT ![a].pc = "found", ![a].route = r]
           \/ /\ ~(r # None /\ metaCache[n][r.node] = r.inst)
              /\ Goto(a, "query")
        /\ UNCHANGED <<redisVars, routeCache, metaCache, proc>>

(* getCachedUserNode *)
QueryCache(a) ==
    LET r == routeCache[HomeOf[a]][call[a].user]
    IN  /\ At(a, "query")
        /\ \/ /\ r # None
              /\ call' = [call EXCEPT ![a].pc = "check", ![a].route = r]
           \/ /\ r = None
              /\ Goto(a, "get")
        /\ UNCHANGED <<redisVars, routeCache, metaCache, proc>>

(* getUserSession *)
GetSession(a) ==
    LET r == session[call[a].user]
    IN  /\ At(a, "get") /\ CommandFree(HomeOf[a])
        /\ \/ /\ r # None
              /\ call' = [call EXCEPT ![a].pc = "fill", ![a].route = r]
           \/ /\ r = None
              /\ Goto(a, "missing")
        /\ UNCHANGED <<redisVars, routeCache, metaCache, proc>>

(* cacheUserNode with what GET returned, however old that is by now *)
FillRoute(a) ==
    /\ At(a, "fill")
    /\ routeCache' = [routeCache EXCEPT ![HomeOf[a]][call[a].user] = call[a].route]
    /\ Goto(a, "check")
    /\ UNCHANGED <<redisVars, metaCache, proc>>

(* queryNode: the cached metadata of node k or, when absent, what Redis holds *)
QueryNode(a, k, m) ==
    LET n == HomeOf[a]
    IN  \/ /\ metaCache[n][k] # None
           /\ m = metaCache[n][k]
           /\ UNCHANGED metaCache
        \/ /\ metaCache[n][k] = None /\ CommandFree(n)
           /\ m = GetNode(k)
           /\ metaCache' = [metaCache EXCEPT ![n][k] = m]

(* Slip: the instance is not compared *)
SessionValidIfAlive(r, m) == m # None

(* The session counts only if the node it names is alive as the same instance *)
SessionValid(r, m) == m # None /\ m = r.inst

CheckNode(a) ==
    /\ At(a, "check")
    /\ \E m \in Instance \union {None} :
          /\ QueryNode(a, call[a].route.node, m)
          /\ Goto(a, IF ~SessionValid(call[a].route, m) THEN "drop"
                     ELSE IF call[a].fn = "resolve" THEN "node" ELSE "found")
    /\ UNCHANGED <<redisVars, routeCache, proc>>

(* resolveUserNode queries the node once more, and takes any instance *)
ResolveNode(a) ==
    /\ At(a, "node")
    /\ \E m \in Instance \union {None} :
          /\ QueryNode(a, call[a].route.node, m)
          /\ Goto(a, IF m = None THEN "missing" ELSE "found")
    /\ UNCHANGED <<redisVars, routeCache, proc>>

(* An invalid session: unbindUserNode(u, route.node), eraseCachedUserNode *)
DropDel(a) ==
    /\ At(a, "drop") /\ CommandFree(HomeOf[a])
    /\ DelSession(call[a].user)
    /\ Goto(a, "dropSrem")
    /\ UNCHANGED <<routeCache, metaCache, proc>>

DropSrem(a) ==
    /\ At(a, "dropSrem")
    /\ RemNodeUser(call[a].route.node, call[a].user)
    /\ routeCache' = [routeCache EXCEPT ![HomeOf[a]][call[a].user] = None]
    /\ Goto(a, "missing")
    /\ UNCHANGED <<metaCache, proc>>

-----------------------------------------------------------------------------
(* bindUser *)

BindSet(a) ==
    LET r == Self(HomeOf[a])
    IN  /\ At(a, "bind") /\ CommandFree(HomeOf[a])
        /\ \/ /\ SetSessionNX(call[a].user, r)
              /\ call' = [call EXCEPT ![a].pc = "bindSadd", ![a].route = r]
           \/ /\ session[call[a].user] # None
              /\ Goto(a, "refused")
              /\ UNCHANGED redisVars
        /\ UNCHANGED <<routeCache, metaCache, proc>>

BindSadd(a) ==
    /\ At(a, "bindSadd")
    /\ AddNodeUser(HomeOf[a], call[a].user)
    /\ Goto(a, "bindFill")
    /\ UNCHANGED <<routeCache, metaCache, proc>>

BindFill(a) ==
    /\ At(a, "bindFill")
    /\ routeCache' = [routeCache EXCEPT ![HomeOf[a]][call[a].user] = call[a].route]
    /\ Goto(a, "bound")
    /\ UNCHANGED <<redisVars, metaCache, proc>>

(* unbindUser: the session goes whichever node it names, but the user leaves *)
(* only the caller's own node-users set                                       *)
UnbindErase(a) ==
    /\ At(a, "unbind")
    /\ routeCache' = [routeCache EXCEPT ![HomeOf[a]][call[a].user] = None]
    /\ Goto(a, "del")
    /\ UNCHANGED <<redisVars, metaCache, proc>>

UnbindDel(a) ==
    /\ At(a, "del") /\ CommandFree(HomeOf[a])
    /\ DelSession(call[a].user)
    /\ Goto(a, "srem")
    /\ UNCHANGED <<routeCache, metaCache, proc>>

UnbindSrem(a) ==
    /\ At(a, "srem")
    /\ RemNodeUser(HomeOf[a], call[a].user)
    /\ Goto(a, "unbound")
    /\ UNCHANGED <<routeCache, metaCache, proc>>

RegistryStep(a) ==
    \/ ResolveFast(a) \/ QueryCache(a) \/ GetSession(a) \/ FillRoute(a)
    \/ CheckNode(a) \/ ResolveNode(a) \/ DropDel(a) \/ DropSrem(a)
    \/ BindSet(a) \/ BindSadd(a) \/ BindFill(a)
    \/ UnbindErase(a) \/ UnbindDel(a) \/ UnbindSrem(a)

-----------------------------------------------------------------------------
(* The caches' TTL: an entry may lapse at any moment after it was stored.   *)
(* getCached* erases a lapsed entry when it meets it, so lapsed = absent.    *)

ExpireRoute(n, u) ==
    /\ routeCache[n][u] # None
    /\ routeCache' = [routeCache EXCEPT ![n][u] = None]
    /\ UNCHANGED <<redisVars, metaCache, proc, call>>

ExpireMeta(n, k) ==
    /\ metaCache[n][k] # None
    /\ metaCache' = [metaCache EXCEPT ![n][k] = None]
    /\ UNCHANGED <<redisVars, routeCache, proc, call>>

(* Redis drops the metadata of a node whose process no longer renews it *)
ExpireDeadNode(n) ==
    /\ proc[n].ctl = "down"
    /\ ExpireNodeMeta(n)
    /\ UNCHANGED registryVars

-----------------------------------------------------------------------------
(* init and listNodes: a node starts as a new instance *)

Boot(n) ==
    /\ proc[n].ctl = "down" /\ proc[n].inst < MaxEpoch
    /\ proc' = [proc EXCEPT ![n] = [NoProcess EXCEPT !.inst = proc[n].inst + 1, !.ctl = "warm",
                                                     !.running = TRUE, !.hb = "sleep"]]
    /\ metaCache' = [metaCache EXCEPT ![n][n] = proc[n].inst + 1]
    /\ RegisterNode(n, proc[n].inst + 1)
    /\ UNCHANGED <<routeCache, call>>

(* listNodes: queryNode for every member of chat:nodes *)
BootWarm(n) ==
    /\ proc[n].ctl = "warm" /\ CommandFree(n)
    /\ proc' = [proc EXCEPT ![n].ctl = "up"]
    /\ metaCache' = [metaCache EXCEPT ![n] = [k \in Node |->
                        IF k \in nodeIds /\ @[k] = None THEN nodeMeta[k] ELSE @[k]]]
    /\ UNCHANGED <<redisVars, routeCache, call>>

(* heartbeatLoop: wake up and test running_, then renew.  stop() joins the   *)
(* thread, so a renewal past the test still happens before stop returns.  A   *)
(* live node is never so slow that its metadata lapses (the TTL is four        *)
(* heartbeats), so the renewals of nodes outside BeatNodes change nothing.     *)
HeartbeatWake(n) ==
    /\ proc[n].hb = "sleep" /\ (n \in BeatNodes \/ ~proc[n].running)
    /\ proc' = [proc EXCEPT ![n].hb = IF proc[n].running THEN "beat" ELSE "off"]
    /\ UNCHANGED <<redisVars, routeCache, metaCache, call>>

HeartbeatRenew(n) ==
    /\ proc[n].hb = "beat" /\ CommandFree(n)
    /\ proc' = [proc EXCEPT ![n].hb = "sleep"]
    /\ metaCache' = [metaCache EXCEPT ![n][n] = proc[n].inst]
    /\ RegisterNode(n, proc[n].inst)
    /\ UNCHANGED <<routeCache, call>>
=============================================================================
