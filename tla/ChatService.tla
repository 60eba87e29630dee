----------------------------- MODULE ChatService -----------------------------
(***************************************************************************)
(* server/chatservice.cpp: the session life cycle of a user (login, logout, *)
(* lost connection), the one-to-one message path across nodes, and a        *)
(* node's orderly shutdown, over the control plane of NodeRegistry.         *)
(*                                                                          *)
(* Every client connection (Conn) is served by its own I/O loop thread, one *)
(* handler at a time; a Worker is a thread that runs a chat of a sender we  *)
(* do not follow, or a frame that arrived from another node.  A frame in    *)
(* frames[n] stands for a message accepted by some node's ClusterRouter for *)
(* node n and not yet handled there (ClusterRouter's own module looks       *)
(* inside); a message handed to a connection's loop is in handed            *)
(* (LocalDispatch looks inside).                                            *)
(***************************************************************************)
EXTENDS NodeRegistry

CONSTANTS
    Conn, Worker,        \* the two kinds of Actor this module gives handlers to
    Msg, To,             \* one-to-one messages, and whom each is for
    CrashNodes,          \* nodes whose process may die at any moment
    ResetNodes,          \* nodes that may get a SIGINT
    QueueMayFill,        \* may a connection's local delivery queue be full?
    Mistypers            \* bound: connections whose client may give a wrong password

ASSUME ServiceAssumption ==
    /\ Conn \union Worker \subseteq Actor /\ Conn \intersect Worker = {}
    /\ None \notin Conn
    /\ To \in [Msg -> User]
    /\ CrashNodes \subseteq Node /\ ResetNodes \subseteq Node
    /\ QueueMayFill \in BOOLEAN /\ Mistypers \subseteq Conn

VARIABLES
    open,         \* client connections that are up
    loggedIn,     \* whom the client at the other end is logged in as (it got errno 0)
    userConnMap,  \* the local connection table of each node
    userState,    \* MySQL: user.state
    offline,      \* MySQL: offlinemessage
    frames,       \* messages under way to a node
    sent,         \* messages whose oneChat has begun
    handed,       \* messages handed to the loop of a client connection
    job           \* what the thread's handler is and its locals

serviceVars == <<open, loggedIn, userConnMap, userState, offline, frames, sent, handed, job>>
vars == <<redisVars, registryVars, serviceVars>>

Job == [kind: {"none", "login", "loginBadPwd", "leave", "chat", "frame"},
        seen: {"online", "offline"},  \* login: user.getState() as read from MySQL
        hand: SUBSET Msg]             \* the message in hand; login: offlineMsgVec

NoJob == [kind |-> "none", seen |-> "offline", hand |-> {}]

ServiceTypeOK ==
    /\ open        \in SUBSET Conn
    /\ loggedIn    \in [Conn -> User \union {None}]
    /\ userConnMap \in [Node -> [User -> Conn \union {None}]]
    /\ userState   \in [User -> {"online", "offline"}]
    /\ offline     \in [User -> SUBSET Msg]
    /\ frames      \in [Node -> SUBSET Msg]
    /\ sent        \in SUBSET Msg
    /\ handed      \in SUBSET Msg
    /\ job         \in [Actor -> Job]

TypeOK == RegistryTypeOK /\ ServiceTypeOK

Init ==
    /\ RegistryInit
    /\ open        = {}
    /\ loggedIn    = [c \in Conn |-> None]
    /\ userConnMap = [n \in Node |-> [u \in User |-> None]]
    /\ userState   = [u \in User |-> "offline"]
    /\ offline     = [u \in User |-> {}]
    /\ frames      = [n \in Node |-> {}]
    /\ sent = {} /\ handed = {}
    /\ job         = [a \in Actor |-> NoJob]

Kind(a)    == job[a].kind
Idle(a)    == At(a, "idle") /\ Serving(HomeOf[a])
IsLogin(a) == Kind(a) \in {"login", "loginBadPwd"}

(* The handler of a ends and leaves registry call and locals behind *)
Return(a) ==
    /\ call' = [call EXCEPT ![a] = NoCall]
    /\ job'  = [job EXCEPT ![a] = NoJob]

SetConn(n, u, c) == userConnMap' = [userConnMap EXCEPT ![n][u] = c]

-----------------------------------------------------------------------------
(* Client connections *)

Connect(c) ==
    /\ c \notin open /\ Idle(c)
    /\ open' = open \union {c}
    /\ UNCHANGED <<redisVars, registryVars, loggedIn, userConnMap, userState, offline,
                   frames, sent, handed, job>>

(* login: the user's row is read, then queryUserNode runs, before the         *)
(* password is looked at                                                      *)
Login(c, u, kind) ==
    /\ c \in open /\ Idle(c) /\ loggedIn[c] = None
    /\ kind = "loginBadPwd" => c \in Mistypers
    /\ job' = [job EXCEPT ![c] = [kind |-> kind, seen |-> userState[u], hand |-> {}]]
    /\ Enter(c, "query", u)
    /\ UNCHANGED <<redisVars, routeCache, metaCache, proc, open, loggedIn, userConnMap,
                   userState, offline, frames, sent, handed>>

(* errno 1, or errno 2 because queryUserNode found a session *)
LoginReject(c) ==
    /\ IsLogin(c)
    /\ At(c, "found") \/ (At(c, "missing") /\ Kind(c) = "loginBadPwd")
    /\ Return(c)
    /\ UNCHANGED <<redisVars, routeCache, metaCache, proc, open, loggedIn, userConnMap,
                   userState, offline, frames, sent, handed>>

(* MySQL still says "online" from an earlier life *)
LoginReset(c) ==
    /\ Kind(c) = "login" /\ At(c, "missing") /\ job[c].seen = "online"
    /\ userState' = [userState EXCEPT ![call[c].user] = "offline"]
    /\ job' = [job EXCEPT ![c].seen = "offline"]
    /\ UNCHANGED <<redisVars, registryVars, open, loggedIn, userConnMap, offline, frames,
                   sent, handed>>

(* addLocalConnection overwrites whatever connection the table had *)
LoginAdd(c) ==
    /\ Kind(c) = "login" /\ At(c, "missing") /\ job[c].seen = "offline"
    /\ SetConn(HomeOf[c], call[c].user, c)
    /\ Enter(c, "bind", call[c].user)
    /\ UNCHANGED <<redisVars, routeCache, metaCache, proc, open, loggedIn, userState, offline,
                   frames, sent, handed, job>>

(* Slip: the failed login leaves its table entry behind *)
LoginUndoKeepsEntry(c) ==
    /\ Kind(c) = "login" /\ At(c, "refused")
    /\ Return(c)
    /\ UNCHANGED <<redisVars, routeCache, metaCache, proc, open, loggedIn, userConnMap,
                   userState, offline, frames, sent, handed>>

(* bindUser failed: removeLocalConnection(id) erases the entry, whosever, errno 3 *)
LoginUndo(c) ==
    /\ Kind(c) = "login" /\ At(c, "refused")
    /\ SetConn(HomeOf[c], call[c].user, None)
    /\ Return(c)
    /\ UNCHANGED <<redisVars, routeCache, metaCache, proc, open, loggedIn, userState, offline,
                   frames, sent, handed>>

LoginOnline(c) ==
    /\ Kind(c) = "login" /\ At(c, "bound")
    /\ userState' = [userState EXCEPT ![call[c].user] = "online"]
    /\ Goto(c, "offlineQuery")
    /\ UNCHANGED <<redisVars, routeCache, metaCache, proc, open, loggedIn, userConnMap, offline,
                   frames, sent, handed, job>>

(* The offline messages are read by one statement and deleted by another *)
LoginOfflineQuery(c) ==
    /\ At(c, "offlineQuery")
    /\ job' = [job EXCEPT ![c].hand = offline[call[c].user]]
    /\ Goto(c, IF offline[call[c].user] = {} THEN "ack" ELSE "offlineRemove")
    /\ UNCHANGED <<redisVars, routeCache, metaCache, proc, open, loggedIn, userConnMap,
                   userState, offline, frames, sent, handed>>

LoginOfflineRemove(c) ==
    /\ At(c, "offlineRemove")
    /\ offline' = [offline EXCEPT ![call[c].user] = {}]
    /\ Goto(c, "ack")
    /\ UNCHANGED <<redisVars, routeCache, metaCache, proc, open, loggedIn, userConnMap,
                   userState, frames, sent, handed, job>>

(* errno 0 *)
LoginAck(c) ==
    /\ At(c, "ack")
    /\ loggedIn' = [loggedIn EXCEPT ![c] = call[c].user]
    /\ handed'   = handed \union job[c].hand
    /\ Return(c)
    /\ UNCHANGED <<redisVars, routeCache, metaCache, proc, open, userConnMap, userState,
                   offline, frames, sent>>

(* Logout and a lost connection both remove the table entry, unbindUser and   *)
(* then write "offline"; a lost connection finds its user by the connection,  *)
(* and does nothing more when the table does not hold it.                     *)
Leave(c, u) ==
    /\ SetConn(HomeOf[c], u, None)
    /\ job' = [job EXCEPT ![c].kind = "leave"]
    /\ Enter(c, "unbind", u)

Logout(c) ==
    /\ c \in open /\ Idle(c) /\ loggedIn[c] # None
    /\ loggedIn' = [loggedIn EXCEPT ![c] = None]
    /\ Leave(c, loggedIn[c])
    /\ UNCHANGED <<redisVars, routeCache, metaCache, proc, open, userState, offline, frames,
                   sent, handed>>

Close(c) ==
    LET held == {u \in User : userConnMap[HomeOf[c]][u] = c}
    IN  /\ c \in open /\ Idle(c)
        /\ open' = open \ {c}
        /\ loggedIn' = [loggedIn EXCEPT ![c] = None]
        /\ \/ \E u \in held : Leave(c, u)
           \/ held = {} /\ UNCHANGED <<userConnMap, job, call>>
        /\ UNCHANGED <<redisVars, routeCache, metaCache, proc, userState, offline, frames,
                       sent, handed>>

LeaveState(c) ==
    /\ Kind(c) = "leave" /\ At(c, "unbound")
    /\ userState' = [userState EXCEPT ![call[c].user] = "offline"]
    /\ Return(c)
    /\ UNCHANGED <<redisVars, routeCache, metaCache, proc, open, loggedIn, userConnMap, offline,
                   frames, sent, handed>>

-----------------------------------------------------------------------------
(* One-to-one messages.  deliverToLocalUser succeeds when the table has the  *)
(* user and the queue of that connection's loop has room.                     *)

CanHand(n, u)    == userConnMap[n][u] # None
CannotHand(n, u) == userConnMap[n][u] = None \/ QueueMayFill

(* oneChat, up to the local attempt *)
Chat(w, m) ==
    /\ Idle(w) /\ m \notin sent
    /\ sent' = sent \union {m}
    /\ \/ /\ CanHand(HomeOf[w], To[m])
          /\ handed' = handed \union {m}
          /\ UNCHANGED <<call, job>>
       \/ /\ CannotHand(HomeOf[w], To[m])
          /\ job' = [job EXCEPT ![w].kind = "chat", ![w].hand = {m}]
          /\ Enter(w, "resolve", To[m])
          /\ UNCHANGED handed
    /\ UNCHANGED <<redisVars, routeCache, metaCache, proc, open, loggedIn, userConnMap,
                   userState, offline, frames>>

(* "the route says here, the table does not know the user": unbindUser *)
ChatStale(w) ==
    /\ Kind(w) = "chat" /\ At(w, "found") /\ OnSelf(w)
    /\ Enter(w, "unbind", call[w].user)
    /\ UNCHANGED <<redisVars, routeCache, metaCache, proc, serviceVars>>

(* Slip: the return after a successful sendOneChat is missing *)
ChatSendNoReturn(w) ==
    /\ Kind(w) = "chat" /\ At(w, "found") /\ ~OnSelf(w)
    /\ frames' = [frames EXCEPT ![call[w].route.node] = @ \union job[w].hand]
    /\ Goto(w, "sendFailed")
    /\ UNCHANGED <<redisVars, routeCache, metaCache, proc, open, loggedIn, userConnMap,
                   userState, offline, sent, handed, job>>

(* sendOneChat: the router takes the message, or refuses it *)
ChatSend(w) ==
    /\ Kind(w) = "chat" /\ At(w, "found") /\ ~OnSelf(w)
    /\ frames' = [frames EXCEPT ![call[w].route.node] = @ \union job[w].hand]
    /\ Return(w)
    /\ UNCHANGED <<redisVars, routeCache, metaCache, proc, open, loggedIn, userConnMap,
                   userState, offline, sent, handed>>

(* Slip: the result of sendOneChat is ignored *)
ChatSendFailIgnored(w) ==
    /\ Kind(w) = "chat" /\ At(w, "found") /\ ~OnSelf(w)
    /\ Return(w)
    /\ UNCHANGED <<redisVars, routeCache, metaCache, proc, open, loggedIn, userConnMap,
                   userState, offline, frames, sent, handed>>

ChatSendFail(w) ==
    /\ Kind(w) = "chat" /\ At(w, "found") /\ ~OnSelf(w)
    /\ Goto(w, "sendFailed")
    /\ UNCHANGED <<redisVars, routeCache, metaCache, proc, serviceVars>>

(* handleClusterOneChatFrame, up to the local attempt *)
Frame(w, m) ==
    /\ Idle(w) /\ m \in frames[HomeOf[w]]
    /\ frames' = [frames EXCEPT ![HomeOf[w]] = @ \ {m}]
    /\ \/ /\ CanHand(HomeOf[w], To[m])
          /\ handed' = handed \union {m}
          /\ UNCHANGED <<call, job>>
       \/ /\ CannotHand(HomeOf[w], To[m])
          /\ job' = [job EXCEPT ![w].kind = "frame", ![w].hand = {m}]
          /\ Enter(w, "query", To[m])
          /\ UNCHANGED handed
    /\ UNCHANGED <<redisVars, routeCache, metaCache, proc, open, loggedIn, userConnMap,
                   userState, offline, sent>>

(* Unless the user is found on another node, the session is taken for stale *)
FrameStale(w) ==
    /\ Kind(w) = "frame" /\ (At(w, "missing") \/ (At(w, "found") /\ OnSelf(w)))
    /\ Enter(w, "unbind", call[w].user)
    /\ UNCHANGED <<redisVars, routeCache, metaCache, proc, serviceVars>>

(* The fallback of both handlers: offlineMsgModel_.insert *)
StoreReady(w) ==
    \/ Kind(w) = "chat"  /\ call[w].pc \in {"missing", "unbound", "sendFailed"}
    \/ Kind(w) = "frame" /\ (At(w, "unbound") \/ (At(w, "found") /\ ~OnSelf(w)))

OfflineStore(w) ==
    /\ StoreReady(w)
    /\ offline' = [offline EXCEPT ![call[w].user] = @ \union job[w].hand]
    /\ Return(w)
    /\ UNCHANGED <<redisVars, routeCache, metaCache, proc, open, loggedIn, userConnMap,
                   userState, frames, sent, handed>>

-----------------------------------------------------------------------------
(* reset: the orderly shutdown.  Handlers keep running on the I/O threads    *)
(* meanwhile; exit(0) at its end takes the process, as a crash does.         *)

SetCtl(n, l) == proc' = [proc EXCEPT ![n].ctl = l]

ResetBegin(n) ==
    /\ n \in ResetNodes /\ proc[n].ctl = "up" /\ CommandFree(n)
    /\ proc' = [proc EXCEPT ![n].users = nodeUsers[n], ![n].ctl = "stop"]
    /\ UNCHANGED <<redisVars, routeCache, metaCache, call, serviceVars>>

(* NodeRegistry::stop: running_ goes false ... *)
ResetStop(n) ==
    /\ proc[n].ctl = "stop"
    /\ proc' = [proc EXCEPT ![n].running = FALSE, ![n].ctl = "join"]
    /\ UNCHANGED <<redisVars, routeCache, metaCache, call, serviceVars>>

(* Slip: stop does not join the heartbeat thread *)
ResetJoinNot(n) ==
    /\ proc[n].ctl = "join" /\ CommandFree(n)
    /\ proc' = [proc EXCEPT ![n].left = nodeUsers[n], ![n].ctl = "unbind"]
    /\ UNCHANGED <<redisVars, routeCache, metaCache, call, serviceVars>>

(* ... and join returns once the heartbeat thread has left; cleanupSelf then *)
(* lists the users of this node again                                        *)
ResetJoin(n) ==
    /\ proc[n].ctl = "join" /\ proc[n].hb = "off" /\ CommandFree(n)
    /\ proc' = [proc EXCEPT ![n].left = nodeUsers[n], ![n].ctl = "unbind"]
    /\ UNCHANGED <<redisVars, routeCache, metaCache, call, serviceVars>>

ResetDel(n) ==
    /\ proc[n].ctl = "unbind" /\ CommandFree(n)
    /\ \E u \in proc[n].left :
          /\ proc' = [proc EXCEPT ![n].left = @ \ {u}, ![n].cur = u]
          /\ DelSession(u)
    /\ UNCHANGED <<routeCache, metaCache, call, serviceVars>>

ResetSrem(n) ==
    /\ proc[n].cur # None
    /\ RemNodeUser(n, proc[n].cur)
    /\ proc' = [proc EXCEPT ![n].cur = None]
    /\ UNCHANGED <<routeCache, metaCache, call, serviceVars>>

(* Slip: the node leaves the lists but its metadata stays *)
ResetUnregisterLists(n) ==
    /\ proc[n].ctl = "unbind" /\ proc[n].left = {} /\ CommandFree(n)
    /\ nodeUsers' = [nodeUsers EXCEPT ![n] = {}] /\ nodeIds' = nodeIds \ {n}
    /\ SetCtl(n, "clear")
    /\ UNCHANGED <<session, nodeMeta, routeCache, metaCache, call, serviceVars>>

ResetUnregister(n) ==
    /\ proc[n].ctl = "unbind" /\ proc[n].left = {} /\ CommandFree(n)
    /\ UnregisterNode(n)
    /\ SetCtl(n, "clear")
    /\ UNCHANGED <<routeCache, metaCache, call, serviceVars>>

ResetClear(n) ==
    /\ proc[n].ctl = "clear"
    /\ routeCache' = [routeCache EXCEPT ![n] = [u \in User |-> None]]
    /\ metaCache'  = [metaCache EXCEPT ![n] = [k \in Node |-> None]]
    /\ SetCtl(n, "db")
    /\ UNCHANGED <<redisVars, call, serviceVars>>

ResetState(n) ==
    /\ proc[n].ctl = "db"
    /\ \E u \in proc[n].users :
          /\ proc' = [proc EXCEPT ![n].users = @ \ {u}]
          /\ userState' = [userState EXCEPT ![u] = "offline"]
    /\ UNCHANGED <<redisVars, routeCache, metaCache, call, open, loggedIn, userConnMap, offline,
                   frames, sent, handed, job>>

(* The process is gone: its memory, its connections, and some of the frames   *)
(* that were in its sockets or in its router's queues                         *)
Gone(n) ==
    /\ proc' = [proc EXCEPT ![n] = [NoProcess EXCEPT !.inst = proc[n].inst]]
    /\ routeCache'  = [routeCache EXCEPT ![n] = [u \in User |-> None]]
    /\ metaCache'   = [metaCache EXCEPT ![n] = [k \in Node |-> None]]
    /\ userConnMap' = [userConnMap EXCEPT ![n] = [u \in User |-> None]]
    /\ call'     = [a \in Actor |-> IF HomeOf[a] = n THEN NoCall ELSE call[a]]
    /\ job'      = [a \in Actor |-> IF HomeOf[a] = n THEN NoJob ELSE job[a]]
    /\ open'     = {c \in open : HomeOf[c] # n}
    /\ loggedIn' = [c \in Conn |-> IF HomeOf[c] = n THEN None ELSE loggedIn[c]]
    /\ frames' \in [Node -> SUBSET Msg]
    /\ \A k \in Node : frames'[k] \subseteq frames[k]
    /\ UNCHANGED <<redisVars, userState, offline, sent, handed>>

ResetExit(n) == proc[n].ctl = "db" /\ proc[n].users = {} /\ Gone(n)

Crash(n) == n \in CrashNodes /\ proc[n].ctl # "down" /\ Gone(n)

-----------------------------------------------------------------------------
(* The library steps of NodeRegistry leave the service's state alone *)
RegistryNext ==
    /\ \/ \E a \in Actor : RegistryStep(a)
       \/ \E n \in Node :
             \/ Boot(n) \/ BootWarm(n) \/ HeartbeatWake(n) \/ HeartbeatRenew(n)
             \/ ExpireDeadNode(n)
             \/ \E u \in User : ExpireRoute(n, u)
             \/ \E k \in Node : ExpireMeta(n, k)
    /\ UNCHANGED serviceVars

LoginStep(c) ==
    \/ LoginReject(c) \/ LoginReset(c) \/ LoginAdd(c) \/ LoginUndo(c) \/ LoginOnline(c)
    \/ LoginOfflineQuery(c) \/ LoginOfflineRemove(c) \/ LoginAck(c)

ConnNext(c) ==
    \/ Connect(c) \/ Logout(c) \/ Close(c) \/ LeaveState(c) \/ LoginStep(c)
    \/ \E u \in User, kind \in {"login", "loginBadPwd"} : Login(c, u, kind)

WorkerStep(w) == ChatStale(w) \/ ChatSend(w) \/ ChatSendFail(w) \/ FrameStale(w) \/ OfflineStore(w)

WorkerNext(w) ==
    \/ WorkerStep(w)
    \/ \E m \in Msg : Chat(w, m) \/ Frame(w, m)

ResetStep(n) ==
    \/ ResetBegin(n) \/ ResetStop(n) \/ ResetJoin(n) \/ ResetDel(n) \/ ResetSrem(n)
    \/ ResetUnregister(n) \/ ResetClear(n) \/ ResetState(n) \/ ResetExit(n)

Next ==
    \/ RegistryNext
    \/ \E c \in Conn : ConnNext(c)
    \/ \E w \in Worker : WorkerNext(w)
    \/ \E n \in Node : ResetStep(n) \/ Crash(n)

Spec == Init /\ [][Next]_vars

(***************************************************************************)
(* Fairness: a thread inside a handler goes on, TTLs run out, the metadata  *)
(* of a dead node lapses.  That some node is started and that clients keep   *)
(* trying to log in are assumptions about the environment (the code has no   *)
(* job of its own that looks for stale sessions), stated apart.              *)
(***************************************************************************)
CodeFairness ==
    /\ \A a \in Actor : WF_vars(RegistryStep(a) /\ UNCHANGED serviceVars)
    /\ \A c \in Conn : WF_vars(LoginStep(c) \/ LeaveState(c))
    /\ \A n, k \in Node : WF_vars(ExpireMeta(n, k) /\ UNCHANGED serviceVars)
    /\ \A n \in Node : WF_vars((ExpireDeadNode(n) \/ BootWarm(n)) /\ UNCHANGED serviceVars)

ClientsRetry ==
    /\ \A n \in Node \ CrashNodes : WF_vars(Boot(n) /\ UNCHANGED serviceVars)
    /\ \A c \in Conn : WF_vars(Connect(c))
    /\ \A c \in Conn, u \in User : SF_vars(Login(c, u, "login"))

FairSpec == Spec /\ CodeFairness /\ ClientsRetry

-----------------------------------------------------------------------------
(* Properties *)

InLogin(c, u) ==
    /\ Kind(c) = "login" /\ call[c].user = u
    /\ call[c].pc \in {"bind", "bindSadd", "bindFill", "bound", "refused",
                       "offlineQuery", "offlineRemove", "ack"}

(* deliverToLocalUser trusts the connection table: whatever the interleaving *)
(* of logins, logouts and lost connections, an entry for a user names a      *)
(* connection of that node that is up and whose client is logged in, or being *)
(* logged in, as that very user.  Otherwise a message goes to a dead          *)
(* connection or to somebody else.                                            *)
TableTruthful ==
    \A n \in Node, u \in User :
        LET c == userConnMap[n][u]
        IN  c # None => /\ HomeOf[c] = n /\ c \in open
                        /\ loggedIn[c] = u \/ InLogin(c, u)

(* login 156-158: an online user belongs to one node only *)
OneNodePerUser ==
    \A c, d \in Conn :
        loggedIn[c] # None /\ loggedIn[c] = loggedIn[d] => HomeOf[c] = HomeOf[d]

(* What makes login exclusive: from errno 0 until it logs out, a client's node *)
(* owns the user's session in Redis, and no second client has the same user.   *)
SessionHeldWhileLoggedIn ==
    \A c \in Conn :
        loggedIn[c] # None =>
            /\ session[loggedIn[c]] = Self(HomeOf[c])
            /\ \A d \in Conn \ {c} : loggedIn[d] # loggedIn[c]

(* oneChat 366: a user whose session names this node and whom the connection    *)
(* table does not know left a stale route behind, and it is deleted.  So whoever  *)
(* was told errno 0 should be found in the table of his node: a user who is not    *)
(* gets no message, loses his session to the next one, and when he leaves          *)
(* clientCloseException does not know of whom to take leave.                      *)
LoggedInIsFound ==
    \A c \in Conn : loggedIn[c] # None => userConnMap[HomeOf[c]][loggedIn[c]] # None

Binding(n, u) == \E a \in Actor : HomeOf[a] = n /\ call[a].user = u /\ At(a, "bindSadd")

(* cleanupSelf finds the sessions it must delete only through chat:node-users: *)
(* a session that names a node is listed there, but while its bind is half way. *)
(* It rests on command_mtx_, so on one process: it holds as long as no other     *)
(* node takes this one for dead and cleans up after it.                          *)
NodeUsersCoverSessions ==
    \A u \in User :
        session[u] # None =>
            u \in nodeUsers[session[u].node] \/ Binding(session[u].node, u)

(* A message on the live path (in a handler's hand or between nodes) is in one *)
(* place only: no handler both forwards a message and stores it.               *)
Carriers(m) == {w \in Worker : m \in job[w].hand}
LiveCopyUnique ==
    \A m \in Msg :
        LET places == {n \in Node : m \in frames[n]}
        IN  /\ Carriers(m) # {} => places = {}
            /\ \A n, k \in places : n = k
            /\ \A v, w \in Carriers(m) : v = w
            /\ Carriers(m) # {} \/ places # {} => m \notin handed /\ m \notin offline[To[m]]

(* The places a message can be in *)
Held(m) ==
    \/ \E a \in Actor : m \in job[a].hand
    \/ \E n \in Node : m \in frames[n]
    \/ m \in offline[To[m]] \/ m \in handed

(* oneChat 397-398: the handlers of the message path lose nothing; the only step that *)
(* can make a message vanish is login's deletion of the offline messages.       *)
HotPathConserves ==
    [][\A m \in sent : Held(m) /\ ~Held(m)' =>
            \E c \in Conn : At(c, "offlineRemove") /\ To[m] = call[c].user]_vars

(* reset: NodeRegistry::stop joins the heartbeat thread before unregisterNode,  *)
(* so that no late renewal brings a node back that said goodbye.                *)
GoneStaysGone ==
    \A n \in Node : proc[n].ctl \in {"clear", "db"} => nodeMeta[n] = None /\ n \notin nodeIds

(* queryUserNode 85-87: the session of a process that is gone, whether its     *)
(* node stays down or came back as another instance, does not lock the user    *)
(* out: somebody gets in as that user, or the session is removed.              *)
Stale(u) ==
    /\ session[u] # None
    /\ \/ proc[session[u].node].ctl = "down"
       \/ proc[session[u].node].inst # session[u].inst

StaleReclaimed ==
    \A u \in User : Stale(u) ~> (~Stale(u) \/ \E c \in Conn : loggedIn[c] = u)

(* reset lists the sessions it deletes while I/O threads still log users in, and   *)
(* nothing stops them: a session may be bound after the last listing and outlive     *)
(* the process.  Since the metadata is deleted too, and a new instance has another    *)
(* id, queryUserNode asked of Redis finds no such session valid once the process has  *)
(* exited; what other nodes have cached lapses by its TTL.                           *)
LateSessionsInvalid ==
    \A u \in User :
        Stale(u) /\ session[u].node \notin CrashNodes
            => ~SessionValid(session[u], nodeMeta[session[u].node])
=============================================================================
