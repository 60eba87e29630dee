---------------------------- MODULE ServerProcess ----------------------------
(***************************************************************************)
(* server/main.cpp: the life of a server process, from initNode to its end.    *)
(* The main thread registers the node and warms its channels up, then serves;   *)
(* I/O threads bind users and send to a remote node; the heartbeat thread renews *)
(* the lease (NodeLease); the router's map is RouterMap.                        *)
(*                                                                          *)
(* SIGINT runs ChatService::reset on one of the threads, on top of whatever it   *)
(* was doing: the thread stops where it is and keeps the mutex it holds.  When    *)
(* the handler asks for that mutex it waits for itself.  A process also dies      *)
(* without notice (Crash), and is started again.                                *)
(***************************************************************************)
EXTENDS NodeLease, RouterMap

CONSTANTS
    Target,   \* bound: the threads that SIGINT is delivered to
    MaxTask   \* bound: tasks of the I/O threads, for each instance

VARIABLES
    sig,   \* the handler: the thread it runs on, what it does next, and the
           \* mutex that thread holds
    tasks  \* tasks left to the I/O threads

vars == <<leaseVars, routerVars, sig, tasks>>

ASSUME ProcessAssumption ==
    MaxTask \in [Instance -> Nat] /\ Target \subseteq Thread /\ Caller = {Main} \union Worker

NoSig == [on |-> None, pc |-> "no", held |-> "none"]

TypeOK ==
    /\ LeaseTypeOK /\ RouterTypeOK
    /\ sig \in [on: Thread \union {None},
                pc: {"no", "users", "stop", "join", "cleanup", "unregister", "close", "db"},
                held: {"none", "command", "cache", "heap"}]
    /\ tasks \in Nat

Init == LeaseInit /\ RouterInit /\ sig = NoSig /\ tasks = 0

Serving     == at[Main] = "loop" /\ use[Main] = NoUse
Runs(t)     == sig.on # t
Held(m)     == sig.held = m

-----------------------------------------------------------------------------
(* main: start, initNode with its prewarmNode, loop *)

Boot == Start /\ tasks' = MaxTask[inst'] /\ UNCHANGED <<routerVars, sig>>

LeaseAct(t) ==
    /\ Runs(t) /\ (t = Beat /\ at[t] = "sleep" => ~Held("cache"))
    /\ at[t] # "list"
    /\ LeaseStep(t)
    /\ UNCHANGED <<routerVars, sig, tasks>>

Prewarm ==
    /\ Runs(Main) /\ ListNodes
    /\ \/ ctx' /\ \E r \in 1..Remotes : Forward(Main, r, 0)
       \/ UNCHANGED routerVars      \* the command failed, or there is no other node
    /\ UNCHANGED <<sig, tasks>>

RouterAct(t) ==
    /\ Runs(t)
    /\ RouterStep(t)
    /\ UNCHANGED <<leaseVars, sig, tasks>>

(* Handlers of the I/O threads: a login binds a user, oneChat or groupChat sends *)
BeginBind(t) ==
    /\ Serving /\ Runs(t) /\ at[t] = "loop" /\ use[t] = NoUse /\ ~Held("cache")
    /\ tasks > 0 /\ tasks' = tasks - 1
    /\ Goto(t, "set")
    /\ UNCHANGED <<db, inst, ctx, running, lock, since, routerVars, sig>>

BeginForward(t) ==
    /\ Serving /\ Runs(t) /\ at[t] = "loop" /\ ~Held("cache")
    /\ tasks > 0 /\ tasks' = tasks - 1
    /\ \E r \in 1..Remotes, s \in Shard : Forward(t, r, s)
    /\ UNCHANGED <<leaseVars, sig>>

-----------------------------------------------------------------------------
(* resetHandler *)

(* What thread t may hold where the signal meets it; "heap" stands for the         *)
(* allocator's locks.  The mutexes of the router and of the connection pool stop     *)
(* the handler when the node is unregistered already: to stop there is what a        *)
(* handler may do anyway.                                                       *)
Holds(t) ==
    IF lock = t THEN {"command"}
    ELSE {"none", "heap"}
         \union {m \in {"command"} : lock = None /\ at[t] \in {"hmset", "list", "set"}}
         \union {m \in {"cache"} : t # Main \/ at[t] = "list"}

Interrupt(t) ==
    /\ sig = NoSig /\ at[t] \notin {"off", "start"}
    /\ t \in Worker => at[t] # "loop" \/ use[t] # NoUse   \* idle: as the main thread
    /\ \E m \in Holds(t) :
          /\ sig' = [on |-> t, pc |-> "users", held |-> m]
          /\ lock' = IF m = "command" THEN t ELSE lock
    /\ UNCHANGED <<db, inst, ctx, running, at, since, routerVars, tasks>>

Handler(l) == sig.pc = l
Go(l)      == sig' = [sig EXCEPT !.pc = l]

(* getNodeUsers *)
Users ==
    /\ Handler("users") /\ ~Held("heap") /\ lock = None
    /\ \E ok \in BOOLEAN : Command(ok, db)
    /\ Go("stop")
    /\ UNCHANGED <<inst, running, lock, at, since, routerVars, tasks>>

(* Slip: the heartbeat thread is not waited for *)
StopNoJoin ==
    /\ Handler("stop")
    /\ running' = FALSE
    /\ Go("cleanup")
    /\ UNCHANGED <<db, inst, ctx, lock, at, since, routerVars, tasks>>

(* NodeRegistry::stop: a compare-exchange of running_, and the join *)
Stop ==
    /\ Handler("stop")
    /\ running' = FALSE
    /\ Go(IF running THEN "join" ELSE "cleanup")
    /\ UNCHANGED <<db, inst, ctx, lock, at, since, routerVars, tasks>>

Join ==
    /\ Handler("join") /\ at[Beat] = "off"
    /\ Go("cleanup")
    /\ UNCHANGED <<leaseVars, routerVars, tasks>>

(* cleanupSelf: unbindUserNode for what chat:node-users lists; a session that is   *)
(* not in it (its SADD is to come, or was lost) stays                            *)
Cleanup ==
    /\ Handler("cleanup") /\ lock = None
    /\ \E ok \in BOOLEAN, kept \in SUBSET db.sessions : Command(ok, [db EXCEPT !.sessions = kept])
    /\ Go("unregister")
    /\ UNCHANGED <<inst, running, lock, at, since, routerVars, tasks>>

(* ... unregisterNode; then closeAll *)
Unregister ==
    /\ Handler("unregister") /\ lock = None
    /\ \E ok \in BOOLEAN : Command(ok, [db EXCEPT !.inst = 0, !.ttl = 0])
    /\ Go("close")
    /\ closing' = [closing EXCEPT !.pc = "clear"]
    /\ UNCHANGED <<inst, running, lock, at, since, connMap, chan, warmed, use, tasks>>

CloseAll ==
    /\ Handler("close") /\ (CloseClear \/ CloseStop)
    /\ Go(IF closing'.pc = "stop" /\ closing'.left = {} THEN "db" ELSE "close")
    /\ UNCHANGED <<leaseVars, tasks>>

(* The end of the process *)
Die ==
    /\ at' = AtRest /\ ctx' = FALSE /\ running' = FALSE /\ lock' = None /\ since' = 0
    /\ sig' = NoSig
    /\ connMap' = [s \in Shard |-> 0] /\ chan' = [c \in Chan |-> "absent"] /\ warmed' = 0
    /\ use' = [t \in Caller |-> NoUse] /\ closing' = [pc |-> "no", left |-> {}]
    /\ tasks' = 0 /\ UNCHANGED <<db, inst>>

(* updateState of the listed users, the row's business; exit(0) *)
Exit == Handler("db") /\ Die

(* A heartbeat thread that joins itself: the exception ends the process *)
Abort == Handler("join") /\ sig.on = Beat /\ Die

Crash == Alive /\ Die

Leave       == Users \/ Stop \/ Join \/ Cleanup \/ Unregister \/ Abort
HandlerStep == Leave \/ CloseAll \/ Exit

-----------------------------------------------------------------------------
(* Some thread is about to renew the lease and can run *)
Renewing ==
    /\ Alive /\ ctx /\ ~Held("command")
    /\ \/ at[Main] \in {"start", "hmset", "expire", "nodes", "threads"} /\ Runs(Main)
       \/ at[Beat] \in {"hmset", "expire", "nodes"} /\ Runs(Beat)
       \/ at[Beat] = "sleep" /\ running /\ Runs(Beat) /\ ~Held("cache")

Clock == Tick(~Renewing) /\ UNCHANGED <<routerVars, sig, tasks>>

ThreadStep(t) ==
    \/ LeaseAct(t)
    \/ t = Main /\ Prewarm
    \/ t \in Caller /\ RouterAct(t)

Next ==
    \/ Boot \/ Crash \/ Clock \/ HandlerStep
    \/ \E t \in Thread : ThreadStep(t)
    \/ \E t \in Target : Interrupt(t)
    \/ \E t \in Worker : BeginBind(t) \/ BeginForward(t)

Spec == Init /\ [][Next]_vars

(* Time passes and every thread that can run does.  The handler gets command_mtx_  *)
(* in the end (the heartbeat thread, which gives it back and takes it again, sleeps   *)
(* in between); whether it comes to its end, once the node is unregistered, is open.   *)
FairSpec ==
    /\ Spec /\ WF_vars(Clock) /\ SF_vars(Leave)
    /\ \A t \in Thread : WF_vars(ThreadStep(t))

-----------------------------------------------------------------------------
(* heartbeatLoop 208-225 and registerNode 189-212: the entry of a node that       *)
(* registered and renews in time is never gone, whichever command its last renewal  *)
(* has reached, and after a restart under what the last process left.              *)
LeaseKept ==
    at[Main] \in {"list", "loop"} /\ running /\ ctx /\ sig = NoSig
        => db.inst = inst /\ db.ttl # 0

(* registerNode 189 and 205: the entry has no time to live between HMSET and EXPIRE  *)
(* of a first registration.  A process that dies there leaves it for ever; no        *)
(* session names that instance, and none ever will, so none stays valid for ever.    *)
NoImmortalSession == db.inst # 0 /\ db.ttl = 0 => db.inst \notin db.sessions

(* main 11-15, reset 404-421, stop 52-64: a process that is gone, or whose Redis     *)
(* connection failed, or that got SIGINT, does not stay registered: it takes its       *)
(* entry away or lets it lapse, also when the handler waits for a mutex its own        *)
(* thread holds, or joins the thread it runs on.  (Where the signal meets a thread in    *)
(* the allocator the handler hangs at once and the heartbeat goes on.)                  *)
Leaving(i) == inst # i \/ ~Alive \/ ~ctx \/ (sig.on # None /\ ~Held("heap"))

RegistrationEnds ==
    \A i \in Instance :
        db.inst = i /\ Leaving(i) ~> db.inst # i \/ (db.ttl = 0 /\ i \notin db.sessions)

(* getOrCreateChannel 219-265 and closeAll 187-203: a channel that may connect is the  *)
(* one in the map for its shard, or closeAll is about to stop it, whichever threads      *)
(* create and use channels meanwhile: a shard never has two connections.                *)
ChannelKnown ==
    \A c \in Chan : chan[c] \in {"idle", "active"}
        => c \in closing.left \/ \E s \in Shard : connMap[s] = c

(* prewarmNode 154-184: the instance is marked as warmed before its channels exist, and  *)
(* a thread that meets the mark returns at once.  When no thread is in prewarmNode every   *)
(* shard of a marked node has a channel that connects.                                  *)
PrewarmCovers ==
    warmed # 0 /\ closing.pc \in {"no", "clear"} /\ (\A t \in Caller : use[t].warm \notin Shard)
        => \A s \in Shard : connMap[s] # 0 /\ chan[connMap[s]] = "active"
=============================================================================
