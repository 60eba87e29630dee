------------------------------ MODULE NodeLease ------------------------------
(***************************************************************************)
(* One node's entry in Redis as a lease: redis.cpp's registerNode,            *)
(* bindUserNode and unregisterNode, one step per Redis command, and           *)
(* noderegistry.cpp's init and heartbeatLoop, on the process's one command     *)
(* connection.  Redis.tla takes registerNode as one step of a process whose     *)
(* commands all succeed; here a process dies, or its hiredis context fails,    *)
(* between two of them, and the time to live of the entry is counted.          *)
(*                                                                          *)
(* A context that failed once fails every later command (hiredis keeps its    *)
(* error, nothing reconnects); the command it failed in may have been executed.  *)
(***************************************************************************)
EXTENDS Naturals

CONSTANTS
    None,
    Main, Beat,   \* the main thread and the heartbeat thread ...
    Worker,       \* ... and the I/O threads
    Ttl,          \* heartbeatTimeoutMs / 1000 + 2, in ticks
    Gap,          \* bound: a heartbeat thread that can run renews within Gap ticks
    MaxInst,      \* bound: how often the process is started
    LapseBetween  \* bound: an entry may lapse between HMSET and EXPIRE

ASSUME LeaseAssumption ==
    /\ Ttl \in Nat /\ Gap \in Nat \ {0} /\ Gap < Ttl
    /\ MaxInst \in Nat \ {0} /\ LapseBetween \in BOOLEAN
    /\ Main # Beat /\ Main \notin Worker /\ Beat \notin Worker
    /\ None \notin {Main, Beat} \union Worker

VARIABLES
    db,       \* the node in Redis: chat:node:<id> (0: no key), its time to live
              \* (0: never expires) and the instances that sessions name
    inst,     \* the instance of the process, the last one when it is gone
    ctx,      \* command_ctx_ is usable
    running,  \* running_
    lock,     \* who holds command_mtx_ between two commands
    at,       \* what a thread does next
    since     \* ticks since the process last renewed

leaseVars == <<db, inst, ctx, running, lock, at, since>>

Thread   == {Main, Beat} \union Worker
Instance == 1..MaxInst

(* I/O threads wait in their loops, here also before they are started *)
AtRest == [t \in Thread |-> IF t \in Worker THEN "loop" ELSE "off"]

LeaseTypeOK ==
    /\ db \in [inst: 0..MaxInst, ttl: 0..Ttl, sessions: SUBSET Instance]
    /\ inst \in 0..MaxInst /\ ctx \in BOOLEAN /\ running \in BOOLEAN
    /\ lock \in Thread \union {None} /\ since \in 0..Gap
    /\ at \in [Thread -> {"off", "start", "hmset", "expire", "nodes", "threads", "list", "loop",
                          "sleep", "set", "sadd"}]

LeaseInit ==
    /\ db = [inst |-> 0, ttl |-> 0, sessions |-> {}]
    /\ inst = 0 /\ ctx = FALSE /\ running = FALSE /\ lock = None /\ since = 0
    /\ at = AtRest

Alive      == at[Main] # "off"
Goto(t, l) == at' = [at EXCEPT ![t] = l]

(* redisCommand: it is executed, or the context fails before or after that *)
Command(ok, next) ==
    \/ ok /\ ctx /\ db' = next /\ UNCHANGED ctx
    \/ ~ok /\ ctx' = FALSE /\ (db' = db \/ (ctx /\ db' = next))

-----------------------------------------------------------------------------
(* registerNode, under command_mtx_; HMSET keeps the time to live of a hash that *)
(* exists, and a new one has none                                              *)

(* Slip: the entry is written as a new key, without a time to live *)
HashedAnew == [db EXCEPT !.inst = inst, !.ttl = 0]
Hashed     == [db EXCEPT !.inst = inst, !.ttl = IF db.inst = 0 THEN 0 ELSE @]

(* Slip: the time to live is kept when there is one *)
RenewedOnce  == [db EXCEPT !.ttl = IF db.inst = 0 THEN 0 ELSE IF @ = 0 THEN Ttl ELSE @]
(* Slip: EXPIRE is left out *)
RenewedNot   == db
(* Slip: it is added to what is left *)
RenewedTwice == [db EXCEPT !.ttl = IF db.inst = 0 THEN 0 ELSE @ + Ttl]
Renewed == [db EXCEPT !.ttl = IF db.inst = 0 THEN 0 ELSE Ttl]

(* init returns what registerNode does, and initNode gives up; the heartbeat     *)
(* ignores it                                                                 *)
Registered(t, ok) ==
    Goto(t, IF t = Beat THEN "sleep" ELSE IF ok THEN "threads" ELSE "loop")

Hmset(t) ==
    /\ at[t] = "hmset" /\ lock = None
    /\ \E ok \in BOOLEAN :
          /\ Command(ok, Hashed)
          /\ IF ok THEN Goto(t, "expire") /\ lock' = t
                   ELSE Registered(t, FALSE) /\ UNCHANGED lock
    /\ UNCHANGED <<inst, running, since>>

Expire(t) ==
    /\ at[t] = "expire"
    /\ \E ok \in BOOLEAN :
          /\ Command(ok, Renewed)
          /\ IF ok THEN Goto(t, "nodes") /\ since' = 0 /\ UNCHANGED lock
                   ELSE Registered(t, FALSE) /\ lock' = None /\ UNCHANGED since
    /\ UNCHANGED <<inst, running>>

(* SADD chat:nodes *)
AddNode(t) ==
    /\ at[t] = "nodes"
    /\ \E ok \in BOOLEAN : Command(ok, db) /\ Registered(t, ok)
    /\ lock' = None
    /\ UNCHANGED <<inst, running, since>>

(* The process starts: a new instance with a new context *)
Start ==
    /\ ~Alive /\ inst < MaxInst
    /\ inst' = inst + 1 /\ ctx' = TRUE /\ since' = 0
    /\ Goto(Main, "start")
    /\ UNCHANGED <<db, running, lock>>

(* initNode, up to registerNode *)
EnterInit ==
    /\ at[Main] = "start"
    /\ Goto(Main, "hmset")
    /\ UNCHANGED <<db, inst, ctx, running, lock, since>>

(* running_ = true, the heartbeat thread *)
StartBeat ==
    /\ at[Main] = "threads"
    /\ running' = TRUE
    /\ at' = [at EXCEPT ![Main] = "list", ![Beat] = "sleep"]
    /\ UNCHANGED <<db, inst, ctx, lock, since>>

(* listNodes; the server is started when prewarmNode is through with its nodes *)
ListNodes ==
    /\ at[Main] = "list" /\ lock = None
    /\ \E ok \in BOOLEAN : Command(ok, db)
    /\ Goto(Main, "loop")
    /\ UNCHANGED <<inst, running, lock, since>>

(* A turn of heartbeatLoop: the sleep, the test of running_, cacheNode *)
Wake ==
    /\ at[Beat] = "sleep"
    /\ Goto(Beat, IF running THEN "hmset" ELSE "off")
    /\ UNCHANGED <<db, inst, ctx, running, lock, since>>

(* bindUserNode: SET NX for a user without a session, SADD chat:node-users *)
Bind(t) ==
    /\ at[t] = "set" /\ lock = None
    /\ \E ok \in BOOLEAN :
          /\ Command(ok, [db EXCEPT !.sessions = @ \union {inst}])
          /\ IF ok THEN Goto(t, "sadd") /\ lock' = t
                   ELSE Goto(t, "loop") /\ UNCHANGED lock
    /\ UNCHANGED <<inst, running, since>>

BindSadd(t) ==
    /\ at[t] = "sadd"
    /\ \E ok \in BOOLEAN : Command(ok, db)
    /\ Goto(t, "loop") /\ lock' = None
    /\ UNCHANGED <<inst, running, since>>

LeaseStep(t) ==
    \/ t \in {Main, Beat} /\ (Hmset(t) \/ Expire(t) \/ AddNode(t))
    \/ t = Main /\ (EnterInit \/ StartBeat \/ ListNodes)
    \/ t = Beat /\ Wake
    \/ t \in Worker /\ (Bind(t) \/ BindSadd(t))

-----------------------------------------------------------------------------
(* Time.  A process that is not stalled renews before Gap has passed.          *)
Aged ==
    IF db.ttl = 1 THEN [db EXCEPT !.inst = 0, !.ttl = 0]
    ELSE [db EXCEPT !.ttl = IF @ = 0 THEN 0 ELSE @ - 1]

Tick(stalled) ==
    /\ stalled \/ since < Gap
    /\ db.ttl # 0 \/ ~stalled
    /\ db.ttl = 1 /\ ~stalled => LapseBetween \/ \A t \in Thread : at[t] # "expire"
    /\ db' = Aged
    /\ since' = IF stalled THEN since ELSE since + 1
    /\ UNCHANGED <<inst, ctx, running, lock, at>>
=============================================================================
