------------------------------- MODULE Redis -------------------------------
(***************************************************************************)
(* The control plane that every node shares: the keys the server keeps in  *)
(* Redis and the commands of server/redis/redis.cpp that read and write     *)
(* them.  One operator is one Redis command (or a group of commands whose   *)
(* intermediate states no other node can tell apart); a C++ function of     *)
(* class Redis that issues two commands is two operators, because another   *)
(* node's command may run between them.                                     *)
(*                                                                          *)
(*   chat:session:<u>      session[u]    "nodeId|instanceId", no TTL        *)
(*   chat:node:<n>         nodeMeta[n]   the hash, reduced to instance_id   *)
(*   chat:node-users:<n>   nodeUsers[n]                                     *)
(*   chat:nodes            nodeIds                                          *)
(***************************************************************************)
EXTENDS Naturals

CONSTANTS
    User,      \* user ids
    Node,      \* node ids (a node id is the node's inter-node ip:port)
    MaxEpoch,  \* bound: how often one node id may be started
    None       \* an absent key, cache entry, argument

Instance == 1..MaxEpoch    \* "<nodeId>#<startMs>": the n-th start of a node id
Route    == [node: Node, inst: Instance]

ASSUME RedisAssumption ==
    /\ MaxEpoch \in Nat \ {0}
    /\ None \notin User /\ None \notin Node /\ None \notin Instance /\ None \notin Route

VARIABLES session, nodeMeta, nodeUsers, nodeIds

redisVars == <<session, nodeMeta, nodeUsers, nodeIds>>

RedisTypeOK ==
    /\ session   \in [User -> Route \union {None}]
    /\ nodeMeta  \in [Node -> Instance \union {None}]
    /\ nodeUsers \in [Node -> SUBSET User]
    /\ nodeIds   \in SUBSET Node

RedisInit ==
    /\ session   = [u \in User |-> None]
    /\ nodeMeta  = [n \in Node |-> None]
    /\ nodeUsers = [n \in Node |-> {}]
    /\ nodeIds   = {}

(* registerNode: HMSET, EXPIRE, SADD chat:nodes *)
RegisterNode(n, i) ==
    /\ nodeMeta' = [nodeMeta EXCEPT ![n] = i]
    /\ nodeIds'  = nodeIds \union {n}
    /\ UNCHANGED <<session, nodeUsers>>

(* unregisterNode: DEL chat:node, DEL chat:node-users, SREM chat:nodes *)
UnregisterNode(n) ==
    /\ nodeMeta'  = [nodeMeta EXCEPT ![n] = None]
    /\ nodeUsers' = [nodeUsers EXCEPT ![n] = {}]
    /\ nodeIds'   = nodeIds \ {n}
    /\ UNCHANGED session

(* getNode: HGETALL chat:node:<k>; None when there is no such key *)
GetNode(k) == nodeMeta[k]

(* Slip: SET without NX *)
SetSessionOverwrites(u, r) ==
    /\ session' = [session EXCEPT ![u] = r]
    /\ UNCHANGED <<nodeMeta, nodeUsers, nodeIds>>

(* SET chat:session:<u> <r> NX: replies OK only when the key is absent *)
SetSessionNX(u, r) ==
    /\ session[u] = None
    /\ session' = [session EXCEPT ![u] = r]
    /\ UNCHANGED <<nodeMeta, nodeUsers, nodeIds>>

(* DEL chat:session:<u>: unconditional, whoever the session belongs to *)
DelSession(u) ==
    /\ session' = [session EXCEPT ![u] = None]
    /\ UNCHANGED <<nodeMeta, nodeUsers, nodeIds>>

(* SADD / SREM chat:node-users:<n> <u> *)
AddNodeUser(n, u) ==
    /\ nodeUsers' = [nodeUsers EXCEPT ![n] = @ \union {u}]
    /\ UNCHANGED <<session, nodeMeta, nodeIds>>

RemNodeUser(n, u) ==
    /\ nodeUsers' = [nodeUsers EXCEPT ![n] = @ \ {u}]
    /\ UNCHANGED <<session, nodeMeta, nodeIds>>

(* The TTL of chat:node:<n> runs out *)
ExpireNodeMeta(n) ==
    /\ nodeMeta[n] # None
    /\ nodeMeta' = [nodeMeta EXCEPT ![n] = None]
    /\ UNCHANGED <<session, nodeUsers, nodeIds>>
=============================================================================
