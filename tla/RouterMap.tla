------------------------------ MODULE RouterMap ------------------------------
(***************************************************************************)
(* clusterrouter.cpp: how its threads find, create and close the channels to   *)
(* one remote node; what happens inside a channel is ClusterRouter.tla.  A      *)
(* critical section of connMapMutex_, warmNodesMutex_ or a channel's mutex is    *)
(* one step.                                                                 *)
(*                                                                          *)
(* The key of a channel holds interIp and interPort of its node (initNode makes *)
(* the node id of them), so a channel found under it is never another           *)
(* endpoint's and the stale branch of getOrCreateChannel is not taken.           *)
(***************************************************************************)
EXTENDS Naturals

CONSTANTS
    Caller,     \* threads that use the router
    Shards,     \* shardCount_
    Remotes,    \* bound: instances of the remote node
    MaxChan     \* bound: channels that enter the map

ASSUME RouterMapAssumption == {Shards, Remotes, MaxChan} \subseteq Nat \ {0}

VARIABLES
    connMap,  \* connMap_ for the remote node's shards: a channel, 0 for none
    chan,     \* the channels: absent, idle, active (connecting or connected), closing
    warmed,   \* the instance in warmedNodeInstances_, 0 for none
    use,      \* the router call of a thread
    closing   \* closeAll: what it does next, the channels it still has to stop

routerVars == <<connMap, chan, warmed, use, closing>>

Shard == 1..Shards
Chan  == 1..MaxChan

(* use[t].warm counts prewarmNode's shards up to Shards + 1; then the message's   *)
(* shard is used (0: no message follows)                                        *)
NoUse == [pc |-> "none", warm |-> 0, shard |-> 0, chan |-> 0]

RouterTypeOK ==
    /\ connMap \in [Shard -> 0..MaxChan]
    /\ chan \in [Chan -> {"absent", "idle", "active", "closing"}]
    /\ warmed \in 0..Remotes
    /\ use \in [Caller -> [pc: {"none", "find", "insert", "touch"}, warm: 0..(Shards + 1),
                           shard: 0..Shards, chan: 0..MaxChan]]
    /\ closing \in [pc: {"no", "clear", "stop", "done"}, left: SUBSET Chan]

RouterInit ==
    /\ connMap = [s \in Shard |-> 0] /\ chan = [c \in Chan |-> "absent"] /\ warmed = 0
    /\ use = [t \in Caller |-> NoUse] /\ closing = [pc |-> "no", left |-> {}]

(* The next shard of a call, or its end *)
Onwards(u) ==
    IF u.warm <= Shards \/ u.shard # 0 THEN [u EXCEPT !.pc = "find", !.chan = 0] ELSE NoUse
ShardOf(t) == IF use[t].warm <= Shards THEN use[t].warm ELSE use[t].shard

(* prewarmNode of the remote's instance r, and for a message send...Chat after it *)
Forward(t, r, s) ==
    /\ use[t] = NoUse
    /\ warmed' = r
    /\ use' = [use EXCEPT ![t] = Onwards([NoUse EXCEPT !.shard = s,
                                            !.warm = IF warmed = r THEN Shards + 1 ELSE 1])]
    /\ UNCHANGED <<connMap, chan, closing>>

(* The two critical sections of getOrCreateChannel; a thread that loses the race  *)
(* stops its own channel, which nobody has seen, and takes the winner's            *)
Find(t) ==
    /\ use[t].pc = "find"
    /\ LET c == connMap[ShardOf(t)]
       IN  use' = [use EXCEPT ![t].pc = IF c = 0 THEN "insert" ELSE "touch", ![t].chan = c]
    /\ UNCHANGED <<connMap, chan, warmed, closing>>

(* Slip: the map is not looked up again *)
InsertOverwrites(t) ==
    /\ use[t].pc = "insert"
    /\ \E new \in Chan :
          /\ chan[new] = "absent" /\ \A c \in 1..(new - 1) : chan[c] # "absent"
          /\ connMap' = [connMap EXCEPT ![ShardOf(t)] = new]
          /\ chan' = [chan EXCEPT ![new] = "idle"]
          /\ use' = [use EXCEPT ![t].pc = "touch", ![t].chan = new]
    /\ UNCHANGED <<warmed, closing>>

Insert(t) ==
    /\ use[t].pc = "insert"
    /\ LET c == connMap[ShardOf(t)]
       IN  \/ /\ c # 0
              /\ use' = [use EXCEPT ![t].pc = "touch", ![t].chan = c]
              /\ UNCHANGED <<connMap, chan>>
           \/ /\ c = 0
              /\ \E new \in Chan :
                    /\ chan[new] = "absent" /\ \A d \in 1..(new - 1) : chan[d] # "absent"
                    /\ connMap' = [connMap EXCEPT ![ShardOf(t)] = new]
                    /\ chan' = [chan EXCEPT ![new] = "idle"]
                    /\ use' = [use EXCEPT ![t].pc = "touch", ![t].chan = new]
    /\ UNCHANGED <<warmed, closing>>

(* Slip: prewarmNode stops after its first shard *)
TouchFirst(t) ==
    /\ use[t].pc = "touch"
    /\ chan' = [chan EXCEPT ![use[t].chan] = IF @ = "idle" THEN "active" ELSE @]
    /\ use' = [use EXCEPT ![t] = IF use[t].warm <= Shards
                                 THEN Onwards([use[t] EXCEPT !.warm = Shards + 1]) ELSE NoUse]
    /\ UNCHANGED <<connMap, warmed, closing>>

(* prewarmNode or enqueueOrSend under the channel's mutex: a channel that is not  *)
(* closing is told to connect; the call goes on with its next shard              *)
Touch(t) ==
    /\ use[t].pc = "touch"
    /\ chan' = [chan EXCEPT ![use[t].chan] = IF @ = "idle" THEN "active" ELSE @]
    /\ use' = [use EXCEPT ![t] = IF use[t].warm <= Shards
                                 THEN Onwards([use[t] EXCEPT !.warm = use[t].warm + 1]) ELSE NoUse]
    /\ UNCHANGED <<connMap, warmed, closing>>

RouterStep(t) == Find(t) \/ Insert(t) \/ Touch(t)

(* closeAll: the map is emptied, then each channel is stopped *)
CloseClear ==
    /\ closing.pc = "clear"
    /\ closing' = [pc |-> "stop", left |-> {connMap[s] : s \in Shard} \ {0}]
    /\ connMap' = [s \in Shard |-> 0]
    /\ UNCHANGED <<chan, warmed, use>>

CloseStop ==
    /\ closing.pc = "stop" /\ closing.left # {}
    /\ \E c \in closing.left :
          /\ chan' = [chan EXCEPT ![c] = "closing"]
          /\ closing' = [closing EXCEPT !.left = @ \ {c}]
    /\ UNCHANGED <<connMap, warmed, use>>
=============================================================================
