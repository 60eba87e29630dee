---------------------------- MODULE MCChatService ----------------------------
(* Small instances of ChatService for TLC: two nodes, a few connections and   *)
(* workers placed on them.                                                     *)
EXTENDS ChatService, TLC

CONSTANTS
    n1, n2,      \* the two nodes
    AtFirst      \* the actors that live on n1; the others live on n2

MCActor  == Conn \union Worker
MCHomeOf == [a \in MCActor |-> IF a \in AtFirst THEN n1 ELSE n2]
MCTo     == [m \in Msg |-> CHOOSE u \in User : TRUE]     \* all to one user

(* Connections and workers of one node are interchangeable, and so are the nodes *)
(* when they have the same of both: the permutations that keep what the           *)
(* constants say.                                                                *)
Keeps(f, S) == {f[x] : x \in S} = S

Symmetry ==
    {f \in Permutations(Node \union MCActor) :
        /\ \A S \in {Node, Conn, Worker, Mistypers, BeatNodes, CrashNodes, ResetNodes} : Keeps(f, S)
        /\ \A a \in MCActor : f[MCHomeOf[a]] = MCHomeOf[f[a]]}
=============================================================================
