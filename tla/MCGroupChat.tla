----------------------------- MODULE MCGroupChat -----------------------------
(* Small instances of GroupChat for TLC: two nodes, and of each a thread that runs *)
(* group handlers and one that runs those of one-to-one messages.                *)
EXTENDS GroupChat

CONSTANTS n1, n2, AtFirst     \* as in MCChatService

MCActor   == Conn \union Worker \union GroupWorker
MCHomeOf  == [a \in MCActor |-> IF a \in AtFirst THEN n1 ELSE n2]
MCTo      == [m \in Msg |-> CHOOSE u \in User : TRUE]
MCMembers == [m \in Msg |-> User]
=============================================================================
