--------------------------- MODULE OrderedDelivery ---------------------------
(***************************************************************************)
(* What handing messages to the connections of one I/O loop promises        *)
(* (enqueueLocalDelivery of server/chatservice.cpp returning true): messages *)
(* are taken one at a time, written to their connections in the order in      *)
(* which they were taken, each once, and only a message whose connection is   *)
(* down may be dropped.                                                       *)
(***************************************************************************)
EXTENDS Sequences

CONSTANTS Msg, Conn,
          DestOf     \* the connection a message is for

VARIABLES open,      \* connections that are up
          taken,     \* messages taken
          queue,     \* taken, and neither written nor dropped yet
          out        \* what was written, in order

vars == <<open, taken, queue, out>>

Init == open = Conn /\ taken = {} /\ queue = <<>> /\ out = <<>>

Take(m) ==
    /\ m \notin taken
    /\ taken' = taken \union {m}
    /\ queue' = Append(queue, m)
    /\ UNCHANGED <<open, out>>

Write ==
    /\ queue # <<>> /\ DestOf[Head(queue)] \in open
    /\ out' = Append(out, Head(queue))
    /\ queue' = Tail(queue)
    /\ UNCHANGED <<open, taken>>

Drop ==
    /\ queue # <<>> /\ DestOf[Head(queue)] \notin open
    /\ queue' = Tail(queue)
    /\ UNCHANGED <<open, taken, out>>

Close(c) ==
    /\ c \in open /\ open' = open \ {c}
    /\ UNCHANGED <<taken, queue, out>>

Next == (\E m \in Msg : Take(m)) \/ Write \/ Drop \/ (\E c \in Conn : Close(c))

Spec == Init /\ [][Next]_vars
=============================================================================
