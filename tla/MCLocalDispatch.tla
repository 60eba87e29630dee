--------------------------- MODULE MCLocalDispatch ---------------------------
(* Small instances of LocalDispatch: the loop's thread and others, messages     *)
(* spread over two connections of the loop.                                     *)
EXTENDS LocalDispatch

CONSTANTS c1, c2,
          ToFirst     \* the messages for c1; the others are for c2

MCDestOf == [m \in Msg |-> IF m \in ToFirst THEN c1 ELSE c2]

(* Messages for one connection are interchangeable until they begin, so it is     *)
(* enough to let them begin in one order.                                         *)
MCEarlier == [m \in Msg |-> {k \in Msg : k < m /\ (k \in ToFirst <=> m \in ToFirst)}]
=============================================================================
