------------------------------ MODULE ChatStream ------------------------------
(***************************************************************************)
(* What a client sends to its node: the client (client/main.cpp) ends each     *)
(* JSON text with a NUL, ChatServer::onMessage splits at NULs.                  *)
(***************************************************************************)
EXTENDS Naturals, Sequences

(* Bytes: JSON text has no NUL, its dump escapes control characters *)
NUL     == 0
Message == {<<1>>, <<1, 2>>, <<2, 1, 1>>}

(* send(fd, request.c_str(), request.length() + 1) *)
Encode(m) == m \o <<NUL>>

(* The i-th byte is a NUL and none before it is *)
FirstNul(buf, i) == buf[i] = NUL /\ \A j \in 1..(i - 1) : buf[j] # NUL

(* One turn of the loop; bytes without a NUL are kept for the next read *)
Extract(buf) ==
    IF \E i \in DOMAIN buf : buf[i] = NUL
    THEN LET end == CHOOSE i \in DOMAIN buf : FirstNul(buf, i)
         IN  [more |-> TRUE,
              got  |-> IF end > 1 THEN <<SubSeq(buf, 1, end - 1)>> ELSE <<>>,
              rest |-> SubSeq(buf, end + 1, Len(buf))]
    ELSE [more |-> FALSE, got |-> <<>>, rest |-> buf]
=============================================================================
