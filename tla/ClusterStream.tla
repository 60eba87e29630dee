---------------------------- MODULE ClusterStream ----------------------------
(***************************************************************************)
(* What travels between nodes: ClusterRouter::sendOneChat and sendGroupChat     *)
(* encode, ClusterServer::onMessage extracts.  Two formats share a connection:    *)
(* a binary frame (magic, length, receiver, payload) for one-to-one messages, and  *)
(* JSON text that ends with a NUL for group messages.                             *)
(*                                                                          *)
(* A 32-bit number is one byte here and the magic two, so that the sizes keep      *)
(* their proportion.  A receiver may be any number: also one that looks like a      *)
(* NUL or like the start of a frame.  A payload is JSON text: it has no NUL.        *)
(***************************************************************************)
EXTENDS Naturals, Sequences

(* Bytes *)
NUL   == 0
BigO  == 1
BigN  == 2
Brace == 9
Magic == <<BigO, BigN>>

MagicBytes      == Len(Magic)   \* kOneChatFrameMagicBytes
HeaderBytes     == 2            \* kOneChatFrameHeaderBytes: length and receiver
BodyPrefixBytes == 1            \* kOneChatFrameBodyPrefixBytes: the receiver

User    == {NUL, BigO}
Payload == {<<Brace>>, <<Brace, BigO, BigN>>}
Message == [kind: {"oneChat"}, to: User, payload: Payload]
           \union [kind: {"json"}, payload: Payload]

Encode(m) ==
    IF m.kind = "oneChat"
    THEN Magic \o <<BodyPrefixBytes + Len(m.payload), m.to>> \o m.payload
    ELSE m.payload \o <<NUL>>

Wait(buf)            == [more |-> FALSE, got |-> <<>>, rest |-> buf]
Discard              == Wait(<<>>)
Deliver(m, buf, len) == [more |-> TRUE, got |-> <<m>>, rest |-> SubSeq(buf, len + 1, Len(buf))]
Skip(buf, len)       == [more |-> TRUE, got |-> <<>>, rest |-> SubSeq(buf, len + 1, Len(buf))]

(* A buffer that begins with the magic *)
OneChatFrame(buf) ==
    LET bodyLen  == buf[MagicBytes + 1]
        frameLen == MagicBytes + HeaderBytes + bodyLen - BodyPrefixBytes
    IN  IF Len(buf) < MagicBytes + HeaderBytes THEN Wait(buf)
        ELSE IF bodyLen < BodyPrefixBytes THEN Discard
        ELSE IF Len(buf) < frameLen THEN Wait(buf)
        ELSE Deliver([kind |-> "oneChat", to |-> buf[MagicBytes + 2],
                      payload |-> SubSeq(buf, MagicBytes + HeaderBytes + 1, frameLen)],
                     buf, frameLen)

(* A buffer of the other format *)
JsonText(buf) ==
    LET ends == {i \in DOMAIN buf : buf[i] = NUL}
        end  == CHOOSE i \in ends : \A j \in ends : i <= j
    IN  IF ends = {} THEN Wait(buf)
        ELSE IF end = 1 THEN Skip(buf, 1)
        ELSE Deliver([kind |-> "json", payload |-> SubSeq(buf, 1, end - 1)], buf, end)

(* Slip: one message per callback *)
ExtractOne(buf) ==
    IF buf = <<>> THEN Wait(buf)
    ELSE IF buf[1] # BigO THEN [JsonText(buf) EXCEPT !.more = FALSE]
    ELSE IF Len(buf) < MagicBytes THEN Wait(buf)
    ELSE IF SubSeq(buf, 1, MagicBytes) = Magic THEN [OneChatFrame(buf) EXCEPT !.more = FALSE]
    ELSE Discard

Extract(buf) ==
    IF buf = <<>> THEN Wait(buf)
    ELSE IF buf[1] # BigO THEN JsonText(buf)
    ELSE IF Len(buf) < MagicBytes THEN Wait(buf)
    ELSE IF SubSeq(buf, 1, MagicBytes) = Magic THEN OneChatFrame(buf)
    ELSE Discard
=============================================================================
