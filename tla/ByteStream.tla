------------------------------ MODULE ByteStream ------------------------------
(***************************************************************************)
(* How the program takes messages out of a stream of bytes: the sender writes *)
(* whole messages, they come in pieces of any length, and the reader appends a   *)
(* piece to what it kept from the last one and then takes out of it what is       *)
(* complete.  The program does so on three kinds of connection and with a file,    *)
(* in four formats:                                                             *)
(*    client -> ChatServer::onMessage                         (ChatStream)        *)
(*    server -> readTaskHandler of the client                 (ClientStream)       *)
(*    ClusterRouter of a node -> ClusterServer::onMessage      (ClusterStream)      *)
(*    .env -> loadEnvFile                                     (EnvStream)          *)
(*                                                                          *)
(* A connection that is lost takes its wire and its buffer with it: the next    *)
(* one starts anew on both sides (onConnection sets an empty context), so one     *)
(* connection is all there is to model.                                        *)
(***************************************************************************)
EXTENDS Naturals, SequencesExt

CONSTANTS
    MaxSent       \* bound: messages sent

VARIABLES
    link,        \* which of the four this is
    sent,        \* messages written, in order, and the bytes they were written as
    wire,        \* bytes under way
    pending,     \* bytes the reader keeps
    reading,     \* the reader is in its callback
    delivered    \* messages handed to the handlers, in order

vars == <<link, sent, wire, pending, reading, delivered>>

Chat    == INSTANCE ChatStream
Client  == INSTANCE ClientStream
Cluster == INSTANCE ClusterStream
Env     == INSTANCE EnvStream

Message ==
    CASE link = "chat"    -> Chat!Message
      [] link = "client"  -> Client!Message
      [] link = "cluster" -> Cluster!Message
      [] link = "env"     -> Env!Message

(* The bytes of a message; people write a setting in more ways than one *)
Encodings(m) ==
    CASE link = "chat"    -> {Chat!Encode(m)}
      [] link = "client"  -> {Client!Encode(m)}
      [] link = "cluster" -> {Cluster!Encode(m)}
      [] link = "env"     -> Env!Encodings(m)

(* One turn of the reader's loop: what it hands over, what it keeps, and whether *)
(* it goes on                                                                 *)
Extract(buf) ==
    CASE link = "chat"    -> Chat!Extract(buf)
      [] link = "client"  -> Client!Extract(buf)
      [] link = "cluster" -> Cluster!Extract(buf)
      [] link = "env"     -> Env!Extract(buf)

Init ==
    /\ link \in {"chat", "client", "cluster", "env"}
    /\ sent = <<>> /\ wire = <<>> /\ pending = <<>> /\ reading = FALSE /\ delivered = <<>>

Send(m) ==
    /\ Len(sent) < MaxSent
    /\ \E bytes \in Encodings(m) :
          /\ sent' = Append(sent, [msg |-> m, bytes |-> bytes])
          /\ wire' = wire \o bytes
    /\ UNCHANGED <<link, pending, reading, delivered>>

(* The callback begins with the first k bytes of what is under way *)
Receive(k) ==
    /\ ~reading
    /\ pending' = pending \o SubSeq(wire, 1, k)
    /\ wire' = SubSeq(wire, k + 1, Len(wire))
    /\ reading' = TRUE
    /\ UNCHANGED <<link, sent, delivered>>

Read ==
    /\ reading
    /\ LET x == Extract(pending)
       IN  /\ pending' = x.rest
           /\ delivered' = delivered \o x.got
           /\ reading' = x.more
    /\ UNCHANGED <<link, sent, wire>>

Next ==
    \/ \E m \in Message : Send(m)
    \/ \E k \in 1..Len(wire) : Receive(k)
    \/ Read

Spec == Init /\ [][Next]_vars

-----------------------------------------------------------------------------
Messages == [i \in DOMAIN sent |-> sent[i].msg]

(* However the bytes are cut into pieces, the handlers see the messages that     *)
(* were sent, whole, in order, none twice and none made up; and when all bytes     *)
(* have come and the callback is over, all of them.                              *)
Faithful ==
    /\ IsPrefix(delivered, Messages)
    /\ wire = <<>> /\ ~reading => delivered = Messages

(* When a callback returns, no message that has arrived completely is left for    *)
(* the next bytes to push it out (ChatServer::onMessage and ClusterServer::         *)
(* onMessage loop over their buffers, readTaskHandler over its own).               *)
Prompt ==
    ~reading /\ Len(delivered) < Len(sent) =>
        Len(pending) < Len(sent[Len(delivered) + 1].bytes)
=============================================================================
