----------------------------- MODULE OfflineText -----------------------------
(***************************************************************************)
(* What becomes of the text of a message that waits in MySQL for its user:     *)
(* js.dump() escapes it, OfflineMsgModel::insert puts the dump between two        *)
(* apostrophes in a buffer of fixed size, MySQL reads the literal back, and the     *)
(* client of the next login parses the row.  The message's other fields are plain    *)
(* and left out: a message is its text, a JSON text a quoted string.                 *)
(***************************************************************************)
EXTENDS Naturals, SequencesExt

CONSTANTS Room    \* bytes that sql[1024] leaves for the literal, both apostrophes included

(* Bytes; EnN is the letter n, which means a line break after a backslash *)
Letter == 0
EnN    == 1
Quote  == 2
Apos   == 3
Esc    == 4
Newline == 5

NoRow == <<>>    \* the INSERT was no valid statement

(* nlohmann's dump of a string *)
Dump(text) ==
    <<Quote>> \o FlattenSeq([i \in DOMAIN text |->
        IF text[i] \in {Quote, Esc} THEN <<Esc, text[i]>> ELSE <<text[i]>>]) \o <<Quote>>

Cut(bytes, room) == SubSeq(bytes, 1, IF Len(bytes) < room THEN Len(bytes) ELSE room)

(* Slip: the closing apostrophe no longer fits *)
LiteralCut(text) == Cut(<<Apos>> \o Dump(text) \o <<Apos>>, Room - 1)

(* snprintf: '%s', cut where the buffer ends *)
Literal(text) == Cut(<<Apos>> \o Dump(text) \o <<Apos>>, Room)

(***************************************************************************)
(* MySQL's reading of a string literal, byte by byte: a backslash takes the     *)
(* next byte for itself (n for a line break), two apostrophes are one, one        *)
(* closes the literal.  What follows it must be the end.                          *)
(***************************************************************************)
LexByte(s, b) ==
    CASE s.at = "esc"    -> [at |-> "in", row |-> Append(s.row, IF b = EnN THEN Newline ELSE b)]
      [] s.at = "closed" -> IF b = Apos THEN [at |-> "in", row |-> Append(s.row, Apos)]
                            ELSE [s EXCEPT !.at = "error"]
      [] s.at = "in"     -> IF b = Esc THEN [s EXCEPT !.at = "esc"]
                            ELSE IF b = Apos THEN [s EXCEPT !.at = "closed"]
                            ELSE [s EXCEPT !.row = Append(@, b)]
      [] OTHER           -> s

RowOf(text) ==
    LET lit == Literal(text)
        end == FoldLeft(LexByte, [at |-> "in", row |-> <<>>], Tail(lit))
    IN  IF end.at = "closed" THEN end.row ELSE NoRow

(***************************************************************************)
(* The client's json::parse, ok unless it throws: an escape must be one that JSON has, a line break   *)
(* must be escaped, and the closing quote must be the last byte                  *)
(***************************************************************************)
ParseByte(s, b) ==
    CASE s.at = "start" -> [s EXCEPT !.at = IF b = Quote THEN "in" ELSE "error"]
      [] s.at = "esc"   -> IF b \in {Quote, Esc, EnN}
                           THEN [at |-> "in", text |-> Append(s.text, IF b = EnN THEN Newline ELSE b)]
                           ELSE [s EXCEPT !.at = "error"]
      [] s.at = "in"    -> IF b = Esc THEN [s EXCEPT !.at = "esc"]
                           ELSE IF b = Quote THEN [s EXCEPT !.at = "done"]
                           ELSE IF b = Newline THEN [s EXCEPT !.at = "error"]
                           ELSE [s EXCEPT !.text = Append(@, b)]
      [] OTHER          -> [s EXCEPT !.at = "error"]

Parse(row) ==
    LET end == FoldLeft(ParseByte, [at |-> "start", text |-> <<>>], row)
    IN  [ok |-> end.at = "done", text |-> end.text]

(* The texts that come through: no byte that one of the three readers takes for    *)
(* a sign of its own, and short enough                                            *)
Plain(text) ==
    /\ \A i \in DOMAIN text : text[i] \notin {Quote, Apos, Esc}
    /\ Len(text) + 4 <= Room
=============================================================================
