----------------------------- MODULE ClientStream -----------------------------
(***************************************************************************)
(* What a client receives: the server sends JSON texts with nothing between     *)
(* them, and readTaskHandler (client/main.cpp) finds their ends by counting       *)
(* braces outside of strings, since a user may type braces and quotes.            *)
(***************************************************************************)
EXTENDS Naturals, Sequences

(* Bytes *)
Blank == 0     \* NUL or white space
Open  == 1
Close == 2
Quote == 3
Esc   == 4     \* a backslash

(* {}, {{}}, {"}"}, {"\"{"}, {"\\"}: with a nested object, and with strings that   *)
(* hold a brace, an escaped quote, an escaped backslash at the end                *)
Message == {<<Open, Close>>,
            <<Open, Open, Close, Close>>,
            <<Open, Quote, Close, Quote, Close>>,
            <<Open, Quote, Esc, Quote, Open, Quote, Close>>,
            <<Open, Quote, Esc, Esc, Quote, Close>>}

Encode(m) == m

-----------------------------------------------------------------------------
(* findJsonEnd: depth, the flags inStr and esc, and the end once it is found *)
ScanStart == [depth |-> 0, inStr |-> FALSE, esc |-> FALSE, end |-> 0]

(* Slip: an escaped character is taken as it is *)
ScanByteNoEsc(s, b, i) ==
    IF s.end # 0 THEN s
    ELSE IF s.inStr THEN [s EXCEPT !.inStr = b # Quote]
    ELSE IF b = Quote THEN [s EXCEPT !.inStr = TRUE]
    ELSE IF b = Open THEN [s EXCEPT !.depth = @ + 1]
    ELSE IF b = Close THEN [s EXCEPT !.depth = @ - 1, !.end = IF s.depth = 1 THEN i ELSE 0]
    ELSE s

ScanByte(s, b, i) ==
    IF s.end # 0 THEN s
    ELSE IF s.esc THEN [s EXCEPT !.esc = FALSE]
    ELSE IF s.inStr THEN [s EXCEPT !.esc = b = Esc, !.inStr = b # Quote]
    ELSE IF b = Quote THEN [s EXCEPT !.inStr = TRUE]
    ELSE IF b = Open THEN [s EXCEPT !.depth = @ + 1]
    ELSE IF b = Close THEN [s EXCEPT !.depth = @ - 1, !.end = IF s.depth = 1 THEN i ELSE 0]
    ELSE s

(* 0 when no object is complete *)
FindJsonEnd(buf) ==
    LET scan[i \in 0..Len(buf)] == IF i = 0 THEN ScanStart ELSE ScanByte(scan[i - 1], buf[i], i)
    IN  scan[Len(buf)].end

(* One turn of readTaskHandler's inner loop; blanks skipped are erased as well *)
Extract(buf) ==
    LET start == CHOOSE i \in 1..(Len(buf) + 1) :
                     /\ i <= Len(buf) => buf[i] # Blank
                     /\ \A j \in 1..(i - 1) : buf[j] = Blank
        text == SubSeq(buf, start, Len(buf))
        end  == FindJsonEnd(text)
    IN  IF end = 0 THEN [more |-> FALSE, got |-> <<>>, rest |-> text]
        ELSE [more |-> TRUE, got |-> <<SubSeq(text, 1, end)>>,
              rest |-> SubSeq(text, end + 1, Len(text))]
=============================================================================
