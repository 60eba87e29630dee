------------------------------- MODULE EnvStream -------------------------------
(***************************************************************************)
(* What the file .env says: loadEnvFile (config.cpp) reads it a line at a time  *)
(* and takes a setting out of each line that has one.  Somebody wrote the line,  *)
(* in one of the ways .env.example and a shell allow: with blanks around the      *)
(* parts, with "export" in front, with the value in quotes, after a comment.      *)
(***************************************************************************)
EXTENDS Naturals, SequencesExt

(* Bytes; Export stands for the six letters of the word *)
Blank == 0
Key   == 1
Val   == 2
Eq    == 3
Hash  == 4
Quote == 5
Export == 6
Line  == 7

(* A setting is its value: nothing, a word, one with the signs the reader looks    *)
(* for, one that begins with a blank, one that is itself in quotes                 *)
Message == {<<>>, <<Val>>, <<Eq, Hash>>, <<Blank, Val>>, <<Quote, Val, Quote>>}

InQuotes(v) == Len(v) >= 2 /\ v[1] = Quote /\ v[Len(v)] = Quote
NeedsQuotes(v) == v # <<>> /\ (v[1] = Blank \/ InQuotes(v))

Encodings(v) ==
    LET said == IF NeedsQuotes(v) THEN <<Quote>> \o v \o <<Quote>> ELSE v
        line == <<Key, Eq>> \o said
    IN  {line \o <<Line>>,
         <<Hash, Eq, Line>> \o <<Blank, Export, Blank, Key, Blank, Eq, Blank>> \o said \o <<Line>>}

-----------------------------------------------------------------------------
(* trimCopy *)
Trim(s) ==
    LET kept == {i \in DOMAIN s : s[i] # Blank}
    IN  IF kept = {} THEN <<>> ELSE SubSeq(s, Min(kept), Max(kept))

From(s, i) == SubSeq(s, i, Len(s))

Unquote(v) == IF InQuotes(v) THEN SubSeq(v, 2, Len(v) - 1) ELSE v

(* The settings of a line: none for a comment, an empty line or one without a key *)
Setting(line) ==
    LET bare == Trim(line)
        said == IF IsPrefix(<<Export, Blank>>, bare) THEN Trim(From(bare, 3)) ELSE bare
        at   == SelectInSeq(said, LAMBDA b : b = Eq)
    IN  IF bare = <<>> \/ bare[1] = Hash \/ at = 0 \/ Trim(SubSeq(said, 1, at - 1)) = <<>> THEN <<>>
        ELSE <<Unquote(Trim(From(said, at + 1)))>>

(* One turn of the getline loop *)
Extract(buf) ==
    LET end == SelectInSeq(buf, LAMBDA b : b = Line)
    IN  IF end = 0 THEN [more |-> FALSE, got |-> <<>>, rest |-> buf]
        ELSE [more |-> TRUE, got |-> Setting(SubSeq(buf, 1, end - 1)), rest |-> From(buf, end + 1)]
=============================================================================
