--------------------------- MODULE ChatClientProofs ---------------------------
(***************************************************************************)
(* What holds of ChatClient for any number of clients, threads, connections,     *)
(* users and groups.  First the text of a message that waits: OfflineText gives a     *)
(* plain one back as it was.  Then the pool: every step of a handler or a client is a  *)
(* step of the pool or leaves it alone.  Then DataInv, which is about one          *)
(* state's tables, handlers and messages: what plan a handler is at, and what      *)
(* each request, answer and list can say.  Then ClientInv, which is about the      *)
(* order of things: one answer is awaited at a time, and where a client is says     *)
(* whom its connection has let in; and TableInv, which is about the connection       *)
(* table: it may have lost an entry, but it has no wrong one.  On these rests who     *)
(* can leave a row that says "online" of nobody.  Last KeepInv, with which no step     *)
(* loses a plain message but the two that PlainKept names.                          *)
(***************************************************************************)
EXTENDS ChatClient, Integers, FiniteSetTheorems, SequenceTheorems, NaturalsInduction, TLAPS

-----------------------------------------------------------------------------
(* The text of a message that waits: OfflineText's two readers, as recursion over the bytes    *)
(* read so far.  A set of naturals has a least element, so a first byte at which they went      *)
(* wrong would have one before it at which they did                                     *)
LEMMA Least ==
    ASSUME NEW S \in SUBSET Nat, S # {}
    PROVE  \E n \in S : \A k \in S : n <= k
<1>1. PICK n \in S : \A k \in S : ~ (<<k, n>> \in OpToRel(<, Nat))
  <2>1. \E n \in S : \A k \in S : ~ (<<k, n>> \in OpToRel(<, Nat))
    BY NatLessThanWellFounded, WFMin
  <2>2. QED BY <2>1
<1>2. ASSUME NEW k \in S PROVE n <= k
  <2>1. ~ (k < n) BY <1>1 DEF OpToRel
  <2>2. QED BY <2>1
<1>3. QED BY <1>2

(* A reader of bytes: MySQL's lexer, or the client's parser *)
Byte(r, s, b) == IF r = "lex" THEN LexByte(s, b) ELSE ParseByte(s, b)
Top(S) == CHOOSE x \in S : \A y \in S : x >= y
Fold1(r, base, seq, f, s) == IF s = {} THEN base ELSE Byte(r, f[s \ {Top(s)}], seq[Top(s)])
Folds1(r, base, seq) == CHOOSE f : f = [s \in SUBSET DOMAIN seq |-> Fold1(r, base, seq, f, s)]

LEMMA RowReads ==
    ASSUME NEW text
    PROVE  LET lit == Tail(Literal(text))
               end == Folds1("lex", [at |-> "in", row |-> <<>>], lit)[DOMAIN lit]
           IN  RowOf(text) = IF end.at = "closed" THEN end.row ELSE NoRow
BY DEF RowOf, FoldLeft, MapThenFoldSet, Max, Folds1, Fold1, Top, Byte

LEMMA ParseReads ==
    ASSUME NEW row
    PROVE  LET end == Folds1("parse", [at |-> "start", text |-> <<>>], row)[DOMAIN row]
           IN  Parse(row) = [ok |-> end.at = "done", text |-> end.text]
BY DEF Parse, FoldLeft, MapThenFoldSet, Max, Folds1, Fold1, Top, Byte

LEMMA TopIs ==
    ASSUME NEW n \in Nat, NEW s \in SUBSET (1..(n + 1)), n + 1 \in s
    PROVE  Top(s) = n + 1
<1>1. ASSUME NEW x \in s PROVE x \in Nat /\ x <= n + 1
  OBVIOUS
<1>2. \A y \in s : n + 1 >= y
  BY <1>1
<1>3. ASSUME NEW x \in s, \A y \in s : x >= y PROVE x = n + 1
  BY <1>1, <1>3
<1> QED BY <1>2, <1>3 DEF Top

LEMMA FoldExists ==
    ASSUME NEW r, NEW base, NEW seq, NEW N \in Nat
    PROVE  \E f : f = [s \in SUBSET (1..N) |-> Fold1(r, base, seq, f, s)]
<1> DEFINE Good(n) == \E f : f = [s \in SUBSET (1..n) |-> Fold1(r, base, seq, f, s)]
<1>1. Good(0)
  <2>1. SUBSET (1..0) = {{}}
    OBVIOUS
  <2>2. [s \in {{}} |-> base] = [s \in SUBSET (1..0) |-> Fold1(r, base, seq, [x \in {{}} |-> base], s)]
    BY <2>1 DEF Fold1
  <2> QED BY <2>2
<1>2. ASSUME NEW n \in Nat, Good(n) PROVE Good(n + 1)
  <2>1. PICK f : f = [s \in SUBSET (1..n) |-> Fold1(r, base, seq, f, s)]
    BY <1>2
  <2> DEFINE g == [s \in SUBSET (1..(n + 1)) |->
                     IF n + 1 \in s THEN Byte(r, f[s \ {n + 1}], seq[n + 1]) ELSE f[s]]
  <2>2. ASSUME NEW s \in SUBSET (1..(n + 1)) PROVE g[s] = Fold1(r, base, seq, g, s)
    <3>1. CASE n + 1 \in s
      <4>1. s \ {n + 1} \in SUBSET (1..(n + 1)) /\ n + 1 \notin s \ {n + 1} /\ s # {}
        BY <3>1
      <4>2. g[s \ {n + 1}] = f[s \ {n + 1}]
        BY <4>1
      <4>3. g[s] = Byte(r, f[s \ {n + 1}], seq[n + 1])
        BY <3>1
      <4>4. Top(s) = n + 1
        BY <3>1, TopIs
      <4> HIDE DEF g
      <4> QED BY <4>1, <4>2, <4>3, <4>4 DEF Fold1
    <3>2. CASE n + 1 \notin s
      <4>0. s \in SUBSET (1..n)
        BY <3>2
      <4>1. s \in SUBSET (1..n) /\ s \ {Top(s)} \in SUBSET (1..n)
            /\ s \ {Top(s)} \in SUBSET (1..(n + 1)) /\ n + 1 \notin s \ {Top(s)}
        BY <3>2, <4>0
      <4>2. g[s] = f[s] /\ g[s \ {Top(s)}] = f[s \ {Top(s)}]
        BY <3>2, <4>1
      <4>3. f[s] = Fold1(r, base, seq, f, s)
        BY <2>1, <4>1
      <4> HIDE DEF g
      <4> QED BY <4>2, <4>3 DEF Fold1
    <3> QED BY <3>1, <3>2
  <2>3. g = [s \in SUBSET (1..(n + 1)) |-> g[s]]
    OBVIOUS
  <2> HIDE DEF g
  <2>4. g = [s \in SUBSET (1..(n + 1)) |-> Fold1(r, base, seq, g, s)]
    BY <2>2, <2>3
  <2> QED BY <2>4
<1> HIDE DEF Good
<1>3. Good(N)
  <2> SUFFICES ASSUME ~Good(N) PROVE FALSE
    OBVIOUS
  <2> DEFINE Bad == {n \in Nat : ~Good(n)}
  <2>1. PICK n \in Bad : \A k \in Bad : n <= k
    <3>1. Bad \in SUBSET Nat /\ Bad # {}
      OBVIOUS
    <3> HIDE DEF Bad
    <3> QED BY <3>1, Least
  <2>2. n # 0
    BY <1>1
  <2>3. n - 1 \in Nat /\ (n - 1) + 1 = n /\ ~(n <= n - 1)
    BY <2>2
  <2>4. Good(n - 1)
    BY <2>1, <2>3
  <2> QED BY <1>2, <2>3, <2>4
<1> QED BY <1>3 DEF Good

(* What a reader makes of a sequence, byte by byte: at[n] after the first n *)
Reads(r, base, seq, at, end) ==
    /\ at[0] = base /\ end = at[Len(seq)]
    /\ \A n \in 0..(Len(seq) - 1) : at[n + 1] = Byte(r, at[n], seq[n + 1])

LEMMA FoldIs ==
    ASSUME NEW r, NEW base, NEW seq \in Seq(Nat)
    PROVE  \E at : Reads(r, base, seq, at, Folds1(r, base, seq)[DOMAIN seq])
<1> DEFINE f  == Folds1(r, base, seq)
           at == [n \in 0..Len(seq) |-> f[1..n]]
<1>1. DOMAIN seq = 1..Len(seq) /\ Len(seq) \in Nat
  OBVIOUS
<1>2. f = [s \in SUBSET (1..Len(seq)) |-> Fold1(r, base, seq, f, s)]
  BY <1>1, FoldExists DEF Folds1
<1> HIDE DEF f
<1>3. at[0] = base
  <2>1. 1..0 = {} /\ {} \in SUBSET (1..Len(seq)) /\ 0 \in 0..Len(seq)
    BY <1>1
  <2> QED BY <1>2, <2>1 DEF Fold1
<1>4. ASSUME NEW n \in 0..(Len(seq) - 1) PROVE at[n + 1] = Byte(r, at[n], seq[n + 1])
  <2>1. /\ n \in Nat /\ n \in 0..Len(seq) /\ n + 1 \in 0..Len(seq)
        /\ 1..(n + 1) \in SUBSET (1..Len(seq)) /\ 1..n \in SUBSET (1..Len(seq))
        /\ (1..(n + 1)) \ {n + 1} = 1..n /\ n + 1 \in 1..(n + 1)
    BY <1>1
  <2>2. Top(1..(n + 1)) = n + 1
    BY <2>1, TopIs
  <2>3. f[1..(n + 1)] = Byte(r, f[1..n], seq[n + 1])
    BY <1>2, <2>1, <2>2 DEF Fold1
  <2> QED BY <2>1, <2>3
<1>5. at[Len(seq)] = f[DOMAIN seq]
  BY <1>1
<1> HIDE DEF at
<1> QED BY <1>3, <1>4, <1>5 DEF Reads, f

-----
Quoted(text) == <<Quote>> \o text \o <<Quote>>

LEMMA QuotedIs ==
    ASSUME NEW text \in Seq(Nat)
    PROVE  /\ Quoted(text) \in Seq(Nat) /\ Len(text) \in Nat /\ Len(Quoted(text)) = Len(text) + 2
           /\ Quoted(text)[1] = Quote /\ Quoted(text)[Len(text) + 2] = Quote
           /\ \A i \in 1..Len(text) : Quoted(text)[i + 1] = text[i] /\ text[i] \in Nat
BY DEF Quoted, Quote

(* FlattenSeq of single elements gives them back *)
LEMMA FlattenOnes ==
    ASSUME NEW text \in Seq(Nat)
    PROVE  FlattenSeq([i \in DOMAIN text |-> <<text[i]>>]) = text
<1> DEFINE ones == [i \in DOMAIN text |-> <<text[i]>>]
           Flat(f) == [i \in 1..Len(ones) |-> IF i = 1 THEN ones[i] ELSE f[i - 1] \o ones[i]]
           pre == [i \in 1..Len(ones) |-> SubSeq(text, 1, i)]
<1>1. /\ Len(text) \in Nat /\ DOMAIN text = 1..Len(text) /\ Len(ones) = Len(text)
      /\ \A i \in 1..Len(text) : ones[i] = <<text[i]>>
  OBVIOUS
<1> HIDE DEF ones
<1>2. CASE Len(text) = 0
  <2>1. text = <<>> /\ ones = <<>>
    BY <1>1, <1>2 DEF ones
  <2> QED BY <1>1, <1>2, <2>1 DEF FlattenSeq, ones
<1>3. CASE Len(text) # 0
  <2>1. pre = Flat(pre)
    <3>1. ASSUME NEW i \in 1..Len(text) PROVE pre[i] = Flat(pre)[i]
      <4>1. CASE i = 1
        BY <1>1, <3>1, <4>1
      <4>2. CASE i # 1
        <5>1. i - 1 \in 1..Len(text) /\ pre[i - 1] = SubSeq(text, 1, i - 1) /\ pre[i] = SubSeq(text, 1, i)
          BY <1>1, <4>2
        <5>2. SubSeq(text, 1, i) = SubSeq(text, 1, i - 1) \o <<text[i]>>
          <6>1. 1 \in 1..Len(text) /\ i \in 1..Len(text)
            BY <1>1
          <6> QED BY <6>1, SubSeqRecursiveSecond
        <5> QED BY <1>1, <4>2, <5>1, <5>2
      <4> QED BY <4>1, <4>2
    <3> DEFINE other == Flat(pre)
    <3>2. pre = [i \in 1..Len(ones) |-> pre[i]]
      OBVIOUS
    <3>3. \A i \in 1..Len(ones) : pre[i] = other[i]
      BY <1>1, <3>1
    <3> HIDE DEF pre
    <3>4. other = [i \in 1..Len(ones) |-> other[i]]
      OBVIOUS
    <3> HIDE DEF other
    <3>5. pre = other
      BY <3>2, <3>3, <3>4
    <3> QED BY <3>5 DEF other
  <2> DEFINE fl == CHOOSE f : f = Flat(f)
  <2>2. fl = Flat(fl)
    BY <2>1, Zenon
  <2> HIDE DEF fl
  <2>3. ASSUME NEW n \in 1..Len(text) PROVE fl[n] = pre[n]
    <3> DEFINE Bad == {i \in 1..Len(text) : fl[i] # pre[i]}
    <3>1. SUFFICES ASSUME Bad # {} PROVE FALSE
      OBVIOUS
    <3>2. PICK i \in Bad : \A k \in Bad : i <= k
      <4>1. Bad \in SUBSET Nat
        BY <1>1
      <4> HIDE DEF Bad
      <4> QED BY <3>1, <4>1, Least
    <3>3. CASE i = 1
      BY <1>1, <2>1, <2>2, <3>2, <3>3
    <3>4. CASE i # 1
      <4>1. i \in 1..Len(text) /\ i - 1 \in 1..Len(text) /\ ~(i <= i - 1)
        BY <1>1, <3>2, <3>4
      <4>2. fl[i - 1] = pre[i - 1]
        BY <3>2, <4>1
      <4>3. fl[i] = fl[i - 1] \o ones[i] /\ pre[i] = pre[i - 1] \o ones[i]
        BY <1>1, <2>1, <2>2, <3>4, <4>1
      <4> QED BY <3>2, <4>2, <4>3
    <3> QED BY <3>3, <3>4
  <2>4. FlattenSeq(ones) = fl[Len(ones)]
    BY <1>1, <1>3 DEF FlattenSeq, fl
  <2>5. pre[Len(text)] = text
    BY <1>1, <1>3
  <2>6. FlattenSeq(ones) = text
    BY <1>1, <1>3, <2>3, <2>4, <2>5
  <2> QED BY <2>6 DEF ones
<1> QED BY <1>2, <1>3

LEMMA PlainDump ==
    ASSUME NEW text \in Seq(Nat), Plain(text)
    PROVE  Dump(text) = Quoted(text)
<1>1. [i \in DOMAIN text |-> IF text[i] \in {Quote, Esc} THEN <<Esc, text[i]>> ELSE <<text[i]>>]
      = [i \in DOMAIN text |-> <<text[i]>>]
  BY DEF Plain
<1>2. FlattenSeq([i \in DOMAIN text |->
          IF text[i] \in {Quote, Esc} THEN <<Esc, text[i]>> ELSE <<text[i]>>]) = text
  BY <1>1, FlattenOnes
<1> QED BY <1>2 DEF Dump, Quoted

(* Nothing is cut, and what MySQL reads after the first apostrophe *)
LEMMA PlainLiteral ==
    ASSUME NEW text \in Seq(Nat), Plain(text), Room \in Nat
    PROVE  Tail(Literal(text)) = Quoted(text) \o <<Apos>>
<1> DEFINE q == Quoted(text)
<1>1. q \in Seq(Nat) /\ Len(q) = Len(text) + 2 /\ Len(text) + 4 <= Room /\ Len(text) \in Nat /\ Dump(text) = q
  BY QuotedIs, PlainDump DEF Plain
<1> HIDE DEF q
<1>2. <<Apos>> \in Seq(Nat) /\ Len(<<Apos>>) = 1 /\ <<Apos>>[1] = Apos
  BY DEF Apos
<1> DEFINE l == <<Apos>> \o q \o <<Apos>>
<1>3. l \in Seq(Nat) /\ Len(l) = Len(q) + 2
  BY <1>1, <1>2
<1>4. l = <<Apos>> \o (q \o <<Apos>>) /\ q \o <<Apos>> \in Seq(Nat)
  BY <1>1, <1>2
<1>5. Literal(text) = l
  <2>1. Literal(text) = SubSeq(l, 1, Len(l))
    BY <1>1, <1>3 DEF Literal, Cut
  <2> HIDE DEF l
  <2> QED BY <1>3, <2>1
<1>6. Tail(<<Apos>> \o (q \o <<Apos>>)) = q \o <<Apos>>
  <2> DEFINE t == q \o <<Apos>>
  <2>1. t \in Seq(Nat)
    BY <1>4
  <2> HIDE DEF t
  <2>2. Tail(<<Apos>> \o t) = t
    BY <2>1, <1>2
  <2> QED BY <2>2 DEF t
<1> QED BY <1>4, <1>5, <1>6 DEF q

(* A prefix, one byte further *)
LEMMA PrefixMore ==
    ASSUME NEW s \in Seq(Nat), NEW n \in 0..(Len(s) - 1)
    PROVE  SubSeq(s, 1, n + 1) = Append(SubSeq(s, 1, n), s[n + 1])
<1>1. n + 1 \in 1..Len(s) /\ 1 \in 1..Len(s) /\ n + 1 \in 1..Len(s) /\ (n + 1) - 1 = n /\ n \in Nat
  OBVIOUS
<1>2. SubSeq(s, 1, n + 1) = SubSeq(s, 1, n) \o <<s[n + 1]>>
  BY <1>1, SubSeqRecursiveSecond
<1>3. SubSeq(s, 1, n) \in Seq(Nat) /\ s[n + 1] \in Nat
  BY <1>1
<1>4. SubSeq(s, 1, n) \o <<s[n + 1]>> = Append(SubSeq(s, 1, n), s[n + 1])
  BY <1>3, AppendIsConcat
<1> QED BY <1>2, <1>4

(* A reader that is in a state given by how much it has read is so in the end *)
LEMMA ReadsOn ==
    ASSUME NEW at, NEW to, NEW N \in Nat, at[0] = to[0],
           \A n \in 0..(N - 1) : at[n] = to[n] => at[n + 1] = to[n + 1]
    PROVE  at[N] = to[N]
<1> DEFINE Bad == {n \in 0..N : at[n] # to[n]}
<1>1. SUFFICES ASSUME Bad # {} PROVE FALSE
  BY DEF Bad
<1>2. PICK n \in Bad : \A k \in Bad : n <= k
  <2>1. Bad \in SUBSET Nat
    OBVIOUS
  <2> HIDE DEF Bad
  <2> QED BY <1>1, <2>1, Least
<1>3. n \in 0..N /\ at[n] # to[n] /\ n # 0
  BY <1>2
<1>4. n - 1 \in 0..(N - 1) /\ n - 1 \in 0..N /\ (n - 1) + 1 = n /\ ~(n <= n - 1)
  BY <1>3
<1>5. at[n - 1] = to[n - 1]
  BY <1>2, <1>4
<1> QED BY <1>3, <1>4, <1>5

(* MySQL reads the dump back as it was *)
LEMMA PlainRow ==
    ASSUME NEW text \in Seq(Nat), Plain(text), Room \in Nat
    PROVE  RowOf(text) = Quoted(text)
<1> DEFINE q == Quoted(text)
           b == q \o <<Apos>>
           base == [at |-> "in", row |-> <<>>]
           end == Folds1("lex", base, b)[DOMAIN b]
           to == [n \in 0..Len(q) |-> [at |-> "in", row |-> SubSeq(q, 1, n)]]
<1>1. q \in Seq(Nat) /\ Len(q) \in Nat /\ \A i \in 1..Len(q) : q[i] \notin {Apos, Esc}
  <2>1. \A i \in 1..Len(q) : i = 1 \/ i = Len(text) + 2 \/ i - 1 \in 1..Len(text)
    <3>1. Len(q) = Len(text) + 2 /\ Len(text) \in Nat
      BY QuotedIs
    <3> HIDE DEF q
    <3> QED BY <3>1
  <2>2. \A i \in 1..Len(text) : text[i] \notin {Apos, Esc}
    BY DEF Plain
  <2>3. Quote \notin {Apos, Esc}
    BY DEF Quote, Apos, Esc
  <2>4. ASSUME NEW i \in 1..Len(q), i - 1 \in 1..Len(text) PROVE q[i] = text[i - 1]
    <3>1. (i - 1) + 1 = i
      BY <2>4, QuotedIs
    <3> QED BY <2>4, <3>1, QuotedIs
  <2> HIDE DEF q
  <2> QED BY <2>1, <2>2, <2>3, <2>4, QuotedIs DEF q
<1> HIDE DEF q
<1>2. /\ b \in Seq(Nat) /\ Len(b) = Len(q) + 1 /\ b[Len(q) + 1] = Apos
      /\ \A i \in 1..Len(q) : b[i] = q[i]
  BY <1>1 DEF Apos
<1> HIDE DEF b
<1>3. PICK at : Reads("lex", base, b, at, end)
  BY <1>2, FoldIs
<1> HIDE DEF end
<1>4. at[Len(q)] = to[Len(q)]
  <2>1. at[0] = to[0]
    <3>1. SubSeq(q, 1, 0) = <<>>
      BY <1>1
    <3> QED BY <1>1, <1>3, <3>1 DEF Reads
  <2>2. ASSUME NEW n \in 0..(Len(q) - 1), at[n] = to[n] PROVE at[n + 1] = to[n + 1]
    <3>1. n + 1 \in 1..Len(q) /\ n \in 0..Len(q) /\ n + 1 \in 0..Len(q) /\ n \in 0..(Len(b) - 1)
      BY <1>1, <1>2
    <3>2. at[n + 1] = LexByte(at[n], q[n + 1])
      BY <1>2, <1>3, <3>1 DEF Reads, Byte
    <3>3. to[n] = [at |-> "in", row |-> SubSeq(q, 1, n)] /\ to[n + 1] = [at |-> "in", row |-> SubSeq(q, 1, n + 1)]
      BY <3>1
    <3>4. LexByte([at |-> "in", row |-> SubSeq(q, 1, n)], q[n + 1])
            = [at |-> "in", row |-> Append(SubSeq(q, 1, n), q[n + 1])]
      BY <1>1, <3>1 DEF LexByte
    <3> HIDE DEF to
    <3> QED BY <1>1, <2>2, <3>2, <3>3, <3>4, PrefixMore
  <2> HIDE DEF to
  <2> QED BY <1>1, <2>1, <2>2, ReadsOn
<1>5. at[Len(q)] = [at |-> "in", row |-> q]
  <2>1. Len(q) \in 0..Len(q)
    BY <1>1
  <2>2. to[Len(q)] = [at |-> "in", row |-> SubSeq(q, 1, Len(q))]
    BY <2>1
  <2>3. SubSeq(q, 1, Len(q)) = q
    BY <1>1, SubSeqFull
  <2> HIDE DEF to
  <2> QED BY <1>4, <2>2, <2>3
<1>6. end = [at |-> "closed", row |-> q]
  <2>1. Len(q) \in 0..(Len(b) - 1) /\ end = at[Len(q) + 1]
    BY <1>1, <1>2, <1>3 DEF Reads
  <2>2. end = LexByte(at[Len(q)], Apos)
    BY <1>2, <1>3, <2>1 DEF Reads, Byte
  <2> QED BY <1>5, <2>2 DEF LexByte, Apos, Esc
<1>7. Tail(Literal(text)) = b
  BY PlainLiteral DEF b, q
<1>8. RowOf(text) = IF end.at = "closed" THEN end.row ELSE NoRow
  BY <1>7, RowReads DEF end
<1> QED BY <1>6, <1>8 DEF q

(* and the client's parser takes it as the message it was *)
LEMMA PlainParse ==
    ASSUME NEW text \in Seq(Nat), Plain(text), \A i \in DOMAIN text : text[i] # Newline
    PROVE  Parse(Quoted(text)) = [ok |-> TRUE, text |-> text]
<1> DEFINE q == Quoted(text)
           base == [at |-> "start", text |-> <<>>]
           end == Folds1("parse", base, q)[DOMAIN q]
           to == [n \in 0..Len(text) |-> [at |-> "in", text |-> SubSeq(text, 1, n)]]
<1>1. /\ q \in Seq(Nat) /\ Len(text) \in Nat /\ Len(q) = Len(text) + 2
      /\ q[1] = Quote /\ q[Len(text) + 2] = Quote /\ \A i \in 1..Len(text) : q[i + 1] = text[i]
  BY QuotedIs
<1>9. Len(text) \in Nat /\ Len(q) = Len(text) + 2
  BY <1>1
<1>2. \A i \in 1..Len(text) : text[i] \notin {Quote, Esc, Newline}
  BY DEF Plain
<1> HIDE DEF q
<1>3. PICK at : Reads("parse", base, q, at, end)
  BY <1>1, FoldIs
<1> HIDE DEF end
<1> DEFINE from == [n \in 0..Len(text) |-> at[n + 1]]
<1> HIDE DEF to, from
<1>4. from[Len(text)] = to[Len(text)]
  <2>1. from[0] = to[0]
    <3>1. SubSeq(text, 1, 0) = <<>>
      OBVIOUS
    <3>2. 0 \in 0..(Len(q) - 1) /\ at[0] = base
      BY <1>1, <1>3 DEF Reads
    <3>3. at[1] = ParseByte(base, Quote)
      BY <1>1, <1>3, <3>2 DEF Reads, Byte
    <3>4. at[1] = [at |-> "in", text |-> <<>>]
      BY <3>3 DEF ParseByte
    <3> QED BY <1>1, <3>1, <3>4 DEF to, from
  <2>2. ASSUME NEW n \in 0..(Len(text) - 1), from[n] = to[n] PROVE from[n + 1] = to[n + 1]
    <3>1. /\ n + 1 \in 1..Len(text) /\ n \in 0..Len(text) /\ n + 1 \in 0..Len(text)
          /\ n + 1 \in 0..(Len(q) - 1) /\ (n + 1) + 1 = n + 2
      BY <1>9
    <3>2. at[n + 2] = ParseByte(at[n + 1], text[n + 1])
      BY <1>1, <1>3, <3>1 DEF Reads, Byte
    <3>3. /\ to[n] = [at |-> "in", text |-> SubSeq(text, 1, n)]
          /\ to[n + 1] = [at |-> "in", text |-> SubSeq(text, 1, n + 1)]
          /\ from[n] = at[n + 1] /\ from[n + 1] = at[n + 2]
      BY <3>1 DEF to, from
    <3>4. ParseByte([at |-> "in", text |-> SubSeq(text, 1, n)], text[n + 1])
            = [at |-> "in", text |-> Append(SubSeq(text, 1, n), text[n + 1])]
      BY <1>2, <3>1 DEF ParseByte
    <3> QED BY <2>2, <3>2, <3>3, <3>4, PrefixMore
  <2> QED BY <1>1, <2>1, <2>2, ReadsOn
<1>5. at[Len(text) + 1] = [at |-> "in", text |-> text]
  <2>1. Len(text) \in 0..Len(text)
    BY <1>1
  <2>2. to[Len(text)] = [at |-> "in", text |-> SubSeq(text, 1, Len(text))]
    BY <2>1 DEF to
  <2>3. from[Len(text)] = at[Len(text) + 1]
    BY <2>1 DEF from
  <2>4. SubSeq(text, 1, Len(text)) = text
    BY <1>1, SubSeqFull
  <2> QED BY <1>4, <2>2, <2>3, <2>4
<1>6. end = [at |-> "done", text |-> text]
  <2>1. Len(text) + 1 \in 0..(Len(q) - 1) /\ end = at[Len(text) + 2] /\ (Len(text) + 1) + 1 = Len(text) + 2
    BY <1>1, <1>3 DEF Reads
  <2>2. end = ParseByte(at[Len(text) + 1], Quote)
    BY <1>1, <1>3, <2>1 DEF Reads, Byte
  <2> QED BY <1>5, <2>2 DEF ParseByte, Quote, Esc
<1>7. Parse(q) = [ok |-> end.at = "done", text |-> end.text]
  BY ParseReads DEF end
<1>8. (end.at = "done") = TRUE /\ end.text = text
  BY <1>6
<1> HIDE DEF end
<1>10. Parse(q) = [ok |-> TRUE, text |-> text]
  BY <1>7, <1>8
<1> QED BY <1>10 DEF q

(* json::dump, the INSERT of OfflineMsgModel::insert, MySQL and json::parse: a text without   *)
(* one of their signs, and short enough for sql[1024], comes back as it was.               *)
THEOREM PlainRoundTrip ==
    ASSUME NEW text \in Text, Plain(text)
    PROVE  RowOf(text) # NoRow /\ Parse(RowOf(text)) = [ok |-> TRUE, text |-> text]
<1>1. text \in Seq(Nat) /\ Room \in Nat /\ \A i \in DOMAIN text : text[i] # Newline
  <2>1. text \in Seq({Letter, EnN, Quote, Apos, Esc}) /\ Room \in Nat
    BY TextAssumption
  <2> QED BY <2>1 DEF Letter, EnN, Quote, Apos, Esc, Newline
<1>2. RowOf(text) = Quoted(text) /\ Parse(Quoted(text)) = [ok |-> TRUE, text |-> text]
  BY <1>1, PlainRow, PlainParse
<1>3. Len(Quoted(text)) > 0 /\ Len(NoRow) = 0
  BY <1>1, QuotedIs DEF NoRow
<1> QED BY <1>2, <1>3

-----------------------------------------------------------------------------
USE PoolAssumption, AccountsAssumption, StoredAssumption

(* Where each connection is: with the one thread that borrowed it, or at one place *)
(* of the queue                                                                  *)
PoolInv ==
    /\ made \subseteq Handle /\ queue \in Seq(made)
    /\ pc   \in [Thread -> {"idle", "asleep", "woken", "borrowed"}]
    /\ held \in [Thread -> made \union {None}]
    /\ \A t \in Thread : pc[t] = "borrowed" <=> held[t] # None
    /\ \A i, j \in DOMAIN queue : queue[i] = queue[j] => i = j
    /\ \A s, t \in Thread : held[s] = held[t] /\ held[s] # None => s = t
    /\ \A t \in Thread, i \in DOMAIN queue : queue[i] # held[t]
    /\ \A h \in made : (\E i \in DOMAIN queue : queue[i] = h) \/ (\E t \in Thread : held[t] = h)

PoolStep(t) == GetConnection(t) \/ Recheck(t) \/ Spurious(t) \/ PutBack(t)

-----------------------------------------------------------------------------
(* What the system does is a step of the pool *)

LEMMA StatementPools ==
    ASSUME NEW t \in Thread, Statement(t) PROVE PutBack(t) \/ UNCHANGED poolVars
<1>1. CASE UserInsert(t) \/ GroupInsert(t)
  BY <1>1 DEF UserInsert, GroupInsert, poolVars
<1>2. CASE InsertReturns(t) \/ InsertFails(t)
  BY <1>2 DEF InsertReturns, InsertFails, Returns
<1>3. CASE UserQuery(t) \/ UpdateState(t) \/ FriendQuery(t) \/ FriendInsert(t)
  BY <1>3 DEF UserQuery, UpdateState, FriendQuery, FriendInsert, Returns
<1>4. CASE OfflineQuery(t) \/ OfflineRemove(t) \/ OfflineInsert(t)
  BY <1>4 DEF OfflineQuery, OfflineRemove, OfflineInsert, Returns
<1>5. CASE MemberInsert(t) \/ GroupQuery(t) \/ GroupUsersQuery(t)
  BY <1>5 DEF MemberInsert, GroupQuery, GroupUsersQuery, Returns
<1> QED BY <1>1, <1>2, <1>3, <1>4, <1>5 DEF Statement

(* oneChat, with its request by a name of its own *)
LEMMA BeginChatIs ==
    ASSUME NEW c \in Client, BeginChat(c)
    PROVE  \E r : /\ r = Head(requests[c]) /\ Receive(c, {"chat"})
                  /\ UNCHANGED <<userConnMap, session, loggedIn>>
                  /\ \/ /\ userConnMap[r.arg] # None
                        /\ answers' = [answers EXCEPT ![userConnMap[r.arg]] = Append(@, Live(r.text))]
                        /\ job' = job
                     \/ /\ userConnMap[r.arg] = None
                        /\ Serve(c, <<"resolve", "insertOffline">>, {r.arg})
                        /\ answers' = answers
BY Zenon DEF BeginChat

(* A handler begins: what Begin, BeginLeave and BeginChat have in common *)
LEMMA BeginIs ==
    ASSUME NEW c \in Client, Begin(c) \/ BeginLeave(c) \/ BeginLeaveUnknown(c) \/ BeginChat(c)
    PROVE  /\ requests[c] # <<>> /\ ~Busy(c) /\ requests' = [requests EXCEPT ![c] = Tail(@)]
           /\ UNCHANGED <<poolVars, tables>>
           /\ job' = job \/ \E td, to : Serve(c, td, to)
<1>1. CASE Begin(c)
  BY <1>1, Zenon DEF Begin, Receive
<1>2. CASE BeginLeave(c)
  BY <1>2, Zenon DEF BeginLeave, Leave, Receive
<1>3. CASE BeginLeaveUnknown(c)
  BY <1>3, Zenon DEF BeginLeaveUnknown, Receive
<1>4. CASE BeginChat(c)
  BY <1>4, BeginChatIs, Zenon DEF Receive
<1> QED BY <1>1, <1>2, <1>3, <1>4

(* A handler goes on without MySQL *)
Goes(c) ==
    \/ Check(c) \/ AddConn(c) \/ BindUser(c) \/ BindRefused(c) \/ LoginUndo(c) \/ Resolve(c) \/ UnbindUser(c)

(* What these have in common *)
LEMMA GoesIs ==
    ASSUME NEW c \in Client, Goes(c)
    PROVE  /\ \E f \in Unpooled : Next1(c, f)
           /\ UNCHANGED <<poolVars, tables, wire>>
           /\ \E j : job' = [job EXCEPT ![c] = j]
<1>1. CASE Check(c)
  BY <1>1, Zenon DEF Check, Unpooled
<1>2. CASE AddConn(c)
  BY <1>2, Zenon DEF AddConn, Unpooled
<1>3. CASE BindUser(c)
  BY <1>3, Zenon DEF BindUser, Unpooled
<1>4. CASE BindRefused(c)
  BY <1>4, Zenon DEF BindRefused, Unpooled
<1>5. CASE LoginUndo(c)
  BY <1>5, Zenon DEF LoginUndo, Unpooled
<1>6. CASE Resolve(c)
  BY <1>6, Zenon DEF Resolve, Unpooled
<1>7. CASE UnbindUser(c)
  BY <1>7, Zenon DEF UnbindUser, Unpooled
<1> QED BY <1>1, <1>2, <1>3, <1>4, <1>5, <1>6, <1>7 DEF Goes

LEMMA HandlerPools ==
    ASSUME NEW c \in Client, ClientStep(c) PROVE UNCHANGED poolVars
<1>1. CASE Begin(c) \/ BeginLeave(c) \/ BeginLeaveUnknown(c) \/ BeginChat(c)
  BY <1>1, BeginIs
<1>2. CASE Goes(c)
  BY <1>2, GoesIs
<1>3. CASE Reply(c)
  BY <1>3 DEF Reply
<1> QED BY <1>1, <1>2, <1>3 DEF ClientStep, Goes

LEMMA UserPools ==
    ASSUME NEW c \in Client, UserStep(c) \/ Wake(c) \/ ReaderStep(c) PROVE UNCHANGED poolVars
<1>1. CASE UserStep(c)
  BY <1>1 DEF UserStep, AskLogin, AskReg, AddFriend, CreateGroup, AddGroup, Chat, GroupChat,
              Logout, Quit, Command, ServerUnchanged
<1>2. CASE Wake(c)
  BY <1>2 DEF Wake, ServerUnchanged
<1>3. CASE ReaderStep(c)
  BY <1>3 DEF ReaderStep, ReadLive, ReadReg, ReadLoginRefused, ReadLogin, Post, Reading,
              ServerUnchanged
<1> QED BY <1>1, <1>2, <1>3

LEMMA NextPools ==
    ASSUME [Next]_vars PROVE UNCHANGED poolVars \/ \E t \in Thread : PoolStep(t)
<1>1. CASE UNCHANGED vars
  BY <1>1 DEF vars, accVars
<1>2. ASSUME NEW t \in Thread, ThreadStep(t) \/ Rewoken(t)
      PROVE  UNCHANGED poolVars \/ PoolStep(t)
  <2>1. CASE Borrow(t)
    BY <2>1 DEF Borrow, PoolStep
  <2>2. CASE Rewoken(t)
    BY <2>2 DEF Rewoken, PoolStep
  <2>3. CASE Statement(t)
    BY <2>3, StatementPools DEF PoolStep
  <2>4. CASE t \in Client /\ ClientStep(t)
    BY <2>4, HandlerPools
  <2> QED BY <1>2, <2>1, <2>2, <2>3, <2>4 DEF ThreadStep
<1>3. ASSUME NEW c \in Client, UserStep(c) \/ Wake(c) \/ ReaderStep(c)
      PROVE  UNCHANGED poolVars
  BY <1>3, UserPools
<1> QED BY <1>1, <1>2, <1>3 DEF Next, AccountsNext
-----------------------------------------------------------------------------
(* Exclusive *)

LEMMA PoolInitOK == PoolInit => PoolInv
<1> SUFFICES ASSUME PoolInit PROVE PoolInv
  OBVIOUS
<1>1. PICK k \in 0..PoolSize : made = 1..k
  BY DEF PoolInit
<1>2. queue \in Seq(made) /\ DOMAIN queue = made /\ \A i \in made : queue[i] = i
  BY <1>1 DEF PoolInit
<1>3. made \subseteq Handle
  BY <1>1 DEF Handle
<1>4. pc \in [Thread -> {"idle", "asleep", "woken", "borrowed"}] /\ held \in [Thread -> made \union {None}]
  BY DEF PoolInit
<1>5. \A t \in Thread : pc[t] = "idle" /\ held[t] = None
  BY DEF PoolInit
<1>6. None \notin made
  BY <1>3
<1> QED BY <1>2, <1>3, <1>4, <1>5, <1>6 DEF PoolInv

LEMMA TakeInv ==
    ASSUME PoolInv, NEW t \in Thread, pc[t] # "borrowed", Take(t), made' = made
    PROVE  PoolInv'
<1>1. /\ held' = [held EXCEPT ![t] = queue[1]] /\ pc' = [pc EXCEPT ![t] = "borrowed"]
      /\ held[t] = None
  BY DEF Take, Goto, PoolInv
<1>2. /\ queue' \in Seq(made) /\ DOMAIN queue = 1..Len(queue) /\ Len(queue) \in Nat \ {0}
      /\ DOMAIN queue' = 1..(Len(queue) - 1)
      /\ \A i \in DOMAIN queue' : queue'[i] = queue[i + 1]
  BY DEF Take, PoolInv
<1>3. queue[1] \in made /\ queue[1] # None
  BY <1>2 DEF PoolInv
<1>4. /\ made' \subseteq Handle /\ queue' \in Seq(made')
      /\ pc' \in [Thread -> {"idle", "asleep", "woken", "borrowed"}]
      /\ held' \in [Thread -> made' \union {None}]
  BY <1>1, <1>2, <1>3 DEF PoolInv
<1>5. \A s \in Thread : pc'[s] = "borrowed" <=> held'[s] # None
  BY <1>1, <1>3 DEF PoolInv
<1>6. \A i, j \in DOMAIN queue' : queue'[i] = queue'[j] => i = j
  <2> SUFFICES ASSUME NEW i \in DOMAIN queue', NEW j \in DOMAIN queue', queue'[i] = queue'[j]
               PROVE  i = j
    OBVIOUS
  <2>1. i + 1 \in DOMAIN queue /\ j + 1 \in DOMAIN queue /\ queue[i + 1] = queue[j + 1]
    BY <1>2
  <2>2. i + 1 = j + 1
    BY <2>1 DEF PoolInv
  <2> QED BY <2>2, <1>2
<1>7. \A s \in Thread : held[s] # queue[1]
  BY <1>2 DEF PoolInv
<1>8. \A r, s \in Thread : held'[r] = held'[s] /\ held'[r] # None => r = s
  BY <1>1, <1>7 DEF PoolInv
<1>9. \A s \in Thread, i \in DOMAIN queue' : queue'[i] # held'[s]
  <2> SUFFICES ASSUME NEW s \in Thread, NEW i \in DOMAIN queue' PROVE queue'[i] # held'[s]
    OBVIOUS
  <2>1. i + 1 \in DOMAIN queue /\ 1 \in DOMAIN queue /\ i + 1 # 1
    BY <1>2
  <2>2. queue[i + 1] # queue[1] /\ queue[i + 1] # held[s]
    BY <2>1 DEF PoolInv
  <2> QED BY <1>1, <1>2, <2>2 DEF PoolInv
<1>10. \A h \in made' : (\E i \in DOMAIN queue' : queue'[i] = h) \/ (\E s \in Thread : held'[s] = h)
  <2> SUFFICES ASSUME NEW h \in made
               PROVE  (\E i \in DOMAIN queue' : queue'[i] = h) \/ (\E s \in Thread : held'[s] = h)
    OBVIOUS
  <2>1. CASE \E s \in Thread : held[s] = h
    BY <2>1, <1>1, <1>3 DEF PoolInv
  <2>2. ASSUME NEW i \in DOMAIN queue, queue[i] = h
        PROVE (\E j \in DOMAIN queue' : queue'[j] = h) \/ (\E s \in Thread : held'[s] = h)
    <3>1. CASE i = 1
      <4>1. held'[t] = h
        BY <3>1, <2>2, <1>1 DEF PoolInv
      <4> QED BY <4>1
    <3>2. CASE i # 1
      <4>1. i - 1 \in DOMAIN queue' /\ queue'[i - 1] = h
        BY <3>2, <2>2, <1>2
      <4> QED BY <4>1
    <3> QED BY <3>1, <3>2
  <2> QED BY <2>1, <2>2 DEF PoolInv
<1> QED BY <1>4, <1>5, <1>6, <1>8, <1>9, <1>10 DEF PoolInv

LEMMA PutBackInv ==
    ASSUME PoolInv, NEW t \in Thread, PutBack(t) PROVE PoolInv'
<1>1. /\ held' = [held EXCEPT ![t] = None] /\ held[t] \in made /\ held[t] # None
      /\ made' = made /\ pc[t] = "borrowed"
  BY DEF PutBack, PoolInv
<1>2. /\ queue' \in Seq(made) /\ DOMAIN queue = 1..Len(queue) /\ Len(queue) \in Nat
      /\ DOMAIN queue' = 1..(Len(queue) + 1)
      /\ \A i \in DOMAIN queue : queue'[i] = queue[i]
      /\ queue'[Len(queue) + 1] = held[t]
  BY <1>1 DEF PutBack, PoolInv
<1>3. /\ pc' \in [Thread -> {"idle", "asleep", "woken", "borrowed"}]
      /\ pc'[t] = "idle" /\ \A s \in Thread \ {t} : pc'[s] = "borrowed" <=> pc[s] = "borrowed"
  BY <1>1 DEF PutBack, Notify, Goto, Asleep, PoolInv
<1>4. made' \subseteq Handle /\ queue' \in Seq(made') /\ held' \in [Thread -> made' \union {None}]
  BY <1>1, <1>2 DEF PoolInv
<1>5. \A s \in Thread : pc'[s] = "borrowed" <=> held'[s] # None
  BY <1>1, <1>3 DEF PoolInv
<1>6. \A i, j \in DOMAIN queue' : queue'[i] = queue'[j] => i = j
  <2>1. \A i \in DOMAIN queue : queue[i] # held[t]
    BY DEF PoolInv
  <2>2. \A i \in DOMAIN queue' : i \in DOMAIN queue \/ i = Len(queue) + 1
    BY <1>2
  <2> QED BY <1>2, <2>1, <2>2 DEF PoolInv
<1>7. \A r, s \in Thread : held'[r] = held'[s] /\ held'[r] # None => r = s
  BY <1>1 DEF PoolInv
<1>8. \A s \in Thread, i \in DOMAIN queue' : queue'[i] # held'[s]
  <2> SUFFICES ASSUME NEW s \in Thread, NEW i \in DOMAIN queue' PROVE queue'[i] # held'[s]
    OBVIOUS
  <2>1. queue'[i] \in made /\ None \notin made
    BY <1>2, <1>4 DEF PoolInv
  <2>2. CASE s = t
    BY <2>1, <2>2, <1>1 DEF PoolInv
  <2>3. CASE s # t /\ i \in DOMAIN queue
    BY <2>3, <1>1, <1>2 DEF PoolInv
  <2>4. CASE s # t /\ i = Len(queue) + 1
    BY <2>4, <1>1, <1>2 DEF PoolInv
  <2> QED BY <2>2, <2>3, <2>4, <1>2
<1>9. \A h \in made' : (\E i \in DOMAIN queue' : queue'[i] = h) \/ (\E s \in Thread : held'[s] = h)
  <2> SUFFICES ASSUME NEW h \in made
               PROVE  (\E i \in DOMAIN queue' : queue'[i] = h) \/ (\E s \in Thread : held'[s] = h)
    BY <1>1
  <2>1. DOMAIN queue \subseteq DOMAIN queue' /\ Len(queue) + 1 \in DOMAIN queue'
    BY <1>2
  <2>2. CASE \E i \in DOMAIN queue : queue[i] = h
    BY <2>1, <2>2, <1>2
  <2>3. CASE held[t] = h
    BY <2>1, <2>3, <1>2
  <2>4. CASE \E s \in Thread \ {t} : held[s] = h
    BY <2>4, <1>1 DEF PoolInv
  <2> QED BY <2>2, <2>3, <2>4 DEF PoolInv
<1> QED BY <1>3, <1>4, <1>5, <1>6, <1>7, <1>8, <1>9 DEF PoolInv

LEMMA PoolInvStep ==
    ASSUME PoolInv, UNCHANGED poolVars \/ \E t \in Thread : PoolStep(t) PROVE PoolInv'
<1>1. CASE UNCHANGED poolVars
  BY <1>1 DEF poolVars, PoolInv
<1>2. ASSUME NEW t \in Thread, Sleep(t), pc[t] # "borrowed", made' = made PROVE PoolInv'
  BY <1>2 DEF Sleep, Goto, PoolInv
<1>3. ASSUME NEW t \in Thread, Spurious(t) PROVE PoolInv'
  BY <1>3 DEF Spurious, Goto, PoolInv
<1>4. ASSUME NEW t \in Thread, GetConnection(t) \/ Recheck(t) PROVE PoolInv'
  BY <1>2, <1>4, TakeInv DEF GetConnection, Recheck
<1> QED BY <1>1, <1>3, <1>4, PutBackInv DEF PoolStep

LEMMA PoolInvExclusive == PoolInv => Exclusive
<1> SUFFICES ASSUME PoolInv, NEW h \in made
             PROVE  LET spots == {<<"queue", i>> : i \in {j \in DOMAIN queue : queue[j] = h}}
                                 \union {<<"thread", t>> : t \in {s \in Thread : held[s] = h}}
                    IN  Cardinality(spots) = 1
  BY DEF Exclusive
<1> DEFINE Places == {j \in DOMAIN queue : queue[j] = h}
           Holders == {s \in Thread : held[s] = h}
           Spots == {<<"queue", i>> : i \in Places} \union {<<"thread", t>> : t \in Holders}
<1>1. h # None
  BY DEF PoolInv
<1>2. ASSUME NEW i \in DOMAIN queue, queue[i] = h PROVE Places = {i} /\ Holders = {}
  BY <1>2 DEF PoolInv
<1>3. ASSUME NEW t \in Thread, held[t] = h PROVE Places = {} /\ Holders = {t}
  BY <1>1, <1>3 DEF PoolInv
<1>4. \E x : Spots = {x}
  <2>1. CASE \E i \in DOMAIN queue : queue[i] = h
    <3>1. PICK i \in DOMAIN queue : queue[i] = h
      BY <2>1
    <3>2. Spots = {<<"queue", i>>}
      BY <3>1, <1>2
    <3> QED BY <3>2
  <2>2. CASE \E t \in Thread : held[t] = h
    <3>1. PICK t \in Thread : held[t] = h
      BY <2>2
    <3>2. Spots = {<<"thread", t>>}
      BY <3>1, <1>3
    <3> QED BY <3>2
  <2> QED BY <2>1, <2>2 DEF PoolInv
<1>5. Cardinality(Spots) = 1
  <2> HIDE DEF Spots
  <2>1. PICK x : Spots = {x}
    BY <1>4
  <2> QED BY <2>1, FS_Singleton
<1> QED BY <1>5

(* The deleter gives a connection back and getConnection takes it: each MySQL      *)
(* connection is with exactly one thread or exactly once in the queue, for any number *)
(* of threads and connections.                                                    *)
THEOREM PoolExclusive == Spec => []Exclusive
<1>1. Init => PoolInv
  BY PoolInitOK DEF Init, AccountsInit
<1>2. PoolInv /\ [Next]_vars => PoolInv'
  BY NextPools, PoolInvStep
<1> QED BY <1>1, <1>2, PoolInvExclusive, PTL DEF Spec

-----------------------------------------------------------------------------
(* NoLostWakeup *)

LEMMA FiniteThreads ==
    ASSUME NEW T \in SUBSET Thread PROVE IsFiniteSet(T) /\ Cardinality(T) \in Nat
  BY FS_Subset, FS_CardinalityType

LEMMA WakeupStep ==
    ASSUME PoolInv, NoLostWakeup, UNCHANGED poolVars \/ \E t \in Thread : PoolStep(t)
    PROVE  NoLostWakeup'
<1> DEFINE W == Cardinality(Woken)
<1>1. CASE UNCHANGED poolVars
  BY <1>1 DEF poolVars, NoLostWakeup, Asleep, Woken
<1>2. /\ IsFiniteSet(Woken) /\ W \in Nat /\ Len(queue) \in Nat
      /\ Woken' \subseteq Thread /\ IsFiniteSet(Woken') /\ Cardinality(Woken') \in Nat
  BY FiniteThreads DEF Woken, PoolInv
<1>3. ASSUME NEW t \in Thread, Sleep(t) PROVE NoLostWakeup'
  BY <1>2, <1>3 DEF Sleep, NoLostWakeup
<1>4. ASSUME NEW t \in Thread, Take(t), pc[t] = "idle" PROVE NoLostWakeup'
  <2>1. Woken' = Woken /\ Asleep' = Asleep
    BY <1>4 DEF Take, Goto, Woken, Asleep, PoolInv
  <2>2. Len(queue') = Len(queue) - 1
    BY <1>4 DEF Take, PoolInv
  <2> QED BY <1>2, <2>1, <2>2 DEF NoLostWakeup
<1>5. ASSUME NEW t \in Thread, Take(t), pc[t] = "woken" PROVE NoLostWakeup'
  <2>1. Woken' = Woken \ {t} /\ t \in Woken /\ Asleep' = Asleep
    BY <1>5 DEF Take, Goto, Woken, Asleep, PoolInv
  <2>2. Len(queue') = Len(queue) - 1
    BY <1>5 DEF Take, PoolInv
  <2>3. Cardinality(Woken') = W - 1
    BY <1>2, <2>1, FS_RemoveElement
  <2> QED BY <1>2, <2>1, <2>2, <2>3 DEF NoLostWakeup
<1>6. ASSUME NEW s \in Thread, s \in Asleep, Woken' = Woken \union {s}
      PROVE  Cardinality(Woken') = W + 1
  <2>1. s \notin Woken
    BY <1>6 DEF Woken, Asleep
  <2> QED BY <1>2, <1>6, <2>1, FS_AddElement
<1>7. ASSUME NEW t \in Thread, Spurious(t) PROVE NoLostWakeup'
  <2>1. Woken' = Woken \union {t} /\ t \in Asleep /\ queue' = queue
    BY <1>7 DEF Spurious, Goto, Woken, Asleep, PoolInv
  <2>2. Len(queue) <= W
    BY <2>1 DEF NoLostWakeup
  <2>3. Cardinality(Woken') = W + 1
    BY <1>6, <2>1
  <2>4. Len(queue') <= Cardinality(Woken')
    BY <1>2, <2>1, <2>2, <2>3
  <2> QED BY <2>4 DEF NoLostWakeup
<1>8. ASSUME NEW t \in Thread, PutBack(t) PROVE NoLostWakeup'
  <2>1. Len(queue') = Len(queue) + 1
    BY <1>8 DEF PutBack, PoolInv
  <2>2. CASE Asleep = {} /\ Goto(t, "idle")
    <3>1. Asleep' = {}
      BY <2>2 DEF Goto, Asleep, PoolInv
    <3> QED BY <3>1 DEF NoLostWakeup
  <2>3. ASSUME NEW s \in Asleep, pc' = [pc EXCEPT ![t] = "idle", ![s] = "woken"]
        PROVE  NoLostWakeup'
    <3>1. s \in Thread /\ Woken' = Woken \union {s}
      BY <1>8, <2>3 DEF PutBack, Asleep, Woken, PoolInv
    <3>2. Len(queue) <= W
      BY <2>3 DEF NoLostWakeup
    <3>3. Cardinality(Woken') = W + 1
      BY <1>6, <2>3, <3>1
    <3> QED BY <1>2, <2>1, <3>2, <3>3 DEF NoLostWakeup
  <2> QED BY <1>8, <2>2, <2>3 DEF PutBack, Notify
<1> QED BY <1>1, <1>3, <1>4, <1>5, <1>7, <1>8 DEF PoolStep, GetConnection, Recheck

(* cv_.wait of getConnection and notify_one of the deleter: while a thread sleeps,  *)
(* as many threads are awake to take connections as there are in the queue, for any    *)
(* number of threads, spurious wake-ups and newcomers that take one first.            *)
THEOREM PoolWakesSleepers == Spec => []NoLostWakeup
<1>1. Init => PoolInv /\ NoLostWakeup
  <2>1. PoolInit => NoLostWakeup
    BY DEF PoolInit, NoLostWakeup, Asleep
  <2> QED BY <2>1, PoolInitOK DEF Init, AccountsInit
<1>2. PoolInv /\ NoLostWakeup /\ [Next]_vars => PoolInv' /\ NoLostWakeup'
  BY NextPools, PoolInvStep, WakeupStep
<1> QED BY <1>1, <1>2, PTL DEF Spec

-----------------------------------------------------------------------------
(* DataInv: what a request, a handler and an answer can be *)

(* Requests that are answered, those of the menu that are not, and the stages of a    *)
(* login: before the session is looked at, from then to bindUser or its undo, after it;   *)
(* those of a message, and of a logout or a lost connection                          *)
Token    == {"reg", "login"}
Commands == {"chat", "groupChat", "addFriend", "createGroup", "addGroup"}
Looking  == {<<"queryUser", "check">>, <<"check">>}
PreBind  == {<<"setOffline", "addConn", "bindUser">>, <<"addConn", "bindUser">>, <<"bindUser">>, <<"removeConn">>}
PostBind == {<<"setOnline", "queryOffline", "queryFriends", "queryGroups">>,
             <<"queryOffline", "queryFriends", "queryGroups">>,
             <<"removeOffline", "queryFriends", "queryGroups">>,
             <<"queryFriends", "queryGroups">>, <<"queryGroups">>}

Sending  == {<<"resolve", "insertOffline">>, <<"unbindUser", "resolve", "insertOffline">>, <<"insertOffline">>}
Exiting  == {<<"unbindUser", "setOffline">>, <<"setOffline">>}

Plans == Looking \union PreBind \union PostBind \union Sending \union Exiting \union
         {<<>>, <<"insertUser">>, <<"insertFriend">>, <<"createGroup">>, <<"addCreator">>, <<"addGroup">>,
          <<"queryGroupUsers">>}

(* What a handler of a request op has left to do *)
PlanFits(op, td) ==
    \/ td = <<>>
    \/ op = "reg" /\ td = <<"insertUser">>
    \/ op = "login" /\ td \in Looking \union PreBind \union PostBind
    \/ op = "addFriend" /\ td = <<"insertFriend">>
    \/ op = "createGroup" /\ td \in {<<"createGroup">>, <<"addCreator">>}
    \/ op = "addGroup" /\ td = <<"addGroup">>
    \/ op = "groupChat" /\ td \in {<<"queryGroupUsers">>} \union Sending
    \/ op = "chat" /\ td \in Sending
    \/ op \in {"logout", "close"} /\ td \in Exiting

(* The sets the variables take their values from *)
Words  == Text \union {<<>>}
Row    == Words \union {RowOf(x) : x \in Words}
User   == [by: Client \union {None}, state: {"online", "offline"}]
AnyRequest == [op: Commands \union Token \union {"none", "logout", "close"}, id: 0..MaxUser,
               arg: 0..MaxUser \union GroupId, text: Words]
Answer == [kind: {"none", "reg", "login", "live"}, errno: 0..3, id: 0..MaxUser, rows: Seq(Row),
           friends: SUBSET (UserId \X UserId), groups: SUBSET GroupId]
JobState == [req: AnyRequest, todo: Plans, got: {"no", "yes"}, to: SUBSET UserId,
        ask: SUBSET UserId, state: {"online", "offline"}, ans: Answer]

(* A request names who asks; only registered users are logged in as *)
RequestFits(r, ids) ==
    /\ r.op = "none" => r = NoRequest
    /\ r.op = "login" => r.id \in ids \union {0}
    /\ r.op \in Commands \union {"logout"} => r.id \in UserId
    /\ r.op \in {"chat", "addFriend"} => r.arg \in UserId
    /\ r.op \in {"close", "reg"} => r.id = 0

OneUsers(list) == \A f, g \in list : f[1] = g[1]

(* The id of a registration is that of a row the client c registered; friends are of    *)
(* one user, and table friend has them                                           *)
AnswerFits(c, a, us, fr) ==
    /\ a.friends \subseteq fr /\ OneUsers(a.friends)
    /\ a.kind = "reg" /\ a.errno = 0 => a.id \in DOMAIN us /\ us[a.id].by = c
    /\ a.kind = "login" /\ a.errno = 0 => a.id \in UserId

TablesOK ==
    /\ user \in Seq(User) /\ Len(user) \in Stored.users..MaxUser
    /\ group \in Seq(UserId) /\ Len(group) <= MaxGroup
    /\ friend \subseteq UserId \X UserId /\ member \subseteq GroupId \X UserId
    /\ offline \in [UserId -> Seq(Row)]
    /\ insertId \in [Handle -> Nat]
    /\ userConnMap \in [UserId -> Client \union {None}] /\ session \subseteq UserId
    /\ loggedIn \in [Client -> 0..MaxUser]

Op(c) == job[c].req.op

(* A login's answer is there from check on, and it goes on only when that let it in *)
LoginFits(j) ==
    /\ j.to = {}
    /\ j.todo \in Looking => j.ans.kind = "none"
    /\ j.todo \notin Looking => j.ans.kind = "login" /\ j.ans.id = j.req.id
    /\ j.todo \in PreBind \union PostBind => j.ans.errno = 0 /\ j.req.id \in UserId

(* Only clients' threads run handlers.  Between the two steps of an insert that asks     *)
(* for its id, the connection is borrowed and still has the id of this thread's own row  *)
JobFits(t) ==
    /\ t \notin Client => job[t] = NoJob
    /\ PlanFits(Op(t), Todo(t))
    /\ RequestFits(job[t].req, DOMAIN user) /\ AnswerFits(t, job[t].ans, user, friend)
    /\ Op(t) = "login" => LoginFits(job[t])
    /\ Op(t) = "reg" => job[t].ans.kind = (IF Todo(t) = <<>> THEN "reg" ELSE "none")
    /\ Op(t) \notin Token => job[t].ans.kind = "none"
    /\ Todo(t) \in Exiting => job[t].to # {} /\ Asker(t) \in job[t].to \union {0}
    /\ Todo(t) = <<"addCreator">> => job[t].req.arg \in DOMAIN group
    /\ job[t].got = "yes" =>
          /\ pc[t] = "borrowed" /\ Todo(t) \in {<<"insertUser">>, <<"createGroup">>}
          /\ Todo(t) = <<"insertUser">> =>
                insertId[held[t]] \in DOMAIN user /\ user[insertId[held[t]]].by = t
          /\ Todo(t) = <<"createGroup">> => insertId[held[t]] \in DOMAIN group

AnswersOK(c) ==
    /\ answers[c] \in Seq(Answer)
    /\ \A i \in DOMAIN answers[c] :
          AnswerFits(c, answers[c][i], user, friend) /\ answers[c][i].kind # "none"

RequestsOK(c) ==
    /\ requests[c] \in Seq(Request)
    /\ \A i \in DOMAIN requests[c] : RequestFits(requests[c][i], DOMAIN user)

ListsOK(c) ==
    /\ friendList[c] \subseteq friend /\ OneUsers(friendList[c])
    /\ groupList[c] \subseteq GroupId

DataInv ==
    /\ TablesOK
    /\ job \in [Thread -> JobState]
    /\ \A t \in Thread : JobFits(t)
    /\ answers \in [Client -> Seq(Answer)] /\ requests \in [Client -> Seq(Request)]
    /\ \A c \in Client : AnswersOK(c) /\ RequestsOK(c) /\ ListsOK(c)
    /\ currentUser \in [Client -> 0..MaxUser]
    /\ \A c \in Client : main[c] = "menu" \/ isLoginSuccess[c] => currentUser[c] \in UserId

-----------------------------------------------------------------------------
(* ClientInv: where a client, its connection and its handler are in one exchange.          *)
(* Posted: the reader is about to post, or has.  Quiet: nothing is asked and no             *)
(* handler runs                                                                  *)
Waits(op) == IF op = "login" THEN "waitLogin" ELSE "waitReg"
Sent(c, ops) == \E i \in DOMAIN requests[c] : requests[c][i].op \in ops
Told(c)   == \E i \in DOMAIN answers[c] : answers[c][i].kind \in Token
Posted(c) == reader[c] = "post" \/ sem[c] = 1
Quiet(c)  == requests[c] = <<>> /\ Op(c) = "none"

(* A registration, a login or a close is the last thing sent, no command follows a logout,  *)
(* and one answer is under way at a time                                         *)
OrderInv(c) ==
    /\ \A i, j \in DOMAIN requests[c] : i < j =>
          /\ requests[c][i].op \notin Token \union {"close"}
          /\ requests[c][i].op = "logout" => requests[c][j].op \notin Commands \union {"logout"}
    /\ \A i, j \in DOMAIN answers[c] :
          answers[c][i].kind \in Token /\ answers[c][j].kind \in Token => i = j

(* Of a request that is answered, its handler, its answer and the post there is one,        *)
(* and while there is, the main thread waits for it                              *)
TurnInv(c) ==
    /\ sem[c] \in {0, 1} /\ (reader[c] = "post" => sem[c] = 0)
    /\ \A i \in DOMAIN requests[c] : requests[c][i].op \in Token => main[c] = Waits(requests[c][i].op)
    /\ Op(c) \in Token => main[c] = Waits(Op(c))
    /\ \A i \in DOMAIN answers[c] : answers[c][i].kind \in Token => main[c] = Waits(answers[c][i].kind)
    /\ Posted(c) => main[c] \in {"waitLogin", "waitReg"}
    /\ Sent(c, Token) => Op(c) \notin Token /\ ~Told(c) /\ ~Posted(c)
    /\ Op(c) \in Token => requests[c] = <<>> /\ ~Told(c) /\ ~Posted(c)
    /\ Told(c) => Quiet(c) /\ ~Posted(c)
    /\ Posted(c) => Quiet(c)

(* Where a login is: bound, its answer under way, its post under way;      *)
(* or doLoginResponse threw, and nobody posts                                    *)
Bound(c)    == Op(c) = "login" /\ (Todo(c) \in PostBind \/ (Todo(c) = <<>> /\ job[c].ans.errno = 0))
Welcomed(c) == \E i \in DOMAIN answers[c] : answers[c][i].kind = "login" /\ answers[c][i].errno = 0
Entering(c) == main[c] = "waitLogin" /\ Posted(c) /\ isLoginSuccess[c]
Stuck(c)    == main[c] = "waitLogin" /\ ~Posted(c) /\ Quiet(c) /\ ~Told(c)

(* Whom a login has let in at c: who is somebody is in the menu, on the way into it, on the  *)
(* way out of it, or stuck; and whoever sends a command or is shown the menu is            *)
HereInv(c) ==
    /\ \A i \in DOMAIN requests[c] :
          requests[c][i].op \in Commands \union {"logout"} => loggedIn[c] = requests[c][i].id
    /\ Sent(c, {"logout"}) => main[c] # "menu"
    /\ Sent(c, {"close"}) => main[c] = "gone"
    /\ main[c] = "menu" \/ Entering(c) => loggedIn[c] = currentUser[c]
    /\ \A i \in DOMAIN answers[c] :
          answers[c][i].kind = "login" /\ answers[c][i].errno = 0 => loggedIn[c] = answers[c][i].id
    /\ Bound(c) => loggedIn[c] = Asker(c)
    /\ loggedIn[c] # 0 =>
          \/ main[c] = "menu" \/ Sent(c, {"logout", "close"}) \/ Bound(c) \/ Welcomed(c)
          \/ Entering(c) \/ Stuck(c)

(* The connection table names c for the user it has let in only, or for one whose login   *)
(* it is in the middle of                                                         *)
TableInv(c) ==
    \A u \in UserId : userConnMap[u] = c =>
        \/ loggedIn[c] = u
        \/ Op(c) = "login" /\ Asker(c) = u /\ Todo(c) \in {<<"bindUser">>, <<"removeConn">>}

-----------------------------------------------------------------------------
(* The tuples that handlers' plans are *)
LEMMA Tail1 == ASSUME NEW a PROVE <<a>> # <<>> /\ Head(<<a>>) = a /\ Tail(<<a>>) = <<>>
  OBVIOUS

LEMMA Tail2 ==
    ASSUME NEW a, NEW b PROVE <<a, b>> # <<>> /\ Head(<<a, b>>) = a /\ Tail(<<a, b>>) = <<b>>
<1>1. Tail(<<a, b>>) = <<b>>
  OBVIOUS
<1> QED BY <1>1

LEMMA Tail3 ==
    ASSUME NEW a, NEW b, NEW c
    PROVE  <<a, b, c>> # <<>> /\ Head(<<a, b, c>>) = a /\ Tail(<<a, b, c>>) = <<b, c>>
<1>1. Tail(<<a, b, c>>) = <<b, c>>
  OBVIOUS
<1> QED BY <1>1

LEMMA Tail4 ==
    ASSUME NEW a, NEW b, NEW c, NEW d
    PROVE  <<a, b, c, d>> # <<>> /\ Head(<<a, b, c, d>>) = a /\ Tail(<<a, b, c, d>>) = <<b, c, d>>
<1>1. Tail(<<a, b, c, d>>) = <<b, c, d>>
  OBVIOUS
<1> QED BY <1>1

LEMMA Prefixed == ASSUME NEW a, NEW b, NEW c PROVE <<a>> \o <<b, c>> = <<a, b, c>>
<1> DEFINE s == <<a>> \o <<b, c>>
           t == <<a, b, c>>
<1>1. Len(s) = 3 /\ s[1] = a /\ s[2] = b /\ s[3] = c
  OBVIOUS
<1>2. s \in Seq({a, b, c}) /\ t \in Seq({a, b, c})
  OBVIOUS
<1>3. Len(t) = 3 /\ t[1] = a /\ t[2] = b /\ t[3] = c
  OBVIOUS
<1>4. \A i \in 1..3 : s[i] = t[i]
  BY <1>1, <1>3
<1> QED BY <1>1, <1>2, <1>3, <1>4, SeqEqual

(* What a handler does next says where in its plan it is *)
LEMMA NextPlan ==
    ASSUME NEW op, NEW td, PlanFits(op, td), td # <<>>
    PROVE  /\ Head(td) = "insertUser" => op = "reg" /\ td = <<"insertUser">> /\ Tail(td) = <<>>
           /\ Head(td) = "queryUser" => op = "login" /\ td \in Looking /\ Tail(td) = <<"check">>
           /\ Head(td) = "check" => op = "login" /\ td = <<"check">> /\ Tail(td) = <<>>
           /\ Head(td) = "addConn" =>
                 op = "login" /\ td = <<"addConn", "bindUser">> /\ Tail(td) = <<"bindUser">>
           /\ Head(td) = "bindUser" => op = "login" /\ td = <<"bindUser">> /\ Tail(td) = <<>>
           /\ Head(td) = "removeConn" => op = "login" /\ td = <<"removeConn">> /\ Tail(td) = <<>>
           /\ Head(td) = "setOnline" =>
                 op = "login" /\ td \in PostBind /\ Tail(td) = <<"queryOffline", "queryFriends", "queryGroups">>
           /\ Head(td) = "setOffline" =>
                 \/ op = "login" /\ td \in PreBind /\ Tail(td) = <<"addConn", "bindUser">>
                 \/ op \in {"logout", "close"} /\ td = <<"setOffline">> /\ Tail(td) = <<>>
           /\ Head(td) = "queryOffline" =>
                 op = "login" /\ td \in PostBind /\ Tail(td) = <<"queryFriends", "queryGroups">>
           /\ Head(td) = "removeOffline" =>
                 op = "login" /\ td \in PostBind /\ Tail(td) = <<"queryFriends", "queryGroups">>
           /\ Head(td) = "queryFriends" => op = "login" /\ td \in PostBind /\ Tail(td) = <<"queryGroups">>
           /\ Head(td) = "queryGroups" => op = "login" /\ td \in PostBind /\ Tail(td) = <<>>
           /\ Head(td) = "insertFriend" => op = "addFriend" /\ Tail(td) = <<>>
           /\ Head(td) = "createGroup" => op = "createGroup" /\ td = <<"createGroup">> /\ Tail(td) = <<>>
           /\ Head(td) = "addCreator" => op = "createGroup" /\ td = <<"addCreator">> /\ Tail(td) = <<>>
           /\ Head(td) = "addGroup" => op = "addGroup" /\ Tail(td) = <<>>
           /\ Head(td) = "queryGroupUsers" => op = "groupChat" /\ Tail(td) = <<>>
           /\ Head(td) = "insertOffline" => op \in {"chat", "groupChat"} /\ td = <<"insertOffline">> /\ Tail(td) = <<>>
           /\ Head(td) = "resolve" =>
                 /\ op \in {"chat", "groupChat"} /\ td = <<"resolve", "insertOffline">>
                 /\ Tail(td) = <<"insertOffline">>
           /\ Head(td) = "unbindUser" =>
                 \/ /\ op \in {"chat", "groupChat"} /\ td = <<"unbindUser", "resolve", "insertOffline">>
                    /\ Tail(td) = <<"resolve", "insertOffline">>
                 \/ /\ op \in {"logout", "close"} /\ td = <<"unbindUser", "setOffline">>
                    /\ Tail(td) = <<"setOffline">>
<1>1. CASE op = "reg" /\ td = <<"insertUser">>
  BY <1>1, Tail1
<1>2. CASE op = "login" /\ td \in Looking
  <2>1. CASE td = <<"queryUser", "check">>
    <3>1. Head(td) = "queryUser" /\ Tail(td) = <<"check">>
      BY ONLY <2>1, Tail2
    <3> QED BY <1>2, <3>1
  <2>2. CASE td = <<"check">>
    <3>1. Head(td) = "check" /\ Tail(td) = <<>>
      BY ONLY <2>2, Tail1
    <3> QED BY <1>2, <2>2, <3>1
  <2> QED BY <1>2, <2>1, <2>2 DEF Looking
<1>3. CASE op = "login" /\ td \in PreBind
  <2>1. CASE td = <<"setOffline", "addConn", "bindUser">>
    <3>1. Head(td) = "setOffline" /\ Tail(td) = <<"addConn", "bindUser">>
      BY ONLY <2>1, Tail3
    <3> QED BY <1>3, <3>1
  <2>2. CASE td = <<"addConn", "bindUser">>
    <3>1. Head(td) = "addConn" /\ Tail(td) = <<"bindUser">>
      BY ONLY <2>2, Tail2
    <3> QED BY <1>3, <2>2, <3>1
  <2>3. CASE td = <<"bindUser">>
    <3>1. Head(td) = "bindUser" /\ Tail(td) = <<>>
      BY ONLY <2>3, Tail1
    <3> QED BY <1>3, <2>3, <3>1
  <2>4. CASE td = <<"removeConn">>
    <3>1. Head(td) = "removeConn" /\ Tail(td) = <<>>
      BY ONLY <2>4, Tail1
    <3> QED BY <1>3, <2>4, <3>1
  <2> QED BY <1>3, <2>1, <2>2, <2>3, <2>4 DEF PreBind
<1>4. CASE op = "login" /\ td \in PostBind
  <2> DEFINE f == "queryFriends"  g == "queryGroups"  o == "queryOffline"
  <2>1. \/ td = <<"setOnline", o, f, g>> /\ Head(td) = "setOnline" /\ Tail(td) = <<o, f, g>>
        \/ td = <<o, f, g>> /\ Head(td) = o /\ Tail(td) = <<f, g>>
        \/ td = <<"removeOffline", f, g>> /\ Head(td) = "removeOffline" /\ Tail(td) = <<f, g>>
        \/ td = <<f, g>> /\ Head(td) = f /\ Tail(td) = <<g>>
        \/ td = <<g>> /\ Head(td) = g /\ Tail(td) = <<>>
    <3>1. td = <<"setOnline", o, f, g>> => Head(td) = "setOnline" /\ Tail(td) = <<o, f, g>>
      BY ONLY Tail4
    <3>2. td = <<o, f, g>> => Head(td) = o /\ Tail(td) = <<f, g>>
      BY ONLY Tail3
    <3>3. td = <<"removeOffline", f, g>> => Head(td) = "removeOffline" /\ Tail(td) = <<f, g>>
      BY ONLY Tail3
    <3>4. td = <<f, g>> => Head(td) = f /\ Tail(td) = <<g>>
      BY ONLY Tail2
    <3>5. td = <<g>> => Head(td) = g /\ Tail(td) = <<>>
      BY ONLY Tail1
    <3> QED BY <1>4, <3>1, <3>2, <3>3, <3>4, <3>5 DEF PostBind
  <2> QED BY <1>4, <2>1
<1>5. CASE op = "addFriend" /\ td = <<"insertFriend">>
  BY <1>5, Tail1
<1>6. CASE op = "createGroup" /\ td \in {<<"createGroup">>, <<"addCreator">>}
  BY <1>6, Tail1
<1>7. CASE op = "addGroup" /\ td = <<"addGroup">>
  BY <1>7, Tail1
<1>8. CASE op = "groupChat" /\ td = <<"queryGroupUsers">>
  BY <1>8, Tail1
<1>9. CASE op \in {"chat", "groupChat"} /\ td \in Sending
  <2>1. CASE td = <<"unbindUser", "resolve", "insertOffline">>
    <3>1. Head(td) = "unbindUser" /\ Tail(td) = <<"resolve", "insertOffline">>
      BY ONLY <2>1, Tail3
    <3> QED BY <1>9, <2>1, <3>1
  <2>2. CASE td = <<"resolve", "insertOffline">>
    <3>1. Head(td) = "resolve" /\ Tail(td) = <<"insertOffline">>
      BY ONLY <2>2, Tail2
    <3> QED BY <1>9, <2>2, <3>1
  <2>3. CASE td = <<"insertOffline">>
    <3>1. Head(td) = "insertOffline" /\ Tail(td) = <<>>
      BY ONLY <2>3, Tail1
    <3> QED BY <1>9, <2>3, <3>1
  <2> QED BY <1>9, <2>1, <2>2, <2>3 DEF Sending
<1>10. CASE op \in {"logout", "close"} /\ td \in Exiting
  <2>1. CASE td = <<"unbindUser", "setOffline">>
    <3>1. Head(td) = "unbindUser" /\ Tail(td) = <<"setOffline">>
      BY ONLY <2>1, Tail2
    <3> QED BY <1>10, <2>1, <3>1
  <2>2. CASE td = <<"setOffline">>
    <3>1. Head(td) = "setOffline" /\ Tail(td) = <<>>
      BY ONLY <2>2, Tail1
    <3> QED BY <1>10, <2>2, <3>1
  <2> QED BY <1>10, <2>1, <2>2 DEF Exiting
<1> QED BY <1>1, <1>2, <1>3, <1>4, <1>5, <1>6, <1>7, <1>8, <1>9, <1>10 DEF PlanFits

LEMMA PlanStages ==
    /\ <<>> \notin Looking /\ <<>> \notin PreBind /\ <<>> \notin PostBind
    /\ Looking \intersect PreBind = {} /\ Looking \intersect PostBind = {} /\ PreBind \intersect PostBind = {}
    /\ <<"queryUser", "check">> \in Looking /\ <<"check">> \in Looking
    /\ <<"setOffline", "addConn", "bindUser">> \in PreBind /\ <<"addConn", "bindUser">> \in PreBind
    /\ <<"bindUser">> \in PreBind /\ <<"removeConn">> \in PreBind
    /\ <<"setOnline", "queryOffline", "queryFriends", "queryGroups">> \in PostBind
    /\ <<"queryOffline", "queryFriends", "queryGroups">> \in PostBind
    /\ <<"removeOffline">> \o <<"queryFriends", "queryGroups">> \in PostBind
    /\ <<"queryFriends", "queryGroups">> \in PostBind /\ <<"queryGroups">> \in PostBind
<1>1. \A td \in Looking : td # <<>> /\ Head(td) \in {"queryUser", "check"}
  BY Tail1, Tail2 DEF Looking
<1>2. \A td \in PreBind : td # <<>> /\ Head(td) \in {"setOffline", "addConn", "bindUser", "removeConn"}
  BY Tail1, Tail2, Tail3 DEF PreBind
<1>3. \A td \in PostBind :
         td # <<>> /\ Head(td) \in {"setOnline", "queryOffline", "removeOffline", "queryFriends", "queryGroups"}
  BY Tail1, Tail2, Tail3, Tail4 DEF PostBind
<1>4. <<"removeOffline">> \o <<"queryFriends", "queryGroups">> \in PostBind
  BY Prefixed DEF PostBind
<1>5. /\ <<>> \notin Looking /\ <<>> \notin PreBind /\ <<>> \notin PostBind
      /\ Looking \intersect PreBind = {} /\ Looking \intersect PostBind = {} /\ PreBind \intersect PostBind = {}
  BY <1>1, <1>2, <1>3
<1>6. <<"queryUser", "check">> \in Looking /\ <<"check">> \in Looking
  BY DEF Looking
<1>7. /\ <<"setOffline", "addConn", "bindUser">> \in PreBind /\ <<"addConn", "bindUser">> \in PreBind
      /\ <<"bindUser">> \in PreBind /\ <<"removeConn">> \in PreBind
  BY DEF PreBind
<1>8. /\ <<"setOnline", "queryOffline", "queryFriends", "queryGroups">> \in PostBind
      /\ <<"queryOffline", "queryFriends", "queryGroups">> \in PostBind
      /\ <<"queryFriends", "queryGroups">> \in PostBind /\ <<"queryGroups">> \in PostBind
  BY DEF PostBind
<1> QED BY <1>4, <1>5, <1>6, <1>7, <1>8

LEMMA NotExiting ==
    /\ <<>> \notin Exiting /\ \A f : f # "setOffline" => <<f>> \notin Exiting
    /\ Looking \intersect Exiting = {} /\ PreBind \intersect Exiting = {} /\ PostBind \intersect Exiting = {}
    /\ Sending \intersect Exiting = {}
<1>1. \A td \in Exiting :
         /\ td # <<>>
         /\ \/ Head(td) = "setOffline" /\ Tail(td) = <<>>
            \/ Head(td) = "unbindUser" /\ Tail(td) = <<"setOffline">>
  <2> SUFFICES ASSUME NEW td \in Exiting
               PROVE  /\ td # <<>>
                      /\ \/ Head(td) = "setOffline" /\ Tail(td) = <<>>
                         \/ Head(td) = "unbindUser" /\ Tail(td) = <<"setOffline">>
    OBVIOUS
  <2>1. CASE td = <<"unbindUser", "setOffline">>
    <3>1. td # <<>> /\ Head(td) = "unbindUser" /\ Tail(td) = <<"setOffline">>
      BY ONLY <2>1, Tail2
    <3> QED BY <3>1
  <2>2. CASE td = <<"setOffline">>
    <3>1. td # <<>> /\ Head(td) = "setOffline" /\ Tail(td) = <<>>
      BY ONLY <2>2, Tail1
    <3> QED BY <3>1
  <2> QED BY <2>1, <2>2 DEF Exiting
<1>2. ASSUME NEW td \in PreBind
      PROVE  Head(td) # "unbindUser" /\ (Head(td) = "setOffline" => Tail(td) # <<>>)
  <2>1. CASE td = <<"setOffline", "addConn", "bindUser">>
    <3>1. Head(td) = "setOffline" /\ Tail(td) = <<"addConn", "bindUser">>
      BY ONLY <2>1, Tail3
    <3>2. <<"addConn", "bindUser">> # <<>>
      BY Tail2
    <3> QED BY <3>1, <3>2
  <2>2. CASE td = <<"addConn", "bindUser">>
    <3>1. Head(td) = "addConn"
      BY ONLY <2>2, Tail2
    <3> QED BY <3>1
  <2>3. CASE td = <<"bindUser">>
    <3>1. Head(td) = "bindUser"
      BY ONLY <2>3, Tail1
    <3> QED BY <3>1
  <2>4. CASE td = <<"removeConn">>
    <3>1. Head(td) = "removeConn"
      BY ONLY <2>4, Tail1
    <3> QED BY <3>1
  <2> QED BY <2>1, <2>2, <2>3, <2>4 DEF PreBind
<1>3. ASSUME NEW td \in Sending
      PROVE  Head(td) # "setOffline" /\ (Head(td) = "unbindUser" => Tail(td) = <<"resolve", "insertOffline">>)
  <2>1. CASE td = <<"unbindUser", "resolve", "insertOffline">>
    <3>1. Head(td) = "unbindUser" /\ Tail(td) = <<"resolve", "insertOffline">>
      BY ONLY <2>1, Tail3
    <3> QED BY <3>1
  <2>2. CASE td = <<"resolve", "insertOffline">>
    <3>1. Head(td) = "resolve"
      BY ONLY <2>2, Tail2
    <3> QED BY <3>1
  <2>3. CASE td = <<"insertOffline">>
    <3>1. Head(td) = "insertOffline"
      BY ONLY <2>3, Tail1
    <3> QED BY <3>1
  <2> QED BY <2>1, <2>2, <2>3 DEF Sending
<1>4. <<"resolve", "insertOffline">> # <<"setOffline">>
  <2>1. Head(<<"resolve", "insertOffline">>) = "resolve" /\ Head(<<"setOffline">>) = "setOffline"
    BY Tail1, Tail2
  <2> QED BY <2>1
<1>5. \A td \in Looking \union PostBind : Head(td) # "unbindUser" /\ Head(td) # "setOffline"
  BY Tail1, Tail2, Tail3, Tail4 DEF Looking, PostBind
<1>6. \A f : f # "setOffline" => <<f>> \notin Exiting
  <2>1. \A f : Head(<<f>>) = f /\ Tail(<<f>>) = <<>> /\ <<"setOffline">> # <<>>
    BY Tail1
  <2> QED BY <1>1, <2>1
<1> QED BY <1>1, <1>2, <1>3, <1>4, <1>5, <1>6

(* The functions a handler begins with *)
LEMMA PlanIs ==
    ASSUME NEW r, r.op \in {"reg", "login", "addFriend", "createGroup", "addGroup", "groupChat"}
    PROVE  /\ PlanFits(r.op, Plan(r))
           /\ r.op = "login" => Plan(r) \in Looking
<1>1. CASE r.op = "reg"
  <2>1. Plan(r) = <<"insertUser">>
    BY <1>1 DEF Plan
  <2> QED BY <1>1, <2>1 DEF PlanFits
<1>2. CASE r.op = "login"
  <2>1. Plan(r) = <<"queryUser", "check">>
    BY <1>2 DEF Plan
  <2> QED BY <1>2, <2>1, PlanStages DEF PlanFits
<1>3. CASE r.op = "addFriend"
  <2>1. Plan(r) = <<"insertFriend">>
    BY <1>3 DEF Plan
  <2> QED BY <1>3, <2>1 DEF PlanFits
<1>4. CASE r.op = "createGroup"
  <2>1. Plan(r) = <<"createGroup">>
    BY <1>4 DEF Plan
  <2> QED BY <1>4, <2>1 DEF PlanFits
<1>5. CASE r.op = "addGroup"
  <2>1. Plan(r) = <<"addGroup">>
    BY <1>5 DEF Plan
  <2> QED BY <1>5, <2>1 DEF PlanFits
<1>6. CASE r.op = "groupChat"
  <2>1. Plan(r) = <<"queryGroupUsers">>
    BY <1>6 DEF Plan
  <2> QED BY <1>6, <2>1 DEF PlanFits
<1> QED BY <1>1, <1>2, <1>3, <1>4, <1>5, <1>6

-----------------------------------------------------------------------------
(* What a step leaves alone *)
Grow ==
    /\ DOMAIN user \subseteq DOMAIN user' /\ \A u \in DOMAIN user : user'[u].by = user[u].by
    /\ friend \subseteq friend' /\ DOMAIN group \subseteq DOMAIN group'

Undisturbed(s) ==
    /\ held'[s] = held[s] /\ (pc[s] = "borrowed" => pc'[s] = "borrowed")
    /\ job[s].got = "yes" => insertId'[held[s]] = insertId[held[s]]

LEMMA RequestMore ==
    ASSUME NEW r, NEW ids, NEW more, ids \subseteq more, RequestFits(r, ids) PROVE RequestFits(r, more)
  BY DEF RequestFits

LEMMA AnswerMore ==
    ASSUME NEW c, NEW a, NEW us, NEW vs, NEW fr, NEW gr, AnswerFits(c, a, us, fr),
           DOMAIN us \subseteq DOMAIN vs, \A u \in DOMAIN us : vs[u].by = us[u].by, fr \subseteq gr
    PROVE  AnswerFits(c, a, vs, gr)
  BY DEF AnswerFits

LEMMA OtherFits ==
    ASSUME NEW s \in Thread, JobFits(s), Grow, Undisturbed(s), job'[s] = job[s] PROVE JobFits(s)'
<1>1. RequestFits(job'[s].req, DOMAIN user') /\ AnswerFits(s, job'[s].ans, user', friend')
  BY RequestMore, AnswerMore DEF JobFits, Grow
<1>2. Op(s)' = Op(s) /\ Todo(s)' = Todo(s) /\ Asker(s)' = Asker(s)
  BY DEF Op, Todo, Asker
<1>3. job[s].got = "yes" => held'[s] = held[s] /\ pc'[s] = "borrowed" /\ insertId'[held'[s]] = insertId[held[s]]
  BY DEF Undisturbed, JobFits
<1> QED BY <1>1, <1>2, <1>3 DEF JobFits, Grow

LEMMA JobStep ==
    ASSUME DataInv, NEW t \in Thread, NEW j \in JobState, job' = [job EXCEPT ![t] = j], JobFits(t)', Grow,
           \A s \in Thread \ {t} : Undisturbed(s)
    PROVE  job' \in [Thread -> JobState] /\ \A s \in Thread : JobFits(s)'
<1>1. job' \in [Thread -> JobState] /\ \A s \in Thread \ {t} : job'[s] = job[s]
  BY DEF DataInv
<1>2. \A s \in Thread \ {t} : JobFits(s)'
  BY <1>1, OtherFits DEF DataInv
<1> QED BY <1>1, <1>2

LEMMA AnswersKept ==
    ASSUME NEW c \in Client, AnswersOK(c), Grow, answers'[c] = answers[c] PROVE AnswersOK(c)'
  BY AnswerMore DEF AnswersOK, Grow

LEMMA AnswersAppend ==
    ASSUME NEW c \in Client, AnswersOK(c), Grow, NEW a \in Answer, answers'[c] = Append(answers[c], a),
           AnswerFits(c, a, user', friend'), a.kind # "none"
    PROVE  AnswersOK(c)'
<1>1. /\ answers'[c] \in Seq(Answer) /\ DOMAIN answers'[c] = 1..(Len(answers[c]) + 1)
      /\ \A i \in DOMAIN answers[c] : answers'[c][i] = answers[c][i]
      /\ answers'[c][Len(answers[c]) + 1] = a /\ DOMAIN answers[c] = 1..Len(answers[c])
      /\ Len(answers[c]) \in Nat
  BY DEF AnswersOK
<1>2. ASSUME NEW i \in DOMAIN answers'[c]
      PROVE  AnswerFits(c, answers'[c][i], user', friend') /\ answers'[c][i].kind # "none"
  <2>1. CASE i \in DOMAIN answers[c]
    BY <2>1, <1>1, AnswerMore DEF AnswersOK, Grow
  <2>2. CASE i = Len(answers[c]) + 1
    BY <2>2, <1>1
  <2> QED BY <2>1, <2>2, <1>1, <1>2
<1> QED BY <1>1, <1>2 DEF AnswersOK

LEMMA AnswersTail ==
    ASSUME NEW c \in Client, AnswersOK(c), Grow, answers[c] # <<>>, answers'[c] = Tail(answers[c])
    PROVE  AnswersOK(c)'
<1>1. /\ answers'[c] \in Seq(Answer)
      /\ \A i \in DOMAIN answers'[c] : i + 1 \in DOMAIN answers[c] /\ answers'[c][i] = answers[c][i + 1]
  BY DEF AnswersOK
<1> QED BY <1>1, AnswerMore DEF AnswersOK, Grow

LEMMA RequestsKept ==
    ASSUME NEW c \in Client, RequestsOK(c), Grow, requests'[c] = requests[c] PROVE RequestsOK(c)'
  BY RequestMore DEF RequestsOK, Grow

LEMMA RequestsAppend ==
    ASSUME NEW c \in Client, RequestsOK(c), Grow, NEW r \in Request, requests'[c] = Append(requests[c], r),
           RequestFits(r, DOMAIN user')
    PROVE  RequestsOK(c)'
<1>1. /\ requests'[c] \in Seq(Request) /\ DOMAIN requests'[c] = 1..(Len(requests[c]) + 1)
      /\ \A i \in DOMAIN requests[c] : requests'[c][i] = requests[c][i]
      /\ requests'[c][Len(requests[c]) + 1] = r /\ DOMAIN requests[c] = 1..Len(requests[c])
      /\ Len(requests[c]) \in Nat
  BY DEF RequestsOK
<1>2. ASSUME NEW i \in DOMAIN requests'[c]
      PROVE  RequestFits(requests'[c][i], DOMAIN user')
  <2>1. CASE i \in DOMAIN requests[c]
    BY <2>1, <1>1, RequestMore DEF RequestsOK, Grow
  <2>2. CASE i = Len(requests[c]) + 1
    BY <2>2, <1>1
  <2> QED BY <2>1, <2>2, <1>1, <1>2
<1> QED BY <1>1, <1>2 DEF RequestsOK

LEMMA RequestsTail ==
    ASSUME NEW c \in Client, RequestsOK(c), Grow, requests[c] # <<>>, requests'[c] = Tail(requests[c])
    PROVE  RequestsOK(c)'
<1>1. /\ requests'[c] \in Seq(Request)
      /\ \A i \in DOMAIN requests'[c] : i + 1 \in DOMAIN requests[c] /\ requests'[c][i] = requests[c][i + 1]
  BY DEF RequestsOK
<1> QED BY <1>1, RequestMore DEF RequestsOK, Grow

LEMMA ListsKept1 ==
    ASSUME NEW c \in Client, ListsOK(c), Grow, friendList'[c] = friendList[c], groupList'[c] = groupList[c]
    PROVE  ListsOK(c)'
  BY DEF ListsOK, Grow

LEMMA QuietStep ==
    ASSUME DataInv, NEW t \in Thread, NEW j \in JobState, job' = [job EXCEPT ![t] = j], JobFits(t)', Grow,
           \A s \in Thread \ {t} : Undisturbed(s), TablesOK', UNCHANGED <<wire, clientVars>>
    PROVE  DataInv'
<1>1. job' \in [Thread -> JobState] /\ \A s \in Thread : JobFits(s)'
  BY JobStep
<1>2. UNCHANGED <<requests, answers, friendList, groupList, currentUser, main, isLoginSuccess>>
  BY DEF wire, clientVars
<1>3. \A c \in Client : AnswersOK(c)' /\ RequestsOK(c)' /\ ListsOK(c)'
  BY <1>2, AnswersKept, RequestsKept, ListsKept1 DEF DataInv
<1> QED BY <1>1, <1>2, <1>3 DEF DataInv

LEMMA PutBackKeeps ==
    ASSUME PoolInv, NEW t \in Thread, PutBack(t), NEW s \in Thread \ {t}
    PROVE  held'[s] = held[s] /\ (pc[s] = "borrowed" => pc'[s] = "borrowed")
  BY DEF PutBack, Notify, Goto, Asleep, PoolInv

-----------------------------------------------------------------------------
(* The functions of the model classes *)
LEMMA RunnerIs ==
    ASSUME DataInv, NEW t \in Thread, job[t] # NoJob
    PROVE  /\ t \in Client /\ job[t] \in JobState /\ PlanFits(Op(t), Todo(t)) /\ Asker(t) \in 0..MaxUser
           /\ RequestFits(job[t].req, DOMAIN user) /\ AnswerFits(t, job[t].ans, user, friend)
           /\ Op(t) = "login" => LoginFits(job[t])
           /\ Op(t) = "reg" => job[t].ans.kind = (IF Todo(t) = <<>> THEN "reg" ELSE "none")
           /\ Op(t) \notin Token => job[t].ans.kind = "none"
           /\ Todo(t) \in Exiting => job[t].to # {} /\ Asker(t) \in job[t].to \union {0}
           /\ Todo(t) = <<"addCreator">> => job[t].req.arg \in DOMAIN group
<1>1. JobFits(t) /\ job[t] \in JobState
  BY DEF DataInv
<1>2. Asker(t) \in 0..MaxUser
  BY <1>1 DEF JobState, AnyRequest, Asker
<1> QED BY <1>1, <1>2 DEF JobFits

LEMMA NotNoJob == ASSUME NEW t \in Thread, Todo(t) # <<>> PROVE job[t] # NoJob
  BY DEF NoJob, Todo

LEMMA SameTables == ASSUME TablesOK, UNCHANGED <<tables, userConnMap, session, loggedIn>> PROVE TablesOK' /\ Grow
  BY DEF TablesOK, tables, Grow

LEMMA PutBackUndisturbs ==
    ASSUME PoolInv, NEW t \in Thread, PutBack(t), insertId' = insertId
    PROVE  \A s \in Thread \ {t} : Undisturbed(s)
  BY PutBackKeeps DEF Undisturbed

(* A login goes on *)
LEMMA LoginStep ==
    ASSUME DataInv, NEW t \in Thread, Op(t) = "login", Todo(t) # <<>>, NEW j \in JobState,
           job' = [job EXCEPT ![t] = j], j.req = job[t].req, j.got = "no", LoginFits(j), PlanFits("login", j.todo),
           Grow, AnswerFits(t, j.ans, user', friend')
    PROVE  JobFits(t)'
<1>1. job'[t] = j /\ Op(t)' = "login" /\ Todo(t)' = j.todo
  BY DEF DataInv, Op, Todo
<1>2. t \in Client /\ RequestFits(job[t].req, DOMAIN user)
  BY RunnerIs, NotNoJob
<1>3. RequestFits(j.req, DOMAIN user')
  BY <1>2, RequestMore DEF Grow
<1>4. j.todo \notin Exiting
  BY NotExiting DEF PlanFits
<1>5. j.todo # <<"addCreator">>
  <2>1. <<"addCreator">> # <<>> /\ Head(<<"addCreator">>) = "addCreator"
    BY Tail1
  <2> QED BY <2>1, NextPlan
<1> QED BY <1>1, <1>2, <1>3, <1>4, <1>5 DEF JobFits, Token

(* A handler of another kind goes on *)
LEMMA PlainStep ==
    ASSUME DataInv, NEW t \in Thread, Todo(t) # <<>>, Op(t) \notin Token, NEW j \in JobState,
           job' = [job EXCEPT ![t] = j], j.req.op = job[t].req.op, j.got = "no", j.ans = job[t].ans,
           PlanFits(j.req.op, j.todo), RequestFits(j.req, DOMAIN user'), Grow,
           j.todo = <<"addCreator">> => j.req.arg \in DOMAIN group',
           j.todo \notin Exiting \/ (Todo(t) \in Exiting /\ j.req = job[t].req /\ j.to = job[t].to)
    PROVE  JobFits(t)'
<1>1. job'[t] = j /\ Op(t)' = Op(t) /\ Todo(t)' = j.todo
  BY DEF DataInv, Op, Todo
<1>2. t \in Client /\ AnswerFits(t, job[t].ans, user, friend) /\ job[t].ans.kind = "none"
  BY RunnerIs, NotNoJob DEF DataInv, JobFits
<1>3. AnswerFits(t, j.ans, user', friend')
  BY <1>2, AnswerMore DEF Grow
<1>4. Todo(t)' \in Exiting => job'[t].to # {} /\ Asker(t)' \in job'[t].to \union {0}
  BY <1>1, RunnerIs, NotNoJob DEF Asker
<1> QED BY <1>1, <1>2, <1>3, <1>4 DEF JobFits, Token, Op

LEMMA RunningIs ==
    ASSUME DataInv, NEW t \in Thread, NEW f, Running(t, f)
    PROVE  /\ Todo(t) # <<>> /\ Head(Todo(t)) = f /\ job[t].got = "no" /\ pc[t] = "borrowed"
           /\ t \in Client /\ job[t] \in JobState /\ PlanFits(Op(t), Todo(t)) /\ Asker(t) \in 0..MaxUser
           /\ RequestFits(job[t].req, DOMAIN user) /\ AnswerFits(t, job[t].ans, user, friend)
           /\ Op(t) = "login" => LoginFits(job[t])
           /\ Op(t) = "reg" => job[t].ans.kind = "none"
           /\ Op(t) \notin Token => job[t].ans.kind = "none"
           /\ Todo(t) \in Exiting => job[t].to # {} /\ Asker(t) \in job[t].to \union {0}
           /\ Todo(t) = <<"addCreator">> => job[t].req.arg \in DOMAIN group
           /\ Done(t) = [job[t] EXCEPT !.todo = Tail(Todo(t)), !.got = "no"]
  BY RunnerIs, NotNoJob DEF Running, Next1, Done, Todo

LEMMA UserInsertData ==
    ASSUME PoolInv, DataInv, NEW t \in Thread, UserInsert(t), UNCHANGED clientVars PROVE DataInv'
<1> DEFINE j == [job[t] EXCEPT !.got = "yes"]
<1>1. /\ Todo(t) # <<>> /\ Head(Todo(t)) = "insertUser" /\ pc[t] = "borrowed" /\ t \in Client /\ job[t] \in JobState
      /\ PlanFits(Op(t), Todo(t))
      /\ RequestFits(job[t].req, DOMAIN user) /\ AnswerFits(t, job[t].ans, user, friend)
      /\ Op(t) = "reg" => job[t].ans.kind = "none"
  BY RunningIs DEF UserInsert
<1>2. Op(t) = "reg" /\ Todo(t) = <<"insertUser">>
  BY <1>1, NextPlan
<1>3. /\ user' = Append(user, [by |-> t, state |-> "offline"]) /\ Len(user) < MaxUser
      /\ insertId' = [insertId EXCEPT ![held[t]] = Len(user) + 1]
      /\ job' = [job EXCEPT ![t] = j]
      /\ UNCHANGED <<poolVars, friend, group, member, offline, userConnMap, session, loggedIn, wire>>
  BY DEF UserInsert
<1>4. /\ user \in Seq(User) /\ Len(user) \in Nat /\ DOMAIN user = 1..Len(user)
      /\ [by |-> t, state |-> "offline"] \in User
  BY <1>1 DEF DataInv, TablesOK, User
<1>5. /\ user' \in Seq(User) /\ Len(user') = Len(user) + 1 /\ DOMAIN user' = 1..(Len(user) + 1)
      /\ \A u \in DOMAIN user : user'[u] = user[u]
      /\ user'[Len(user) + 1] = [by |-> t, state |-> "offline"]
  BY <1>3, <1>4
<1>6. Grow
  BY <1>3, <1>4, <1>5 DEF Grow
<1>7. TablesOK'
  <2>1. Len(user') \in Stored.users..MaxUser
    BY <1>3, <1>4, <1>5 DEF DataInv, TablesOK
  <2>2. insertId' \in [Handle -> Nat]
    <3>1. insertId \in [Handle -> Nat] /\ Len(user) + 1 \in Nat
      BY <1>4 DEF DataInv, TablesOK
    <3> QED BY <1>3, <3>1
  <2> QED BY <1>3, <1>5, <2>1, <2>2 DEF DataInv, TablesOK
<1>8. j \in JobState /\ j.req = job[t].req /\ j.ans = job[t].ans /\ j.todo = job[t].todo /\ j.to = job[t].to
  BY <1>1 DEF JobState
<1>9. held[t] \in Handle /\ \A s \in Thread \ {t} : held[s] # held[t]
  BY <1>1 DEF PoolInv
<1>10. insertId'[held[t]] = Len(user) + 1
  BY <1>3, <1>9 DEF DataInv, TablesOK
<1>11. \A s \in Thread \ {t} : Undisturbed(s)
  <2> SUFFICES ASSUME NEW s \in Thread \ {t} PROVE Undisturbed(s)
    OBVIOUS
  <2>1. held'[s] = held[s] /\ pc'[s] = pc[s]
    BY <1>3 DEF poolVars
  <2>2. insertId'[held[s]] = insertId[held[s]] \/ held[s] \notin Handle
    BY <1>3, <1>9 DEF DataInv, TablesOK
  <2>3. job[s].got = "yes" => held[s] \in Handle
    BY DEF DataInv, JobFits, PoolInv
  <2> QED BY <2>1, <2>2, <2>3 DEF Undisturbed
<1>12. JobFits(t)'
  <2>1. job'[t] = j /\ pc'[t] = "borrowed" /\ held'[t] = held[t]
    BY <1>1, <1>3 DEF DataInv, poolVars
  <2>2. Op(t)' = "reg" /\ Todo(t)' = <<"insertUser">>
    BY <1>2, <1>8, <2>1 DEF Op, Todo
  <2>3. RequestFits(j.req, DOMAIN user') /\ AnswerFits(t, j.ans, user', friend')
    BY <1>1, <1>6, <1>8, RequestMore, AnswerMore DEF Grow
  <2>4. j.ans.kind = "none" /\ <<"insertUser">> # <<>>
    BY <1>1, <1>2, <1>8, Tail1
  <2>5. /\ <<"insertUser">> \notin Exiting /\ <<"insertUser">> # <<"addCreator">>
        /\ <<"insertUser">> # <<"createGroup">>
    BY NotExiting
  <2>6. insertId'[held'[t]] \in DOMAIN user' /\ user'[insertId'[held'[t]]].by = t
    BY <2>1, <1>10, <1>5, <1>4
  <2>7. PlanFits("reg", <<"insertUser">>)
    BY DEF PlanFits
  <2> QED BY <2>1, <2>2, <2>3, <2>4, <2>5, <2>6, <2>7, <1>1 DEF JobFits, Token
<1> QED BY <1>3, <1>6, <1>7, <1>8, <1>11, <1>12, QuietStep

LEMMA GroupInsertData ==
    ASSUME PoolInv, DataInv, NEW t \in Thread, GroupInsert(t), UNCHANGED clientVars PROVE DataInv'
<1> DEFINE j == [job[t] EXCEPT !.got = "yes"]
<1>1. /\ Todo(t) # <<>> /\ Head(Todo(t)) = "createGroup" /\ pc[t] = "borrowed" /\ t \in Client
      /\ job[t] \in JobState /\ PlanFits(Op(t), Todo(t)) /\ Asker(t) \in 0..MaxUser
      /\ RequestFits(job[t].req, DOMAIN user) /\ AnswerFits(t, job[t].ans, user, friend)
      /\ Op(t) \notin Token => job[t].ans.kind = "none"
  BY RunningIs DEF GroupInsert
<1>2. Op(t) = "createGroup" /\ Todo(t) = <<"createGroup">>
  BY <1>1, NextPlan
<1>3. /\ group' = Append(group, Asker(t)) /\ Len(group) < MaxGroup
      /\ insertId' = [insertId EXCEPT ![held[t]] = Len(group) + 1]
      /\ job' = [job EXCEPT ![t] = j]
      /\ UNCHANGED <<poolVars, user, friend, member, offline, userConnMap, session, loggedIn, wire>>
  BY DEF GroupInsert
<1>4. /\ group \in Seq(UserId) /\ Len(group) \in Nat /\ DOMAIN group = 1..Len(group)
      /\ Asker(t) \in UserId
  BY <1>1, <1>2 DEF DataInv, TablesOK, RequestFits, Commands, Op, Asker
<1>5. /\ group' \in Seq(UserId) /\ Len(group') = Len(group) + 1 /\ DOMAIN group' = 1..(Len(group) + 1)
  BY <1>3, <1>4
<1>6. Grow
  BY <1>3, <1>4, <1>5 DEF Grow
<1>7. TablesOK'
  <2>1. Len(group') <= MaxGroup
    BY <1>3, <1>4, <1>5
  <2>2. insertId' \in [Handle -> Nat]
    <3>1. insertId \in [Handle -> Nat] /\ Len(group) + 1 \in Nat
      BY <1>4 DEF DataInv, TablesOK
    <3> QED BY <1>3, <3>1
  <2> QED BY <1>3, <1>5, <2>1, <2>2 DEF DataInv, TablesOK
<1>8. j \in JobState /\ j.req = job[t].req /\ j.ans = job[t].ans /\ j.todo = job[t].todo /\ j.to = job[t].to
  BY <1>1 DEF JobState
<1>9. held[t] \in Handle /\ \A s \in Thread \ {t} : held[s] # held[t]
  BY <1>1 DEF PoolInv
<1>10. insertId'[held[t]] = Len(group) + 1
  BY <1>3, <1>9 DEF DataInv, TablesOK
<1>11. \A s \in Thread \ {t} : Undisturbed(s)
  <2> SUFFICES ASSUME NEW s \in Thread \ {t} PROVE Undisturbed(s)
    OBVIOUS
  <2>1. held'[s] = held[s] /\ pc'[s] = pc[s]
    BY <1>3 DEF poolVars
  <2>2. insertId'[held[s]] = insertId[held[s]] \/ held[s] \notin Handle
    BY <1>3, <1>9 DEF DataInv, TablesOK
  <2>3. job[s].got = "yes" => held[s] \in Handle
    BY DEF DataInv, JobFits, PoolInv
  <2> QED BY <2>1, <2>2, <2>3 DEF Undisturbed
<1>12. JobFits(t)'
  <2>1. job'[t] = j /\ pc'[t] = "borrowed" /\ held'[t] = held[t]
    BY <1>1, <1>3 DEF DataInv, poolVars
  <2>2. Op(t)' = "createGroup" /\ Todo(t)' = <<"createGroup">>
    BY <1>2, <1>8, <2>1 DEF Op, Todo
  <2>3. RequestFits(j.req, DOMAIN user') /\ AnswerFits(t, j.ans, user', friend')
    BY <1>1, <1>6, <1>8, RequestMore, AnswerMore DEF Grow
  <2>4. j.ans.kind = "none"
    BY <1>1, <1>2, <1>8 DEF Token
  <2>5. /\ <<"createGroup">> \notin Exiting /\ <<"createGroup">> # <<"addCreator">>
        /\ <<"createGroup">> # <<"insertUser">>
    BY NotExiting
  <2>6. insertId'[held'[t]] \in DOMAIN group'
    BY <2>1, <1>10, <1>5, <1>4
  <2>7. PlanFits("createGroup", <<"createGroup">>)
    BY DEF PlanFits
  <2> QED BY <2>1, <2>2, <2>3, <2>4, <2>5, <2>6, <2>7, <1>1 DEF JobFits, Token
<1> QED BY <1>3, <1>6, <1>7, <1>8, <1>11, <1>12, QuietStep

LEMMA ReturnsData ==
    ASSUME PoolInv, DataInv, NEW t \in Thread, NEW j \in JobState, Returns(t, j), JobFits(t)', Grow, TablesOK',
           insertId' = insertId, UNCHANGED clientVars
    PROVE  DataInv'
<1>1. job' = [job EXCEPT ![t] = j] /\ PutBack(t) /\ UNCHANGED <<userConnMap, session, loggedIn, wire>>
  BY DEF Returns
<1> QED BY <1>1, PutBackUndisturbs, QuietStep

LEMMA NoAnswerFits ==
    ASSUME NEW c, NEW us, NEW fr PROVE NoAnswer \in Answer /\ AnswerFits(c, NoAnswer, us, fr)
  BY DEF NoAnswer, Answer, AnswerFits, OneUsers, Token

LEMMA InsertReturnsData ==
    ASSUME PoolInv, DataInv, NEW t \in Thread, InsertReturns(t), UNCHANGED clientVars PROVE DataInv'
<1>1. pc[t] = "borrowed" /\ job[t].got = "yes" /\ Returns(t, Then(t)) /\ UNCHANGED <<tables, userConnMap, session, loggedIn>>
  BY DEF InsertReturns, Returns
<1>2. job[t] # NoJob
  BY <1>1 DEF NoJob
<1>3. /\ t \in Client /\ job[t] \in JobState /\ PlanFits(Op(t), Todo(t))
      /\ RequestFits(job[t].req, DOMAIN user) /\ AnswerFits(t, job[t].ans, user, friend)
      /\ Op(t) \notin Token => job[t].ans.kind = "none"
  BY <1>2, RunnerIs
<1>4. /\ Todo(t) \in {<<"insertUser">>, <<"createGroup">>}
      /\ Todo(t) = <<"insertUser">> =>
            insertId[held[t]] \in DOMAIN user /\ user[insertId[held[t]]].by = t
      /\ Todo(t) = <<"createGroup">> => insertId[held[t]] \in DOMAIN group
  BY <1>1 DEF DataInv, JobFits
<1>5. TablesOK' /\ Grow /\ insertId' = insertId /\ user' = user /\ group' = group /\ friend' = friend
  BY <1>1, SameTables DEF DataInv, tables
<1>6. job' = [job EXCEPT ![t] = Then(t)] /\ PutBack(t)
  BY <1>1 DEF Returns
<1>7. \A i \in DOMAIN user : i \in UserId
  BY DEF DataInv, TablesOK, UserId
<1>8. \A i \in DOMAIN group : i \in GroupId
  BY DEF DataInv, TablesOK, GroupId
<1>9. CASE Todo(t) = <<"insertUser">>
  <2> DEFINE a == [NoAnswer EXCEPT !.kind = "reg", !.id = insertId[held[t]]]
             j == [Done(t) EXCEPT !.ans = a]
  <2>1. Head(Todo(t)) = "insertUser" /\ Todo(t) # <<>>
    BY <1>9, Tail1
  <2>2. Op(t) = "reg" /\ Tail(Todo(t)) = <<>>
    BY <1>3, <2>1, NextPlan
  <2>3. Then(t) = j
    BY <2>1 DEF Then, Next1
  <2>4. a \in Answer /\ a.kind = "reg" /\ a.id = insertId[held[t]] /\ a.friends = {}
    <3>1. NoAnswer \in Answer /\ NoAnswer.friends = {}
      BY NoAnswerFits DEF NoAnswer
    <3>2. insertId[held[t]] \in 0..MaxUser
      BY <1>4, <1>7, <1>9 DEF UserId
    <3> QED BY <3>1, <3>2 DEF Answer
  <2>5. AnswerFits(t, a, user, friend)
    BY <2>4, <1>4, <1>9 DEF AnswerFits, OneUsers
  <2>6. /\ j \in JobState /\ j.req = job[t].req /\ j.ans = a /\ j.todo = <<>> /\ j.to = job[t].to
        /\ j.got = "no"
    BY <1>3, <2>2, <2>4 DEF JobState, Done, Todo, Plans
  <2>7. JobFits(t)'
    <3>1. job'[t] = j /\ Op(t)' = "reg" /\ Todo(t)' = <<>>
      BY <1>6, <2>2, <2>3, <2>6 DEF DataInv, Op, Todo
    <3>2. PlanFits("reg", <<>>)
      BY DEF PlanFits
    <3>3. <<>> \notin Exiting /\ <<>> # <<"addCreator">>
      BY NotExiting, Tail1
    <3> QED BY <3>1, <3>2, <3>3, <1>3, <1>5, <2>4, <2>5, <2>6 DEF JobFits, Token
  <2> QED BY <1>1, <1>5, <2>3, <2>6, <2>7, ReturnsData
<1>10. CASE Todo(t) = <<"createGroup">>
  <2> DEFINE j == [Done(t) EXCEPT !.req.arg = insertId[held[t]], !.todo = <<"addCreator">>]
  <2>1. Head(Todo(t)) = "createGroup" /\ Todo(t) # <<>>
    BY <1>10, Tail1
  <2>2. Op(t) = "createGroup"
    BY <1>3, <2>1, NextPlan
  <2>3. Then(t) = j
    BY <2>1 DEF Then, Next1
  <2>4. insertId[held[t]] \in DOMAIN group /\ insertId[held[t]] \in GroupId
    BY <1>4, <1>8, <1>10
  <2>5. /\ j.req \in AnyRequest /\ j.req.op = "createGroup" /\ j.req.id = job[t].req.id
        /\ j.req.arg = insertId[held[t]]
    BY <1>3, <2>2, <2>4 DEF JobState, AnyRequest, Done, Op
  <2>6. /\ j \in JobState /\ j.ans = job[t].ans /\ j.todo = <<"addCreator">> /\ j.got = "no"
    BY <1>3, <2>5 DEF JobState, Done, Plans
  <2>7. RequestFits(j.req, DOMAIN user')
    BY <1>3, <2>2, <2>5 DEF RequestFits, Op, Commands
  <2>8. PlanFits("createGroup", <<"addCreator">>) /\ <<"addCreator">> \notin Exiting
    BY NotExiting DEF PlanFits
  <2>9. JobFits(t)'
    BY <1>5, <1>6, <2>1, <2>2, <2>3, <2>4, <2>5, <2>6, <2>7, <2>8, PlainStep DEF Op, Token
  <2> QED BY <1>1, <1>5, <2>3, <2>6, <2>9, ReturnsData
<1> QED BY <1>4, <1>9, <1>10

LEMMA LoginReturns ==
    ASSUME PoolInv, DataInv, NEW t \in Thread, Op(t) = "login", Todo(t) # <<>>, NEW j \in JobState, Returns(t, j),
           j.req = job[t].req, j.got = "no", LoginFits(j), PlanFits("login", j.todo), Grow, TablesOK',
           AnswerFits(t, j.ans, user', friend'), insertId' = insertId, UNCHANGED clientVars
    PROVE  DataInv'
<1>1. JobFits(t)'
  BY LoginStep DEF Returns
<1> QED BY <1>1, ReturnsData

LEMMA PlainReturns ==
    ASSUME PoolInv, DataInv, NEW t \in Thread, Todo(t) # <<>>, Op(t) \notin Token, NEW j \in JobState, Returns(t, j),
           j.req = job[t].req, j.got = "no", j.ans = job[t].ans, PlanFits(Op(t), j.todo), Grow, TablesOK',
           j.todo # <<"addCreator">>, j.todo \notin Exiting, insertId' = insertId, UNCHANGED clientVars
    PROVE  DataInv'
<1>1. RequestFits(j.req, DOMAIN user')
  BY RunnerIs, NotNoJob, RequestMore DEF Grow
<1>2. JobFits(t)'
  BY <1>1, PlainStep DEF Returns, Op
<1> QED BY <1>2, ReturnsData

LEMMA DoneState ==
    ASSUME DataInv, NEW t \in Thread, job[t] \in JobState, Tail(Todo(t)) \in Plans
    PROVE  /\ Done(t) \in JobState /\ Done(t).req = job[t].req /\ Done(t).ans = job[t].ans /\ Done(t).to = job[t].to
           /\ Done(t).todo = Tail(Todo(t)) /\ Done(t).got = "no" /\ Done(t).state = job[t].state
  BY DEF Done, Todo, JobState

LEMMA PlansBasic ==
    /\ <<>> \in Plans /\ \A op : PlanFits(op, <<>>)
    /\ \A op, td : PlanFits(op, td) => td \in Plans
  BY DEF Plans, PlanFits

LEMMA InsertFailsData ==
    ASSUME PoolInv, DataInv, NEW t \in Thread, InsertFails(t), UNCHANGED clientVars PROVE DataInv'
<1>1. TablesOK' /\ Grow /\ insertId' = insertId /\ user' = user /\ friend' = friend
  BY SameTables DEF InsertFails, Returns, DataInv, tables
<1>2. CASE Running(t, "insertUser") /\ Returns(t, [Done(t) EXCEPT !.ans = [NoAnswer EXCEPT !.kind = "reg", !.errno = 1]])
  <2> DEFINE a == [NoAnswer EXCEPT !.kind = "reg", !.errno = 1]
             j == [Done(t) EXCEPT !.ans = a]
  <2>1. /\ Todo(t) # <<>> /\ Head(Todo(t)) = "insertUser" /\ t \in Client /\ job[t] \in JobState
        /\ PlanFits(Op(t), Todo(t)) /\ RequestFits(job[t].req, DOMAIN user)
    BY <1>2, RunningIs
  <2>2. Op(t) = "reg" /\ Tail(Todo(t)) = <<>>
    BY <2>1, NextPlan
  <2>3. a \in Answer /\ a.kind = "reg" /\ a.errno = 1 /\ a.friends = {}
    <3>1. NoAnswer \in Answer /\ NoAnswer.friends = {}
      BY NoAnswerFits DEF NoAnswer
    <3>2. 1 \in 0..3 /\ "reg" \in {"none", "reg", "login", "live"}
      OBVIOUS
    <3> QED BY <3>1, <3>2 DEF Answer
  <2>4. AnswerFits(t, a, user', friend')
    BY <2>3 DEF AnswerFits, OneUsers
  <2>5. /\ j \in JobState /\ j.req = job[t].req /\ j.ans = a /\ j.todo = <<>> /\ j.got = "no"
    BY <2>1, <2>2, <2>3, PlansBasic, DoneState DEF JobState
  <2>6. JobFits(t)'
    <3>1. job'[t] = j /\ Op(t)' = "reg" /\ Todo(t)' = <<>>
      BY <1>2, <2>2, <2>5 DEF DataInv, Op, Todo, Returns
    <3>2. <<>> \notin Exiting /\ <<>> # <<"addCreator">>
      BY NotExiting, Tail1
    <3> QED BY <3>1, <3>2, <1>1, <2>1, <2>3, <2>4, <2>5, PlansBasic DEF JobFits, Token
  <2> QED BY <1>1, <1>2, <2>5, <2>6, ReturnsData
<1>3. CASE Running(t, "createGroup") /\ Returns(t, Done(t))
  <2>1. /\ Todo(t) # <<>> /\ Head(Todo(t)) = "createGroup" /\ job[t] \in JobState /\ PlanFits(Op(t), Todo(t))
    BY <1>3, RunningIs
  <2>2. Op(t) = "createGroup" /\ Tail(Todo(t)) = <<>>
    BY <2>1, NextPlan
  <2>3. <<>> \notin Exiting /\ <<>> # <<"addCreator">>
    BY NotExiting, Tail1
  <2> QED BY <1>1, <1>3, <2>1, <2>2, <2>3, DoneState, PlansBasic, PlainReturns DEF Token
<1> QED BY <1>2, <1>3 DEF InsertFails

LEMMA UserQueryData ==
    ASSUME PoolInv, DataInv, NEW t \in Thread, UserQuery(t), UNCHANGED clientVars PROVE DataInv'
<1> DEFINE j == [Done(t) EXCEPT !.state = IF Asker(t) = 0 THEN @ ELSE user[Asker(t)].state]
<1>1. Running(t, "queryUser") /\ Returns(t, j)
  BY DEF UserQuery
<1>2. TablesOK' /\ Grow /\ insertId' = insertId /\ user' = user /\ friend' = friend
  BY <1>1, SameTables DEF UserQuery, Returns, DataInv, tables
<1>3. /\ Todo(t) # <<>> /\ Head(Todo(t)) = "queryUser" /\ job[t] \in JobState /\ PlanFits(Op(t), Todo(t))
      /\ RequestFits(job[t].req, DOMAIN user) /\ AnswerFits(t, job[t].ans, user, friend)
      /\ Op(t) = "login" => LoginFits(job[t])
  BY <1>1, RunningIs
<1>4. Op(t) = "login" /\ Todo(t) \in Looking /\ Tail(Todo(t)) = <<"check">>
  BY <1>3, NextPlan
<1>5. PlanFits("login", <<"check">>) /\ <<"check">> \in Looking /\ <<"check">> \notin PreBind \union PostBind
  BY PlanStages DEF PlanFits
<1>6. Asker(t) # 0 => user[Asker(t)].state \in {"online", "offline"}
  <2>1. Asker(t) # 0 => Asker(t) \in DOMAIN user
    BY <1>3, <1>4 DEF RequestFits, Op, Asker
  <2>2. \A u \in DOMAIN user : user[u] \in User
    BY DEF DataInv, TablesOK
  <2> QED BY <2>1, <2>2 DEF User
<1>7. /\ j \in JobState /\ j.req = job[t].req /\ j.ans = job[t].ans /\ j.todo = <<"check">> /\ j.to = job[t].to
      /\ j.got = "no"
  <2>1. <<"check">> \in Plans
    BY <1>5, PlansBasic
  <2>2. /\ Done(t) \in JobState /\ Done(t).req = job[t].req /\ Done(t).ans = job[t].ans
        /\ Done(t).to = job[t].to /\ Done(t).todo = <<"check">> /\ Done(t).got = "no"
    BY <2>1, <1>3, <1>4, DoneState
  <2> QED BY <2>2, <1>6 DEF JobState
<1>8. LoginFits(j)
  BY <1>3, <1>4, <1>5, <1>7 DEF LoginFits, Todo
<1> QED BY <1>1, <1>2, <1>3, <1>4, <1>5, <1>7, <1>8, LoginReturns

LEMMA UpdateStateData ==
    ASSUME PoolInv, DataInv, NEW t \in Thread, UpdateState(t), UNCHANGED clientVars PROVE DataInv'
<1> DEFINE j == [Done(t) EXCEPT !.to = {}]
<1>1. PICK s \in {"online", "offline"} :
         /\ Running(t, IF s = "online" THEN "setOnline" ELSE "setOffline")
         /\ LET whom == IF job[t].to = {} THEN {Asker(t)} ELSE job[t].to
            IN  user' = [u \in DOMAIN user |-> IF u \in whom THEN [user[u] EXCEPT !.state = s] ELSE user[u]]
  BY DEF UpdateState
<1>2. Returns(t, j) /\ UNCHANGED <<friend, group, member, offline, insertId, userConnMap, session, loggedIn>>
  BY DEF UpdateState, Returns
<1>3. /\ user' \in Seq(User) /\ DOMAIN user' = DOMAIN user /\ Len(user') = Len(user)
      /\ \A u \in DOMAIN user : user'[u].by = user[u].by
  <2>1. user \in Seq(User) /\ DOMAIN user = 1..Len(user) /\ Len(user) \in Nat
    BY DEF DataInv, TablesOK
  <2>2. ASSUME NEW u \in DOMAIN user
        PROVE  user'[u] \in User /\ user'[u].by = user[u].by
    <3>1. user[u] \in User
      BY <2>1, <2>2
    <3> QED BY <1>1, <2>2, <3>1 DEF User
  <2>3. user' = [u \in 1..Len(user) |-> user'[u]]
    BY <1>1, <2>1
  <2> QED BY <2>1, <2>2, <2>3
<1>4. Grow /\ TablesOK'
  BY <1>2, <1>3 DEF Grow, DataInv, TablesOK
<1>5. /\ Todo(t) # <<>> /\ Head(Todo(t)) \in {"setOnline", "setOffline"} /\ job[t] \in JobState
      /\ PlanFits(Op(t), Todo(t)) /\ AnswerFits(t, job[t].ans, user, friend)
      /\ Op(t) = "login" => LoginFits(job[t])
  BY <1>1, RunningIs
<1>6. \/ Op(t) = "login" /\ Todo(t) \in PreBind \union PostBind /\ PlanFits("login", Tail(Todo(t)))
         /\ Tail(Todo(t)) \notin Looking
      \/ Op(t) \in {"logout", "close"} /\ Tail(Todo(t)) = <<>>
  <2>1. CASE Head(Todo(t)) = "setOnline"
    <3>1. /\ Op(t) = "login" /\ Todo(t) \in PostBind
          /\ Tail(Todo(t)) = <<"queryOffline", "queryFriends", "queryGroups">>
      BY <1>5, <2>1, NextPlan
    <3>2. Tail(Todo(t)) \in PostBind
      BY <3>1, PlanStages
    <3> QED BY <3>1, <3>2, PlanStages DEF PlanFits
  <2>2. CASE Head(Todo(t)) = "setOffline"
    <3>1. \/ Op(t) = "login" /\ Todo(t) \in PreBind /\ Tail(Todo(t)) = <<"addConn", "bindUser">>
          \/ Op(t) \in {"logout", "close"} /\ Tail(Todo(t)) = <<>>
      BY <1>5, <2>2, NextPlan
    <3>2. <<"addConn", "bindUser">> \in PreBind /\ <<"addConn", "bindUser">> \notin Looking
      BY PlanStages
    <3> QED BY <3>1, <3>2 DEF PlanFits
  <2> QED BY <1>5, <2>1, <2>2
<1>7. /\ j \in JobState /\ j.req = job[t].req /\ j.ans = job[t].ans /\ j.todo = Tail(Todo(t)) /\ j.to = {}
      /\ j.got = "no"
  <2>1. Tail(Todo(t)) \in Plans
    BY <1>6, PlansBasic
  <2> QED BY <2>1, <1>5, DoneState DEF JobState
<1>8. CASE Op(t) = "login"
  <2>1. LoginFits(j)
    BY <1>5, <1>6, <1>7, <1>8, PlanStages DEF LoginFits, Todo
  <2>2. AnswerFits(t, j.ans, user', friend')
    BY <1>4, <1>5, <1>7, AnswerMore DEF Grow
  <2> QED BY <1>2, <1>4, <1>5, <1>6, <1>7, <1>8, <2>1, <2>2, LoginReturns
<1>9. CASE Op(t) \in {"logout", "close"}
  <2>1. <<>> \notin Exiting /\ <<>> # <<"addCreator">>
    BY NotExiting, Tail1
  <2> QED BY <1>2, <1>4, <1>5, <1>6, <1>7, <1>9, <2>1, PlansBasic, PlainReturns DEF Token
<1> QED BY <1>6, <1>8, <1>9

(* The queries that follow the entry of a login *)
LEMMA LoginQueryIs ==
    ASSUME DataInv, NEW t \in Thread,
           NEW f \in {"queryOffline", "removeOffline", "queryFriends", "queryGroups"}, Running(t, f)
    PROVE  /\ Todo(t) # <<>> /\ Op(t) = "login" /\ job[t] \in JobState /\ job[t].to = {}
           /\ job[t].ans.kind = "login" /\ job[t].ans.id = job[t].req.id /\ job[t].ans.errno = 0
           /\ Asker(t) \in UserId /\ job[t].ans \in Answer
           /\ AnswerFits(t, job[t].ans, user, friend)
           /\ PlanFits("login", Tail(Todo(t))) /\ Tail(Todo(t)) \in PostBind \union {<<>>}
           /\ Tail(Todo(t)) \in Plans
           /\ f = "queryOffline" => Tail(Todo(t)) = <<"queryFriends", "queryGroups">>
<1>1. /\ Todo(t) # <<>> /\ Head(Todo(t)) = f /\ job[t] \in JobState /\ PlanFits(Op(t), Todo(t))
      /\ AnswerFits(t, job[t].ans, user, friend)
      /\ Op(t) = "login" => LoginFits(job[t])
  BY RunningIs
<1>2. Op(t) = "login" /\ Todo(t) \in PostBind
  BY <1>1, NextPlan
<1>3. Tail(Todo(t)) \in {<<"queryFriends", "queryGroups">>, <<"queryGroups">>, <<>>}
  BY <1>1, NextPlan
<1>4. f = "queryOffline" => Tail(Todo(t)) = <<"queryFriends", "queryGroups">>
  BY <1>1, NextPlan
<1>5. PlanFits("login", Tail(Todo(t))) /\ Tail(Todo(t)) \in PostBind \union {<<>>}
  BY <1>3, PlanStages DEF PlanFits
<1>6. Tail(Todo(t)) \in Plans
  BY <1>5, PlansBasic
<1>7. LoginFits(job[t]) /\ Todo(t) \notin Looking
  BY <1>1, <1>2, PlanStages
<1> QED BY <1>1, <1>2, <1>4, <1>5, <1>6, <1>7 DEF LoginFits, Todo, Asker, JobState

LEMMA LoginGoesOn ==
    ASSUME NEW j, j.to = {}, j.todo \in PostBind \union {<<>>}, j.ans.kind = "login", j.ans.id = j.req.id,
           j.ans.errno = 0, j.req.id \in UserId
    PROVE  LoginFits(j)
  BY PlanStages DEF LoginFits

LEMMA OfflineQueryData ==
    ASSUME PoolInv, DataInv, NEW t \in Thread, OfflineQuery(t), UNCHANGED clientVars PROVE DataInv'
<1> DEFINE rows == offline[Asker(t)]
           j == [Done(t) EXCEPT !.ans.rows = rows,
                                !.todo = IF rows = <<>> THEN @ ELSE <<"removeOffline">> \o @]
<1>1. Running(t, "queryOffline") /\ Returns(t, j)
  BY DEF OfflineQuery
<1>2. TablesOK' /\ Grow /\ insertId' = insertId /\ user' = user /\ friend' = friend
  BY <1>1, SameTables DEF OfflineQuery, Returns, DataInv, tables
<1>3. /\ Todo(t) # <<>> /\ Op(t) = "login" /\ job[t] \in JobState /\ job[t].to = {}
      /\ job[t].ans.kind = "login" /\ job[t].ans.id = job[t].req.id /\ job[t].ans.errno = 0
      /\ Asker(t) \in UserId /\ job[t].ans \in Answer
      /\ AnswerFits(t, job[t].ans, user, friend)
      /\ Tail(Todo(t)) = <<"queryFriends", "queryGroups">> /\ Tail(Todo(t)) \in Plans
  BY <1>1, LoginQueryIs
<1>4. rows \in Seq(Row)
  BY <1>3 DEF DataInv, TablesOK
<1>5. /\ Done(t) \in JobState /\ Done(t).req = job[t].req /\ Done(t).ans = job[t].ans
      /\ Done(t).to = job[t].to /\ Done(t).todo = Tail(Todo(t)) /\ Done(t).got = "no"
  BY <1>3, DoneState
<1>6. /\ j.ans \in Answer /\ j.ans.kind = "login" /\ j.ans.id = job[t].ans.id /\ j.ans.errno = 0
      /\ j.ans.friends = job[t].ans.friends
  BY <1>3, <1>4, <1>5 DEF JobState, Answer
<1>7. j.todo \in PostBind
  BY <1>3, <1>5, PlanStages DEF JobState
<1>8. j \in JobState /\ j.req = job[t].req /\ j.to = {} /\ j.got = "no"
  BY <1>3, <1>5, <1>6, <1>7 DEF JobState, Plans
<1>9. LoginFits(j) /\ PlanFits("login", j.todo)
  <2> HIDE DEF j
  <2> QED BY <1>3, <1>6, <1>7, <1>8, LoginGoesOn DEF PlanFits, Asker
<1>10. AnswerFits(t, j.ans, user', friend')
  BY <1>2, <1>3, <1>6 DEF AnswerFits
<1> QED
  <2> HIDE DEF j
  <2> QED BY <1>1, <1>2, <1>3, <1>8, <1>9, <1>10, LoginReturns

LEMMA OfflineRemoveData ==
    ASSUME PoolInv, DataInv, NEW t \in Thread, OfflineRemove(t), UNCHANGED clientVars PROVE DataInv'
<1> DEFINE j == Done(t)
<1>1. Running(t, "removeOffline") /\ Returns(t, j) /\ UNCHANGED <<user, friend, group, member, insertId, userConnMap, session, loggedIn>>
      /\ offline' = [offline EXCEPT ![Asker(t)] = <<>>]
  BY DEF OfflineRemove, Returns
<1>2. /\ Todo(t) # <<>> /\ Op(t) = "login" /\ job[t] \in JobState /\ job[t].to = {}
      /\ job[t].ans.kind = "login" /\ job[t].ans.id = job[t].req.id /\ job[t].ans.errno = 0
      /\ Asker(t) \in UserId /\ AnswerFits(t, job[t].ans, user, friend)
      /\ PlanFits("login", Tail(Todo(t))) /\ Tail(Todo(t)) \in PostBind \union {<<>>} /\ Tail(Todo(t)) \in Plans
  BY <1>1, LoginQueryIs
<1>3. TablesOK' /\ Grow
  <2>1. offline \in [UserId -> Seq(Row)] /\ <<>> \in Seq(Row)
    BY DEF DataInv, TablesOK
  <2>2. offline' \in [UserId -> Seq(Row)]
    BY <1>1, <2>1
  <2> QED BY <1>1, <2>2 DEF DataInv, TablesOK, Grow
<1>4. /\ j \in JobState /\ j.req = job[t].req /\ j.ans = job[t].ans
      /\ j.to = job[t].to /\ j.todo = Tail(Todo(t)) /\ j.got = "no"
  BY <1>2, DoneState
<1>5. LoginFits(j)
  BY <1>2, <1>4, LoginGoesOn DEF Asker
<1> QED BY <1>1, <1>2, <1>3, <1>4, <1>5, LoginReturns

LEMMA FriendQueryData ==
    ASSUME PoolInv, DataInv, NEW t \in Thread, FriendQuery(t), UNCHANGED clientVars PROVE DataInv'
<1> DEFINE list == {f \in friend : f[1] = Asker(t)}
           j == [Done(t) EXCEPT !.ans.friends = list]
<1>1. Running(t, "queryFriends") /\ Returns(t, j)
  BY DEF FriendQuery
<1>2. TablesOK' /\ Grow /\ insertId' = insertId /\ user' = user /\ friend' = friend
  BY <1>1, SameTables DEF FriendQuery, Returns, DataInv, tables
<1>3. /\ Todo(t) # <<>> /\ Op(t) = "login" /\ job[t] \in JobState /\ job[t].to = {}
      /\ job[t].ans.kind = "login" /\ job[t].ans.id = job[t].req.id /\ job[t].ans.errno = 0
      /\ Asker(t) \in UserId /\ job[t].ans \in Answer
      /\ AnswerFits(t, job[t].ans, user, friend)
      /\ PlanFits("login", Tail(Todo(t))) /\ Tail(Todo(t)) \in PostBind \union {<<>>} /\ Tail(Todo(t)) \in Plans
  BY <1>1, LoginQueryIs
<1>4. list \in SUBSET (UserId \X UserId) /\ list \subseteq friend /\ OneUsers(list)
  BY DEF DataInv, TablesOK, OneUsers
<1>5. /\ Done(t) \in JobState /\ Done(t).req = job[t].req /\ Done(t).ans = job[t].ans
      /\ Done(t).to = job[t].to /\ Done(t).todo = Tail(Todo(t)) /\ Done(t).got = "no"
  BY <1>3, DoneState
<1>6. /\ j.ans \in Answer /\ j.ans.kind = "login" /\ j.ans.id = job[t].ans.id /\ j.ans.errno = 0
      /\ j.ans.friends = list
  BY <1>3, <1>4, <1>5 DEF JobState, Answer
<1>7. j \in JobState /\ j.req = job[t].req /\ j.to = {} /\ j.got = "no" /\ j.todo = Tail(Todo(t))
  BY <1>3, <1>5, <1>6 DEF JobState
<1>8. LoginFits(j)
  <2> HIDE DEF j
  <2> QED BY <1>3, <1>6, <1>7, LoginGoesOn DEF Asker
<1>9. AnswerFits(t, j.ans, user', friend')
  BY <1>2, <1>3, <1>4, <1>6 DEF AnswerFits
<1> QED
  <2> HIDE DEF j
  <2> QED BY <1>1, <1>2, <1>3, <1>7, <1>8, <1>9, LoginReturns

LEMMA GroupQueryData ==
    ASSUME PoolInv, DataInv, NEW t \in Thread, GroupQuery(t), UNCHANGED clientVars PROVE DataInv'
<1> DEFINE list == {g \in DOMAIN group : <<g, Asker(t)>> \in member}
           j == [Done(t) EXCEPT !.ans.groups = list]
<1>1. Running(t, "queryGroups") /\ Returns(t, j)
  BY DEF GroupQuery
<1>2. TablesOK' /\ Grow /\ insertId' = insertId /\ user' = user /\ friend' = friend
  BY <1>1, SameTables DEF GroupQuery, Returns, DataInv, tables
<1>3. /\ Todo(t) # <<>> /\ Op(t) = "login" /\ job[t] \in JobState /\ job[t].to = {}
      /\ job[t].ans.kind = "login" /\ job[t].ans.id = job[t].req.id /\ job[t].ans.errno = 0
      /\ Asker(t) \in UserId /\ job[t].ans \in Answer
      /\ AnswerFits(t, job[t].ans, user, friend)
      /\ PlanFits("login", Tail(Todo(t))) /\ Tail(Todo(t)) \in PostBind \union {<<>>} /\ Tail(Todo(t)) \in Plans
  BY <1>1, LoginQueryIs
<1>4. list \in SUBSET GroupId
  BY DEF DataInv, TablesOK, GroupId
<1>5. /\ Done(t) \in JobState /\ Done(t).req = job[t].req /\ Done(t).ans = job[t].ans
      /\ Done(t).to = job[t].to /\ Done(t).todo = Tail(Todo(t)) /\ Done(t).got = "no"
  BY <1>3, DoneState
<1>6. /\ j.ans \in Answer /\ j.ans.kind = "login" /\ j.ans.id = job[t].ans.id /\ j.ans.errno = 0
      /\ j.ans.friends = job[t].ans.friends
  BY <1>3, <1>4, <1>5 DEF JobState, Answer
<1>7. j \in JobState /\ j.req = job[t].req /\ j.to = {} /\ j.got = "no" /\ j.todo = Tail(Todo(t))
  BY <1>3, <1>5, <1>6 DEF JobState
<1>8. LoginFits(j)
  <2> HIDE DEF j
  <2> QED BY <1>3, <1>6, <1>7, LoginGoesOn DEF Asker
<1>9. AnswerFits(t, j.ans, user', friend')
  BY <1>2, <1>3, <1>6 DEF AnswerFits
<1> QED
  <2> HIDE DEF j
  <2> QED BY <1>1, <1>2, <1>3, <1>7, <1>8, <1>9, LoginReturns

LEMMA OfflineInsertData ==
    ASSUME PoolInv, DataInv, NEW t \in Thread, OfflineInsert(t), UNCHANGED clientVars PROVE DataInv'
<1>1. PICK u \in job[t].to :
         offline' = Stored1(u, RowOf(job[t].req.text)) /\ Returns(t, NextInsert(t, u))
  BY DEF OfflineInsert
<1>2. Running(t, "insertOffline") /\ UNCHANGED <<user, friend, group, member, insertId, userConnMap, session, loggedIn>>
  BY <1>1 DEF OfflineInsert, Returns
<1>3. /\ Todo(t) # <<>> /\ Head(Todo(t)) = "insertOffline" /\ job[t] \in JobState /\ PlanFits(Op(t), Todo(t))
      /\ job[t].got = "no"
  BY <1>2, RunningIs
<1>4. /\ Op(t) \in {"chat", "groupChat"} /\ Todo(t) = <<"insertOffline">> /\ Tail(Todo(t)) = <<>>
  BY <1>3, NextPlan
<1>5. u \in UserId /\ RowOf(job[t].req.text) \in Row
  BY <1>3 DEF JobState, AnyRequest, Row
<1>6. TablesOK' /\ Grow
  <2>1. offline \in [UserId -> Seq(Row)]
    BY DEF DataInv, TablesOK
  <2>2. Append(offline[u], RowOf(job[t].req.text)) \in Seq(Row)
    BY <1>5, <2>1
  <2>3. offline' \in [UserId -> Seq(Row)]
    BY <1>1, <2>1, <2>2 DEF Stored1
  <2> QED BY <1>2, <2>3 DEF DataInv, TablesOK, Grow
<1>7. /\ Done(t) \in JobState /\ Done(t).req = job[t].req /\ Done(t).ans = job[t].ans
      /\ Done(t).to = job[t].to /\ Done(t).todo = <<>> /\ Done(t).got = "no"
  BY <1>3, <1>4, PlansBasic, DoneState
<1>8. LET j == NextInsert(t, u)
      IN  /\ j \in JobState /\ j.req = job[t].req /\ j.ans = job[t].ans /\ j.got = "no"
          /\ j.todo \in {<<>>, <<"insertOffline">>}
  BY <1>3, <1>4, <1>7 DEF NextInsert, JobState, Todo
<1>9. /\ <<>> \notin Exiting /\ <<>> # <<"addCreator">> /\ <<"insertOffline">> \notin Exiting
      /\ <<"insertOffline">> # <<"addCreator">>
  BY NotExiting, Tail1
<1>10. PlanFits(Op(t), <<"insertOffline">>) /\ Op(t) \notin Token
  BY <1>4 DEF PlanFits, Sending, Token
<1> QED BY <1>1, <1>2, <1>3, <1>6, <1>8, <1>9, <1>10, PlansBasic, PlainReturns

LEMMA FriendInsertData ==
    ASSUME PoolInv, DataInv, NEW t \in Thread, FriendInsert(t), UNCHANGED clientVars PROVE DataInv'
<1>1. /\ Running(t, "insertFriend") /\ Returns(t, Done(t)) /\ UNCHANGED <<user, group, member, offline, insertId, userConnMap, session, loggedIn>>
      /\ friend' = friend \union {f \in {<<Asker(t), job[t].req.arg>>} : f[2] \in DOMAIN user}
  BY DEF FriendInsert, Returns
<1>2. /\ Todo(t) # <<>> /\ Head(Todo(t)) = "insertFriend" /\ job[t] \in JobState /\ PlanFits(Op(t), Todo(t))
      /\ RequestFits(job[t].req, DOMAIN user)
  BY <1>1, RunningIs
<1>3. Op(t) = "addFriend" /\ Tail(Todo(t)) = <<>>
  BY <1>2, NextPlan
<1>4. Asker(t) \in UserId /\ job[t].req.arg \in UserId
  BY <1>2, <1>3 DEF RequestFits, Commands, Op, Asker
<1>5. TablesOK' /\ Grow
  BY <1>1, <1>4 DEF DataInv, TablesOK, Grow
<1>6. <<>> \notin Exiting /\ <<>> # <<"addCreator">>
  BY NotExiting, Tail1
<1> QED BY <1>1, <1>2, <1>3, <1>5, <1>6, DoneState, PlansBasic, PlainReturns DEF Token

LEMMA MemberInsertData ==
    ASSUME PoolInv, DataInv, NEW t \in Thread, MemberInsert(t), UNCHANGED clientVars PROVE DataInv'
<1>1. /\ Running(t, "addGroup") \/ Running(t, "addCreator")
      /\ Returns(t, Done(t)) /\ UNCHANGED <<user, friend, group, offline, insertId, userConnMap, session, loggedIn>>
      /\ member' = member \union {m \in {<<job[t].req.arg, Asker(t)>>} : m[1] \in DOMAIN group}
  BY DEF MemberInsert, Returns
<1>2. /\ Todo(t) # <<>> /\ Head(Todo(t)) \in {"addGroup", "addCreator"} /\ job[t] \in JobState
      /\ PlanFits(Op(t), Todo(t)) /\ RequestFits(job[t].req, DOMAIN user)
  BY <1>1, RunningIs
<1>3. Op(t) \in {"addGroup", "createGroup"} /\ Tail(Todo(t)) = <<>>
  BY <1>2, NextPlan
<1>4. Asker(t) \in UserId
  BY <1>2, <1>3 DEF RequestFits, Commands, Op, Asker
<1>5. DOMAIN group \subseteq GroupId
  BY DEF DataInv, TablesOK, GroupId
<1>6. TablesOK' /\ Grow
  BY <1>1, <1>4, <1>5 DEF DataInv, TablesOK, Grow
<1>7. <<>> \notin Exiting /\ <<>> # <<"addCreator">>
  BY NotExiting, Tail1
<1> QED BY <1>1, <1>2, <1>3, <1>6, <1>7, DoneState, PlansBasic, PlainReturns DEF Token

LEMMA AnsweringStep ==
    ASSUME DataInv, NEW t \in Thread, NEW j \in JobState, job' = [job EXCEPT ![t] = j], JobFits(t)', Grow,
           \A s \in Thread \ {t} : Undisturbed(s), TablesOK', UNCHANGED clientVars,
           answers' \in [Client -> Seq(Answer)], requests' \in [Client -> Seq(Request)],
           \A c \in Client : AnswersOK(c)' /\ RequestsOK(c)'
    PROVE  DataInv'
<1>1. job' \in [Thread -> JobState] /\ \A s \in Thread : JobFits(s)'
  BY JobStep
<1>2. UNCHANGED <<friendList, groupList, currentUser, main, isLoginSuccess>>
  BY DEF clientVars
<1>3. \A c \in Client : ListsOK(c)'
  BY <1>2, ListsKept1 DEF DataInv
<1> QED BY <1>1, <1>2, <1>3 DEF DataInv

LEMMA LiveFits ==
    ASSUME NEW text \in Words, NEW c, NEW us, NEW fr
    PROVE  /\ Live(text) \in Answer /\ AnswerFits(c, Live(text), us, fr) /\ Live(text).kind = "live"
           /\ Live(text).rows = <<text>>
<1>1. NoAnswer \in Answer /\ NoAnswer.friends = {}
  BY NoAnswerFits DEF NoAnswer
<1>2. <<text>> \in Seq(Row)
  BY DEF Row
<1>3. /\ Live(text) \in Answer /\ Live(text).kind = "live" /\ Live(text).friends = {}
      /\ Live(text).rows = <<text>>
  BY <1>1, <1>2 DEF Live, Answer
<1> QED BY <1>3 DEF AnswerFits, OneUsers

LEMMA GroupUsersQueryData ==
    ASSUME PoolInv, DataInv, NEW t \in Thread, GroupUsersQuery(t), UNCHANGED clientVars PROVE DataInv'
<1> DEFINE to   == {u \in UserId \ {Asker(t)} : <<job[t].req.arg, u>> \in member}
           here == {userConnMap[u] : u \in to} \ {None}
           away == {u \in to : userConnMap[u] = None}
           j    == [Done(t) EXCEPT !.to = away, !.ask = away,
                                   !.todo = IF away = {} THEN <<>> ELSE <<"resolve", "insertOffline">>]
           live == Live(job[t].req.text)
<1>1. /\ Running(t, "queryGroupUsers") /\ job' = [job EXCEPT ![t] = j] /\ PutBack(t)
      /\ answers' = [d \in Client |-> IF d \in here THEN Append(answers[d], live) ELSE answers[d]]
      /\ UNCHANGED <<tables, userConnMap, session, loggedIn, requests>>
  BY DEF GroupUsersQuery
<1>2. TablesOK' /\ Grow /\ insertId' = insertId
  BY <1>1, SameTables DEF DataInv, tables
<1>3. /\ Todo(t) # <<>> /\ Head(Todo(t)) = "queryGroupUsers" /\ job[t] \in JobState /\ PlanFits(Op(t), Todo(t))
      /\ RequestFits(job[t].req, DOMAIN user)
  BY <1>1, RunningIs
<1>4. Op(t) = "groupChat" /\ Tail(Todo(t)) = <<>>
  BY <1>3, NextPlan
<1>5. /\ Done(t) \in JobState /\ Done(t).req = job[t].req /\ Done(t).ans = job[t].ans
      /\ Done(t).todo = <<>> /\ Done(t).got = "no"
  BY <1>3, <1>4, PlansBasic, DoneState
<1>6. /\ j \in JobState /\ j.req = job[t].req /\ j.ans = job[t].ans /\ j.got = "no"
      /\ j.todo \in {<<>>, <<"resolve", "insertOffline">>}
  <2>1. away \in SUBSET UserId
    OBVIOUS
  <2> HIDE DEF away
  <2> QED BY <1>3, <1>5, <2>1 DEF JobState, Plans, Sending
<1>7. /\ <<>> \notin Exiting /\ <<>> # <<"addCreator">> /\ <<"resolve", "insertOffline">> \notin Exiting
      /\ <<"resolve", "insertOffline">> # <<"addCreator">>
  <2>1. <<"resolve", "insertOffline">> \in Sending
    BY DEF Sending
  <2>2. Head(<<"resolve", "insertOffline">>) = "resolve" /\ Head(<<"addCreator">>) = "addCreator"
        /\ <<"addCreator">> # <<>>
    BY Tail1, Tail2
  <2> QED BY <2>1, <2>2, NotExiting
<1>8. PlanFits("groupChat", j.todo)
  <2> HIDE DEF j
  <2> QED BY <1>6 DEF PlanFits, Sending
<1>9. JobFits(t)'
  <2>1. RequestFits(j.req, DOMAIN user')
    BY <1>2, <1>3, <1>6, RequestMore DEF Grow
  <2> HIDE DEF j
  <2> QED BY <1>1, <1>2, <1>3, <1>4, <1>6, <1>7, <1>8, <2>1, PlainStep DEF Token, Op
<1>10. job[t].req.text \in Words
  BY <1>3 DEF JobState, AnyRequest
<1>11. live \in Answer /\ live.kind # "none" /\ \A d \in Client : AnswerFits(d, live, user', friend')
  BY <1>10, LiveFits
<1>12. answers' \in [Client -> Seq(Answer)] /\ \A d \in Client : AnswersOK(d)'
  <2> HIDE DEF live, here
  <2>1. ASSUME NEW d \in Client
        PROVE  AnswersOK(d)'
    <3>1. AnswersOK(d)
      BY DEF DataInv
    <3>2. CASE d \in here
      <4>1. answers'[d] = Append(answers[d], live)
        BY <1>1, <3>2
      <4> QED BY <1>2, <1>11, <3>1, <4>1, AnswersAppend
    <3>3. CASE d \notin here
      <4>1. answers'[d] = answers[d]
        BY <1>1, <3>3
      <4> QED BY <1>2, <3>1, <4>1, AnswersKept
    <3> QED BY <3>2, <3>3
  <2>2. \A d \in Client : answers'[d] \in Seq(Answer)
    BY <2>1 DEF AnswersOK
  <2> QED BY <1>1, <2>1, <2>2
<1>13. requests' \in [Client -> Seq(Request)] /\ \A d \in Client : RequestsOK(d)'
  BY <1>1, <1>2, RequestsKept DEF DataInv
<1>14. \A s \in Thread \ {t} : Undisturbed(s)
  BY <1>1, <1>2, PutBackUndisturbs
<1> HIDE DEF j
<1> QED BY <1>1, <1>2, <1>6, <1>9, <1>12, <1>13, <1>14, AnsweringStep

LEMMA StatementData ==
    ASSUME PoolInv, DataInv, NEW t \in Thread, Statement(t), UNCHANGED clientVars PROVE DataInv'
<1>1. CASE UserInsert(t) \/ GroupInsert(t) \/ InsertReturns(t) \/ InsertFails(t)
  BY <1>1, UserInsertData, GroupInsertData, InsertReturnsData, InsertFailsData
<1>2. CASE UserQuery(t) \/ UpdateState(t) \/ OfflineQuery(t) \/ OfflineRemove(t)
  BY <1>2, UserQueryData, UpdateStateData, OfflineQueryData, OfflineRemoveData
<1>3. CASE OfflineInsert(t) \/ FriendQuery(t) \/ FriendInsert(t) \/ MemberInsert(t)
  BY <1>3, OfflineInsertData, FriendQueryData, FriendInsertData, MemberInsertData
<1>4. CASE GroupQuery(t) \/ GroupUsersQuery(t)
  BY <1>4, GroupQueryData, GroupUsersQueryData
<1> QED BY <1>1, <1>2, <1>3, <1>4 DEF Statement

-----------------------------------------------------------------------------
(* A handler begins, goes on between the functions, and ends *)
LEMMA SameUndisturbed ==
    ASSUME UNCHANGED poolVars, insertId' = insertId, NEW s \in Thread PROVE Undisturbed(s)
  BY DEF poolVars, Undisturbed

LEMMA ServeFits ==
    ASSUME DataInv, NEW c \in Client, NEW r \in Request, RequestFits(r, DOMAIN user), NEW td, PlanFits(r.op, td),
           NEW to \in SUBSET UserId, r.op = "login" => to = {} /\ td \in Looking, r.op = "reg" => td # <<>>,
           td \in Exiting => to # {} /\ r.id \in to \union {0}, td # <<"addCreator">>,
           job' = [job EXCEPT ![c] = [NoJob EXCEPT !.req = r, !.todo = td, !.to = to, !.ask = to]],
           UNCHANGED tables
    PROVE  /\ [NoJob EXCEPT !.req = r, !.todo = td, !.to = to, !.ask = to] \in JobState
           /\ job'[c].req = r /\ job'[c].todo = td /\ job'[c].to = to
           /\ JobFits(c)'
<1> DEFINE j == [NoJob EXCEPT !.req = r, !.todo = td, !.to = to, !.ask = to]
<1>1. r \in AnyRequest /\ td \in Plans
  BY PlansBasic DEF Request, AnyRequest, Commands, Token, Words
<1>2. /\ j.req = r /\ j.todo = td /\ j.to = to /\ j.ans = NoAnswer /\ j.got = "no" /\ j.state = "offline"
      /\ DOMAIN j = {"req", "todo", "got", "to", "ask", "state", "ans"}
  BY DEF NoJob
<1>3. NoJob \in JobState
  <2>1. NoRequest \in AnyRequest /\ <<>> \in Plans
    BY PlansBasic DEF NoRequest, AnyRequest, Words
  <2> QED BY <2>1, NoAnswerFits DEF NoJob, JobState
<1>4. j \in JobState
  BY <1>1, <1>3 DEF JobState
<1>5. job'[c] = j /\ user' = user /\ friend' = friend /\ group' = group
  BY DEF DataInv, tables
<1> HIDE DEF j
<1>6. Op(c)' = r.op /\ Todo(c)' = td /\ Asker(c)' = r.id
  BY <1>2, <1>5 DEF Op, Todo, Asker
<1>7. NoAnswer.kind = "none" /\ AnswerFits(c, NoAnswer, user, friend)
  BY NoAnswerFits DEF NoAnswer
<1>8. r.op = "login" => LoginFits(j)
  BY <1>2, <1>7, PlanStages DEF LoginFits
<1>9. JobFits(c)'
  BY <1>2, <1>5, <1>6, <1>7, <1>8 DEF JobFits
<1> QED BY <1>2, <1>4, <1>5, <1>9 DEF j

LEMMA ReceiveIs ==
    ASSUME DataInv, NEW c \in Client, requests[c] # <<>>
    PROVE  /\ Head(requests[c]) \in Request /\ RequestFits(Head(requests[c]), DOMAIN user)
  BY DEF DataInv, RequestsOK

LEMMA BeginOthers ==
    ASSUME DataInv, NEW c \in Client, Begin(c) \/ BeginLeave(c) \/ BeginLeaveUnknown(c) \/ BeginChat(c)
    PROVE  /\ requests[c] # <<>> /\ requests'[c] = Tail(requests[c])
           /\ job'[c] = job[c] \/ job'[c].req = Head(requests[c])
           /\ \A d \in Client \ {c} : requests'[d] = requests[d]
           /\ \A d \in Thread \ {c} : job'[d] = job[d]
<1>1. requests[c] # <<>> /\ requests' = [requests EXCEPT ![c] = Tail(@)]
      /\ (job' = job \/ \E td, to : Serve(c, td, to))
  BY BeginIs
<1>2. requests \in [Client -> Seq(Request)] /\ job \in [Thread -> JobState] /\ c \in Thread
  BY AccountsAssumption DEF DataInv
<1>3. ASSUME NEW td, NEW to, Serve(c, td, to)
      PROVE  job'[c].req = Head(requests[c]) /\ \A d \in Thread \ {c} : job'[d] = job[d]
  <2> DEFINE r == Head(requests[c])
  <2>1. job' = [job EXCEPT ![c] = [NoJob EXCEPT !.req = r, !.todo = td, !.to = to, !.ask = to]]
    BY <1>3, Zenon DEF Serve
  <2> HIDE DEF r
  <2>2. [NoJob EXCEPT !.req = r, !.todo = td, !.to = to, !.ask = to].req = r
    BY DEF NoJob
  <2>3. job'[c].req = r /\ \A d \in Thread \ {c} : job'[d] = job[d]
    BY <1>2, <2>1, <2>2
  <2> QED BY <2>3 DEF r
<1>4. \A d \in Thread \ {c} : job'[d] = job[d]
  BY <1>1, <1>3
<1>5. job'[c] = job[c] \/ job'[c].req = Head(requests[c])
  BY <1>1, <1>3, Zenon
<1>6. requests'[c] = Tail(requests[c]) /\ \A d \in Client \ {c} : requests'[d] = requests[d]
  BY <1>1, <1>2, Zenon
<1> QED BY <1>1, <1>4, <1>5, <1>6, Zenon

LEMMA ReceiveRest ==
    ASSUME DataInv, NEW c \in Client, requests[c] # <<>>, requests' = [requests EXCEPT ![c] = Tail(@)], Grow
    PROVE  requests' \in [Client -> Seq(Request)] /\ \A d \in Client : RequestsOK(d)'
<1>1. requests \in [Client -> Seq(Request)] /\ \A d \in Client : RequestsOK(d)
  BY DEF DataInv
<1>2. requests' \in [Client -> Seq(Request)] /\ requests'[c] = Tail(requests[c])
      /\ \A d \in Client \ {c} : requests'[d] = requests[d]
  BY <1>1
<1>3. RequestsOK(c)'
  BY <1>1, <1>2, RequestsTail
<1>4. \A d \in Client \ {c} : RequestsOK(d)'
  BY <1>1, <1>2, RequestsKept
<1> QED BY <1>2, <1>3, <1>4

LEMMA BeginData ==
    ASSUME DataInv, NEW c \in Client, Begin(c), UNCHANGED clientVars PROVE DataInv'
<1> DEFINE r == Head(requests[c])
           j == [NoJob EXCEPT !.req = r, !.todo = Plan(r), !.to = {}, !.ask = {}]
<1>1. /\ requests[c] # <<>> /\ r.op \in {"reg", "login", "addFriend", "createGroup", "addGroup", "groupChat"}
      /\ requests' = [requests EXCEPT ![c] = Tail(@)] /\ job' = [job EXCEPT ![c] = j]
      /\ UNCHANGED <<poolVars, tables, userConnMap, session, loggedIn, answers>>
  BY DEF Begin, Receive, Serve
<1>2. r \in Request /\ RequestFits(r, DOMAIN user)
  BY <1>1, ReceiveIs
<1>3. TablesOK' /\ Grow /\ insertId' = insertId
  BY <1>1, SameTables DEF DataInv, tables
<1>4. /\ PlanFits(r.op, Plan(r))
      /\ r.op = "login" => Plan(r) \in Looking
  BY <1>1, PlanIs
<1>5. r.op = "reg" => Plan(r) # <<>>
  BY Tail1 DEF Plan
<1>6. Plan(r) \notin Exiting /\ Plan(r) # <<"addCreator">>
  <2>1. Head(Plan(r)) \in {"insertUser", "queryUser", "insertFriend", "createGroup", "addGroup", "queryGroupUsers"}
    BY NotExiting, <1>1, Tail1, Tail2 DEF Plan
  <2>2. Head(<<"addCreator">>) = "addCreator"
    BY Tail1
  <2>3. ASSUME NEW e \in Exiting PROVE Head(e) \in {"setOffline", "unbindUser"}
    <3>1. CASE e = <<"unbindUser", "setOffline">>
      <4>1. Head(e) = "unbindUser"
        BY ONLY <3>1, Tail2
      <4> QED BY <4>1
    <3>2. CASE e = <<"setOffline">>
      <4>1. Head(e) = "setOffline"
        BY ONLY <3>2, Tail1
      <4> QED BY <4>1
    <3> QED BY <3>1, <3>2 DEF Exiting
  <2> HIDE DEF r
  <2> QED BY <2>1, <2>2, <2>3
<1>7. j \in JobState /\ JobFits(c)'
  <2> DEFINE to == {}
             td == Plan(r)
  <2>1. to \in SUBSET UserId /\ to = {}
    OBVIOUS
  <2>2. UNCHANGED tables /\ job' = [job EXCEPT ![c] = [NoJob EXCEPT !.req = r, !.todo = td, !.to = to, !.ask = to]]
    BY <1>1
  <2>3. /\ PlanFits(r.op, td)
        /\ r.op = "login" => td \in Looking
        /\ r.op = "reg" => td # <<>>
        /\ td \notin Exiting /\ td # <<"addCreator">>
    BY NotExiting, <1>4, <1>5, <1>6
  <2> HIDE DEF to, td
  <2>4. [NoJob EXCEPT !.req = r, !.todo = td, !.to = to, !.ask = to] \in JobState /\ JobFits(c)'
    BY <1>2, <2>1, <2>2, <2>3, ServeFits
  <2> QED BY <2>4 DEF to, td
<1>8. requests' \in [Client -> Seq(Request)] /\ \A d \in Client : RequestsOK(d)'
  BY <1>1, <1>3, ReceiveRest
<1>9. answers' \in [Client -> Seq(Answer)] /\ \A d \in Client : AnswersOK(d)'
  BY <1>1, <1>3, AnswersKept DEF DataInv
<1>10. \A s \in Thread \ {c} : Undisturbed(s)
  BY <1>1, <1>3, SameUndisturbed
<1> QED BY <1>1, <1>3, <1>7, <1>8, <1>9, <1>10, AnsweringStep

LEMMA SessionTables ==
    ASSUME TablesOK, UNCHANGED tables, userConnMap' \in [UserId -> Client \union {None}], session' \subseteq UserId,
           loggedIn' \in [Client -> 0..MaxUser]
    PROVE  TablesOK' /\ Grow
  BY DEF TablesOK, tables, Grow

(* Leave, with its request by a name of its own *)
LEMMA LeaveIs ==
    ASSUME DataInv, NEW c \in Client, BeginLeave(c)
    PROVE  \E r, u : /\ r = Head(requests[c]) /\ requests[c] # <<>> /\ r.op \in {"logout", "close"} /\ u \in Leaving(c)
                     /\ u \in UserId /\ r.id \in {u, 0} /\ (r.op = "logout" => u = r.id) /\ ~Busy(c)
                     /\ (r.op = "close" => userConnMap[u] = c)
                     /\ requests' = [requests EXCEPT ![c] = Tail(@)]
                     /\ userConnMap' = [userConnMap EXCEPT ![u] = None]
                     /\ loggedIn' = [loggedIn EXCEPT ![c] = 0]
                     /\ job' = [job EXCEPT ![c] = [NoJob EXCEPT !.req = r, !.todo = <<"unbindUser", "setOffline">>,
                                                               !.to = {u}, !.ask = {u}]]
                     /\ UNCHANGED <<poolVars, tables, session, answers>>
<1> DEFINE r == Head(requests[c])
<1>1. PICK u \in Leaving(c) : Leave(c, u, <<"unbindUser", "setOffline">>)
  BY Zenon DEF BeginLeave
<1>2. /\ requests[c] # <<>> /\ r.op \in {"logout", "close"} /\ requests' = [requests EXCEPT ![c] = Tail(@)]
      /\ UNCHANGED <<poolVars, tables>> /\ ~Busy(c)
  BY Zenon DEF BeginLeave, Receive
<1>3. RequestFits(r, DOMAIN user)
  BY <1>2, ReceiveIs
<1> HIDE DEF r
<1>4. Leaving(c) = IF r.op = "logout" THEN {r.id} ELSE {v \in UserId : userConnMap[v] = c}
  BY Zenon DEF Leaving, r
<1>5. u \in UserId /\ r.id \in {u, 0} /\ (r.op = "logout" => u = r.id) /\ (r.op = "close" => userConnMap[u] = c)
  BY <1>1, <1>2, <1>3, <1>4 DEF RequestFits
<1>6. /\ userConnMap' = [userConnMap EXCEPT ![u] = None] /\ loggedIn' = [loggedIn EXCEPT ![c] = 0]
      /\ UNCHANGED <<session, answers>>
      /\ job' = [job EXCEPT ![c] = [NoJob EXCEPT !.req = r, !.todo = <<"unbindUser", "setOffline">>,
                                                !.to = {u}, !.ask = {u}]]
  BY <1>1, Zenon DEF Leave, Serve, r
<1>7. r = Head(requests[c])
  BY DEF r
<1> QED BY <1>1, <1>2, <1>5, <1>6, <1>7, Zenon

LEMMA BeginLeaveData ==
    ASSUME DataInv, NEW c \in Client, BeginLeave(c), UNCHANGED clientVars PROVE DataInv'
<1> DEFINE td == <<"unbindUser", "setOffline">>
<1>1. PICK r, u : /\ r = Head(requests[c]) /\ requests[c] # <<>> /\ r.op \in {"logout", "close"} /\ u \in Leaving(c)
                  /\ u \in UserId /\ r.id \in {u, 0} /\ (r.op = "logout" => u = r.id) /\ ~Busy(c)
                  /\ (r.op = "close" => userConnMap[u] = c)
                  /\ requests' = [requests EXCEPT ![c] = Tail(@)]
                  /\ userConnMap' = [userConnMap EXCEPT ![u] = None]
                  /\ loggedIn' = [loggedIn EXCEPT ![c] = 0]
                  /\ job' = [job EXCEPT ![c] = [NoJob EXCEPT !.req = r, !.todo = td, !.to = {u}, !.ask = {u}]]
                  /\ UNCHANGED <<poolVars, tables, session, answers>>
  BY LeaveIs
<1>2. r \in Request /\ RequestFits(r, DOMAIN user)
  BY <1>1, ReceiveIs, Zenon
<1>3. TablesOK' /\ Grow /\ insertId' = insertId
  <2>1. userConnMap' \in [UserId -> Client \union {None}]
    BY <1>1 DEF DataInv, TablesOK
  <2>2. loggedIn' \in [Client -> 0..MaxUser] /\ session' \subseteq UserId
    BY <1>1, AccountsAssumption DEF DataInv, TablesOK
  <2> QED BY <1>1, <2>1, <2>2, SessionTables DEF DataInv, tables
<1>4. PlanFits(r.op, td) /\ td # <<"addCreator">>
  BY <1>1, Tail1, Tail2 DEF PlanFits, Exiting
<1>5. {u} \in SUBSET UserId /\ {u} # {} /\ r.id \in {u} \union {0}
  BY <1>1
<1>6. [NoJob EXCEPT !.req = r, !.todo = td, !.to = {u}, !.ask = {u}] \in JobState /\ JobFits(c)'
  <2> DEFINE to == {u}
  <2>1. /\ to \in SUBSET UserId /\ to # {} /\ r.id \in to \union {0} /\ r.op # "login" /\ r.op # "reg"
        /\ job' = [job EXCEPT ![c] = [NoJob EXCEPT !.req = r, !.todo = td, !.to = to, !.ask = to]] /\ UNCHANGED tables
    BY <1>1, <1>5
  <2> HIDE DEF td, to
  <2>2. [NoJob EXCEPT !.req = r, !.todo = td, !.to = to, !.ask = to] \in JobState /\ JobFits(c)'
    BY <1>2, <1>4, <2>1, ServeFits
  <2> QED BY <2>2 DEF td, to
<1>7. requests' \in [Client -> Seq(Request)] /\ \A d \in Client : RequestsOK(d)'
  BY <1>1, <1>3, ReceiveRest
<1>8. answers' \in [Client -> Seq(Answer)] /\ \A d \in Client : AnswersOK(d)'
  BY <1>1, <1>3, AnswersKept DEF DataInv
<1>9. \A s \in Thread \ {c} : Undisturbed(s)
  BY <1>1, <1>3, SameUndisturbed
<1> QED BY <1>1, <1>3, <1>6, <1>7, <1>8, <1>9, AnsweringStep

LEMMA BeginLeaveUnknownData ==
    ASSUME DataInv, NEW c \in Client, BeginLeaveUnknown(c), UNCHANGED clientVars PROVE DataInv'
<1> DEFINE r == Head(requests[c])
           td == <<>>
           to == {}
<1>1. /\ requests[c] # <<>> /\ r.op = "close"
      /\ requests' = [requests EXCEPT ![c] = Tail(@)]
      /\ loggedIn' = [loggedIn EXCEPT ![c] = 0]
      /\ job' = [job EXCEPT ![c] = [NoJob EXCEPT !.req = r, !.todo = td, !.to = to, !.ask = to]]
      /\ UNCHANGED <<poolVars, tables, userConnMap, session, answers>>
  BY DEF BeginLeaveUnknown, Receive, Serve
<1>2. r \in Request /\ RequestFits(r, DOMAIN user)
  BY <1>1, ReceiveIs
<1> HIDE DEF r
<1>3. TablesOK' /\ Grow /\ insertId' = insertId
  <2>1. loggedIn' \in [Client -> 0..MaxUser]
    BY <1>1, AccountsAssumption DEF DataInv, TablesOK
  <2> QED BY <1>1, <2>1, SessionTables DEF DataInv, TablesOK, tables
<1>4. PlanFits(r.op, td) /\ td # <<"addCreator">> /\ td \notin Exiting /\ to \in SUBSET UserId
  BY PlansBasic, NotExiting, Tail1
<1>5. [NoJob EXCEPT !.req = r, !.todo = td, !.to = to, !.ask = to] \in JobState /\ JobFits(c)'
  <2>1. r.op # "login" /\ r.op # "reg" /\ UNCHANGED tables
    BY <1>1
  <2> HIDE DEF td, to
  <2> QED BY <1>1, <1>2, <1>4, <2>1, ServeFits
<1>6. requests' \in [Client -> Seq(Request)] /\ \A d \in Client : RequestsOK(d)'
  BY <1>1, <1>3, ReceiveRest
<1>7. answers' \in [Client -> Seq(Answer)] /\ \A d \in Client : AnswersOK(d)'
  BY <1>1, <1>3, AnswersKept DEF DataInv
<1>8. \A s \in Thread \ {c} : Undisturbed(s)
  BY <1>1, <1>3, SameUndisturbed
<1> QED BY <1>1, <1>3, <1>5, <1>6, <1>7, <1>8, AnsweringStep

LEMMA AnswerOne ==
    ASSUME DataInv, NEW c \in Client, NEW a \in Answer, answers' = [answers EXCEPT ![c] = Append(@, a)], Grow,
           AnswerFits(c, a, user', friend'), a.kind # "none"
    PROVE  answers' \in [Client -> Seq(Answer)] /\ \A d \in Client : AnswersOK(d)'
<1>1. answers \in [Client -> Seq(Answer)] /\ \A d \in Client : AnswersOK(d)
  BY DEF DataInv
<1>2. /\ answers' \in [Client -> Seq(Answer)] /\ answers'[c] = Append(answers[c], a)
      /\ \A d \in Client \ {c} : answers'[d] = answers[d]
  BY <1>1
<1>3. AnswersOK(c)'
  BY <1>1, <1>2, AnswersAppend
<1>4. \A d \in Client \ {c} : AnswersOK(d)'
  BY <1>1, <1>2, AnswersKept
<1> QED BY <1>2, <1>3, <1>4

LEMMA SameJob ==
    ASSUME DataInv, NEW t \in Thread, job' = job, Grow, \A s \in Thread : Undisturbed(s)
    PROVE  job[t] \in JobState /\ job' = [job EXCEPT ![t] = job[t]] /\ JobFits(t)'
  BY OtherFits DEF DataInv

LEMMA BeginChatData ==
    ASSUME DataInv, NEW c \in Client, BeginChat(c), UNCHANGED clientVars PROVE DataInv'
<1>0. PICK r : /\ r = Head(requests[c]) /\ Receive(c, {"chat"})
              /\ UNCHANGED <<userConnMap, session, loggedIn>>
              /\ \/ /\ userConnMap[r.arg] # None
                    /\ answers' = [answers EXCEPT ![userConnMap[r.arg]] = Append(@, Live(r.text))]
                    /\ job' = job
                 \/ /\ userConnMap[r.arg] = None
                    /\ Serve(c, <<"resolve", "insertOffline">>, {r.arg})
                    /\ answers' = answers
  BY BeginChatIs, Zenon
<1> DEFINE j == [NoJob EXCEPT !.req = r, !.todo = <<"resolve", "insertOffline">>, !.to = {r.arg}, !.ask = {r.arg}]
<1>1. /\ requests[c] # <<>> /\ r.op = "chat"
      /\ requests' = [requests EXCEPT ![c] = Tail(@)]
      /\ UNCHANGED <<poolVars, tables, userConnMap, session, loggedIn>>
  BY <1>0, Zenon DEF Receive
<1>9. \/ /\ userConnMap[r.arg] # None
         /\ answers' = [answers EXCEPT ![userConnMap[r.arg]] = Append(@, Live(r.text))]
         /\ UNCHANGED job
      \/ /\ job' = [job EXCEPT ![c] = j]
         /\ UNCHANGED answers
  BY <1>0, Zenon DEF Serve
<1>2. r \in Request /\ RequestFits(r, DOMAIN user)
  BY <1>0, <1>1, ReceiveIs, Zenon
<1>3. TablesOK' /\ Grow /\ insertId' = insertId
  BY <1>1, SameTables DEF DataInv, tables
<1>4. requests' \in [Client -> Seq(Request)] /\ \A d \in Client : RequestsOK(d)'
  BY <1>1, <1>3, ReceiveRest
<1>5. \A s \in Thread : Undisturbed(s)
  BY <1>1, <1>3, SameUndisturbed
<1>6. r.arg \in UserId /\ r.text \in Words
  BY <1>1, <1>2 DEF RequestFits, Request, Words
<1>7. CASE /\ userConnMap[r.arg] # None
           /\ answers' = [answers EXCEPT ![userConnMap[r.arg]] = Append(@, Live(r.text))]
           /\ UNCHANGED job
  <2>1. userConnMap[r.arg] \in Client
    BY <1>6, <1>7 DEF DataInv, TablesOK
  <2>2. answers' \in [Client -> Seq(Answer)] /\ \A d \in Client : AnswersOK(d)'
    <3> DEFINE live == Live(r.text)
               d == userConnMap[r.arg]
    <3>1. live \in Answer /\ AnswerFits(d, live, user', friend') /\ live.kind # "none"
      BY <1>6, LiveFits
    <3>2. answers' = [answers EXCEPT ![d] = Append(@, live)]
      BY <1>7
    <3> HIDE DEF live, d
    <3>3. d \in Client
      BY <2>1 DEF d
    <3> QED BY <1>3, <3>1, <3>2, <3>3, AnswerOne
  <2>3. job[c] \in JobState /\ job' = [job EXCEPT ![c] = job[c]] /\ JobFits(c)'
    BY <1>3, <1>5, <1>7, SameJob
  <2> QED BY <1>3, <1>4, <1>5, <2>2, <2>3, AnsweringStep
<1>8. CASE job' = [job EXCEPT ![c] = j] /\ UNCHANGED answers
  <2>1. PlanFits(r.op, <<"resolve", "insertOffline">>)
    BY <1>1 DEF PlanFits, Sending
  <2>2. <<"resolve", "insertOffline">> \notin Exiting /\ <<"resolve", "insertOffline">> # <<"addCreator">>
    BY NotExiting, Tail1, Tail2 DEF Sending
  <2>3. {r.arg} \in SUBSET UserId /\ r.op # "login" /\ r.op # "reg"
    BY <1>1, <1>6
  <2>5. j \in JobState /\ JobFits(c)'
    <3> DEFINE td == <<"resolve", "insertOffline">>
               to == {r.arg}
    <3>1. /\ r \in Request /\ RequestFits(r, DOMAIN user) /\ PlanFits(r.op, td) /\ to \in SUBSET UserId
          /\ r.op # "login" /\ r.op # "reg" /\ td \notin Exiting /\ td # <<"addCreator">>
          /\ job' = [job EXCEPT ![c] = [NoJob EXCEPT !.req = r, !.todo = td, !.to = to, !.ask = to]] /\ UNCHANGED tables
      BY <1>1, <1>2, <1>8, <2>1, <2>2, <2>3
    <3> HIDE DEF td, to
    <3>2. [NoJob EXCEPT !.req = r, !.todo = td, !.to = to, !.ask = to] \in JobState /\ JobFits(c)'
      BY <3>1, ServeFits
    <3> QED BY <3>2 DEF td, to
  <2>4. answers' \in [Client -> Seq(Answer)] /\ \A d \in Client : AnswersOK(d)'
    BY <1>3, <1>8, AnswersKept DEF DataInv
  <2> QED BY <1>3, <1>4, <1>5, <1>8, <2>4, <2>5, AnsweringStep
<1> QED BY <1>7, <1>8, <1>9

(* What a handler does without MySQL leaves tables, answers and clients alone *)
LEMMA GoesOnData ==
    ASSUME DataInv, NEW c \in Client, NEW f \in Unpooled, Next1(c, f), NEW j \in JobState, job' = [job EXCEPT ![c] = j],
           j.req = job[c].req, j.got = job[c].got, TablesOK', UNCHANGED <<poolVars, tables, wire>>, UNCHANGED clientVars,
           \/ Op(c) = "login" /\ LoginFits(j) /\ PlanFits("login", j.todo) /\ AnswerFits(c, j.ans, user, friend)
           \/ /\ Op(c) \notin Token /\ j.ans = job[c].ans /\ PlanFits(Op(c), j.todo) /\ j.todo # <<"addCreator">>
              /\ j.todo \notin Exiting \/ (Todo(c) \in Exiting /\ j.to = job[c].to)
    PROVE  DataInv'
<1>1. Todo(c) # <<>> /\ Head(Todo(c)) \in Unpooled
  BY DEF Next1
<1>2. Grow /\ insertId' = insertId /\ user' = user /\ friend' = friend
  BY DEF Grow, tables
<1>3. RequestFits(job[c].req, DOMAIN user)
  BY <1>1, RunnerIs, NotNoJob
<1>4. j.got = "no"
  <2>1. Todo(c) \notin {<<"insertUser">>, <<"createGroup">>}
    BY <1>1, Tail1 DEF Unpooled
  <2> QED BY <2>1 DEF DataInv, JobFits, JobState
<1>5. JobFits(c)'
  <2>1. CASE Op(c) = "login" /\ LoginFits(j) /\ PlanFits("login", j.todo) /\ AnswerFits(c, j.ans, user, friend)
    BY <1>1, <1>2, <1>4, <2>1, LoginStep
  <2>2. CASE /\ Op(c) \notin Token /\ j.ans = job[c].ans /\ PlanFits(Op(c), j.todo) /\ j.todo # <<"addCreator">>
             /\ j.todo \notin Exiting \/ (Todo(c) \in Exiting /\ j.to = job[c].to)
    BY <1>1, <1>2, <1>3, <1>4, <2>2, PlainStep DEF Op
  <2> QED BY <2>1, <2>2
<1>6. \A s \in Thread \ {c} : Undisturbed(s)
  BY <1>2, SameUndisturbed
<1> QED BY <1>2, <1>5, <1>6, QuietStep

(* Where a login is that does one of these *)
LEMMA LoggerIs ==
    ASSUME DataInv, NEW c \in Client, NEW f \in {"check", "addConn", "bindUser", "removeConn"}, Next1(c, f)
    PROVE  /\ job[c] \in JobState /\ Op(c) = "login" /\ LoginFits(job[c]) /\ Asker(c) \in 0..MaxUser
           /\ AnswerFits(c, job[c].ans, user, friend)
           /\ Todo(c) \in {<<"check">>, <<"addConn", "bindUser">>, <<"bindUser">>, <<"removeConn">>}
           /\ f = "check" => Todo(c) = <<"check">>
           /\ f = "addConn" => Todo(c) = <<"addConn", "bindUser">> /\ Tail(Todo(c)) = <<"bindUser">>
           /\ f = "bindUser" => Todo(c) = <<"bindUser">>
           /\ f = "removeConn" => Todo(c) = <<"removeConn">>
           /\ f # "check" => job[c].ans.kind = "login" /\ job[c].ans.id = Asker(c) /\ Asker(c) \in UserId
<1>1. Todo(c) # <<>> /\ Head(Todo(c)) = f
  BY DEF Next1
<1>2. /\ job[c] \in JobState /\ PlanFits(Op(c), Todo(c)) /\ Asker(c) \in 0..MaxUser
      /\ AnswerFits(c, job[c].ans, user, friend)
      /\ Op(c) = "login" => LoginFits(job[c])
  BY <1>1, RunnerIs, NotNoJob
<1>3. /\ Op(c) = "login"
      /\ f = "check" => Todo(c) = <<"check">>
      /\ f = "addConn" => Todo(c) = <<"addConn", "bindUser">> /\ Tail(Todo(c)) = <<"bindUser">>
      /\ f = "bindUser" => Todo(c) = <<"bindUser">>
      /\ f = "removeConn" => Todo(c) = <<"removeConn">>
  BY <1>1, <1>2, NextPlan
<1>4. f # "check" => Todo(c) \in PreBind /\ Todo(c) \notin Looking
  BY <1>3, PlanStages
<1>5. f # "check" => job[c].ans.kind = "login" /\ job[c].ans.id = Asker(c) /\ Asker(c) \in UserId
  BY <1>2, <1>3, <1>4 DEF LoginFits, Todo, Asker
<1> QED BY <1>2, <1>3, <1>5

(* The answer to a login *)
LEMMA LoginIs ==
    ASSUME NEW c \in Client, NEW e \in 0..3, Asker(c) \in 0..MaxUser, e = 0 => Asker(c) \in UserId
    PROVE  /\ Login(c, e) \in Answer /\ Login(c, e).kind = "login" /\ Login(c, e).id = Asker(c)
           /\ Login(c, e).errno = e /\ AnswerFits(c, Login(c, e), user, friend)
<1>1. NoAnswer \in Answer /\ NoAnswer.friends = {}
  BY NoAnswerFits DEF NoAnswer
<1>2. /\ Login(c, e) \in Answer /\ Login(c, e).kind = "login" /\ Login(c, e).id = Asker(c)
      /\ Login(c, e).errno = e /\ Login(c, e).friends = {}
  BY <1>1 DEF Login, Answer
<1> QED BY <1>2 DEF AnswerFits, OneUsers

LEMMA CheckData ==
    ASSUME DataInv, NEW c \in Client, Check(c), UNCHANGED clientVars PROVE DataInv'
<1> DEFINE errno == IF Asker(c) = 0 THEN 1 ELSE IF Asker(c) \in session THEN 2 ELSE 0
           td == IF errno # 0 THEN <<>>
                 ELSE IF job[c].state = "online" THEN <<"setOffline", "addConn", "bindUser">>
                 ELSE <<"addConn", "bindUser">>
           j == [job[c] EXCEPT !.ans = Login(c, errno), !.todo = td]
<1>1. /\ Next1(c, "check") /\ UNCHANGED <<poolVars, tables, userConnMap, session, loggedIn, wire>>
      /\ job' = [job EXCEPT ![c].ans = Login(c, errno), ![c].todo = td]
  BY DEF Check
<1>2. /\ job[c] \in JobState /\ Op(c) = "login" /\ LoginFits(job[c]) /\ Asker(c) \in 0..MaxUser
  BY <1>1, LoggerIs
<1>3. job' = [job EXCEPT ![c] = j]
  BY <1>1, <1>2 DEF DataInv, JobState
<1>4. TablesOK'
  BY <1>1, SameTables DEF DataInv, tables
<1>5. errno \in 0..3 /\ (errno = 0 => Asker(c) \in UserId)
  BY <1>2 DEF UserId
<1>6. td \in PreBind \union {<<>>} /\ (td \in PreBind => errno = 0)
  BY PlanStages
<1> HIDE DEF td, errno
<1>7. PlanFits("login", td) /\ td \in Plans /\ td \notin Looking \union PostBind
  BY <1>6, PlanStages, PlansBasic DEF PlanFits
<1>8. /\ Login(c, errno) \in Answer /\ Login(c, errno).kind = "login" /\ Login(c, errno).id = Asker(c)
      /\ Login(c, errno).errno = errno /\ AnswerFits(c, Login(c, errno), user, friend)
  BY <1>2, <1>5, LoginIs
<1>9. /\ j \in JobState /\ j.req = job[c].req /\ j.ans = Login(c, errno) /\ j.todo = td /\ j.to = job[c].to
      /\ j.got = job[c].got
  BY <1>2, <1>7, <1>8 DEF JobState
<1> HIDE DEF j
<1>10. LoginFits(j)
  BY <1>2, <1>5, <1>6, <1>7, <1>8, <1>9 DEF LoginFits, Asker
<1> QED BY <1>1, <1>2, <1>3, <1>4, <1>7, <1>8, <1>9, <1>10, GoesOnData DEF Unpooled

LEMMA AddConnData ==
    ASSUME DataInv, NEW c \in Client, AddConn(c), UNCHANGED clientVars PROVE DataInv'
<1> DEFINE j == [job[c] EXCEPT !.todo = Tail(@)]
<1>1. /\ Next1(c, "addConn") /\ UNCHANGED <<poolVars, tables, session, loggedIn, wire>>
      /\ userConnMap' = [userConnMap EXCEPT ![Asker(c)] = c] /\ job' = [job EXCEPT ![c].todo = Tail(@)]
  BY DEF AddConn
<1>2. /\ job[c] \in JobState /\ Op(c) = "login" /\ LoginFits(job[c]) /\ AnswerFits(c, job[c].ans, user, friend)
      /\ Todo(c) = <<"addConn", "bindUser">> /\ Tail(Todo(c)) = <<"bindUser">>
  BY <1>1, LoggerIs
<1>3. job' = [job EXCEPT ![c] = j]
  BY <1>1, <1>2 DEF DataInv, JobState
<1>4. TablesOK'
  <2>1. userConnMap' \in [UserId -> Client \union {None}]
    BY <1>1 DEF DataInv, TablesOK
  <2> QED BY <1>1, <2>1, SessionTables DEF DataInv, TablesOK
<1>5. PlanFits("login", <<"bindUser">>) /\ <<"bindUser">> \in Plans
  BY PlanStages, PlansBasic DEF PlanFits
<1>6. /\ j \in JobState /\ j.req = job[c].req /\ j.ans = job[c].ans /\ j.todo = <<"bindUser">> /\ j.to = job[c].to
      /\ j.got = job[c].got
  BY <1>2, <1>5 DEF JobState, Todo
<1> HIDE DEF j
<1>7. LoginFits(j)
  BY <1>2, <1>6, PlanStages DEF LoginFits, Todo
<1> QED BY <1>1, <1>2, <1>3, <1>4, <1>5, <1>6, <1>7, GoesOnData DEF Unpooled

LEMMA BindUserData ==
    ASSUME DataInv, NEW c \in Client, BindUser(c) \/ BindRefused(c), UNCHANGED clientVars PROVE DataInv'
<1>1. PICK td \in {<<"setOnline", "queryOffline", "queryFriends", "queryGroups">>, <<"removeConn">>} :
         /\ Next1(c, "bindUser") /\ UNCHANGED <<poolVars, tables, userConnMap, wire>>
         /\ job' = [job EXCEPT ![c].todo = td]
         /\ session' \in {session, session \union {Asker(c)}}
         /\ loggedIn' \in {loggedIn, [loggedIn EXCEPT ![c] = Asker(c)]}
  BY DEF BindUser, BindRefused
<1> DEFINE j == [job[c] EXCEPT !.todo = td]
<1>2. /\ job[c] \in JobState /\ Op(c) = "login" /\ LoginFits(job[c]) /\ AnswerFits(c, job[c].ans, user, friend)
      /\ Todo(c) = <<"bindUser">> /\ Asker(c) \in UserId
  BY <1>1, LoggerIs
<1>3. job' = [job EXCEPT ![c] = j]
  BY <1>1, <1>2 DEF DataInv, JobState
<1>4. TablesOK'
  <2>1. session' \subseteq UserId /\ Asker(c) \in 0..MaxUser
    BY <1>1, <1>2 DEF DataInv, TablesOK, UserId
  <2>2. loggedIn' \in [Client -> 0..MaxUser]
    BY <1>1, <2>1 DEF DataInv, TablesOK
  <2> QED BY <1>1, <2>1, <2>2, SessionTables DEF DataInv, TablesOK
<1>5. PlanFits("login", td) /\ td \in Plans /\ td \in PreBind \union PostBind
  BY <1>1, PlanStages, PlansBasic DEF PlanFits
<1>6. /\ j \in JobState /\ j.req = job[c].req /\ j.ans = job[c].ans /\ j.todo = td /\ j.to = job[c].to
      /\ j.got = job[c].got
  BY <1>2, <1>5 DEF JobState
<1> HIDE DEF j
<1>7. LoginFits(j)
  BY <1>2, <1>5, <1>6, PlanStages DEF LoginFits, Todo
<1> QED BY <1>1, <1>2, <1>3, <1>4, <1>5, <1>6, <1>7, GoesOnData DEF Unpooled

LEMMA LoginUndoData ==
    ASSUME DataInv, NEW c \in Client, LoginUndo(c), UNCHANGED clientVars PROVE DataInv'
<1> DEFINE j == [job[c] EXCEPT !.ans = Login(c, 3), !.todo = <<>>]
<1>1. /\ Next1(c, "removeConn") /\ UNCHANGED <<poolVars, tables, session, loggedIn, wire>>
      /\ userConnMap' = [userConnMap EXCEPT ![Asker(c)] = None]
      /\ job' = [job EXCEPT ![c].ans = Login(c, 3), ![c].todo = <<>>]
  BY DEF LoginUndo
<1>2. /\ job[c] \in JobState /\ Op(c) = "login" /\ LoginFits(job[c]) /\ Asker(c) \in 0..MaxUser
  BY <1>1, LoggerIs
<1>3. job' = [job EXCEPT ![c] = j]
  BY <1>1, <1>2 DEF DataInv, JobState
<1>4. TablesOK'
  <2>1. userConnMap' \in [UserId -> Client \union {None}]
    BY <1>1 DEF DataInv, TablesOK
  <2> QED BY <1>1, <2>1, SessionTables DEF DataInv, TablesOK
<1>5. /\ Login(c, 3) \in Answer /\ Login(c, 3).kind = "login" /\ Login(c, 3).id = Asker(c)
      /\ AnswerFits(c, Login(c, 3), user, friend)
  BY <1>2, LoginIs
<1>6. /\ j \in JobState /\ j.req = job[c].req /\ j.ans = Login(c, 3) /\ j.todo = <<>> /\ j.to = job[c].to
      /\ j.got = job[c].got
  BY <1>2, <1>5, PlansBasic DEF JobState
<1> HIDE DEF j
<1>7. LoginFits(j)
  BY <1>2, <1>5, <1>6, PlanStages DEF LoginFits, Asker
<1>8. "removeConn" \in Unpooled /\ PlanFits("login", j.todo)
  BY <1>6, PlansBasic DEF Unpooled, PlanFits
<1> QED BY <1>1, <1>2, <1>3, <1>4, <1>5, <1>6, <1>7, <1>8, GoesOnData

(* Resolve and UnbindUser, with the job they leave *)
Resolved(c) ==
    \E f \in {"resolve", "unbindUser"}, j \in JobState :
        /\ Next1(c, f) /\ job' = [job EXCEPT ![c] = j] /\ job[c] \in JobState
        /\ j.req = job[c].req /\ j.got = job[c].got /\ j.to = job[c].to /\ j.ans = job[c].ans
        /\ \/ /\ Op(c) \in {"chat", "groupChat"} /\ Todo(c) \in Sending /\ j.todo \in Sending
           \/ /\ Op(c) \in {"logout", "close"} /\ Todo(c) \in Exiting /\ j.todo = <<"setOffline">>
        /\ session' \subseteq session
        /\ UNCHANGED <<poolVars, tables, userConnMap, loggedIn, wire>>

LEMMA ResolveIs ==
    ASSUME DataInv, NEW c \in Client, Resolve(c) \/ UnbindUser(c)
    PROVE  Resolved(c)
<1>1. CASE Resolve(c)
  <2>1. Next1(c, "resolve") /\ UNCHANGED <<poolVars, tables, userConnMap, session, loggedIn, wire>>
    BY <1>1, Zenon DEF Resolve
  <2>2. Todo(c) # <<>> /\ Head(Todo(c)) = "resolve"
    BY <2>1 DEF Next1
  <2>3. job[c] \in JobState /\ PlanFits(Op(c), Todo(c))
    BY <2>2, RunnerIs, NotNoJob
  <2>4. /\ Op(c) \in {"chat", "groupChat"} /\ Todo(c) = <<"resolve", "insertOffline">>
        /\ Tail(Todo(c)) = <<"insertOffline">>
    BY <2>2, <2>3, NextPlan
  <2>5. <<"unbindUser">> \o Todo(c) = <<"unbindUser", "resolve", "insertOffline">>
    BY <2>4, Prefixed
  <2>6. Sending \subseteq Plans
    BY DEF Plans
  <2>7. CASE job' = [job EXCEPT ![c].todo = Tail(@)]
    <3> DEFINE j == [job[c] EXCEPT !.todo = Tail(@)]
    <3>1. j \in JobState /\ j.todo = <<"insertOffline">>
      BY <2>3, <2>4, <2>6 DEF JobState, Todo, Sending
    <3>2. /\ job' = [job EXCEPT ![c] = j] /\ j.req = job[c].req /\ j.got = job[c].got /\ j.to = job[c].to
          /\ j.ans = job[c].ans
      BY <2>3, <2>7 DEF DataInv, JobState
    <3> HIDE DEF j
    <3>3. Todo(c) \in Sending /\ j.todo \in Sending
      BY <2>4, <3>1 DEF Sending
    <3> QED BY <2>1, <2>3, <2>4, <3>1, <3>2, <3>3 DEF Resolved
  <2>8. CASE job' = [job EXCEPT ![c].todo = <<"unbindUser">> \o @]
    <3> DEFINE j == [job[c] EXCEPT !.todo = <<"unbindUser">> \o @]
    <3>1. j.todo = <<"unbindUser", "resolve", "insertOffline">> /\ j.todo \in Sending
      BY <2>3, <2>5 DEF JobState, Todo, Sending
    <3>2. /\ job' = [job EXCEPT ![c] = j] /\ j.req = job[c].req /\ j.got = job[c].got /\ j.to = job[c].to
          /\ j.ans = job[c].ans /\ j.ask = job[c].ask /\ j.state = job[c].state
      BY <2>3, <2>8 DEF DataInv, JobState
    <3>3. j \in JobState
      <4>1. j.todo \in Plans
        BY <2>6, <3>1
      <4> QED BY <2>3, <4>1 DEF JobState
    <3> HIDE DEF j
    <3>4. Todo(c) \in Sending
      BY <2>4 DEF Sending
    <3> QED BY <2>1, <2>3, <2>4, <3>1, <3>2, <3>3, <3>4 DEF Resolved
  <2>9. ASSUME NEW u, job' = [job EXCEPT ![c].ask = @ \ {u}]
        PROVE Resolved(c)
    <3> DEFINE j == [job[c] EXCEPT !.ask = @ \ {u}]
    <3>1. j \in JobState /\ j.todo = Todo(c)
      BY <2>3 DEF JobState, Todo
    <3>2. /\ job' = [job EXCEPT ![c] = j] /\ j.req = job[c].req /\ j.got = job[c].got /\ j.to = job[c].to
          /\ j.ans = job[c].ans
      BY <2>3, <2>9 DEF DataInv, JobState
    <3> HIDE DEF j
    <3>3. Todo(c) \in Sending /\ j.todo \in Sending
      BY <2>4, <3>1 DEF Sending
    <3> QED BY <2>1, <2>3, <2>4, <3>1, <3>2, <3>3 DEF Resolved
  <2>10. \/ job' = [job EXCEPT ![c].todo = Tail(@)]
         \/ job' = [job EXCEPT ![c].todo = <<"unbindUser">> \o @]
         \/ \E u : job' = [job EXCEPT ![c].ask = @ \ {u}]
    BY <1>1, Zenon DEF Resolve
  <2> QED BY <2>7, <2>8, <2>9, <2>10
<1>2. CASE UnbindUser(c)
  <2>1. /\ Next1(c, "unbindUser") /\ UNCHANGED <<poolVars, tables, userConnMap, loggedIn, wire>>
    BY <1>2, Zenon DEF UnbindUser
  <2>2. PICK u : session' = session \ {u} /\ job' = [job EXCEPT ![c].ask = @ \ {u}, ![c].todo = Tail(@)]
    BY <1>2, Zenon DEF UnbindUser
  <2>3. Todo(c) # <<>> /\ Head(Todo(c)) = "unbindUser"
    BY <2>1 DEF Next1
  <2>4. job[c] \in JobState /\ PlanFits(Op(c), Todo(c))
    BY <2>3, RunnerIs, NotNoJob
  <2>5. \/ /\ Op(c) \in {"chat", "groupChat"} /\ Todo(c) = <<"unbindUser", "resolve", "insertOffline">>
           /\ Tail(Todo(c)) = <<"resolve", "insertOffline">>
        \/ /\ Op(c) \in {"logout", "close"} /\ Todo(c) = <<"unbindUser", "setOffline">>
           /\ Tail(Todo(c)) = <<"setOffline">>
    BY <2>3, <2>4, NextPlan
  <2> DEFINE j == [job[c] EXCEPT !.ask = @ \ {u}, !.todo = Tail(@)]
  <2>6. Tail(Todo(c)) \in Plans
    BY <2>5 DEF Plans, Sending, Exiting
  <2>7. j \in JobState /\ j.todo = Tail(Todo(c))
    BY <2>4, <2>6 DEF JobState, Todo
  <2>8. /\ job' = [job EXCEPT ![c] = j] /\ j.req = job[c].req /\ j.got = job[c].got /\ j.to = job[c].to
        /\ j.ans = job[c].ans
    BY <2>2, <2>4 DEF DataInv, JobState
  <2> HIDE DEF j
  <2>9. \/ /\ Op(c) \in {"chat", "groupChat"} /\ Todo(c) \in Sending /\ j.todo \in Sending
        \/ /\ Op(c) \in {"logout", "close"} /\ Todo(c) \in Exiting /\ j.todo = <<"setOffline">>
    BY <2>5, <2>7 DEF Sending, Exiting
  <2>10. session' \subseteq session
    BY <2>2
  <2> QED BY <2>1, <2>4, <2>7, <2>8, <2>9, <2>10 DEF Resolved
<1> QED BY <1>1, <1>2

LEMMA ResolveData ==
    ASSUME DataInv, NEW c \in Client, Resolve(c) \/ UnbindUser(c), UNCHANGED clientVars PROVE DataInv'
<1>1. PICK f \in {"resolve", "unbindUser"}, j \in JobState :
         /\ Next1(c, f) /\ job' = [job EXCEPT ![c] = j]
         /\ j.req = job[c].req /\ j.got = job[c].got /\ j.to = job[c].to /\ j.ans = job[c].ans
         /\ \/ /\ Op(c) \in {"chat", "groupChat"} /\ j.todo \in Sending
            \/ /\ Op(c) \in {"logout", "close"} /\ Todo(c) \in Exiting /\ j.todo = <<"setOffline">>
         /\ session' \subseteq session
         /\ UNCHANGED <<poolVars, tables, userConnMap, loggedIn, wire>>
  BY ResolveIs DEF Resolved
<1>2. TablesOK'
  BY <1>1, SessionTables DEF DataInv, TablesOK
<1>3. /\ Op(c) \notin Token /\ PlanFits(Op(c), j.todo) /\ j.todo # <<"addCreator">>
      /\ j.todo \notin Exiting \/ (Todo(c) \in Exiting /\ j.to = job[c].to)
  <2>1. CASE Op(c) \in {"chat", "groupChat"} /\ j.todo \in Sending
    <3>1. <<"addCreator">> \notin Sending
      BY Tail1, Tail2, Tail3 DEF Sending
    <3> QED BY <2>1, <3>1, NotExiting DEF PlanFits, Token
  <2>2. CASE Op(c) \in {"logout", "close"} /\ Todo(c) \in Exiting /\ j.todo = <<"setOffline">>
    <3>1. <<"setOffline">> # <<"addCreator">>
      BY Tail1
    <3> QED BY <1>1, <2>2, <3>1 DEF PlanFits, Exiting, Token
  <2> QED BY <1>1, <2>1, <2>2
<1> QED BY <1>1, <1>2, <1>3, GoesOnData DEF Unpooled

LEMMA GoesData ==
    ASSUME DataInv, NEW c \in Client, Goes(c), UNCHANGED clientVars PROVE DataInv'
  BY CheckData, AddConnData, BindUserData, LoginUndoData, ResolveData DEF Goes

LEMMA NoJobFits ==
    NoJob \in JobState /\ \A c, us, fr : AnswerFits(c, NoJob.ans, us, fr) /\ RequestFits(NoJob.req, DOMAIN us)
<1>1. NoRequest \in AnyRequest /\ <<>> \in Plans /\ NoRequest.op = "none"
  BY PlansBasic DEF NoRequest, AnyRequest, Words
<1>2. NoJob.req = NoRequest /\ NoJob.ans = NoAnswer
  BY DEF NoJob
<1>3. NoJob \in JobState
  BY <1>1, NoAnswerFits DEF NoJob, JobState
<1>4. \A ids : RequestFits(NoRequest, ids)
  BY <1>1 DEF RequestFits, Commands
<1> QED BY <1>2, <1>3, <1>4, NoAnswerFits

LEMMA ReplyData ==
    ASSUME DataInv, NEW c \in Client, Reply(c), UNCHANGED clientVars PROVE DataInv'
<1>1. /\ job' = [job EXCEPT ![c] = NoJob] /\ UNCHANGED <<poolVars, tables, userConnMap, session, loggedIn, requests>>
      /\ \/ /\ job[c].ans.kind \in {"reg", "login"}
            /\ answers' = [answers EXCEPT ![c] = Append(@, job[c].ans)]
         \/ answers' = answers
  BY DEF Reply
<1>2. TablesOK' /\ Grow /\ insertId' = insertId /\ user' = user /\ friend' = friend /\ group' = group
  BY <1>1, SameTables DEF DataInv, tables
<1>3. JobFits(c)'
  <2>1. job'[c] = NoJob
    BY <1>1 DEF DataInv
  <2>2. Op(c)' = "none" /\ Todo(c)' = <<>> /\ NoJob.got = "no" /\ NoJob.ans.kind = "none"
    BY <2>1 DEF Op, Todo, NoJob, NoRequest, NoAnswer
  <2>3. <<>> \notin Exiting /\ <<>> # <<"addCreator">>
    BY NotExiting, Tail1
  <2> QED BY <2>1, <2>2, <2>3, NoJobFits, PlansBasic DEF JobFits
<1>4. answers' \in [Client -> Seq(Answer)] /\ \A d \in Client : AnswersOK(d)'
  <2>1. CASE /\ job[c].ans.kind \in {"reg", "login"}
             /\ answers' = [answers EXCEPT ![c] = Append(@, job[c].ans)]
    <3>1. AnswerFits(c, job[c].ans, user', friend') /\ job[c].ans \in Answer
      BY <1>2 DEF DataInv, JobFits, JobState
    <3> QED BY <1>2, <2>1, <3>1, AnswerOne
  <2>2. CASE answers' = answers
    BY <1>2, <2>2, AnswersKept DEF DataInv
  <2> QED BY <1>1, <2>1, <2>2
<1>5. requests' \in [Client -> Seq(Request)] /\ \A d \in Client : RequestsOK(d)'
  BY <1>1, <1>2, RequestsKept DEF DataInv
<1>6. \A s \in Thread : Undisturbed(s)
  BY <1>1, <1>2, SameUndisturbed
<1> QED BY <1>1, <1>2, <1>3, <1>4, <1>5, <1>6, NoJobFits, AnsweringStep

LEMMA PoolData ==
    ASSUME PoolInv, DataInv, NEW t \in Thread, Borrow(t) \/ Rewoken(t), UNCHANGED clientVars PROVE DataInv'
<1>1. UNCHANGED <<tables, userConnMap, session, loggedIn, wire, job>> /\ (GetConnection(t) \/ Recheck(t) \/ Spurious(t))
  BY DEF Borrow, Rewoken
<1>2. TablesOK' /\ Grow /\ insertId' = insertId
  BY <1>1, SameTables DEF DataInv, tables
<1>3. \A s \in Thread : pc[s] = "borrowed" => held'[s] = held[s] /\ pc'[s] = "borrowed"
  BY <1>1 DEF GetConnection, Recheck, Spurious, Take, Sleep, Goto, PoolInv
<1>4. \A s \in Thread : JobFits(s)'
  <2> SUFFICES ASSUME NEW s \in Thread PROVE JobFits(s)'
    OBVIOUS
  <2>1. JobFits(s)
    BY DEF DataInv
  <2> QED BY <1>1, <1>2, <1>3, <2>1 DEF JobFits, Op, Todo, Asker, LoginFits, tables
<1>5. \A c \in Client : AnswersOK(c)' /\ RequestsOK(c)' /\ ListsOK(c)'
  BY <1>1, <1>2, AnswersKept, RequestsKept, ListsKept1 DEF DataInv, wire, clientVars
<1> QED BY <1>1, <1>2, <1>4, <1>5 DEF DataInv, wire, clientVars

LEMMA ServerData ==
    ASSUME PoolInv, DataInv, AccountsNext, UNCHANGED clientVars PROVE DataInv'
<1>1. ASSUME NEW t \in Thread, ThreadStep(t) \/ Rewoken(t) PROVE DataInv'
  <2>1. CASE Borrow(t) \/ Rewoken(t)
    BY <2>1, PoolData
  <2>2. CASE Statement(t)
    BY <2>2, StatementData
  <2>3. CASE t \in Client /\ ClientStep(t)
    BY <2>3, BeginData, BeginLeaveData, BeginLeaveUnknownData, BeginChatData, GoesData, ReplyData
       DEF ClientStep, Goes
  <2> QED BY <1>1, <2>1, <2>2, <2>3 DEF ThreadStep
<1> QED BY <1>1 DEF AccountsNext

-----------------------------------------------------------------------------
(* The client's two threads *)
ThreadsOK ==
    /\ main   \in [Client -> {"prompt", "waitLogin", "waitReg", "menu", "gone"}]
    /\ reader \in [Client -> {"recv", "post"}] /\ sem \in [Client -> Nat]
    /\ isLoginSuccess \in [Client -> BOOLEAN]

LEMMA ThreadsStep == ASSUME ThreadsOK, [Next]_vars PROVE ThreadsOK'
<1>1. CASE UNCHANGED <<main, reader, sem, isLoginSuccess>>
  BY <1>1 DEF ThreadsOK
<1>2. ASSUME NEW c \in Client, UserStep(c) PROVE ThreadsOK'
  BY <1>2 DEF ThreadsOK, UserStep, AskLogin, AskReg, AddFriend, CreateGroup, AddGroup, Chat, GroupChat,
              Logout, Quit, Command, GoTo
<1>3. ASSUME NEW c \in Client, Wake(c) PROVE ThreadsOK'
  BY <1>3 DEF ThreadsOK, Wake, GoTo
<1>4. ASSUME NEW c \in Client, ReaderStep(c) PROVE ThreadsOK'
  <2>1. CASE ReadLive(c) \/ ReadReg(c)
    BY <2>1 DEF ThreadsOK, ReadLive, ReadReg, ThenPost, clientVars
  <2>2. CASE ReadLoginRefused(c)
    BY <2>2 DEF ThreadsOK, ReadLoginRefused, ThenPost
  <2>3. CASE ReadLogin(c)
    <3>1. /\ main' = main /\ sem' = sem /\ isLoginSuccess' = [isLoginSuccess EXCEPT ![c] = TRUE]
          /\ reader' = reader \/ reader' = [reader EXCEPT ![c] = "post"]
      BY <2>3 DEF ReadLogin, ThenPost
    <3> QED BY <3>1 DEF ThreadsOK
  <2>4. CASE Post(c)
    BY <2>4 DEF ThreadsOK, Post
  <2> QED BY <1>4, <2>1, <2>2, <2>3, <2>4 DEF ReaderStep
<1> QED BY <1>1, <1>2, <1>3, <1>4 DEF Next, vars, clientVars

CurrentOK(c) == main[c] = "menu" \/ isLoginSuccess[c] => currentUser[c] \in UserId

LEMMA OtherThreads ==
    ASSUME DataInv, ServerUnchanged
    PROVE  TablesOK' /\ Grow /\ job' \in [Thread -> JobState] /\ \A t \in Thread : JobFits(t)'
<1>1. UNCHANGED <<poolVars, tables, userConnMap, session, loggedIn, job>>
  BY DEF ServerUnchanged
<1>2. TablesOK' /\ Grow
  BY <1>1, SameTables DEF DataInv
<1>3. \A s \in Thread : Undisturbed(s)
  BY <1>1, SameUndisturbed DEF tables
<1> QED BY <1>1, <1>2, <1>3, OtherFits DEF DataInv

LEMMA SendData ==
    ASSUME DataInv, NEW c \in Client, ServerUnchanged, UNCHANGED <<currentUser, friendList, groupList, answers>>,
           NEW op, NEW id \in 0..MaxUser, NEW arg \in 0..MaxUser \union GroupId, NEW text \in Words,
           Give(c, op, id, arg, text), [op |-> op, id |-> id, arg |-> arg, text |-> text] \in Request,
           RequestFits([op |-> op, id |-> id, arg |-> arg, text |-> text], DOMAIN user),
           \A d \in Client : CurrentOK(d)'
    PROVE  DataInv'
<1> DEFINE r == [op |-> op, id |-> id, arg |-> arg, text |-> text]
<1>1. TablesOK' /\ Grow /\ job' \in [Thread -> JobState] /\ \A t \in Thread : JobFits(t)'
  BY OtherThreads
<1>2. requests' = [requests EXCEPT ![c] = Append(@, r)] /\ r \in Request /\ RequestFits(r, DOMAIN user)
  BY DEF Give
<1> HIDE DEF r
<1>3. requests' \in [Client -> Seq(Request)] /\ \A d \in Client : RequestsOK(d)'
  <2>1. requests \in [Client -> Seq(Request)] /\ \A d \in Client : RequestsOK(d)
    BY DEF DataInv
  <2>2. /\ requests' \in [Client -> Seq(Request)] /\ requests'[c] = Append(requests[c], r)
        /\ \A d \in Client \ {c} : requests'[d] = requests[d]
    BY <1>2, <2>1
  <2>3. RequestFits(r, DOMAIN user')
    BY <1>1, <1>2, RequestMore DEF Grow
  <2>4. RequestsOK(c)'
    BY <1>1, <1>2, <2>1, <2>2, <2>3, RequestsAppend
  <2>5. \A d \in Client \ {c} : RequestsOK(d)'
    BY <1>1, <2>1, <2>2, RequestsKept
  <2> QED BY <2>2, <2>4, <2>5
<1>4. \A d \in Client : AnswersOK(d)' /\ ListsOK(d)'
  BY <1>1, AnswersKept, ListsKept1 DEF DataInv
<1> QED BY <1>1, <1>3, <1>4 DEF DataInv, CurrentOK

LEMMA ReadData ==
    ASSUME DataInv, NEW c \in Client, NEW kind, Reading(c, kind), currentUser' \in [Client -> 0..MaxUser],
           \A d \in Client : CurrentOK(d)' /\ ListsOK(d)'
    PROVE  DataInv'
<1>1. /\ answers[c] # <<>> /\ answers' = [answers EXCEPT ![c] = Tail(@)] /\ UNCHANGED requests
      /\ ServerUnchanged
  BY DEF Reading
<1>2. TablesOK' /\ Grow /\ job' \in [Thread -> JobState] /\ \A t \in Thread : JobFits(t)'
  BY <1>1, OtherThreads
<1>3. answers' \in [Client -> Seq(Answer)] /\ \A d \in Client : AnswersOK(d)'
  <2>1. answers \in [Client -> Seq(Answer)] /\ \A d \in Client : AnswersOK(d)
    BY DEF DataInv
  <2>2. /\ answers' \in [Client -> Seq(Answer)] /\ answers'[c] = Tail(answers[c])
        /\ \A d \in Client \ {c} : answers'[d] = answers[d]
    BY <1>1, <2>1
  <2>3. AnswersOK(c)'
    BY <1>1, <1>2, <2>1, <2>2, AnswersTail
  <2>4. \A d \in Client \ {c} : AnswersOK(d)'
    BY <1>2, <2>1, <2>2, AnswersKept
  <2> QED BY <2>2, <2>3, <2>4
<1>4. requests' \in [Client -> Seq(Request)] /\ \A d \in Client : RequestsOK(d)'
  BY <1>1, <1>2, RequestsKept DEF DataInv
<1> QED BY <1>2, <1>3, <1>4 DEF DataInv, CurrentOK

LEMMA CommandData ==
    ASSUME ThreadsOK, DataInv, NEW c \in Client,
           NEW op \in {"addFriend", "createGroup", "addGroup", "chat", "groupChat", "logout"},
           NEW arg \in 0..MaxUser \union GroupId, NEW text \in Words, Command(c, op, arg, text),
           op \in {"chat", "addFriend"} => arg \in UserId, main' = main \/ GoTo(c, "prompt")
    PROVE  DataInv'
<1> DEFINE id == currentUser[c]
           r == [op |-> op, id |-> id, arg |-> arg, text |-> text]
<1>1. /\ main[c] = "menu" /\ Give(c, op, id, arg, text) /\ ServerUnchanged
      /\ UNCHANGED <<isLoginSuccess, currentUser, friendList, groupList, answers>>
  BY DEF Command
<1>2. id \in UserId /\ id \in 0..MaxUser
  BY <1>1 DEF DataInv, UserId
<1>3. r \in Request
  BY <1>2 DEF Request, Words
<1>4. RequestFits(r, DOMAIN user)
  BY <1>2 DEF RequestFits, Commands
<1>5. \A d \in Client : CurrentOK(d)'
  <2> SUFFICES ASSUME NEW d \in Client PROVE CurrentOK(d)'
    OBVIOUS
  <2>1. main'[d] = "menu" => main[d] = "menu"
    BY DEF GoTo, ThreadsOK
  <2> QED BY <1>1, <2>1 DEF CurrentOK, DataInv
<1> QED BY <1>1, <1>2, <1>3, <1>4, <1>5, SendData

LEMMA UserData ==
    ASSUME ThreadsOK, DataInv, NEW c \in Client, UserStep(c) PROVE DataInv'
<1>1. CASE AddFriend(c)
  <2>1. PICK f \in UserId \ {currentUser[c]} : Command(c, "addFriend", f, <<>>)
    BY <1>1 DEF AddFriend
  <2> QED BY <1>1, <2>1, CommandData DEF AddFriend, UserId, Words
<1>2. CASE CreateGroup(c)
  BY <1>2, CommandData DEF CreateGroup, Words
<1>3. CASE AddGroup(c)
  <2>1. PICK g \in GroupId : Command(c, "addGroup", g, <<>>)
    BY <1>3 DEF AddGroup
  <2> QED BY <1>3, <2>1, CommandData DEF AddGroup, Words
<1>4. CASE Chat(c)
  <2>1. PICK to \in UserId \ {currentUser[c]}, text \in Text : Command(c, "chat", to, text)
    BY <1>4 DEF Chat
  <2> QED BY <1>4, <2>1, CommandData DEF Chat, UserId, Words
<1>5. CASE GroupChat(c)
  <2>1. PICK g \in GroupId, text \in Text : Command(c, "groupChat", g, text)
    BY <1>5 DEF GroupChat
  <2> QED BY <1>5, <2>1, CommandData DEF GroupChat, Words
<1>6. CASE Logout(c)
  BY <1>6, CommandData DEF Logout, Words
<1>7. ASSUME NEW place \in {"waitLogin", "waitReg", "gone"}, GoTo(c, place),
             \/ isLoginSuccess' = isLoginSuccess \/ isLoginSuccess' = [isLoginSuccess EXCEPT ![c] = FALSE],
             currentUser' = currentUser
      PROVE  \A d \in Client : CurrentOK(d)'
  <2> SUFFICES ASSUME NEW d \in Client PROVE CurrentOK(d)'
    OBVIOUS
  <2>1. main'[d] = "menu" => main[d] = "menu"
    BY <1>7 DEF GoTo, ThreadsOK
  <2>2. isLoginSuccess'[d] => isLoginSuccess[d]
    BY <1>7 DEF ThreadsOK
  <2> QED BY <1>7, <2>1, <2>2 DEF CurrentOK, DataInv
<1>8. CASE AskLogin(c)
  <2>1. PICK id \in Knows[c] \union {u \in DOMAIN user : user[u].by = c} : Give(c, "login", id, 0, <<>>)
    BY <1>8 DEF AskLogin
  <2>2. id \in DOMAIN user \union {0} /\ id \in 0..MaxUser
    <3>1. Knows[c] \subseteq 0..Stored.users
      BY ClientAssumption
    <3>2. DOMAIN user = 1..Len(user) /\ Len(user) \in Nat /\ Stored.users <= Len(user) /\ Len(user) <= MaxUser
      BY DEF DataInv, TablesOK
    <3> QED BY <2>1, <3>1, <3>2
  <2> DEFINE r == [op |-> "login", id |-> id, arg |-> 0, text |-> <<>>]
  <2>3. r \in Request /\ RequestFits(r, DOMAIN user)
    BY <2>2 DEF Request, RequestFits, Commands
  <2>4. \A d \in Client : CurrentOK(d)'
    BY <1>7, <1>8 DEF AskLogin
  <2>5. ServerUnchanged /\ UNCHANGED <<currentUser, friendList, groupList, answers>>
    BY <1>8 DEF AskLogin
  <2> QED BY <2>1, <2>2, <2>3, <2>4, <2>5, SendData DEF Words
<1>9. CASE AskReg(c)
  <2> DEFINE r == [op |-> "reg", id |-> 0, arg |-> 0, text |-> <<>>]
  <2>1. r \in Request /\ RequestFits(r, DOMAIN user)
    BY DEF Request, RequestFits, Commands
  <2>2. \A d \in Client : CurrentOK(d)'
    BY <1>7, <1>9 DEF AskReg
  <2>3. ServerUnchanged /\ UNCHANGED <<currentUser, friendList, groupList, answers>> /\ Give(c, "reg", 0, 0, <<>>)
    BY <1>9 DEF AskReg
  <2> QED BY <2>1, <2>2, <2>3, SendData DEF Words
<1>10. CASE Quit(c)
  <2> DEFINE r == [op |-> "close", id |-> 0, arg |-> 0, text |-> <<>>]
  <2>1. r \in Request /\ RequestFits(r, DOMAIN user)
    BY DEF Request, RequestFits, Commands
  <2>2. \A d \in Client : CurrentOK(d)'
    BY <1>7, <1>10 DEF Quit
  <2>3. ServerUnchanged /\ UNCHANGED <<currentUser, friendList, groupList, answers>> /\ Give(c, "close", 0, 0, <<>>)
    BY <1>10 DEF Quit
  <2> QED BY <2>1, <2>2, <2>3, SendData DEF Words
<1> QED BY <1>1, <1>2, <1>3, <1>4, <1>5, <1>6, <1>8, <1>9, <1>10 DEF UserStep

LEMMA ReaderData ==
    ASSUME ThreadsOK, DataInv, NEW c \in Client, ReaderStep(c) PROVE DataInv'
<1>1. CASE ReadLive(c) \/ ReadReg(c)
  <2>1. (Reading(c, "live") \/ Reading(c, "reg")) /\ UNCHANGED <<main, isLoginSuccess, currentUser, friendList, groupList>>
    BY <1>1 DEF ReadLive, ReadReg, clientVars
  <2>2. Grow
    BY <2>1, OtherThreads DEF Reading
  <2>3. \A d \in Client : CurrentOK(d)' /\ ListsOK(d)'
    BY <2>1, <2>2, ListsKept1 DEF CurrentOK, DataInv
  <2> QED BY <2>1, <2>3, ReadData DEF DataInv
<1>2. CASE ReadLoginRefused(c)
  <2>1. /\ Reading(c, "login") /\ UNCHANGED <<main, currentUser, friendList, groupList>>
        /\ isLoginSuccess' = [isLoginSuccess EXCEPT ![c] = FALSE]
    BY <1>2 DEF ReadLoginRefused
  <2>2. Grow
    BY <2>1, OtherThreads DEF Reading
  <2>3. \A d \in Client : isLoginSuccess'[d] => isLoginSuccess[d]
    BY <2>1 DEF ThreadsOK
  <2>4. \A d \in Client : CurrentOK(d)' /\ ListsOK(d)'
    BY <2>1, <2>2, <2>3, ListsKept1 DEF CurrentOK, DataInv
  <2> QED BY <2>1, <2>4, ReadData DEF DataInv
<1>3. CASE ReadLogin(c)
  <2> DEFINE a == Head(answers[c])
  <2>1. /\ Reading(c, "login") /\ a.errno = 0 /\ a.kind = "login" /\ answers[c] # <<>>
        /\ currentUser' = [currentUser EXCEPT ![c] = a.id] /\ Lists(c, a) /\ main' = main
        /\ isLoginSuccess' = [isLoginSuccess EXCEPT ![c] = TRUE]
    BY <1>3 DEF ReadLogin, Reading
  <2>2. Grow
    BY <2>1, OtherThreads DEF Reading
  <2>3. a \in Answer /\ AnswerFits(c, a, user, friend)
    BY <2>1 DEF DataInv, AnswersOK
  <2>4. a.id \in UserId /\ a.friends \subseteq friend /\ OneUsers(a.friends) /\ a.groups \subseteq GroupId
    BY <2>1, <2>3 DEF AnswerFits, Answer
  <2> HIDE DEF a
  <2>5. \A d \in Client : ListsOK(d)'
    <3> SUFFICES ASSUME NEW d \in Client PROVE ListsOK(d)'
      OBVIOUS
    <3>1. ListsOK(d)
      BY DEF DataInv
    <3>2. friendList'[d] \in {friendList[d], a.friends} \/ friendList'[d] = friendList[d]
      BY <2>1 DEF Lists
    <3>3. groupList'[d] \in {groupList[d], a.groups}
      BY <2>1 DEF Lists
    <3> QED BY <2>2, <2>4, <3>1, <3>2, <3>3 DEF ListsOK, Grow
  <2>6. currentUser \in [Client -> 0..MaxUser] /\ a.id \in 0..MaxUser
    BY <2>4 DEF DataInv, UserId
  <2>7. currentUser' \in [Client -> 0..MaxUser] /\ currentUser'[c] = a.id
        /\ \A d \in Client \ {c} : currentUser'[d] = currentUser[d]
    BY <2>1, <2>6
  <2>8. \A d \in Client : CurrentOK(d)'
    <3> SUFFICES ASSUME NEW d \in Client PROVE CurrentOK(d)'
      OBVIOUS
    <3>1. CASE d = c
      BY <3>1, <2>4, <2>7 DEF CurrentOK
    <3>2. CASE d # c
      <4>1. isLoginSuccess'[d] => isLoginSuccess[d]
        BY <2>1, <3>2 DEF ThreadsOK
      <4> QED BY <3>2, <2>1, <2>7, <4>1 DEF CurrentOK, DataInv
    <3> QED BY <3>1, <3>2
  <2> QED BY <2>1, <2>5, <2>7, <2>8, ReadData
<1>4. CASE Post(c)
  <2>1. ServerUnchanged /\ UNCHANGED <<main, isLoginSuccess, currentUser, friendList, groupList, wire>>
    BY <1>4 DEF Post
  <2>2. TablesOK' /\ Grow /\ job' \in [Thread -> JobState] /\ \A t \in Thread : JobFits(t)'
    BY <2>1, OtherThreads
  <2>3. \A d \in Client : AnswersOK(d)' /\ RequestsOK(d)' /\ ListsOK(d)'
    BY <2>1, <2>2, AnswersKept, RequestsKept, ListsKept1 DEF DataInv, wire
  <2> QED BY <2>1, <2>2, <2>3 DEF DataInv, wire
<1> QED BY <1>1, <1>2, <1>3, <1>4 DEF ReaderStep

LEMMA WakeData == ASSUME ThreadsOK, DataInv, NEW c \in Client, Wake(c) PROVE DataInv'
<1>1. ServerUnchanged /\ UNCHANGED <<isLoginSuccess, currentUser, friendList, groupList, wire>>
  BY DEF Wake
<1>2. TablesOK' /\ Grow /\ job' \in [Thread -> JobState] /\ \A t \in Thread : JobFits(t)'
  BY <1>1, OtherThreads
<1>3. \A d \in Client : AnswersOK(d)' /\ RequestsOK(d)' /\ ListsOK(d)'
  BY <1>1, <1>2, AnswersKept, RequestsKept, ListsKept1 DEF DataInv, wire
<1>4. \A d \in Client : main'[d] = "menu" => main[d] = "menu" \/ isLoginSuccess[d]
  BY DEF Wake, GoTo, ThreadsOK
<1> QED BY <1>1, <1>2, <1>3, <1>4 DEF DataInv, wire

LEMMA DataStep == ASSUME ThreadsOK, PoolInv, DataInv, [Next]_vars PROVE DataInv'
<1>1. CASE UNCHANGED vars
  <2>1. ServerUnchanged /\ UNCHANGED <<main, isLoginSuccess, currentUser, friendList, groupList, wire>>
    BY <1>1 DEF vars, accVars, clientVars, ServerUnchanged
  <2>2. TablesOK' /\ Grow /\ job' \in [Thread -> JobState] /\ \A t \in Thread : JobFits(t)'
    BY <2>1, OtherThreads
  <2>3. \A d \in Client : AnswersOK(d)' /\ RequestsOK(d)' /\ ListsOK(d)'
    BY <2>1, <2>2, AnswersKept, RequestsKept, ListsKept1 DEF DataInv, wire
  <2> QED BY <2>1, <2>2, <2>3 DEF DataInv, wire
<1>2. CASE AccountsNext /\ UNCHANGED <<clientVars, ghostVars>>
  BY <1>2, ServerData
<1>3. ASSUME NEW c \in Client, UserStep(c) \/ Wake(c) \/ ReaderStep(c) PROVE DataInv'
  BY <1>3, UserData, WakeData, ReaderData
<1> QED BY <1>1, <1>2, <1>3 DEF Next

LEMMA InitData == Init => DataInv /\ ThreadsOK
<1> SUFFICES ASSUME Init PROVE DataInv /\ ThreadsOK
  OBVIOUS
<1>1. ThreadsOK
  BY DEF Init, ThreadsOK
<1>2. /\ user \in Seq(User) /\ Len(user) = Stored.users
  <2>1. [by |-> None, state |-> "offline"] \in User /\ Stored.users \in Nat
    BY DEF User
  <2>2. user = [u \in 1..Stored.users |-> [by |-> None, state |-> "offline"]]
    BY DEF Init, AccountsInit
  <2>3. \A u \in 1..Stored.users : user[u] \in User
    BY <2>1, <2>2
  <2>4. user \in [1..Stored.users -> User]
    BY <2>2, <2>3
  <2>5. Len(user) = Stored.users
    BY <2>1, <2>2
  <2> QED BY <2>1, <2>4, <2>5, SeqDef
<1>3. /\ group \in Seq(UserId) /\ Len(group) <= MaxGroup
  <2>1. \A i \in 1..Len(Stored.group) : Stored.group[i] \in UserId
    BY DEF UserId
  <2>2. group = Stored.group /\ Stored.group \in Seq(1..Stored.users) /\ Len(Stored.group) <= MaxGroup
    BY DEF Init, AccountsInit
  <2>3. Stored.group = [i \in 1..Len(Stored.group) |-> Stored.group[i]] /\ Len(Stored.group) \in Nat
    BY <2>2
  <2> DEFINE g == Stored.group
             n == Len(g)
  <2>4. g \in [1..n -> UserId] /\ n \in Nat
    <3>1. g = [i \in 1..n |-> g[i]] /\ n \in Nat /\ \A i \in 1..n : g[i] \in UserId
      BY <2>1, <2>3
    <3> HIDE DEF g, n
    <3> QED BY <3>1
  <2>5. g \in Seq(UserId)
    <3> HIDE DEF g, n
    <3> QED BY <2>4, SeqDef
  <2> QED BY <2>2, <2>5
<1>4. DOMAIN Stored.group \subseteq GroupId /\ 1..Stored.users \subseteq UserId
  BY DEF GroupId, UserId
<1>5. friend \subseteq UserId \X UserId /\ member \subseteq GroupId \X UserId
  BY <1>4 DEF Init, AccountsInit
<1>6. /\ offline \in [UserId -> Seq(Row)] /\ insertId \in [Handle -> Nat]
      /\ userConnMap \in [UserId -> Client \union {None}] /\ session \subseteq UserId
      /\ loggedIn \in [Client -> 0..MaxUser]
  BY AccountsAssumption DEF Init, AccountsInit
<1>7. TablesOK
  BY <1>2, <1>3, <1>5, <1>6 DEF TablesOK
<1>8. job \in [Thread -> JobState] /\ \A t \in Thread : job[t] = NoJob
  BY NoJobFits DEF Init, AccountsInit
<1>9. \A t \in Thread : JobFits(t)
  <2> SUFFICES ASSUME NEW t \in Thread PROVE JobFits(t)
    OBVIOUS
  <2>1. Op(t) = "none" /\ Todo(t) = <<>> /\ NoJob.got = "no" /\ NoJob.ans.kind = "none"
    BY <1>8 DEF Op, Todo, NoJob, NoRequest, NoAnswer
  <2>2. <<>> \notin Exiting /\ <<>> # <<"addCreator">>
    BY NotExiting, Tail1
  <2> QED BY <1>8, <2>1, <2>2, NoJobFits, PlansBasic DEF JobFits, Token
<1>10. answers \in [Client -> Seq(Answer)] /\ requests \in [Client -> Seq(Request)]
  BY DEF Init, AccountsInit
<1>11. \A c \in Client : AnswersOK(c) /\ RequestsOK(c)
  <2>1. \A c \in Client : answers[c] = <<>> /\ requests[c] = <<>>
    BY DEF Init, AccountsInit
  <2>2. DOMAIN <<>> = {} /\ <<>> \in Seq(Answer) /\ <<>> \in Seq(Request)
    OBVIOUS
  <2>3. ASSUME NEW c \in Client PROVE AnswersOK(c) /\ RequestsOK(c)
    <3>1. DOMAIN answers[c] = {} /\ answers[c] \in Seq(Answer)
      BY <2>1, <2>2
    <3>2. DOMAIN requests[c] = {} /\ requests[c] \in Seq(Request)
      BY <2>1, <2>2
    <3> QED BY <3>1, <3>2 DEF AnswersOK, RequestsOK
  <2> QED BY <2>3
<1>12. \A c \in Client : ListsOK(c)
  BY DEF Init, ListsOK, OneUsers
<1>13. /\ currentUser \in [Client -> 0..MaxUser]
       /\ \A c \in Client : main[c] = "menu" \/ isLoginSuccess[c] => currentUser[c] \in UserId
  BY DEF Init
<1> QED BY <1>1, <1>7, <1>8, <1>9, <1>10, <1>11, <1>12, <1>13 DEF DataInv

LEMMA ClientDataInv == Spec => [](PoolInv /\ ThreadsOK /\ DataInv)
<1>1. Init => PoolInv /\ ThreadsOK /\ DataInv
  BY PoolInitOK, InitData DEF Init, AccountsInit
<1>2. PoolInv /\ ThreadsOK /\ DataInv /\ [Next]_vars => (PoolInv /\ ThreadsOK /\ DataInv)'
  BY NextPools, PoolInvStep, ThreadsStep, DataStep
<1> QED BY <1>1, <1>2, PTL DEF Spec

(* UserModel::insert and mysql_insert_id: the connection is borrowed from the insert to  *)
(* the question for its id, so that the id a client is told is that of its own row,       *)
(* for any number of clients that register at once.                                   *)
THEOREM IdIsOwn == Spec => []AckedIdIsOwn
<1>1. DataInv => AckedIdIsOwn
  <2> SUFFICES ASSUME DataInv, NEW c \in Client,
                      NEW a \in {job[c].ans} \union {answers[c][i] : i \in DOMAIN answers[c]},
                      a.kind = "reg", a.errno = 0
               PROVE  a.id \in DOMAIN user /\ user[a.id].by = c
    BY DEF AckedIdIsOwn
  <2>1. AnswerFits(c, a, user, friend)
    BY DEF DataInv, JobFits, AnswersOK
  <2> QED BY <2>1 DEF AnswerFits
<1> QED BY <1>1, ClientDataInv, PTL

(* doLoginResponse: whatever a client's list of friends was, it is replaced by those of   *)
(* one user, for any number of logins on the same client.                              *)
THEOREM ListsUnmixed == Spec => []ListsOfOneUser
<1>1. DataInv => ListsOfOneUser
  BY DEF DataInv, ListsOK, OneUsers, ListsOfOneUser
<1> QED BY <1>1, ClientDataInv, PTL

-----------------------------------------------------------------------------
(* GroupFounded *)

Founded(g) == <<g, group[g]>> \in member \/ \E c \in Client : Founding(c, g) /\ Asker(c) = group[g]

LEMMA FoundersKept ==
    ASSUME NEW t, NEW g, NEW f \in Client, f # t, job'[f] = job[f], Undisturbed(f), Founding(f, g),
           Asker(f) = group[g], group'[g] = group[g]
    PROVE  Founded(g)'
<1>1. Founding(f, g)'
  BY DEF Founding, Next1, Todo, Undisturbed
<1>2. Asker(f)' = Asker(f)
  BY DEF Asker
<1> QED BY <1>1, <1>2 DEF Founded

LEMMA FoundedFrame ==
    ASSUME DataInv, GroupFounded, NEW t \in Thread, \A s \in Thread \ {t} : job'[s] = job[s] /\ Undisturbed(s),
           group' = group, member \subseteq member',
           \A g \in DOMAIN group : t \in Client /\ Founding(t, g) /\ Asker(t) = group[g] => Founded(g)'
    PROVE  GroupFounded'
<1> SUFFICES ASSUME NEW g \in DOMAIN group \ DOMAIN Stored.group PROVE Founded(g)'
  BY DEF GroupFounded, Founded
<1>1. CASE <<g, group[g]>> \in member
  BY <1>1 DEF Founded
<1>2. ASSUME NEW f \in Client, Founding(f, g), Asker(f) = group[g] PROVE Founded(g)'
  <2>1. CASE f = t
    BY <1>2, <2>1
  <2>2. CASE f # t
    BY <1>2, <2>2, FoundersKept
  <2> QED BY <2>1, <2>2
<1> QED BY <1>1, <1>2 DEF GroupFounded

LEMMA FoundedSame ==
    ASSUME GroupFounded, job' = job, insertId' = insertId, group' = group, member' = member,
           \A s \in Thread : job[s].got = "yes" => held'[s] = held[s]
    PROVE  GroupFounded'
<1>1. \A c \in Client, g \in DOMAIN group : Founding(c, g) => Founding(c, g)'
  BY DEF Founding, Next1, Todo
<1> QED BY <1>1 DEF GroupFounded, Asker

LEMMA FoundedStatement ==
    ASSUME PoolInv, DataInv, GroupFounded, NEW t \in Thread, Statement(t) PROVE GroupFounded'
<1>1. CASE GroupInsert(t)
  <2>1. /\ Running(t, "createGroup") /\ group' = Append(group, Asker(t))
        /\ insertId' = [insertId EXCEPT ![held[t]] = Len(group) + 1]
        /\ job' = [job EXCEPT ![t].got = "yes"] /\ UNCHANGED <<poolVars, member>>
    BY <1>1 DEF GroupInsert
  <2>2. /\ Todo(t) # <<>> /\ Head(Todo(t)) = "createGroup" /\ job[t].got = "no" /\ pc[t] = "borrowed"
        /\ t \in Client /\ job[t] \in JobState
    BY <2>1, RunningIs
  <2>3. held[t] \in Handle /\ \A s \in Thread \ {t} : held[s] # held[t]
    BY <2>2 DEF PoolInv
  <2>4. /\ group \in Seq(UserId) /\ DOMAIN group = 1..Len(group) /\ DOMAIN group' = 1..(Len(group) + 1)
        /\ Len(group) \in Nat /\ \A g \in DOMAIN group : group'[g] = group[g]
        /\ group'[Len(group) + 1] = Asker(t)
    BY <2>1 DEF DataInv, TablesOK
  <2>5. /\ job'[t].got = "yes" /\ job'[t].todo = job[t].todo /\ job'[t].req = job[t].req
        /\ \A s \in Thread \ {t} : job'[s] = job[s]
    BY <2>1, <2>2 DEF DataInv, JobState
  <2>6. insertId'[held[t]] = Len(group) + 1 /\ held' = held /\ member' = member
    BY <2>1, <2>3 DEF DataInv, TablesOK, poolVars
  <2>7. \A s \in Thread \ {t} : Undisturbed(s)
    <3> SUFFICES ASSUME NEW s \in Thread \ {t} PROVE Undisturbed(s)
      OBVIOUS
    <3>1. held'[s] = held[s] /\ pc'[s] = pc[s]
      BY <2>1 DEF poolVars
    <3>2. insertId'[held[s]] = insertId[held[s]] \/ held[s] \notin Handle
      BY <2>1, <2>3 DEF DataInv, TablesOK
    <3>3. job[s].got = "yes" => held[s] \in Handle
      BY DEF DataInv, JobFits, PoolInv
    <3> QED BY <3>1, <3>2, <3>3 DEF Undisturbed
  <2>8. \A g \in DOMAIN group : ~Founding(t, g)
    BY <2>2 DEF Founding, Next1
  <2>9. ASSUME NEW g \in DOMAIN group' \ DOMAIN Stored.group PROVE Founded(g)'
    <3>1. CASE g = Len(group) + 1
      <4>1. Founding(t, g)' /\ Asker(t)' = Asker(t)
        BY <3>1, <2>2, <2>5, <2>6 DEF Founding, Next1, Todo, Asker
      <4> QED BY <3>1, <4>1, <2>2, <2>4 DEF Founded
    <3>2. CASE g \in DOMAIN group /\ <<g, group[g]>> \in member
      BY <3>2, <2>4, <2>6 DEF Founded
    <3>3. ASSUME NEW f \in Client, g \in DOMAIN group, Founding(f, g), Asker(f) = group[g] PROVE Founded(g)'
      <4>1. f # t
        BY <3>3, <2>8
      <4> QED BY <3>3, <4>1, <2>4, <2>5, <2>7, FoundersKept
    <3> QED BY <2>9, <3>1, <3>2, <3>3, <2>4 DEF GroupFounded
  <2> QED BY <2>9 DEF GroupFounded, Founded
<1>2. CASE InsertReturns(t)
  <2>1. /\ job[t].got = "yes" /\ job' = [job EXCEPT ![t] = Then(t)] /\ PutBack(t) /\ UNCHANGED tables
    BY <1>2 DEF InsertReturns, Returns
  <2>3. \A s \in Thread \ {t} : job'[s] = job[s] /\ Undisturbed(s)
    BY <2>1, PutBackUndisturbs DEF DataInv, tables
  <2>4. job'[t] = Then(t) /\ job[t] \in JobState
    BY <2>1 DEF DataInv
  <2>5. ASSUME NEW g \in DOMAIN group, t \in Client, Founding(t, g), Asker(t) = group[g] PROVE Founded(g)'
    <3>1. Todo(t) \in {<<"insertUser">>, <<"createGroup">>}
      BY <2>1 DEF DataInv, JobFits
    <3>2. Next1(t, "createGroup") /\ insertId[held[t]] = g /\ ~Next1(t, "insertUser")
      BY <2>5, <3>1, Tail1 DEF Founding, Next1
    <3>3. Then(t) = [Done(t) EXCEPT !.req.arg = insertId[held[t]], !.todo = <<"addCreator">>]
      BY <3>2 DEF Then
    <3>4. job'[t].req.arg = g /\ job'[t].todo = <<"addCreator">> /\ job'[t].req.id = job[t].req.id
      <4> DEFINE d == Done(t)
      <4>1. Tail(Todo(t)) \in Plans
        BY <3>1, Tail1, PlansBasic
      <4>2. d \in JobState /\ d.req = job[t].req
        BY <2>4, <4>1, DoneState
      <4>3. job'[t] = [d EXCEPT !.req.arg = g, !.todo = <<"addCreator">>]
        BY <2>4, <3>2, <3>3
      <4> HIDE DEF d
      <4> QED BY <4>2, <4>3 DEF JobState, AnyRequest
    <3>5. Founding(t, g)' /\ Asker(t)' = Asker(t)
      BY <3>4, Tail1 DEF Founding, Next1, Todo, Asker
    <3> QED BY <2>1, <2>5, <3>5 DEF Founded, tables
  <2> QED BY <2>1, <2>3, <2>5, FoundedFrame DEF tables
<1>3. CASE MemberInsert(t)
  <2>1. /\ Running(t, "addGroup") \/ Running(t, "addCreator")
        /\ job' = [job EXCEPT ![t] = Done(t)] /\ PutBack(t)
        /\ UNCHANGED <<user, friend, group, offline, insertId, userConnMap, session, loggedIn>>
        /\ member' = member \union {m \in {<<job[t].req.arg, Asker(t)>>} : m[1] \in DOMAIN group}
    BY <1>3 DEF MemberInsert, Returns
  <2>2. \A s \in Thread \ {t} : job'[s] = job[s] /\ Undisturbed(s)
    BY <2>1, PutBackUndisturbs DEF DataInv
  <2>3. ASSUME NEW g \in DOMAIN group, Founding(t, g), Asker(t) = group[g] PROVE Founded(g)'
    <3>1. job[t].req.arg = g
      BY <2>1, <2>3 DEF Founding, Running, Next1
    <3> QED BY <2>1, <2>3, <3>1 DEF Founded
  <2> QED BY <2>1, <2>2, <2>3, FoundedFrame
<1>4. CASE UserInsert(t)
  <2>1. /\ Running(t, "insertUser") /\ insertId' = [insertId EXCEPT ![held[t]] = Len(user) + 1]
        /\ job' = [job EXCEPT ![t].got = "yes"] /\ UNCHANGED <<poolVars, group, member>>
    BY <1>4 DEF UserInsert
  <2>2. Todo(t) # <<>> /\ Head(Todo(t)) = "insertUser" /\ pc[t] = "borrowed"
    BY <2>1, RunningIs
  <2>3. held[t] \in Handle /\ \A s \in Thread \ {t} : held[s] # held[t]
    BY <2>2 DEF PoolInv
  <2>4. \A s \in Thread \ {t} : job'[s] = job[s]
    BY <2>1 DEF DataInv
  <2>5. \A s \in Thread \ {t} : Undisturbed(s)
    <3> SUFFICES ASSUME NEW s \in Thread \ {t} PROVE Undisturbed(s)
      OBVIOUS
    <3>1. held'[s] = held[s] /\ pc'[s] = pc[s]
      BY <2>1 DEF poolVars
    <3>2. insertId'[held[s]] = insertId[held[s]] \/ held[s] \notin Handle
      BY <2>1, <2>3 DEF DataInv, TablesOK
    <3>3. job[s].got = "yes" => held[s] \in Handle
      BY DEF DataInv, JobFits, PoolInv
    <3> QED BY <3>1, <3>2, <3>3 DEF Undisturbed
  <2>6. \A g \in DOMAIN group : ~Founding(t, g)
    BY <2>2 DEF Founding, Next1
  <2> QED BY <2>1, <2>4, <2>5, <2>6, FoundedFrame
<1>5. ASSUME NEW f \in {"insertUser", "createGroup", "queryUser", "setOnline", "setOffline", "queryOffline",
                        "removeOffline", "insertOffline", "queryFriends", "insertFriend", "queryGroups",
                        "queryGroupUsers"},
             Running(t, f), NEW j, job' = [job EXCEPT ![t] = j], PutBack(t),
             UNCHANGED <<group, member, insertId>>
      PROVE  GroupFounded'
  <2>1. Todo(t) # <<>> /\ Head(Todo(t)) = f /\ job[t].got = "no"
    BY <1>5, RunningIs
  <2>2. \A g \in DOMAIN group : ~Founding(t, g)
    BY <2>1 DEF Founding, Next1
  <2>3. \A s \in Thread \ {t} : job'[s] = job[s] /\ Undisturbed(s)
    BY <1>5, PutBackUndisturbs DEF DataInv
  <2> QED BY <1>5, <2>2, <2>3, FoundedFrame
<1>6. CASE InsertFails(t)
  BY <1>5, <1>6 DEF InsertFails, Returns, tables
<1>7. CASE UserQuery(t) \/ OfflineQuery(t) \/ FriendQuery(t) \/ GroupQuery(t)
  BY <1>5, <1>7 DEF UserQuery, OfflineQuery, FriendQuery, GroupQuery, Returns, tables
<1>8. CASE UpdateState(t)
  BY <1>5, <1>8 DEF UpdateState, Returns
<1>9. CASE OfflineRemove(t) \/ OfflineInsert(t) \/ FriendInsert(t)
  BY <1>5, <1>9 DEF OfflineRemove, OfflineInsert, FriendInsert, Returns
<1>10. CASE GroupUsersQuery(t)
  BY <1>5, <1>10, Zenon DEF GroupUsersQuery, tables
<1> QED BY <1>1, <1>2, <1>3, <1>4, <1>6, <1>7, <1>8, <1>9, <1>10 DEF Statement

LEMMA FoundedHandler ==
    ASSUME DataInv, GroupFounded, NEW c \in Client, ClientStep(c) PROVE GroupFounded'
<1>1. /\ \A s \in Thread \ {c} : job'[s] = job[s]
      /\ UNCHANGED <<poolVars, tables>>
  <2>1. CASE Begin(c) \/ BeginLeave(c) \/ BeginLeaveUnknown(c) \/ BeginChat(c)
    BY <2>1, BeginIs, BeginOthers
  <2>2. CASE Goes(c)
    BY <2>2, GoesIs DEF DataInv
  <2>3. CASE Reply(c)
    BY <2>3 DEF Reply, DataInv
  <2> QED BY <2>1, <2>2, <2>3 DEF ClientStep, Goes
<1>2. \A s \in Thread : Undisturbed(s)
  BY <1>1, SameUndisturbed DEF tables
<1>3. \A g \in DOMAIN group : ~Founding(c, g)
  <2>1. CASE Begin(c) \/ BeginLeave(c) \/ BeginLeaveUnknown(c) \/ BeginChat(c)
    <3>1. job[c].req = NoRequest
      BY <2>1, BeginIs DEF Busy
    <3>2. Op(c) = "none" /\ PlanFits(Op(c), Todo(c))
      BY <3>1 DEF Op, NoRequest, DataInv, JobFits
    <3>3. Todo(c) = <<>>
      BY <3>2 DEF PlanFits
    <3> QED BY <3>3 DEF Founding, Next1
  <2>2. CASE Goes(c)
    BY <2>2, GoesIs DEF Founding, Next1, Unpooled
  <2>3. CASE Reply(c)
    BY <2>3 DEF Reply, Founding, Next1
  <2> QED BY <2>1, <2>2, <2>3 DEF ClientStep, Goes
<1> QED BY <1>1, <1>2, <1>3, FoundedFrame DEF tables

LEMMA FoundedStep ==
    ASSUME PoolInv, DataInv, GroupFounded, [Next]_vars PROVE GroupFounded'
<1>1. CASE UNCHANGED vars
  BY <1>1, FoundedSame DEF vars, accVars, tables, poolVars
<1>2. ASSUME NEW t \in Thread, Borrow(t) \/ Rewoken(t) PROVE GroupFounded'
  <2>1. \A s \in Thread : job[s].got = "yes" => held'[s] = held[s]
    <3>1. \A s \in Thread : job[s].got = "yes" => pc[s] = "borrowed"
      BY DEF DataInv, JobFits
    <3>2. \A s \in Thread : pc[s] = "borrowed" => held'[s] = held[s]
      BY <1>2 DEF Borrow, Rewoken, GetConnection, Recheck, Spurious, Take, Sleep, Goto, PoolInv
    <3> QED BY <3>1, <3>2
  <2> QED BY <1>2, <2>1, FoundedSame DEF Borrow, Rewoken, tables
<1>3. ASSUME NEW t \in Thread, ThreadStep(t) \/ Rewoken(t) PROVE GroupFounded'
  BY <1>2, <1>3, FoundedStatement, FoundedHandler DEF ThreadStep
<1>4. ASSUME NEW c \in Client, UserStep(c) \/ Wake(c) \/ ReaderStep(c) PROVE GroupFounded'
  <2>1. ServerUnchanged
    BY <1>4 DEF UserStep, AskLogin, AskReg, AddFriend, CreateGroup, AddGroup, Chat, GroupChat,
                Logout, Quit, Command, Wake, ReaderStep, ReadLive, ReadReg, ReadLoginRefused, ReadLogin,
                Post, Reading
  <2> QED BY <2>1, FoundedSame DEF ServerUnchanged, tables, poolVars
<1> QED BY <1>1, <1>3, <1>4 DEF Next, AccountsNext

(* createGroup: while the founder of a group is not yet its member, the handler that       *)
(* inserted the group is on its way to make it one, whoever else founds or joins groups     *)
(* meanwhile.                                                                       *)
THEOREM EveryGroupFounded == Spec => []GroupFounded
<1>1. Init => GroupFounded
  BY DEF Init, AccountsInit, GroupFounded
<1>2. PoolInv /\ DataInv /\ GroupFounded /\ [Next]_vars => GroupFounded'
  BY FoundedStep
<1> QED BY <1>1, <1>2, ClientDataInv, PTL DEF Spec

ClientInv(c) == OrderInv(c) /\ TurnInv(c) /\ HereInv(c)

LEMMA AppendIs ==
    ASSUME NEW S, NEW s \in Seq(S), NEW e \in S, NEW x, x = Append(s, e)
    PROVE  /\ Len(s) \in Nat /\ DOMAIN s = 1..Len(s) /\ DOMAIN x = 1..(Len(s) + 1) /\ Len(s) + 1 \in DOMAIN x
           /\ \A i \in DOMAIN s : i \in DOMAIN x /\ x[i] = s[i] /\ i < Len(s) + 1
           /\ \A i \in DOMAIN x : i \in DOMAIN s \/ i = Len(s) + 1
           /\ x[Len(s) + 1] = e /\ x # <<>>
<1>1. x \in Seq(S) /\ Len(x) = Len(s) + 1
  OBVIOUS
<1> QED BY <1>1

LEMMA TailIs ==
    ASSUME NEW S, NEW s \in Seq(S), s # <<>>, NEW x, x = Tail(s)
    PROVE  /\ Head(s) = s[1] /\ 1 \in DOMAIN s
           /\ \A i \in DOMAIN x : i + 1 \in DOMAIN s /\ x[i] = s[i + 1] /\ 1 < i + 1
           /\ \A i, j \in DOMAIN x : i < j => i + 1 < j + 1
           /\ \A i, j \in DOMAIN x : i + 1 = j + 1 => i = j
           /\ \A k \in DOMAIN s : k = 1 \/ (1 < k /\ k - 1 \in DOMAIN x /\ x[k - 1] = s[k])
           /\ (\A k \in DOMAIN s : ~(1 < k)) => x = <<>>
<1>1. x \in Seq(S) /\ Len(s) \in Nat /\ Len(s) > 0 /\ Len(x) = Len(s) - 1 /\ DOMAIN s = 1..Len(s)
      /\ DOMAIN x = 1..(Len(s) - 1)
  OBVIOUS
<1>2. \A i \in DOMAIN x : i + 1 \in DOMAIN s /\ x[i] = s[i + 1] /\ 1 < i + 1
  BY <1>1
<1>3. \A k \in DOMAIN s : k = 1 \/ (1 < k /\ k - 1 \in DOMAIN x /\ x[k - 1] = s[k])
  BY <1>1, <1>2
<1>4. ASSUME \A k \in DOMAIN s : ~(1 < k) PROVE x = <<>>
  <2>1. ~(Len(s) >= 2)
    BY <1>1, <1>4
  <2> QED BY <1>1, <2>1
<1> QED BY <1>1, <1>2, <1>3, <1>4

-----------------------------------------------------------------------------
(* A step of another client's, or one that neither asks, tells nor binds *)

AnswersSame(c) ==
    /\ \A i, j \in DOMAIN answers'[c] :
          answers'[c][i].kind \in Token /\ answers'[c][j].kind \in Token => i = j
    /\ \A i \in DOMAIN answers'[c] :
          answers'[c][i].kind \in Token => \E k \in DOMAIN answers[c] : answers[c][k] = answers'[c][i]
    /\ \A k \in DOMAIN answers[c] :
          answers[c][k].kind \in Token => \E i \in DOMAIN answers'[c] : answers'[c][i] = answers[c][k]

LEMMA KeptSame == ASSUME NEW c \in Client, OrderInv(c), answers'[c] = answers[c] PROVE AnswersSame(c)
  BY DEF OrderInv, AnswersSame

LEMMA LiveSame ==
    ASSUME NEW c \in Client, OrderInv(c), answers[c] \in Seq(Answer), NEW a \in Answer, a.kind = "live",
           answers'[c] = Append(answers[c], a)
    PROVE  AnswersSame(c)
<1> DEFINE s == answers[c]  x == answers'[c]
<1>a. s \in Seq(Answer) /\ x = Append(s, a)
  OBVIOUS
<1> HIDE DEF s, x
<1> DEFINE n == Len(s) + 1
<1>1. /\ \A i \in DOMAIN s : i \in DOMAIN x /\ x[i] = s[i]
      /\ \A i \in DOMAIN x : i \in DOMAIN s \/ i = n
      /\ x[n] = a
  BY <1>a, AppendIs
<1>2. a.kind \notin Token
  BY DEF Token
<1>3. \A i, j \in DOMAIN s : s[i].kind \in Token /\ s[j].kind \in Token => i = j
  BY DEF OrderInv, s
<1> HIDE DEF n
<1> QED BY <1>1, <1>2, <1>3 DEF AnswersSame, s, x

LEMMA TakenSame ==
    ASSUME NEW c \in Client, OrderInv(c), answers[c] \in Seq(Answer), answers[c] # <<>>,
           Head(answers[c]).kind = "live", answers'[c] = Tail(answers[c])
    PROVE  AnswersSame(c)
<1> DEFINE s == answers[c]  x == answers'[c]
<1>a. s \in Seq(Answer) /\ s # <<>> /\ x = Tail(s) /\ Head(s).kind = "live"
  OBVIOUS
<1> HIDE DEF s, x
<1>1. /\ Head(s) = s[1]
      /\ \A i \in DOMAIN x : i + 1 \in DOMAIN s /\ x[i] = s[i + 1]
      /\ \A i, j \in DOMAIN x : i + 1 = j + 1 => i = j
      /\ \A k \in DOMAIN s : k = 1 \/ (1 < k /\ k - 1 \in DOMAIN x /\ x[k - 1] = s[k])
  BY ONLY <1>a, TailIs
<1>2. s[1].kind \notin Token
  BY <1>a, <1>1 DEF Token
<1>3. \A i, j \in DOMAIN s : s[i].kind \in Token /\ s[j].kind \in Token => i = j
  BY DEF OrderInv, s
<1>4. \A i, j \in DOMAIN x : x[i].kind \in Token /\ x[j].kind \in Token => i = j
  BY <1>1, <1>3
<1>5. \A k \in DOMAIN s : s[k].kind \in Token => \E i \in DOMAIN x : x[i] = s[k]
  <2> SUFFICES ASSUME NEW k \in DOMAIN s, s[k].kind \in Token PROVE \E i \in DOMAIN x : x[i] = s[k]
    OBVIOUS
  <2>1. k # 1
    BY <1>2
  <2>2. k - 1 \in DOMAIN x /\ x[k - 1] = s[k]
    BY <1>1, <2>1
  <2> QED BY <2>2
<1>6. \A i \in DOMAIN x : \E k \in DOMAIN s : s[k] = x[i]
  BY <1>1
<1> HIDE DEF s, x
<1> QED BY <1>4, <1>5, <1>6 DEF AnswersSame, s, x

Aside(c) ==
    /\ requests'[c] = requests[c] /\ main'[c] = main[c] /\ isLoginSuccess'[c] = isLoginSuccess[c]
    /\ currentUser'[c] = currentUser[c] /\ AnswersSame(c)
    /\ sem'[c] \in {0, 1} /\ (reader'[c] = "post" => sem'[c] = 0) /\ (Posted(c)' <=> Posted(c))
    /\ Op(c)' = Op(c) /\ Asker(c)' = Asker(c) /\ (Bound(c)' <=> Bound(c))
    /\ loggedIn'[c] = loggedIn[c]

LEMMA AsideInv == ASSUME DataInv, NEW c \in Client, ClientInv(c), Aside(c) PROVE ClientInv(c)'
<1>1. /\ Told(c)' <=> Told(c)
      /\ Welcomed(c)' <=> Welcomed(c)
      /\ Quiet(c)' <=> Quiet(c)
      /\ \A ops : Sent(c, ops)' <=> Sent(c, ops)
  <2>1. Told(c)' <=> Told(c)
    BY DEF Told, Aside, AnswersSame
  <2>2. Welcomed(c)' <=> Welcomed(c)
    BY DEF Welcomed, Aside, AnswersSame, Token
  <2>3. Quiet(c)' <=> Quiet(c)
    BY DEF Quiet, Aside
  <2>4. \A ops : Sent(c, ops)' <=> Sent(c, ops)
    BY DEF Sent, Aside
  <2> QED BY <2>1, <2>2, <2>3, <2>4
<1>2. (Entering(c)' <=> Entering(c)) /\ (Stuck(c)' <=> Stuck(c))
  BY <1>1 DEF Entering, Stuck, Aside
<1>3. OrderInv(c)'
  BY DEF Aside, AnswersSame, OrderInv, ClientInv
<1>4. TurnInv(c)'
  <2>1. /\ \A i \in DOMAIN requests'[c] : requests'[c][i].op \in Token => main'[c] = Waits(requests'[c][i].op)
        /\ Op(c)' \in Token => main'[c] = Waits(Op(c)')
    BY DEF Aside, ClientInv, TurnInv
  <2>2. \A i \in DOMAIN answers'[c] : answers'[c][i].kind \in Token => main'[c] = Waits(answers'[c][i].kind)
    BY DEF Aside, ClientInv, TurnInv, AnswersSame
  <2>3. sem'[c] \in {0, 1} /\ (reader'[c] = "post" => sem'[c] = 0)
    BY DEF Aside
  <2>4. Posted(c)' => main'[c] \in {"waitLogin", "waitReg"}
    BY DEF Aside, ClientInv, TurnInv
  <2>5. /\ Sent(c, Token)' => Op(c)' \notin Token /\ ~Told(c)' /\ ~Posted(c)'
        /\ Op(c)' \in Token => requests'[c] = <<>> /\ ~Told(c)' /\ ~Posted(c)'
        /\ Told(c)' => Quiet(c)' /\ ~Posted(c)'
        /\ Posted(c)' => Quiet(c)'
    BY <1>1 DEF Aside, ClientInv, TurnInv
  <2> QED BY <2>1, <2>2, <2>3, <2>4, <2>5 DEF TurnInv, Waits
<1>5. HereInv(c)'
  <2>1. \A i \in DOMAIN requests'[c] :
           requests'[c][i].op \in Commands \union {"logout"} => loggedIn'[c] = requests'[c][i].id
    BY DEF Aside, ClientInv, HereInv
  <2>2. /\ Sent(c, {"logout"})' => main'[c] # "menu"
        /\ Sent(c, {"close"})' => main'[c] = "gone"
    BY <1>1 DEF Aside, ClientInv, HereInv
  <2>3. main'[c] = "menu" \/ Entering(c)' => loggedIn'[c] = currentUser'[c]
    BY <1>2 DEF Aside, ClientInv, HereInv
  <2>4. \A i \in DOMAIN answers'[c] :
           answers'[c][i].kind = "login" /\ answers'[c][i].errno = 0 => loggedIn'[c] = answers'[c][i].id
    <3> SUFFICES ASSUME NEW i \in DOMAIN answers'[c], answers'[c][i].kind = "login", answers'[c][i].errno = 0
                 PROVE  loggedIn'[c] = answers'[c][i].id
      OBVIOUS
    <3>1. PICK k \in DOMAIN answers[c] : answers[c][k] = answers'[c][i]
      BY DEF Aside, AnswersSame, Token
    <3>2. loggedIn[c] = answers[c][k].id
      BY <3>1 DEF ClientInv, HereInv
    <3> QED BY <3>1, <3>2 DEF Aside
  <2>5. Bound(c)' => loggedIn'[c] = Asker(c)'
    BY DEF Aside, ClientInv, HereInv
  <2>6. loggedIn'[c] # 0 =>
          \/ main'[c] = "menu" \/ Sent(c, {"logout", "close"})' \/ Bound(c)' \/ Welcomed(c)'
          \/ Entering(c)' \/ Stuck(c)'
    BY <1>1, <1>2 DEF Aside, ClientInv, HereInv
  <2> QED BY <2>1, <2>2, <2>3, <2>4, <2>5, <2>6 DEF HereInv
<1> QED BY <1>3, <1>4, <1>5 DEF ClientInv

(* A handler goes on within the stage of its login, or is none of a login *)
Stays(t, j) ==
    /\ j.req.op = job[t].req.op /\ j.req.id = job[t].req.id
    /\ Op(t) = "login" =>
          \/ Todo(t) \in Looking /\ j.todo \in Looking
          \/ Todo(t) \in PreBind /\ j.todo \in PreBind
          \/ Todo(t) \in PostBind /\ (j.todo \in PostBind \/ (j.todo = <<>> /\ j.ans.errno = 0))

StaysPut(t) ==
    /\ Op(t)' = Op(t) /\ Asker(t)' = Asker(t) /\ (Bound(t)' <=> Bound(t))

LEMMA StaysIs ==
    ASSUME DataInv, NEW t \in Thread, NEW j, job' = [job EXCEPT ![t] = j], Stays(t, j) PROVE StaysPut(t)
<1>1. job'[t] = j
  BY DEF DataInv
<1>2. Op(t)' = Op(t) /\ Asker(t)' = Asker(t)
  BY <1>1 DEF Stays, Op, Asker
<1>3. Todo(t)' = j.todo /\ Todo(t) = job[t].todo
  BY <1>1 DEF Todo
<1>4. CASE Op(t) # "login"
  BY <1>2, <1>4 DEF StaysPut, Bound
<1>5. CASE Op(t) = "login"
  <2>1. CASE Todo(t) \in Looking /\ j.todo \in Looking
    BY <1>2, <1>3, <2>1, PlanStages DEF StaysPut, Bound
  <2>2. CASE Todo(t) \in PreBind /\ j.todo \in PreBind
    BY <1>2, <1>3, <2>2, PlanStages DEF StaysPut, Bound
  <2>3. CASE Todo(t) \in PostBind /\ (j.todo \in PostBind \/ (j.todo = <<>> /\ j.ans.errno = 0))
    <3>1. Bound(t) /\ Bound(t)'
      BY <1>1, <1>2, <1>3, <1>5, <2>3 DEF Bound
    <3> QED BY <1>2, <3>1 DEF StaysPut
  <2> QED BY <1>5, <2>1, <2>2, <2>3 DEF Stays
<1> QED BY <1>4, <1>5

LEMMA PlainRunner ==
    ASSUME DataInv, NEW t \in Thread,
           NEW f \in {"insertUser", "createGroup", "insertOffline", "insertFriend", "addGroup", "addCreator",
                      "queryGroupUsers"}, Running(t, f)
    PROVE  t \in Client /\ job[t] \in JobState /\ Op(t) # "login"
<1>1. t \in Client /\ job[t] \in JobState /\ PlanFits(Op(t), Todo(t)) /\ Todo(t) # <<>> /\ Head(Todo(t)) = f
  BY RunningIs
<1>2. Op(t) # "login"
  BY <1>1, NextPlan
<1> QED BY <1>1, <1>2

LEMMA StatementStays ==
    ASSUME DataInv, NEW t \in Thread, Statement(t)
    PROVE  t \in Client /\ \E j : job' = [job EXCEPT ![t] = j] /\ Stays(t, j)
<1>1. CASE UserInsert(t) \/ GroupInsert(t)
  <2> DEFINE j == [job[t] EXCEPT !.got = "yes"]
  <2>1. /\ Running(t, "insertUser") \/ Running(t, "createGroup")
        /\ job' = [job EXCEPT ![t] = j]
    BY <1>1 DEF UserInsert, GroupInsert
  <2>2. t \in Client /\ job[t] \in JobState /\ Op(t) # "login"
    BY <2>1, PlainRunner
  <2>3. j.req = job[t].req
    BY <2>2 DEF JobState
  <2> QED BY <2>1, <2>2, <2>3 DEF Stays
<1>2. CASE InsertReturns(t)
  <2>1. job[t].got = "yes" /\ job' = [job EXCEPT ![t] = Then(t)]
    BY <1>2 DEF InsertReturns, Returns
  <2>2. t \in Client /\ job[t] \in JobState /\ PlanFits(Op(t), Todo(t)) /\ Todo(t) \in {<<"insertUser">>, <<"createGroup">>}
    <3>1. job[t] # NoJob
      BY <2>1 DEF NoJob
    <3> QED BY <2>1, <3>1, RunnerIs DEF DataInv, JobFits
  <2>3. Op(t) # "login"
    BY <2>2, Tail1, NextPlan
  <2>4. Then(t).req.op = job[t].req.op /\ Then(t).req.id = job[t].req.id
    BY <2>2 DEF Then, Done, JobState, AnyRequest
  <2> QED BY <2>1, <2>2, <2>3, <2>4 DEF Stays
<1>3. CASE InsertFails(t)
  <2>1. PICK j : /\ j \in {[Done(t) EXCEPT !.ans = [NoAnswer EXCEPT !.kind = "reg", !.errno = 1]], Done(t)}
                 /\ job' = [job EXCEPT ![t] = j]
                 /\ Running(t, "insertUser") \/ Running(t, "createGroup")
    BY <1>3 DEF InsertFails, Returns
  <2>2. t \in Client /\ job[t] \in JobState /\ Op(t) # "login"
    BY <2>1, PlainRunner
  <2>3. j.req = job[t].req
    BY <2>1, <2>2 DEF JobState, Done
  <2> QED BY <2>1, <2>2, <2>3 DEF Stays
<1>4. ASSUME NEW f \in {"insertOffline", "insertFriend", "addGroup", "addCreator", "queryGroupUsers"}, Running(t, f),
             NEW j, job' = [job EXCEPT ![t] = j], j.req = job[t].req
      PROVE  t \in Client /\ Stays(t, j)
  <2>1. t \in Client /\ Op(t) # "login"
    BY <1>4, PlainRunner
  <2> QED BY <1>4, <2>1 DEF Stays
<1>5. CASE OfflineInsert(t)
  <2>1. PICK u \in job[t].to : job' = [job EXCEPT ![t] = NextInsert(t, u)]
    BY <1>5 DEF OfflineInsert, Returns
  <2>2. job[t] \in JobState /\ Running(t, "insertOffline")
    BY <1>5, RunningIs DEF OfflineInsert
  <2>3. NextInsert(t, u).req = job[t].req
    BY <2>2 DEF NextInsert, Done, JobState
  <2> QED BY <2>1, <2>2, <2>3, <1>4
<1>6. CASE FriendInsert(t) \/ MemberInsert(t)
  <2>1. /\ job' = [job EXCEPT ![t] = Done(t)]
        /\ Running(t, "insertFriend") \/ Running(t, "addGroup") \/ Running(t, "addCreator")
    BY <1>6 DEF FriendInsert, MemberInsert, Returns
  <2>2. job[t] \in JobState
    BY DEF DataInv
  <2>3. Done(t).req = job[t].req
    BY <2>2 DEF Done, JobState
  <2> QED BY <2>1, <2>3, <1>4
<1>7. CASE GroupUsersQuery(t)
  <2>1. PICK to, td : job' = [job EXCEPT ![t] = [Done(t) EXCEPT !.to = to, !.ask = to, !.todo = td]]
    BY <1>7, Zenon DEF GroupUsersQuery
  <2>2. job[t] \in JobState /\ Running(t, "queryGroupUsers")
    BY <1>7, RunningIs DEF GroupUsersQuery
  <2>3. [Done(t) EXCEPT !.to = to, !.ask = to, !.todo = td].req = job[t].req
    BY <2>2 DEF Done, JobState
  <2> QED BY <2>1, <2>2, <2>3, <1>4
<1>8. ASSUME NEW f \in {"queryUser", "setOnline", "setOffline", "queryOffline", "removeOffline",
                        "queryFriends", "queryGroups"},
             Running(t, f), NEW j, job' = [job EXCEPT ![t] = j], j.req = job[t].req,
             j.todo = Tail(Todo(t)) \/ (f = "queryOffline" /\ j.todo = <<"removeOffline">> \o Tail(Todo(t))),
             j.ans.errno = job[t].ans.errno
      PROVE  t \in Client /\ Stays(t, j)
  <2>1. /\ t \in Client /\ Todo(t) # <<>> /\ Head(Todo(t)) = f /\ PlanFits(Op(t), Todo(t))
        /\ Op(t) = "login" => LoginFits(job[t])
    BY <1>8, RunningIs
  <2>2. ASSUME Op(t) = "login"
        PROVE  \/ Todo(t) \in Looking /\ j.todo \in Looking
               \/ Todo(t) \in PreBind /\ j.todo \in PreBind
               \/ Todo(t) \in PostBind /\ (j.todo \in PostBind \/ (j.todo = <<>> /\ j.ans.errno = 0))
    <3> DEFINE fg == <<"queryFriends", "queryGroups">>
    <3>1. CASE f = "queryUser"
      <4>1. Todo(t) \in Looking /\ j.todo = <<"check">>
        BY <1>8, <2>1, <3>1, NextPlan
      <4> QED BY <4>1, PlanStages
    <3>2. CASE f = "setOffline"
      <4>1. Todo(t) \in PreBind /\ j.todo = <<"addConn", "bindUser">>
        BY <1>8, <2>1, <2>2, <3>2, NextPlan
      <4> QED BY <4>1, PlanStages
    <3>3. CASE f = "setOnline"
      <4>1. Todo(t) \in PostBind /\ j.todo = <<"queryOffline", "queryFriends", "queryGroups">>
        BY <1>8, <2>1, <3>3, NextPlan
      <4> QED BY <4>1, PlanStages
    <3>5. CASE f = "queryOffline"
      <4>1. Todo(t) \in PostBind /\ Tail(Todo(t)) = fg
        BY <2>1, <3>5, NextPlan
      <4>2. j.todo = fg \/ j.todo = <<"removeOffline">> \o fg
        BY <1>8, <4>1
      <4> QED BY <4>1, <4>2, PlanStages
    <3>6. CASE f = "removeOffline"
      <4>1. Todo(t) \in PostBind /\ j.todo = fg
        BY <1>8, <2>1, <3>6, NextPlan
      <4> QED BY <4>1, PlanStages
    <3>7. CASE f = "queryFriends"
      <4>1. Todo(t) \in PostBind /\ j.todo = <<"queryGroups">>
        BY <1>8, <2>1, <3>7, NextPlan
      <4> QED BY <4>1, PlanStages
    <3>4. CASE f = "queryGroups"
      <4>1. Todo(t) \in PostBind /\ j.todo = <<>>
        BY <1>8, <2>1, <3>4, NextPlan
      <4>2. job[t].ans.errno = 0
        BY <2>1, <2>2, <4>1 DEF LoginFits, Todo
      <4> QED BY <1>8, <4>1, <4>2
    <3> QED BY <1>8, <3>1, <3>2, <3>3, <3>4, <3>5, <3>6, <3>7
  <2> QED BY <1>8, <2>1, <2>2 DEF Stays
<1>9. CASE UserQuery(t)
  <2>1. PICK s : job' = [job EXCEPT ![t] = [Done(t) EXCEPT !.state = s]]
    BY <1>9 DEF UserQuery, Returns
  <2>2. job[t] \in JobState /\ Running(t, "queryUser")
    BY <1>9, RunningIs DEF UserQuery
  <2> DEFINE j == [Done(t) EXCEPT !.state = s]
  <2>3. j.req = job[t].req /\ j.todo = Tail(Todo(t)) /\ j.ans = job[t].ans
    BY <2>2 DEF Done, JobState, Todo
  <2> HIDE DEF j
  <2> QED BY <2>1, <2>2, <2>3, <1>8 DEF j
<1>10. CASE UpdateState(t)
  <2>1. /\ job' = [job EXCEPT ![t] = [Done(t) EXCEPT !.to = {}]]
        /\ Running(t, "setOnline") \/ Running(t, "setOffline")
    BY <1>10 DEF UpdateState, Returns
  <2>2. job[t] \in JobState
    BY DEF DataInv
  <2> DEFINE j == [Done(t) EXCEPT !.to = {}]
  <2>3. j.req = job[t].req /\ j.todo = Tail(Todo(t)) /\ j.ans = job[t].ans
    BY <2>2 DEF Done, JobState, Todo
  <2> HIDE DEF j
  <2> QED BY <2>1, <2>2, <2>3, <1>8 DEF j
<1>11. CASE OfflineQuery(t)
  <2> DEFINE rows == offline[Asker(t)]
             j == [Done(t) EXCEPT !.ans.rows = rows,
                                  !.todo = IF rows = <<>> THEN @ ELSE <<"removeOffline">> \o @]
  <2>1. job' = [job EXCEPT ![t] = j] /\ Running(t, "queryOffline")
    BY <1>11 DEF OfflineQuery, Returns
  <2>2. job[t] \in JobState
    BY DEF DataInv
  <2>3. /\ j.req = job[t].req /\ j.todo = (IF rows = <<>> THEN Tail(Todo(t)) ELSE <<"removeOffline">> \o Tail(Todo(t)))
        /\ j.ans.errno = job[t].ans.errno
    BY <2>2 DEF Done, JobState, Todo, Answer
  <2> HIDE DEF j
  <2> QED BY <2>1, <2>3, <1>8
<1>12. CASE OfflineRemove(t)
  <2>1. job' = [job EXCEPT ![t] = Done(t)] /\ Running(t, "removeOffline") /\ job[t] \in JobState
    BY <1>12 DEF OfflineRemove, Returns, DataInv
  <2>2. Done(t).req = job[t].req /\ Done(t).todo = Tail(Todo(t)) /\ Done(t).ans = job[t].ans
    BY <2>1 DEF Done, JobState, Todo
  <2> QED BY <2>1, <2>2, <1>8
<1>13. CASE FriendQuery(t)
  <2> DEFINE j == [Done(t) EXCEPT !.ans.friends = {f \in friend : f[1] = Asker(t)}]
  <2>1. job' = [job EXCEPT ![t] = j] /\ Running(t, "queryFriends") /\ job[t] \in JobState
    BY <1>13 DEF FriendQuery, Returns, DataInv
  <2>2. j.req = job[t].req /\ j.todo = Tail(Todo(t)) /\ j.ans.errno = job[t].ans.errno
    BY <2>1 DEF Done, JobState, Todo, Answer
  <2> HIDE DEF j
  <2> QED BY <2>1, <2>2, <1>8
<1>14. CASE GroupQuery(t)
  <2> DEFINE j == [Done(t) EXCEPT !.ans.groups = {g \in DOMAIN group : <<g, Asker(t)>> \in member}]
  <2>1. job' = [job EXCEPT ![t] = j] /\ Running(t, "queryGroups") /\ job[t] \in JobState
    BY <1>14 DEF GroupQuery, Returns, DataInv
  <2>2. j.req = job[t].req /\ j.todo = Tail(Todo(t)) /\ j.ans.errno = job[t].ans.errno
    BY <2>1 DEF Done, JobState, Todo, Answer
  <2> HIDE DEF j
  <2> QED BY <2>1, <2>2, <1>8
<1> QED BY <1>1, <1>2, <1>3, <1>5, <1>6, <1>7, <1>9, <1>10, <1>11, <1>12, <1>13, <1>14 DEF Statement

(* The two threads of client c do nothing *)
Still(c) ==
    /\ main'[c] = main[c] /\ reader'[c] = reader[c] /\ sem'[c] = sem[c]
    /\ isLoginSuccess'[c] = isLoginSuccess[c] /\ currentUser'[c] = currentUser[c]

LEMMA SameJobStays == ASSUME NEW t, job'[t] = job[t] PROVE StaysPut(t)
<1>1. Op(t)' = Op(t) /\ Asker(t)' = Asker(t) /\ Todo(t)' = Todo(t)
  BY DEF Op, Asker, Todo
<1> QED BY <1>1 DEF StaysPut, Bound

LEMMA StillAside ==
    ASSUME DataInv, NEW c \in Client, ClientInv(c), Still(c), requests'[c] = requests[c], AnswersSame(c),
           loggedIn'[c] = loggedIn[c], StaysPut(c)
    PROVE  Aside(c)
<1>1. Posted(c)' <=> Posted(c)
  BY DEF Posted, Still
<1>2. sem'[c] \in {0, 1} /\ (reader'[c] = "post" => sem'[c] = 0)
  BY DEF Still, ClientInv, TurnInv
<1> QED BY <1>1, <1>2 DEF Aside, Still, StaysPut

LEMMA StatementAnswers ==
    ASSUME DataInv, NEW t \in Thread, Statement(t), NEW c \in Client
    PROVE  /\ userConnMap' = userConnMap /\ loggedIn' = loggedIn /\ requests' = requests
           /\ \/ answers'[c] = answers[c]
              \/ \E a \in Answer : a.kind = "live" /\ answers'[c] = Append(answers[c], a)
<1>1. CASE GroupUsersQuery(t)
  <2>1. Running(t, "queryGroupUsers") /\ UNCHANGED <<userConnMap, session, loggedIn, requests>>
    BY <1>1 DEF GroupUsersQuery
  <2>2. answers'[c] = answers[c] \/ answers'[c] = Append(answers[c], Live(job[t].req.text))
    BY <1>1 DEF GroupUsersQuery
  <2>3. job[t].req.text \in Words
    BY DEF DataInv, JobState, AnyRequest
  <2>4. Live(job[t].req.text) \in Answer /\ Live(job[t].req.text).kind = "live"
    BY <2>3, LiveFits
  <2> QED BY <2>1, <2>2, <2>4
<1>2. CASE UserInsert(t) \/ GroupInsert(t) \/ InsertReturns(t) \/ InsertFails(t)
  BY <1>2 DEF UserInsert, GroupInsert, InsertReturns, InsertFails, Returns, wire
<1>3. CASE UserQuery(t) \/ UpdateState(t) \/ OfflineQuery(t) \/ OfflineRemove(t)
  BY <1>3 DEF UserQuery, UpdateState, OfflineQuery, OfflineRemove, Returns, wire
<1>4. CASE OfflineInsert(t) \/ FriendQuery(t) \/ FriendInsert(t) \/ MemberInsert(t) \/ GroupQuery(t)
  BY <1>4 DEF OfflineInsert, FriendQuery, FriendInsert, MemberInsert, GroupQuery, Returns, wire
<1> QED BY <1>1, <1>2, <1>3, <1>4 DEF Statement

LEMMA AppendsSame ==
    ASSUME DataInv, NEW c \in Client, OrderInv(c),
           \/ answers'[c] = answers[c]
           \/ \E a \in Answer : a.kind = "live" /\ answers'[c] = Append(answers[c], a)
    PROVE  AnswersSame(c)
<1>1. answers[c] \in Seq(Answer)
  BY DEF DataInv
<1> QED BY <1>1, KeptSame, LiveSame

LEMMA StatementInv ==
    ASSUME DataInv, NEW t \in Thread, Statement(t), UNCHANGED clientVars, NEW c \in Client, ClientInv(c)
    PROVE  ClientInv(c)'
<1>1. /\ loggedIn' = loggedIn /\ requests' = requests
      /\ AnswersSame(c)
  BY StatementAnswers, AppendsSame DEF ClientInv
<1>2. Still(c)
  BY DEF clientVars, Still
<1>3. StaysPut(c)
  <2>1. PICK j : t \in Client /\ job' = [job EXCEPT ![t] = j] /\ Stays(t, j)
    BY StatementStays
  <2>2. CASE c = t
    BY <2>1, <2>2, StaysIs
  <2>3. CASE c # t
    BY <2>1, <2>3, SameJobStays DEF DataInv
  <2> QED BY <2>2, <2>3
<1>4. Aside(c)
  BY <1>1, <1>2, <1>3, StillAside
<1> QED BY <1>4, AsideInv

(* Nothing of client c, its connection or its handler changes *)
LEMMA SameInv ==
    ASSUME DataInv, NEW c \in Client, ClientInv(c), Still(c), requests'[c] = requests[c], answers'[c] = answers[c],
           job'[c] = job[c], loggedIn'[c] = loggedIn[c]
    PROVE  ClientInv(c)'
<1>1. StaysPut(c)
  BY SameJobStays
<1>2. AnswersSame(c)
  BY KeptSame DEF ClientInv
<1>3. Aside(c)
  BY <1>1, <1>2, StillAside
<1> QED BY <1>3, AsideInv

LEMMA PoolStepInv ==
    ASSUME DataInv, UNCHANGED <<job, userConnMap, session, loggedIn, wire, main, reader, sem, isLoginSuccess, currentUser>>,
           NEW c \in Client, ClientInv(c)
    PROVE  ClientInv(c)'
<1>1. Still(c) /\ requests'[c] = requests[c] /\ answers'[c] = answers[c] /\ job'[c] = job[c]
      /\ loggedIn'[c] = loggedIn[c]
  BY DEF Still, wire
<1> QED BY <1>1, SameInv

(* The thread of a client takes its next request *)
(* What is so when the handler of c takes r from its connection *)
Taken(c, r) ==
    /\ Op(c) = "none" /\ ~Bound(c) /\ ~Told(c) /\ ~Posted(c)
    /\ ~Stuck(c) /\ ~Entering(c) /\ ~Welcomed(c)
    /\ \A i, j \in DOMAIN requests'[c] : i < j =>
          /\ requests'[c][i].op \notin Token \union {"close"}
          /\ requests'[c][i].op = "logout" => requests'[c][j].op \notin Commands \union {"logout"}
    /\ \A i \in DOMAIN requests'[c] :
          /\ requests'[c][i].op \in Token => main[c] = Waits(requests'[c][i].op)
          /\ requests'[c][i].op \in Commands \union {"logout"} => loggedIn[c] = requests'[c][i].id
          /\ requests'[c][i].id \in UserId \/ requests'[c][i].op \notin Commands \union {"logout"}
    /\ r.op \in Token \union {"close"} => requests'[c] = <<>>
    /\ r.op = "logout" => \A i \in DOMAIN requests'[c] : requests'[c][i].op \notin Commands \union {"logout"}
    /\ r.op \in Token => main[c] = Waits(r.op)
    /\ r.op \in Commands \union {"logout"} => loggedIn[c] = r.id /\ r.id \in UserId
    /\ r.op = "logout" => main[c] # "menu"
    /\ r.op = "close" => main[c] = "gone"
    /\ \A ops : Sent(c, ops)' => Sent(c, ops)
    /\ \A ops : Sent(c, ops) /\ r.op \notin ops => Sent(c, ops)'

LEMMA TakeIs ==
    ASSUME DataInv, NEW c \in Client, ClientInv(c), requests[c] # <<>>, ~Busy(c), requests'[c] = Tail(requests[c]),
           NEW r, r = Head(requests[c])
    PROVE  Taken(c, r)
<1> DEFINE s == requests[c]  x == requests'[c]
<1>1. /\ r = s[1] /\ 1 \in DOMAIN s
      /\ \A i \in DOMAIN x : i + 1 \in DOMAIN s /\ x[i] = s[i + 1] /\ 1 < i + 1
      /\ \A i, j \in DOMAIN x : i < j => i + 1 < j + 1
      /\ \A k \in DOMAIN s : k = 1 \/ (1 < k /\ k - 1 \in DOMAIN x /\ x[k - 1] = s[k])
      /\ (\A k \in DOMAIN s : ~(1 < k)) => x = <<>>
  <2>1. s \in Seq(Request) /\ s # <<>> /\ x = Tail(s) /\ r = Head(s)
    BY DEF DataInv
  <2>2. /\ Head(s) = s[1] /\ 1 \in DOMAIN s
        /\ \A i \in DOMAIN x : i + 1 \in DOMAIN s /\ x[i] = s[i + 1] /\ 1 < i + 1
        /\ \A i, j \in DOMAIN x : i < j => i + 1 < j + 1
        /\ \A k \in DOMAIN s : k = 1 \/ (1 < k /\ k - 1 \in DOMAIN x /\ x[k - 1] = s[k])
        /\ (\A k \in DOMAIN s : ~(1 < k)) => x = <<>>
    BY <2>1, TailIs
  <2> QED BY <2>1, <2>2
<1>2. /\ \A i, j \in DOMAIN s : i < j =>
            /\ s[i].op \notin Token \union {"close"}
            /\ s[i].op = "logout" => s[j].op \notin Commands \union {"logout"}
      /\ \A i \in DOMAIN s : s[i].op \in Token => main[c] = Waits(s[i].op)
      /\ \A i \in DOMAIN s : s[i].op \in Commands \union {"logout"} => loggedIn[c] = s[i].id /\ s[i].id \in UserId
  <2>1. \A i \in DOMAIN s : RequestFits(s[i], DOMAIN user)
    BY DEF DataInv, RequestsOK
  <2> QED BY <2>1 DEF ClientInv, OrderInv, TurnInv, HereInv, RequestFits
<1>3. Op(c) = "none" /\ ~Bound(c)
  BY DEF Busy, NoRequest, Op, Bound
<1>4. ~Quiet(c) /\ ~Told(c) /\ ~Posted(c)
  BY DEF Quiet, ClientInv, TurnInv
<1>5. ~Stuck(c) /\ ~Entering(c) /\ ~Welcomed(c)
  BY <1>4 DEF Stuck, Entering, Welcomed, Told, Token
<1>6. /\ \A i, j \in DOMAIN x : i < j =>
            /\ x[i].op \notin Token \union {"close"}
            /\ x[i].op = "logout" => x[j].op \notin Commands \union {"logout"}
      /\ \A i \in DOMAIN x :
            /\ x[i].op \in Token => main[c] = Waits(x[i].op)
            /\ x[i].op \in Commands \union {"logout"} => loggedIn[c] = x[i].id
            /\ x[i].id \in UserId \/ x[i].op \notin Commands \union {"logout"}
  <2> HIDE DEF s, x
  <2> QED BY <1>1, <1>2
<1>7. /\ r.op \in Token \union {"close"} => x = <<>>
      /\ r.op = "logout" => \A i \in DOMAIN x : x[i].op \notin Commands \union {"logout"}
      /\ r.op \in Token => main[c] = Waits(r.op)
      /\ r.op \in Commands \union {"logout"} => loggedIn[c] = r.id /\ r.id \in UserId
  <2> HIDE DEF s, x
  <2> QED BY <1>1, <1>2
<1>8. \A ops : r.op \in ops => Sent(c, ops)
  BY <1>1 DEF Sent
<1>9. r.op = "logout" => main[c] # "menu"
  BY <1>8 DEF ClientInv, HereInv
<1>10. r.op = "close" => main[c] = "gone"
  BY <1>8 DEF ClientInv, HereInv
<1>11. \A ops : Sent(c, ops)' => Sent(c, ops)
  BY <1>1 DEF Sent
<1>12. \A ops : Sent(c, ops) /\ r.op \notin ops => Sent(c, ops)'
  BY <1>1 DEF Sent
<1> QED BY <1>3, <1>4, <1>5, <1>6, <1>7, <1>9, <1>10, <1>11, <1>12 DEF Taken

LEMMA SameTold ==
    ASSUME NEW c, AnswersSame(c) PROVE (Told(c)' <=> Told(c)) /\ (Welcomed(c)' <=> Welcomed(c))
<1>1. Told(c)' <=> Told(c)
  BY DEF Told, AnswersSame
<1>2. Welcomed(c)' <=> Welcomed(c)
  BY DEF Welcomed, AnswersSame, Token
<1> QED BY <1>1, <1>2

(* reg, login and the commands begin *)
LEMMA BegunInv ==
    ASSUME DataInv, NEW c \in Client, ClientInv(c), requests[c] # <<>>, ~Busy(c), requests'[c] = Tail(requests[c]),
           NEW r, r = Head(requests[c]), r.op \in Token \union Commands, Still(c), loggedIn'[c] = loggedIn[c],
           AnswersSame(c), Op(c)' = r.op \/ (Op(c)' = "none" /\ r.op \notin Token), ~Bound(c)'
    PROVE  ClientInv(c)'
<1>1. /\ Op(c) = "none" /\ ~Bound(c) /\ ~Told(c) /\ ~Posted(c)
      /\ ~Stuck(c) /\ ~Entering(c) /\ ~Welcomed(c)
      /\ \A i, j \in DOMAIN requests'[c] : i < j =>
            /\ requests'[c][i].op \notin Token \union {"close"}
            /\ requests'[c][i].op = "logout" => requests'[c][j].op \notin Commands \union {"logout"}
      /\ \A i \in DOMAIN requests'[c] :
            /\ requests'[c][i].op \in Token => main[c] = Waits(requests'[c][i].op)
            /\ requests'[c][i].op \in Commands \union {"logout"} => loggedIn[c] = requests'[c][i].id
      /\ r.op \in Token \union {"close"} => requests'[c] = <<>>
      /\ r.op \in Token => main[c] = Waits(r.op)
      /\ \A ops : Sent(c, ops)' => Sent(c, ops)
      /\ \A ops : Sent(c, ops) /\ r.op \notin ops => Sent(c, ops)'
  <2>1. Taken(c, r)
    BY TakeIs
  <2> QED BY ONLY <2>1 DEF Taken
<1>2. ~Told(c)' /\ ~Welcomed(c)' /\ ~Posted(c)'
  BY <1>1, SameTold DEF Posted, Still
<1>3. OrderInv(c)'
  BY <1>1 DEF OrderInv, AnswersSame
<1>4. ~Sent(c, Token)' \/ Op(c)' \notin Token
  <2>1. requests'[c] = <<>> => ~Sent(c, Token)'
    <3>1. DOMAIN <<>> = {}
      OBVIOUS
    <3> QED BY <3>1 DEF Sent
  <2>2. Op(c)' \in Token => Op(c)' = r.op
    BY DEF Token
  <2> QED BY <1>1, <2>1, <2>2
<1>5. \A i \in DOMAIN answers'[c] : answers'[c][i].kind \notin Token
  BY <1>2 DEF Told
<1>6. TurnInv(c)'
  <2>1. sem'[c] \in {0, 1} /\ (reader'[c] = "post" => sem'[c] = 0)
    BY DEF ClientInv, TurnInv, Still
  <2>2. \A i \in DOMAIN requests'[c] : requests'[c][i].op \in Token => main'[c] = Waits(requests'[c][i].op)
    BY <1>1 DEF Still
  <2>3. Op(c)' \in Token => main'[c] = Waits(Op(c)')
    <3>1. Op(c)' \in Token => Op(c)' = r.op
      BY DEF Token
    <3> QED BY <1>1, <3>1 DEF Still
  <2>4. Op(c)' \in Token => requests'[c] = <<>>
    BY <1>1 DEF Token
  <2> QED BY <1>2, <1>4, <1>5, <2>1, <2>2, <2>3, <2>4 DEF TurnInv, Waits
<1>7. HereInv(c)'
  <2>1. ~Entering(c)'
    BY <1>2 DEF Entering
  <2>2. \A i \in DOMAIN requests'[c] :
           requests'[c][i].op \in Commands \union {"logout"} => loggedIn'[c] = requests'[c][i].id
    BY <1>1
  <2>3. /\ Sent(c, {"logout"})' => main'[c] # "menu"
        /\ Sent(c, {"close"})' => main'[c] = "gone"
    BY <1>1 DEF ClientInv, HereInv, Still
  <2>4. main'[c] = "menu" => loggedIn'[c] = currentUser'[c]
    BY DEF ClientInv, HereInv, Still
  <2>5. ASSUME loggedIn'[c] # 0 PROVE main'[c] = "menu" \/ Sent(c, {"logout", "close"})'
    <3>1. main[c] = "menu" \/ Sent(c, {"logout", "close"})
      BY <1>1, <2>5 DEF ClientInv, HereInv
    <3>2. r.op \notin {"logout", "close"}
      BY DEF Token, Commands
    <3> QED BY <1>1, <3>1, <3>2 DEF Still
  <2>6. \A i \in DOMAIN answers'[c] : answers'[c][i].kind # "login"
    BY <1>5 DEF Token
  <2> QED BY <2>1, <2>2, <2>3, <2>4, <2>5, <2>6 DEF HereInv
<1> QED BY <1>3, <1>6, <1>7 DEF ClientInv

(* logout and the close of the connection: nobody is logged in on it any more *)
LEMMA LeftInv ==
    ASSUME DataInv, NEW c \in Client, ClientInv(c), requests[c] # <<>>, ~Busy(c), requests'[c] = Tail(requests[c]),
           NEW r, r = Head(requests[c]), r.op \in {"logout", "close"}, Still(c), AnswersSame(c),
           loggedIn'[c] = 0, Op(c)' = r.op
    PROVE  ClientInv(c)'
<1>1. /\ ~Told(c) /\ ~Posted(c)
      /\ \A i, j \in DOMAIN requests'[c] : i < j =>
            /\ requests'[c][i].op \notin Token \union {"close"}
            /\ requests'[c][i].op = "logout" => requests'[c][j].op \notin Commands \union {"logout"}
      /\ \A i \in DOMAIN requests'[c] :
            /\ requests'[c][i].op \in Token => main[c] = Waits(requests'[c][i].op)
            /\ requests'[c][i].op \in Commands \union {"logout"} => loggedIn[c] = requests'[c][i].id
            /\ requests'[c][i].id \in UserId \/ requests'[c][i].op \notin Commands \union {"logout"}
      /\ r.op \in Token \union {"close"} => requests'[c] = <<>>
      /\ r.op = "logout" => \A i \in DOMAIN requests'[c] : requests'[c][i].op \notin Commands \union {"logout"}
      /\ r.op = "logout" => main[c] # "menu"
      /\ r.op = "close" => main[c] = "gone"
      /\ \A ops : Sent(c, ops)' => Sent(c, ops)
  <2>1. Taken(c, r)
    BY TakeIs
  <2> QED BY ONLY <2>1 DEF Taken
<1>2. ~Told(c)' /\ ~Welcomed(c)' /\ ~Posted(c)'
  <2>1. ~Welcomed(c)
    BY <1>1 DEF Told, Welcomed, Token
  <2> QED BY <1>1, <2>1, SameTold DEF Posted, Still
<1>3. OrderInv(c)'
  BY <1>1 DEF OrderInv, AnswersSame
<1>4. \A i \in DOMAIN answers'[c] : answers'[c][i].kind \notin Token
  BY <1>2 DEF Told
<1>5. Op(c)' \notin Token /\ ~Bound(c)'
  BY DEF Token, Bound
<1>6. TurnInv(c)'
  <2>1. sem'[c] \in {0, 1} /\ (reader'[c] = "post" => sem'[c] = 0)
    BY DEF ClientInv, TurnInv, Still
  <2>2. \A i \in DOMAIN requests'[c] : requests'[c][i].op \in Token => main'[c] = Waits(requests'[c][i].op)
    BY <1>1 DEF Still
  <2> QED BY <1>2, <1>4, <1>5, <2>1, <2>2 DEF TurnInv, Waits
<1>7. HereInv(c)'
  <2>1. \A i \in DOMAIN requests'[c] : requests'[c][i].op \notin Commands \union {"logout"}
    <3>1. DOMAIN <<>> = {}
      OBVIOUS
    <3> QED BY <1>1, <3>1
  <2>2. /\ Sent(c, {"logout"})' => main'[c] # "menu"
        /\ Sent(c, {"close"})' => main'[c] = "gone"
    BY <1>1 DEF ClientInv, HereInv, Still
  <2>3. main'[c] # "menu" /\ ~Entering(c)'
    BY <1>1, <1>2 DEF Still, Entering
  <2>4. \A i \in DOMAIN answers'[c] : answers'[c][i].kind # "login"
    BY <1>4 DEF Token
  <2> QED BY <1>5, <2>1, <2>2, <2>3, <2>4 DEF HereInv
<1> QED BY <1>3, <1>6, <1>7 DEF ClientInv

(* login up to its bindUser, and the handlers that look for sessions: whom a connection has  *)
(* let in stays                                                                     *)
LEMMA UnboundIs ==
    ASSUME DataInv, NEW c \in Client, Goes(c), ~BindUser(c)
    PROVE  job'[c].req = job[c].req /\ ~Bound(c) /\ ~Bound(c)' /\ loggedIn' = loggedIn
<1>0. job \in [Thread -> JobState] /\ c \in Thread
  BY AccountsAssumption DEF DataInv
<1>1. CASE Check(c)
  <2> DEFINE errno == IF Asker(c) = 0 THEN 1 ELSE IF Asker(c) \in session THEN 2 ELSE 0
             td == IF errno # 0 THEN <<>>
                   ELSE IF job[c].state = "online" THEN <<"setOffline", "addConn", "bindUser">>
                        ELSE <<"addConn", "bindUser">>
  <2>1. /\ Next1(c, "check") /\ loggedIn' = loggedIn
        /\ job' = [job EXCEPT ![c].ans = Login(c, errno), ![c].todo = td]
    BY <1>1 DEF Check
  <2>2. job[c] \in JobState /\ Todo(c) = <<"check">>
    BY <2>1, LoggerIs
  <2>3. /\ job'[c].req = job[c].req /\ job'[c].ans = Login(c, errno) /\ job'[c].todo = td
    <3> HIDE DEF td, errno
    <3> QED BY <1>0, <2>1, <2>2 DEF JobState
  <2>4. Login(c, errno).errno = errno
    BY DEF Login, NoAnswer
  <2>5. td \in PreBind \/ (td = <<>> /\ errno # 0)
    BY PlanStages
  <2>6. ~Bound(c)
    BY <2>2, PlanStages DEF Bound
  <2>7. ~Bound(c)'
    <3>1. td \notin PostBind /\ (td = <<>> => Login(c, errno).errno # 0)
      BY <2>4, <2>5, PlanStages
    <3> HIDE DEF td, errno
    <3> QED BY <2>3, <3>1 DEF Bound, Todo
  <2> QED BY <2>1, <2>3, <2>6, <2>7
<1>2. CASE AddConn(c)
  <2>1. Next1(c, "addConn") /\ loggedIn' = loggedIn /\ job' = [job EXCEPT ![c].todo = Tail(@)]
    BY <1>2 DEF AddConn
  <2>2. job[c] \in JobState /\ Todo(c) = <<"addConn", "bindUser">> /\ Tail(Todo(c)) = <<"bindUser">>
    BY <2>1, LoggerIs
  <2>3. job'[c].req = job[c].req /\ Todo(c)' = <<"bindUser">>
    BY <1>0, <2>1, <2>2 DEF JobState, Todo
  <2> QED BY <2>1, <2>2, <2>3, PlanStages DEF Bound
<1>3. CASE BindRefused(c)
  <2>1. Next1(c, "bindUser") /\ loggedIn' = loggedIn /\ job' = [job EXCEPT ![c].todo = <<"removeConn">>]
    BY <1>3 DEF BindRefused
  <2>2. job[c] \in JobState /\ Todo(c) = <<"bindUser">>
    BY <2>1, LoggerIs
  <2>3. job'[c].req = job[c].req /\ Todo(c)' = <<"removeConn">>
    BY <1>0, <2>1, <2>2 DEF JobState, Todo
  <2> QED BY <2>1, <2>2, <2>3, PlanStages DEF Bound
<1>4. CASE LoginUndo(c)
  <2>1. /\ Next1(c, "removeConn") /\ loggedIn' = loggedIn
        /\ job' = [job EXCEPT ![c].ans = Login(c, 3), ![c].todo = <<>>]
    BY <1>4 DEF LoginUndo
  <2>2. job[c] \in JobState /\ Todo(c) = <<"removeConn">>
    BY <2>1, LoggerIs
  <2>3. job'[c].req = job[c].req /\ Todo(c)' = <<>> /\ job'[c].ans = Login(c, 3)
    BY <1>0, <2>1, <2>2 DEF JobState, Todo
  <2>4. Login(c, 3).errno = 3
    BY DEF Login, NoAnswer
  <2> QED BY <2>1, <2>2, <2>3, <2>4, PlanStages DEF Bound
<1>5. CASE Resolve(c) \/ UnbindUser(c)
  <2>1. PICK j \in JobState : /\ job' = [job EXCEPT ![c] = j] /\ j.req = job[c].req
                              /\ Op(c) \in {"chat", "groupChat", "logout", "close"} /\ loggedIn' = loggedIn
    BY <1>5, ResolveIs DEF Resolved
  <2>2. job'[c] = j
    BY <1>0, <2>1
  <2>3. Op(c) # "login" /\ Op(c)' = Op(c)
    BY <2>1, <2>2 DEF Op
  <2> QED BY <2>1, <2>2, <2>3 DEF Bound
<1> QED BY <1>1, <1>2, <1>3, <1>4, <1>5 DEF Goes

LEMMA UnboundInv ==
    ASSUME DataInv, NEW c \in Client, Goes(c), ~BindUser(c), UNCHANGED clientVars, ClientInv(c) PROVE ClientInv(c)'
<1>1. job'[c].req = job[c].req /\ ~Bound(c) /\ ~Bound(c)' /\ loggedIn'[c] = loggedIn[c]
  BY UnboundIs
<1>2. Still(c) /\ requests'[c] = requests[c] /\ answers'[c] = answers[c]
  BY GoesIs DEF Still, clientVars, wire
<1>3. StaysPut(c)
  BY <1>1 DEF StaysPut, Op, Asker
<1>4. AnswersSame(c)
  BY <1>2, KeptSame DEF ClientInv
<1>5. Aside(c)
  BY <1>1, <1>2, <1>3, <1>4, StillAside
<1> QED BY <1>5, AsideInv

(* The waiting client of a login that is not answered is logged in only if it is bound *)
LEMMA TokenAlone ==
    ASSUME NEW c \in Client, ClientInv(c), Op(c) \in Token
    PROVE  /\ requests[c] = <<>> /\ ~Told(c) /\ ~Posted(c) /\ main[c] = Waits(Op(c)) /\ ~Sent(c, Token)
           /\ \A ops : ~Sent(c, ops)
           /\ \A i \in DOMAIN answers[c] : answers[c][i].kind \notin Token
           /\ main[c] # "menu" /\ ~Welcomed(c) /\ ~Entering(c) /\ ~Stuck(c)
           /\ loggedIn[c] # 0 => Bound(c)
<1>1. requests[c] = <<>> /\ ~Told(c) /\ ~Posted(c) /\ main[c] = Waits(Op(c)) /\ ~Sent(c, Token)
  BY DEF ClientInv, TurnInv
<1>2. \A ops : ~Sent(c, ops)
  <2>1. DOMAIN <<>> = {}
    OBVIOUS
  <2> QED BY <1>1, <2>1 DEF Sent
<1>3. \A i \in DOMAIN answers[c] : answers[c][i].kind \notin Token
  BY <1>1 DEF Told
<1>4. main[c] # "menu" /\ ~Welcomed(c) /\ ~Entering(c) /\ ~Stuck(c)
  BY <1>1, <1>3 DEF Waits, Welcomed, Entering, Stuck, Quiet, Token
<1>5. loggedIn[c] # 0 => Bound(c)
  BY <1>2, <1>4 DEF ClientInv, HereInv
<1> QED BY <1>1, <1>2, <1>3, <1>4, <1>5

LEMMA BindInv ==
    ASSUME DataInv, NEW c \in Client, BindUser(c), UNCHANGED clientVars, ClientInv(c) PROVE ClientInv(c)'
<1> DEFINE td == <<"setOnline", "queryOffline", "queryFriends", "queryGroups">>
<1>1. /\ Next1(c, "bindUser") /\ UNCHANGED wire /\ loggedIn' = [loggedIn EXCEPT ![c] = Asker(c)]
      /\ job' = [job EXCEPT ![c].todo = td]
  BY DEF BindUser
<1>2. job[c] \in JobState /\ Op(c) = "login" /\ Todo(c) = <<"bindUser">> /\ Asker(c) \in UserId
  BY <1>1, LoggerIs
<1>3. ~Bound(c)
  BY <1>2, PlanStages DEF Bound
<1>4. job'[c].req = job[c].req /\ job'[c].todo = td
  <2>1. job \in [Thread -> JobState]
    BY DEF DataInv
  <2> QED BY <1>1, <1>2, <2>1, AccountsAssumption DEF JobState
<1>5. Op(c)' = "login" /\ Asker(c)' = Asker(c) /\ Bound(c)'
  <2>1. Op(c)' = "login" /\ Asker(c)' = Asker(c) /\ Todo(c)' = td
    BY <1>2, <1>4 DEF Op, Asker, Todo
  <2> QED BY <2>1, PlanStages DEF Bound
<1>6. /\ requests[c] = <<>> /\ ~Told(c) /\ ~Posted(c) /\ main[c] = Waits(Op(c)) /\ ~Sent(c, Token)
      /\ \A ops : ~Sent(c, ops)
      /\ \A i \in DOMAIN answers[c] : answers[c][i].kind \notin Token
      /\ main[c] # "menu" /\ ~Entering(c)
  BY <1>2, <1>3, TokenAlone DEF Token
<1>7. Still(c) /\ requests'[c] = requests[c] /\ answers'[c] = answers[c]
  BY <1>1 DEF Still, clientVars, wire
<1>9. loggedIn'[c] = Asker(c)
  BY <1>1 DEF DataInv, TablesOK
<1>10. OrderInv(c)'
  BY <1>7 DEF ClientInv, OrderInv
<1>11. ~Posted(c)' /\ ~Told(c)' /\ (\A ops : ~Sent(c, ops)') /\ ~Entering(c)'
  BY <1>6, <1>7 DEF Posted, Still, Told, Sent, Entering
<1>12. TurnInv(c)'
  <2>1. sem'[c] \in {0, 1} /\ (reader'[c] = "post" => sem'[c] = 0)
    BY <1>7 DEF ClientInv, TurnInv, Still
  <2>2. /\ \A i \in DOMAIN requests'[c] : requests'[c][i].op \notin Token
        /\ \A i \in DOMAIN answers'[c] : answers'[c][i].kind \notin Token
    BY <1>6, <1>7 DEF Sent
  <2>3. Op(c)' \in Token => main'[c] = Waits(Op(c)')
    BY <1>2, <1>5, <1>6, <1>7 DEF Still
  <2> QED BY <1>5, <1>6, <1>7, <1>11, <2>1, <2>2, <2>3 DEF TurnInv, Waits
<1>13. HereInv(c)'
  <2>1. \A i \in DOMAIN requests'[c] : requests'[c][i].op \notin Commands \union {"logout"}
    BY <1>11 DEF Sent
  <2>2. \A i \in DOMAIN answers'[c] : answers'[c][i].kind # "login"
    BY <1>6, <1>7 DEF Token
  <2>3. main'[c] # "menu"
    BY <1>6, <1>7 DEF Still
  <2> QED BY <1>5, <1>9, <1>11, <2>1, <2>2, <2>3 DEF HereInv
<1> QED BY <1>10, <1>12, <1>13 DEF ClientInv

(* The handler ends, with its answer or without *)
LEMMA AnswerInv ==
    ASSUME DataInv, NEW c \in Client, ClientInv(c), Op(c) \in Token, Todo(c) = <<>>,
           answers'[c] = Append(answers[c], job[c].ans), job'[c] = NoJob, Still(c), requests' = requests,
           loggedIn' = loggedIn
    PROVE  ClientInv(c)'
<1> DEFINE s == answers[c]  x == answers'[c]  a == job[c].ans  n == Len(s) + 1
<1>1. /\ requests[c] = <<>> /\ ~Told(c) /\ ~Posted(c) /\ main[c] = Waits(Op(c)) /\ ~Sent(c, Token)
      /\ \A ops : ~Sent(c, ops)
      /\ \A i \in DOMAIN s : s[i].kind \notin Token
      /\ main[c] # "menu"
      /\ loggedIn[c] # 0 => Bound(c)
  BY TokenAlone
<1>2. s \in Seq(Answer) /\ a \in Answer /\ JobFits(c)
  BY DEF DataInv, JobState
<1>3. /\ \A i \in DOMAIN s : i \in DOMAIN x /\ x[i] = s[i]
      /\ \A i \in DOMAIN x : i \in DOMAIN s \/ i = n
      /\ x[n] = a /\ n \in DOMAIN x
  <2>1. s \in Seq(Answer) /\ a \in Answer /\ x = Append(s, a)
    BY <1>2
  <2> HIDE DEF s, x, a
  <2> QED BY <2>1, AppendIs
<1>4. /\ a.kind = Op(c)
      /\ Op(c) = "login" => a.id = Asker(c)
  <2>1. Todo(c) \notin Looking
    BY PlanStages
  <2>2. Op(c) = "reg" => a.kind = "reg"
    BY <1>2 DEF JobFits
  <2>3. Op(c) = "login" => LoginFits(job[c])
    BY <1>2 DEF JobFits
  <2>4. Op(c) = "login" => a.kind = "login" /\ a.id = Asker(c)
    BY <2>1, <2>3 DEF LoginFits, Todo, Asker
  <2> QED BY <2>2, <2>4 DEF Token
<1>5. Op(c)' = "none" /\ ~Bound(c)' /\ Quiet(c)'
  <2>1. Op(c)' = "none"
    BY DEF Op, NoJob, NoRequest
  <2> QED BY <1>1, <2>1 DEF Bound, Quiet
<1>6. ~Posted(c)' /\ (\A ops : ~Sent(c, ops)') /\ ~Entering(c)'
  BY <1>1 DEF Posted, Still, Sent, Entering
<1>7. \A i \in DOMAIN x : x[i].kind \in Token => i = n /\ x[i] = a
  BY <1>1, <1>3
<1>8. OrderInv(c)'
  <2>1. \A i \in DOMAIN requests'[c] : FALSE
    <3>1. DOMAIN <<>> = {}
      OBVIOUS
    <3> QED BY <1>1, <3>1
  <2> QED BY <1>7, <2>1 DEF OrderInv
<1>9. TurnInv(c)'
  <2>1. sem'[c] \in {0, 1} /\ (reader'[c] = "post" => sem'[c] = 0)
    BY DEF ClientInv, TurnInv, Still
  <2>2. \A i \in DOMAIN requests'[c] : requests'[c][i].op \notin Token
    BY <1>6 DEF Sent
  <2>3. \A i \in DOMAIN x : x[i].kind \in Token => main'[c] = Waits(x[i].kind)
    BY <1>1, <1>4, <1>7 DEF Still
  <2>4. Op(c)' \notin Token
    BY <1>5 DEF Token
  <2> QED BY <1>5, <1>6, <2>1, <2>2, <2>3, <2>4 DEF TurnInv, Waits
<1>10. HereInv(c)'
  <2>1. \A i \in DOMAIN requests'[c] : requests'[c][i].op \notin Commands \union {"logout"}
    BY <1>6 DEF Sent
  <2>2. ASSUME NEW i \in DOMAIN x, x[i].kind = "login", x[i].errno = 0 PROVE loggedIn'[c] = x[i].id
    <3>1. x[i] = a
      BY <1>7, <2>2 DEF Token
    <3>2. Op(c) = "login" /\ a.errno = 0 /\ a.id = Asker(c)
      BY <1>4, <2>2, <3>1
    <3>3. Bound(c)
      BY <3>2 DEF Bound
    <3> QED BY <3>1, <3>2, <3>3 DEF ClientInv, HereInv
  <2>3. main'[c] # "menu"
    BY <1>1 DEF Still
  <2>4. ASSUME loggedIn'[c] # 0 PROVE Welcomed(c)'
    <3>1. Bound(c)
      BY <1>1, <2>4
    <3>2. Op(c) = "login" /\ a.errno = 0
      BY <3>1, PlanStages DEF Bound
    <3> QED BY <1>3, <1>4, <3>2 DEF Welcomed
  <2> QED BY <1>5, <1>6, <2>1, <2>2, <2>3, <2>4 DEF HereInv
<1> QED BY <1>8, <1>9, <1>10 DEF ClientInv

LEMMA EndedInv ==
    ASSUME DataInv, NEW c \in Client, ClientInv(c), Busy(c), Op(c) \notin Token,
           answers'[c] = answers[c], job'[c] = NoJob, Still(c), requests' = requests, loggedIn' = loggedIn
    PROVE  ClientInv(c)'
<1>1. Op(c)' = "none" /\ ~Bound(c)' /\ Op(c)' \notin Token
  <2>1. Op(c)' = "none"
    BY DEF Op, NoJob, NoRequest
  <2> QED BY <2>1 DEF Bound, Token
<1>2. ~Quiet(c) /\ ~Bound(c)
  <2>1. RequestFits(job[c].req, DOMAIN user)
    BY DEF DataInv, JobFits
  <2>2. Op(c) # "none"
    BY <2>1 DEF RequestFits, Busy, Op
  <2> QED BY <2>2 DEF Quiet, Bound, Token
<1>3. ~Told(c) /\ ~Posted(c)
  BY <1>2 DEF ClientInv, TurnInv
<1>4. /\ Told(c)' <=> Told(c)
      /\ Welcomed(c)' <=> Welcomed(c)
      /\ \A ops : Sent(c, ops)' <=> Sent(c, ops)
      /\ Posted(c)' <=> Posted(c)
      /\ Entering(c)' <=> Entering(c)
  <2>1. Posted(c)' <=> Posted(c)
    BY DEF Posted, Still
  <2>2. Entering(c)' <=> Entering(c)
    BY <2>1 DEF Entering, Still
  <2>3. (Told(c)' <=> Told(c)) /\ (Welcomed(c)' <=> Welcomed(c))
    BY DEF Told, Welcomed
  <2>4. \A ops : Sent(c, ops)' <=> Sent(c, ops)
    BY DEF Sent
  <2> QED BY <2>1, <2>2, <2>3, <2>4
<1>5. OrderInv(c)'
  BY DEF OrderInv, ClientInv
<1>6. TurnInv(c)'
  <2>1. sem'[c] \in {0, 1} /\ (reader'[c] = "post" => sem'[c] = 0)
    BY DEF ClientInv, TurnInv, Still
  <2>2. \A i \in DOMAIN requests'[c] : requests'[c][i].op \in Token => main'[c] = Waits(requests'[c][i].op)
    BY DEF ClientInv, TurnInv, Still
  <2>3. \A i \in DOMAIN answers'[c] : answers'[c][i].kind \notin Token
    BY <1>3 DEF Told
  <2> QED BY <1>1, <1>3, <1>4, <2>1, <2>2, <2>3 DEF TurnInv, Waits
<1>7. HereInv(c)'
  <2>1. main'[c] = main[c] /\ currentUser'[c] = currentUser[c]
    BY DEF Still
  <2>2. ~Stuck(c)
    BY <1>2 DEF Stuck
  <2>3. loggedIn'[c] # 0 =>
          main'[c] = "menu" \/ Sent(c, {"logout", "close"})' \/ Welcomed(c)' \/ Entering(c)'
    BY <1>2, <1>4, <2>1, <2>2 DEF ClientInv, HereInv
  <2> QED BY <1>1, <1>4, <2>1, <2>3 DEF HereInv, ClientInv
<1> QED BY <1>5, <1>6, <1>7 DEF ClientInv

LEMMA ReplyInv ==
    ASSUME DataInv, NEW c \in Client, Reply(c), UNCHANGED clientVars, ClientInv(c) PROVE ClientInv(c)'
<1>1. /\ Busy(c) /\ Todo(c) = <<>> /\ job' = [job EXCEPT ![c] = NoJob]
      /\ UNCHANGED <<userConnMap, session, loggedIn, requests>>
      /\ answers' = IF job[c].ans.kind \in {"reg", "login"}
                    THEN [answers EXCEPT ![c] = Append(@, job[c].ans)] ELSE answers
  BY DEF Reply
<1>2. Still(c)
  BY DEF Still, clientVars
<1>3. job'[c] = NoJob /\ JobFits(c)
  BY <1>1 DEF DataInv
<1>4. CASE Op(c) \in Token
  <2>1. job[c].ans.kind \in {"reg", "login"}
    <3>1. Op(c) = "login" => LoginFits(job[c])
      BY <1>3 DEF JobFits
    <3>2. Todo(c) \notin Looking
      BY <1>1, PlanStages
    <3>3. Op(c) = "login" => job[c].ans.kind = "login"
      BY <3>1, <3>2 DEF LoginFits, Todo
    <3>4. Op(c) = "reg" => job[c].ans.kind = "reg"
      BY <1>1, <1>3 DEF JobFits
    <3> QED BY <1>4, <3>3, <3>4 DEF Token
  <2>2. answers'[c] = Append(answers[c], job[c].ans)
    BY <1>1, <2>1 DEF DataInv
  <2> QED BY <1>1, <1>2, <1>3, <1>4, <2>2, AnswerInv
<1>5. CASE Op(c) \notin Token
  <2>1. job[c].ans.kind = "none"
    BY <1>3, <1>5 DEF JobFits
  <2>2. answers'[c] = answers[c]
    BY <1>1, <2>1
  <2> QED BY <1>1, <1>2, <1>3, <1>5, <2>2, EndedInv
<1> QED BY <1>4, <1>5

(* What the user may send, and where the main thread goes with it *)
SendFits(c, r, place) ==
    \/ r.op \in Token /\ main[c] = "prompt" /\ place = Waits(r.op)
    \/ r.op \in Commands /\ main[c] = "menu" /\ place = "menu" /\ r.id = currentUser[c]
    \/ r.op = "logout" /\ main[c] = "menu" /\ place = "prompt" /\ r.id = currentUser[c]
    \/ r.op = "close" /\ main[c] \in {"prompt", "menu"} /\ place = "gone"

LEMMA SendInv ==
    ASSUME DataInv, NEW c \in Client, ClientInv(c), NEW r \in Request, NEW place, SendFits(c, r, place),
           requests'[c] = Append(requests[c], r), main'[c] = place, answers' = answers, job' = job, loggedIn' = loggedIn,
           reader'[c] = reader[c], sem'[c] = sem[c], currentUser'[c] = currentUser[c]
    PROVE  ClientInv(c)'
<1> DEFINE s == requests[c]  x == requests'[c]  n == Len(requests[c]) + 1
<1>1. /\ DOMAIN s = 1..Len(s) /\ Len(s) \in Nat /\ n \in DOMAIN x
      /\ \A i \in DOMAIN s : i \in DOMAIN x /\ x[i] = s[i] /\ i < n
      /\ \A i \in DOMAIN x : i \in DOMAIN s \/ i = n
      /\ x[n] = r /\ x # <<>>
  <2>1. s \in Seq(Request) /\ r \in Request /\ x = Append(s, r)
    BY DEF DataInv
  <2>2. /\ Len(s) \in Nat /\ DOMAIN s = 1..Len(s) /\ DOMAIN x = 1..(Len(s) + 1) /\ Len(s) + 1 \in DOMAIN x
        /\ \A i \in DOMAIN s : i \in DOMAIN x /\ x[i] = s[i] /\ i < Len(s) + 1
        /\ \A i \in DOMAIN x : i \in DOMAIN s \/ i = Len(s) + 1
        /\ x[Len(s) + 1] = r /\ x # <<>>
    <3> HIDE DEF s, x
    <3> QED BY ONLY <2>1, AppendIs
  <2> QED BY <2>1, <2>2
<1>2. main[c] \in {"prompt", "menu"} /\ r.op \in Token \union Commands \union {"logout", "close"}
  BY DEF SendFits
<1>3. ~Posted(c) /\ ~Told(c) /\ Op(c) \notin Token /\ ~Sent(c, Token)
  <2>1. main[c] \notin {"waitLogin", "waitReg", "gone"} /\ \A op : main[c] # Waits(op)
    BY <1>2 DEF Waits
  <2>2. ~Posted(c) /\ Op(c) \notin Token
    BY <2>1 DEF ClientInv, TurnInv
  <2>3. ~Told(c)
    BY <2>1 DEF ClientInv, TurnInv, Told
  <2>4. ~Sent(c, Token)
    BY <2>1 DEF ClientInv, TurnInv, Sent
  <2> QED BY <2>2, <2>3, <2>4
<1>4. /\ \A i \in DOMAIN s : s[i].op \notin Token \union {"close"}
      /\ main[c] = "menu" => \A i \in DOMAIN s : s[i].op # "logout"
  <2>1. \A i \in DOMAIN s : s[i].op # "close"
    <3>1. ~Sent(c, {"close"})
      BY <1>2 DEF ClientInv, HereInv
    <3> QED BY <3>1 DEF Sent
  <2>2. main[c] = "menu" => \A i \in DOMAIN s : s[i].op # "logout"
    <3>1. main[c] = "menu" => ~Sent(c, {"logout"})
      BY DEF ClientInv, HereInv
    <3> QED BY <3>1 DEF Sent
  <2> QED BY <1>3, <2>1, <2>2 DEF Sent
<1>5. r.op \in Commands \union {"logout"} => main[c] = "menu" /\ r.id = currentUser[c]
  BY DEF SendFits, Token, Commands
<1>6. OrderInv(c)'
  <2>1. ASSUME NEW i \in DOMAIN x, NEW j \in DOMAIN x, i < j
        PROVE  /\ x[i].op \notin Token \union {"close"}
               /\ x[i].op = "logout" => x[j].op \notin Commands \union {"logout"}
    <3>1. i \in DOMAIN s
      BY <1>1, <2>1
    <3>2. CASE j \in DOMAIN s
      BY <1>1, <2>1, <3>1, <3>2 DEF ClientInv, OrderInv
    <3>3. CASE j = n
      BY <1>1, <1>4, <1>5, <3>1, <3>3
    <3> QED BY <1>1, <3>2, <3>3
  <2>2. \A i, j \in DOMAIN answers'[c] :
          answers'[c][i].kind \in Token /\ answers'[c][j].kind \in Token => i = j
    BY DEF ClientInv, OrderInv
  <2> QED BY <2>1, <2>2 DEF OrderInv
<1>7. /\ Told(c)' <=> Told(c)
      /\ Welcomed(c)' <=> Welcomed(c)
      /\ Posted(c)' <=> Posted(c)
      /\ Op(c)' = Op(c) /\ Asker(c)' = Asker(c)
      /\ Bound(c)' <=> Bound(c)
  BY DEF Told, Welcomed, Posted, Op, Asker, Bound, Todo
<1>8. ~Bound(c) /\ ~Welcomed(c) /\ ~Entering(c)'
  <2>1. ~Bound(c)
    BY <1>3 DEF Bound, Token
  <2>2. ~Welcomed(c)
    BY <1>3 DEF Welcomed, Told, Token
  <2>3. ~Entering(c)'
    BY <1>3, <1>7 DEF Entering
  <2> QED BY <2>1, <2>2, <2>3
<1>9. TurnInv(c)'
  <2>1. sem'[c] \in {0, 1} /\ (reader'[c] = "post" => sem'[c] = 0)
    BY DEF ClientInv, TurnInv
  <2>2. \A i \in DOMAIN x : x[i].op \in Token => main'[c] = Waits(x[i].op)
    <3>1. r.op \in Token => place = Waits(r.op)
      BY DEF SendFits, Token, Commands
    <3> QED BY <1>1, <1>4, <3>1
  <2>3. \A i \in DOMAIN answers'[c] : answers'[c][i].kind \notin Token
    BY <1>3 DEF Told
  <2> QED BY <1>3, <1>7, <2>1, <2>2, <2>3 DEF TurnInv, Waits
<1>10. HereInv(c)'
  <2>2. ASSUME NEW i \in DOMAIN x, x[i].op \in Commands \union {"logout"} PROVE loggedIn'[c] = x[i].id
    <3>1. CASE i \in DOMAIN s
      BY <1>1, <2>2, <3>1 DEF ClientInv, HereInv
    <3>2. CASE i = n
      <4>1. x[i] = r /\ main[c] = "menu" /\ r.id = currentUser[c]
        BY <1>1, <1>5, <2>2, <3>2
      <4> QED BY <4>1 DEF ClientInv, HereInv
    <3> QED BY <1>1, <3>1, <3>2
  <2>3. Sent(c, {"logout"})' => main'[c] # "menu"
    <3> SUFFICES ASSUME Sent(c, {"logout"})', main'[c] = "menu" PROVE FALSE
      OBVIOUS
    <3>1. main[c] = "menu" /\ r.op \in Commands
      BY DEF SendFits, Waits
    <3>2. PICK i \in DOMAIN x : x[i].op = "logout"
      BY DEF Sent
    <3> QED BY <1>1, <1>4, <3>1, <3>2 DEF Commands
  <2>4. Sent(c, {"close"})' => main'[c] = "gone"
    <3> SUFFICES ASSUME Sent(c, {"close"})' PROVE main'[c] = "gone"
      OBVIOUS
    <3>1. PICK i \in DOMAIN x : x[i].op = "close"
      BY DEF Sent
    <3>2. r.op = "close"
      BY <1>1, <1>4, <3>1
    <3> QED BY <3>2 DEF SendFits, Token, Commands
  <2>5. main'[c] = "menu" => loggedIn'[c] = currentUser'[c]
    <3> SUFFICES ASSUME main'[c] = "menu" PROVE loggedIn'[c] = currentUser'[c]
      OBVIOUS
    <3>1. main[c] = "menu"
      BY DEF SendFits, Waits
    <3> QED BY <3>1 DEF ClientInv, HereInv
  <2>6. \A i \in DOMAIN answers'[c] : answers'[c][i].kind # "login"
    BY <1>3 DEF Told, Token
  <2>7. loggedIn'[c] # 0 => main'[c] = "menu" \/ Sent(c, {"logout", "close"})'
    <3> SUFFICES ASSUME loggedIn[c] # 0, main'[c] # "menu" PROVE Sent(c, {"logout", "close"})'
      OBVIOUS
    <3>1. CASE r.op \in {"logout", "close"}
      BY <1>1, <3>1 DEF Sent
    <3>2. CASE r.op \notin {"logout", "close"}
      <4>1. main[c] = "prompt"
        BY <3>2 DEF SendFits
      <4>2. ~Stuck(c) /\ ~Entering(c)
        BY <4>1 DEF Stuck, Entering
      <4>3. Sent(c, {"logout", "close"})
        BY <4>1, <4>2, <1>8 DEF ClientInv, HereInv
      <4> QED BY <1>1, <4>3 DEF Sent
    <3> QED BY <3>1, <3>2
  <2> QED BY <1>7, <1>8, <2>2, <2>3, <2>4, <2>5, <2>6, <2>7 DEF HereInv
<1> QED BY <1>6, <1>9, <1>10 DEF ClientInv

LEMMA CommandInv ==
    ASSUME ThreadsOK, DataInv, NEW c \in Client, ClientInv(c),
           NEW op \in {"addFriend", "createGroup", "addGroup", "chat", "groupChat", "logout"},
           NEW arg \in 0..MaxUser \union GroupId, NEW text \in Words, Command(c, op, arg, text),
           \/ op # "logout" /\ main' = main
           \/ op = "logout" /\ GoTo(c, "prompt")
    PROVE  ClientInv(c)'
<1> DEFINE r == [op |-> op, id |-> currentUser[c], arg |-> arg, text |-> text]
           place == IF op = "logout" THEN "prompt" ELSE "menu"
<1>1. /\ main[c] = "menu" /\ requests' = [requests EXCEPT ![c] = Append(@, r)]
      /\ UNCHANGED <<reader, sem, isLoginSuccess, currentUser, answers>> /\ UNCHANGED <<userConnMap, session, loggedIn, job>>
  BY DEF Command, Give, ServerUnchanged
<1>2. r \in Request
  <2>1. currentUser[c] \in 0..MaxUser
    BY DEF DataInv
  <2> QED BY <2>1 DEF Request, Words
<1>3. main'[c] = place
  BY <1>1 DEF GoTo, ThreadsOK
<1>4. SendFits(c, r, place)
  BY <1>1 DEF SendFits, Commands
<1>5. requests'[c] = Append(requests[c], r)
  BY <1>1 DEF DataInv
<1> HIDE DEF r, place
<1> QED BY <1>1, <1>2, <1>3, <1>4, <1>5, SendInv

LEMMA TokenInv ==
    ASSUME ThreadsOK, DataInv, NEW c \in Client, ClientInv(c), NEW op \in {"reg", "login", "close"},
           NEW id \in 0..MaxUser, Give(c, op, id, 0, <<>>), main[c] = "prompt" \/ (main[c] = "menu" /\ op = "close"),
           GoTo(c, IF op = "close" THEN "gone" ELSE Waits(op)),
           UNCHANGED <<reader, sem, currentUser, answers>>, UNCHANGED <<userConnMap, session, loggedIn, job>>
    PROVE  ClientInv(c)'
<1> DEFINE r == [op |-> op, id |-> id, arg |-> 0, text |-> <<>>]
           place == IF op = "close" THEN "gone" ELSE Waits(op)
<1>1. r \in Request
  BY DEF Request
<1>2. main'[c] = place
  BY DEF GoTo, ThreadsOK
<1>3. SendFits(c, r, place)
  BY DEF SendFits, Token
<1>4. requests'[c] = Append(requests[c], r)
  BY DEF DataInv, Give
<1> HIDE DEF r, place
<1> QED BY <1>1, <1>2, <1>3, <1>4, SendInv

LEMMA UserInv ==
    ASSUME ThreadsOK, DataInv, NEW c \in Client, ClientInv(c), UserStep(c) PROVE ClientInv(c)'
<1>1. CASE AddFriend(c)
  <2>1. PICK f \in UserId \ {currentUser[c]} : Command(c, "addFriend", f, <<>>)
    BY <1>1 DEF AddFriend
  <2> QED BY <1>1, <2>1, CommandInv DEF AddFriend, UserId, Words
<1>2. CASE CreateGroup(c)
  BY <1>2, CommandInv DEF CreateGroup, Words
<1>3. CASE AddGroup(c)
  <2>1. PICK g \in GroupId : Command(c, "addGroup", g, <<>>)
    BY <1>3 DEF AddGroup
  <2> QED BY <1>3, <2>1, CommandInv DEF AddGroup, Words
<1>4. CASE Chat(c)
  <2>1. PICK to \in UserId \ {currentUser[c]}, text \in Text : Command(c, "chat", to, text)
    BY <1>4 DEF Chat
  <2> QED BY <1>4, <2>1, CommandInv DEF Chat, UserId, Words
<1>5. CASE GroupChat(c)
  <2>1. PICK g \in GroupId, text \in Text : Command(c, "groupChat", g, text)
    BY <1>5 DEF GroupChat
  <2> QED BY <1>5, <2>1, CommandInv DEF GroupChat, Words
<1>6. CASE Logout(c)
  BY <1>6, CommandInv DEF Logout, Words
<1>7. CASE AskLogin(c)
  <2>1. PICK id \in Knows[c] \union {u \in DOMAIN user : user[u].by = c} : Give(c, "login", id, 0, <<>>)
    BY <1>7 DEF AskLogin
  <2>2. id \in 0..MaxUser
    <3>1. DOMAIN user = 1..Len(user) /\ Len(user) \in Stored.users..MaxUser
      BY DEF DataInv, TablesOK
    <3>2. Knows[c] \in SUBSET (0..Stored.users)
      BY ClientAssumption
    <3> QED BY <3>1, <3>2
  <2>3. main[c] = "prompt" /\ GoTo(c, Waits("login")) /\ UNCHANGED <<reader, sem, currentUser, answers>>
        /\ UNCHANGED <<userConnMap, session, loggedIn, job>>
    BY <1>7 DEF AskLogin, Waits, ServerUnchanged
  <2> QED BY <2>1, <2>2, <2>3, TokenInv
<1>8. CASE AskReg(c)
  <2>1. /\ main[c] = "prompt" /\ GoTo(c, Waits("reg")) /\ UNCHANGED <<reader, sem, currentUser, answers>>
        /\ UNCHANGED <<userConnMap, session, loggedIn, job>> /\ Give(c, "reg", 0, 0, <<>>)
    BY <1>8 DEF AskReg, Waits, ServerUnchanged
  <2> QED BY <2>1, TokenInv
<1>9. CASE Quit(c)
  <2>1. /\ main[c] \in {"prompt", "menu"} /\ GoTo(c, "gone") /\ UNCHANGED <<reader, sem, currentUser, answers>>
        /\ UNCHANGED <<userConnMap, session, loggedIn, job>> /\ Give(c, "close", 0, 0, <<>>)
    BY <1>9 DEF Quit, ServerUnchanged
  <2> QED BY <2>1, TokenInv
<1> QED BY <1>1, <1>2, <1>3, <1>4, <1>5, <1>6, <1>7, <1>8, <1>9 DEF UserStep

(* sem_wait returns, and the menu is the user's *)
LEMMA WakeInv ==
    ASSUME ThreadsOK, DataInv, NEW c \in Client, ClientInv(c), Wake(c) PROVE ClientInv(c)'
<1>1. /\ main[c] \in {"waitLogin", "waitReg"} /\ sem[c] > 0
      /\ UNCHANGED <<reader, isLoginSuccess, currentUser, requests, answers, userConnMap, session, loggedIn, job>>
      /\ sem' = [sem EXCEPT ![c] = @ - 1]
      /\ GoTo(c, IF main[c] = "waitLogin" /\ isLoginSuccess[c] THEN "menu" ELSE "prompt")
  BY DEF Wake, wire, ServerUnchanged
<1>2. sem[c] = 1 /\ sem'[c] = 0 /\ reader[c] # "post"
  BY <1>1 DEF ClientInv, TurnInv, ThreadsOK
<1>3. main'[c] = IF main[c] = "waitLogin" /\ isLoginSuccess[c] THEN "menu" ELSE "prompt"
  BY <1>1 DEF GoTo, ThreadsOK
<1>4. Posted(c) /\ ~Posted(c)'
  BY <1>1, <1>2 DEF Posted
<1>5. requests[c] = <<>> /\ Op(c) = "none" /\ ~Told(c)
  BY <1>4 DEF ClientInv, TurnInv, Quiet
<1>6. /\ \A i \in DOMAIN requests'[c] : FALSE
      /\ \A i \in DOMAIN answers'[c] : answers'[c][i].kind \notin Token
      /\ \A ops : ~Sent(c, ops) /\ ~Sent(c, ops)'
  <2>1. DOMAIN <<>> = {}
    OBVIOUS
  <2> QED BY <1>1, <1>5, <2>1 DEF Told, Sent
<1>7. Op(c)' = "none" /\ ~Bound(c) /\ ~Bound(c)' /\ ~Told(c)' /\ ~Welcomed(c) /\ ~Entering(c)' /\ ~Stuck(c)
  <2>1. Op(c)' = "none"
    BY <1>1, <1>5 DEF Op
  <2>2. ~Welcomed(c)
    BY <1>1, <1>6 DEF Welcomed, Token
  <2> QED BY <1>1, <1>4, <1>5, <1>6, <2>1, <2>2 DEF Bound, Told, Entering, Stuck
<1>8. OrderInv(c)'
  BY <1>6 DEF OrderInv
<1>9. TurnInv(c)'
  <2>1. "none" \notin Token
    BY DEF Token
  <2> QED BY <1>1, <1>2, <1>4, <1>6, <1>7, <2>1 DEF TurnInv
<1>10. HereInv(c)'
  <2>1. main'[c] = "menu" => Entering(c)
    BY <1>3, <1>4 DEF Entering
  <2>2. main'[c] = "menu" => loggedIn'[c] = currentUser'[c]
    BY <1>1, <2>1 DEF ClientInv, HereInv
  <2>3. loggedIn'[c] # 0 => main'[c] = "menu"
    <3> SUFFICES ASSUME loggedIn[c] # 0 PROVE main'[c] = "menu"
      BY <1>1
    <3>1. Entering(c)
      BY <1>1, <1>6, <1>7 DEF ClientInv, HereInv
    <3> QED BY <1>3, <3>1 DEF Entering
  <2>4. \A i \in DOMAIN answers'[c] : answers'[c][i].kind # "login"
    BY <1>6 DEF Token
  <2> QED BY <1>6, <1>7, <2>2, <2>3, <2>4 DEF HereInv
<1> QED BY <1>8, <1>9, <1>10 DEF ClientInv

(* sem_post *)
LEMMA PostInv ==
    ASSUME ThreadsOK, DataInv, NEW c \in Client, ClientInv(c), Post(c) PROVE ClientInv(c)'
<1>1. /\ reader[c] = "post" /\ sem' = [sem EXCEPT ![c] = @ + 1] /\ reader' = [reader EXCEPT ![c] = "recv"]
      /\ UNCHANGED <<main, isLoginSuccess, currentUser, requests, answers, userConnMap, session, loggedIn, job>>
  BY DEF Post, wire, ServerUnchanged
<1>2. sem[c] = 0 /\ sem'[c] = 1 /\ reader'[c] = "recv"
  <2>1. sem[c] = 0
    BY <1>1 DEF ClientInv, TurnInv
  <2> QED BY <1>1, <2>1 DEF ThreadsOK
<1>3. Posted(c) /\ Posted(c)'
  BY <1>1, <1>2 DEF Posted
<1>4. StaysPut(c) /\ Asker(c)' = Asker(c)
  BY <1>1, SameJobStays DEF StaysPut
<1>5. AnswersSame(c)
  BY <1>1, KeptSame DEF ClientInv
<1>6. Aside(c)
  BY <1>1, <1>2, <1>3, <1>4, <1>5 DEF Aside, StaysPut
<1> QED BY <1>6, AsideInv

LEMMA ReadLiveInv ==
    ASSUME DataInv, NEW c \in Client, ClientInv(c), ReadLive(c) PROVE ClientInv(c)'
<1>1. /\ answers[c] # <<>> /\ Head(answers[c]).kind = "live" /\ answers' = [answers EXCEPT ![c] = Tail(@)]
      /\ UNCHANGED clientVars /\ UNCHANGED <<requests, userConnMap, session, loggedIn, job>>
  BY DEF ReadLive, Reading, ServerUnchanged
<1>2. answers[c] \in Seq(Answer) /\ answers'[c] = Tail(answers[c])
  BY <1>1 DEF DataInv
<1>3. AnswersSame(c)
  BY <1>1, <1>2, TakenSame DEF ClientInv
<1>4. Still(c)
  BY <1>1 DEF clientVars, Still
<1>5. StaysPut(c)
  BY <1>1, SameJobStays
<1>6. Aside(c)
  BY <1>1, <1>3, <1>4, <1>5, StillAside
<1> QED BY <1>6, AsideInv

Welcome(a) == a.kind = "login" /\ a.errno = 0

(* The answer the main thread waits for is read *)
LEMMA ReadInv ==
    ASSUME ThreadsOK, DataInv, NEW c \in Client, ClientInv(c), reader[c] = "recv", answers[c] # <<>>,
           NEW a, a = Head(answers[c]), a.kind \in Token, answers'[c] = Tail(answers[c]),
           UNCHANGED <<requests, userConnMap, session, loggedIn, job, main, sem>>,
           reader'[c] = "post" \/ (reader'[c] = "recv" /\ Welcome(a)),
           Welcome(a) => currentUser'[c] = a.id /\ isLoginSuccess'[c],
           a.kind = "login" /\ ~Welcome(a) => ~isLoginSuccess'[c]
    PROVE  ClientInv(c)'
<1> DEFINE s == answers[c]  x == answers'[c]
<1>1. /\ a = s[1] /\ 1 \in DOMAIN s
      /\ \A i \in DOMAIN x : i + 1 \in DOMAIN s /\ x[i] = s[i + 1] /\ 1 < i + 1
  <2>1. s \in Seq(Answer) /\ s # <<>> /\ x = Tail(s) /\ a = Head(s)
    BY DEF DataInv
  <2>2. /\ Head(s) = s[1] /\ 1 \in DOMAIN s
        /\ \A i \in DOMAIN x : i + 1 \in DOMAIN s /\ x[i] = s[i + 1] /\ 1 < i + 1
    BY ONLY <2>1, TailIs
  <2> QED BY <2>1, <2>2
<1>2. \A i \in DOMAIN s : s[i].kind \in Token => i = 1
  BY <1>1 DEF ClientInv, OrderInv
<1>3. \A i \in DOMAIN x : x[i].kind \notin Token
  BY <1>1, <1>2
<1>4. Told(c) /\ main[c] = Waits(a.kind)
  <2>1. Told(c)
    BY <1>1 DEF Told
  <2>2. main[c] = Waits(a.kind)
    BY <1>1 DEF ClientInv, TurnInv
  <2> QED BY <2>1, <2>2
<1>5. Quiet(c) /\ ~Posted(c) /\ requests[c] = <<>> /\ Op(c) = "none"
  BY <1>4 DEF ClientInv, TurnInv, Quiet
<1>6. sem[c] = 0
  BY <1>5 DEF Posted, ClientInv, TurnInv
<1>7. (\A i \in DOMAIN requests[c] : FALSE) /\ \A ops : ~Sent(c, ops)
  <2>1. DOMAIN <<>> = {}
    OBVIOUS
  <2> QED BY <1>5, <2>1 DEF Sent
<1>8. Quiet(c)' /\ Op(c)' = "none" /\ ~Bound(c) /\ ~Bound(c)' /\ ~Told(c)' /\ (\A ops : ~Sent(c, ops)')
  <2>1. Quiet(c)' /\ Op(c)' = "none"
    BY <1>5 DEF Quiet, Op
  <2>2. \A ops : ~Sent(c, ops)'
    BY <1>7 DEF Sent
  <2>3. ~Told(c)'
    BY <1>3 DEF Told
  <2> QED BY <1>5, <2>1, <2>2, <2>3 DEF Bound
<1>9. OrderInv(c)'
  BY <1>3, <1>7 DEF OrderInv
<1>10. TurnInv(c)'
  <2>1. "none" \notin Token
    BY DEF Token
  <2>2. main'[c] \in {"waitLogin", "waitReg"}
    BY <1>4 DEF Waits
  <2> QED BY <1>3, <1>6, <1>7, <1>8, <2>1, <2>2 DEF TurnInv, Token
<1>11. loggedIn[c] # 0 => Welcome(a)
  <2>1. main[c] # "menu" /\ ~Entering(c) /\ ~Stuck(c)
    BY <1>4, <1>5 DEF Waits, Entering, Stuck
  <2>2. Welcomed(c) => Welcome(a)
    BY <1>1, <1>2 DEF Welcomed, Welcome, Token
  <2> QED BY <1>7, <1>8, <2>1, <2>2 DEF ClientInv, HereInv
<1>12. Welcome(a) => loggedIn[c] = a.id
  BY <1>1 DEF Welcome, ClientInv, HereInv
<1>13. Welcome(a) => main[c] = "waitLogin"
  BY <1>4 DEF Welcome, Waits
<1>14. HereInv(c)'
  <2>1. Entering(c)' => Welcome(a)
    BY <1>4 DEF Entering, Waits, Token
  <2>2. main'[c] # "menu"
    BY <1>4 DEF Waits
  <2>3. Entering(c)' => loggedIn'[c] = currentUser'[c]
    BY <1>12, <2>1
  <2>4. Welcome(a) => Entering(c)' \/ Stuck(c)'
    BY <1>8, <1>13 DEF Entering, Stuck, Posted
  <2>5. \A i \in DOMAIN x : x[i].kind # "login"
    BY <1>3 DEF Token
  <2>6. loggedIn'[c] # 0 => Entering(c)' \/ Stuck(c)'
    BY <1>11, <2>4
  <2> QED BY <1>7, <1>8, <1>11, <2>2, <2>3, <2>4, <2>5, <2>6 DEF HereInv
<1> QED BY <1>9, <1>10, <1>14 DEF ClientInv

LEMMA ReaderInv ==
    ASSUME ThreadsOK, DataInv, NEW c \in Client, ClientInv(c), ReaderStep(c) PROVE ClientInv(c)'
<1> DEFINE a == Head(answers[c])
<1>1. CASE ReadLive(c)
  BY <1>1, ReadLiveInv
<1>2. CASE Post(c)
  BY <1>2, PostInv
<1>3. ASSUME NEW kind \in Token, Reading(c, kind)
      PROVE  /\ answers[c] # <<>> /\ a.kind \in Token /\ a.kind = kind /\ reader[c] = "recv"
             /\ answers'[c] = Tail(answers[c]) /\ UNCHANGED <<requests, userConnMap, session, loggedIn, job>>
  BY <1>3 DEF Reading, ServerUnchanged, DataInv
<1>4. CASE ReadReg(c)
  <2>1. Reading(c, "reg") /\ "reg" \in Token
    BY <1>4 DEF ReadReg, Token
  <2>2. reader'[c] = "post" /\ UNCHANGED <<main, sem>>
    BY <1>4 DEF ReadReg, ThenPost, ThreadsOK
  <2>3. ~Welcome(a) /\ a.kind # "login"
    BY <1>3, <2>1 DEF Welcome
  <2> HIDE DEF a
  <2> QED BY <1>3, <2>1, <2>2, <2>3, ReadInv DEF a
<1>5. CASE ReadLoginRefused(c)
  <2>1. Reading(c, "login") /\ "login" \in Token /\ a.errno # 0
    BY <1>5 DEF ReadLoginRefused, Token
  <2>2. reader'[c] = "post" /\ UNCHANGED <<main, sem>> /\ ~isLoginSuccess'[c]
    BY <1>5 DEF ReadLoginRefused, ThenPost, ThreadsOK
  <2>3. ~Welcome(a)
    BY <2>1 DEF Welcome
  <2> HIDE DEF a
  <2> QED BY <1>3, <2>1, <2>2, <2>3, ReadInv DEF a
<1>6. CASE ReadLogin(c)
  <2>1. Reading(c, "login") /\ "login" \in Token /\ a.errno = 0
    BY <1>6 DEF ReadLogin, Token
  <2>2. /\ UNCHANGED <<main, sem>> /\ isLoginSuccess'[c] /\ currentUser'[c] = a.id
        /\ reader'[c] = "post" \/ reader'[c] = reader[c]
    <3>1. /\ UNCHANGED <<main, sem>> /\ isLoginSuccess' = [isLoginSuccess EXCEPT ![c] = TRUE]
          /\ currentUser' = [currentUser EXCEPT ![c] = a.id]
          /\ reader' = [reader EXCEPT ![c] = "post"] \/ reader' = reader
      BY <1>6 DEF ReadLogin, ThenPost
    <3>2. isLoginSuccess'[c]
      BY <3>1 DEF ThreadsOK
    <3>3. currentUser'[c] = a.id
      BY <3>1 DEF DataInv
    <3>4. reader'[c] = "post" \/ reader'[c] = reader[c]
      BY <3>1 DEF ThreadsOK
    <3> QED BY <3>1, <3>2, <3>3, <3>4
  <2>3. Welcome(a)
    BY <1>3, <2>1 DEF Welcome
  <2> HIDE DEF a
  <2> QED BY <1>3, <2>1, <2>2, <2>3, ReadInv DEF a
<1> QED BY <1>1, <1>2, <1>4, <1>5, <1>6 DEF ReaderStep

-----------------------------------------------------------------------------
(* The handlers that do not run a statement, for their own client *)

LEMMA BegunStep ==
    ASSUME DataInv, NEW c \in Client, ClientInv(c), Begin(c) \/ BeginChat(c), UNCHANGED clientVars
    PROVE  ClientInv(c)'
<1> DEFINE r == Head(requests[c])
<1>1. requests[c] # <<>> /\ ~Busy(c) /\ requests' = [requests EXCEPT ![c] = Tail(@)] /\ loggedIn' = loggedIn
  BY BeginIs, BeginChatIs, Zenon DEF Begin
<1>2. requests'[c] = Tail(requests[c]) /\ r \in Request /\ RequestFits(r, DOMAIN user)
  BY <1>1, ReceiveIs DEF DataInv
<1>3. Still(c) /\ PlanFits(Op(c), Todo(c)) /\ Op(c) = "none"
  BY <1>1 DEF Still, clientVars, DataInv, JobFits, Op, Busy, NoRequest
<1>6. r = Head(requests[c])
  OBVIOUS
<1> HIDE DEF r
<1>4. CASE Begin(c)
  <2> DEFINE j == [NoJob EXCEPT !.req = r, !.todo = Plan(r), !.to = {}, !.ask = {}]
  <2>1. /\ r.op \in {"reg", "login", "addFriend", "createGroup", "addGroup", "groupChat"}
        /\ job' = [job EXCEPT ![c] = j] /\ answers' = answers
    BY <1>4, Zenon DEF Begin, Receive, Serve, r
  <2>2. job'[c].req = r /\ job'[c].todo = Plan(r)
    BY <2>1, AccountsAssumption DEF DataInv, NoJob
  <2>3. r.op = "login" => Plan(r) \in Looking
    BY PlanStages DEF Plan
  <2>4. Op(c)' = r.op /\ ~Bound(c)'
    BY <2>2, <2>3, PlanStages DEF Op, Todo, Bound
  <2>5. AnswersSame(c)
    BY <2>1, KeptSame DEF ClientInv
  <2>6. r.op \in Token \union Commands
    BY <2>1 DEF Token, Commands
  <2> HIDE DEF j
  <2> QED BY <1>1, <1>2, <1>3, <1>6, <2>4, <2>5, <2>6, BegunInv
<1>5. CASE BeginChat(c)
  <2>0. PICK q : /\ q = r /\ q.op = "chat"
                 /\ \/ /\ answers' = [answers EXCEPT ![userConnMap[q.arg]] = Append(@, Live(q.text))]
                       /\ job' = job
                    \/ /\ Serve(c, <<"resolve", "insertOffline">>, {q.arg})
                       /\ answers' = answers
    BY <1>5, <1>6, BeginChatIs, Zenon DEF Receive
  <2> DEFINE j == [NoJob EXCEPT !.req = q, !.todo = <<"resolve", "insertOffline">>, !.to = {q.arg}, !.ask = {q.arg}]
  <2>1. \/ /\ answers' = [answers EXCEPT ![userConnMap[q.arg]] = Append(@, Live(q.text))]
           /\ job' = job
        \/ /\ job'[c] = j
           /\ answers' = answers
    <3>1. ASSUME Serve(c, <<"resolve", "insertOffline">>, {q.arg}) PROVE job'[c] = j
      <4>1. job' = [job EXCEPT ![c] = j]
        BY <1>6, <2>0, <3>1, Zenon DEF Serve
      <4> HIDE DEF j
      <4> QED BY <4>1, AccountsAssumption DEF DataInv
    <3> QED BY <2>0, <3>1, Zenon
  <2>2. AnswersSame(c)
    <3>1. q.text \in Words
      BY <1>2, <2>0 DEF Request, Words
    <3>2. Live(q.text) \in Answer /\ Live(q.text).kind = "live"
      BY <3>1, LiveFits
    <3>3. answers'[c] = answers[c] \/ answers'[c] = Append(answers[c], Live(q.text))
      BY <2>1 DEF DataInv
    <3> QED BY <3>2, <3>3, AppendsSame DEF ClientInv
  <2>3. Op(c)' \in {"chat", "none"}
    <3>1. job' = job => Op(c)' = "none"
      BY <1>3 DEF Op
    <3>2. job'[c] = j => Op(c)' = "chat"
      <4>1. j.req.op = "chat"
        BY <2>0 DEF NoJob
      <4> HIDE DEF j
      <4> QED BY <4>1 DEF Op
    <3> QED BY <2>1, <3>1, <3>2
  <2>4. ~Bound(c)'
    BY <2>3 DEF Bound
  <2>5. r.op \in Token \union Commands /\ r.op \notin Token
    BY <2>0 DEF Token, Commands
  <2>6. Op(c)' = r.op \/ (Op(c)' = "none" /\ r.op \notin Token)
    BY <2>0, <2>3, <2>5
  <2> HIDE DEF j
  <2> QED BY <1>1, <1>2, <1>3, <1>6, <2>2, <2>4, <2>5, <2>6, BegunInv
<1> QED BY <1>4, <1>5

LEMMA LeaveStep ==
    ASSUME DataInv, NEW c \in Client, ClientInv(c), BeginLeave(c) \/ BeginLeaveUnknown(c), UNCHANGED clientVars
    PROVE  ClientInv(c)'
<1>1. PICK r : /\ r = Head(requests[c]) /\ requests[c] # <<>> /\ ~Busy(c) /\ r.op \in {"logout", "close"}
               /\ requests' = [requests EXCEPT ![c] = Tail(@)] /\ answers' = answers
               /\ loggedIn' = [loggedIn EXCEPT ![c] = 0]
               /\ \E j : job' = [job EXCEPT ![c] = j] /\ j.req = r
  <2>1. CASE BeginLeave(c)
    <3>1. PICK r, u : /\ r = Head(requests[c]) /\ requests[c] # <<>> /\ r.op \in {"logout", "close"} /\ u \in Leaving(c)
                      /\ u \in UserId /\ r.id \in {u, 0} /\ (r.op = "logout" => u = r.id) /\ ~Busy(c)
                      /\ (r.op = "close" => userConnMap[u] = c)
                      /\ requests' = [requests EXCEPT ![c] = Tail(@)]
                      /\ userConnMap' = [userConnMap EXCEPT ![u] = None]
                      /\ loggedIn' = [loggedIn EXCEPT ![c] = 0]
                      /\ job' = [job EXCEPT ![c] = [NoJob EXCEPT !.req = r, !.todo = <<"unbindUser", "setOffline">>,
                                                                !.to = {u}, !.ask = {u}]]
                      /\ UNCHANGED <<poolVars, tables, session, answers>>
      BY <2>1, LeaveIs
    <3>2. [NoJob EXCEPT !.req = r, !.todo = <<"unbindUser", "setOffline">>, !.to = {u}, !.ask = {u}].req = r
      BY DEF NoJob
    <3> QED BY <3>1, <3>2, Zenon
  <2>2. CASE BeginLeaveUnknown(c)
    <3> DEFINE r == Head(requests[c])
    <3>1. /\ requests[c] # <<>> /\ ~Busy(c) /\ r.op \in {"logout", "close"}
          /\ requests' = [requests EXCEPT ![c] = Tail(@)] /\ answers' = answers
          /\ loggedIn' = [loggedIn EXCEPT ![c] = 0]
          /\ job' = [job EXCEPT ![c] = [NoJob EXCEPT !.req = r, !.todo = <<>>, !.to = {}, !.ask = {}]]
      BY <2>2, Zenon DEF BeginLeaveUnknown, Receive, Serve
    <3>2. r = Head(requests[c])
      OBVIOUS
    <3> HIDE DEF r
    <3>3. [NoJob EXCEPT !.req = r, !.todo = <<>>, !.to = {}, !.ask = {}].req = r
      BY DEF NoJob
    <3> QED BY <3>1, <3>2, <3>3, Zenon
  <2> QED BY <2>1, <2>2
<1>2. requests'[c] = Tail(requests[c]) /\ loggedIn'[c] = 0
  BY <1>1 DEF DataInv, TablesOK
<1>3. Op(c)' = r.op
  <2>1. PICK j : job' = [job EXCEPT ![c] = j] /\ j.req = r
    BY <1>1
  <2>2. job'[c] = j
    BY <2>1, AccountsAssumption DEF DataInv
  <2> QED BY <2>1, <2>2 DEF Op
<1>4. AnswersSame(c)
  BY <1>1, KeptSame DEF ClientInv
<1>5. Still(c)
  BY DEF Still, clientVars
<1> QED BY <1>1, <1>2, <1>3, <1>4, <1>5, LeftInv

(* A handler's step, for the clients it does not serve *)
LEMMA OthersHere ==
    ASSUME DataInv, NEW c \in Client, ClientStep(c), NEW d \in Client \ {c} PROVE loggedIn'[d] = loggedIn[d]
<1>1. CASE BeginLeave(c)
  <2>1. loggedIn' = [loggedIn EXCEPT ![c] = 0]
    BY <1>1, Zenon DEF BeginLeave, Leave
  <2> QED BY <2>1 DEF DataInv, TablesOK
<1>2. CASE BeginLeaveUnknown(c)
  <2>1. loggedIn' = [loggedIn EXCEPT ![c] = 0]
    BY <1>2, Zenon DEF BeginLeaveUnknown
  <2> QED BY <2>1 DEF DataInv, TablesOK
<1>3. CASE BindUser(c)
  <2>1. loggedIn' = [loggedIn EXCEPT ![c] = Asker(c)]
    BY <1>3, Zenon DEF BindUser
  <2> QED BY <2>1 DEF DataInv, TablesOK
<1>4. CASE Begin(c) \/ BeginChat(c) \/ Reply(c)
  BY <1>4, BeginChatIs, Zenon DEF Begin, Reply
<1>5. CASE Goes(c) /\ ~BindUser(c)
  BY <1>5, UnboundIs
<1> QED BY <1>1, <1>2, <1>3, <1>4, <1>5 DEF ClientStep, Goes

LEMMA OthersJob ==
    ASSUME DataInv, NEW c \in Client, ClientStep(c), NEW d \in Client \ {c}
    PROVE  requests'[d] = requests[d] /\ job'[d] = job[d]
<1>1. CASE Begin(c) \/ BeginLeave(c) \/ BeginLeaveUnknown(c) \/ BeginChat(c)
  BY <1>1, BeginOthers, AccountsAssumption
<1>2. CASE Goes(c)
  <2>1. UNCHANGED wire /\ \E j : job' = [job EXCEPT ![c] = j]
    BY <1>2, GoesIs
  <2> QED BY <2>1, AccountsAssumption DEF DataInv, wire
<1>3. CASE Reply(c)
  BY <1>3, AccountsAssumption DEF Reply, DataInv, wire
<1> QED BY <1>1, <1>2, <1>3 DEF ClientStep, Goes

LEMMA OthersInv ==
    ASSUME DataInv, NEW c \in Client, ClientStep(c), UNCHANGED clientVars, NEW d \in Client \ {c}, ClientInv(d)
    PROVE  ClientInv(d)'
<1>1. Still(d)
  BY DEF Still, clientVars
<1>2. requests'[d] = requests[d] /\ job'[d] = job[d]
  BY OthersJob
<1>3. AnswersSame(d)
  <2>1. CASE BeginChat(c)
    <3>1. PICK r : /\ answers' = [answers EXCEPT ![userConnMap[r.arg]] = Append(@, Live(r.text))] \/ answers' = answers
                   /\ r = Head(requests[c]) /\ requests[c] # <<>>
      BY <2>1, BeginChatIs, BeginIs, Zenon
    <3>2. r.text \in Words
      <4>1. r \in Request
        BY <3>1, ReceiveIs, Zenon
      <4> QED BY <4>1 DEF Request, Words
    <3>3. Live(r.text) \in Answer /\ Live(r.text).kind = "live"
      BY <3>2, LiveFits
    <3>4. answers' = [answers EXCEPT ![userConnMap[r.arg]] = Append(@, Live(r.text))] \/ answers' = answers
      BY <3>1, Zenon
    <3>5. answers'[d] = answers[d] \/ answers'[d] = Append(answers[d], Live(r.text))
      BY <3>4 DEF DataInv
    <3> QED BY <3>3, <3>5, AppendsSame DEF ClientInv
  <2>2. CASE Begin(c) \/ BeginLeaveUnknown(c) \/ Goes(c) \/ Reply(c)
    <3>1. answers'[d] = answers[d]
      <4>1. CASE Begin(c) \/ BeginLeaveUnknown(c)
        BY <4>1, Zenon DEF Begin, BeginLeaveUnknown
      <4>2. CASE Goes(c)
        BY <4>2, GoesIs DEF wire
      <4>3. CASE Reply(c)
        BY <4>3 DEF Reply, DataInv
      <4> QED BY <2>2, <4>1, <4>2, <4>3
    <3> QED BY <3>1, KeptSame DEF ClientInv
  <2>3. CASE BeginLeave(c)
    <3>1. answers'[d] = answers[d]
      BY <2>3, Zenon DEF BeginLeave, Leave
    <3> QED BY <3>1, KeptSame DEF ClientInv
  <2> QED BY <2>1, <2>2, <2>3 DEF ClientStep, Goes
<1>4. loggedIn'[d] = loggedIn[d]
  BY OthersHere
<1>5. StaysPut(d)
  BY <1>2, SameJobStays
<1>6. Aside(d)
  BY <1>1, <1>2, <1>3, <1>4, <1>5, StillAside
<1> QED BY <1>6, AsideInv

LEMMA HandlerInv ==
    ASSUME DataInv, \A e \in Client : ClientInv(e), NEW c \in Client, ClientStep(c), UNCHANGED clientVars
    PROVE  \A d \in Client : ClientInv(d)'
<1>1. ClientInv(c)'
  BY BegunStep, LeaveStep, UnboundInv, BindInv, ReplyInv DEF ClientStep, Goes
<1> QED BY <1>1, OthersInv

(* A client's step, for the other clients *)
LEMMA BystandersInv ==
    ASSUME ThreadsOK, DataInv, NEW c \in Client, UserStep(c) \/ Wake(c) \/ ReaderStep(c),
           NEW d \in Client \ {c}, ClientInv(d)
    PROVE  ClientInv(d)'
<1>1. UNCHANGED <<userConnMap, session, loggedIn, job>>
  BY DEF UserStep, AskLogin, AskReg, AddFriend, CreateGroup, AddGroup, Chat, GroupChat, Logout, Quit, Command,
         Wake, ReaderStep, ReadLive, ReadReg, ReadLoginRefused, ReadLogin, Post, Reading, ServerUnchanged
<1>2. Still(d) /\ requests'[d] = requests[d] /\ answers'[d] = answers[d]
  <2>1. CASE UserStep(c)
    <3>1. CASE AskLogin(c) \/ AskReg(c) \/ Quit(c)
      BY <3>1 DEF AskLogin, AskReg, Quit, Give, GoTo, Still, ThreadsOK, DataInv
    <3>2. CASE AddFriend(c) \/ CreateGroup(c) \/ AddGroup(c)
      BY <3>2 DEF AddFriend, CreateGroup, AddGroup, Command, Give, Still, DataInv
    <3>3. CASE Chat(c) \/ GroupChat(c)
      BY <3>3 DEF Chat, GroupChat, Command, Give, Still, DataInv
    <3>4. CASE Logout(c)
      BY <3>4 DEF Logout, Command, Give, GoTo, Still, ThreadsOK, DataInv
    <3> QED BY <2>1, <3>1, <3>2, <3>3, <3>4 DEF UserStep
  <2>2. CASE Wake(c)
    BY <2>2 DEF Wake, GoTo, Still, ThreadsOK, wire
  <2>3. CASE ReaderStep(c)
    <3>1. CASE ReadLive(c)
      BY <3>1 DEF ReadLive, Reading, Still, clientVars, DataInv
    <3>2. CASE ReadReg(c)
      BY <3>2 DEF ReadReg, Reading, ThenPost, Still, ThreadsOK, DataInv
    <3>3. CASE ReadLoginRefused(c)
      BY <3>3 DEF ReadLoginRefused, Reading, ThenPost, Still, ThreadsOK, DataInv
    <3>4. CASE ReadLogin(c)
      <4>1. PICK e, id, b : /\ isLoginSuccess' = [isLoginSuccess EXCEPT ![c] = b]
                            /\ currentUser' = [currentUser EXCEPT ![c] = id]
                            /\ reader' = reader \/ reader' = [reader EXCEPT ![c] = e]
                            /\ UNCHANGED <<main, sem, requests>>
                            /\ answers' = [answers EXCEPT ![c] = Tail(@)]
        BY <3>4 DEF ReadLogin, Reading, ThenPost
      <4> QED BY <4>1 DEF Still, ThreadsOK, DataInv
    <3>5. CASE Post(c)
      BY <3>5 DEF Post, Still, ThreadsOK, wire
    <3> QED BY <2>3, <3>1, <3>2, <3>3, <3>4, <3>5 DEF ReaderStep
  <2> QED BY <2>1, <2>2, <2>3
<1>3. job'[d] = job[d] /\ loggedIn'[d] = loggedIn[d]
  BY <1>1
<1> QED BY <1>2, <1>3, SameInv

LEMMA ClientsStep ==
    ASSUME ThreadsOK, DataInv, \A e \in Client : ClientInv(e), [Next]_vars
    PROVE  \A d \in Client : ClientInv(d)'
<1>1. ASSUME UNCHANGED <<job, userConnMap, session, loggedIn, wire, main, reader, sem, isLoginSuccess, currentUser>>
      PROVE  \A d \in Client : ClientInv(d)'
  BY <1>1, PoolStepInv
<1>2. ASSUME NEW t \in Thread, ThreadStep(t) \/ Rewoken(t), UNCHANGED clientVars
      PROVE  \A d \in Client : ClientInv(d)'
  <2>1. CASE Borrow(t) \/ Rewoken(t)
    BY <1>1, <1>2, <2>1 DEF Borrow, Rewoken, clientVars
  <2> QED BY <1>2, <2>1, StatementInv, HandlerInv DEF ThreadStep
<1>3. ASSUME NEW c \in Client, UserStep(c) \/ Wake(c) \/ ReaderStep(c)
      PROVE  \A d \in Client : ClientInv(d)'
  <2>1. ClientInv(c)'
    BY <1>3, UserInv, WakeInv, ReaderInv
  <2> QED BY <1>3, <2>1, BystandersInv
<1>4. CASE UNCHANGED vars
  BY <1>1, <1>4 DEF vars, accVars, clientVars
<1> QED BY <1>2, <1>3, <1>4 DEF Next, AccountsNext

(* Whom the connection table names c for *)
LEMMA TableKept ==
    ASSUME NEW c, TableInv(c), loggedIn'[c] = loggedIn[c], \A u \in UserId : userConnMap'[u] = c => userConnMap[u] = c,
           Op(c) = "login" /\ Todo(c) \in {<<"bindUser">>, <<"removeConn">>} =>
               Op(c)' = "login" /\ Asker(c)' = Asker(c) /\ Todo(c)' \in {<<"bindUser">>, <<"removeConn">>}
    PROVE  TableInv(c)'
  BY DEF TableInv

LEMMA TableSame ==
    ASSUME NEW c, TableInv(c), loggedIn'[c] = loggedIn[c], job'[c] = job[c],
           \A u \in UserId : userConnMap'[u] = c => userConnMap[u] = c
    PROVE  TableInv(c)'
<1>1. Op(c)' = Op(c) /\ Asker(c)' = Asker(c) /\ Todo(c)' = Todo(c)
  BY DEF Op, Asker, Todo
<1> QED BY <1>1, TableKept

LEMMA StatementTable ==
    ASSUME DataInv, NEW t \in Thread, Statement(t), NEW c \in Client, TableInv(c) PROVE TableInv(c)'
<1>1. userConnMap' = userConnMap /\ loggedIn' = loggedIn
  BY StatementAnswers
<1>2. CASE c = t
  <2>1. Todo(c) \notin {<<"bindUser">>, <<"removeConn">>}
    <3>1. CASE InsertReturns(c)
      <4>1. Todo(c) \in {<<"insertUser">>, <<"createGroup">>}
        BY <1>2, <3>1 DEF InsertReturns, DataInv, JobFits
      <4> QED BY <4>1, Tail1
    <3>2. CASE ~InsertReturns(c)
      <4>1. \E f \in {"insertUser", "createGroup", "queryUser", "setOnline", "setOffline", "queryOffline",
                      "removeOffline", "insertOffline", "queryFriends", "insertFriend", "addGroup", "addCreator",
                      "queryGroups", "queryGroupUsers"} : Running(c, f)
        BY <1>2, <3>2 DEF Statement, UserInsert, GroupInsert, InsertFails, UserQuery, UpdateState, OfflineQuery,
                          OfflineRemove, OfflineInsert, FriendQuery, FriendInsert, MemberInsert, GroupQuery,
                          GroupUsersQuery
      <4>2. Head(Todo(c)) \notin {"bindUser", "removeConn"}
        BY <4>1 DEF Running, Next1
      <4> QED BY <4>2, Tail1
    <3> QED BY <3>1, <3>2
  <2> QED BY <1>1, <2>1, TableKept
<1>3. CASE c # t
  <2>1. PICK j : job' = [job EXCEPT ![t] = j]
    BY StatementStays
  <2>2. job'[c] = job[c]
    BY <1>3, <2>1, AccountsAssumption DEF DataInv
  <2> QED BY <1>1, <2>2, TableSame
<1> QED BY <1>2, <1>3

(* What a handler does to the connection table *)
LEMMA TableMoves ==
    ASSUME DataInv, NEW c \in Client, ClientStep(c)
    PROVE  \/ userConnMap' = userConnMap
           \/ \E u \in UserId, d \in {c, None} : userConnMap' = [userConnMap EXCEPT ![u] = d]
<1>1. CASE Begin(c) \/ BeginLeaveUnknown(c) \/ BeginChat(c) \/ Reply(c)
  BY <1>1, BeginChatIs, Zenon DEF Begin, BeginLeaveUnknown, Reply
<1>2. CASE BeginLeave(c)
  <2>1. \E u : u \in UserId /\ userConnMap' = [userConnMap EXCEPT ![u] = None]
    BY <1>2, LeaveIs, Zenon
  <2> QED BY <2>1
<1>3. CASE AddConn(c)
  <2>1. Next1(c, "addConn") /\ userConnMap' = [userConnMap EXCEPT ![Asker(c)] = c]
    BY <1>3, Zenon DEF AddConn
  <2> QED BY <2>1, LoggerIs
<1>4. CASE LoginUndo(c)
  <2>1. Next1(c, "removeConn") /\ userConnMap' = [userConnMap EXCEPT ![Asker(c)] = None]
    BY <1>4, Zenon DEF LoginUndo
  <2> QED BY <2>1, LoggerIs
<1>5. CASE Check(c) \/ BindUser(c) \/ BindRefused(c) \/ Resolve(c) \/ UnbindUser(c)
  BY <1>5, Zenon DEF Check, BindUser, BindRefused, Resolve, UnbindUser
<1> QED BY <1>1, <1>2, <1>3, <1>4, <1>5 DEF ClientStep

LEMMA OthersTable ==
    ASSUME DataInv, NEW c \in Client, ClientStep(c), NEW d \in Client \ {c}, TableInv(d) PROVE TableInv(d)'
<1>1. loggedIn'[d] = loggedIn[d] /\ job'[d] = job[d]
  BY OthersHere, OthersJob
<1>2. \A u \in UserId : userConnMap'[u] = d => userConnMap[u] = d
  <2>1. d # None /\ d # c /\ userConnMap \in [UserId -> Client \union {None}]
    BY AccountsAssumption DEF DataInv, TablesOK
  <2> QED BY <2>1, TableMoves
<1> QED BY <1>1, <1>2, TableSame

LEMMA LeaveTable ==
    ASSUME DataInv, NEW c \in Client, ClientInv(c), BeginLeave(c) \/ BeginLeaveUnknown(c), TableInv(c) PROVE TableInv(c)'
<1>0. c # None /\ userConnMap \in [UserId -> Client \union {None}]
  BY AccountsAssumption DEF DataInv, TablesOK
<1>1. ~Busy(c) /\ requests[c] # <<>> /\ requests' = [requests EXCEPT ![c] = Tail(@)]
  BY BeginIs
<1>2. Op(c) = "none"
  BY <1>1 DEF Busy, NoRequest, Op
<1>3. \A v \in UserId : userConnMap[v] = c => loggedIn[c] = v
  BY <1>2 DEF TableInv
<1>4. CASE BeginLeave(c)
  <2>1. PICK r, u : /\ r = Head(requests[c]) /\ requests[c] # <<>> /\ r.op \in {"logout", "close"} /\ u \in Leaving(c)
                    /\ u \in UserId /\ r.id \in {u, 0} /\ (r.op = "logout" => u = r.id) /\ ~Busy(c)
                    /\ (r.op = "close" => userConnMap[u] = c)
                    /\ requests' = [requests EXCEPT ![c] = Tail(@)]
                    /\ userConnMap' = [userConnMap EXCEPT ![u] = None]
                    /\ loggedIn' = [loggedIn EXCEPT ![c] = 0]
                    /\ job' = [job EXCEPT ![c] = [NoJob EXCEPT !.req = r, !.todo = <<"unbindUser", "setOffline">>,
                                                              !.to = {u}, !.ask = {u}]]
                    /\ UNCHANGED <<poolVars, tables, session, answers>>
    BY <1>4, LeaveIs
  <2>2. loggedIn[c] = u
    <3>1. CASE r.op = "close"
      BY <1>3, <2>1, <3>1
    <3>2. CASE r.op = "logout"
      <4>1. requests'[c] = Tail(requests[c])
        BY <2>1 DEF DataInv
      <4>2. Taken(c, r)
        BY <2>1, <4>1, TakeIs
      <4>3. loggedIn[c] = r.id
        BY ONLY <3>2, <4>2 DEF Taken
      <4> QED BY <2>1, <3>2, <4>3
    <3> QED BY <2>1, <3>1, <3>2
  <2>3. \A v \in UserId : userConnMap'[v] # c
    BY <1>0, <1>3, <2>1, <2>2
  <2> QED BY <2>3 DEF TableInv
<1>5. CASE BeginLeaveUnknown(c)
  <2>1. Leaving(c) = {} /\ Head(requests[c]).op = "close" /\ userConnMap' = userConnMap
    BY <1>5, Zenon DEF BeginLeaveUnknown, Receive
  <2>2. \A v \in UserId : userConnMap[v] # c
    BY <2>1 DEF Leaving
  <2> QED BY <2>1, <2>2 DEF TableInv
<1> QED BY <1>4, <1>5

LEMMA GoesTable ==
    ASSUME DataInv, NEW c \in Client, ClientInv(c), Goes(c), TableInv(c) PROVE TableInv(c)'
<1>0. /\ c # None /\ userConnMap \in [UserId -> Client \union {None}] /\ loggedIn \in [Client -> 0..MaxUser]
      /\ job \in [Thread -> JobState] /\ c \in Thread
  BY AccountsAssumption DEF DataInv, TablesOK
<1>1. CASE Check(c)
  <2>1. Next1(c, "check") /\ userConnMap' = userConnMap /\ loggedIn' = loggedIn
    BY <1>1, Zenon DEF Check
  <2>2. Todo(c) = <<"check">>
    BY <2>1, LoggerIs
  <2>3. Todo(c) \notin {<<"bindUser">>, <<"removeConn">>}
    BY <2>2, Tail1
  <2> QED BY <2>1, <2>3, TableKept
<1>2. CASE AddConn(c)
  <2>1. /\ Next1(c, "addConn") /\ loggedIn' = loggedIn /\ userConnMap' = [userConnMap EXCEPT ![Asker(c)] = c]
        /\ job' = [job EXCEPT ![c].todo = Tail(@)]
    BY <1>2, Zenon DEF AddConn
  <2>2. /\ job[c] \in JobState /\ Op(c) = "login" /\ Todo(c) = <<"addConn", "bindUser">>
        /\ Tail(Todo(c)) = <<"bindUser">> /\ Asker(c) \in UserId
    BY <2>1, LoggerIs
  <2>3. job'[c].req = job[c].req /\ Todo(c)' = <<"bindUser">>
    BY <1>0, <2>1, <2>2 DEF JobState, Todo
  <2>4. Op(c)' = "login" /\ Asker(c)' = Asker(c)
    BY <2>2, <2>3 DEF Op, Asker
  <2>5. Todo(c) \notin {<<"bindUser">>, <<"removeConn">>}
    BY <2>2, Tail1, Tail2
  <2>6. \A u \in UserId : userConnMap'[u] = c => u = Asker(c) \/ userConnMap[u] = c
    BY <1>0, <2>1
  <2>7. \A u \in UserId : userConnMap[u] = c => loggedIn'[c] = u
    BY <2>1, <2>5 DEF TableInv
  <2> QED BY <2>3, <2>4, <2>6, <2>7 DEF TableInv
<1>3. CASE BindUser(c)
  <2>1. Next1(c, "bindUser") /\ loggedIn' = [loggedIn EXCEPT ![c] = Asker(c)] /\ userConnMap' = userConnMap
    BY <1>3, Zenon DEF BindUser
  <2>2. Op(c) = "login" /\ Todo(c) = <<"bindUser">> /\ Asker(c) \in UserId
    BY <2>1, LoggerIs
  <2>3. ~Bound(c)
    BY <2>2, PlanStages DEF Bound
  <2>4. loggedIn[c] = 0
    BY <2>2, <2>3, TokenAlone DEF Token
  <2>5. \A u \in UserId : userConnMap[u] = c => u = Asker(c)
    BY <2>4 DEF TableInv, UserId
  <2>6. loggedIn'[c] = Asker(c)
    BY <1>0, <2>1
  <2> QED BY <2>1, <2>5, <2>6 DEF TableInv
<1>4. CASE BindRefused(c)
  <2>1. /\ Next1(c, "bindUser") /\ loggedIn' = loggedIn /\ userConnMap' = userConnMap
        /\ job' = [job EXCEPT ![c].todo = <<"removeConn">>]
    BY <1>4, Zenon DEF BindRefused
  <2>2. job[c] \in JobState /\ Op(c) = "login"
    BY <2>1, LoggerIs
  <2>3. job'[c].req = job[c].req /\ Todo(c)' = <<"removeConn">>
    BY <1>0, <2>1, <2>2 DEF JobState, Todo
  <2>4. Op(c)' = "login" /\ Asker(c)' = Asker(c)
    BY <2>2, <2>3 DEF Op, Asker
  <2> QED BY <2>1, <2>3, <2>4, TableKept
<1>5. CASE LoginUndo(c)
  <2>1. Next1(c, "removeConn") /\ loggedIn' = loggedIn /\ userConnMap' = [userConnMap EXCEPT ![Asker(c)] = None]
    BY <1>5, Zenon DEF LoginUndo
  <2>2. \A u \in UserId : userConnMap'[u] = c => u # Asker(c) /\ userConnMap[u] = c
    BY <1>0, <2>1
  <2>3. \A u \in UserId : userConnMap'[u] = c => loggedIn'[c] = u
    BY <2>1, <2>2 DEF TableInv
  <2> QED BY <2>3 DEF TableInv
<1>6. CASE Resolve(c) \/ UnbindUser(c)
  <2>1. Op(c) \in {"chat", "groupChat", "logout", "close"} /\ loggedIn' = loggedIn /\ userConnMap' = userConnMap
    BY <1>6, ResolveIs DEF Resolved
  <2> QED BY <2>1, TableKept
<1> QED BY <1>1, <1>2, <1>3, <1>4, <1>5, <1>6 DEF Goes

LEMMA HandlerTable ==
    ASSUME DataInv, NEW c \in Client, ClientInv(c), ClientStep(c), TableInv(c) PROVE TableInv(c)'
<1>1. CASE Begin(c) \/ BeginChat(c)
  <2>1. ~Busy(c) /\ loggedIn' = loggedIn /\ userConnMap' = userConnMap
    BY <1>1, BeginIs, BeginChatIs, Zenon DEF Begin
  <2>2. Op(c) = "none"
    BY <2>1 DEF Busy, NoRequest, Op
  <2> QED BY <2>1, <2>2, TableKept
<1>2. CASE Reply(c)
  <2>1. Todo(c) = <<>> /\ loggedIn' = loggedIn /\ userConnMap' = userConnMap
    BY <1>2, Zenon DEF Reply
  <2>2. Todo(c) \notin {<<"bindUser">>, <<"removeConn">>}
    BY <2>1, Tail1
  <2> QED BY <2>1, <2>2, TableKept
<1> QED BY <1>1, <1>2, LeaveTable, GoesTable DEF ClientStep, Goes

LEMMA TablesStep ==
    ASSUME DataInv, \A e \in Client : ClientInv(e) /\ TableInv(e), [Next]_vars
    PROVE  \A d \in Client : TableInv(d)'
<1>1. ASSUME UNCHANGED <<job, userConnMap, loggedIn>> PROVE \A d \in Client : TableInv(d)'
  BY <1>1, TableSame
<1>2. ASSUME NEW t \in Thread, ThreadStep(t) \/ Rewoken(t) PROVE \A d \in Client : TableInv(d)'
  <2>1. CASE Borrow(t) \/ Rewoken(t)
    BY <1>1, <2>1 DEF Borrow, Rewoken
  <2>2. CASE Statement(t)
    BY <2>2, StatementTable
  <2>3. CASE t \in Client /\ ClientStep(t)
    BY <2>3, HandlerTable, OthersTable
  <2> QED BY <1>2, <2>1, <2>2, <2>3 DEF ThreadStep
<1>3. ASSUME NEW c \in Client, UserStep(c) \/ Wake(c) \/ ReaderStep(c)
      PROVE  \A d \in Client : TableInv(d)'
  <2>1. UNCHANGED <<job, userConnMap, loggedIn>>
    BY <1>3 DEF UserStep, AskLogin, AskReg, AddFriend, CreateGroup, AddGroup, Chat, GroupChat, Logout, Quit, Command,
         Wake, ReaderStep, ReadLive, ReadReg, ReadLoginRefused, ReadLogin, Post, Reading, ServerUnchanged
  <2> QED BY <1>1, <2>1
<1>4. CASE UNCHANGED vars
  BY <1>1, <1>4 DEF vars, accVars
<1> QED BY <1>2, <1>3, <1>4 DEF Next, AccountsNext

LEMMA InitClients == Init => \A c \in Client : ClientInv(c) /\ TableInv(c)
<1> SUFFICES ASSUME Init PROVE \A c \in Client : ClientInv(c) /\ TableInv(c)
  OBVIOUS
<1>1. /\ \A c \in Client : /\ Op(c) = "none" /\ answers[c] = <<>> /\ requests[c] = <<>>
                           /\ main[c] = "prompt" /\ reader[c] = "recv" /\ sem[c] = 0
      /\ \A c \in Client : loggedIn[c] = 0
      /\ \A u \in UserId : userConnMap[u] = None
  BY DEF Init, AccountsInit, Op, NoJob, NoRequest
<1>2. DOMAIN <<>> = {}
  OBVIOUS
<1>3. ASSUME NEW c \in Client PROVE OrderInv(c) /\ TurnInv(c) /\ HereInv(c)
  <2>1. /\ \A i \in DOMAIN requests[c] : FALSE
        /\ \A i \in DOMAIN answers[c] : FALSE
    BY <1>1, <1>2
  <2>2. ~Told(c) /\ ~Posted(c) /\ (\A ops : ~Sent(c, ops)) /\ ~Bound(c) /\ ~Entering(c)
    BY <1>1, <2>1 DEF Told, Posted, Sent, Bound, Entering
  <2>4. OrderInv(c)
    BY <2>1 DEF OrderInv
  <2>5. TurnInv(c)
    BY <1>1, <2>1, <2>2 DEF TurnInv, Token
  <2>6. HereInv(c)
    BY <1>1, <2>1, <2>2 DEF HereInv
  <2> QED BY <2>4, <2>5, <2>6
<1>4. \A c \in Client : TableInv(c)
  BY <1>1, AccountsAssumption DEF TableInv
<1> QED BY <1>3, <1>4 DEF ClientInv

AccountInv == PoolInv /\ ThreadsOK /\ DataInv /\ \A c \in Client : ClientInv(c) /\ TableInv(c)

LEMMA AccountInvHolds == Spec => []AccountInv
<1>1. Init => AccountInv
  BY PoolInitOK, InitData, InitClients DEF Init, AccountsInit, AccountInv
<1>2. AccountInv /\ [Next]_vars => AccountInv'
  BY NextPools, PoolInvStep, ThreadsStep, DataStep, ClientsStep, TablesStep DEF AccountInv
<1> QED BY <1>1, <1>2, PTL DEF Spec

(* main.cpp and login, logout, clientCloseException: once nothing is under way between a   *)
(* client and the server, the menu the client shows says whether and as whom it is logged   *)
(* in, and the connection table names it for nobody else, for any number of clients, also     *)
(* when several log in as one user at a time, and whatever the commands before.            *)
THEOREM MenusAgree == Spec => []ClientAgrees
<1>1. AccountInv => ClientAgrees
  <2> SUFFICES ASSUME AccountInv, NEW c \in Client, Settled(c)
               PROVE  /\ main[c] \in {"prompt", "gone"} => loggedIn[c] = 0
                      /\ main[c] = "menu" => loggedIn[c] # 0 /\ loggedIn[c] = currentUser[c]
                      /\ \A u \in UserId : userConnMap[u] = c => loggedIn[c] = u
    BY DEF ClientAgrees
  <2>1. HereInv(c) /\ Op(c) = "none" /\ ~Posted(c)
    BY DEF AccountInv, ClientInv, Settled, Busy, NoRequest, Op, Posted
  <2>2. (\A ops : ~Sent(c, ops)) /\ ~Welcomed(c)
    <3>1. DOMAIN <<>> = {}
      OBVIOUS
    <3> QED BY <3>1 DEF Settled, Sent, Welcomed
  <2>3. ~Bound(c) /\ ~Entering(c)
    BY <2>1 DEF Bound, Entering
  <2>4. main[c] \in {"prompt", "gone"} => ~Stuck(c)
    BY DEF Stuck
  <2>5. main[c] = "menu" => currentUser[c] \in UserId
    BY DEF AccountInv, DataInv
  <2>6. \A u \in UserId : userConnMap[u] = c => loggedIn[c] = u
    BY <2>1 DEF AccountInv, TableInv
  <2>7. main[c] \in {"prompt", "gone"} => loggedIn[c] = 0
    BY <2>1, <2>2, <2>3, <2>4 DEF HereInv
  <2> QED BY <2>1, <2>5, <2>6, <2>7 DEF HereInv, UserId
<1> QED BY <1>1, AccountInvHolds, PTL

-----------------------------------------------------------------------------
(* Rows that say "online" of nobody.  A handler that will correct a row is a login, a logout or  *)
(* the end of a connection, at a known place of its plan                              *)
LEMMA CorrectsWhen ==
    ASSUME NEW op, NEW td, PlanFits(op, td), NEW i \in DOMAIN td, td[i] = "setOffline"
    PROVE  \/ op = "login" /\ Head(td) = "setOffline"
           \/ op \in {"logout", "close"} /\ td \in Exiting
<1>1. ASSUME td = <<>> PROVE FALSE
  BY <1>1
<1>2. ASSUME NEW f, f # "setOffline", td = <<f>> PROVE FALSE
  <2>1. i = 1 /\ td[1] = f
    BY ONLY <1>2, i \in DOMAIN td
  <2> QED BY ONLY <1>2, <2>1, td[i] = "setOffline"
<1>3. ASSUME op = "login", td \in Looking PROVE FALSE
  <2>1. CASE td = <<"queryUser", "check">>
    BY <2>1
  <2>2. CASE td = <<"check">>
    BY <1>2, <2>2
  <2> QED BY <1>3, <2>1, <2>2 DEF Looking
<1>4. ASSUME op = "login", td \in PreBind PROVE Head(td) = "setOffline"
  <2>1. CASE td = <<"setOffline", "addConn", "bindUser">>
    BY ONLY <2>1, Tail3
  <2>2. CASE td = <<"addConn", "bindUser">>
    BY <2>2
  <2>3. CASE td \in {<<"bindUser">>, <<"removeConn">>}
    BY <1>2, <2>3
  <2> QED BY <1>4, <2>1, <2>2, <2>3 DEF PreBind
<1>5. ASSUME td \in PostBind PROVE FALSE
  <2>1. CASE td = <<"setOnline", "queryOffline", "queryFriends", "queryGroups">>
    BY <2>1
  <2>2. CASE td = <<"queryOffline", "queryFriends", "queryGroups">>
    BY <2>2
  <2>3. CASE td = <<"removeOffline", "queryFriends", "queryGroups">>
    BY <2>3
  <2>4. CASE td \in {<<"queryFriends", "queryGroups">>, <<"queryGroups">>}
    BY <2>4
  <2> QED BY <1>5, <2>1, <2>2, <2>3, <2>4 DEF PostBind
<1>6. ASSUME td \in Sending PROVE FALSE
  <2>1. CASE td = <<"unbindUser", "resolve", "insertOffline">>
    BY <2>1
  <2>2. CASE td \in {<<"resolve", "insertOffline">>, <<"insertOffline">>}
    BY <2>2
  <2> QED BY <1>6, <2>1, <2>2 DEF Sending
<1> QED BY <1>1, <1>2, <1>3, <1>4, <1>5, <1>6 DEF PlanFits

LEMMA CorrectorIs ==
    ASSUME DataInv, NEW c \in Client, NEW u, Correcting(c, u)
    PROVE  /\ Todo(c) # <<>> /\ job[c] # NoJob
           /\ \/ Op(c) = "login" /\ Head(Todo(c)) = "setOffline" /\ u = Asker(c)
              \/ /\ Op(c) \in {"logout", "close"} /\ Todo(c) \in Exiting /\ job[c].to # {}
                 /\ u \in UserId => u \in job[c].to
<1>0. c \in Thread
  BY AccountsAssumption
<1>1. PICK i \in DOMAIN Todo(c) : Todo(c)[i] = "setOffline"
  BY DEF Correcting
<1>2. Todo(c) # <<>>
  BY <1>1
<1>3. job[c] # NoJob
  BY <1>0, <1>2, NotNoJob
<1>4. /\ PlanFits(Op(c), Todo(c))
      /\ Op(c) = "login" => LoginFits(job[c])
      /\ Todo(c) \in Exiting => job[c].to # {} /\ Asker(c) \in job[c].to \union {0}
  BY <1>0, <1>3, RunnerIs
<1>5. u = Asker(c) \/ u \in job[c].to
  BY DEF Correcting
<1>6. CASE Op(c) = "login" /\ Head(Todo(c)) = "setOffline"
  BY <1>2, <1>3, <1>4, <1>5, <1>6 DEF LoginFits
<1>7. CASE Op(c) \in {"logout", "close"} /\ Todo(c) \in Exiting
  BY <1>2, <1>3, <1>4, <1>5, <1>7 DEF UserId
<1> QED BY <1>1, <1>4, <1>6, <1>7, CorrectsWhen

(* A handler whose next function is none of these corrects nothing *)
LEMMA CorrectorHead ==
    ASSUME DataInv, NEW c \in Client, NEW u, Correcting(c, u)
    PROVE  Head(Todo(c)) \in {"setOffline", "unbindUser"}
<1>1. (Op(c) = "login" /\ Head(Todo(c)) = "setOffline") \/ Todo(c) \in Exiting
  BY CorrectorIs
<1>2. CASE Todo(c) = <<"unbindUser", "setOffline">>
  BY <1>2, Tail2
<1>3. CASE Todo(c) = <<"setOffline">>
  BY <1>3, Tail1
<1> QED BY <1>1, <1>2, <1>3 DEF Exiting

LEMMA SameCorrects == ASSUME NEW c, NEW u, job'[c] = job[c] PROVE Correcting(c, u)' <=> Correcting(c, u)
<1>1. Asker(c)' = Asker(c) /\ Todo(c)' = Todo(c)
  BY DEF Asker, Todo
<1> QED BY <1>1 DEF Correcting

LEMMA NoNewGhost ==
    ASSUME NEW u,
           u \in DOMAIN user' /\ user'[u].state = "online" => u \in DOMAIN user /\ user[u].state = "online",
           userConnMap'[u] = None => userConnMap[u] = None,
           \A c \in Client : Correcting(c, u) => Correcting(c, u)'
    PROVE  Ghost(u)' => Ghost(u)
<1>1. SUFFICES ASSUME Ghost(u)' PROVE Ghost(u)
  OBVIOUS
<1>2. /\ u \in DOMAIN user' /\ user'[u].state = "online" /\ userConnMap'[u] = None
      /\ \A c \in Client : ~(Correcting(c, u)')
  BY <1>1 DEF Ghost
<1> QED BY <1>2 DEF Ghost

(* The permitted exceptions *)
Undone(u) ==
    \E c \in Client : Asker(c) = u /\ (LoginUndo(c) \/ (UpdateState(c) /\ Next1(c, "setOnline")))

(* The other threads' handlers, when t's takes a step *)
LEMMA OthersCorrect ==
    ASSUME DataInv, NEW t \in Thread, NEW j, job' = [job EXCEPT ![t] = j], NEW u, ~Correcting(t, u) \/ Correcting(t, u)'
    PROVE  \A c \in Client : Correcting(c, u) => Correcting(c, u)'
<1> SUFFICES ASSUME NEW c \in Client, Correcting(c, u) PROVE Correcting(c, u)'
  OBVIOUS
<1>1. CASE c = t
  BY <1>1
<1>2. CASE c # t
  <2>1. job'[c] = job[c]
    BY <1>2, AccountsAssumption DEF DataInv
  <2> QED BY <2>1, SameCorrects
<1> QED BY <1>1, <1>2

LEMMA UpdateGhost ==
    ASSUME DataInv, NEW t \in Thread, UpdateState(t), NEW u \in UserId, Ghost(u)' PROVE Ghost(u) \/ Undone(u)
<1> DEFINE whom == IF job[t].to = {} THEN {Asker(t)} ELSE job[t].to
<1>1. PICK s \in {"online", "offline"} :
        /\ Running(t, IF s = "online" THEN "setOnline" ELSE "setOffline")
        /\ user' = [v \in DOMAIN user |-> IF v \in whom THEN [user[v] EXCEPT !.state = s] ELSE user[v]]
  BY DEF UpdateState
<1>2. job' = [job EXCEPT ![t] = [Done(t) EXCEPT !.to = {}]] /\ userConnMap' = userConnMap
  BY DEF UpdateState, Returns
<1>3. user \in Seq(User)
  BY DEF DataInv, TablesOK
<1>4. ASSUME u \notin whom, ~Correcting(t, u) PROVE Ghost(u)
  <2>1. u \in DOMAIN user' /\ user'[u].state = "online" => u \in DOMAIN user /\ user[u].state = "online"
    BY <1>1, <1>4
  <2>2. \A c \in Client : Correcting(c, u) => Correcting(c, u)'
    BY <1>2, <1>4, OthersCorrect
  <2>3. userConnMap'[u] = None => userConnMap[u] = None
    BY <1>2
  <2> QED BY <2>1, <2>2, <2>3, NoNewGhost
<1>5. CASE s = "online"
  <2>1. Running(t, "setOnline")
    BY <1>1, <1>5
  <2>2. t \in Client /\ Head(Todo(t)) = "setOnline" /\ PlanFits(Op(t), Todo(t)) /\ Todo(t) # <<>>
        /\ (Op(t) = "login" => LoginFits(job[t])) /\ Next1(t, "setOnline")
    BY <2>1, RunningIs DEF Next1
  <2>3. whom = {Asker(t)}
    BY <2>2, NextPlan DEF LoginFits
  <2>4. ~Correcting(t, u)
    BY <2>2, CorrectorHead
  <2> HIDE DEF whom
  <2> QED BY <1>4, <2>2, <2>3, <2>4 DEF Undone
<1>6. CASE s = "offline"
  <2>1. Running(t, "setOffline")
    BY <1>1, <1>6
  <2>2. t \in Client /\ Head(Todo(t)) = "setOffline" /\ PlanFits(Op(t), Todo(t)) /\ Todo(t) # <<>>
        /\ (Op(t) = "login" => LoginFits(job[t]))
    BY <2>1, RunningIs
  <2>3. u \notin whom
    <3> SUFFICES ASSUME u \in whom PROVE FALSE
      OBVIOUS
    <3>1. u \in DOMAIN user' /\ user'[u].state = "online"
      BY DEF Ghost
    <3>2. user'[u] = [user[u] EXCEPT !.state = "offline"] /\ user[u] \in User
      BY <1>1, <1>3, <1>6, <3>1
    <3>3. user'[u].state = "offline"
      BY <3>2 DEF User
    <3> QED BY <3>1, <3>3
  <2>4. ~Correcting(t, u)
    <3> SUFFICES ASSUME Correcting(t, u) PROVE FALSE
      OBVIOUS
    <3>1. \/ Op(t) = "login" /\ u = Asker(t)
          \/ job[t].to # {} /\ u \in job[t].to
      BY <2>2, CorrectorIs
    <3>2. u \in whom
      BY <2>2, <3>1 DEF LoginFits
    <3> QED BY <2>3, <3>2
  <2> HIDE DEF whom
  <2> QED BY <1>4, <2>3, <2>4
<1> QED BY <1>1, <1>5, <1>6

LEMMA StatementGhost ==
    ASSUME DataInv, NEW t \in Thread, Statement(t), NEW u \in UserId, Ghost(u)' PROVE Ghost(u) \/ Undone(u)
<1>1. CASE UpdateState(t)
  BY <1>1, UpdateGhost
<1>2. CASE ~UpdateState(t)
  <2>1. t \in Client /\ Todo(t) # <<>> /\ Head(Todo(t)) \notin {"setOffline", "unbindUser"}
    <3>1. CASE InsertReturns(t)
      <4>1. job[t].got = "yes"
        BY <3>1 DEF InsertReturns
      <4>2. Todo(t) \in {<<"insertUser">>, <<"createGroup">>}
        BY <4>1 DEF DataInv, JobFits
      <4>3. t \in Client
        BY StatementStays
      <4> QED BY <4>2, <4>3, Tail1
    <3>2. CASE ~InsertReturns(t)
      <4>1. \E f \in {"insertUser", "createGroup", "queryUser", "queryOffline",
                      "removeOffline", "insertOffline", "queryFriends", "insertFriend", "addGroup", "addCreator",
                      "queryGroups", "queryGroupUsers"} : Running(t, f)
        BY <1>2, <3>2 DEF Statement, UserInsert, GroupInsert, InsertFails, UserQuery, OfflineQuery,
                          OfflineRemove, OfflineInsert, FriendQuery, FriendInsert, MemberInsert, GroupQuery,
                          GroupUsersQuery
      <4> QED BY <4>1, StatementStays DEF Running, Next1
    <3> QED BY <3>1, <3>2
  <2>2. ~Correcting(t, u)
    BY <2>1, CorrectorHead
  <2>3. \A c \in Client : Correcting(c, u) => Correcting(c, u)'
    BY <2>2, StatementStays, OthersCorrect
  <2>4. u \in DOMAIN user' /\ user'[u].state = "online" => u \in DOMAIN user /\ user[u].state = "online"
    <3>1. CASE UserInsert(t)
      <4>1. user' = Append(user, [by |-> t, state |-> "offline"]) /\ user \in Seq(User)
        BY <3>1 DEF UserInsert, DataInv, TablesOK
      <4>2. u \in DOMAIN user' => u \in DOMAIN user \/ user'[u] = [by |-> t, state |-> "offline"]
        BY <4>1
      <4>3. u \in DOMAIN user => user'[u] = user[u]
        BY <4>1
      <4> QED BY <4>2, <4>3
    <3>2. CASE ~UserInsert(t)
      <4>1. CASE GroupInsert(t) \/ InsertReturns(t) \/ InsertFails(t) \/ UserQuery(t) \/ OfflineQuery(t)
        BY <4>1 DEF GroupInsert, InsertReturns, InsertFails, UserQuery, OfflineQuery, tables
      <4>2. CASE OfflineRemove(t) \/ OfflineInsert(t) \/ FriendQuery(t) \/ FriendInsert(t)
        BY <4>2 DEF OfflineRemove, OfflineInsert, FriendQuery, FriendInsert, tables
      <4>3. CASE MemberInsert(t) \/ GroupQuery(t) \/ GroupUsersQuery(t)
        BY <4>3 DEF MemberInsert, GroupQuery, GroupUsersQuery, tables
      <4> QED BY <1>2, <3>2, <4>1, <4>2, <4>3 DEF Statement
    <3> QED BY <3>1, <3>2
  <2>5. userConnMap'[u] = None => userConnMap[u] = None
    BY <2>1, StatementAnswers
  <2> QED BY <2>3, <2>4, <2>5, NoNewGhost
<1> QED BY <1>1, <1>2

(* A handler that goes on or ends without having anything to correct *)
LEMMA IdleGhost ==
    ASSUME DataInv, NEW c \in Client, NEW u \in UserId, ~Correcting(c, u) \/ Correcting(c, u)',
           user' = user, job' = job \/ \E j : job' = [job EXCEPT ![c] = j],
           userConnMap'[u] = None => userConnMap[u] = None, Ghost(u)'
    PROVE  Ghost(u)
<1>1. \A d \in Client : Correcting(d, u) => Correcting(d, u)'
  <2>1. CASE job' = job
    BY <2>1, SameCorrects
  <2>2. CASE \E j : job' = [job EXCEPT ![c] = j]
    BY <2>2, OthersCorrect, AccountsAssumption
  <2> QED BY <2>1, <2>2
<1> QED BY <1>1, NoNewGhost

LEMMA BegunGhost ==
    ASSUME DataInv, NEW c \in Client, Begin(c) \/ BeginLeave(c) \/ BeginLeaveUnknown(c) \/ BeginChat(c),
           NEW u \in UserId, Ghost(u)'
    PROVE  Ghost(u)
<1>0. c \in Thread
  BY AccountsAssumption
<1>1. ~Busy(c) /\ user' = user
  BY BeginIs DEF tables
<1>2. ~Correcting(c, u)
  <2>1. Op(c) = "none"
    BY <1>1 DEF Busy, NoRequest, Op
  <2> QED BY <2>1, CorrectorIs
<1>3. CASE BeginLeave(c)
  <2>1. PICK r, v : /\ r = Head(requests[c]) /\ requests[c] # <<>> /\ r.op \in {"logout", "close"} /\ v \in Leaving(c)
                    /\ v \in UserId /\ r.id \in {v, 0} /\ (r.op = "logout" => v = r.id) /\ ~Busy(c)
                    /\ (r.op = "close" => userConnMap[v] = c)
                    /\ requests' = [requests EXCEPT ![c] = Tail(@)]
                    /\ userConnMap' = [userConnMap EXCEPT ![v] = None]
                    /\ loggedIn' = [loggedIn EXCEPT ![c] = 0]
                    /\ job' = [job EXCEPT ![c] = [NoJob EXCEPT !.req = r, !.todo = <<"unbindUser", "setOffline">>,
                                                              !.to = {v}, !.ask = {v}]]
                    /\ UNCHANGED <<poolVars, tables, session, answers>>
    BY <1>3, LeaveIs
  <2> DEFINE td == <<"unbindUser", "setOffline">>
             j  == [NoJob EXCEPT !.req = r, !.todo = td, !.to = {v}, !.ask = {v}]
  <2>2. j.todo = td /\ j.to = {v}
    BY DEF NoJob
  <2>3. job' = [job EXCEPT ![c] = j]
    BY <2>1
  <2>4. 2 \in DOMAIN td /\ td[2] = "setOffline"
    OBVIOUS
  <2> HIDE DEF j, td
  <2>5. job'[c] = j
    BY <1>0, <2>3 DEF DataInv
  <2>6. Correcting(c, v)'
    BY <2>2, <2>4, <2>5 DEF Correcting, Todo
  <2>7. u # v
    BY <2>6 DEF Ghost
  <2>8. userConnMap'[u] = userConnMap[u]
    BY <2>1, <2>7 DEF DataInv, TablesOK
  <2> QED BY <1>1, <1>2, <2>3, <2>8, IdleGhost
<1>4. CASE Begin(c) \/ BeginLeaveUnknown(c) \/ BeginChat(c)
  <2>1. userConnMap' = userConnMap
    BY <1>4, BeginChatIs, Zenon DEF Begin, BeginLeaveUnknown
  <2>2. job' = job \/ \E j : job' = [job EXCEPT ![c] = j]
    BY BeginIs DEF Serve
  <2> QED BY <1>1, <1>2, <2>1, <2>2, IdleGhost
<1> QED BY <1>3, <1>4

LEMMA GoesGhost ==
    ASSUME DataInv, NEW c \in Client, Goes(c), NEW u \in UserId, Ghost(u)' PROVE Ghost(u) \/ Undone(u)
<1>0. /\ c # None /\ userConnMap \in [UserId -> Client \union {None}]
      /\ job \in [Thread -> JobState] /\ c \in Thread
  BY AccountsAssumption DEF DataInv, TablesOK
<1>1. user' = user /\ \E j : job' = [job EXCEPT ![c] = j]
  BY GoesIs DEF tables
<1>2. CASE Check(c) \/ BindUser(c) \/ BindRefused(c)
  <2>1. PICK f \in {"check", "bindUser"} : Next1(c, f) /\ userConnMap' = userConnMap
    BY <1>2, Zenon DEF Check, BindUser, BindRefused
  <2>2. ~Correcting(c, u)
    BY <2>1, CorrectorHead DEF Next1
  <2> QED BY <1>1, <2>1, <2>2, IdleGhost
<1>3. CASE AddConn(c)
  <2>1. Next1(c, "addConn") /\ userConnMap' = [userConnMap EXCEPT ![Asker(c)] = c]
    BY <1>3, Zenon DEF AddConn
  <2>2. ~Correcting(c, u)
    BY <2>1, CorrectorHead DEF Next1
  <2>3. userConnMap'[u] = None => userConnMap[u] = None
    BY <1>0, <2>1
  <2> QED BY <1>1, <2>2, <2>3, IdleGhost
<1>4. CASE LoginUndo(c)
  <2>1. Next1(c, "removeConn") /\ userConnMap' = [userConnMap EXCEPT ![Asker(c)] = None]
    BY <1>4, Zenon DEF LoginUndo
  <2>2. ~Correcting(c, u)
    BY <2>1, CorrectorHead DEF Next1
  <2>3. CASE u = Asker(c)
    BY <1>4, <2>3 DEF Undone
  <2>4. CASE u # Asker(c)
    <3>1. userConnMap'[u] = userConnMap[u]
      BY <1>0, <2>1, <2>4
    <3> QED BY <1>1, <2>2, <3>1, IdleGhost
  <2> QED BY <2>3, <2>4
<1>5. CASE Resolve(c) \/ UnbindUser(c)
  <2>1. PICK j \in JobState :
           /\ job' = [job EXCEPT ![c] = j] /\ j.req = job[c].req /\ j.to = job[c].to /\ userConnMap' = userConnMap
           /\ \/ Op(c) \in {"chat", "groupChat"}
              \/ j.todo = <<"setOffline">>
    BY <1>5, ResolveIs DEF Resolved
  <2>2. job'[c] = j
    BY <1>0, <2>1
  <2>3. ASSUME Correcting(c, u) PROVE Correcting(c, u)'
    <3>1. Op(c) \notin {"chat", "groupChat"}
      BY <2>3, CorrectorIs
    <3>2. j.todo = <<"setOffline">>
      BY <2>1, <3>1
    <3>3. 1 \in DOMAIN j.todo /\ j.todo[1] = "setOffline"
      BY <3>2
    <3>4. u = Asker(c) \/ u \in job[c].to
      BY <2>3 DEF Correcting
    <3>5. Todo(c)' = j.todo /\ Asker(c)' = Asker(c) /\ job'[c].to = job[c].to
      BY <2>1, <2>2 DEF Todo, Asker
    <3> QED BY <3>3, <3>4, <3>5 DEF Correcting
  <2> QED BY <1>1, <2>1, <2>3, IdleGhost
<1> QED BY <1>2, <1>3, <1>4, <1>5 DEF Goes

LEMMA GhostStep ==
    ASSUME DataInv, [Next]_vars, NEW u \in UserId, Ghost(u)' PROVE Ghost(u) \/ Undone(u)
<1>1. ASSUME UNCHANGED <<user, userConnMap, job>> PROVE Ghost(u)
  BY <1>1, NoNewGhost, SameCorrects
<1>2. ASSUME NEW t \in Thread, ThreadStep(t) \/ Rewoken(t) PROVE Ghost(u) \/ Undone(u)
  <2>1. CASE Borrow(t) \/ Rewoken(t)
    BY <1>1, <2>1 DEF Borrow, Rewoken, tables
  <2>2. CASE Statement(t)
    BY <2>2, StatementGhost
  <2>3. ASSUME t \in Client, Reply(t) PROVE Ghost(u)
    <3>1. /\ Todo(t) = <<>> /\ user' = user /\ userConnMap' = userConnMap
          /\ \E j : job' = [job EXCEPT ![t] = j]
      BY <2>3 DEF Reply, tables
    <3>2. ~Correcting(t, u)
      BY <2>3, <3>1, CorrectorIs
    <3> QED BY <2>3, <3>1, <3>2, IdleGhost
  <2>4. CASE t \in Client /\ ClientStep(t)
    BY <2>3, <2>4, BegunGhost, GoesGhost DEF ClientStep, Goes
  <2> QED BY <1>2, <2>1, <2>2, <2>4 DEF ThreadStep
<1>3. ASSUME NEW c \in Client, UserStep(c) \/ Wake(c) \/ ReaderStep(c) PROVE Ghost(u)
  <2>1. UNCHANGED <<user, userConnMap, job>>
    BY <1>3 DEF UserStep, AskLogin, AskReg, AddFriend, CreateGroup, AddGroup, Chat, GroupChat, Logout, Quit, Command,
         Wake, ReaderStep, ReadLive, ReadReg, ReadLoginRefused, ReadLogin, Post, Reading, ServerUnchanged, tables
  <2> QED BY <1>1, <2>1
<1>4. CASE UNCHANGED vars
  BY <1>1, <1>4 DEF vars, accVars, tables
<1> QED BY <1>2, <1>3, <1>4 DEF Next, AccountsNext

(* UserModel::updateState in login, logout and clientCloseException, whose statements reach   *)
(* MySQL in any order: a row is left "online" with nobody in the connection table and no       *)
(* handler to correct it in two ways only, the undo of a refused login and the "online" of a      *)
(* login whose entry has been erased, for any number of clients and of logins at a time.        *)
THEOREM GhostsAreDoubleLogins == Spec => GhostsOfDoubleLogins
<1>1. AccountInv /\ [Next]_vars =>
        [\A u \in UserId :
            ~Ghost(u) /\ Ghost(u)' =>
               \E c \in Client :
                   /\ Asker(c) = u
                   /\ LoginUndo(c) \/ (UpdateState(c) /\ Next1(c, "setOnline"))]_vars
  BY GhostStep DEF AccountInv, Undone
<1> QED BY <1>1, AccountInvHolds, PTL DEF Spec, GhostsOfDoubleLogins

LEMMA UpTo == ASSUME NEW n \in Nat PROVE IsFiniteSet(1..n) /\ Cardinality(1..n) = n
<1>1. 1 \in Int /\ n \in Int
  OBVIOUS
<1>2. IsFiniteSet(1..n) /\ Cardinality(1..n) = (IF 1 > n THEN 0 ELSE n - 1 + 1)
  BY <1>1, FS_Interval
<1> QED BY <1>2

(* No connection is twice in the queue, so there is room for all of them *)
LEMMA QueueFits == ASSUME PoolInv PROVE Len(queue) <= PoolSize
<1>1. /\ queue \in [1..Len(queue) -> Handle] /\ Len(queue) \in Nat
      /\ \A i, j \in 1..Len(queue) : queue[i] = queue[j] => i = j
  BY DEF PoolInv
<1>2. IsFiniteSet(1..Len(queue)) /\ Cardinality(1..Len(queue)) = Len(queue)
  BY <1>1, UpTo
<1>3. IsFiniteSet(Handle) /\ Cardinality(Handle) = PoolSize
  BY UpTo DEF Handle
<1>4. ~(Cardinality(Handle) < Cardinality(1..Len(queue)))
  <2> DEFINE places == 1..Len(queue)
  <2>1. /\ queue \in [places -> Handle] /\ IsFiniteSet(places) /\ IsFiniteSet(Handle)
        /\ \A i, j \in places : queue[i] = queue[j] => i = j
    BY <1>1, <1>2, <1>3
  <2> HIDE DEF places
  <2>2. ~(Cardinality(Handle) < Cardinality(places))
    BY ONLY <2>1, FS_PigeonHole
  <2> QED BY <2>2 DEF places
<1> QED BY <1>1, <1>2, <1>3, <1>4

(* The client, the handlers and the tables keep their types, for any number of clients,    *)
(* users, groups and connections: the semaphore of the client's two threads is never         *)
(* posted twice, the pool's queue never holds more than its connections, and a client's       *)
(* friend list never has an entry that table friend lacks.                                 *)
THEOREM ClientTypeCorrect == Spec => []TypeOK
<1>1. AccountInv => TypeOK
  <2> SUFFICES ASSUME AccountInv PROVE TypeOK
    OBVIOUS
  <2>1. PoolTypeOK
    BY QueueFits DEF AccountInv, PoolInv, PoolTypeOK
  <2>2. AccountsTypeOK
    BY <2>1 DEF AccountInv, DataInv, TablesOK, RequestsOK, User, AccountsTypeOK
  <2>3. sem \in [Client -> 0..1]
    BY DEF AccountInv, ThreadsOK, ClientInv, TurnInv
  <2>4. \A c \in Client : friendList[c] \subseteq friend /\ groupList[c] \subseteq GroupId
    BY DEF AccountInv, DataInv, ListsOK
  <2> QED BY <2>2, <2>3, <2>4 DEF AccountInv, ThreadsOK, DataInv, TypeOK
<1> QED BY <1>1, AccountInvHolds, PTL

-----------------------------------------------------------------------------
(* KeepInv: what PlainKept needs beside DataInv.  A handler of oneChat ends when nobody is left *)
(* to be told; the rows of a login's answer are there only once OfflineMsgModel::query    *)
(* has run, and never in a refusal                                                *)
Early == {"queryUser", "check", "setOffline", "addConn", "bindUser", "removeConn", "setOnline", "queryOffline"}

ToInv(c)   == Op(c) = "chat" /\ Todo(c) = <<>> => job[c].to = {}
RowsInv(c) ==
    Op(c) = "login" /\ ((Todo(c) # <<>> /\ Head(Todo(c)) \in Early) \/ job[c].ans.errno # 0)
        => job[c].ans.rows = <<>>
RefusedInv(c) ==
    \A i \in DOMAIN answers[c] :
        answers[c][i].kind = "login" /\ answers[c][i].errno # 0 => answers[c][i].rows = <<>>
KeepInv ==
    /\ written \subseteq (0..MaxUser) \X Text
    /\ \A c \in Client : ToInv(c) /\ RowsInv(c) /\ RefusedInv(c)

(* A thread's job after a step: those of KeepInv's parts that are about it, and what it tells *)
JobGoes(t) ==
    /\ ToInv(t)' /\ RowsInv(t)'
    /\ \A w : Tells(job[t].ans, w) => Tells(job'[t].ans, w)

LEMMA GoesOn ==
    ASSUME DataInv, NEW t \in Client, RowsInv(t), NEW j \in JobState, job' = [job EXCEPT ![t] = j],
           j.req.op = job[t].req.op, Op(t) # "chat",
           j.ans.kind = job[t].ans.kind, j.ans.id = job[t].ans.id, j.ans.errno = job[t].ans.errno,
           j.ans.rows = job[t].ans.rows,
           Op(t) = "login" /\ j.todo # <<>> /\ Head(j.todo) \in Early => Todo(t) # <<>> /\ Head(Todo(t)) \in Early
    PROVE  JobGoes(t)
<1>1. job'[t] = j
  BY AccountsAssumption DEF DataInv
<1>2. Op(t)' = Op(t) /\ Todo(t)' = j.todo
  BY <1>1 DEF Op, Todo
<1>3. ToInv(t)' /\ RowsInv(t)'
  BY <1>1, <1>2 DEF ToInv, RowsInv
<1> QED BY <1>1, <1>3 DEF JobGoes, Tells

(* A job that tells nothing yet *)
LEMMA TellsNothing ==
    ASSUME NEW a, NEW w, a.kind \in {"none", "reg"} \/ (a.kind = "login" /\ a.rows = <<>>)
    PROVE  ~Tells(a, w)
<1>1. DOMAIN <<>> = {}
  OBVIOUS
<1> QED BY <1>1 DEF Tells, Unspoilt

LEMMA JobAnsIs ==
    ASSUME DataInv, NEW c \in Client
    PROVE  /\ job[c] \in JobState /\ job[c].ans \in Answer
           /\ job[c].ans.kind \in {"none", "reg", "login"}
           /\ job[c].ans.kind = "login" => Op(c) = "login"
<1>1. JobFits(c) /\ job[c] \in JobState
  BY AccountsAssumption DEF DataInv
<1>2. Op(c) = "login" => job[c].ans.kind \in {"none", "login"}
  BY <1>1 DEF JobFits, LoginFits, Todo
<1> QED BY <1>1, <1>2 DEF JobFits, JobState, Token

LEMMA InsertsGo ==
    ASSUME DataInv, KeepInv, NEW t \in Thread,
           UserInsert(t) \/ GroupInsert(t) \/ InsertReturns(t) \/ InsertFails(t)
    PROVE  t \in Client /\ JobGoes(t) /\ Op(t) # "chat"
<1>1. CASE UserInsert(t) \/ GroupInsert(t)
  <2> DEFINE j == [job[t] EXCEPT !.got = "yes"]
  <2>1. PICK f \in {"insertUser", "createGroup"} : Running(t, f) /\ job' = [job EXCEPT ![t].got = "yes"]
    BY <1>1 DEF UserInsert, GroupInsert
  <2>2. /\ t \in Client /\ job[t] \in JobState /\ PlanFits(Op(t), Todo(t)) /\ Todo(t) # <<>>
        /\ Head(Todo(t)) = f
    BY <2>1, RunningIs
  <2>3. Op(t) \in {"reg", "createGroup"}
    BY <2>2, NextPlan
  <2>4. j \in JobState /\ j.req = job[t].req /\ j.ans = job[t].ans /\ job' = [job EXCEPT ![t] = j]
    BY <2>1, <2>2 DEF JobState
  <2> HIDE DEF j
  <2> QED BY <2>2, <2>3, <2>4, GoesOn DEF KeepInv
<1>2. CASE InsertReturns(t) \/ InsertFails(t)
  <2>1. PICK j : /\ job' = [job EXCEPT ![t] = j] /\ job[t] # NoJob
                 /\ j.req.op = job[t].req.op
    <3>1. CASE InsertFails(t)
      BY <1>2, <3>1, NotNoJob DEF InsertFails, Returns, Running, Next1, Done, DataInv, JobState
    <3>2. CASE InsertReturns(t)
      <4>1. job[t].got = "yes" /\ job' = [job EXCEPT ![t] = Then(t)] /\ job[t] # NoJob
        BY <3>2 DEF InsertReturns, Returns, NoJob
      <4>2. Then(t).req.op = job[t].req.op
        BY DEF Then, Done, DataInv, JobState, AnyRequest
      <4> QED BY <4>1, <4>2
    <3> QED BY <1>2, <3>1, <3>2
  <2>2. /\ t \in Client /\ PlanFits(Op(t), Todo(t)) /\ Todo(t) # <<>>
        /\ Head(Todo(t)) \in {"insertUser", "createGroup"}
    <3>1. t \in Client /\ PlanFits(Op(t), Todo(t))
      BY <2>1, RunnerIs
    <3>2. CASE InsertFails(t)
      BY <3>1, <3>2 DEF InsertFails, Running, Next1
    <3>3. CASE InsertReturns(t)
      <4>1. Todo(t) \in {<<"insertUser">>, <<"createGroup">>}
        BY <3>3 DEF InsertReturns, DataInv, JobFits
      <4> QED BY <3>1, <4>1, Tail1
    <3> QED BY <1>2, <3>1, <3>2, <3>3
  <2>3. Op(t) \in {"reg", "createGroup"}
    BY <2>2, NextPlan
  <2>4. Op(t)' = Op(t) /\ job'[t] = j
    BY <2>1, <2>2 DEF Op, DataInv
  <2>5. job[t].ans.kind \in {"none", "reg"}
    BY <2>2, <2>3, JobAnsIs
  <2> QED BY <2>2, <2>3, <2>4, <2>5, TellsNothing DEF JobGoes, ToInv, RowsInv
<1> QED BY <1>1, <1>2

LEMMA QueriesGo ==
    ASSUME DataInv, KeepInv, NEW t \in Thread,
           UserQuery(t) \/ UpdateState(t) \/ FriendQuery(t) \/ GroupQuery(t) \/ OfflineQuery(t) \/ OfflineRemove(t)
    PROVE  t \in Client /\ JobGoes(t) /\ Op(t) # "chat"
<1>1. PICK f \in {"queryUser", "setOnline", "setOffline", "queryFriends", "queryGroups",
                  "queryOffline", "removeOffline"} : Running(t, f)
  BY DEF UserQuery, UpdateState, FriendQuery, GroupQuery, OfflineQuery, OfflineRemove
<1>2. /\ t \in Client /\ job[t] \in JobState /\ PlanFits(Op(t), Todo(t)) /\ Todo(t) # <<>>
      /\ Head(Todo(t)) = f
  BY <1>1, RunningIs
<1>3. Op(t) \in {"login", "logout", "close"}
  BY <1>2, NextPlan
<1>4. Tail(Todo(t)) \in Plans
  <2>1. Tail(Todo(t)) \in {<<"check">>, <<"queryOffline", "queryFriends", "queryGroups">>,
                            <<"addConn", "bindUser">>, <<>>,
                            <<"queryFriends", "queryGroups">>, <<"queryGroups">>}
    BY <1>2, NextPlan
  <2> QED BY <2>1, PlansBasic DEF Plans, Looking, PreBind, PostBind
<1>5. /\ Done(t) \in JobState /\ Done(t).req = job[t].req /\ Done(t).ans = job[t].ans
      /\ Done(t).todo = Tail(Todo(t)) /\ Done(t).to = job[t].to
  BY <1>2, <1>4, DoneState
<1>6. f \in {"queryFriends", "queryGroups", "removeOffline"} /\ Tail(Todo(t)) # <<>>
         => Head(Tail(Todo(t))) \notin Early
  <2>1. f \in {"queryFriends", "queryGroups", "removeOffline"} =>
           Tail(Todo(t)) \in {<<"queryFriends", "queryGroups">>, <<"queryGroups">>, <<>>}
    BY <1>2, NextPlan
  <2>2. Head(<<"queryFriends", "queryGroups">>) = "queryFriends" /\ Head(<<"queryGroups">>) = "queryGroups"
    BY Tail1, Tail2
  <2> QED BY <2>1, <2>2 DEF Early
<1>7. CASE UserQuery(t) \/ UpdateState(t) \/ FriendQuery(t) \/ GroupQuery(t) \/ OfflineRemove(t)
  <2>1. PICK j \in JobState :
           /\ job' = [job EXCEPT ![t] = j] /\ j.req = job[t].req /\ j.todo = Tail(Todo(t))
           /\ j.ans.kind = job[t].ans.kind /\ j.ans.id = job[t].ans.id /\ j.ans.errno = job[t].ans.errno
           /\ j.ans.rows = job[t].ans.rows
    <3> DEFINE d == Done(t)
    <3>1. d \in JobState /\ d.req = job[t].req /\ d.ans = job[t].ans /\ d.todo = Tail(Todo(t))
      BY <1>5
    <3>2. CASE UserQuery(t)
      <4>1. PICK s : job' = [job EXCEPT ![t] = [d EXCEPT !.state = s]] /\ s \in {"online", "offline"}
        <5> DEFINE s == IF Asker(t) = 0 THEN d.state ELSE user[Asker(t)].state
        <5>1. Running(t, "queryUser") /\ job' = [job EXCEPT ![t] = [d EXCEPT !.state = s]]
          BY <3>2 DEF UserQuery, Returns
        <5>2. Op(t) = "login" /\ RequestFits(job[t].req, DOMAIN user)
          <6>1. Todo(t) # <<>> /\ Head(Todo(t)) = "queryUser" /\ PlanFits(Op(t), Todo(t))
                /\ RequestFits(job[t].req, DOMAIN user)
            BY <5>1, RunningIs
          <6> QED BY <6>1, NextPlan
        <5>3. Asker(t) # 0 => Asker(t) \in DOMAIN user
          BY <5>2 DEF RequestFits, Op, Asker
        <5>4. \A u \in DOMAIN user : user[u] \in User
          BY DEF DataInv, TablesOK
        <5>5. s \in {"online", "offline"}
          BY <3>1, <5>3, <5>4 DEF User, JobState
        <5> HIDE DEF s
        <5> QED BY <5>1, <5>5
      <4>2. [d EXCEPT !.state = s] \in JobState /\ [d EXCEPT !.state = s].req = d.req
            /\ [d EXCEPT !.state = s].ans = d.ans /\ [d EXCEPT !.state = s].todo = d.todo
        BY <3>1, <4>1 DEF JobState
      <4> HIDE DEF d
      <4> QED BY <3>1, <4>1, <4>2
    <3>3. CASE UpdateState(t)
      <4>1. job' = [job EXCEPT ![t] = [d EXCEPT !.to = {}]]
        BY <3>3 DEF UpdateState, Returns
      <4>2. [d EXCEPT !.to = {}] \in JobState /\ [d EXCEPT !.to = {}].req = d.req
            /\ [d EXCEPT !.to = {}].ans = d.ans /\ [d EXCEPT !.to = {}].todo = d.todo
        BY <3>1 DEF JobState
      <4> HIDE DEF d
      <4> QED BY <3>1, <4>1, <4>2
    <3>4. CASE FriendQuery(t)
      <4> DEFINE fs == {f2 \in friend : f2[1] = Asker(t)}
                 j == [d EXCEPT !.ans.friends = fs]
      <4>1. job' = [job EXCEPT ![t] = j] /\ fs \in SUBSET (UserId \X UserId)
        BY <3>4 DEF FriendQuery, Returns, DataInv, TablesOK
      <4> HIDE DEF fs, d
      <4>2. j \in JobState /\ j.req = d.req /\ j.todo = d.todo /\ j.ans.kind = d.ans.kind /\ j.ans.id = d.ans.id
            /\ j.ans.errno = d.ans.errno /\ j.ans.rows = d.ans.rows
        BY <3>1, <4>1 DEF JobState, Answer
      <4> HIDE DEF j
      <4> QED BY <3>1, <4>1, <4>2
    <3>5. CASE GroupQuery(t)
      <4> DEFINE gs == {g \in DOMAIN group : <<g, Asker(t)>> \in member}
                 j == [d EXCEPT !.ans.groups = gs]
      <4>1. job' = [job EXCEPT ![t] = j] /\ gs \in SUBSET GroupId
        BY <3>5 DEF GroupQuery, Returns, DataInv, TablesOK
      <4> HIDE DEF gs, d
      <4>2. j \in JobState /\ j.req = d.req /\ j.todo = d.todo /\ j.ans.kind = d.ans.kind /\ j.ans.id = d.ans.id
            /\ j.ans.errno = d.ans.errno /\ j.ans.rows = d.ans.rows
        BY <3>1, <4>1 DEF JobState, Answer
      <4> HIDE DEF j
      <4> QED BY <3>1, <4>1, <4>2
    <3>6. CASE OfflineRemove(t)
      <4>1. job' = [job EXCEPT ![t] = d]
        BY <3>6 DEF OfflineRemove, Returns
      <4> HIDE DEF d
      <4> QED BY <3>1, <4>1
    <3> QED BY <1>7, <3>2, <3>3, <3>4, <3>5, <3>6
  <2>2. f # "queryOffline" \/ f \in Early
    BY DEF Early
  <2>3. Op(t) = "login" /\ j.todo # <<>> /\ Head(j.todo) \in Early => Todo(t) # <<>> /\ Head(Todo(t)) \in Early
    BY <1>2, <1>6, <2>1 DEF Early
  <2> QED BY <1>2, <1>3, <2>1, <2>3, GoesOn DEF KeepInv
<1>8. CASE OfflineQuery(t)
  <2> DEFINE rows == offline[Asker(t)]
             j == [Done(t) EXCEPT !.ans.rows = rows,
                                  !.todo = IF rows = <<>> THEN @ ELSE <<"removeOffline">> \o @]
  <2>1. Running(t, "queryOffline") /\ job' = [job EXCEPT ![t] = j]
    BY <1>8 DEF OfflineQuery, Returns
  <2>2. /\ Op(t) = "login" /\ job[t].ans.kind = "login" /\ job[t].ans.errno = 0 /\ Head(Todo(t)) = "queryOffline"
        /\ Tail(Todo(t)) = <<"queryFriends", "queryGroups">> /\ Todo(t) # <<>>
    BY <2>1, LoginQueryIs, RunningIs
  <2>3. job[t].ans.rows = <<>>
    BY <1>2, <2>2 DEF KeepInv, RowsInv, Early
  <2>4. \A w : ~Tells(job[t].ans, w)
    BY <2>2, <2>3, TellsNothing
  <2>5. /\ j.req = job[t].req /\ j.ans.errno = 0
        /\ j.todo \in {<<"queryFriends", "queryGroups">>, <<"removeOffline", "queryFriends", "queryGroups">>}
    <3> DEFINE d == Done(t)
    <3>1. d \in JobState /\ d.req = job[t].req /\ d.ans.errno = 0 /\ d.todo = <<"queryFriends", "queryGroups">>
      BY <1>5, <2>2
    <3> HIDE DEF rows, d
    <3>2. [d EXCEPT !.ans.rows = rows,
                    !.todo = IF rows = <<>> THEN @ ELSE <<"removeOffline">> \o @].todo
            \in {<<"queryFriends", "queryGroups">>, <<"removeOffline", "queryFriends", "queryGroups">>}
      BY <3>1, Prefixed DEF JobState
    <3>3. [d EXCEPT !.ans.rows = rows,
                    !.todo = IF rows = <<>> THEN @ ELSE <<"removeOffline">> \o @].req = d.req
          /\ [d EXCEPT !.ans.rows = rows,
                       !.todo = IF rows = <<>> THEN @ ELSE <<"removeOffline">> \o @].ans.errno = 0
      BY <3>1 DEF JobState, Answer
    <3> QED BY <3>1, <3>2, <3>3 DEF d
  <2>6. Head(j.todo) \notin Early
    <3> HIDE DEF j
    <3> QED BY <2>5, Tail2, Tail3 DEF Early
  <2>7. job'[t] = j
    BY <2>1 DEF DataInv
  <2> HIDE DEF j
  <2>8. Op(t)' = "login" /\ Todo(t)' = j.todo /\ job'[t].ans.errno = 0
    BY <2>2, <2>5, <2>7 DEF Op, Todo
  <2> QED BY <1>2, <2>2, <2>4, <2>6, <2>8 DEF JobGoes, ToInv, RowsInv
<1> QED BY <1>7, <1>8

LEMMA OthersGo ==
    ASSUME DataInv, KeepInv, NEW t \in Thread, FriendInsert(t) \/ MemberInsert(t) \/ GroupUsersQuery(t)
    PROVE  t \in Client /\ JobGoes(t) /\ Op(t) # "chat"
<1>1. PICK f \in {"insertFriend", "addGroup", "addCreator", "queryGroupUsers"} : Running(t, f)
  BY DEF FriendInsert, MemberInsert, GroupUsersQuery
<1>2. /\ t \in Client /\ job[t] \in JobState /\ PlanFits(Op(t), Todo(t)) /\ Todo(t) # <<>>
      /\ Head(Todo(t)) = f
  BY <1>1, RunningIs
<1>3. Op(t) \in Commands \ {"chat"} /\ Op(t) \notin Token
  BY <1>2, NextPlan DEF Commands, Token
<1>4. job[t].ans.kind \in {"none", "reg"}
  BY <1>2, <1>3, JobAnsIs DEF Token
<1>5. PICK j : job' = [job EXCEPT ![t] = j] /\ j.req = job[t].req
  <2>1. Done(t).req = job[t].req
    BY <1>2 DEF Done, JobState
  <2>2. CASE FriendInsert(t) \/ MemberInsert(t)
    BY <2>1, <2>2 DEF FriendInsert, MemberInsert, Returns
  <2>3. CASE GroupUsersQuery(t)
    <3> DEFINE d == Done(t)
    <3>1. PICK s, td : job' = [job EXCEPT ![t] = [d EXCEPT !.to = s, !.ask = s, !.todo = td]]
      BY <2>3, Zenon DEF GroupUsersQuery
    <3>2. [d EXCEPT !.to = s, !.ask = s, !.todo = td].req = d.req
      <4>1. DOMAIN d = DOMAIN job[t] /\ "req" \in DOMAIN d
        BY <1>2 DEF Done, JobState
      <4> HIDE DEF d
      <4> QED BY <4>1
    <3> QED BY <2>1, <3>1, <3>2
  <2> QED BY <2>2, <2>3
<1>6. job'[t] = j /\ Op(t)' = Op(t)
  BY <1>5 DEF DataInv, Op
<1> QED BY <1>2, <1>3, <1>4, <1>6, TellsNothing DEF JobGoes, ToInv, RowsInv, Commands, Token

-----------------------------------------------------------------------------
(* What a step leaves where it is, and what is carried as long as it is there *)
AnswersStay(c)  == \A i \in DOMAIN answers[c] : i \in DOMAIN answers'[c] /\ answers'[c][i] = answers[c][i]
RequestsStay(c) == \A i \in DOMAIN requests[c] : i \in DOMAIN requests'[c] /\ requests'[c][i] = requests[c][i]
RowsStay(u)     == \A i \in DOMAIN offline[u] : i \in DOMAIN offline'[u] /\ offline'[u][i] = offline[u][i]

LEMMA AppendStays ==
    ASSUME NEW S, NEW s \in Seq(S), NEW e \in S, NEW x, x = s \/ x = Append(s, e)
    PROVE  \A i \in DOMAIN s : i \in DOMAIN x /\ x[i] = s[i]
<1>1. CASE x = Append(s, e)
  BY <1>1, AppendIs
<1> QED BY <1>1

LEMMA AnswersAppended ==
    ASSUME DataInv, NEW d \in Client, NEW a \in Answer, answers'[d] \in {answers[d], Append(answers[d], a)}
    PROVE  AnswersStay(d)
<1>1. answers[d] \in Seq(Answer)
  BY DEF DataInv
<1> DEFINE s == answers[d]
           x == answers'[d]
<1>2. s \in Seq(Answer) /\ (x = s \/ x = Append(s, a))
  BY <1>1
<1> HIDE DEF s, x
<1>3. \A i \in DOMAIN s : i \in DOMAIN x /\ x[i] = s[i]
  BY <1>2, AppendStays
<1> QED BY <1>3 DEF AnswersStay, s, x

(* A message is carried on when it is from each of the places it can be in *)
LEMMA CarriedOn ==
    ASSUME NEW w, Carries(w), read \subseteq read',
           \A d \in Client : SentBy(d, w) => Carries(w)',
           \A d \in Client : HeldBy(d, w) \/ Tells(job[d].ans, w) => Carries(w)',
           \A d \in Client : \A i \in DOMAIN answers[d] : Tells(answers[d][i], w) => Carries(w)',
           w[1] \in UserId /\ Unspoilt(offline[w[1]], w[2]) => Carries(w)'
    PROVE  Carries(w)'
<1>1. CASE \E d \in Client : SentBy(d, w) \/ HeldBy(d, w)
  BY <1>1
<1>2. CASE \E d \in Client : ToldBy(d, w)
  BY <1>2 DEF ToldBy
<1>3. CASE w[2] \in read
  BY <1>3 DEF Carries
<1> QED BY <1>1, <1>2, <1>3 DEF Carries

LEMMA Staying ==
    ASSUME NEW w, NEW d \in Client
    PROVE  /\ RequestsStay(d) /\ SentBy(d, w) => Carries(w)'
           /\ job'[d] = job[d] /\ (HeldBy(d, w) \/ Tells(job[d].ans, w)) => Carries(w)'
           /\ AnswersStay(d) => \A i \in DOMAIN answers[d] : Tells(answers[d][i], w) => Carries(w)'
           /\ RowsStay(w[1]) /\ w[1] \in UserId /\ Unspoilt(offline[w[1]], w[2]) => Carries(w)'
<1>1. RequestsStay(d) /\ SentBy(d, w) => Carries(w)'
  BY DEF RequestsStay, SentBy, Carries
<1>2. job'[d] = job[d] /\ HeldBy(d, w) => Carries(w)'
  BY DEF HeldBy, Carries
<1>3. job'[d] = job[d] /\ Tells(job[d].ans, w) => Carries(w)'
  BY DEF Tells, ToldBy, Carries
<1>4. AnswersStay(d) => \A i \in DOMAIN answers[d] : Tells(answers[d][i], w) => Carries(w)'
  BY DEF AnswersStay, Tells, ToldBy, Carries
<1>5. RowsStay(w[1]) /\ w[1] \in UserId /\ Unspoilt(offline[w[1]], w[2]) => Carries(w)'
  BY DEF RowsStay, Unspoilt, Carries
<1> QED BY <1>1, <1>2, <1>3, <1>4, <1>5

(* The parts of KeepInv that are about a client whose job and whose answers stay *)
LEMMA JobKept ==
    ASSUME NEW d \in Client, ToInv(d), RowsInv(d), job'[d] = job[d]
    PROVE  ToInv(d)' /\ RowsInv(d)'
  BY DEF ToInv, RowsInv, Op, Todo

LEMMA RefusedKept ==
    ASSUME DataInv, NEW d \in Client, RefusedInv(d),
           \/ answers'[d] = answers[d]
           \/ answers[d] # <<>> /\ answers'[d] = Tail(answers[d])
           \/ \E a \in Answer : /\ answers'[d] = Append(answers[d], a)
                                /\ a.kind = "login" /\ a.errno # 0 => a.rows = <<>>
    PROVE  RefusedInv(d)'
<1>1. answers[d] \in Seq(Answer)
  BY DEF DataInv
<1>2. CASE answers'[d] = answers[d]
  BY <1>2 DEF RefusedInv
<1>3. CASE answers[d] # <<>> /\ answers'[d] = Tail(answers[d])
  <2>1. \A i \in DOMAIN answers'[d] : i + 1 \in DOMAIN answers[d] /\ answers'[d][i] = answers[d][i + 1]
    BY <1>1, <1>3, TailIs
  <2> QED BY <2>1 DEF RefusedInv
<1>4. ASSUME NEW a \in Answer, answers'[d] = Append(answers[d], a),
             a.kind = "login" /\ a.errno # 0 => a.rows = <<>>
      PROVE  RefusedInv(d)'
  <2>1. /\ \A i \in DOMAIN answers'[d] : i \in DOMAIN answers[d] \/ i = Len(answers[d]) + 1
        /\ \A i \in DOMAIN answers[d] : answers'[d][i] = answers[d][i]
        /\ answers'[d][Len(answers[d]) + 1] = a
    BY <1>1, <1>4, AppendIs
  <2> QED BY <1>4, <2>1 DEF RefusedInv
<1> QED BY <1>2, <1>3, <1>4

-----------------------------------------------------------------------------
(* The functions of the model classes *)
LEMMA StatementJobs ==
    ASSUME DataInv, NEW t \in Thread, Statement(t), NEW s \in Thread \ {t} PROVE job'[s] = job[s]
<1>1. job \in [Thread -> JobState]
  BY DEF DataInv
<1>2. \E j : job' = [job EXCEPT ![t] = j]
  <2>1. CASE UserInsert(t) \/ GroupInsert(t) \/ InsertReturns(t) \/ InsertFails(t)
    BY <2>1 DEF UserInsert, GroupInsert, InsertReturns, InsertFails, Returns
  <2>2. CASE UserQuery(t) \/ UpdateState(t) \/ OfflineQuery(t) \/ OfflineRemove(t)
    BY <2>2 DEF UserQuery, UpdateState, OfflineQuery, OfflineRemove, Returns
  <2>3. CASE OfflineInsert(t) \/ FriendQuery(t) \/ FriendInsert(t)
    BY <2>3 DEF OfflineInsert, FriendQuery, FriendInsert, Returns
  <2>4. CASE MemberInsert(t) \/ GroupQuery(t) \/ GroupUsersQuery(t)
    BY <2>4 DEF MemberInsert, GroupQuery, GroupUsersQuery, Returns
  <2> QED BY <2>1, <2>2, <2>3, <2>4 DEF Statement
<1> QED BY <1>1, <1>2

(* What every statement leaves alone *)
LEMMA StatementStay ==
    ASSUME DataInv, KeepInv, NEW t \in Thread, Statement(t)
    PROVE  \A d \in Client : RefusedInv(d)' /\ AnswersStay(d) /\ RequestsStay(d)
<1> SUFFICES ASSUME NEW d \in Client PROVE RefusedInv(d)' /\ AnswersStay(d) /\ RequestsStay(d)
  OBVIOUS
<1>1. /\ requests' = requests
      /\ \/ answers'[d] = answers[d]
         \/ \E a \in Answer : a.kind = "live" /\ answers'[d] = Append(answers[d], a)
  BY StatementAnswers
<1>2. RefusedInv(d)'
  BY <1>1, RefusedKept DEF KeepInv
<1>3. AnswersStay(d)
  BY <1>1, AnswersAppended DEF AnswersStay
<1> QED BY <1>1, <1>2, <1>3 DEF RequestsStay

(* The statements that leave the rows alone, and the one that deletes them *)
LEMMA StatementKeeps ==
    ASSUME DataInv, KeepInv, NEW t \in Thread, Statement(t), ~OfflineInsert(t), UNCHANGED ghostVars
    PROVE  /\ KeepInv'
           /\ \A w \in written : Carries(w) /\ w[1] \in UserId /\ ~(OfflineRemove(t) /\ Asker(t) = w[1]) => Carries(w)'
<1>1. t \in Client /\ JobGoes(t) /\ Op(t) # "chat"
  BY InsertsGo, QueriesGo, OthersGo DEF Statement
<1>2. \A d \in Client \ {t} : job'[d] = job[d]
  BY StatementJobs, AccountsAssumption
<1>3. \A d \in Client : RefusedInv(d)' /\ AnswersStay(d) /\ RequestsStay(d)
  BY StatementStay
<1>4. KeepInv'
  <2>1. \A d \in Client : ToInv(d)' /\ RowsInv(d)'
    BY <1>1, <1>2, JobKept DEF KeepInv, JobGoes
  <2> QED BY <1>3, <2>1 DEF KeepInv, ghostVars
<1>5. ASSUME NEW w \in written, Carries(w), w[1] \in UserId, ~(OfflineRemove(t) /\ Asker(t) = w[1])
      PROVE  Carries(w)'
  <2>1. RowsStay(w[1])
    <3>1. CASE OfflineRemove(t)
      <4>1. offline' = [offline EXCEPT ![Asker(t)] = <<>>]
        BY <3>1 DEF OfflineRemove
      <4>2. offline'[w[1]] = offline[w[1]]
        BY <1>5, <3>1, <4>1 DEF DataInv, TablesOK
      <4> QED BY <4>2 DEF RowsStay
    <3>2. CASE ~OfflineRemove(t)
      <4>1. offline' = offline
        BY <3>2 DEF Statement, UserInsert, GroupInsert, InsertReturns, InsertFails, UserQuery, UpdateState,
                    OfflineQuery, FriendQuery, FriendInsert, MemberInsert, GroupQuery, GroupUsersQuery, tables
      <4> QED BY <4>1 DEF RowsStay
    <3> QED BY <3>1, <3>2
  <2>2. \A d \in Client : HeldBy(d, w) \/ Tells(job[d].ans, w) => Carries(w)'
    <3>1. ~HeldBy(t, w)
      BY <1>1 DEF HeldBy, Op
    <3>2. Tells(job[t].ans, w) => ToldBy(t, w)'
      BY <1>1 DEF JobGoes, ToldBy, Tells
    <3>3. ToldBy(t, w)' => Carries(w)'
      BY <1>1 DEF Carries
    <3> QED BY <1>2, <3>1, <3>2, <3>3, Staying
  <2>3. read' = read
    BY DEF ghostVars
  <2> QED BY <1>1, <1>3, <1>5, <2>1, <2>2, <2>3, Staying, CarriedOn
<1> QED BY <1>4, <1>5

(* OfflineMsgModel::insert: the row is one that parses to the text that was held *)
LEMMA OfflineInsertKeeps ==
    ASSUME DataInv, KeepInv, NEW t \in Thread, OfflineInsert(t), UNCHANGED ghostVars
    PROVE  /\ KeepInv'
           /\ \A w \in written : Carries(w) /\ w[1] \in DOMAIN user /\ Plain(w[2]) => Carries(w)'
<1>0. Statement(t)
  BY DEF Statement
<1>1. PICK u \in job[t].to :
         offline' = Stored1(u, RowOf(job[t].req.text)) /\ Returns(t, NextInsert(t, u))
  BY DEF OfflineInsert
<1>2. Running(t, "insertOffline")
  BY DEF OfflineInsert
<1>3. /\ Todo(t) # <<>> /\ Head(Todo(t)) = "insertOffline" /\ t \in Client /\ job[t] \in JobState
      /\ PlanFits(Op(t), Todo(t))
  BY <1>2, RunningIs
<1>4. Op(t) \in {"chat", "groupChat"} /\ Todo(t) = <<"insertOffline">> /\ Tail(Todo(t)) = <<>>
  BY <1>3, NextPlan
<1>5. /\ Done(t) \in JobState /\ Done(t).req = job[t].req /\ Done(t).ans = job[t].ans
      /\ Done(t).to = job[t].to /\ Done(t).todo = <<>>
  BY <1>3, <1>4, PlansBasic, DoneState
<1> DEFINE j == NextInsert(t, u)
<1>6. /\ j.req = job[t].req /\ j.ans = job[t].ans /\ j.to = job[t].to \ {u}
      /\ j.todo = <<>> => j.to = {}
  <2>1. CASE job[t].to = {u}
    BY <1>5, <2>1 DEF NextInsert, JobState
  <2>2. CASE job[t].to # {u}
    <3>1. j = [job[t] EXCEPT !.to = @ \ {u}]
      BY <2>2 DEF NextInsert
    <3> QED BY <1>3, <1>4, <3>1, Tail1 DEF JobState, Todo
  <2> QED BY <2>1, <2>2
<1>7. job'[t] = j
  BY <1>1 DEF Returns, DataInv
<1> HIDE DEF j
<1>8. \A d \in Client \ {t} : job'[d] = job[d]
  BY <1>0, StatementJobs, AccountsAssumption
<1>9. \A d \in Client : RefusedInv(d)' /\ AnswersStay(d) /\ RequestsStay(d)
  BY <1>0, StatementStay
<1>10. KeepInv'
  <2>1. ToInv(t)' /\ RowsInv(t)'
    BY <1>4, <1>6, <1>7 DEF ToInv, RowsInv, Op, Todo
  <2>2. \A d \in Client : ToInv(d)' /\ RowsInv(d)'
    BY <1>8, <2>1, JobKept DEF KeepInv
  <2> QED BY <1>9, <2>2 DEF KeepInv, ghostVars
<1>11. ASSUME NEW w \in written, Carries(w), w[1] \in DOMAIN user, Plain(w[2]) PROVE Carries(w)'
  <2>1. w[1] \in UserId /\ w[2] \in Text /\ offline \in [UserId -> Seq(Row)] /\ u \in UserId
    <3>1. user \in Seq(User) /\ Len(user) \in Stored.users..MaxUser
      BY DEF DataInv, TablesOK
    <3>2. DOMAIN user \subseteq UserId
      <4>1. Len(user) \in Nat /\ Len(user) <= MaxUser /\ MaxUser \in Nat /\ DOMAIN user = 1..Len(user)
        BY <3>1, AccountsAssumption, StoredAssumption
      <4> QED BY <4>1 DEF UserId
    <3> QED BY <1>3, <1>11, <3>2 DEF KeepInv, DataInv, TablesOK, JobState
  <2>2. RowOf(job[t].req.text) \in Row
    BY <1>3 DEF JobState, AnyRequest, Row
  <2>3. offline'[w[1]] = offline[w[1]] \/ \E row \in Row : offline'[w[1]] = Append(offline[w[1]], row)
    BY <1>1, <2>1, <2>2 DEF Stored1
  <2>4. RowsStay(w[1])
    <3> DEFINE s == offline[w[1]]
               x == offline'[w[1]]
    <3>1. s \in Seq(Row) /\ (x = s \/ \E row \in Row : x = Append(s, row))
      BY <2>1, <2>3
    <3> HIDE DEF s, x
    <3>2. x = s \/ \A i \in DOMAIN s : i \in DOMAIN x /\ x[i] = s[i]
      BY <3>1, AppendStays
    <3> QED BY <3>2 DEF RowsStay, s, x
  <2>5. HeldBy(t, w) => Carries(w)'
    <3> SUFFICES ASSUME HeldBy(t, w) PROVE Carries(w)'
      OBVIOUS
    <3>1. job[t].req.op = "chat" /\ job[t].req.text = w[2] /\ w[1] \in job[t].to
      BY DEF HeldBy
    <3>2. CASE u = w[1]
      <4> DEFINE row == RowOf(w[2])
      <4>1. row # NoRow /\ Parse(row) = [ok |-> TRUE, text |-> w[2]]
        BY <1>11, <2>1, PlainRoundTrip
      <4>2. row \in Row
        BY <2>2, <3>1
      <4>3. offline'[w[1]] = Append(offline[w[1]], row)
        BY <1>1, <1>11, <2>1, <3>1, <3>2, <4>1 DEF Stored1
      <4> HIDE DEF row
      <4>4. offline[w[1]] \in Seq(Row)
        BY <2>1
      <4>5. Len(offline[w[1]]) + 1 \in DOMAIN offline'[w[1]] /\ offline'[w[1]][Len(offline[w[1]]) + 1] = row
        BY <4>2, <4>3, <4>4, AppendIs
      <4>6. Unspoilt(offline[w[1]], w[2])'
        BY <4>1, <4>5 DEF Unspoilt
      <4> QED BY <2>1, <4>6 DEF Carries
    <3>3. CASE u # w[1]
      <4>1. HeldBy(t, w)'
        BY <1>6, <1>7, <3>1, <3>3 DEF HeldBy
      <4> QED BY <1>3, <4>1 DEF Carries
    <3> QED BY <3>2, <3>3
  <2>6. Tells(job[t].ans, w) => Carries(w)'
    <3>1. Tells(job[t].ans, w) => ToldBy(t, w)'
      BY <1>6, <1>7 DEF ToldBy, Tells
    <3> QED BY <1>3, <3>1 DEF Carries
  <2>7. \A d \in Client : HeldBy(d, w) \/ Tells(job[d].ans, w) => Carries(w)'
    BY <1>8, <2>5, <2>6, Staying
  <2>8. read' = read
    BY DEF ghostVars
  <2> QED BY <1>3, <1>9, <1>11, <2>1, <2>4, <2>7, <2>8, Staying, CarriedOn
<1> QED BY <1>10, <1>11

-----------------------------------------------------------------------------
(* What a step does that no message is lost in *)
Keeps == KeepInv' /\ \A w \in written : Carries(w) => Carries(w)'

(* A handler begins, goes on between the functions, and ends *)
LEMMA ReceiveKeeps ==
    ASSUME DataInv, NEW c \in Client, NEW ops, Receive(c, ops), NEW r, r = Head(requests[c])
    PROVE  /\ requests[c] # <<>> /\ offline' = offline /\ r \in Request /\ r.op \in ops
           /\ \A d \in Client \ {c} : RequestsStay(d)
           /\ \A w : ~HeldBy(c, w) /\ ~Tells(job[c].ans, w)
           /\ \A w : SentBy(c, w) => SentBy(c, w)' \/ (r.op = "chat" /\ r.arg = w[1] /\ r.text = w[2])
<1>1. requests[c] # <<>> /\ requests' = [requests EXCEPT ![c] = Tail(@)] /\ offline' = offline /\ r.op \in ops
      /\ job[c].req = NoRequest
  BY DEF Receive, tables, Busy
<1>2. requests \in [Client -> Seq(Request)]
  BY DEF DataInv
<1>3. \A d \in Client \ {c} : RequestsStay(d)
  BY <1>1, <1>2 DEF RequestsStay
<1>4. job[c].ans.kind = "none" /\ Op(c) = "none"
  <2>1. Op(c) = "none"
    BY <1>1 DEF Op, NoRequest
  <2>2. JobFits(c)
    BY AccountsAssumption DEF DataInv
  <2> QED BY <2>1, <2>2 DEF JobFits, Token
<1>5. \A w : ~HeldBy(c, w) /\ ~Tells(job[c].ans, w)
  BY <1>4 DEF HeldBy, Tells, Op
<1>6. ASSUME NEW w, SentBy(c, w)
      PROVE  SentBy(c, w)' \/ (r.op = "chat" /\ r.arg = w[1] /\ r.text = w[2])
  <2>1. requests'[c] = Tail(requests[c]) /\ requests[c] \in Seq(Request)
    BY <1>1, <1>2
  <2>2. requests[c] # <<>>
    BY <1>1
  <2>3. /\ r = requests[c][1]
        /\ \A k \in DOMAIN requests[c] :
              k = 1 \/ (k - 1 \in DOMAIN requests'[c] /\ requests'[c][k - 1] = requests[c][k])
    BY <2>1, <2>2, TailIs
  <2> QED BY <1>6, <2>3 DEF SentBy
<1>7. r \in Request
  BY <1>1, ReceiveIs
<1> QED BY <1>1, <1>3, <1>5, <1>6, <1>7

(* Handlers of other requests than a message *)
LEMMA StartKeeps ==
    ASSUME DataInv, KeepInv, NEW c \in Client, NEW ops, Receive(c, ops), "chat" \notin ops,
           NEW td, NEW to, Serve(c, td, to), answers' = answers, UNCHANGED ghostVars
    PROVE  Keeps
<1> DEFINE r == Head(requests[c])
           j == [NoJob EXCEPT !.req = r, !.todo = td, !.to = to, !.ask = to]
<1>1. /\ offline' = offline /\ r.op # "chat"
      /\ \A d \in Client \ {c} : RequestsStay(d)
      /\ \A w : ~HeldBy(c, w) /\ ~Tells(job[c].ans, w)
      /\ \A w : SentBy(c, w) => SentBy(c, w)'
  BY ReceiveKeeps
<1>2. job'[c] = j /\ \A d \in Client \ {c} : job'[d] = job[d]
  BY AccountsAssumption DEF Serve, DataInv
<1>3. j.req.op # "chat" /\ j.ans.rows = <<>>
  BY <1>1 DEF NoJob, NoAnswer
<1> HIDE DEF j, r
<1>4. KeepInv'
  <2>1. ToInv(c)' /\ RowsInv(c)'
    BY <1>2, <1>3 DEF ToInv, RowsInv, Op
  <2>2. \A d \in Client : ToInv(d)' /\ RowsInv(d)'
    BY <1>2, <2>1, JobKept DEF KeepInv
  <2> QED BY <2>2, RefusedKept DEF KeepInv, ghostVars
<1>5. ASSUME NEW w \in written, Carries(w) PROVE Carries(w)'
  <2>1. \A d \in Client : SentBy(d, w) => Carries(w)'
    <3>1. SentBy(c, w) => Carries(w)'
      BY <1>1 DEF Carries
    <3> QED BY <1>1, <3>1, Staying
  <2>2. \A d \in Client : HeldBy(d, w) \/ Tells(job[d].ans, w) => Carries(w)'
    BY <1>1, <1>2, Staying
  <2>3. (\A d \in Client : AnswersStay(d)) /\ RowsStay(w[1]) /\ read' = read
    BY <1>1 DEF AnswersStay, RowsStay, ghostVars
  <2> QED BY <1>5, <2>1, <2>2, <2>3, Staying, CarriedOn
<1> QED BY <1>4, <1>5 DEF Keeps

(* oneChat: the message goes into an answer, or into the handler's hands *)
LEMMA BeginChatKeeps ==
    ASSUME DataInv, KeepInv, NEW c \in Client, BeginChat(c), UNCHANGED ghostVars
    PROVE  Keeps
<1>0. PICK r : /\ r = Head(requests[c]) /\ Receive(c, {"chat"})
              /\ UNCHANGED <<userConnMap, session, loggedIn>>
              /\ \/ /\ userConnMap[r.arg] # None
                    /\ answers' = [answers EXCEPT ![userConnMap[r.arg]] = Append(@, Live(r.text))]
                    /\ job' = job
                 \/ /\ userConnMap[r.arg] = None
                    /\ Serve(c, <<"resolve", "insertOffline">>, {r.arg})
                    /\ answers' = answers
  BY BeginChatIs, Zenon
<1>6. Receive(c, {"chat"}) /\ r = Head(requests[c])
  BY <1>0, Zenon
<1>1. /\ requests[c] # <<>> /\ offline' = offline /\ r \in Request /\ r.op = "chat"
      /\ \A d \in Client \ {c} : RequestsStay(d)
      /\ \A w : ~HeldBy(c, w) /\ ~Tells(job[c].ans, w)
      /\ \A w : SentBy(c, w) => SentBy(c, w)' \/ (r.arg = w[1] /\ r.text = w[2])
  BY <1>6, ReceiveKeeps
<1>2. r.arg \in UserId /\ r.text \in Words
  <2>1. RequestFits(r, DOMAIN user)
    BY <1>1, <1>6, ReceiveIs
  <2> QED BY <1>1, <2>1 DEF RequestFits, Request, Words
<1>3. /\ answers \in [Client -> Seq(Answer)] /\ job \in [Thread -> JobState]
      /\ userConnMap \in [UserId -> Client \union {None}]
  BY DEF DataInv, TablesOK
<1>4. CASE /\ userConnMap[r.arg] # None
           /\ answers' = [answers EXCEPT ![userConnMap[r.arg]] = Append(@, Live(r.text))] /\ UNCHANGED job
  <2> DEFINE a == Live(r.text)
  <2>1. PICK s \in Client : s = userConnMap[r.arg]
    BY <1>2, <1>3, <1>4
  <2>2. a \in Answer /\ a.kind = "live" /\ a.rows = <<r.text>>
    BY <1>2, LiveFits
  <2>3. answers'[s] = Append(answers[s], a) /\ \A d \in Client \ {s} : answers'[d] = answers[d]
    BY <1>3, <1>4, <2>1
  <2> HIDE DEF a
  <2>4. \A d \in Client : RefusedInv(d)'
    BY <2>1, <2>2, <2>3, RefusedKept DEF KeepInv
  <2>5. KeepInv'
    BY <1>4, <2>4, JobKept DEF KeepInv, ghostVars
  <2>6. \A d \in Client : AnswersStay(d)
    <3>1. AnswersStay(s)
      BY <2>2, <2>3, AnswersAppended
    <3>2. \A d \in Client \ {s} : AnswersStay(d)
      BY <2>3 DEF AnswersStay
    <3> QED BY <3>1, <3>2
  <2>7. ASSUME NEW w, r.arg = w[1], r.text = w[2] PROVE Carries(w)'
    <3>1. Len(answers[s]) + 1 \in DOMAIN answers'[s] /\ answers'[s][Len(answers[s]) + 1] = a
      BY <1>3, <2>1, <2>2, <2>3, AppendIs
    <3>2. ToldBy(s, w)'
      BY <2>2, <2>7, <3>1 DEF ToldBy, Tells
    <3> QED BY <2>1, <3>2 DEF Carries
  <2>8. ASSUME NEW w \in written, Carries(w) PROVE Carries(w)'
    <3>1. \A d \in Client : SentBy(d, w) => Carries(w)'
      <4>1. SentBy(c, w) => Carries(w)'
        BY <1>1, <2>7 DEF Carries
      <4> QED BY <1>1, <4>1, Staying
    <3>2. \A d \in Client : HeldBy(d, w) \/ Tells(job[d].ans, w) => Carries(w)'
      BY <1>4, Staying
    <3>3. RowsStay(w[1]) /\ read' = read
      BY <1>1 DEF RowsStay, ghostVars
    <3> QED BY <2>6, <2>8, <3>1, <3>2, <3>3, Staying, CarriedOn
  <2> QED BY <2>5, <2>8 DEF Keeps
<1>5. CASE Serve(c, <<"resolve", "insertOffline">>, {r.arg}) /\ UNCHANGED answers
  <2> DEFINE j == [NoJob EXCEPT !.req = r, !.todo = <<"resolve", "insertOffline">>, !.to = {r.arg}, !.ask = {r.arg}]
  <2>1. job'[c] = j /\ \A d \in Client \ {c} : job'[d] = job[d]
    <3>1. job' = [job EXCEPT ![c] = j]
      BY <1>0, <1>5, Zenon DEF Serve
    <3> HIDE DEF j
    <3> QED BY <1>3, <3>1, AccountsAssumption
  <2>2. j.req = r /\ j.todo = <<"resolve", "insertOffline">> /\ j.to = {r.arg}
    BY DEF NoJob
  <2> HIDE DEF j
  <2>3. KeepInv'
    <3>1. ToInv(c)' /\ RowsInv(c)'
      BY <1>1, <2>1, <2>2, Tail2 DEF ToInv, RowsInv, Op, Todo
    <3>2. \A d \in Client : ToInv(d)' /\ RowsInv(d)'
      BY <2>1, <3>1, JobKept DEF KeepInv
    <3> QED BY <1>5, <3>2, RefusedKept DEF KeepInv, ghostVars
  <2>4. ASSUME NEW w, r.arg = w[1], r.text = w[2] PROVE Carries(w)'
    <3>1. HeldBy(c, w)'
      BY <1>1, <2>1, <2>2, <2>4 DEF HeldBy
    <3> QED BY <3>1 DEF Carries
  <2>5. ASSUME NEW w \in written, Carries(w) PROVE Carries(w)'
    <3>1. \A d \in Client : SentBy(d, w) => Carries(w)'
      <4>1. SentBy(c, w) => Carries(w)'
        BY <1>1, <2>4 DEF Carries
      <4> QED BY <1>1, <4>1, Staying
    <3>2. \A d \in Client : HeldBy(d, w) \/ Tells(job[d].ans, w) => Carries(w)'
      BY <1>1, <2>1, Staying
    <3>3. (\A d \in Client : AnswersStay(d)) /\ RowsStay(w[1]) /\ read' = read
      BY <1>1, <1>5 DEF AnswersStay, RowsStay, ghostVars
    <3> QED BY <2>5, <3>1, <3>2, <3>3, Staying, CarriedOn
  <2> QED BY <2>3, <2>5 DEF Keeps
<1> QED BY <1>0, <1>4, <1>5, Zenon

(* The job goes on between the functions *)
LEMMA GoesOnKeeps ==
    ASSUME DataInv, KeepInv, NEW c \in Client, JobGoes(c), \A w : HeldBy(c, w) => HeldBy(c, w)',
           \A d \in Client \ {c} : job'[d] = job[d],
           UNCHANGED <<requests, answers, offline, ghostVars>>
    PROVE  Keeps
<1>1. KeepInv'
  <2>1. \A d \in Client : ToInv(d)' /\ RowsInv(d)'
    BY JobKept DEF KeepInv, JobGoes
  <2> QED BY <2>1, RefusedKept DEF KeepInv, ghostVars
<1>2. ASSUME NEW w \in written, Carries(w) PROVE Carries(w)'
  <2>1. \A d \in Client : HeldBy(d, w) \/ Tells(job[d].ans, w) => Carries(w)'
    <3>1. HeldBy(c, w) => Carries(w)'
      BY DEF Carries
    <3>2. Tells(job[c].ans, w) => ToldBy(c, w)'
      BY DEF JobGoes, ToldBy, Tells
    <3>3. ToldBy(c, w)' => Carries(w)'
      BY DEF Carries
    <3> QED BY <3>1, <3>2, <3>3, Staying
  <2>2. (\A d \in Client : AnswersStay(d) /\ RequestsStay(d)) /\ RowsStay(w[1]) /\ read' = read
    BY DEF AnswersStay, RequestsStay, RowsStay, ghostVars
  <2> QED BY <1>2, <2>1, <2>2, Staying, CarriedOn
<1> QED BY <1>1, <1>2 DEF Keeps

(* A login looks, enters the table, binds and is undone before it has read a row *)
LEMMA LoginKeeps ==
    ASSUME DataInv, KeepInv, NEW c \in Client,
           Check(c) \/ AddConn(c) \/ BindUser(c) \/ BindRefused(c) \/ LoginUndo(c), UNCHANGED ghostVars
    PROVE  Keeps
<1>1. PICK f \in {"check", "addConn", "bindUser", "removeConn"} : Next1(c, f)
  BY Zenon DEF Check, AddConn, BindUser, BindRefused, LoginUndo
<1>2. /\ job[c] \in JobState /\ Op(c) = "login" /\ Todo(c) # <<>> /\ Head(Todo(c)) \in Early
      /\ c \in Thread /\ job \in [Thread -> JobState]
  BY <1>1, LoggerIs, AccountsAssumption DEF Next1, Early, DataInv
<1>3. job[c].ans.rows = <<>> /\ job[c].ans.kind \in {"none", "reg", "login"}
  BY <1>2, JobAnsIs DEF KeepInv, RowsInv
<1>4. UNCHANGED <<tables, requests, answers>> /\ \A d \in Client \ {c} : job'[d] = job[d]
  <2>1. UNCHANGED <<tables, wire>> /\ \E j : job' = [job EXCEPT ![c] = j]
    BY GoesIs DEF Goes
  <2> QED BY <1>2, <2>1, AccountsAssumption DEF wire
<1>5. job'[c].req = job[c].req /\ job'[c].ans.rows = <<>>
  <2>1. \A e : Login(c, e).rows = <<>>
    BY DEF Login, NoAnswer
  <2>2. CASE Check(c)
    <3>1. PICK e, td : job' = [job EXCEPT ![c].ans = Login(c, e), ![c].todo = td]
      BY <2>2, Zenon DEF Check
    <3> QED BY <1>2, <2>1, <3>1 DEF JobState
  <2>3. CASE LoginUndo(c)
    <3>1. job' = [job EXCEPT ![c].ans = Login(c, 3), ![c].todo = <<>>]
      BY <2>3, Zenon DEF LoginUndo
    <3> QED BY <1>2, <2>1, <3>1 DEF JobState
  <2>4. CASE AddConn(c) \/ BindUser(c) \/ BindRefused(c)
    <3>1. \E td : job' = [job EXCEPT ![c].todo = td]
      BY <2>4 DEF AddConn, BindUser, BindRefused
    <3> QED BY <1>2, <1>3, <3>1 DEF JobState
  <2> QED BY <2>2, <2>3, <2>4
<1>6. JobGoes(c)
  <2>1. Op(c)' = "login"
    BY <1>2, <1>5 DEF Op
  <2>2. ToInv(c)' /\ RowsInv(c)'
    BY <1>5, <2>1 DEF ToInv, RowsInv
  <2>3. \A w : ~Tells(job[c].ans, w)
    BY <1>3, TellsNothing
  <2> QED BY <2>2, <2>3 DEF JobGoes
<1>7. \A w : ~HeldBy(c, w)
  BY <1>2 DEF HeldBy, Op
<1>8. offline' = offline
  BY <1>4 DEF tables
<1> QED BY <1>4, <1>6, <1>7, <1>8, GoesOnKeeps

(* Whom a message is for is the same while his session is looked for and unbound *)
LEMMA ResolveKeeps ==
    ASSUME DataInv, KeepInv, NEW c \in Client, Resolve(c) \/ UnbindUser(c), UNCHANGED ghostVars PROVE Keeps
<1>1. PICK j \in JobState :
         /\ job' = [job EXCEPT ![c] = j]
         /\ j.req = job[c].req /\ j.to = job[c].to /\ j.ans = job[c].ans
         /\ \/ Op(c) \in {"chat", "groupChat"} /\ j.todo \in Sending
            \/ Op(c) \in {"logout", "close"}
         /\ UNCHANGED <<tables, wire>>
  BY ResolveIs DEF Resolved
<1>2. job'[c] = j /\ \A d \in Client \ {c} : job'[d] = job[d]
  BY <1>1, AccountsAssumption DEF DataInv
<1>3. Op(c)' = Op(c) /\ Todo(c)' = j.todo
  BY <1>1, <1>2 DEF Op, Todo
<1>4. <<>> \notin Sending
  BY DEF Sending
<1>5. ToInv(c)' /\ RowsInv(c)'
  BY <1>1, <1>3, <1>4 DEF ToInv, RowsInv
<1>6. JobGoes(c)
  BY <1>1, <1>2, <1>5 DEF JobGoes
<1>7. \A w : HeldBy(c, w) => HeldBy(c, w)'
  BY <1>1, <1>2 DEF HeldBy
<1>8. UNCHANGED <<requests, answers, offline>>
  BY <1>1 DEF tables, wire
<1> QED BY <1>2, <1>6, <1>7, <1>8, GoesOnKeeps

(* The answer goes out; a handler of oneChat that ends holds nothing *)
LEMMA ReplyKeeps ==
    ASSUME DataInv, KeepInv, NEW c \in Client, Reply(c), UNCHANGED ghostVars PROVE Keeps
<1> DEFINE a == job[c].ans
<1>1. /\ Todo(c) = <<>> /\ UNCHANGED <<tables, requests>> /\ job' = [job EXCEPT ![c] = NoJob]
      /\ answers' = IF a.kind \in {"reg", "login"} THEN [answers EXCEPT ![c] = Append(@, a)] ELSE answers
  BY DEF Reply
<1>2. /\ a \in Answer /\ a.kind \in {"none", "reg", "login"}
      /\ a.kind = "login" => Op(c) = "login"
  BY JobAnsIs
<1>3. answers \in [Client -> Seq(Answer)] /\ job \in [Thread -> JobState] /\ c \in Thread
  BY AccountsAssumption DEF DataInv
<1>4. job'[c] = NoJob /\ \A d \in Client \ {c} : job'[d] = job[d]
  BY <1>1, <1>3, AccountsAssumption
<1>5. a.kind = "login" /\ a.errno # 0 => a.rows = <<>>
  BY <1>2 DEF KeepInv, RowsInv
<1> HIDE DEF a
<1>6. answers'[c] \in {answers[c], Append(answers[c], a)} /\ \A d \in Client \ {c} : answers'[d] = answers[d]
  BY <1>1, <1>3
<1>7. KeepInv'
  <2>1. ToInv(c)' /\ RowsInv(c)'
    BY <1>4 DEF ToInv, RowsInv, Op, NoJob, NoRequest
  <2>2. \A d \in Client : ToInv(d)' /\ RowsInv(d)'
    BY <1>4, <2>1, JobKept DEF KeepInv
  <2>3. RefusedInv(c)'
    BY <1>2, <1>5, <1>6, RefusedKept DEF KeepInv
  <2>4. \A d \in Client : RefusedInv(d)'
    BY <1>6, <2>3, RefusedKept DEF KeepInv
  <2> QED BY <2>2, <2>4 DEF KeepInv, ghostVars
<1>8. \A d \in Client : AnswersStay(d)
  <2>1. AnswersStay(c)
    BY <1>2, <1>6, AnswersAppended
  <2>2. \A d \in Client \ {c} : AnswersStay(d)
    BY <1>6 DEF AnswersStay
  <2> QED BY <2>1, <2>2
<1>9. ASSUME NEW w \in written, Carries(w) PROVE Carries(w)'
  <2>1. ~HeldBy(c, w)
    BY <1>1 DEF KeepInv, ToInv, HeldBy, Op
  <2>2. Tells(a, w) => Carries(w)'
    <3> SUFFICES ASSUME Tells(a, w) PROVE Carries(w)'
      OBVIOUS
    <3>1. answers'[c] = Append(answers[c], a)
      BY <1>1, <1>2, <1>3 DEF Tells
    <3>2. Len(answers[c]) + 1 \in DOMAIN answers'[c] /\ answers'[c][Len(answers[c]) + 1] = a
      BY <1>2, <1>3, <3>1, AppendIs
    <3>3. ToldBy(c, w)'
      BY <3>2 DEF ToldBy, Tells
    <3> QED BY <3>3 DEF Carries
  <2>3. \A d \in Client : HeldBy(d, w) \/ Tells(job[d].ans, w) => Carries(w)'
    BY <1>4, <2>1, <2>2, Staying DEF a
  <2>4. (\A d \in Client : RequestsStay(d)) /\ RowsStay(w[1]) /\ read' = read
    BY <1>1 DEF RequestsStay, RowsStay, ghostVars, tables
  <2> QED BY <1>8, <1>9, <2>3, <2>4, Staying, CarriedOn
<1> QED BY <1>7, <1>9 DEF Keeps

LEMMA HandlerKeeps ==
    ASSUME DataInv, KeepInv, NEW c \in Client, ClientStep(c), UNCHANGED ghostVars PROVE Keeps
<1>1. CASE Begin(c)
  <2> DEFINE ops == {"reg", "login", "addFriend", "createGroup", "addGroup", "groupChat"}
  <2>1. Receive(c, ops) /\ Serve(c, Plan(Head(requests[c])), {}) /\ answers' = answers /\ "chat" \notin ops
    BY <1>1 DEF Begin
  <2> HIDE DEF ops
  <2> QED BY <2>1, StartKeeps
<1>2. CASE BeginLeave(c)
  <2> DEFINE ops == {"logout", "close"}
             td == <<"unbindUser", "setOffline">>
  <2>1. Receive(c, ops) /\ answers' = answers /\ \E u : Serve(c, td, {u})
    BY <1>2, Zenon DEF BeginLeave, Leave
  <2>2. "chat" \notin ops
    OBVIOUS
  <2> HIDE DEF ops, td
  <2> QED BY <2>1, <2>2, StartKeeps
<1>3. CASE BeginLeaveUnknown(c)
  <2> DEFINE ops == {"close"}
             td == <<>>
             to == {}
  <2>1. Receive(c, ops) /\ answers' = answers /\ Serve(c, td, to)
    BY <1>3, Zenon DEF BeginLeaveUnknown
  <2>2. "chat" \notin ops
    OBVIOUS
  <2> HIDE DEF ops, td, to
  <2> QED BY <2>1, <2>2, StartKeeps
<1> QED BY <1>1, <1>2, <1>3, BeginChatKeeps, LoginKeeps, ResolveKeeps, ReplyKeeps DEF ClientStep

-----------------------------------------------------------------------------
(* The clients *)
LEMMA GiveKeeps ==
    ASSUME DataInv, KeepInv, NEW c \in Client, NEW e,
           requests' = [requests EXCEPT ![c] = Append(@, e)],
           UNCHANGED <<tables, job, answers, read>>,
           \A w \in written' : w \in written \/ w \in (0..MaxUser) \X Text
    PROVE  Keeps
<1>1. KeepInv'
  BY JobKept, RefusedKept DEF KeepInv
<1>2. \A d \in Client : RequestsStay(d)
  <2>1. requests \in [Client -> Seq(Request)]
    BY DEF DataInv
  <2>2. requests'[c] = Append(requests[c], e) /\ \A d \in Client \ {c} : requests'[d] = requests[d]
    BY <2>1
  <2>3. RequestsStay(c)
    <3> DEFINE S == Request \union {e}
               s == requests[c]
    <3>1. s \in Seq(S) /\ e \in S
      <4>1. s \in Seq(Request) /\ e \in S
        BY <2>1
      <4>2. Len(s) \in Nat /\ DOMAIN s = 1..Len(s) /\ \A i \in 1..Len(s) : s[i] \in S
        BY <4>1
      <4> QED BY <4>1, <4>2
    <3> HIDE DEF S, s
    <3>2. \A i \in DOMAIN s : i \in DOMAIN Append(s, e) /\ Append(s, e)[i] = s[i]
      BY <3>1, AppendIs
    <3> QED BY <2>2, <3>2 DEF s, RequestsStay
  <2> QED BY <2>2, <2>3 DEF RequestsStay
<1>3. ASSUME NEW w \in written, Carries(w) PROVE Carries(w)'
  <2>1. \A d \in Client : HeldBy(d, w) \/ Tells(job[d].ans, w) => Carries(w)'
    BY Staying
  <2>2. (\A d \in Client : AnswersStay(d)) /\ RowsStay(w[1])
    BY DEF AnswersStay, RowsStay, tables
  <2> QED BY <1>2, <1>3, <2>1, <2>2, Staying, CarriedOn
<1> QED BY <1>1, <1>3 DEF Keeps

LEMMA UserKeeps ==
    ASSUME DataInv, KeepInv, NEW c \in Client, UserStep(c) PROVE Keeps
<1>1. /\ UNCHANGED <<tables, job, answers, read>>
      /\ \E e : requests' = [requests EXCEPT ![c] = Append(@, e)]
  <2>1. CASE AskLogin(c) \/ AskReg(c) \/ Quit(c)
    BY <2>1 DEF AskLogin, AskReg, Quit, Give, ServerUnchanged, ghostVars
  <2>2. CASE AddFriend(c) \/ CreateGroup(c) \/ AddGroup(c) \/ Logout(c)
    BY <2>2 DEF AddFriend, CreateGroup, AddGroup, Logout, Command, Give, ServerUnchanged
  <2>3. CASE Chat(c) \/ GroupChat(c)
    BY <2>3 DEF Chat, GroupChat, Command, Give, ServerUnchanged
  <2> QED BY <2>1, <2>2, <2>3 DEF UserStep
<1>2. \A w \in written' : w \in written \/ w \in (0..MaxUser) \X Text
  <2>1. CASE Chat(c) \/ GroupChat(c)
    <3>1. PICK to \in 0..MaxUser, text \in Text : written' = written \union {<<to, text>>}
      <4>1. UserId \subseteq 0..MaxUser /\ 0 \in 0..MaxUser
        BY AccountsAssumption DEF UserId
      <4> QED BY <2>1, <4>1 DEF Chat, GroupChat, Write
    <3> QED BY <3>1
  <2>2. CASE ~(Chat(c) \/ GroupChat(c))
    BY <2>2 DEF UserStep, AskLogin, AskReg, Quit, AddFriend, CreateGroup, AddGroup, Logout, ghostVars
  <2> QED BY <2>1, <2>2
<1> QED BY <1>1, <1>2, GiveKeeps

(* What the reader takes from its answers, it shows, but for what a login's answer that    *)
(* json::parse throws at holds                                                   *)
LEMMA ReadingKeeps ==
    ASSUME DataInv, KeepInv, NEW c \in Client, NEW kind, Reading(c, kind), written' = written, read \subseteq read',
           \A w \in written : Tells(Head(answers[c]), w) => w[2] \in read'
    PROVE  Keeps
<1>1. /\ answers[c] # <<>> /\ answers' = [answers EXCEPT ![c] = Tail(@)]
      /\ UNCHANGED <<tables, job, requests>>
  BY DEF Reading, ServerUnchanged
<1>2. answers \in [Client -> Seq(Answer)]
  BY DEF DataInv
<1>3. answers[c] \in Seq(Answer) /\ answers'[c] = Tail(answers[c]) /\ \A d \in Client \ {c} : answers'[d] = answers[d]
  BY <1>1, <1>2
<1>4. /\ Head(answers[c]) = answers[c][1]
      /\ \A k \in DOMAIN answers[c] :
            k = 1 \/ (k - 1 \in DOMAIN answers'[c] /\ answers'[c][k - 1] = answers[c][k])
  <2>1. answers[c] \in Seq(Answer) /\ answers[c] # <<>> /\ answers'[c] = Tail(answers[c])
    BY <1>1, <1>3
  <2> QED BY <2>1, TailIs
<1>5. KeepInv'
  <2>1. \A d \in Client : RefusedInv(d)'
    BY <1>1, <1>3, RefusedKept DEF KeepInv
  <2> QED BY <1>1, <2>1, JobKept DEF KeepInv
<1>6. ASSUME NEW w \in written, Carries(w) PROVE Carries(w)'
  <2>1. \A i \in DOMAIN answers[c] : Tells(answers[c][i], w) => Carries(w)'
    <3> SUFFICES ASSUME NEW i \in DOMAIN answers[c], Tells(answers[c][i], w) PROVE Carries(w)'
      OBVIOUS
    <3>1. /\ Head(answers[c]) = answers[c][1]
          /\ i = 1 \/ (i - 1 \in DOMAIN answers'[c] /\ answers'[c][i - 1] = answers[c][i])
      BY <1>4
    <3>2. CASE i = 1
      BY <3>1, <3>2 DEF Carries
    <3>3. CASE i # 1
      <4>1. ToldBy(c, w)'
        BY <3>1, <3>3 DEF ToldBy, Tells
      <4> QED BY <4>1 DEF Carries
    <3> QED BY <3>2, <3>3
  <2>2. \A d \in Client : \A i \in DOMAIN answers[d] : Tells(answers[d][i], w) => Carries(w)'
    <3>1. \A d \in Client \ {c} : AnswersStay(d)
      BY <1>3 DEF AnswersStay
    <3> QED BY <2>1, <3>1, Staying
  <2>3. \A d \in Client : HeldBy(d, w) \/ Tells(job[d].ans, w) => Carries(w)'
    BY <1>1, Staying
  <2>4. (\A d \in Client : RequestsStay(d)) /\ RowsStay(w[1])
    BY <1>1 DEF RequestsStay, RowsStay, tables
  <2> QED BY <1>6, <2>2, <2>3, <2>4, Staying, CarriedOn
<1> QED BY <1>5, <1>6 DEF Keeps

LEMMA HeadIs ==
    ASSUME DataInv, KeepInv, NEW c \in Client, answers[c] # <<>>
    PROVE  LET a == Head(answers[c])
           IN  a \in Answer /\ (a.kind = "login" /\ a.errno # 0 => a.rows = <<>>)
<1>1. answers[c] \in Seq(Answer) /\ RefusedInv(c)
  BY DEF DataInv, KeepInv
<1>2. Head(answers[c]) = answers[c][1] /\ 1 \in DOMAIN answers[c]
  BY <1>1, TailIs
<1> QED BY <1>1, <1>2 DEF RefusedInv

LEMMA ShownWhole ==
    ASSUME NEW rows \in Seq(Row), ~Throws(rows), NEW text, Unspoilt(rows, text)
    PROVE  text \in Shown(rows)
<1>1. PICK i \in DOMAIN rows : Parse(rows[i]) = [ok |-> TRUE, text |-> text]
  BY DEF Unspoilt
<1>2. \A k \in 1..i : Parse(rows[k]).ok
  <2>1. \A k \in 1..i : k \in DOMAIN rows
    OBVIOUS
  <2> QED BY <2>1 DEF Throws
<1>3. Parse(rows[i]).text = text
  BY <1>1
<1> QED BY <1>2, <1>3 DEF Shown

LEMMA ReaderKeeps ==
    ASSUME DataInv, KeepInv, NEW c \in Client,
           \/ ReadLive(c) \/ ReadReg(c) \/ ReadLoginRefused(c)
           \/ ReadLogin(c) /\ ~Throws(Head(answers[c]).rows)
    PROVE  Keeps
<1> DEFINE a == Head(answers[c])
<1>1. ASSUME ReadLive(c) PROVE Keeps
  <2>1. Reading(c, "live") /\ read' = read \union {a.rows[1]} /\ written' = written /\ a.kind = "live"
    BY <1>1 DEF ReadLive, Reading
  <2>2. ASSUME NEW w, Tells(a, w) PROVE w[2] \in read'
    <3>1. a.rows = <<w[2]>>
      BY <2>1, <2>2 DEF Tells
    <3>2. a.rows[1] = w[2]
      BY <3>1
    <3> QED BY <2>1, <3>2
  <2> QED BY <2>1, <2>2, ReadingKeeps
<1>2. ASSUME ReadReg(c) \/ ReadLoginRefused(c) PROVE Keeps
  <2>1. PICK kind : /\ Reading(c, kind) /\ UNCHANGED ghostVars /\ answers[c] # <<>>
                    /\ a.kind = "reg" \/ (a.kind = "login" /\ a.errno # 0)
    BY <1>2 DEF ReadReg, ReadLoginRefused, Reading
  <2>2. a.kind = "login" => a.rows = <<>>
    BY <2>1, HeadIs
  <2>3. \A w : ~Tells(a, w)
    BY <2>1, <2>2, TellsNothing
  <2> QED BY <2>1, <2>3, ReadingKeeps DEF ghostVars
<1>3. ASSUME ReadLogin(c), ~Throws(a.rows) PROVE Keeps
  <2>1. Reading(c, "login") /\ read' = read \union Shown(a.rows) /\ written' = written /\ a.kind = "login"
        /\ answers[c] # <<>>
    BY <1>3 DEF ReadLogin, Reading
  <2>2. a.rows \in Seq(Row)
    BY <2>1, HeadIs DEF Answer
  <2>3. ASSUME NEW w, Tells(a, w) PROVE w[2] \in read'
    <3>1. Unspoilt(a.rows, w[2])
      BY <2>1, <2>3 DEF Tells
    <3> QED BY <1>3, <2>1, <2>2, <3>1, ShownWhole
  <2> QED BY <2>1, <2>3, ReadingKeeps
<1> QED BY <1>1, <1>2, <1>3

(* A step of the pool or of the client's semaphore *)
LEMMA SameKeeps ==
    ASSUME KeepInv, UNCHANGED <<tables, wire, job, ghostVars>> PROVE Keeps
<1>1. UNCHANGED <<requests, answers, job, offline, written, read>>
  BY DEF tables, wire, ghostVars
<1>2. \A d \in Client : ToInv(d)' /\ RowsInv(d)' /\ RefusedInv(d)'
  BY <1>1 DEF KeepInv, ToInv, RowsInv, RefusedInv, Op, Todo
<1>3. ASSUME NEW w, Carries(w) PROVE Carries(w)'
  <2>1. \A d \in Client : RequestsStay(d) /\ AnswersStay(d) /\ job'[d] = job[d]
    BY <1>1 DEF RequestsStay, AnswersStay
  <2>2. w[1] \in UserId /\ Unspoilt(offline[w[1]], w[2]) => Carries(w)'
    BY <1>1 DEF Unspoilt, Carries
  <2> QED BY <1>1, <1>3, <2>1, <2>2, Staying, CarriedOn
<1> QED BY <1>1, <1>2, <1>3 DEF Keeps, KeepInv

LEMMA KeepStep ==
    ASSUME AccountInv, KeepInv, [Next]_vars
    PROVE  /\ KeepInv'
           /\ [\A w \in written :
                  /\ Plain(w[2]) /\ w[1] \in DOMAIN user /\ Carries(w) /\ ~Carries(w)'
                  => \E c \in Client :
                        \/ OfflineRemove(c) /\ Asker(c) = w[1]
                        \/ ReadLogin(c) /\ Throws(Head(answers[c]).rows)]_vars
<1> DEFINE Gone(w) == \E c \in Client : \/ OfflineRemove(c) /\ Asker(c) = w[1]
                                        \/ ReadLogin(c) /\ Throws(Head(answers[c]).rows)
<1>1. SUFFICES /\ KeepInv'
               /\ \A w \in written : Plain(w[2]) /\ w[1] \in DOMAIN user /\ Carries(w) => Carries(w)' \/ Gone(w)
  OBVIOUS
<1> HIDE DEF Gone
<1>2. CASE Keeps
  BY <1>2 DEF Keeps
<1>3. DataInv /\ DOMAIN user \subseteq UserId
  <2>1. user \in Seq(User) /\ Len(user) \in Stored.users..MaxUser
    BY DEF AccountInv, DataInv, TablesOK
  <2>2. Len(user) \in Nat /\ Len(user) <= MaxUser /\ MaxUser \in Nat /\ DOMAIN user = 1..Len(user)
    BY <2>1, AccountsAssumption, StoredAssumption
  <2> QED BY <2>2 DEF AccountInv, UserId
<1>4. ASSUME NEW t \in Thread, Statement(t), UNCHANGED ghostVars
      PROVE  /\ KeepInv'
             /\ \A w \in written : Plain(w[2]) /\ w[1] \in DOMAIN user /\ Carries(w) => Carries(w)' \/ Gone(w)
  <2>1. CASE OfflineInsert(t)
    BY <1>3, <1>4, <2>1, OfflineInsertKeeps
  <2>2. CASE ~OfflineInsert(t)
    <3>1. /\ KeepInv'
          /\ \A w \in written : Carries(w) /\ w[1] \in UserId /\ ~(OfflineRemove(t) /\ Asker(t) = w[1]) => Carries(w)'
      BY <1>3, <1>4, <2>2, StatementKeeps
    <3>2. \A w : OfflineRemove(t) /\ Asker(t) = w[1] => Gone(w)
      <4>1. OfflineRemove(t) => t \in Client
        BY <1>3, RunningIs DEF OfflineRemove
      <4> QED BY <4>1 DEF Gone
    <3> QED BY <1>3, <3>1, <3>2
  <2> QED BY <2>1, <2>2
<1>5. CASE UNCHANGED vars
  BY <1>2, <1>5, SameKeeps DEF vars, accVars
<1>6. ASSUME NEW t \in Thread, ThreadStep(t) \/ Rewoken(t), UNCHANGED ghostVars
      PROVE  /\ KeepInv'
             /\ \A w \in written : Plain(w[2]) /\ w[1] \in DOMAIN user /\ Carries(w) => Carries(w)' \/ Gone(w)
  <2>1. CASE Borrow(t) \/ Rewoken(t)
    BY <1>2, <1>6, <2>1, SameKeeps DEF Borrow, Rewoken
  <2>2. CASE t \in Client /\ ClientStep(t)
    BY <1>2, <1>3, <1>6, <2>2, HandlerKeeps
  <2> QED BY <1>4, <1>6, <2>1, <2>2 DEF ThreadStep
<1>7. ASSUME NEW c \in Client, UserStep(c) \/ Wake(c) \/ ReaderStep(c)
      PROVE  /\ KeepInv'
             /\ \A w \in written : Plain(w[2]) /\ w[1] \in DOMAIN user /\ Carries(w) => Carries(w)' \/ Gone(w)
  <2>1. CASE UserStep(c)
    BY <1>2, <1>3, <2>1, UserKeeps
  <2>2. CASE Wake(c) \/ Post(c)
    BY <1>2, <2>2, SameKeeps DEF Wake, Post, ServerUnchanged
  <2>3. CASE \/ ReadLive(c) \/ ReadReg(c) \/ ReadLoginRefused(c)
             \/ ReadLogin(c) /\ ~Throws(Head(answers[c]).rows)
    BY <1>2, <1>3, <2>3, ReaderKeeps
  <2>4. CASE ReadLogin(c) /\ Throws(Head(answers[c]).rows)
    <3>1. \A w : Gone(w)
      BY <2>4 DEF Gone
    <3>2. KeepInv'
      <4>1. Reading(c, "login") /\ written' = written /\ answers[c] # <<>> /\ answers' = [answers EXCEPT ![c] = Tail(@)]
            /\ job' = job
        BY <2>4 DEF ReadLogin, Reading, ServerUnchanged
      <4>2. answers'[c] = Tail(answers[c]) /\ \A d \in Client \ {c} : answers'[d] = answers[d]
        BY <1>3, <4>1 DEF DataInv
      <4>3. \A d \in Client : RefusedInv(d)'
        BY <1>3, <4>1, <4>2, RefusedKept DEF KeepInv
      <4> QED BY <4>1, <4>3, JobKept DEF KeepInv
    <3> QED BY <3>1, <3>2
  <2> QED BY <1>7, <2>1, <2>2, <2>3, <2>4 DEF ReaderStep
<1> QED BY <1>5, <1>6, <1>7 DEF Next, AccountsNext

(* oneChat, OfflineMsgModel, login and doLoginResponse: a message without a sign of one of the  *)
(* three readers, and short enough, is shown as it was written or waits to be, whoever is       *)
(* logged in when.  It can vanish in two ways: login deletes its receiver's rows after it has    *)
(* read them, whatever came in between; or it is in a login's answer whose rows json::parse      *)
(* throws at, and what is after that row is not shown.                                   *)
THEOREM PlainMessagesKept == Spec => PlainKept
<1>1. Init => KeepInv
  <2> SUFFICES ASSUME Init PROVE KeepInv
    OBVIOUS
  <2>1. written = {} /\ \A c \in Client : Op(c) = "none" /\ answers[c] = <<>>
    BY AccountsAssumption DEF Init, AccountsInit, Op, NoJob, NoRequest
  <2>2. DOMAIN <<>> = {}
    OBVIOUS
  <2> QED BY <2>1, <2>2 DEF KeepInv, ToInv, RowsInv, RefusedInv
<1>2. AccountInv /\ KeepInv /\ [Next]_vars =>
        /\ KeepInv'
        /\ [\A w \in written :
               /\ Plain(w[2]) /\ w[1] \in DOMAIN user /\ Carries(w) /\ ~Carries(w)'
               => \E c \in Client :
                     \/ OfflineRemove(c) /\ Asker(c) = w[1]
                     \/ ReadLogin(c) /\ Throws(Head(answers[c]).rows)]_vars
  BY KeepStep
<1> QED BY <1>1, <1>2, AccountInvHolds, PTL DEF Spec, PlainKept
=============================================================================
