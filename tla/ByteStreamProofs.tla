--------------------------- MODULE ByteStreamProofs ---------------------------
(***************************************************************************)
(* The four byte streams, for any number of messages and however their bytes *)
(* are cut into pieces: the handlers see the messages that were sent, whole,   *)
(* in order, and none is left in the buffer when a callback returns.           *)
(*                                                                          *)
(* First what one turn of each reader's loop does to a buffer that begins with *)
(* a message (..Reads) and to one that holds only a part of it (..Waits); then  *)
(* one argument for the four of them.                                         *)
(***************************************************************************)
EXTENDS ByteStream, SequenceTheorems, WellFoundedInduction, TLAPS

(* The buffer that begins with u gives got and leaves the rest *)
Took(got, rest) == [more |-> TRUE, got |-> got, rest |-> rest]
Kept(buf)       == [more |-> FALSE, got |-> <<>>, rest |-> buf]

-----------------------------------------------------------------------------
(* Sequences *)

(* Every set of numbers that is not empty has a least one: induction without an      *)
(* operator as a parameter, from the library's theorem on well-founded relations     *)
LEMMA Least ==
    ASSUME NEW S \in SUBSET Nat, S # {}
    PROVE  \E n \in S : \A k \in S : n <= k
<1>1. PICK n \in S : \A k \in S : ~ (<<k, n>> \in OpToRel(<, Nat))
  <2>1. \E n \in S : \A k \in S : ~ (<<k, n>> \in OpToRel(<, Nat))
    BY NatLessThanWellFounded, WFMin
  <2>2. QED BY <2>1
<1>2. ASSUME NEW k \in S PROVE n <= k
  <2>1. ~ (k < n) BY <1>1 DEF OpToRel
  <2>2. QED BY <2>1
<1>3. QED BY <1>2

LEMMA JoinIs ==
    ASSUME NEW s \in Seq(Nat), NEW t \in Seq(Nat)
    PROVE  /\ Len(s) \in Nat /\ Len(t) \in Nat
           /\ s \o t \in Seq(Nat) /\ Len(s \o t) = Len(s) + Len(t)
           /\ \A i \in 1..Len(s) : (s \o t)[i] = s[i]
           /\ \A i \in 1..Len(t) : (s \o t)[Len(s) + i] = t[i]
OBVIOUS

LEMMA JoinAgain ==
    ASSUME NEW s \in Seq(Nat), NEW t \in Seq(Nat), NEW r \in Seq(Nat)
    PROVE  (s \o t) \o r = s \o (t \o r) /\ <<>> \o s = s /\ s \o <<>> = s
OBVIOUS

LEMMA JoinFour ==
    ASSUME NEW s \in Seq(Nat), NEW t \in Seq(Nat), NEW r \in Seq(Nat), NEW q \in Seq(Nat),
           NEW x, x = s \o (t \o r), NEW y, y = r \o q
    PROVE  x \o q = s \o (t \o y)
<1>1. t \o r \in Seq(Nat) OBVIOUS
<1>2. \A w \in Seq(Nat) : (s \o w) \o q = s \o (w \o q) BY JoinAgain, ZenonT(40)
<1>3. (s \o (t \o r)) \o q = s \o ((t \o r) \o q) BY ONLY <1>1, <1>2
<1>4. (t \o r) \o q = t \o (r \o q) BY JoinAgain
<1>5. QED BY <1>3, <1>4, Zenon

LEMMA CutIs ==
    ASSUME NEW s \in Seq(Nat), NEW k \in 0..Len(s)
    PROVE  /\ SubSeq(s, 1, k) \in Seq(Nat) /\ Len(SubSeq(s, 1, k)) = k
           /\ \A i \in 1..k : SubSeq(s, 1, k)[i] = s[i]
OBVIOUS

(* A joined sequence taken apart *)
LEMMA JoinCut ==
    ASSUME NEW s \in Seq(Nat), NEW t \in Seq(Nat)
    PROVE  /\ SubSeq(s \o t, Len(s) + 1, Len(s \o t)) = t
           /\ \A k \in 0..Len(s) : SubSeq(s \o t, 1, k) = SubSeq(s, 1, k)
           /\ SubSeq(s, 1, Len(s)) = s
<1>1. /\ Len(s) \in Nat /\ Len(t) \in Nat /\ Len(s \o t) = Len(s) + Len(t)
      /\ Len(s) + 1 \in Int /\ Len(s) + Len(t) \in Int /\ 1 \in Int
  BY JoinIs
<1>2. SubSeq(s \o t, Len(s) + 1, Len(s \o t)) = t
  <2>1. CASE t = <<>>
    <3>1. Len(t) = 0 BY <2>1
    <3>2. Len(s) + Len(t) < Len(s) + 1 BY <1>1, <3>1
    <3>3. SubSeq(s \o t, Len(s) + 1, Len(s) + Len(t)) = <<>> BY <1>1, <3>2, SubSeqEmpty
    <3>4. QED BY <3>3, <2>1, <1>1
  <2>2. CASE t # <<>>
    <3>1. Len(t) > 0 BY <2>2, EmptySeq
    <3>2. /\ Len(s) + 1 \in Len(s) + 1..Len(s) + Len(t)
          /\ Len(s) + Len(t) \in Len(s) + 1..Len(s) + Len(t)
          /\ Len(s) + 1 - Len(s) = 1 /\ Len(s) + Len(t) - Len(s) = Len(t)
      BY <1>1, <3>1
    <3>3. SubSeq(s \o t, Len(s) + 1, Len(s) + Len(t)) = SubSeq(t, 1, Len(t))
      BY <3>2, SubSeqOfConcat2
    <3>4. QED BY <3>3, <1>1, SubSeqFull
  <2>3. QED BY <2>1, <2>2
<1>3. ASSUME NEW k \in 0..Len(s) PROVE SubSeq(s \o t, 1, k) = SubSeq(s, 1, k)
  <2>1. CASE k = 0
    <3>1. 0 < 1 /\ 0 \in Int OBVIOUS
    <3>2. SubSeq(s \o t, 1, 0) = <<>> /\ SubSeq(s, 1, 0) = <<>> BY <3>1, <1>1, SubSeqEmpty
    <3>3. QED BY <3>2, <2>1
  <2>2. CASE k # 0
    <3>1. k \in 1..Len(s) /\ 1 \in 1..Len(s) BY <2>2, <1>1
    <3>2. QED BY <3>1, SubSeqOfConcat1
  <2>3. QED BY <2>1, <2>2
<1>4. QED BY <1>2, <1>3, SubSeqFull

LEMMA JoinMid ==
    ASSUME NEW s \in Seq(Nat), NEW t \in Seq(Nat), NEW k \in 1..Len(t)
    PROVE  SubSeq(s \o t, Len(s) + 1, Len(s) + k) = SubSeq(t, 1, k)
<1>1. /\ Len(s) + 1 \in Len(s) + 1..Len(s) + Len(t)
      /\ Len(s) + k \in Len(s) + 1..Len(s) + Len(t)
      /\ Len(s) + 1 - Len(s) = 1 /\ Len(s) + k - Len(s) = k
  BY JoinIs
<1>2. QED BY <1>1, SubSeqOfConcat2

(* What has come of a stream, x, and what is under way, y, when the stream begins with u *)
(* x and then y is the same as u and then t *)
Same(x, y, u, t) ==
    x \in Seq(Nat) /\ y \in Seq(Nat) /\ u \in Seq(Nat) /\ t \in Seq(Nat) /\ x \o y = u \o t

LEMMA CameWhole ==
    ASSUME NEW x, NEW y, NEW u, NEW t, Same(x, y, u, t), Len(u) <= Len(x)
    PROVE  \E r \in Seq(Nat) : x = u \o r /\ r \o y = t
<1>0. /\ x \in Seq(Nat) /\ y \in Seq(Nat) /\ u \in Seq(Nat) /\ t \in Seq(Nat)
      /\ x \o y = u \o t
  BY DEF Same
<1> USE <1>0
<1> DEFINE r == SubSeq(x, Len(u) + 1, Len(x))
<1>1. /\ Len(x) \in Nat /\ Len(u) \in Nat
      /\ 1 \in 1..(Len(x) + 1) /\ Len(u) \in 1 - 1..Len(x) /\ Len(x) \in Len(u)..Len(x)
      /\ Len(u) \in 0..Len(x) /\ Len(u) \in 0..Len(u)
  OBVIOUS
<1>2. SubSeq(x, 1, Len(u)) \o r = x
  <2>1. SubSeq(x, 1, Len(u)) \o SubSeq(x, Len(u) + 1, Len(x)) = SubSeq(x, 1, Len(x))
    BY <1>1, ConcatAdjacentSubSeq
  <2>2. QED BY <2>1, SubSeqFull
<1>3. SubSeq(x, 1, Len(u)) = u
  <2>1. SubSeq(x \o y, 1, Len(u)) = SubSeq(x, 1, Len(u)) BY <1>1, JoinCut
  <2>2. SubSeq(u \o t, 1, Len(u)) = u BY <1>1, JoinCut
  <2>3. QED BY <2>1, <2>2
<1>4. r \in Seq(Nat)
  <2>1. r \in Seq(Nat) BY <1>1
  <2>2. QED BY <2>1
<1> HIDE DEF r
<1>5. x = u \o r BY <1>2, <1>3
<1>6. u \o (r \o y) = u \o t
  <2>1. (u \o r) \o y = u \o (r \o y) BY <1>4, JoinAgain, ZenonT(40)
  <2>2. (u \o r) \o y = x \o y BY <1>5
  <2>3. QED BY ONLY <2>1, <2>2, <1>0
<1>7. r \o y \in Seq(Nat) BY <1>4, JoinIs
<1>8. r \o y = t BY <1>6, <1>7, ConcatSimplifications
<1>9. QED BY <1>4, <1>5, <1>8

LEMMA CamePart ==
    ASSUME NEW x \in Seq(Nat), NEW y \in Seq(Nat), NEW u \in Seq(Nat), NEW t \in Seq(Nat),
           x \o y = u \o t, Len(x) < Len(u)
    PROVE  x = SubSeq(u, 1, Len(x))
<1>1. Len(x) \in 0..Len(u) /\ Len(x) \in 0..Len(x) OBVIOUS
<1>2. SubSeq(x \o y, 1, Len(x)) = x BY <1>1, JoinCut
<1>3. SubSeq(u \o t, 1, Len(x)) = SubSeq(u, 1, Len(x)) BY <1>1, JoinCut
<1>4. QED BY <1>2, <1>3

(* A text m that ends with the sign z, which it has nowhere else, and what follows *)
LEMMA EndIs ==
    ASSUME NEW m \in Seq(Nat), NEW z \in Nat, NEW r \in Seq(Nat), \A i \in 1..Len(m) : m[i] # z,
           NEW buf, buf = (m \o <<z>>) \o r
    PROVE  /\ Len(m) \in Nat /\ buf \in Seq(Nat) /\ Len(buf) \in Nat /\ Len(m) + 1 <= Len(buf)
           /\ DOMAIN buf = 1..Len(buf) /\ Len(m) + 1 \in DOMAIN buf /\ buf[Len(m) + 1] = z
           /\ \A i \in DOMAIN buf : i < Len(m) + 1 => buf[i] = m[i] /\ buf[i] # z
           /\ SubSeq(buf, 1, Len(m)) = m /\ SubSeq(buf, Len(m) + 2, Len(buf)) = r
<1> DEFINE e == m \o <<z>>
           n == Len(m)
<1>1. <<z>> \in Seq(Nat) /\ Len(<<z>>) = 1 /\ <<z>>[1] = z OBVIOUS
<1>2. /\ n \in Nat /\ e \in Seq(Nat) /\ Len(e) = n + 1 /\ e[n + 1] = z
      /\ \A i \in 1..n : e[i] = m[i]
  BY <1>1, JoinIs
<1>3. SubSeq(e, 1, n) = m
  <2>1. n \in 0..n BY <1>2
  <2>2. QED BY <2>1, <1>1, JoinCut
<1> HIDE DEF e
<1>4. buf = e \o r BY DEF e
<1>5. /\ Len(r) \in Nat /\ buf \in Seq(Nat) /\ Len(buf) = n + 1 + Len(r)
      /\ \A i \in 1..(n + 1) : buf[i] = e[i]
  BY <1>2, <1>4, JoinIs
<1>6. SubSeq(buf, 1, n) = m
  <2>1. n \in 0..Len(e) BY <1>2
  <2>2. QED BY <2>1, <1>2, <1>3, <1>4, JoinCut
<1>7. SubSeq(buf, n + 2, Len(buf)) = r
  <2>1. SubSeq(buf, Len(e) + 1, Len(buf)) = r BY <1>2, <1>4, JoinCut
  <2>2. Len(e) + 1 = n + 2 BY <1>2
  <2>3. QED BY <2>1, <2>2
<1>8. DOMAIN buf = 1..Len(buf) BY <1>5
<1> HIDE DEF n
<1>9. \A i \in 1..n : m[i] # z BY DEF n
<1>10. Len(buf) \in Nat /\ n + 1 <= Len(buf) /\ n + 1 \in DOMAIN buf /\ buf[n + 1] = z
  <2>1. n + 1 \in 1..(n + 1) BY ONLY <1>2
  <2>2. buf[n + 1] = z BY <2>1, <1>2, <1>5
  <2>3. Len(buf) \in Nat /\ n + 1 <= Len(buf) BY ONLY <1>2, <1>5
  <2>4. n + 1 \in 1..Len(buf) BY ONLY <2>1, <2>3, <1>2
  <2>5. QED BY <2>2, <2>3, <2>4, <1>8
<1>11. ASSUME NEW i \in DOMAIN buf, i < n + 1 PROVE buf[i] = m[i] /\ buf[i] # z
  <2>1. i \in 1..n /\ i \in 1..(n + 1) BY ONLY <1>2, <1>8, <1>10, <1>11
  <2>2. buf[i] = e[i] BY <2>1, <1>5
  <2>3. e[i] = m[i] BY <2>1, <1>2
  <2>4. QED BY <2>1, <2>2, <2>3, <1>9
<1>12. QED BY <1>2, <1>5, <1>6, <1>7, <1>8, <1>10, <1>11 DEF n

(* A part of it *)
LEMMA PartIs ==
    ASSUME NEW m \in Seq(Nat), NEW z \in Nat, \A i \in 1..Len(m) : m[i] # z,
           NEW k \in Nat, k < Len(m \o <<z>>), NEW q, q = SubSeq(m \o <<z>>, 1, k)
    PROVE  /\ Len(m) \in Nat /\ k <= Len(m) /\ q \in Seq(Nat) /\ Len(q) = k /\ DOMAIN q = 1..k
           /\ \A i \in DOMAIN q : q[i] = m[i] /\ q[i] # z
           /\ q = SubSeq(m, 1, k)
<1>1. /\ Len(m) \in Nat /\ <<z>> \in Seq(Nat) /\ Len(m \o <<z>>) = Len(m) + 1
      /\ k <= Len(m) /\ k \in 0..Len(m)
  OBVIOUS
<1>2. q = SubSeq(m, 1, k) BY <1>1, JoinCut
<1>3. q \in Seq(Nat) /\ Len(q) = k /\ \A i \in 1..k : q[i] = m[i] BY <1>1, <1>2, CutIs
<1>4. DOMAIN q = 1..k BY <1>3
<1>5. \A i \in 1..k : i \in 1..Len(m) BY ONLY <1>1
<1>6. QED BY <1>1, <1>2, <1>3, <1>4, <1>5

-----------------------------------------------------------------------------
(* ChatStream: split at a NUL *)

LEMMA ChatMessage ==
    ASSUME NEW m \in Chat!Message
    PROVE  /\ m \in Seq(Nat) /\ Len(m) \in Nat /\ Len(m) > 0 /\ \A i \in 1..Len(m) : m[i] # 0
           /\ Chat!Encode(m) = m \o <<0>>
<1>1. CASE m = <<1>> BY <1>1 DEF Chat!Encode, Chat!NUL
<1>2. CASE m = <<1, 2>> BY <1>2 DEF Chat!Encode, Chat!NUL
<1>3. CASE m = <<2, 1, 1>> BY <1>3 DEF Chat!Encode, Chat!NUL
<1>4. QED BY <1>1, <1>2, <1>3 DEF Chat!Message

LEMMA ChatReads ==
    ASSUME NEW m \in Chat!Message, NEW r \in Seq(Nat)
    PROVE  Chat!Extract(Chat!Encode(m) \o r) = Took(<<m>>, r)
<1> DEFINE buf == (m \o <<0>>) \o r
           n   == Len(m)
<1>1. /\ m \in Seq(Nat) /\ n \in Nat /\ n > 0 /\ Chat!Encode(m) = m \o <<0>>
      /\ \A i \in 1..n : m[i] # 0
  BY ChatMessage
<1>2. /\ Len(buf) \in Nat /\ n + 1 <= Len(buf)
      /\ DOMAIN buf = 1..Len(buf) /\ n + 1 \in DOMAIN buf /\ buf[n + 1] = 0
      /\ \A i \in DOMAIN buf : i < n + 1 => buf[i] # 0
      /\ SubSeq(buf, 1, n) = m /\ SubSeq(buf, n + 2, Len(buf)) = r
  BY <1>1, EndIs
<1>3. Chat!Encode(m) \o r = buf BY <1>1
<1> HIDE DEF buf, n
<1>4. Chat!FirstNul(buf, n + 1)
  <2>1. \A j \in 1..(n + 1 - 1) : j \in DOMAIN buf /\ j < n + 1 BY ONLY <1>1, <1>2
  <2>2. QED BY <2>1, <1>2 DEF Chat!FirstNul, Chat!NUL
<1>5. ASSUME NEW i \in DOMAIN buf, Chat!FirstNul(buf, i) PROVE i = n + 1
  <2>1. buf[i] = 0 /\ \A j \in 1..(i - 1) : buf[j] # 0 BY <1>5 DEF Chat!FirstNul, Chat!NUL
  <2>2. ~ (i < n + 1) BY <2>1, <1>2
  <2>3. ~ (n + 1 \in 1..(i - 1)) BY <2>1, <1>2
  <2>4. i \in Nat BY <1>2
  <2>5. QED BY ONLY <2>2, <2>3, <2>4, <1>1
<1>6. (CHOOSE i \in DOMAIN buf : Chat!FirstNul(buf, i)) = n + 1
  BY <1>2, <1>4, <1>5
<1>7. /\ \E i \in DOMAIN buf : buf[i] = 0
      /\ n + 1 > 1 /\ n + 1 - 1 = n /\ n + 1 + 1 = n + 2
  <2>1. n + 1 > 1 /\ n + 1 - 1 = n /\ n + 1 + 1 = n + 2 BY ONLY <1>1
  <2>2. QED BY <2>1, <1>2
<1>8. Chat!Extract(buf) = Took(<<m>>, r)
  <2> DEFINE end == CHOOSE i \in DOMAIN buf : Chat!FirstNul(buf, i)
  <2>1. Chat!Extract(buf) = [more |-> TRUE,
                             got |-> IF end > 1 THEN <<SubSeq(buf, 1, end - 1)>> ELSE <<>>,
                             rest |-> SubSeq(buf, end + 1, Len(buf))]
    BY <1>7 DEF Chat!Extract, Chat!NUL
  <2>2. end = n + 1 BY <1>6
  <2> HIDE DEF end
  <2>3. end > 1 /\ SubSeq(buf, 1, end - 1) = m /\ SubSeq(buf, end + 1, Len(buf)) = r
    <3>1. end > 1 BY ONLY <2>2, <1>7
    <3>2. end - 1 = n /\ end + 1 = n + 2 BY ONLY <2>2, <1>1
    <3>3. QED BY <3>1, <3>2, <1>2, Zenon
  <2>4. QED BY <2>1, <2>3 DEF Took
<1>9. QED BY <1>3, <1>8

LEMMA ChatWaits ==
    ASSUME NEW m \in Chat!Message, NEW k \in Nat, k < Len(Chat!Encode(m)),
           NEW q, q = SubSeq(Chat!Encode(m), 1, k)
    PROVE  Chat!Extract(q) = Kept(q)
<1>1. /\ m \in Seq(Nat) /\ \A i \in 1..Len(m) : m[i] # 0
      /\ k < Len(m \o <<0>>) /\ q = SubSeq(m \o <<0>>, 1, k)
  BY ChatMessage
<1>2. \A i \in DOMAIN q : q[i] # 0 BY <1>1, PartIs
<1>3. QED BY <1>2 DEF Chat!Extract, Chat!NUL, Kept

LEMMA ChatEmpty == Chat!Extract(<<>>) = Kept(<<>>)
<1>1. DOMAIN <<>> = {} OBVIOUS
<1>2. QED BY <1>1 DEF Chat!Extract, Kept

-----------------------------------------------------------------------------
(* ClusterStream: binary frames and JSON text *)

LEMMA Four ==
    ASSUME NEW a \in Nat, NEW b \in Nat, NEW c \in Nat, NEW d \in Nat
    PROVE  <<a, b>> \o <<c, d>> = <<a, b, c, d>>
<1> DEFINE s == <<a, b>> \o <<c, d>>
           t == <<a, b, c, d>>
<1>1. s \in Seq(Nat) /\ Len(s) = 4 /\ s[1] = a /\ s[2] = b /\ s[3] = c /\ s[4] = d
  OBVIOUS
<1>2. t \in Seq(Nat) /\ Len(t) = 4 /\ t[1] = a /\ t[2] = b /\ t[3] = c /\ t[4] = d
  OBVIOUS
<1> HIDE DEF s, t
<1>3. \A i \in 1..4 : i = 1 \/ i = 2 \/ i = 3 \/ i = 4 OBVIOUS
<1>4. \A i \in 1..Len(s) : s[i] = t[i] BY <1>1, <1>2, <1>3
<1>5. s = t BY <1>1, <1>2, <1>4, SeqEqual
<1>6. QED BY <1>5 DEF s, t

LEMMA FirstTwo ==
    ASSUME NEW s \in Seq(Nat), Len(s) >= 2
    PROVE  SubSeq(s, 1, 2) = <<s[1], s[2]>> /\ s # <<>>
<1> DEFINE c == SubSeq(s, 1, 2)
           t == <<s[1], s[2]>>
<1>1. 2 \in 0..Len(s) /\ s[1] \in Nat /\ s[2] \in Nat /\ s # <<>> OBVIOUS
<1>2. c \in Seq(Nat) /\ Len(c) = 2 /\ \A i \in 1..2 : c[i] = s[i] BY <1>1, CutIs
<1>3. t \in Seq(Nat) /\ Len(t) = 2 /\ t[1] = s[1] /\ t[2] = s[2] BY <1>1
<1> HIDE DEF c, t
<1>4. \A i \in 1..2 : i = 1 \/ i = 2 OBVIOUS
<1>5. \A i \in 1..Len(c) : c[i] = t[i] BY <1>2, <1>3, <1>4
<1>6. c = t BY <1>2, <1>3, <1>5, SeqEqual
<1>7. QED BY <1>1, <1>6 DEF c, t

LEMMA NotEmpty ==
    ASSUME NEW s, NEW i \in DOMAIN s
    PROVE  s # <<>>
<1>1. DOMAIN <<>> = {} OBVIOUS
<1>2. QED BY <1>1, Zenon

LEMMA FrameSizes == Cluster!MagicBytes = 2 /\ Cluster!HeaderBytes = 2 /\ Cluster!BodyPrefixBytes = 1
BY DEF Cluster!MagicBytes, Cluster!Magic, Cluster!HeaderBytes, Cluster!BodyPrefixBytes

LEMMA ClusterMessage ==
    ASSUME NEW m \in Cluster!Message
    PROVE  /\ m.payload \in Seq(Nat) /\ Len(m.payload) \in Nat /\ Len(m.payload) > 0
           /\ m.payload[1] = 9 /\ \A i \in 1..Len(m.payload) : m.payload[i] # 0
           /\ \/ /\ m = [kind |-> "oneChat", to |-> m.to, payload |-> m.payload]
                 /\ m.kind = "oneChat" /\ m.to \in Nat
                 /\ Cluster!Encode(m) = <<1, 2, Len(m.payload) + 1, m.to>> \o m.payload
              \/ /\ m = [kind |-> "json", payload |-> m.payload] /\ m.kind = "json"
                 /\ Cluster!Encode(m) = m.payload \o <<0>>
<1>1. m.payload \in {<<9>>, <<9, 1, 2>>}
  BY DEF Cluster!Message, Cluster!Payload, Cluster!Brace, Cluster!BigO, Cluster!BigN
<1>2. /\ m.payload \in Seq(Nat) /\ Len(m.payload) \in Nat /\ Len(m.payload) > 0
      /\ m.payload[1] = 9 /\ \A i \in 1..Len(m.payload) : m.payload[i] # 0
  <2>1. CASE m.payload = <<9>> BY <2>1
  <2>2. CASE m.payload = <<9, 1, 2>> BY <2>2
  <2>3. QED BY <1>1, <2>1, <2>2
<1>3. CASE m \in [kind: {"oneChat"}, to: Cluster!User, payload: Cluster!Payload]
  <2>1. /\ m = [kind |-> "oneChat", to |-> m.to, payload |-> m.payload]
        /\ m.kind = "oneChat" /\ m.to \in Nat
    BY <1>3 DEF Cluster!User, Cluster!NUL, Cluster!BigO
  <2>2. <<1, 2>> \o <<1 + Len(m.payload), m.to>> = <<1, 2, Len(m.payload) + 1, m.to>>
    <3>1. 1 + Len(m.payload) = Len(m.payload) + 1 /\ Len(m.payload) + 1 \in Nat BY <1>2
    <3>2. QED BY <3>1, <2>1, Four
  <2>3. Cluster!Encode(m) = (<<1, 2>> \o <<1 + Len(m.payload), m.to>>) \o m.payload
    BY <2>1 DEF Cluster!Encode, Cluster!Magic, Cluster!BigO, Cluster!BigN, Cluster!BodyPrefixBytes
  <2>4. QED BY <1>2, <2>1, <2>2, <2>3
<1>4. CASE m \in [kind: {"json"}, payload: Cluster!Payload]
  <2>1. m = [kind |-> "json", payload |-> m.payload] /\ m.kind = "json" BY <1>4
  <2>2. Cluster!Encode(m) = m.payload \o <<0>>
    BY <2>1 DEF Cluster!Encode, Cluster!NUL
  <2>3. QED BY <1>2, <2>1, <2>2
<1>5. QED BY <1>3, <1>4 DEF Cluster!Message

(* Every buffer that begins with a whole frame or a part of one *)
LEMMA FrameIs ==
    ASSUME NEW p \in Seq(Nat), NEW to \in Nat, NEW e, e = <<1, 2, Len(p) + 1, to>> \o p
    PROVE  /\ Len(p) \in Nat /\ e \in Seq(Nat) /\ Len(e) = Len(p) + 4
           /\ e[1] = 1 /\ e[2] = 2 /\ e[3] = Len(p) + 1 /\ e[4] = to
<1> DEFINE h == <<1, 2, Len(p) + 1, to>>
<1>1. Len(p) \in Nat OBVIOUS
<1>2. h \in Seq(Nat) /\ Len(h) = 4 /\ h[1] = 1 /\ h[2] = 2 /\ h[3] = Len(p) + 1 /\ h[4] = to
  BY <1>1
<1> HIDE DEF h
<1>3. /\ h \o p \in Seq(Nat) /\ Len(h \o p) = Len(h) + Len(p)
      /\ \A i \in 1..Len(h) : (h \o p)[i] = h[i]
  BY <1>2, JoinIs
<1>4. Len(h) + Len(p) = Len(p) + 4 BY ONLY <1>1, <1>2
<1>5. 1 \in 1..Len(h) /\ 2 \in 1..Len(h) /\ 3 \in 1..Len(h) /\ 4 \in 1..Len(h)
  BY ONLY <1>2
<1>6. e = h \o p BY DEF h
<1>7. QED BY ONLY <1>1, <1>2, <1>3, <1>4, <1>5, <1>6

LEMMA FrameReads ==
    ASSUME NEW p \in Seq(Nat), NEW to \in Nat, NEW r \in Seq(Nat),
           NEW buf, buf = (<<1, 2, Len(p) + 1, to>> \o p) \o r
    PROVE  Cluster!Extract(buf) = Took(<<[kind |-> "oneChat", to |-> to, payload |-> p]>>, r)
<1> DEFINE h == <<1, 2, Len(p) + 1, to>>
           e == h \o p
           L == Len(p)
<1>1. /\ L \in Nat /\ e \in Seq(Nat) /\ Len(e) = L + 4
      /\ e[1] = 1 /\ e[2] = 2 /\ e[3] = L + 1 /\ e[4] = to
  BY FrameIs
<1>2. h \in Seq(Nat) /\ Len(h) = 4
  OBVIOUS
<1> HIDE DEF h
<1>3. p \o r \in Seq(Nat) /\ Len(p \o r) = L + Len(r) /\ Len(r) \in Nat BY JoinIs
<1>4. buf = e \o r /\ buf = h \o (p \o r)
  <2>1. buf = (h \o p) \o r BY DEF h
  <2>2. (h \o p) \o r = h \o (p \o r) BY <1>2, JoinAgain
  <2>3. QED BY <2>1, <2>2
<1>5. SubSeq(buf, 5, L + 4) = p
  <2>1. CASE L = 0
    <3>1. L + 4 < 5 /\ L + 4 \in Int /\ 5 \in Int BY <2>1, <1>1
    <3>2. SubSeq(buf, 5, L + 4) = <<>> BY <3>1, SubSeqEmpty
    <3>3. p = <<>> BY <2>1
    <3>4. QED BY <3>2, <3>3
  <2>2. CASE L # 0
    <3>1. L \in 1..Len(p \o r) /\ Len(h) + 1 = 5 /\ Len(h) + L = L + 4 /\ L \in 0..L
      BY ONLY <2>2, <1>1, <1>2, <1>3
    <3>2. SubSeq(h \o (p \o r), 5, L + 4) = SubSeq(p \o r, 1, L)
      BY <3>1, <1>2, <1>3, JoinMid
    <3>3. SubSeq(p \o r, 1, L) = p BY <3>1, JoinCut
    <3>4. QED BY ONLY <3>1, <3>2, <3>3, <1>4
  <2>3. QED BY <2>1, <2>2
<1> HIDE DEF e
<1>6. /\ buf \in Seq(Nat) /\ Len(buf) = L + 4 + Len(r)
      /\ \A i \in 1..(L + 4) : buf[i] = e[i]
      /\ SubSeq(buf, L + 5, Len(buf)) = r
  <2>1. /\ buf \in Seq(Nat) /\ Len(buf) = Len(e) + Len(r)
        /\ \A i \in 1..Len(e) : buf[i] = e[i]
    <3>1. /\ e \o r \in Seq(Nat) /\ Len(e \o r) = Len(e) + Len(r)
          /\ \A i \in 1..Len(e) : (e \o r)[i] = e[i]
      BY <1>1, JoinIs
    <3>2. QED BY <3>1, <1>4, Zenon
  <2>0. SubSeq(buf, Len(e) + 1, Len(buf)) = r
    BY <1>1, <1>4, JoinCut
  <2>2. Len(e) = L + 4 /\ Len(e) + 1 = L + 5 BY ONLY <1>1
  <2>3. QED BY ONLY <2>0, <2>1, <2>2
<1>7. buf[1] = 1 /\ buf[2] = 2 /\ buf[3] = L + 1 /\ buf[4] = to
  <2>1. 1 \in 1..(L + 4) /\ 2 \in 1..(L + 4) /\ 3 \in 1..(L + 4) /\ 4 \in 1..(L + 4)
    BY ONLY <1>1
  <2>2. QED BY ONLY <2>1, <1>1, <1>6
<1> HIDE DEF L
<1>8. Len(buf) >= L + 4 /\ Len(buf) >= 4 /\ Len(buf) >= 2 BY ONLY <1>1, <1>3, <1>6
<1>9. SubSeq(buf, 1, 2) = <<1, 2>> /\ buf # <<>> BY <1>6, <1>7, <1>8, FirstTwo
<1>10. Cluster!Extract(buf) = Cluster!OneChatFrame(buf)
  BY <1>6, <1>7, <1>8, <1>9 DEF Cluster!Extract, Cluster!BigO, Cluster!BigN, Cluster!Magic, Cluster!MagicBytes
<1>11. 2 + 2 + (L + 1) - 1 = L + 4 /\ L + 4 + 1 = L + 5 /\ ~ (L + 1 < 1) BY ONLY <1>1
<1>12. ~ (Len(buf) < 4) /\ ~ (Len(buf) < L + 4) BY ONLY <1>1, <1>3, <1>6, SMTT(40)
<1>13. Cluster!OneChatFrame(buf)
       = Cluster!Deliver([kind |-> "oneChat", to |-> buf[4], payload |-> SubSeq(buf, 5, L + 4)], buf, L + 4)
  <2>1. 2 + 1 = 3 /\ 2 + 2 = 4 /\ 2 + 2 + 1 = 5 OBVIOUS
  <2>2. QED BY <2>1, <1>7, <1>11, <1>12, FrameSizes DEF Cluster!OneChatFrame
<1>14. QED BY <1>5, <1>6, <1>7, <1>10, <1>11, <1>13 DEF Cluster!Deliver, Took

LEMMA FrameWaits ==
    ASSUME NEW p \in Seq(Nat), NEW to \in Nat, NEW k \in Nat,
           k < Len(<<1, 2, Len(p) + 1, to>> \o p),
           NEW q, q = SubSeq(<<1, 2, Len(p) + 1, to>> \o p, 1, k)
    PROVE  Cluster!Extract(q) = Kept(q)
<1> DEFINE e == <<1, 2, Len(p) + 1, to>> \o p
           L == Len(p)
<1>1. /\ L \in Nat /\ e \in Seq(Nat) /\ Len(e) = L + 4
      /\ e[1] = 1 /\ e[2] = 2 /\ e[3] = L + 1
  BY FrameIs
<1> HIDE DEF e
<1>2. k < L + 4 /\ k \in 0..Len(e) /\ q = SubSeq(e, 1, k) BY <1>1 DEF e
<1>3. q \in Seq(Nat) /\ Len(q) = k /\ \A i \in 1..k : q[i] = e[i] BY <1>1, <1>2, CutIs
<1>4. CASE k = 0
  <2>1. q = <<>> BY <1>3, <1>4
  <2>2. QED BY <2>1 DEF Cluster!Extract, Cluster!Wait, Kept
<1>5. CASE k = 1
  <2>1. q[1] = 1 /\ q # <<>> /\ Len(q) < 2 BY <1>1, <1>3, <1>5
  <2>2. QED
    BY <2>1 DEF Cluster!Extract, Cluster!BigO, Cluster!Magic, Cluster!MagicBytes, Cluster!Wait, Kept
<1>6. CASE k > 1
  <2>1. 1 \in 1..k /\ 2 \in 1..k /\ ~ (k < 2) BY ONLY <1>6, k \in Nat
  <2>2. q[1] = 1 /\ q[2] = 2 BY <2>1, <1>1, <1>3
  <2>3. SubSeq(q, 1, 2) = <<1, 2>> /\ q # <<>>
    <3>1. q \in Seq(Nat) /\ Len(q) >= 2 BY ONLY <1>3, <2>1, <1>6, k \in Nat
    <3>2. QED BY <3>1, <2>2, FirstTwo
  <2>4. Cluster!Extract(q) = Cluster!OneChatFrame(q)
    BY <1>3, <2>1, <2>2, <2>3 DEF Cluster!Extract, Cluster!BigO, Cluster!BigN, Cluster!Magic, Cluster!MagicBytes
  <2>5. CASE k < 4
    BY <2>4, <2>5, <1>3 DEF Cluster!OneChatFrame, Cluster!MagicBytes, Cluster!Magic, Cluster!HeaderBytes, Cluster!Wait, Kept
  <2>6. CASE ~ (k < 4)
    <3>1. 3 \in 1..k BY ONLY <2>6, k \in Nat
    <3>2. q[3] = L + 1 BY <3>1, <1>1, <1>3
    <3>3. 2 + 2 + (L + 1) - 1 = L + 4 /\ ~ (L + 1 < 1) BY ONLY <1>1
    <3>4. QED
      BY <2>4, <2>6, <3>2, <3>3, <1>2, <1>3
      DEF Cluster!OneChatFrame, Cluster!MagicBytes, Cluster!Magic, Cluster!HeaderBytes, Cluster!BodyPrefixBytes,
          Cluster!Wait, Kept
  <2>7. QED BY <2>5, <2>6
<1>7. QED BY <1>4, <1>5, <1>6

LEMMA JsonReads ==
    ASSUME NEW p \in Seq(Nat), Len(p) > 0, p[1] # 1, \A i \in 1..Len(p) : p[i] # 0,
           NEW r \in Seq(Nat), NEW buf, buf = (p \o << 0 >>) \o r
    PROVE  Cluster!Extract(buf) = Took(<<[kind |-> "json", payload |-> p]>>, r)
<1> DEFINE n    == Len(p)
           ends == {i \in DOMAIN buf : buf[i] = 0}
           end  == CHOOSE i \in ends : \A j \in ends : i <= j
<1>1. /\ n \in Nat /\ Len(buf) \in Nat /\ n + 1 <= Len(buf)
      /\ DOMAIN buf = 1..Len(buf) /\ n + 1 \in DOMAIN buf /\ buf[n + 1] = 0
      /\ \A i \in DOMAIN buf : i < n + 1 => buf[i] = p[i] /\ buf[i] # 0
      /\ SubSeq(buf, 1, n) = p /\ SubSeq(buf, n + 2, Len(buf)) = r
  BY EndIs
<1>2. n > 0 OBVIOUS
<1> HIDE DEF n
<1>3. 1 \in DOMAIN buf /\ 1 < n + 1 BY ONLY <1>1, <1>2
<1>4. buf[1] # 1 /\ buf # <<>> BY <1>1, <1>3
<1>5. n + 1 \in ends BY <1>1
<1>6. \A j \in ends : n + 1 <= j
  <2>1. ASSUME NEW j \in ends PROVE n + 1 <= j
    <3>1. j \in 1..Len(buf) /\ ~ (j < n + 1) BY <1>1
    <3>2. QED BY ONLY <3>1, <1>1
  <2>2. QED BY <2>1
<1>7. end = n + 1
  <2>1. \A i \in ends : (\A j \in ends : i <= j) => i = n + 1
    <3>1. ASSUME NEW i \in ends, \A j \in ends : i <= j PROVE i = n + 1
      <4>1. i <= n + 1 /\ n + 1 <= i BY <3>1, <1>5, <1>6
      <4>2. i \in 1..Len(buf) BY <1>1
      <4>3. QED BY ONLY <4>1, <4>2, <1>1
    <3>2. QED BY <3>1
  <2> HIDE DEF ends
  <2>2. QED BY <1>5, <1>6, <2>1
<1> HIDE DEF end
<1>8. Cluster!Extract(buf) = Cluster!JsonText(buf) BY <1>4 DEF Cluster!Extract, Cluster!BigO
<1>9. ends # {} BY <1>5
<1>10. end # 1 /\ end - 1 = n /\ end + 1 = n + 2 BY ONLY <1>1, <1>2, <1>7
<1>11. Cluster!JsonText(buf)
       = IF ends = {} THEN Cluster!Wait(buf)
         ELSE IF end = 1 THEN Cluster!Skip(buf, 1)
         ELSE Cluster!Deliver([kind |-> "json", payload |-> SubSeq(buf, 1, end - 1)], buf, end)
  BY DEF Cluster!JsonText, Cluster!NUL, end
<1> HIDE DEF ends
<1>12. Cluster!JsonText(buf)
       = Cluster!Deliver([kind |-> "json", payload |-> SubSeq(buf, 1, end - 1)], buf, end)
  BY <1>9, <1>10, <1>11
<1>13. SubSeq(buf, 1, end - 1) = p /\ SubSeq(buf, end + 1, Len(buf)) = r BY <1>1, <1>10
<1>14. QED BY <1>8, <1>12, <1>13 DEF Cluster!Deliver, Took

LEMMA JsonWaits ==
    ASSUME NEW p \in Seq(Nat), Len(p) > 0, p[1] # 1, \A i \in 1..Len(p) : p[i] # 0,
           NEW k \in Nat, k < Len(p \o << 0 >>), NEW q, q = SubSeq(p \o << 0 >>, 1, k)
    PROVE  Cluster!Extract(q) = Kept(q)
<1>1. /\ q \in Seq(Nat) /\ Len(q) = k /\ DOMAIN q = 1..k
      /\ \A i \in DOMAIN q : q[i] = p[i] /\ q[i] # 0
  BY PartIs
<1>2. CASE k = 0
  <2>1. q = <<>> BY <1>1, <1>2
  <2>2. QED BY <2>1 DEF Cluster!Extract, Cluster!Wait, Kept
<1>3. CASE k # 0
  <2>1. 1 \in DOMAIN q BY <1>1, <1>3
  <2>2. q[1] # 1 /\ q # <<>> BY <2>1, <1>1, NotEmpty
  <2>3. {i \in DOMAIN q : q[i] = 0} = {} BY <1>1
  <2>4. QED
    BY <2>2, <2>3 DEF Cluster!Extract, Cluster!BigO, Cluster!JsonText, Cluster!NUL, Cluster!Wait, Kept
<1>4. QED BY <1>2, <1>3

LEMMA ClusterReads ==
    ASSUME NEW m \in Cluster!Message, NEW r \in Seq(Nat)
    PROVE  Cluster!Extract(Cluster!Encode(m) \o r) = Took(<<m>>, r)
<1>1. CASE m.kind = "oneChat"
  <2>1. /\ m = [kind |-> "oneChat", to |-> m.to, payload |-> m.payload]
        /\ m.payload \in Seq(Nat) /\ m.to \in Nat
        /\ Cluster!Encode(m) = <<1, 2, Len(m.payload) + 1, m.to>> \o m.payload
    BY <1>1, ClusterMessage
  <2>2. Cluster!Extract(Cluster!Encode(m) \o r)
        = Took(<<[kind |-> "oneChat", to |-> m.to, payload |-> m.payload]>>, r)
    BY <2>1, FrameReads
  <2>3. QED BY <2>1, <2>2
<1>2. CASE m.kind # "oneChat"
  <2>0. 9 # 1 OBVIOUS
  <2>1. /\ m = [kind |-> "json", payload |-> m.payload]
        /\ m.payload \in Seq(Nat) /\ Len(m.payload) > 0
        /\ m.payload[1] # 1 /\ \A i \in 1..Len(m.payload) : m.payload[i] # 0
        /\ Cluster!Encode(m) = m.payload \o <<0>>
    BY <2>0, <1>2, ClusterMessage, Zenon
  <2>2. Cluster!Extract(Cluster!Encode(m) \o r) = Took(<<[kind |-> "json", payload |-> m.payload]>>, r)
    BY <2>1, JsonReads
  <2>3. QED BY <2>1, <2>2
<1>3. QED BY <1>1, <1>2

LEMMA ClusterWaits ==
    ASSUME NEW m \in Cluster!Message, NEW k \in Nat, k < Len(Cluster!Encode(m)),
           NEW q, q = SubSeq(Cluster!Encode(m), 1, k)
    PROVE  Cluster!Extract(q) = Kept(q)
<1>1. CASE m.kind = "oneChat"
  <2>1. /\ m.payload \in Seq(Nat) /\ m.to \in Nat
        /\ Cluster!Encode(m) = <<1, 2, Len(m.payload) + 1, m.to>> \o m.payload
    BY <1>1, ClusterMessage
  <2>2. QED BY <2>1, FrameWaits
<1>2. CASE m.kind # "oneChat"
  <2>0. 9 # 1 OBVIOUS
  <2>1. /\ m.payload \in Seq(Nat) /\ Len(m.payload) > 0
        /\ m.payload[1] # 1 /\ \A i \in 1..Len(m.payload) : m.payload[i] # 0
        /\ Cluster!Encode(m) = m.payload \o <<0>>
    BY <2>0, <1>2, ClusterMessage, Zenon
  <2>2. QED BY <2>1, JsonWaits
<1>3. QED BY <1>1, <1>2

LEMMA ClusterBytes ==
    ASSUME NEW m \in Cluster!Message
    PROVE  LET e == Cluster!Encode(m) IN e \in Seq(Nat) /\ Len(e) \in Nat /\ Len(e) > 0
<1> DEFINE e == Cluster!Encode(m)
           p == m.payload
<1>1. /\ p \in Seq(Nat) /\ Len(p) \in Nat /\ Len(p) > 0
      /\ (m.to \in Nat /\ e = <<1, 2, Len(p) + 1, m.to>> \o p) \/ e = p \o <<0>>
  BY ClusterMessage
<1>2. CASE m.to \in Nat /\ e = <<1, 2, Len(p) + 1, m.to>> \o p
  <2>1. e \in Seq(Nat) /\ Len(e) = Len(p) + 4 BY <1>1, <1>2, FrameIs
  <2>2. QED BY <1>1, <2>1
<1>3. CASE e = p \o <<0>>
  <2>1. <<0>> \in Seq(Nat) /\ Len(<<0>>) = 1 OBVIOUS
  <2>2. e \in Seq(Nat) /\ Len(e) = Len(p) + 1 BY <1>1, <1>3, <2>1, JoinIs
  <2>3. QED BY <1>1, <2>2
<1>4. QED BY <1>1, <1>2, <1>3

LEMMA ClusterEmpty == Cluster!Extract(<<>>) = Kept(<<>>)
BY DEF Cluster!Extract, Cluster!Wait, Kept

-----------------------------------------------------------------------------
(* EnvStream: lines, and the setting of a line *)

LEMMA MinIs ==
    ASSUME NEW S \in SUBSET Nat, NEW n \in S, \A k \in S : n <= k
    PROVE  Env!Min(S) = n
<1>1. \A i \in S : (\A k \in S : i <= k) => i = n
  <2>1. ASSUME NEW i \in S, \A k \in S : i <= k PROVE i = n
    <3>1. i <= n /\ n <= i /\ i \in Nat /\ n \in Nat BY <2>1
    <3>2. QED BY ONLY <3>1
  <2>2. QED BY <2>1
<1>2. QED BY <1>1 DEF Env!Min

LEMMA MaxIs ==
    ASSUME NEW S \in SUBSET Nat, NEW n \in S, \A k \in S : k <= n
    PROVE  Env!Max(S) = n
<1>1. \A i \in S : (\A k \in S : i >= k) => i = n
  <2>1. ASSUME NEW i \in S, \A k \in S : i >= k PROVE i = n
    <3>1. i >= n /\ i <= n /\ i \in Nat /\ n \in Nat BY <2>1
    <3>2. QED BY ONLY <3>1
  <2>2. QED BY <2>1
<1>2. \A k \in S : n >= k
  <2>1. ASSUME NEW k \in S PROVE n >= k
    <3>1. k <= n /\ k \in Nat /\ n \in Nat OBVIOUS
    <3>2. QED BY ONLY <3>1
  <2>2. QED BY <2>1
<1>3. QED BY <1>1, <1>2 DEF Env!Max

LEMMA LineReads ==
    ASSUME NEW t \in Seq(Nat), \A i \in 1..Len(t) : t[i] # 7, NEW r \in Seq(Nat),
           NEW buf, buf = (t \o << 7 >>) \o r
    PROVE  Env!Extract(buf) = Took(Env!Setting(t), r)
<1> DEFINE n   == Len(t)
           I   == {i \in 1..Len(buf) : buf[i] = 7}
           end == IF I # {} THEN Env!Min(I) ELSE 0
<1>1. /\ n \in Nat /\ buf \in Seq(Nat) /\ Len(buf) \in Nat /\ n + 1 <= Len(buf)
      /\ DOMAIN buf = 1..Len(buf) /\ n + 1 \in DOMAIN buf /\ buf[n + 1] = 7
      /\ \A i \in DOMAIN buf : i < n + 1 => buf[i] = t[i] /\ buf[i] # 7
      /\ SubSeq(buf, 1, n) = t /\ SubSeq(buf, n + 2, Len(buf)) = r
  BY EndIs
<1> HIDE DEF n
<1>2. I # {} /\ Env!Min(I) = n + 1
  <2>1. I \in SUBSET Nat /\ n + 1 \in I BY <1>1
  <2>2. ASSUME NEW k \in I PROVE n + 1 <= k
    <3>1. k \in 1..Len(buf) /\ ~ (k < n + 1) BY <1>1
    <3>2. QED BY ONLY <3>1, <1>1
  <2> HIDE DEF I
  <2>3. QED BY <2>1, <2>2, MinIs
<1>3. end = n + 1 BY <1>2
<1>4. Env!Extract(buf) = IF end = 0 THEN [more |-> FALSE, got |-> <<>>, rest |-> buf]
                         ELSE [more |-> TRUE, got |-> Env!Setting(SubSeq(buf, 1, end - 1)),
                               rest |-> SubSeq(buf, end + 1, Len(buf))]
  BY DEF Env!Extract, Env!SelectInSeq, Env!Line, Env!From
<1> HIDE DEF end
<1>5. end # 0 /\ end - 1 = n /\ end + 1 = n + 2 BY ONLY <1>1, <1>3
<1>6. QED BY <1>1, <1>4, <1>5 DEF Took

LEMMA LineWaits ==
    ASSUME NEW t \in Seq(Nat), \A i \in 1..Len(t) : t[i] # 7,
           NEW k \in Nat, k < Len(t \o << 7 >>), NEW q, q = SubSeq(t \o << 7 >>, 1, k)
    PROVE  Env!Extract(q) = Kept(q)
<1>1. Len(q) = k /\ DOMAIN q = 1..k /\ \A i \in DOMAIN q : q[i] # 7 BY PartIs
<1>2. {i \in 1..Len(q) : q[i] = 7} = {} BY <1>1
<1>3. QED BY <1>2 DEF Env!Extract, Env!SelectInSeq, Env!Line, Kept

LEMMA EnvEmpty == Env!Extract(<<>>) = Kept(<<>>)
<1>1. {i \in 1..Len(<<>>) : <<>>[i] = 7} = {} OBVIOUS
<1>2. QED BY <1>1 DEF Env!Extract, Env!SelectInSeq, Env!Line, Kept

(* Text with blanks around it *)
Bare(s)   == s = <<>> \/ (s[1] # 0 /\ s[Len(s)] # 0)
Blanks(s) == s \in Seq(Nat) /\ \A i \in 1..Len(s) : s[i] = 0

LEMMA TrimIs ==
    ASSUME NEW x, Blanks(x), NEW y \in Seq(Nat), Bare(y), NEW z, Blanks(z),
           NEW s, s = x \o (y \o z)
    PROVE  Env!Trim(s) = y
<1> DEFINE kept == {i \in DOMAIN s : s[i] # 0}
           a == Len(x)
           b == Len(y)
           c == Len(z)
<1>1. /\ x \in Seq(Nat) /\ \A i \in 1..a : x[i] = 0
      /\ z \in Seq(Nat) /\ \A i \in 1..c : z[i] = 0
  BY DEF Blanks
<1>2. /\ a \in Nat /\ b \in Nat /\ c \in Nat
      /\ y \o z \in Seq(Nat) /\ Len(y \o z) = b + c
      /\ \A i \in 1..b : (y \o z)[i] = y[i]
      /\ \A i \in 1..c : (y \o z)[b + i] = z[i]
  BY <1>1, JoinIs
<1> HIDE DEF a, b, c
<1>3. /\ s \in Seq(Nat) /\ Len(s) = a + (b + c)
      /\ \A i \in 1..a : s[i] = x[i]
      /\ \A i \in 1..(b + c) : s[a + i] = (y \o z)[i]
  <2>1. /\ x \o (y \o z) \in Seq(Nat) /\ Len(x \o (y \o z)) = Len(x) + Len(y \o z)
        /\ \A i \in 1..Len(x) : (x \o (y \o z))[i] = x[i]
        /\ \A i \in 1..Len(y \o z) : (x \o (y \o z))[Len(x) + i] = (y \o z)[i]
    BY <1>1, <1>2, JoinIs
  <2>2. QED BY <2>1, <1>2, Zenon DEF a
<1>4. DOMAIN s = 1..(a + (b + c)) BY <1>3
<1>5. \A i \in 1..b : a + i \in DOMAIN s /\ s[a + i] = y[i]
  <2>1. ASSUME NEW i \in 1..b PROVE a + i \in DOMAIN s /\ s[a + i] = y[i]
    <3>1. i \in 1..(b + c) /\ a + i \in 1..(a + (b + c)) BY ONLY <1>2, i \in 1..b
    <3>2. QED BY <3>1, <1>2, <1>3, <1>4
  <2>2. QED BY <2>1
<1>6. \A i \in DOMAIN s : i <= a \/ i > a + b => s[i] = 0
  <2>1. ASSUME NEW i \in DOMAIN s, i <= a PROVE s[i] = 0
    <3>1. i \in 1..a BY ONLY <1>2, <1>4, <2>1
    <3>2. QED BY <3>1, <1>1, <1>3 DEF a
  <2>2. ASSUME NEW i \in DOMAIN s, i > a + b PROVE s[i] = 0
    <3>1. i - a \in 1..(b + c) /\ i - a - b \in 1..c /\ a + (i - a) = i /\ b + (i - a - b) = i - a
      BY ONLY <1>2, <1>4, <2>2
    <3>2. s[i] = (y \o z)[i - a] BY <3>1, <1>3
    <3>3. (y \o z)[i - a] = z[i - a - b] BY <3>1, <1>2
    <3>4. z[i - a - b] = 0 BY <3>1, <1>1 DEF c
    <3>5. QED BY <3>2, <3>3, <3>4
  <2>3. QED BY <2>1, <2>2
<1>7. Env!Trim(s) = IF kept = {} THEN <<>> ELSE SubSeq(s, Env!Min(kept), Env!Max(kept))
  BY DEF Env!Trim, Env!Blank
<1>8. CASE y = <<>>
  <2>1. b = 0 BY <1>8 DEF b
  <2>2. \A i \in DOMAIN s : s[i] = 0
    <3>1. \A i \in DOMAIN s : i <= a \/ i > a + b BY ONLY <2>1, <1>2, <1>4
    <3>2. QED BY <3>1, <1>6
  <2>3. kept = {} BY <2>2
  <2>4. QED BY <2>3, <1>7, <1>8
<1>9. CASE y # <<>>
  <2>1. b > 0 /\ y[1] # 0 /\ y[b] # 0
    <3>1. Len(y) > 0 BY <1>9, EmptySeq
    <3>2. QED BY <3>1, <1>9 DEF b, Bare
  <2>2. 1 \in 1..b /\ b \in 1..b BY ONLY <2>1, <1>2
  <2>3. a + 1 \in kept /\ a + b \in kept BY <2>1, <2>2, <1>5
  <2>4. kept \in SUBSET Nat BY <1>2, <1>4
  <2>5. ASSUME NEW k \in kept PROVE a + 1 <= k /\ k <= a + b
    <3>1. k \in 1..(a + (b + c)) /\ ~ (k <= a) /\ ~ (k > a + b) BY <1>4, <1>6
    <3>2. QED BY ONLY <3>1, <1>2
  <2> HIDE DEF kept
  <2>6. Env!Min(kept) = a + 1 BY <2>3, <2>4, <2>5, MinIs
  <2>7. Env!Max(kept) = a + b BY <2>3, <2>4, <2>5, MaxIs
  <2>8. kept # {} BY <2>3
  <2>9. SubSeq(s, a + 1, a + b) = y
    <3>1. b \in 1..Len(y \o z) /\ b \in 0..b BY ONLY <2>1, <1>2
    <3>2. SubSeq(x \o (y \o z), Len(x) + 1, Len(x) + b) = SubSeq(y \o z, 1, b)
      BY <3>1, <1>1, <1>2, JoinMid
    <3>3. SubSeq(y \o z, 1, b) = y
      <4>1. b = Len(y) BY DEF b
      <4>2. QED BY <4>1, <3>1, <1>1, JoinCut
    <3>4. QED BY <3>2, <3>3 DEF a
  <2>10. QED BY <2>6, <2>7, <2>8, <2>9, <1>7
<1>10. QED BY <1>8, <1>9

LEMMA TrimFront ==
    ASSUME NEW s \in Seq(Nat), Bare(s), NEW x, Blanks(x), NEW w, w = x \o s
    PROVE  Env!Trim(w) = s
<1>1. Blanks(<<>>) BY DEF Blanks
<1>2. w = x \o (s \o <<>>) BY JoinAgain
<1>3. QED BY <1>1, <1>2, TrimIs

LEMMA TrimBare == ASSUME NEW s \in Seq(Nat), Bare(s) PROVE Env!Trim(s) = s
<1>1. Blanks(<<>>) BY DEF Blanks
<1>2. s = <<>> \o (s \o <<>>) BY JoinAgain
<1>3. QED BY <1>1, <1>2, TrimIs

(* A setting as it is written, said, and what may stand before it *)
Said(v) == IF Env!NeedsQuotes(v) THEN <<5>> \o v \o <<5>> ELSE v

LEMMA UnquoteQuoted ==
    ASSUME NEW v \in Seq(Nat), NEW s, s = (<< 5 >> \o v) \o << 5 >>
    PROVE  /\ s \in Seq(Nat) /\ s # <<>> /\ Len(s) = Len(v) + 2 /\ s[1] = 5 /\ s[Len(s)] = 5
           /\ \A i \in 1..Len(v) : s[i + 1] = v[i]
           /\ Env!Unquote(s) = v
<1> DEFINE n == Len(v)
           w == v \o <<5>>
           f == <<5>>
<1>1. f \in Seq(Nat) /\ Len(f) = 1 /\ f[1] = 5 OBVIOUS
<1> HIDE DEF f
<1>2. /\ n \in Nat /\ w \in Seq(Nat) /\ Len(w) = n + 1 /\ w[n + 1] = 5
      /\ \A i \in 1..n : w[i] = v[i]
  <2>1. /\ n \in Nat /\ v \o f \in Seq(Nat) /\ Len(v \o f) = n + Len(f)
        /\ \A i \in 1..n : (v \o f)[i] = v[i]
        /\ \A i \in 1..Len(f) : (v \o f)[n + i] = f[i]
    BY <1>1, JoinIs
  <2>2. w = v \o f /\ 1 \in 1..Len(f) BY <1>1 DEF f
  <2>3. QED BY ONLY <2>1, <2>2, <1>1
<1>3. s = f \o w
  <2>1. (f \o v) \o f = f \o (v \o f) BY <1>1, JoinAgain
  <2>2. QED BY <2>1 DEF f
<1>4. SubSeq(w, 1, n) = v
  <2>1. n \in 0..n BY <1>2
  <2>2. SubSeq(v \o f, 1, n) = v BY <2>1, <1>1, JoinCut
  <2>3. QED BY <2>2 DEF f
<1> HIDE DEF w, n
<1>5. /\ s \in Seq(Nat) /\ Len(s) = n + 2 /\ s[1] = 5
      /\ \A i \in 1..(n + 1) : s[i + 1] = w[i]
  <2>1. /\ f \o w \in Seq(Nat) /\ Len(f \o w) = Len(f) + Len(w)
        /\ \A i \in 1..Len(f) : (f \o w)[i] = f[i]
        /\ \A i \in 1..Len(w) : (f \o w)[Len(f) + i] = w[i]
    BY <1>1, <1>2, JoinIs
  <2>2. 1 \in 1..Len(f) /\ Len(f) + Len(w) = n + 2 BY ONLY <1>1, <1>2
  <2>3. \A i \in 1..(n + 1) : Len(f) + i = i + 1 BY ONLY <1>1, <1>2
  <2>4. (f \o w)[1] = 5 BY ONLY <2>1, <2>2, <1>1
  <2>5. \A i \in 1..(n + 1) : (f \o w)[i + 1] = w[i] BY ONLY <2>1, <2>3, <1>2
  <2>6. QED BY <1>3, <2>1, <2>2, <2>4, <2>5, Zenon
<1>6. s[n + 2] = 5
  <2>1. n + 1 \in 1..(n + 1) /\ (n + 1) + 1 = n + 2 BY ONLY <1>2
  <2>2. QED BY ONLY <2>1, <1>2, <1>5
<1>7. SubSeq(s, 2, n + 1) = v
  <2>1. CASE n = 0
    <3>1. n + 1 < 2 /\ 2 \in Int /\ n + 1 \in Int BY ONLY <2>1, <1>2
    <3>2. SubSeq(s, 2, n + 1) = <<>> BY <3>1, SubSeqEmpty
    <3>3. v = <<>> BY <2>1 DEF n
    <3>4. QED BY <3>2, <3>3
  <2>2. CASE n # 0
    <3>1. n \in 1..Len(w) /\ Len(f) + 1 = 2 /\ Len(f) + n = n + 1 BY ONLY <2>2, <1>1, <1>2
    <3>2. SubSeq(f \o w, Len(f) + 1, Len(f) + n) = SubSeq(w, 1, n) BY <3>1, <1>1, <1>2, JoinMid
    <3>3. QED BY ONLY <3>1, <3>2, <1>3, <1>4
  <2>3. QED BY <2>1, <2>2
<1>8. Len(s) >= 2 /\ Len(s) - 1 = n + 1 /\ s # <<>> BY <1>2, <1>5
<1>9. Env!Unquote(s) = v BY <1>5, <1>6, <1>7, <1>8 DEF Env!Unquote, Env!InQuotes, Env!Quote
<1>10. \A i \in 1..n : s[i + 1] = v[i]
  <2>1. \A i \in 1..n : i \in 1..(n + 1) BY ONLY <1>2
  <2>2. QED BY <2>1, <1>2, <1>5
<1>11. QED BY <1>5, <1>6, <1>8, <1>9, <1>10 DEF n

LEMMA EnvMessage ==
    ASSUME NEW v \in Env!Message
    PROVE  /\ v \in Seq(Nat) /\ Said(v) \in Seq(Nat) /\ Bare(Said(v))
           /\ \A i \in 1..Len(Said(v)) : Said(v)[i] # 7
           /\ Env!Unquote(Said(v)) = v
<1>1. v \in {<<>>, <<2>>, <<3, 4>>, <<0, 2>>, <<5, 2, 5>>}
  BY DEF Env!Message, Env!Val, Env!Eq, Env!Hash, Env!Blank, Env!Quote
<1>2. v \in Seq(Nat) /\ \A i \in 1..Len(v) : v[i] # 7
  <2>1. CASE v = <<>> BY <2>1
  <2>2. CASE v = <<2>> BY <2>2
  <2>3. CASE v = <<3, 4>> BY <2>3
  <2>4. CASE v = <<0, 2>> BY <2>4
  <2>5. CASE v = <<5, 2, 5>> BY <2>5
  <2>6. QED BY <1>1, <2>1, <2>2, <2>3, <2>4, <2>5
<1>3. CASE Env!NeedsQuotes(v)
  <2> DEFINE s == (<<5>> \o v) \o <<5>>
             n == Len(v)
  <2>1. Said(v) = s BY <1>3 DEF Said
  <2> HIDE DEF s
  <2>2. /\ s \in Seq(Nat) /\ s # <<>> /\ Len(s) = n + 2 /\ s[1] = 5 /\ s[Len(s)] = 5
        /\ \A i \in 1..n : s[i + 1] = v[i]
        /\ Env!Unquote(s) = v
    BY <1>2, UnquoteQuoted DEF s
  <2>3. n \in Nat BY <1>2
  <2> HIDE DEF n
  <2>4. Bare(s) BY <2>2 DEF Bare
  <2>5. ASSUME NEW i \in 1..Len(s) PROVE s[i] # 7
    <3>1. CASE i = 1 \/ i = Len(s) BY <3>1, <2>2
    <3>2. CASE ~ (i = 1 \/ i = Len(s))
      <4>1. i - 1 \in 1..n /\ (i - 1) + 1 = i BY ONLY <3>2, <2>2, <2>3, i \in 1..Len(s)
      <4>2. s[i] = v[i - 1] BY ONLY <4>1, <2>2
      <4>3. QED BY <4>1, <4>2, <1>2 DEF n
    <3>3. QED BY <3>1, <3>2
  <2>6. QED BY <1>2, <2>1, <2>2, <2>4, <2>5
<1>4. CASE ~ Env!NeedsQuotes(v)
  <2>1. Said(v) = v BY <1>4 DEF Said
  <2>2. v = <<>> \/ (v[1] # 0 /\ ~ Env!InQuotes(v)) BY <1>4 DEF Env!NeedsQuotes, Env!Blank
  <2>3. Env!Unquote(v) = v
    <3>1. CASE v = <<>>
      <4>1. ~ (Len(v) >= 2) BY <3>1
      <4>2. QED BY <4>1 DEF Env!Unquote, Env!InQuotes
    <3>2. CASE v # <<>> BY <3>2, <2>2 DEF Env!Unquote
    <3>3. QED BY <3>1, <3>2
  <2>4. Bare(v)
    <3>1. CASE v = <<>> BY <3>1 DEF Bare
    <3>2. CASE v = <<2>> BY <3>2 DEF Bare
    <3>3. CASE v = <<3, 4>> BY <3>3 DEF Bare
    <3>4. CASE v = <<0, 2>> BY <3>4, <2>2
    <3>5. CASE v = <<5, 2, 5>> BY <3>5 DEF Bare
    <3>6. QED BY <1>1, <3>1, <3>2, <3>3, <3>4, <3>5
  <2>5. QED BY <1>2, <2>1, <2>3, <2>4
<1>5. QED BY <1>3, <1>4

(* The lines that a setting is written as *)
LEMMA PlainSetting ==
    ASSUME NEW s \in Seq(Nat), Bare(s), NEW line, line = <<1, 3>> \o s
    PROVE  Env!Setting(line) = <<Env!Unquote(s)>>
<1> DEFINE h == <<1, 3>>
           I == {i \in 1..Len(line) : line[i] = 3}
<1>1. h \in Seq(Nat) /\ Len(h) = 2 /\ h[1] = 1 /\ h[2] = 3 OBVIOUS
<1> HIDE DEF h
<1>2. line = h \o s BY DEF h
<1>3. /\ line \in Seq(Nat) /\ Len(s) \in Nat /\ Len(line) = Len(s) + 2
      /\ line[1] = 1 /\ line[2] = 3 /\ \A i \in 1..Len(s) : line[i + 2] = s[i]
  <2>1. /\ h \o s \in Seq(Nat) /\ Len(s) \in Nat /\ Len(h \o s) = Len(h) + Len(s)
        /\ \A i \in 1..Len(h) : (h \o s)[i] = h[i]
        /\ \A i \in 1..Len(s) : (h \o s)[Len(h) + i] = s[i]
    BY <1>1, JoinIs
  <2>2. 1 \in 1..Len(h) /\ 2 \in 1..Len(h) BY ONLY <1>1
  <2>3. \A i \in 1..Len(s) : Len(h) + i = i + 2 BY ONLY <1>1, <2>1
  <2>4. Len(h) + Len(s) = Len(s) + 2 BY ONLY <1>1, <2>1
  <2>5. \A i \in 1..Len(s) : (h \o s)[i + 2] = s[i] BY ONLY <2>1, <2>3
  <2>6. (h \o s)[1] = 1 /\ (h \o s)[2] = 3 BY ONLY <2>1, <2>2, <1>1
  <2>7. QED BY <1>2, <2>1, <2>4, <2>5, <2>6, Zenon
<1>4. line # <<>>
  <2>1. Len(line) > 0 BY ONLY <1>3
  <2>2. QED BY <2>1
<1>5. Bare(line)
  <2>1. CASE s = <<>>
    <3>1. Len(s) = 0 BY <2>1
    <3>2. Len(line) = 2 BY ONLY <1>3, <3>1
    <3>3. QED BY <1>3, <3>2 DEF Bare
  <2>2. CASE s # <<>>
    <3>1. Len(s) > 0 /\ s[Len(s)] # 0 BY <2>2, EmptySeq DEF Bare
    <3>2. Len(s) \in 1..Len(s) BY ONLY <1>3, <3>1
    <3>3. line[Len(line)] = s[Len(s)] BY <1>3, <3>2
    <3>4. QED BY <1>3, <3>1, <3>3 DEF Bare
  <2>3. QED BY <2>1, <2>2
<1>6. Env!Trim(line) = line BY <1>3, <1>5, TrimBare
<1>7. ~ Env!IsPrefix(<<6, 0>>, line)
  <2>1. Len(<<6, 0>>) = 2 /\ <<6, 0>>[1] = 6 /\ <<6, 0>> \in Seq(Nat) OBVIOUS
  <2>2. SubSeq(<<6, 0>>, 1, 2)[1] = 6 BY <2>1
  <2>3. SubSeq(line, 1, 2)[1] = 1
    <3>1. 2 \in 0..Len(line) /\ 1 \in 1..2 BY ONLY <1>3
    <3>2. QED BY <3>1, <1>3, CutIs
  <2>4. QED BY <2>1, <2>2, <2>3 DEF Env!IsPrefix
<1>8. I # {} /\ Env!Min(I) = 2
  <2>1. I \in SUBSET Nat /\ 2 \in I BY <1>3
  <2>2. ASSUME NEW k \in I PROVE 2 <= k
    <3>1. k \in 1..Len(line) /\ k # 1 BY <1>3
    <3>2. QED BY ONLY <3>1, <1>3
  <2> HIDE DEF I
  <2>3. QED BY <2>1, <2>2, MinIs
<1>9. Env!Trim(SubSeq(line, 1, 1)) # <<>>
  <2> DEFINE c == SubSeq(line, 1, 1)
  <2>1. 1 \in 0..Len(line) /\ 1 \in 1..1 BY ONLY <1>3
  <2>2. c \in Seq(Nat) /\ Len(c) = 1 /\ c[1] = 1 BY <2>1, <1>3, CutIs
  <2> HIDE DEF c
  <2>3. Bare(c) BY <2>2 DEF Bare
  <2>4. c # <<>>
    <3>1. 1 \in DOMAIN c BY <2>2
    <3>2. QED BY <3>1, NotEmpty
  <2>5. Env!Trim(c) # <<>> BY <2>2, <2>3, <2>4, TrimBare
  <2>6. QED BY <2>5 DEF c
<1>10. Env!Trim(SubSeq(line, 3, Len(line))) = s
  <2>1. SubSeq(line, Len(h) + 1, Len(line)) = s BY <1>1, <1>2, JoinCut
  <2>2. Len(h) + 1 = 3 BY ONLY <1>1
  <2>3. QED BY <2>1, <2>2, TrimBare
<1>11. 2 - 1 = 1 /\ 2 + 1 = 3 /\ line[1] # 4 BY ONLY <1>3
<1> DEFINE at == IF I # {} THEN Env!Min(I) ELSE 0
<1>12. at = 2 BY <1>8
<1>13. Env!Setting(line) = IF line = <<>> \/ line[1] = 4 \/ at = 0 \/ Env!Trim(SubSeq(line, 1, at - 1)) = <<>>
                           THEN <<>> ELSE <<Env!Unquote(Env!Trim(SubSeq(line, at + 1, Len(line))))>>
  BY <1>6, <1>7 DEF Env!Setting, Env!SelectInSeq, Env!Eq, Env!Hash, Env!Export, Env!Blank, Env!From
<1> HIDE DEF at
<1>14. QED BY <1>4, <1>9, <1>10, <1>11, <1>12, <1>13

(* ... and with blanks and the word in front *)
LEMMA InFront ==
    ASSUME NEW a \in Nat, NEW s \in Seq(Nat), NEW t \in Seq(Nat), Len(t) = Len(s) + 1,
           t[1] = a, \A i \in 1..Len(s) : t[i + 1] = s[i]
    PROVE  t = <<a>> \o s
<1> DEFINE h == <<a>>
           j == h \o s
<1>1. h \in Seq(Nat) /\ Len(h) = 1 /\ h[1] = a OBVIOUS
<1> HIDE DEF h
<1>2. /\ j \in Seq(Nat) /\ Len(s) \in Nat /\ Len(j) = Len(h) + Len(s)
      /\ \A i \in 1..Len(h) : j[i] = h[i]
      /\ \A i \in 1..Len(s) : j[Len(h) + i] = s[i]
  BY <1>1, JoinIs
<1> HIDE DEF j
<1>3. Len(t) = Len(j) BY ONLY <1>1, <1>2, Len(t) = Len(s) + 1
<1>4. ASSUME NEW i \in 1..Len(t) PROVE t[i] = j[i]
  <2>1. CASE i = 1
    <3>1. 1 \in 1..Len(h) BY ONLY <1>1
    <3>2. j[1] = a BY <3>1, <1>1, <1>2
    <3>3. QED BY <2>1, <3>2
  <2>2. CASE i # 1
    <3>1. i - 1 \in 1..Len(s) /\ (i - 1) + 1 = i /\ Len(h) + (i - 1) = i
      BY ONLY <2>2, <1>1, <1>2, Len(t) = Len(s) + 1, i \in 1..Len(t)
    <3>2. t[i] = s[i - 1] BY ONLY <3>1, \A k \in 1..Len(s) : t[k + 1] = s[k]
    <3>3. j[i] = s[i - 1] BY ONLY <3>1, <1>2
    <3>4. QED BY <3>2, <3>3
  <2>3. QED BY <2>1, <2>2
<1>5. t = j BY <1>2, <1>3, <1>4, SeqEqual
<1>6. QED BY <1>5 DEF h, j

LEMMA ExportTail == <<6, 0, 1, 0, 3, 0>> = <<6, 0, 1, 0, 3>> \o <<0>>
<1> DEFINE b == <<6, 0, 1, 0, 3, 0>>
           d == <<6, 0, 1, 0, 3>> \o <<0>>
<1>1. b \in Seq(Nat) /\ Len(b) = 6 /\ b[1] = 6 /\ b[2] = 0 /\ b[3] = 1 /\ b[4] = 0 /\ b[5] = 3 /\ b[6] = 0
  OBVIOUS
<1>2. d \in Seq(Nat) /\ Len(d) = 6 /\ d[1] = 6 /\ d[2] = 0 /\ d[3] = 1 /\ d[4] = 0 /\ d[5] = 3 /\ d[6] = 0
  OBVIOUS
<1> HIDE DEF b, d
<1>3. \A i \in 1..6 : i = 1 \/ i = 2 \/ i = 3 \/ i = 4 \/ i = 5 \/ i = 6 OBVIOUS
<1>4. \A i \in 1..Len(b) : b[i] = d[i] BY <1>1, <1>2, <1>3
<1>5. b = d BY <1>1, <1>2, <1>4, SeqEqual
<1>6. QED BY <1>5 DEF b, d

LEMMA ExportJoins ==
    /\ <<0, 6, 0, 1, 0, 3, 0>> = <<0>> \o <<6, 0, 1, 0, 3, 0>>
    /\ <<0, 6, 0, 1, 0, 3, 0>> = <<0>> \o (<<6, 0, 1, 0, 3>> \o <<0>>)
<1> DEFINE a == <<0, 6, 0, 1, 0, 3, 0>>
           b == <<6, 0, 1, 0, 3, 0>>
<1>1. /\ a \in Seq(Nat) /\ Len(a) = 7
      /\ a[1] = 0 /\ a[2] = 6 /\ a[3] = 0 /\ a[4] = 1 /\ a[5] = 0 /\ a[6] = 3 /\ a[7] = 0
  OBVIOUS
<1>2. b \in Seq(Nat) /\ Len(b) = 6 /\ b[1] = 6 /\ b[2] = 0 /\ b[3] = 1 /\ b[4] = 0 /\ b[5] = 3 /\ b[6] = 0
  OBVIOUS
<1> HIDE DEF a, b
<1>3. \A i \in 1..6 : i = 1 \/ i = 2 \/ i = 3 \/ i = 4 \/ i = 5 \/ i = 6 OBVIOUS
<1>4. \A i \in 1..Len(b) : a[i + 1] = b[i]
  <2>1. 1 + 1 = 2 /\ 2 + 1 = 3 /\ 3 + 1 = 4 /\ 4 + 1 = 5 /\ 5 + 1 = 6 /\ 6 + 1 = 7 OBVIOUS
  <2>2. QED BY <2>1, <1>1, <1>2, <1>3
<1>5. a = <<0>> \o b
  <2>1. Len(a) = Len(b) + 1 BY <1>1, <1>2
  <2>2. QED BY <2>1, <1>1, <1>2, <1>4, InFront
<1>6. QED BY <1>5, ExportTail DEF a, b

(* What is left of such a line when the blanks around it are taken *)
LEMMA ExportBare ==
    ASSUME NEW s \in Seq(Nat), Bare(s), NEW line, line = <<0, 6, 0, 1, 0, 3, 0>> \o s
    PROVE  /\ s = <<>> => Env!Trim(line) = <<6, 0, 1, 0, 3>>
           /\ s # <<>> => Env!Trim(line) = <<6, 0, 1, 0, 3, 0>> \o s
<1>1. CASE s = <<>>
  <2> DEFINE y == <<6, 0, 1, 0, 3>>
  <2>1. y \in Seq(Nat) /\ Len(y) = 5 /\ y[1] = 6 /\ y[5] = 3 OBVIOUS
  <2>2. Blanks(<<0>>) BY DEF Blanks
  <2>3. line = <<0>> \o (y \o <<0>>)
    <3>1. <<0, 6, 0, 1, 0, 3, 0>> \in Seq(Nat) OBVIOUS
    <3>2. line = <<0, 6, 0, 1, 0, 3, 0>> BY <3>1, <1>1, JoinAgain
    <3>3. QED BY <3>2, ExportJoins
  <2> HIDE DEF y
  <2>4. Bare(y) BY <2>1 DEF Bare
  <2>5. Env!Trim(line) = y BY <2>1, <2>2, <2>3, <2>4, TrimIs, ZenonT(40)
  <2>6. QED BY <2>5, <1>1 DEF y
<1>2. CASE s # <<>>
  <2> DEFINE h == <<6, 0, 1, 0, 3, 0>>
             y == h \o s
             b == <<0>>
  <2>1. h \in Seq(Nat) /\ Len(h) = 6 /\ h[1] = 6 /\ b \in Seq(Nat) OBVIOUS
  <2>2. Blanks(<<0>>) /\ Blanks(<<>>) BY DEF Blanks
  <2>3. line = (b \o h) \o s BY ExportJoins
  <2> HIDE DEF h, b
  <2>4. /\ y \in Seq(Nat) /\ Len(s) \in Nat /\ Len(y) = Len(h) + Len(s)
        /\ \A i \in 1..Len(h) : y[i] = h[i]
        /\ \A i \in 1..Len(s) : y[Len(h) + i] = s[i]
    BY <2>1, JoinIs
  <2>5. line = b \o y BY <2>1, <2>3, JoinAgain
  <2> HIDE DEF y
  <2>6. line = b \o (y \o <<>>) BY <2>4, <2>5, JoinAgain
  <2>7. Bare(y)
    <3>1. Len(s) > 0 /\ s[Len(s)] # 0 BY <1>2, EmptySeq DEF Bare
    <3>2. Len(s) \in 1..Len(s) /\ 1 \in 1..Len(h) BY ONLY <3>1, <2>4, <2>1
    <3>3. y[Len(y)] = s[Len(s)] BY <3>2, <2>4
    <3>4. y[1] = 6 BY <3>2, <2>1, <2>4
    <3>5. QED BY <3>1, <3>3, <3>4 DEF Bare
  <2>8. Env!Trim(line) = y BY <2>2, <2>4, <2>6, <2>7, TrimIs DEF b
  <2>9. QED BY <2>8, <1>2 DEF y, h
<1>3. QED BY <1>1, <1>2

LEMMA ExportSetting ==
    ASSUME NEW s \in Seq(Nat), Bare(s), NEW line, line = <<0, 6, 0, 1, 0, 3, 0>> \o s
    PROVE  Env!Setting(line) = <<Env!Unquote(s)>>
<1> DEFINE f == <<6, 0>>
           d == <<1, 0, 3>>
           z == IF s = <<>> THEN <<>> ELSE <<0>>
           w == z \o s
           said == d \o w
           bare == Env!Trim(line)
           I == {i \in 1..Len(said) : said[i] = 3}
           at == IF I # {} THEN Env!Min(I) ELSE 0
<1>1. /\ f \in Seq(Nat) /\ Len(f) = 2 /\ f[1] = 6 /\ f[2] = 0
      /\ d \in Seq(Nat) /\ Len(d) = 3 /\ d[1] = 1 /\ d[2] = 0 /\ d[3] = 3
      /\ z \in Seq(Nat) /\ Blanks(z) /\ Blanks(<<>>)
  BY DEF Blanks
<1>2. w \in Seq(Nat) /\ said \in Seq(Nat) /\ Env!Trim(w) = s
  <2> HIDE DEF z
  <2>1. w \in Seq(Nat) BY <1>1, JoinIs
  <2>2. Blanks(z) BY <1>1
  <2>3. Env!Trim(w) = s BY <2>2, TrimFront
  <2> HIDE DEF w
  <2>4. said \in Seq(Nat) BY <2>1, <1>1, JoinIs
  <2>5. QED BY <2>1, <2>3, <2>4
<1>3. bare = f \o said
  <2>1. f \o d \in Seq(Nat) /\ (f \o d) = <<6, 0, 1, 0, 3>>
    <3>1. /\ f \o d \in Seq(Nat) /\ Len(f \o d) = 5
          /\ (f \o d)[1] = 6 /\ (f \o d)[2] = 0 /\ (f \o d)[3] = 1 /\ (f \o d)[4] = 0 /\ (f \o d)[5] = 3
      OBVIOUS
    <3> DEFINE a == f \o d
               b == <<6, 0, 1, 0, 3>>
    <3>2. b \in Seq(Nat) /\ Len(b) = 5 /\ b[1] = 6 /\ b[2] = 0 /\ b[3] = 1 /\ b[4] = 0 /\ b[5] = 3
      OBVIOUS
    <3>3. a \in Seq(Nat) /\ Len(a) = 5 /\ a[1] = 6 /\ a[2] = 0 /\ a[3] = 1 /\ a[4] = 0 /\ a[5] = 3
      BY <3>1
    <3> HIDE DEF a, b
    <3>4. \A i \in 1..5 : i = 1 \/ i = 2 \/ i = 3 \/ i = 4 \/ i = 5 OBVIOUS
    <3>5. \A i \in 1..Len(a) : a[i] = b[i] BY <3>2, <3>3, <3>4
    <3>6. a = b BY <3>2, <3>3, <3>5, SeqEqual
    <3>7. QED BY <3>1, <3>6 DEF a, b
  <2>2. f \o said = (f \o d) \o w
    <3>1. f \in Seq(Nat) /\ d \in Seq(Nat) /\ w \in Seq(Nat) BY <1>1, <1>2
    <3> HIDE DEF f, d, w
    <3>2. (f \o d) \o w = f \o (d \o w) BY ONLY <3>1, JoinAgain, ZenonT(40)
    <3>3. QED BY <3>2
  <2>3. CASE s = <<>>
    <3>1. w = <<>>
      <4>1. z = <<>> BY <2>3
      <4>2. QED BY <4>1, <2>3
    <3>2. (f \o d) \o <<>> = f \o d BY <2>1, JoinAgain
    <3>3. bare = <<6, 0, 1, 0, 3>> BY <2>3, ExportBare
    <3> HIDE DEF bare, said, w, f, d
    <3>4. QED BY <2>1, <2>2, <3>1, <3>2, <3>3
  <2>4. CASE s # <<>>
    <3>1. w = <<0>> \o s BY <2>4
    <3>2. <<6, 0, 1, 0, 3, 0>> = <<6, 0, 1, 0, 3>> \o <<0>>
      BY ExportTail
    <3>3. bare = <<6, 0, 1, 0, 3, 0>> \o s BY <2>4, ExportBare
    <3> HIDE DEF bare, said, w, f, d
    <3>4. ((f \o d) \o <<0>>) \o s = (f \o d) \o (<<0>> \o s)
      <4>1. <<0>> \in Seq(Nat) OBVIOUS
      <4>2. QED BY <2>1, <4>1, JoinAgain
    <3>5. bare = ((f \o d) \o <<0>>) \o s BY <2>1, <3>2, <3>3, Zenon
    <3>6. bare = (f \o d) \o w BY <3>1, <3>4, <3>5, Zenon
    <3>7. QED BY <2>2, <3>6, Zenon
  <2>5. QED BY <2>3, <2>4
<1> HIDE DEF f, d, w, z
<1>4. /\ Len(said) \in Nat /\ Len(said) >= 3 /\ said[1] = 1 /\ said[2] = 0 /\ said[3] = 3
      /\ SubSeq(said, 4, Len(said)) = w
  <2>1. /\ Len(w) \in Nat /\ Len(said) = Len(d) + Len(w) /\ \A i \in 1..Len(d) : said[i] = d[i]
    BY <1>1, <1>2, JoinIs
  <2>2. SubSeq(said, Len(d) + 1, Len(said)) = w BY <1>1, <1>2, JoinCut
  <2>3. Len(d) + 1 = 4 /\ 1 \in 1..Len(d) /\ 2 \in 1..Len(d) /\ 3 \in 1..Len(d) BY ONLY <1>1
  <2> HIDE DEF said
  <2>4. said[1] = 1 /\ said[2] = 0 /\ said[3] = 3 BY <2>1, <2>3, <1>1
  <2>5. Len(said) \in Nat /\ Len(said) >= 3 BY ONLY <2>1, <1>1
  <2>6. QED BY <2>2, <2>3, <2>4, <2>5
<1>5. Bare(said)
  <2>1. CASE s = <<>>
    <3>1. Len(w) = 0
      <4>1. z = <<>> BY <2>1 DEF z
      <4>2. w = <<>> BY <4>1, <2>1 DEF w
      <4>3. QED BY <4>2
    <3>2. Len(said) = Len(d) + Len(w) BY <1>1, <1>2, JoinIs
    <3>3. Len(said) = 3 BY ONLY <3>1, <3>2, <1>1
    <3>4. QED BY <3>3, <1>4 DEF Bare
  <2>2. CASE s # <<>>
    <3>1. Len(s) > 0 /\ s[Len(s)] # 0 BY <2>2, EmptySeq DEF Bare
    <3>2. /\ Len(s) \in Nat /\ Len(z) \in Nat /\ Len(w) = Len(z) + Len(s)
          /\ \A i \in 1..Len(s) : w[Len(z) + i] = s[i]
      BY <1>1, JoinIs DEF w
    <3>3. Len(s) \in 1..Len(s) /\ Len(w) \in 1..Len(w) BY ONLY <3>1, <3>2
    <3>4. w[Len(w)] = s[Len(s)] BY <3>2, <3>3
    <3>5. Len(said) = Len(d) + Len(w) /\ \A i \in 1..Len(w) : said[Len(d) + i] = w[i]
      BY <1>1, <1>2, JoinIs
    <3>6. said[Len(said)] = w[Len(w)] BY <3>3, <3>5
    <3> HIDE DEF said
    <3>7. QED BY <3>1, <3>4, <3>6, <1>4 DEF Bare
  <2>3. QED BY <2>1, <2>2
<1>6. /\ bare \in Seq(Nat) /\ Len(bare) = Len(said) + 2 /\ bare[1] = 6 /\ bare[2] = 0
      /\ SubSeq(bare, 3, Len(bare)) = said /\ Env!IsPrefix(<<6, 0>>, bare) /\ bare # <<>>
  <2>1. /\ f \o said \in Seq(Nat) /\ Len(f \o said) = Len(f) + Len(said)
        /\ \A i \in 1..Len(f) : (f \o said)[i] = f[i]
    BY <1>1, <1>2, JoinIs
  <2>2. SubSeq(f \o said, Len(f) + 1, Len(f \o said)) = said BY <1>1, <1>2, JoinCut
  <2>3. /\ SubSeq(f \o said, 1, Len(f)) = SubSeq(f, 1, Len(f))
    <3>1. Len(f) \in 0..Len(f) BY ONLY <1>1
    <3>2. f \in Seq(Nat) /\ said \in Seq(Nat) BY <1>1, <1>2
    <3> HIDE DEF said
    <3>3. QED BY ONLY <3>1, <3>2, JoinCut
  <2> HIDE DEF said, bare
  <2>4. Len(f) + 1 = 3 /\ 1 \in 1..Len(f) /\ 2 \in 1..Len(f) /\ Len(f) + Len(said) = Len(said) + 2
    BY ONLY <1>1, <1>4
  <2>5. bare[1] = 6 /\ bare[2] = 0 /\ bare \in Seq(Nat) /\ Len(bare) = Len(said) + 2
    BY <2>1, <2>4, <1>1, <1>3
  <2>6. Len(f) <= Len(bare) /\ Len(bare) >= 2 BY ONLY <1>1, <1>4, <2>5
  <2>7. Env!IsPrefix(f, bare) BY <2>3, <2>6, <1>3 DEF Env!IsPrefix
  <2>8. bare # <<>> BY <2>5, <2>6, FirstTwo
  <2>9. SubSeq(bare, 3, Len(bare)) = said BY <2>2, <2>4, <1>3
  <2>10. QED BY <2>5, <2>7, <2>8, <2>9 DEF f
<1> HIDE DEF said, bare
<1>7. Env!Trim(said) = said BY <1>2, <1>5, TrimBare
<1>8. I # {} /\ Env!Min(I) = 3
  <2>1. I \in SUBSET Nat /\ 3 \in I BY <1>4
  <2>2. ASSUME NEW k \in I PROVE 3 <= k
    <3>1. k \in 1..Len(said) /\ k # 1 /\ k # 2 BY <1>4
    <3>2. QED BY ONLY <3>1, <1>4
  <2> HIDE DEF I
  <2>3. QED BY <2>1, <2>2, MinIs
<1>9. Env!Trim(SubSeq(said, 1, 2)) # <<>>
  <2> DEFINE c == SubSeq(said, 1, 2)
  <2>1. 2 \in 0..Len(said) /\ 1 \in 1..2 /\ 2 \in 1..2 BY ONLY <1>4
  <2>2. c \in Seq(Nat) /\ Len(c) = 2 /\ c[1] = 1 /\ c[2] = 0 BY <2>1, <1>2, <1>4, CutIs
  <2> HIDE DEF c
  <2>3. {i \in DOMAIN c : c[i] # 0} = {1} BY <2>2
  <2>4. Env!Min({1}) = 1 /\ Env!Max({1}) = 1
    <3>1. {1} \in SUBSET Nat /\ 1 \in {1} /\ \A k \in {1} : k <= 1 /\ 1 <= k OBVIOUS
    <3> DEFINE one == {1}
    <3> HIDE DEF one
    <3>2. one \in SUBSET Nat /\ 1 \in one /\ \A k \in one : k <= 1 /\ 1 <= k BY <3>1 DEF one
    <3>3. Env!Min(one) = 1 /\ Env!Max(one) = 1 BY ONLY <3>2, MinIs, MaxIs
    <3>4. QED BY <3>3 DEF one
  <2>5. Env!Trim(c) = SubSeq(c, 1, 1) BY <2>3, <2>4 DEF Env!Trim, Env!Blank
  <2>6. SubSeq(c, 1, 1) # <<>>
    <3>1. 1 \in 0..Len(c) BY ONLY <2>2
    <3>2. SubSeq(c, 1, 1) \in Seq(Nat) /\ Len(SubSeq(c, 1, 1)) = 1 BY <3>1, <2>2, CutIs
    <3>3. 1 \in DOMAIN SubSeq(c, 1, 1) BY <3>2
    <3>4. QED BY <3>3, NotEmpty
  <2>7. QED BY <2>5, <2>6 DEF c
<1>10. at = 3 BY <1>8
<1>11. Env!Setting(line) = IF bare = <<>> \/ bare[1] = 4 \/ at = 0 \/ Env!Trim(SubSeq(said, 1, at - 1)) = <<>>
                           THEN <<>> ELSE <<Env!Unquote(Env!Trim(SubSeq(said, at + 1, Len(said))))>>
  BY <1>6, <1>7, ZenonT(40) DEF Env!Setting, Env!SelectInSeq, Env!Eq, Env!Hash, Env!Export, Env!Blank, Env!From, bare
<1> HIDE DEF at, I
<1>12. 3 - 1 = 2 /\ 3 + 1 = 4 /\ 6 # 4 /\ 3 # 0 OBVIOUS
<1>13. QED BY <1>2, <1>4, <1>6, <1>9, <1>10, <1>11, <1>12

LEMMA CommentSetting == Env!Setting(<<4, 3>>) = <<>>
<1> DEFINE s == <<4, 3>>
<1>1. s \in Seq(Nat) /\ Len(s) = 2 /\ s[1] = 4 /\ s[2] = 3 OBVIOUS
<1> HIDE DEF s
<1>2. Bare(s) BY <1>1 DEF Bare
<1>3. Env!Trim(s) = s BY <1>1, <1>2, TrimBare
<1>4. Env!Setting(s) = <<>> BY <1>1, <1>3 DEF Env!Setting, Env!Hash
<1>5. QED BY <1>4 DEF s

(* The lines of a setting *)
PlainText(v)  == <<1, 3>> \o Said(v)
ExportText(v) == <<0, 6, 0, 1, 0, 3, 0>> \o Said(v)
Comment       == <<4, 3>>

LEMMA LinesAre ==
    ASSUME NEW v \in Env!Message
    PROVE  /\ PlainText(v) \in Seq(Nat) /\ \A i \in 1..Len(PlainText(v)) : PlainText(v)[i] # 7
           /\ ExportText(v) \in Seq(Nat) /\ \A i \in 1..Len(ExportText(v)) : ExportText(v)[i] # 7
           /\ Comment \in Seq(Nat) /\ \A i \in 1..Len(Comment) : Comment[i] # 7
           /\ Env!Setting(PlainText(v)) = <<v>> /\ Env!Setting(ExportText(v)) = <<v>>
           /\ Env!Setting(Comment) = <<>>
           /\ Env!Encodings(v) = {PlainText(v) \o <<7>>, (Comment \o <<7>>) \o (ExportText(v) \o <<7>>)}
<1> DEFINE s == Said(v)
<1>1. /\ s \in Seq(Nat) /\ Bare(s) /\ Env!Unquote(s) = v /\ \A i \in 1..Len(s) : s[i] # 7
  BY EnvMessage
<1> HIDE DEF s
<1>2. ASSUME NEW h \in Seq(Nat), \A i \in 1..Len(h) : h[i] # 7
      PROVE  h \o s \in Seq(Nat) /\ \A i \in 1..Len(h \o s) : (h \o s)[i] # 7
  <2> DEFINE j == h \o s
  <2>1. /\ Len(h) \in Nat /\ Len(s) \in Nat /\ j \in Seq(Nat) /\ Len(j) = Len(h) + Len(s)
        /\ \A i \in 1..Len(h) : j[i] = h[i]
        /\ \A i \in 1..Len(s) : j[Len(h) + i] = s[i]
    BY <1>1, JoinIs
  <2> HIDE DEF j
  <2>2. ASSUME NEW i \in 1..Len(j) PROVE j[i] # 7
    <3>1. CASE i <= Len(h)
      <4>1. i \in 1..Len(h) BY ONLY <3>1, <2>1, i \in 1..Len(j)
      <4>2. QED BY <4>1, <2>1, <1>2
    <3>2. CASE ~ (i <= Len(h))
      <4>1. i - Len(h) \in 1..Len(s) /\ Len(h) + (i - Len(h)) = i
        BY ONLY <3>2, <2>1, i \in 1..Len(j)
      <4>2. j[i] = s[i - Len(h)] BY ONLY <4>1, <2>1
      <4>3. QED BY <4>1, <4>2, <1>1
    <3>3. QED BY <3>1, <3>2
  <2>3. QED BY <2>1, <2>2 DEF j
<1>3. <<1, 3>> \in Seq(Nat) /\ \A i \in 1..Len(<<1, 3>>) : <<1, 3>>[i] # 7 OBVIOUS
<1>4. /\ <<0, 6, 0, 1, 0, 3, 0>> \in Seq(Nat)
      /\ \A i \in 1..Len(<<0, 6, 0, 1, 0, 3, 0>>) : <<0, 6, 0, 1, 0, 3, 0>>[i] # 7
  OBVIOUS
<1>5. Comment \in Seq(Nat) /\ \A i \in 1..Len(Comment) : Comment[i] # 7 BY DEF Comment
<1>6. PlainText(v) \in Seq(Nat) /\ \A i \in 1..Len(PlainText(v)) : PlainText(v)[i] # 7
  BY <1>2, <1>3 DEF PlainText, s
<1>7. ExportText(v) \in Seq(Nat) /\ \A i \in 1..Len(ExportText(v)) : ExportText(v)[i] # 7
  BY <1>2, <1>4 DEF ExportText, s
<1>8. Env!Setting(PlainText(v)) = <<v>> BY <1>1, PlainSetting DEF PlainText, s
<1>9. Env!Setting(ExportText(v)) = <<v>> BY <1>1, ExportSetting DEF ExportText, s
<1>10. Env!Setting(Comment) = <<>> BY CommentSetting DEF Comment
<1>11. Env!Encodings(v) = {PlainText(v) \o <<7>>, (Comment \o <<7>>) \o (ExportText(v) \o <<7>>)}
  <2> DEFINE e == <<0, 6, 0, 1, 0, 3, 0>>
             c == <<4, 3, 7>>
             l == <<7>>
  <2>1. Env!Encodings(v) = {(<<1, 3>> \o s) \o l, ((c \o e) \o s) \o l}
    BY DEF Env!Encodings, Said, s, Env!Key, Env!Eq, Env!Line, Env!Hash, Env!Blank, Env!Export, Env!Quote
  <2>2. e \in Seq(Nat) /\ c \in Seq(Nat) /\ l \in Seq(Nat) OBVIOUS
  <2>3. c = Comment \o <<7>>
    <3> DEFINE t == Comment \o <<7>>
    <3>1. c \in Seq(Nat) /\ Len(c) = 3 /\ c[1] = 4 /\ c[2] = 3 /\ c[3] = 7 OBVIOUS
    <3>2. t \in Seq(Nat) /\ Len(t) = 3 /\ t[1] = 4 /\ t[2] = 3 /\ t[3] = 7 BY DEF Comment
    <3> HIDE DEF c, t
    <3>3. \A i \in 1..3 : i = 1 \/ i = 2 \/ i = 3 OBVIOUS
    <3>4. \A i \in 1..Len(c) : c[i] = t[i] BY <3>1, <3>2, <3>3
    <3>5. c = t BY <3>1, <3>2, <3>4, SeqEqual
    <3>6. QED BY <3>5 DEF t
  <2> HIDE DEF e, c, l
  <2>4. ((c \o e) \o s) \o l = c \o ((e \o s) \o l)
    <3>1. e \o s \in Seq(Nat) BY <2>2, <1>1, JoinIs
    <3>2. (c \o e) \o s = c \o (e \o s) BY <2>2, <1>1, JoinAgain, ZenonT(40)
    <3>3. (c \o (e \o s)) \o l = c \o ((e \o s) \o l) BY ONLY <2>2, <3>1, JoinAgain, ZenonT(40)
    <3>4. QED BY <3>2, <3>3, Zenon
  <2>5. ExportText(v) = e \o s /\ PlainText(v) = <<1, 3>> \o s BY DEF ExportText, PlainText, e, s
  <2>6. l = <<7>> BY DEF l
  <2>7. QED BY <2>1, <2>3, <2>4, <2>5, <2>6, Zenon
<1>12. QED BY <1>5, <1>6, <1>7, <1>8, <1>9, <1>10, <1>11

-----------------------------------------------------------------------------
(* ClientStream: objects found by their braces *)

St(depth, inStr, esc, end) == [depth |-> depth, inStr |-> inStr, esc |-> esc, end |-> end]

(* f is the scan of the first n bytes of b *)
IsScan(f, b, n) ==
    f = [i \in 0..n |-> IF i = 0 THEN Client!ScanStart ELSE Client!ScanByte(f[i - 1], b[i], i)]

(* The recursion of findJsonEnd has a solution, for buffers of any length *)
LEMMA ScanExists == ASSUME NEW b, NEW n \in Nat PROVE \E f : IsScan(f, b, n)
<1> DEFINE Bad == {k \in Nat : ~ \E f : IsScan(f, b, k)}
<1>1. CASE Bad = {} BY <1>1
<1>2. CASE Bad # {}
  <2>1. PICK k \in Bad : \A l \in Bad : k <= l
    <3>1. Bad \in SUBSET Nat OBVIOUS
    <3> HIDE DEF Bad
    <3>2. QED BY <1>2, <3>1, Least
  <2>2. k \in Nat /\ ~ \E f : IsScan(f, b, k) BY <2>1
  <2>3. CASE k = 0
    <3>1. IsScan([i \in 0..0 |-> Client!ScanStart], b, 0) BY DEF IsScan
    <3>2. QED BY <3>1, <2>2, <2>3
  <2>4. CASE k # 0
    <3>1. k - 1 \in Nat /\ ~ (k <= k - 1) BY <2>2, <2>4
    <3>2. PICK f : IsScan(f, b, k - 1)
      <4>1. k - 1 \notin Bad BY <3>1, <2>1
      <4>2. QED BY <3>1, <4>1
    <3> DEFINE g == [i \in 0..k |-> IF i = k THEN Client!ScanByte(f[k - 1], b[k], k) ELSE f[i]]
    <3>3. ASSUME NEW i \in 0..k
          PROVE  g[i] = IF i = 0 THEN Client!ScanStart ELSE Client!ScanByte(g[i - 1], b[i], i)
      <4>1. CASE i = 0
        <5>1. g[i] = f[0] BY <4>1, <2>4
        <5>2. QED BY <5>1, <4>1, <3>1, <3>2 DEF IsScan
      <4>2. CASE i = k
        <5>1. g[k] = Client!ScanByte(f[k - 1], b[k], k) /\ g[k - 1] = f[k - 1] BY <3>1, <2>2
        <5>2. QED BY <5>1, <4>2, <2>4
      <4>3. CASE i # 0 /\ i # k
        <5>1. i \in 0..(k - 1) /\ i - 1 \in 0..k /\ i - 1 # k BY <4>3, <2>2
        <5>2. g[i] = f[i] /\ g[i - 1] = f[i - 1] BY <5>1, <4>3
        <5>3. f[i] = Client!ScanByte(f[i - 1], b[i], i) BY <5>1, <4>3, <3>2 DEF IsScan
        <5>4. QED BY <5>2, <5>3, <4>3
      <4>4. QED BY <4>1, <4>2, <4>3
    <3>4. IsScan(g, b, k)
      <4>1. g = [i \in 0..k |-> g[i]] OBVIOUS
      <4> HIDE DEF g
      <4>2. QED BY <4>1, <3>3 DEF IsScan
    <3>5. QED BY <3>4, <2>2
  <2>5. QED BY <2>3, <2>4
<1>3. QED BY <1>1, <1>2

(* findJsonEnd returns what some scan of the whole buffer ends with *)
LEMMA ScanFinds ==
    ASSUME NEW buf, Len(buf) \in Nat
    PROVE  \E f : /\ Client!FindJsonEnd(buf) = f[Len(buf)].end
                  /\ f[0] = Client!ScanStart
                  /\ \A i \in 1..Len(buf) : f[i] = Client!ScanByte(f[i - 1], buf[i], i)
<1> DEFINE n == Len(buf)
           f == CHOOSE g : IsScan(g, buf, n)
<1>1. IsScan(f, buf, n) BY ScanExists
<1>2. Client!FindJsonEnd(buf) = f[n].end BY DEF Client!FindJsonEnd, IsScan
<1> HIDE DEF f
<1>3. f[0] = Client!ScanStart BY <1>1 DEF IsScan
<1>4. \A i \in 1..n : f[i] = Client!ScanByte(f[i - 1], buf[i], i) BY <1>1 DEF IsScan
<1>5. QED BY <1>2, <1>3, <1>4

LEMMA StParts ==
    ASSUME NEW d, NEW q, NEW e, NEW n
    PROVE  /\ St(d, q, e, n).depth = d /\ St(d, q, e, n).inStr = q
           /\ St(d, q, e, n).esc = e /\ St(d, q, e, n).end = n
BY DEF St

LEMMA StEsc ==
    ASSUME NEW d, NEW q, NEW e, NEW n, NEW x
    PROVE  [St(d, q, e, n) EXCEPT !.esc = x] = St(d, q, x, n)
BY DEF St

LEMMA StInStr ==
    ASSUME NEW d, NEW q, NEW e, NEW n, NEW x
    PROVE  [St(d, q, e, n) EXCEPT !.inStr = x] = St(d, x, e, n)
BY DEF St

LEMMA StDepth ==
    ASSUME NEW d, NEW q, NEW e, NEW n, NEW x
    PROVE  [St(d, q, e, n) EXCEPT !.depth = x] = St(x, q, e, n)
BY DEF St

(* What each byte does, outside of a string, in one, and after a backslash.  T and F are  *)
(* the truth values, named since the provers do not take one for a value in a record        *)
Moves(T, F) ==
    \A d, i :
        /\ \A b, n : n # 0 => Client!ScanByte(St(d, F, F, n), b, i) = St(d, F, F, n)
        /\ \A b : Client!ScanByte(St(d, T, T, 0), b, i) = St(d, T, F, 0)
        /\ \A b : b # 3 /\ b # 4 => Client!ScanByte(St(d, T, F, 0), b, i) = St(d, T, F, 0)
        /\ Client!ScanByte(St(d, T, F, 0), 3, i) = St(d, F, F, 0)
        /\ Client!ScanByte(St(d, T, F, 0), 4, i) = St(d, T, T, 0)
        /\ Client!ScanByte(St(d, F, F, 0), 3, i) = St(d, T, F, 0)
        /\ Client!ScanByte(St(d, F, F, 0), 1, i) = St(d + 1, F, F, 0)
        /\ Client!ScanByte(St(d, F, F, 0), 2, i) = St(d - 1, F, F, IF d = 1 THEN i ELSE 0)

LEMMA ScanMoves == \E T, F : T = TRUE /\ F = FALSE /\ Moves(T, F)
<1>1. ASSUME NEW T, T = TRUE, NEW F, F = FALSE PROVE Moves(T, F)
  <2>0. SUFFICES ASSUME NEW d, NEW i
        PROVE /\ \A b, n : n # 0 => Client!ScanByte(St(d, F, F, n), b, i) = St(d, F, F, n)
              /\ \A b : Client!ScanByte(St(d, T, T, 0), b, i) = St(d, T, F, 0)
              /\ \A b : b # 3 /\ b # 4 => Client!ScanByte(St(d, T, F, 0), b, i) = St(d, T, F, 0)
              /\ Client!ScanByte(St(d, T, F, 0), 3, i) = St(d, F, F, 0)
              /\ Client!ScanByte(St(d, T, F, 0), 4, i) = St(d, T, T, 0)
              /\ Client!ScanByte(St(d, F, F, 0), 3, i) = St(d, T, F, 0)
              /\ Client!ScanByte(St(d, F, F, 0), 1, i) = St(d + 1, F, F, 0)
              /\ Client!ScanByte(St(d, F, F, 0), 2, i) = St(d - 1, F, F, IF d = 1 THEN i ELSE 0)
    BY Zenon DEF Moves
  <2>1. ASSUME NEW b, NEW n, n # 0 PROVE Client!ScanByte(St(d, F, F, n), b, i) = St(d, F, F, n)
    <3>1. St(d, F, F, n).end = n BY ONLY StParts
    <3>2. QED BY <3>1, <2>1, <1>1, Zenon DEF Client!ScanByte
  <2>2. ASSUME NEW b PROVE Client!ScanByte(St(d, T, T, 0), b, i) = St(d, T, F, 0)
    <3>1. [St(d, T, T, 0) EXCEPT !.esc = F] = St(d, T, F, 0) BY ONLY StEsc
    <3>2. St(d, T, T, 0).end = 0 /\ St(d, T, T, 0).esc = T BY ONLY StParts
    <3>3. QED BY <3>1, <3>2, <1>1, Zenon DEF Client!ScanByte
  <2>3. ASSUME NEW b, NEW x, NEW y, y = (b = 4), x = (b # 3)
        PROVE  Client!ScanByte(St(d, T, F, 0), b, i) = St(d, x, y, 0)
    <3>1. [St(d, T, F, 0) EXCEPT !.esc = y, !.inStr = x] = St(d, x, y, 0)
      <4>1. [St(d, T, F, 0) EXCEPT !.esc = y, !.inStr = x]
              = [[St(d, T, F, 0) EXCEPT !.esc = y] EXCEPT !.inStr = x]
        BY ONLY TRUE
      <4>2. [St(d, T, F, 0) EXCEPT !.esc = y] = St(d, T, y, 0) BY ONLY TRUE DEF St
      <4>3. [St(d, T, y, 0) EXCEPT !.inStr = x] = St(d, x, y, 0) BY ONLY TRUE DEF St
      <4>4. QED BY ONLY <4>1, <4>2, <4>3
    <3>2. St(d, T, F, 0).end = 0 /\ St(d, T, F, 0).esc = F /\ St(d, T, F, 0).inStr = T
      BY ONLY StParts
    <3>3. QED BY <3>1, <3>2, <2>3, <1>1, Zenon DEF Client!ScanByte, Client!Esc, Client!Quote
  <2>4. ASSUME NEW b, b # 3, b # 4 PROVE Client!ScanByte(St(d, T, F, 0), b, i) = St(d, T, F, 0)
    <3>1. F = (b = 4) /\ T = (b # 3) BY <2>4, <1>1, Zenon
    <3>2. QED BY <3>1, <2>3, <1>1, Zenon
  <2>5. Client!ScanByte(St(d, T, F, 0), 3, i) = St(d, F, F, 0)
    <3>1. (3 = 4) = FALSE /\ (3 # 3) = FALSE BY ONLY TRUE
    <3>2. F = (3 = 4) /\ F = (3 # 3) BY <3>1, <1>1, Zenon
    <3>3. QED BY <3>2, <2>3, <1>1, Zenon
  <2>6. Client!ScanByte(St(d, T, F, 0), 4, i) = St(d, T, T, 0)
    <3>1. SUFFICES ASSUME NEW b, b = 4 PROVE Client!ScanByte(St(d, T, F, 0), b, i) = St(d, T, T, 0)
      BY Zenon
    <3>2. b # 3 BY ONLY <3>1
    <3>3. T = (b = 4) /\ T = (b # 3) BY <3>1, <3>2, <1>1, Zenon
    <3>4. ASSUME NEW x, NEW y, y = (b = 4), x = T
          PROVE  Client!ScanByte(St(d, T, F, 0), b, i) = St(d, x, y, 0)
      <4>1. x = (b # 3) BY <3>3, <3>4, <1>1, Zenon
      <4>2. y = (b = 4) BY <3>4
      <4>3. QED BY ONLY <4>1, <4>2, <2>3
    <3>5. ASSUME NEW x, x = T PROVE Client!ScanByte(St(d, T, F, 0), b, i) = St(d, x, T, 0)
      BY <3>3, <3>4, <3>5, <1>1, Zenon
    <3>6. QED BY <3>5, <1>1, Zenon
  <2>7. St(d, F, F, 0).end = 0 /\ St(d, F, F, 0).esc = F /\ St(d, F, F, 0).inStr = F /\ St(d, F, F, 0).depth = d
    BY ONLY StParts
  <2>8. 1 # 3 /\ 2 # 3 /\ 2 # 1 BY ONLY TRUE
  <2>9. Client!ScanByte(St(d, F, F, 0), 3, i) = St(d, T, F, 0)
    <3>1. [St(d, F, F, 0) EXCEPT !.inStr = T] = St(d, T, F, 0) BY ONLY StInStr
    <3>2. QED BY <3>1, <2>7, <1>1, Zenon DEF Client!ScanByte, Client!Quote
  <2>10. Client!ScanByte(St(d, F, F, 0), 1, i) = St(d + 1, F, F, 0)
    <3>1. [St(d, F, F, 0) EXCEPT !.depth = d + 1] = St(d + 1, F, F, 0) BY ONLY StDepth
    <3>2. QED BY <3>1, <2>7, <2>8, <1>1, Zenon DEF Client!ScanByte, Client!Quote, Client!Open
  <2>11. ASSUME NEW e, e = IF d = 1 THEN i ELSE 0
         PROVE  Client!ScanByte(St(d, F, F, 0), 2, i) = St(d - 1, F, F, e)
    <3>1. [St(d, F, F, 0) EXCEPT !.depth = d - 1, !.end = e] = St(d - 1, F, F, e)
      <4>1. [St(d, F, F, 0) EXCEPT !.depth = d - 1, !.end = e]
              = [[St(d, F, F, 0) EXCEPT !.depth = d - 1] EXCEPT !.end = e]
        BY ONLY TRUE
      <4>2. [St(d, F, F, 0) EXCEPT !.depth = d - 1] = St(d - 1, F, F, 0) BY ONLY TRUE DEF St
      <4>3. [St(d - 1, F, F, 0) EXCEPT !.end = e] = St(d - 1, F, F, e) BY ONLY TRUE DEF St
      <4>4. QED BY ONLY <4>1, <4>2, <4>3
    <3>2. QED BY <3>1, <2>7, <2>8, <2>11, <1>1, Zenon DEF Client!ScanByte, Client!Quote, Client!Open, Client!Close
  <2>12. QED BY <2>1, <2>2, <2>4, <2>5, <2>6, <2>9, <2>10, <2>11, <1>1, Zenon
<1>2. QED
  <2> DEFINE T == TRUE
         F == FALSE
  <2>1. T = TRUE /\ F = FALSE OBVIOUS
  <2> HIDE DEF T, F
  <2>2. Moves(T, F) BY <2>1, <1>1, Zenon
  <2>3. QED BY <2>1, <2>2, Zenon

Found(n) == St(0, FALSE, FALSE, n)

LEMMA FoundStays ==
    ASSUME NEW n, n # 0
    PROVE  /\ \A b, i : Client!ScanByte(Found(n), b, i) = Found(n)
           /\ Found(n).end = n
<1>1. Found(n).end = n BY DEF Found, St
<1>2. QED BY <1>1, Zenon DEF Client!ScanByte

(* The scan of the first k bytes of a message: nothing is found before the last one *)
LEMMA ScanMessage ==
    ASSUME NEW m \in Client!Message, NEW k \in Nat, k <= Len(m),
           NEW f, f[0] = Client!ScanStart,
           \A i \in 1..k : f[i] = Client!ScanByte(f[i - 1], m[i], i)
    PROVE  \/ f[k] = Found(Len(m)) /\ k = Len(m)
           \/ f[k].end = 0 /\ k < Len(m)
<1>1. PICK T, F : T = TRUE /\ F = FALSE /\ Moves(T, F) BY ScanMoves, Zenon
<1>2. Moves(T, F) BY <1>1, Zenon
<1>3. \A b, i : Client!ScanByte(St(1, T, T, 0), b, i) = St(1, T, F, 0) BY ONLY <1>2 DEF Moves
<1>4. \A b, i : b # 3 /\ b # 4 => Client!ScanByte(St(1, T, F, 0), b, i) = St(1, T, F, 0)
  BY ONLY <1>2 DEF Moves
<1>5. \A i : /\ Client!ScanByte(St(1, T, F, 0), 3, i) = St(1, F, F, 0)
              /\ Client!ScanByte(St(1, T, F, 0), 4, i) = St(1, T, T, 0)
              /\ Client!ScanByte(St(1, F, F, 0), 3, i) = St(1, T, F, 0)
  BY ONLY <1>2 DEF Moves
<1>6. \A i : Client!ScanByte(St(0, F, F, 0), 1, i) = St(1, F, F, 0)
  <2>1. \A i : Client!ScanByte(St(0, F, F, 0), 1, i) = St(0 + 1, F, F, 0) BY ONLY <1>2 DEF Moves
  <2>2. 0 + 1 = 1 OBVIOUS
  <2>3. QED BY ONLY <2>1, <2>2
<1>7. \A i : Client!ScanByte(St(1, F, F, 0), 1, i) = St(2, F, F, 0)
  <2>1. \A i : Client!ScanByte(St(1, F, F, 0), 1, i) = St(1 + 1, F, F, 0) BY ONLY <1>2 DEF Moves
  <2>2. 1 + 1 = 2 OBVIOUS
  <2>3. QED BY ONLY <2>1, <2>2
<1>8. \A i : Client!ScanByte(St(2, F, F, 0), 2, i) = St(1, F, F, 0)
  <2>1. \A i : Client!ScanByte(St(2, F, F, 0), 2, i) = St(2 - 1, F, F, IF 2 = 1 THEN i ELSE 0)
    BY ONLY <1>2 DEF Moves
  <2>2. 2 - 1 = 1 /\ 2 # 1 OBVIOUS
  <2>3. QED BY ONLY <2>1, <2>2
<1>9. \A i : Client!ScanByte(St(1, F, F, 0), 2, i) = St(0, F, F, i)
  <2>1. \A i : Client!ScanByte(St(1, F, F, 0), 2, i) = St(1 - 1, F, F, IF 1 = 1 THEN i ELSE 0)
    BY ONLY <1>2 DEF Moves
  <2>2. 1 - 1 = 0 OBVIOUS
  <2>3. QED BY ONLY <2>1, <2>2
<1>10. \A j \in Nat : 0 < j /\ j <= k => j - 1 <= k /\ f[j] = Client!ScanByte(f[j - 1], m[j], j) OBVIOUS
<1>11. f[0] = St(0, F, F, 0)
  <2>1. f[0] = St(0, FALSE, FALSE, 0) BY DEF Client!ScanStart, St
  <2>2. QED BY <2>1, <1>1, Zenon
<1>12. 1 - 1 = 0 /\ 2 - 1 = 1 /\ 3 - 1 = 2 /\ 4 - 1 = 3 /\ 5 - 1 = 4 /\ 6 - 1 = 5 /\ 7 - 1 = 6 OBVIOUS
<1>13. \A d, q, e : St(d, q, e, 0).end = 0 BY DEF St
<1>14. k \in Nat OBVIOUS
<1>15. \A x : St(0, F, F, x) = Found(x) BY <1>1, Zenon DEF Found
<1>16. 1 # 3 /\ 1 # 4 /\ 2 # 3 /\ 2 # 4 OBVIOUS
<1>17. CASE m = <<1, 2>>
  <2>1. Len(m) = 2 /\ m[1] = 1 /\ m[2] = 2 BY <1>17
  <2>2. 1 <= k => f[1] = St(1, F, F, 0)
    <3>1. 1 <= k => 0 <= k /\ f[1] = Client!ScanByte(f[0], 1, 1) BY ONLY <1>10, <1>12, <2>1
    <3>2. Client!ScanByte(St(0, F, F, 0), 1, 1) = St(1, F, F, 0) BY <1>16, <1>3, <1>4, <1>5, <1>6, <1>7, <1>8, <1>9, Zenon
    <3>3. QED BY <3>1, <3>2, <1>11, Zenon
  <2>3. 2 <= k => f[2] = St(0, F, F, 2)
    <3>1. 2 <= k => 1 <= k /\ f[2] = Client!ScanByte(f[1], 2, 2) BY ONLY <1>10, <1>12, <2>1
    <3>2. Client!ScanByte(St(1, F, F, 0), 2, 2) = St(0, F, F, 2) BY <1>16, <1>3, <1>4, <1>5, <1>6, <1>7, <1>8, <1>9, Zenon
    <3>3. QED BY <3>1, <3>2, <2>2, Zenon
  <2>4. k = 2 \/ k = 0 \/ k = 1 BY ONLY <1>14, <2>1, k <= Len(m)
  <2>5. CASE k = 2
    <3>1. 2 <= k BY ONLY <2>5
    <3>2. f[k] = St(0, F, F, Len(m)) BY <3>1, <2>1, <2>3, <2>5, Zenon
    <3>3. f[k] = Found(Len(m)) BY <3>2, <1>15, Zenon
    <3>4. k = Len(m) BY ONLY <2>1, <2>5
    <3>5. QED BY ONLY <3>3, <3>4
  <2>6. CASE k = 0
    <3>1. 0 <= k /\ k < Len(m) BY ONLY <2>6, <2>1
    <3>2. f[k] = St(0, F, F, 0) BY <3>1, <1>11, <2>6, Zenon
    <3>3. QED BY <3>1, <3>2, <1>13, Zenon
  <2>7. CASE k = 1
    <3>1. 1 <= k /\ k < Len(m) BY ONLY <2>7, <2>1
    <3>2. f[k] = St(1, F, F, 0) BY <3>1, <2>2, <2>7, Zenon
    <3>3. QED BY <3>1, <3>2, <1>13, Zenon
  <2>8. QED BY <2>4, <2>5, <2>6, <2>7, Zenon
<1>18. CASE m = <<1, 1, 2, 2>>
  <2>1. Len(m) = 4 /\ m[1] = 1 /\ m[2] = 1 /\ m[3] = 2 /\ m[4] = 2 BY <1>18
  <2>2. 1 <= k => f[1] = St(1, F, F, 0)
    <3>1. 1 <= k => 0 <= k /\ f[1] = Client!ScanByte(f[0], 1, 1) BY ONLY <1>10, <1>12, <2>1
    <3>2. Client!ScanByte(St(0, F, F, 0), 1, 1) = St(1, F, F, 0) BY <1>16, <1>3, <1>4, <1>5, <1>6, <1>7, <1>8, <1>9, Zenon
    <3>3. QED BY <3>1, <3>2, <1>11, Zenon
  <2>3. 2 <= k => f[2] = St(2, F, F, 0)
    <3>1. 2 <= k => 1 <= k /\ f[2] = Client!ScanByte(f[1], 1, 2) BY ONLY <1>10, <1>12, <2>1
    <3>2. Client!ScanByte(St(1, F, F, 0), 1, 2) = St(2, F, F, 0) BY <1>16, <1>3, <1>4, <1>5, <1>6, <1>7, <1>8, <1>9, Zenon
    <3>3. QED BY <3>1, <3>2, <2>2, Zenon
  <2>4. 3 <= k => f[3] = St(1, F, F, 0)
    <3>1. 3 <= k => 2 <= k /\ f[3] = Client!ScanByte(f[2], 2, 3) BY ONLY <1>10, <1>12, <2>1
    <3>2. Client!ScanByte(St(2, F, F, 0), 2, 3) = St(1, F, F, 0) BY <1>16, <1>3, <1>4, <1>5, <1>6, <1>7, <1>8, <1>9, Zenon
    <3>3. QED BY <3>1, <3>2, <2>3, Zenon
  <2>5. 4 <= k => f[4] = St(0, F, F, 4)
    <3>1. 4 <= k => 3 <= k /\ f[4] = Client!ScanByte(f[3], 2, 4) BY ONLY <1>10, <1>12, <2>1
    <3>2. Client!ScanByte(St(1, F, F, 0), 2, 4) = St(0, F, F, 4) BY <1>16, <1>3, <1>4, <1>5, <1>6, <1>7, <1>8, <1>9, Zenon
    <3>3. QED BY <3>1, <3>2, <2>4, Zenon
  <2>6. k = 4 \/ k = 0 \/ k = 1 \/ k = 2 \/ k = 3 BY ONLY <1>14, <2>1, k <= Len(m)
  <2>7. CASE k = 4
    <3>1. 4 <= k BY ONLY <2>7
    <3>2. f[k] = St(0, F, F, Len(m)) BY <3>1, <2>1, <2>5, <2>7, Zenon
    <3>3. f[k] = Found(Len(m)) BY <3>2, <1>15, Zenon
    <3>4. k = Len(m) BY ONLY <2>1, <2>7
    <3>5. QED BY ONLY <3>3, <3>4
  <2>8. CASE k = 0
    <3>1. 0 <= k /\ k < Len(m) BY ONLY <2>8, <2>1
    <3>2. f[k] = St(0, F, F, 0) BY <3>1, <1>11, <2>8, Zenon
    <3>3. QED BY <3>1, <3>2, <1>13, Zenon
  <2>9. CASE k = 1
    <3>1. 1 <= k /\ k < Len(m) BY ONLY <2>9, <2>1
    <3>2. f[k] = St(1, F, F, 0) BY <3>1, <2>2, <2>9, Zenon
    <3>3. QED BY <3>1, <3>2, <1>13, Zenon
  <2>10. CASE k = 2
    <3>1. 2 <= k /\ k < Len(m) BY ONLY <2>10, <2>1
    <3>2. f[k] = St(2, F, F, 0) BY <3>1, <2>3, <2>10, Zenon
    <3>3. QED BY <3>1, <3>2, <1>13, Zenon
  <2>11. CASE k = 3
    <3>1. 3 <= k /\ k < Len(m) BY ONLY <2>11, <2>1
    <3>2. f[k] = St(1, F, F, 0) BY <3>1, <2>4, <2>11, Zenon
    <3>3. QED BY <3>1, <3>2, <1>13, Zenon
  <2>12. QED BY <2>6, <2>7, <2>8, <2>9, <2>10, <2>11, Zenon
<1>19. CASE m = <<1, 3, 2, 3, 2>>
  <2>1. Len(m) = 5 /\ m[1] = 1 /\ m[2] = 3 /\ m[3] = 2 /\ m[4] = 3 /\ m[5] = 2 BY <1>19
  <2>2. 1 <= k => f[1] = St(1, F, F, 0)
    <3>1. 1 <= k => 0 <= k /\ f[1] = Client!ScanByte(f[0], 1, 1) BY ONLY <1>10, <1>12, <2>1
    <3>2. Client!ScanByte(St(0, F, F, 0), 1, 1) = St(1, F, F, 0) BY <1>16, <1>3, <1>4, <1>5, <1>6, <1>7, <1>8, <1>9, Zenon
    <3>3. QED BY <3>1, <3>2, <1>11, Zenon
  <2>3. 2 <= k => f[2] = St(1, T, F, 0)
    <3>1. 2 <= k => 1 <= k /\ f[2] = Client!ScanByte(f[1], 3, 2) BY ONLY <1>10, <1>12, <2>1
    <3>2. Client!ScanByte(St(1, F, F, 0), 3, 2) = St(1, T, F, 0) BY <1>16, <1>3, <1>4, <1>5, <1>6, <1>7, <1>8, <1>9, Zenon
    <3>3. QED BY <3>1, <3>2, <2>2, Zenon
  <2>4. 3 <= k => f[3] = St(1, T, F, 0)
    <3>1. 3 <= k => 2 <= k /\ f[3] = Client!ScanByte(f[2], 2, 3) BY ONLY <1>10, <1>12, <2>1
    <3>2. Client!ScanByte(St(1, T, F, 0), 2, 3) = St(1, T, F, 0) BY <1>16, <1>3, <1>4, <1>5, <1>6, <1>7, <1>8, <1>9, Zenon
    <3>3. QED BY <3>1, <3>2, <2>3, Zenon
  <2>5. 4 <= k => f[4] = St(1, F, F, 0)
    <3>1. 4 <= k => 3 <= k /\ f[4] = Client!ScanByte(f[3], 3, 4) BY ONLY <1>10, <1>12, <2>1
    <3>2. Client!ScanByte(St(1, T, F, 0), 3, 4) = St(1, F, F, 0) BY <1>16, <1>3, <1>4, <1>5, <1>6, <1>7, <1>8, <1>9, Zenon
    <3>3. QED BY <3>1, <3>2, <2>4, Zenon
  <2>6. 5 <= k => f[5] = St(0, F, F, 5)
    <3>1. 5 <= k => 4 <= k /\ f[5] = Client!ScanByte(f[4], 2, 5) BY ONLY <1>10, <1>12, <2>1
    <3>2. Client!ScanByte(St(1, F, F, 0), 2, 5) = St(0, F, F, 5) BY <1>16, <1>3, <1>4, <1>5, <1>6, <1>7, <1>8, <1>9, Zenon
    <3>3. QED BY <3>1, <3>2, <2>5, Zenon
  <2>7. k = 5 \/ k = 0 \/ k = 1 \/ k = 2 \/ k = 3 \/ k = 4 BY ONLY <1>14, <2>1, k <= Len(m)
  <2>8. CASE k = 5
    <3>1. 5 <= k BY ONLY <2>8
    <3>2. f[k] = St(0, F, F, Len(m)) BY <3>1, <2>1, <2>6, <2>8, Zenon
    <3>3. f[k] = Found(Len(m)) BY <3>2, <1>15, Zenon
    <3>4. k = Len(m) BY ONLY <2>1, <2>8
    <3>5. QED BY ONLY <3>3, <3>4
  <2>9. CASE k = 0
    <3>1. 0 <= k /\ k < Len(m) BY ONLY <2>9, <2>1
    <3>2. f[k] = St(0, F, F, 0) BY <3>1, <1>11, <2>9, Zenon
    <3>3. QED BY <3>1, <3>2, <1>13, Zenon
  <2>10. CASE k = 1
    <3>1. 1 <= k /\ k < Len(m) BY ONLY <2>10, <2>1
    <3>2. f[k] = St(1, F, F, 0) BY <3>1, <2>2, <2>10, Zenon
    <3>3. QED BY <3>1, <3>2, <1>13, Zenon
  <2>11. CASE k = 2
    <3>1. 2 <= k /\ k < Len(m) BY ONLY <2>11, <2>1
    <3>2. f[k] = St(1, T, F, 0) BY <3>1, <2>3, <2>11, Zenon
    <3>3. QED BY <3>1, <3>2, <1>13, Zenon
  <2>12. CASE k = 3
    <3>1. 3 <= k /\ k < Len(m) BY ONLY <2>12, <2>1
    <3>2. f[k] = St(1, T, F, 0) BY <3>1, <2>4, <2>12, Zenon
    <3>3. QED BY <3>1, <3>2, <1>13, Zenon
  <2>13. CASE k = 4
    <3>1. 4 <= k /\ k < Len(m) BY ONLY <2>13, <2>1
    <3>2. f[k] = St(1, F, F, 0) BY <3>1, <2>5, <2>13, Zenon
    <3>3. QED BY <3>1, <3>2, <1>13, Zenon
  <2>14. QED BY <2>7, <2>8, <2>9, <2>10, <2>11, <2>12, <2>13, Zenon
<1>20. CASE m = <<1, 3, 4, 3, 1, 3, 2>>
  <2>1. Len(m) = 7 /\ m[1] = 1 /\ m[2] = 3 /\ m[3] = 4 /\ m[4] = 3 /\ m[5] = 1 /\ m[6] = 3 /\ m[7] = 2 BY <1>20
  <2>2. 1 <= k => f[1] = St(1, F, F, 0)
    <3>1. 1 <= k => 0 <= k /\ f[1] = Client!ScanByte(f[0], 1, 1) BY ONLY <1>10, <1>12, <2>1
    <3>2. Client!ScanByte(St(0, F, F, 0), 1, 1) = St(1, F, F, 0) BY <1>16, <1>3, <1>4, <1>5, <1>6, <1>7, <1>8, <1>9, Zenon
    <3>3. QED BY <3>1, <3>2, <1>11, Zenon
  <2>3. 2 <= k => f[2] = St(1, T, F, 0)
    <3>1. 2 <= k => 1 <= k /\ f[2] = Client!ScanByte(f[1], 3, 2) BY ONLY <1>10, <1>12, <2>1
    <3>2. Client!ScanByte(St(1, F, F, 0), 3, 2) = St(1, T, F, 0) BY <1>16, <1>3, <1>4, <1>5, <1>6, <1>7, <1>8, <1>9, Zenon
    <3>3. QED BY <3>1, <3>2, <2>2, Zenon
  <2>4. 3 <= k => f[3] = St(1, T, T, 0)
    <3>1. 3 <= k => 2 <= k /\ f[3] = Client!ScanByte(f[2], 4, 3) BY ONLY <1>10, <1>12, <2>1
    <3>2. Client!ScanByte(St(1, T, F, 0), 4, 3) = St(1, T, T, 0) BY <1>16, <1>3, <1>4, <1>5, <1>6, <1>7, <1>8, <1>9, Zenon
    <3>3. QED BY <3>1, <3>2, <2>3, Zenon
  <2>5. 4 <= k => f[4] = St(1, T, F, 0)
    <3>1. 4 <= k => 3 <= k /\ f[4] = Client!ScanByte(f[3], 3, 4) BY ONLY <1>10, <1>12, <2>1
    <3>2. Client!ScanByte(St(1, T, T, 0), 3, 4) = St(1, T, F, 0) BY <1>16, <1>3, <1>4, <1>5, <1>6, <1>7, <1>8, <1>9, Zenon
    <3>3. QED BY <3>1, <3>2, <2>4, Zenon
  <2>6. 5 <= k => f[5] = St(1, T, F, 0)
    <3>1. 5 <= k => 4 <= k /\ f[5] = Client!ScanByte(f[4], 1, 5) BY ONLY <1>10, <1>12, <2>1
    <3>2. Client!ScanByte(St(1, T, F, 0), 1, 5) = St(1, T, F, 0) BY <1>16, <1>3, <1>4, <1>5, <1>6, <1>7, <1>8, <1>9, Zenon
    <3>3. QED BY <3>1, <3>2, <2>5, Zenon
  <2>7. 6 <= k => f[6] = St(1, F, F, 0)
    <3>1. 6 <= k => 5 <= k /\ f[6] = Client!ScanByte(f[5], 3, 6) BY ONLY <1>10, <1>12, <2>1
    <3>2. Client!ScanByte(St(1, T, F, 0), 3, 6) = St(1, F, F, 0) BY <1>16, <1>3, <1>4, <1>5, <1>6, <1>7, <1>8, <1>9, Zenon
    <3>3. QED BY <3>1, <3>2, <2>6, Zenon
  <2>8. 7 <= k => f[7] = St(0, F, F, 7)
    <3>1. 7 <= k => 6 <= k /\ f[7] = Client!ScanByte(f[6], 2, 7) BY ONLY <1>10, <1>12, <2>1
    <3>2. Client!ScanByte(St(1, F, F, 0), 2, 7) = St(0, F, F, 7) BY <1>16, <1>3, <1>4, <1>5, <1>6, <1>7, <1>8, <1>9, Zenon
    <3>3. QED BY <3>1, <3>2, <2>7, Zenon
  <2>9. k = 7 \/ k = 0 \/ k = 1 \/ k = 2 \/ k = 3 \/ k = 4 \/ k = 5 \/ k = 6 BY ONLY <1>14, <2>1, k <= Len(m)
  <2>10. CASE k = 7
    <3>1. 7 <= k BY ONLY <2>10
    <3>2. f[k] = St(0, F, F, Len(m)) BY <3>1, <2>1, <2>8, <2>10, Zenon
    <3>3. f[k] = Found(Len(m)) BY <3>2, <1>15, Zenon
    <3>4. k = Len(m) BY ONLY <2>1, <2>10
    <3>5. QED BY ONLY <3>3, <3>4
  <2>11. CASE k = 0
    <3>1. 0 <= k /\ k < Len(m) BY ONLY <2>11, <2>1
    <3>2. f[k] = St(0, F, F, 0) BY <3>1, <1>11, <2>11, Zenon
    <3>3. QED BY <3>1, <3>2, <1>13, Zenon
  <2>12. CASE k = 1
    <3>1. 1 <= k /\ k < Len(m) BY ONLY <2>12, <2>1
    <3>2. f[k] = St(1, F, F, 0) BY <3>1, <2>2, <2>12, Zenon
    <3>3. QED BY <3>1, <3>2, <1>13, Zenon
  <2>13. CASE k = 2
    <3>1. 2 <= k /\ k < Len(m) BY ONLY <2>13, <2>1
    <3>2. f[k] = St(1, T, F, 0) BY <3>1, <2>3, <2>13, Zenon
    <3>3. QED BY <3>1, <3>2, <1>13, Zenon
  <2>14. CASE k = 3
    <3>1. 3 <= k /\ k < Len(m) BY ONLY <2>14, <2>1
    <3>2. f[k] = St(1, T, T, 0) BY <3>1, <2>4, <2>14, Zenon
    <3>3. QED BY <3>1, <3>2, <1>13, Zenon
  <2>15. CASE k = 4
    <3>1. 4 <= k /\ k < Len(m) BY ONLY <2>15, <2>1
    <3>2. f[k] = St(1, T, F, 0) BY <3>1, <2>5, <2>15, Zenon
    <3>3. QED BY <3>1, <3>2, <1>13, Zenon
  <2>16. CASE k = 5
    <3>1. 5 <= k /\ k < Len(m) BY ONLY <2>16, <2>1
    <3>2. f[k] = St(1, T, F, 0) BY <3>1, <2>6, <2>16, Zenon
    <3>3. QED BY <3>1, <3>2, <1>13, Zenon
  <2>17. CASE k = 6
    <3>1. 6 <= k /\ k < Len(m) BY ONLY <2>17, <2>1
    <3>2. f[k] = St(1, F, F, 0) BY <3>1, <2>7, <2>17, Zenon
    <3>3. QED BY <3>1, <3>2, <1>13, Zenon
  <2>18. QED BY <2>9, <2>10, <2>11, <2>12, <2>13, <2>14, <2>15, <2>16, <2>17, Zenon
<1>21. CASE m = <<1, 3, 4, 4, 3, 2>>
  <2>1. Len(m) = 6 /\ m[1] = 1 /\ m[2] = 3 /\ m[3] = 4 /\ m[4] = 4 /\ m[5] = 3 /\ m[6] = 2 BY <1>21
  <2>2. 1 <= k => f[1] = St(1, F, F, 0)
    <3>1. 1 <= k => 0 <= k /\ f[1] = Client!ScanByte(f[0], 1, 1) BY ONLY <1>10, <1>12, <2>1
    <3>2. Client!ScanByte(St(0, F, F, 0), 1, 1) = St(1, F, F, 0) BY <1>16, <1>3, <1>4, <1>5, <1>6, <1>7, <1>8, <1>9, Zenon
    <3>3. QED BY <3>1, <3>2, <1>11, Zenon
  <2>3. 2 <= k => f[2] = St(1, T, F, 0)
    <3>1. 2 <= k => 1 <= k /\ f[2] = Client!ScanByte(f[1], 3, 2) BY ONLY <1>10, <1>12, <2>1
    <3>2. Client!ScanByte(St(1, F, F, 0), 3, 2) = St(1, T, F, 0) BY <1>16, <1>3, <1>4, <1>5, <1>6, <1>7, <1>8, <1>9, Zenon
    <3>3. QED BY <3>1, <3>2, <2>2, Zenon
  <2>4. 3 <= k => f[3] = St(1, T, T, 0)
    <3>1. 3 <= k => 2 <= k /\ f[3] = Client!ScanByte(f[2], 4, 3) BY ONLY <1>10, <1>12, <2>1
    <3>2. Client!ScanByte(St(1, T, F, 0), 4, 3) = St(1, T, T, 0) BY <1>16, <1>3, <1>4, <1>5, <1>6, <1>7, <1>8, <1>9, Zenon
    <3>3. QED BY <3>1, <3>2, <2>3, Zenon
  <2>5. 4 <= k => f[4] = St(1, T, F, 0)
    <3>1. 4 <= k => 3 <= k /\ f[4] = Client!ScanByte(f[3], 4, 4) BY ONLY <1>10, <1>12, <2>1
    <3>2. Client!ScanByte(St(1, T, T, 0), 4, 4) = St(1, T, F, 0) BY <1>16, <1>3, <1>4, <1>5, <1>6, <1>7, <1>8, <1>9, Zenon
    <3>3. QED BY <3>1, <3>2, <2>4, Zenon
  <2>6. 5 <= k => f[5] = St(1, F, F, 0)
    <3>1. 5 <= k => 4 <= k /\ f[5] = Client!ScanByte(f[4], 3, 5) BY ONLY <1>10, <1>12, <2>1
    <3>2. Client!ScanByte(St(1, T, F, 0), 3, 5) = St(1, F, F, 0) BY <1>16, <1>3, <1>4, <1>5, <1>6, <1>7, <1>8, <1>9, Zenon
    <3>3. QED BY <3>1, <3>2, <2>5, Zenon
  <2>7. 6 <= k => f[6] = St(0, F, F, 6)
    <3>1. 6 <= k => 5 <= k /\ f[6] = Client!ScanByte(f[5], 2, 6) BY ONLY <1>10, <1>12, <2>1
    <3>2. Client!ScanByte(St(1, F, F, 0), 2, 6) = St(0, F, F, 6) BY <1>16, <1>3, <1>4, <1>5, <1>6, <1>7, <1>8, <1>9, Zenon
    <3>3. QED BY <3>1, <3>2, <2>6, Zenon
  <2>8. k = 6 \/ k = 0 \/ k = 1 \/ k = 2 \/ k = 3 \/ k = 4 \/ k = 5 BY ONLY <1>14, <2>1, k <= Len(m)
  <2>9. CASE k = 6
    <3>1. 6 <= k BY ONLY <2>9
    <3>2. f[k] = St(0, F, F, Len(m)) BY <3>1, <2>1, <2>7, <2>9, Zenon
    <3>3. f[k] = Found(Len(m)) BY <3>2, <1>15, Zenon
    <3>4. k = Len(m) BY ONLY <2>1, <2>9
    <3>5. QED BY ONLY <3>3, <3>4
  <2>10. CASE k = 0
    <3>1. 0 <= k /\ k < Len(m) BY ONLY <2>10, <2>1
    <3>2. f[k] = St(0, F, F, 0) BY <3>1, <1>11, <2>10, Zenon
    <3>3. QED BY <3>1, <3>2, <1>13, Zenon
  <2>11. CASE k = 1
    <3>1. 1 <= k /\ k < Len(m) BY ONLY <2>11, <2>1
    <3>2. f[k] = St(1, F, F, 0) BY <3>1, <2>2, <2>11, Zenon
    <3>3. QED BY <3>1, <3>2, <1>13, Zenon
  <2>12. CASE k = 2
    <3>1. 2 <= k /\ k < Len(m) BY ONLY <2>12, <2>1
    <3>2. f[k] = St(1, T, F, 0) BY <3>1, <2>3, <2>12, Zenon
    <3>3. QED BY <3>1, <3>2, <1>13, Zenon
  <2>13. CASE k = 3
    <3>1. 3 <= k /\ k < Len(m) BY ONLY <2>13, <2>1
    <3>2. f[k] = St(1, T, T, 0) BY <3>1, <2>4, <2>13, Zenon
    <3>3. QED BY <3>1, <3>2, <1>13, Zenon
  <2>14. CASE k = 4
    <3>1. 4 <= k /\ k < Len(m) BY ONLY <2>14, <2>1
    <3>2. f[k] = St(1, T, F, 0) BY <3>1, <2>5, <2>14, Zenon
    <3>3. QED BY <3>1, <3>2, <1>13, Zenon
  <2>15. CASE k = 5
    <3>1. 5 <= k /\ k < Len(m) BY ONLY <2>15, <2>1
    <3>2. f[k] = St(1, F, F, 0) BY <3>1, <2>6, <2>15, Zenon
    <3>3. QED BY <3>1, <3>2, <1>13, Zenon
  <2>16. QED BY <2>8, <2>9, <2>10, <2>11, <2>12, <2>13, <2>14, <2>15, Zenon
<1>22. QED BY <1>17, <1>18, <1>19, <1>20, <1>21 DEF Client!Message, Client!Open, Client!Close, Client!Quote, Client!Esc

LEMMA ClientMessage ==
    ASSUME NEW m \in Client!Message
    PROVE  m \in Seq(Nat) /\ Len(m) \in Nat /\ Len(m) > 0 /\ m[1] = 1
<1> USE DEF Client!Message, Client!Open, Client!Close, Client!Quote, Client!Esc
<1>1. CASE m = <<1, 2>> BY <1>1
<1>2. CASE m = <<1, 1, 2, 2>> BY <1>2
<1>3. CASE m = <<1, 3, 2, 3, 2>> BY <1>3
<1>4. CASE m = <<1, 3, 4, 3, 1, 3, 2>> BY <1>4
<1>5. CASE m = <<1, 3, 4, 4, 3, 2>> BY <1>5
<1>6. QED BY <1>1, <1>2, <1>3, <1>4, <1>5

(* Once the end is found the scan keeps it, whatever follows *)
LEMMA FindWhole ==
    ASSUME NEW m \in Client!Message, NEW r \in Seq(Nat), NEW buf, buf = m \o r
    PROVE  Client!FindJsonEnd(buf) = Len(m)
<1> DEFINE n == Len(m)
<1>1. /\ m \in Seq(Nat) /\ n \in Nat /\ n > 0 /\ Len(buf) \in Nat /\ n <= Len(buf)
      /\ \A i \in 1..n : buf[i] = m[i]
  <2>1. m \in Seq(Nat) /\ n \in Nat /\ n > 0 BY ClientMessage
  <2>2. Len(r) \in Nat /\ Len(buf) = n + Len(r) /\ \A i \in 1..n : buf[i] = m[i] BY <2>1, JoinIs
  <2>3. Len(buf) \in Nat /\ n <= Len(buf) BY ONLY <2>1, <2>2
  <2>4. QED BY <2>1, <2>2, <2>3
<1>2. PICK f : /\ Client!FindJsonEnd(buf) = f[Len(buf)].end
               /\ f[0] = Client!ScanStart
               /\ \A i \in 1..Len(buf) : f[i] = Client!ScanByte(f[i - 1], buf[i], i)
  BY <1>1, ScanFinds
<1>3. f[n] = Found(n)
  <2>1. \A i \in 1..n : f[i] = Client!ScanByte(f[i - 1], m[i], i)
    <3>1. ASSUME NEW i \in 1..n PROVE i \in 1..Len(buf) /\ buf[i] = m[i] BY <1>1
    <3>2. QED BY <3>1, <1>2
  <2>2. n <= n /\ ~ (n < n) BY ONLY <1>1
  <2>3. f[0] = Client!ScanStart BY <1>2
  <2>4. \/ f[n] = Found(n) /\ n = n
        \/ f[n].end = 0 /\ n < n
    <3>1. n \in Nat /\ n <= Len(m) BY <1>1
    <3>2. QED BY <2>1, <2>3, <3>1, ScanMessage
  <2>5. QED BY ONLY <2>2, <2>4
<1> DEFINE Bad == {j \in Nat : n <= j /\ j <= Len(buf) /\ f[j] # Found(n)}
<1>4. Bad = {}
  <2>1. SUFFICES ASSUME Bad # {} PROVE FALSE OBVIOUS
  <2>2. PICK j \in Bad : \A l \in Bad : j <= l
    <3>1. Bad \in SUBSET Nat OBVIOUS
    <3> HIDE DEF Bad
    <3>2. QED BY <2>1, <3>1, Least
  <2>3. j \in Nat /\ n <= j /\ j <= Len(buf) /\ f[j] # Found(n) BY <2>2
  <2>4. j # n BY <2>3, <1>3
  <2>5. /\ j - 1 \in Nat /\ n <= j - 1 /\ j - 1 <= Len(buf) /\ ~ (j <= j - 1)
        /\ j \in 1..Len(buf) /\ n # 0
    BY ONLY <2>3, <2>4, <1>1
  <2>6. f[j - 1] = Found(n)
    <3>1. j - 1 \notin Bad BY <2>5, <2>2
    <3>2. QED BY <3>1, <2>5
  <2>7. f[j] = Client!ScanByte(Found(n), buf[j], j) BY <2>5, <2>6, <1>2
  <2>8. f[j] = Found(n) BY <2>5, <2>7, FoundStays
  <2>9. QED BY <2>3, <2>8
<1>5. f[Len(buf)] = Found(n) BY <1>1, <1>4
<1>6. n # 0 BY <1>1
<1>7. Found(n).end = n BY <1>6, FoundStays
<1>8. QED BY <1>2, <1>5, <1>7

LEMMA FindPart ==
    ASSUME NEW m \in Client!Message, NEW k \in Nat, k < Len(m), NEW q, q = SubSeq(m, 1, k)
    PROVE  Client!FindJsonEnd(q) = 0
<1>1. /\ m \in Seq(Nat) /\ Len(m) \in Nat /\ k \in 0..Len(m) /\ k <= Len(m) /\ ~ (k = Len(m))
  BY ClientMessage
<1>2. Len(q) = k /\ \A i \in 1..k : q[i] = m[i] BY <1>1, CutIs
<1>3. PICK f : /\ Client!FindJsonEnd(q) = f[k].end
               /\ f[0] = Client!ScanStart
               /\ \A i \in 1..k : f[i] = Client!ScanByte(f[i - 1], q[i], i)
  BY <1>2, ScanFinds, ZenonT(40)
<1>4. \A i \in 1..k : f[i] = Client!ScanByte(f[i - 1], m[i], i) BY <1>2, <1>3
<1>5. \/ f[k] = Found(Len(m)) /\ k = Len(m)
      \/ f[k].end = 0 /\ k < Len(m)
  BY <1>1, <1>3, <1>4, ScanMessage
<1>6. QED BY <1>1, <1>3, <1>5

(* A buffer that is empty or begins with something else than a blank is scanned as it is *)
LEMMA StartIs ==
    ASSUME NEW buf \in Seq(Nat), Len(buf) > 0 => buf[1] # 0
    PROVE  /\ (CHOOSE i \in 1..(Len(buf) + 1) :
                     /\ i <= Len(buf) => buf[i] # 0
                     /\ \A j \in 1..(i - 1) : buf[j] = 0) = 1
           /\ SubSeq(buf, 1, Len(buf)) = buf
<1> DEFINE P(i) == /\ i <= Len(buf) => buf[i] # 0
                   /\ \A j \in 1..(i - 1) : buf[j] = 0
<1>1. Len(buf) \in Nat OBVIOUS
<1>2. 1 \in 1..(Len(buf) + 1) /\ P(1) BY <1>1
<1>3. ASSUME NEW i \in 1..(Len(buf) + 1), P(i) PROVE i = 1
  <2>1. SUFFICES ASSUME i # 1 PROVE FALSE OBVIOUS
  <2>2. 1 \in 1..(i - 1) /\ Len(buf) > 0 BY ONLY <2>1, <1>1, i \in 1..(Len(buf) + 1)
  <2>3. buf[1] = 0 BY <2>2, <1>3
  <2>4. QED BY <2>2, <2>3
<1>4. SubSeq(buf, 1, Len(buf)) = buf BY JoinCut, EmptySeq
<1> HIDE DEF P
<1>5. (CHOOSE i \in 1..(Len(buf) + 1) : P(i)) = 1 BY <1>2, <1>3
<1>6. QED BY <1>4, <1>5 DEF P

LEMMA ClientReads ==
    ASSUME NEW m \in Client!Message, NEW r \in Seq(Nat)
    PROVE  Client!Extract(Client!Encode(m) \o r) = Took(<<m>>, r)
<1> DEFINE buf == m \o r
<1>1. m \in Seq(Nat) /\ Len(m) \in Nat /\ Len(m) > 0 /\ m[1] = 1 BY ClientMessage
<1>2. /\ buf \in Seq(Nat) /\ Len(m) \in 0..Len(m) /\ buf[1] # 0
      /\ SubSeq(buf, 1, Len(m)) = m /\ SubSeq(buf, Len(m) + 1, Len(buf)) = r
  <2>1. buf \in Seq(Nat) /\ \A i \in 1..Len(m) : buf[i] = m[i] BY <1>1, JoinIs
  <2>2. 1 \in 1..Len(m) /\ Len(m) \in 0..Len(m) BY ONLY <1>1
  <2>3. buf[1] = 1 BY <2>1, <2>2, <1>1
  <2>4. SubSeq(buf, Len(m) + 1, Len(buf)) = r /\ SubSeq(buf, 1, Len(m)) = m
    BY <1>1, <2>2, JoinCut
  <2>5. QED BY <2>1, <2>2, <2>3, <2>4
<1>3. Client!FindJsonEnd(buf) = Len(m) BY FindWhole
<1>4. Client!Encode(m) \o r = buf BY DEF Client!Encode
<1> HIDE DEF buf
<1>5. /\ (CHOOSE i \in 1..(Len(buf) + 1) :
                     /\ i <= Len(buf) => buf[i] # 0
                     /\ \A j \in 1..(i - 1) : buf[j] = 0) = 1
      /\ SubSeq(buf, 1, Len(buf)) = buf
  BY <1>2, StartIs
<1>6. Len(m) # 0 BY ONLY <1>1
<1>7. Client!Extract(buf) = Took(<<m>>, r)
  BY <1>2, <1>3, <1>5, <1>6, Zenon DEF Client!Extract, Client!Blank, Took
<1>8. QED BY <1>4, <1>7

LEMMA ClientKeeps ==
    ASSUME NEW q \in Seq(Nat), Len(q) > 0 => q[1] # 0, Client!FindJsonEnd(q) = 0
    PROVE  Client!Extract(q) = Kept(q)
<1>1. /\ (CHOOSE i \in 1..(Len(q) + 1) :
                     /\ i <= Len(q) => q[i] # 0
                     /\ \A j \in 1..(i - 1) : q[j] = 0) = 1
      /\ SubSeq(q, 1, Len(q)) = q
  BY StartIs
<1>2. QED BY <1>1, Zenon DEF Client!Extract, Client!Blank, Kept

LEMMA ClientWaits ==
    ASSUME NEW m \in Client!Message, NEW k \in Nat, k < Len(Client!Encode(m)),
           NEW q, q = SubSeq(Client!Encode(m), 1, k)
    PROVE  Client!Extract(q) = Kept(q)
<1>1. Client!Encode(m) = m BY DEF Client!Encode
<1>2. m \in Seq(Nat) /\ Len(m) \in Nat /\ Len(m) > 0 /\ m[1] = 1 BY ClientMessage
<1>3. k < Len(m) /\ q = SubSeq(m, 1, k) /\ k \in 0..Len(m) BY <1>1, <1>2
<1>4. q \in Seq(Nat) /\ Len(q) = k /\ \A i \in 1..k : q[i] = m[i] BY <1>2, <1>3, CutIs
<1>5. Len(q) > 0 => q[1] # 0 BY <1>2, <1>4
<1>6. Client!FindJsonEnd(q) = 0 BY <1>3, FindPart
<1>7. QED BY <1>4, <1>5, <1>6, ClientKeeps

LEMMA ClientEmpty == Client!Extract(<<>>) = Kept(<<>>)
<1>1. <<>> \in Seq(Nat) /\ Len(<<>>) = 0 OBVIOUS
<1>2. PICK m \in Client!Message : TRUE BY DEF Client!Message
<1>3. m \in Seq(Nat) /\ 0 \in Nat /\ 0 < Len(m) BY ClientMessage
<1>4. SubSeq(m, 1, 0) = <<>> BY <1>3
<1>5. Client!FindJsonEnd(<<>>) = 0 BY <1>3, <1>4, FindPart
<1> DEFINE q == <<>>
<1>6. q \in Seq(Nat) /\ (Len(q) > 0 => q[1] # 0) /\ Client!FindJsonEnd(q) = 0 BY <1>1, <1>5
<1> HIDE DEF q
<1>7. Client!Extract(q) = Kept(q) BY <1>6, ClientKeeps
<1>8. QED BY <1>7 DEF q

-----------------------------------------------------------------------------
(* The four of them at once.  The bytes of a message are one or two pieces: a turn of    *)
(* the loop takes the first, u, and v follows it.  A setting after a comment is the only *)
(* message of two pieces: the comment's line, which says nothing, and its own.           *)
Line(t) == t \o <<7>>

Piece(l, m, u, v) ==
    \/ l = "chat" /\ m \in Chat!Message /\ u = Chat!Encode(m) /\ v = <<>>
    \/ l = "client" /\ m \in Client!Message /\ u = Client!Encode(m) /\ v = <<>>
    \/ l = "cluster" /\ m \in Cluster!Message /\ u = Cluster!Encode(m) /\ v = <<>>
    \/ l = "env" /\ m \in Env!Message /\ u = Line(PlainText(m)) /\ v = <<>>
    \/ l = "env" /\ m \in Env!Message /\ u = Line(ExportText(m)) /\ v = <<>>
    \/ l = "env" /\ m \in Env!Message /\ u = Line(Comment) /\ v = Line(ExportText(m))

LEMMA LineIs ==
    ASSUME NEW t \in Seq(Nat)
    PROVE  Line(t) \in Seq(Nat) /\ Len(Line(t)) \in Nat /\ Len(Line(t)) > 0 /\ Line(t) # <<>>
<1>1. <<7>> \in Seq(Nat) /\ Len(<<7>>) = 1 OBVIOUS
<1>2. Len(t) \in Nat /\ Line(t) \in Seq(Nat) /\ Len(Line(t)) = Len(t) + 1 BY <1>1, JoinIs DEF Line
<1>3. Len(Line(t)) \in Nat /\ Len(Line(t)) > 0 BY ONLY <1>2
<1>4. 1 \in DOMAIN Line(t) BY <1>2, <1>3
<1>5. Line(t) # <<>> BY <1>4, NotEmpty
<1>6. QED BY <1>2, <1>3, <1>5

(* A piece is a sequence of bytes, and the second of two is a piece by itself *)
LEMMA PieceIs ==
    ASSUME NEW l, NEW m, NEW u, NEW v, Piece(l, m, u, v)
    PROVE  /\ u \in Seq(Nat) /\ v \in Seq(Nat) /\ Len(u) \in Nat /\ Len(v) \in Nat /\ Len(u) > 0
           /\ v # <<>> => Piece(l, m, v, <<>>)
<1>1. <<>> \in Seq(Nat) /\ Len(<<>>) = 0 OBVIOUS
<1>2. CASE l = "chat" /\ m \in Chat!Message /\ u = Chat!Encode(m) /\ v = <<>>
  <2>1. u = m \o <<0>> /\ m \in Seq(Nat) BY <1>2, ChatMessage
  <2>2. <<0>> \in Seq(Nat) /\ Len(<<0>>) = 1 OBVIOUS
  <2>3. u \in Seq(Nat) /\ Len(m) \in Nat /\ Len(u) = Len(m) + 1 BY <2>1, <2>2, JoinIs
  <2>4. QED BY <1>1, <1>2, <2>3
<1>3. CASE l = "client" /\ m \in Client!Message /\ u = Client!Encode(m) /\ v = <<>>
  <2>1. u = m /\ m \in Seq(Nat) /\ Len(m) \in Nat /\ Len(m) > 0 BY <1>3, ClientMessage DEF Client!Encode
  <2>2. QED BY <1>1, <1>3, <2>1
<1>4. CASE l = "cluster" /\ m \in Cluster!Message /\ u = Cluster!Encode(m) /\ v = <<>>
  <2>1. u \in Seq(Nat) /\ Len(u) \in Nat /\ Len(u) > 0 BY <1>4, ClusterBytes
  <2>2. QED BY <1>1, <1>4, <2>1
<1>5. CASE l = "env" /\ m \in Env!Message
           /\ \/ u = Line(PlainText(m)) /\ v = <<>>
              \/ u = Line(ExportText(m)) /\ v = <<>>
              \/ u = Line(Comment) /\ v = Line(ExportText(m))
  <2>1. PlainText(m) \in Seq(Nat) /\ ExportText(m) \in Seq(Nat) /\ Comment \in Seq(Nat)
    BY <1>5, LinesAre
  <2>2. \A t \in Seq(Nat) :
          Line(t) \in Seq(Nat) /\ Len(Line(t)) \in Nat /\ Len(Line(t)) > 0 /\ Line(t) # <<>>
    BY LineIs
  <2>3. /\ u \in Seq(Nat) /\ v \in Seq(Nat) /\ Len(u) \in Nat /\ Len(v) \in Nat /\ Len(u) > 0
    BY <1>1, <1>5, <2>1, <2>2
  <2>4. v # <<>> => Piece(l, m, v, <<>>) BY <1>5 DEF Piece
  <2>5. QED BY <2>3, <2>4
<1>6. QED BY <1>2, <1>3, <1>4, <1>5 DEF Piece

(* The turn that takes a piece hands over the message with the last of its pieces *)
Says(m, v) == IF v = <<>> THEN <<m>> ELSE <<>>

LEMMA PieceReads ==
    ASSUME NEW m, NEW u, NEW v, Piece(link, m, u, v), NEW r \in Seq(Nat), NEW buf, buf = u \o r
    PROVE  Extract(buf) = Took(Says(m, v), r)
<1>1. CASE link = "chat"
  <2>1. m \in Chat!Message /\ u = Chat!Encode(m) /\ v = <<>> BY <1>1 DEF Piece
  <2>2. Chat!Extract(buf) = Took(<<m>>, r) BY <2>1, ChatReads
  <2>3. Extract(buf) = Chat!Extract(buf) BY <1>1 DEF Extract
  <2>4. QED BY <2>1, <2>2, <2>3 DEF Says
<1>2. CASE link = "client"
  <2>1. m \in Client!Message /\ u = Client!Encode(m) /\ v = <<>> BY <1>2 DEF Piece
  <2>2. Client!Extract(buf) = Took(<<m>>, r) BY <2>1, ClientReads
  <2>3. Extract(buf) = Client!Extract(buf) BY <1>2 DEF Extract
  <2>4. QED BY <2>1, <2>2, <2>3 DEF Says
<1>3. CASE link = "cluster"
  <2>1. m \in Cluster!Message /\ u = Cluster!Encode(m) /\ v = <<>> BY <1>3 DEF Piece
  <2>2. Cluster!Extract(buf) = Took(<<m>>, r) BY <2>1, ClusterReads
  <2>3. Extract(buf) = Cluster!Extract(buf) BY <1>3 DEF Extract
  <2>4. QED BY <2>1, <2>2, <2>3 DEF Says
<1>4. CASE link = "env"
  <2>1. /\ m \in Env!Message
        /\ \/ u = Line(PlainText(m)) /\ v = <<>>
           \/ u = Line(ExportText(m)) /\ v = <<>>
           \/ u = Line(Comment) /\ v = Line(ExportText(m))
    BY <1>4 DEF Piece
  <2>2. ASSUME NEW t \in Seq(Nat), \A i \in 1..Len(t) : t[i] # 7, u = Line(t)
        PROVE  Env!Extract(buf) = Took(Env!Setting(t), r)
    <3>1. buf = (t \o <<7>>) \o r BY <2>2 DEF Line
    <3>2. QED BY <2>2, <3>1, LineReads
  <2>3. Env!Extract(buf) = Took(Says(m, v), r)
    <3>1. CASE u = Line(PlainText(m)) /\ v = <<>>
      <4>1. Env!Extract(buf) = Took(Env!Setting(PlainText(m)), r) BY <2>1, <2>2, <3>1, LinesAre
      <4>2. Env!Setting(PlainText(m)) = Says(m, v) BY <2>1, <3>1, LinesAre DEF Says
      <4>3. QED BY <4>1, <4>2
    <3>2. CASE u = Line(ExportText(m)) /\ v = <<>>
      <4>1. Env!Extract(buf) = Took(Env!Setting(ExportText(m)), r) BY <2>1, <2>2, <3>2, LinesAre
      <4>2. Env!Setting(ExportText(m)) = Says(m, v) BY <2>1, <3>2, LinesAre DEF Says
      <4>3. QED BY <4>1, <4>2
    <3>3. CASE u = Line(Comment) /\ v = Line(ExportText(m))
      <4>1. Env!Extract(buf) = Took(Env!Setting(Comment), r) BY <2>1, <2>2, <3>3, LinesAre
      <4>2. v # <<>> BY <2>1, <3>3, LinesAre, LineIs
      <4>3. Env!Setting(Comment) = Says(m, v) BY <2>1, <4>2, LinesAre DEF Says
      <4>4. QED BY <4>1, <4>3
    <3>4. QED BY <2>1, <3>1, <3>2, <3>3
  <2>4. Extract(buf) = Env!Extract(buf) BY <1>4 DEF Extract
  <2>5. QED BY <2>3, <2>4
<1>5. QED BY <1>1, <1>2, <1>3, <1>4 DEF Piece

(* A piece that has not come completely is left alone *)
LEMMA PieceWaits ==
    ASSUME NEW m, NEW u, NEW v, Piece(link, m, u, v), NEW k \in Nat, k < Len(u),
           NEW q, q = SubSeq(u, 1, k)
    PROVE  Extract(q) = Kept(q)
<1>1. CASE link = "chat"
  <2>1. m \in Chat!Message /\ u = Chat!Encode(m) BY <1>1 DEF Piece
  <2>2. Chat!Extract(q) = Kept(q) BY <2>1, ChatWaits
  <2>3. QED BY <1>1, <2>2 DEF Extract
<1>2. CASE link = "client"
  <2>1. m \in Client!Message /\ u = Client!Encode(m) BY <1>2 DEF Piece
  <2>2. Client!Extract(q) = Kept(q) BY <2>1, ClientWaits
  <2>3. QED BY <1>2, <2>2 DEF Extract
<1>3. CASE link = "cluster"
  <2>1. m \in Cluster!Message /\ u = Cluster!Encode(m) BY <1>3 DEF Piece
  <2>2. Cluster!Extract(q) = Kept(q) BY <2>1, ClusterWaits
  <2>3. QED BY <1>3, <2>2 DEF Extract
<1>4. CASE link = "env"
  <2>1. m \in Env!Message /\ u \in {Line(PlainText(m)), Line(ExportText(m)), Line(Comment)}
    BY <1>4 DEF Piece
  <2>2. PICK t \in Seq(Nat) : u = Line(t) /\ \A i \in 1..Len(t) : t[i] # 7 BY <2>1, LinesAre
  <2>3. k < Len(t \o <<7>>) /\ q = SubSeq(t \o <<7>>, 1, k) BY <2>2 DEF Line
  <2>4. Env!Extract(q) = Kept(q) BY <2>2, <2>3, LineWaits
  <2>5. QED BY <1>4, <2>4 DEF Extract
<1>5. QED BY <1>1, <1>2, <1>3, <1>4 DEF Piece

Links == {"chat", "client", "cluster", "env"}

LEMMA NothingWaits == ASSUME link \in Links PROVE Extract(<<>>) = Kept(<<>>)
<1>1. CASE link = "chat" BY <1>1, ChatEmpty DEF Extract
<1>2. CASE link = "client" BY <1>2, ClientEmpty DEF Extract
<1>3. CASE link = "cluster" BY <1>3, ClusterEmpty DEF Extract
<1>4. CASE link = "env" BY <1>4, EnvEmpty DEF Extract
<1>5. QED BY <1>1, <1>2, <1>3, <1>4 DEF Links

(* The bytes of a message begin with a piece and end with what follows it *)
Starts(l, m, bytes) == \E u, v : Piece(l, m, u, v) /\ bytes = u \o v

LEMMA MessageStarts ==
    ASSUME link \in Links, NEW m \in Message, NEW bytes \in Encodings(m)
    PROVE  Starts(link, m, bytes)
<1>1. ASSUME NEW u, Piece(link, m, u, <<>>), bytes = u PROVE Starts(link, m, bytes)
  <2>1. u \in Seq(Nat) BY <1>1, PieceIs
  <2>2. u \o <<>> = u BY <2>1, JoinAgain
  <2>3. QED BY <1>1, <2>2 DEF Starts
<1>2. CASE link = "chat"
  <2>1. m \in Chat!Message /\ bytes = Chat!Encode(m) BY <1>2 DEF Message, Encodings
  <2>2. Piece(link, m, bytes, <<>>) BY <1>2, <2>1 DEF Piece
  <2>3. QED BY <1>1, <2>2
<1>3. CASE link = "client"
  <2>1. m \in Client!Message /\ bytes = Client!Encode(m) BY <1>3 DEF Message, Encodings
  <2>2. Piece(link, m, bytes, <<>>) BY <1>3, <2>1 DEF Piece
  <2>3. QED BY <1>1, <2>2
<1>4. CASE link = "cluster"
  <2>1. m \in Cluster!Message /\ bytes = Cluster!Encode(m) BY <1>4 DEF Message, Encodings
  <2>2. Piece(link, m, bytes, <<>>) BY <1>4, <2>1 DEF Piece
  <2>3. QED BY <1>1, <2>2
<1>5. CASE link = "env"
  <2>1. m \in Env!Message /\ bytes \in Env!Encodings(m) BY <1>5 DEF Message, Encodings
  <2>2. bytes = Line(PlainText(m)) \/ bytes = Line(Comment) \o Line(ExportText(m))
    BY <2>1, LinesAre DEF Line
  <2>3. CASE bytes = Line(PlainText(m))
    <3>1. Piece(link, m, bytes, <<>>) BY <1>5, <2>1, <2>3 DEF Piece
    <3>2. QED BY <1>1, <3>1
  <2>4. CASE bytes = Line(Comment) \o Line(ExportText(m))
    <3>1. Piece(link, m, Line(Comment), Line(ExportText(m))) BY <1>5, <2>1 DEF Piece
    <3>2. QED BY <2>4, <3>1 DEF Starts
  <2>5. QED BY <2>2, <2>3, <2>4
<1>6. QED BY <1>2, <1>3, <1>4, <1>5 DEF Links

-----------------------------------------------------------------------------
(* The invariant.  T[i] is what was written from the i-th message on.  The handlers have *)
(* the first messages; what the reader keeps and what is under way are the rest of the    *)
(* bytes, from a piece of the next message on, and when a callback is over the reader      *)
(* keeps less than that piece.                                                         *)
Something == Chat!Message \cup Client!Message \cup Cluster!Message \cup Env!Message

Written ==
    /\ link \in Links
    /\ sent \in Seq([msg : Something, bytes : Seq(Nat)])
    /\ \A i \in 1..Len(sent) : Starts(link, sent[i].msg, sent[i].bytes)
    /\ wire \in Seq(Nat) /\ pending \in Seq(Nat) /\ reading \in BOOLEAN

Handed ==
    /\ delivered \in Seq(Something) /\ Len(delivered) <= Len(sent)
    /\ \A i \in 1..Len(delivered) : delivered[i] = sent[i].msg

Rest(T) ==
    /\ T \in [1..(Len(sent) + 1) -> Seq(Nat)]
    /\ T[Len(sent) + 1] = <<>>
    /\ \A i \in 1..Len(sent) : T[i] = sent[i].bytes \o T[i + 1]

Unread(T) ==
    LET d == Len(delivered)
    IN  /\ d = Len(sent) => pending \o wire = <<>>
        /\ d < Len(sent) =>
              \E u, v : /\ Piece(link, sent[d + 1].msg, u, v)
                        /\ Len(u) + Len(v) <= Len(sent[d + 1].bytes)
                        /\ pending \o wire = u \o (v \o T[d + 2])
                        /\ ~reading => Len(pending) < Len(u)

StreamInv == Written /\ Handed /\ \E T : Rest(T) /\ Unread(T)

LEMMA StreamInit == Init => StreamInv
<1> SUFFICES ASSUME Init PROVE StreamInv OBVIOUS
<1>1. /\ link \in Links /\ sent = <<>> /\ wire = <<>> /\ pending = <<>> /\ reading = FALSE
      /\ delivered = <<>>
  BY DEF Init, Links
<1>2. Len(sent) = 0 /\ Len(delivered) = 0 /\ 1..0 = {} BY <1>1
<1>3. Written
  <2>1. sent \in Seq([msg : Something, bytes : Seq(Nat)]) /\ wire \in Seq(Nat) /\ pending \in Seq(Nat)
    BY <1>1
  <2>2. \A i \in 1..Len(sent) : Starts(link, sent[i].msg, sent[i].bytes) BY <1>2
  <2>3. QED BY <1>1, <2>1, <2>2 DEF Written
<1>4. Handed BY <1>1, <1>2 DEF Handed
<1> DEFINE T == [i \in 1..(Len(sent) + 1) |-> <<>>]
<1>5. Rest(T) BY <1>2 DEF Rest
<1>6. Unread(T)
  <2>1. pending \o wire = <<>> BY <1>1
  <2>2. ~ (0 < 0) OBVIOUS
  <2> HIDE DEF T
  <2>3. QED BY <1>2, <2>1, <2>2 DEF Unread
<1>7. QED BY <1>3, <1>4, <1>5, <1>6 DEF StreamInv

(* A message sent goes behind everything that was *)
LEMMA StreamSend ==
    ASSUME StreamInv, NEW m \in Message, Send(m)
    PROVE  StreamInv'
<1>1. PICK bytes \in Encodings(m) :
          /\ sent' = Append(sent, [msg |-> m, bytes |-> bytes])
          /\ wire' = wire \o bytes
  BY DEF Send
<1>2. link' = link /\ pending' = pending /\ reading' = reading /\ delivered' = delivered BY DEF Send
<1>3. Written /\ Handed BY DEF StreamInv
<1>4. PICK T : Rest(T) /\ Unread(T) BY DEF StreamInv
<1> DEFINE n == Len(sent)
           d == Len(delivered)
           e == [msg |-> m, bytes |-> bytes]
<1>5. PICK s, t : Piece(link, m, s, t) /\ bytes = s \o t
  <2>1. link \in Links BY <1>3 DEF Written
  <2>2. Starts(link, m, bytes) BY <2>1, MessageStarts
  <2>3. QED BY <2>2 DEF Starts
<1>6. /\ s \in Seq(Nat) /\ t \in Seq(Nat) /\ Len(s) \in Nat /\ Len(t) \in Nat /\ Len(s) > 0
      /\ bytes \in Seq(Nat) /\ Len(bytes) = Len(s) + Len(t)
  BY <1>5, PieceIs, JoinIs
<1>7. /\ sent \in Seq([msg : Something, bytes : Seq(Nat)]) /\ n \in Nat
      /\ wire \in Seq(Nat) /\ pending \in Seq(Nat) /\ d \in Nat /\ d <= n
  BY <1>3 DEF Written, Handed
<1>8. m \in Something
  <2>1. link \in Links BY <1>3 DEF Written
  <2>2. CASE link = "chat" BY <2>2 DEF Message, Something
  <2>3. CASE link = "client" BY <2>3 DEF Message, Something
  <2>4. CASE link = "cluster" BY <2>4 DEF Message, Something
  <2>5. CASE link = "env" BY <2>5 DEF Message, Something
  <2>6. QED BY <2>1, <2>2, <2>3, <2>4, <2>5 DEF Links
<1>9. e \in [msg : Something, bytes : Seq(Nat)] /\ e.msg = m /\ e.bytes = bytes BY <1>6, <1>8
<1>10. sent' = Append(sent, e) BY <1>1
<1> HIDE DEF e
<1>11. /\ sent' \in Seq([msg : Something, bytes : Seq(Nat)]) /\ Len(sent') = n + 1
       /\ \A i \in 1..n : sent'[i] = sent[i]
       /\ sent'[n + 1] = e
  BY <1>7, <1>9, <1>10
<1>12. \A i \in 1..(n + 1) : i = n + 1 \/ i \in 1..n BY <1>7
<1>13. Written'
  <2>1. \A i \in 1..(n + 1) : Starts(link, sent'[i].msg, sent'[i].bytes)
    <3>1. Starts(link, e.msg, e.bytes) BY <1>5, <1>9 DEF Starts
    <3>2. \A i \in 1..n : Starts(link, sent[i].msg, sent[i].bytes) BY <1>3 DEF Written
    <3>3. QED BY <1>11, <1>12, <3>1, <3>2
  <2>2. wire' \in Seq(Nat) BY <1>1, <1>6, <1>7, JoinIs
  <2>3. link' \in Links /\ pending' \in Seq(Nat) /\ reading' \in BOOLEAN BY <1>2, <1>3 DEF Written
  <2>4. \A i \in 1..Len(sent') : Starts(link', sent'[i].msg, sent'[i].bytes)
    BY <1>2, <1>11, <2>1
  <2>5. QED BY <1>11, <2>2, <2>3, <2>4 DEF Written
<1>14. Handed'
  <2>1. /\ delivered \in Seq(Something)
        /\ \A i \in 1..d : delivered[i] = sent[i].msg
    BY <1>3 DEF Handed
  <2>2. d <= n + 1 /\ \A i \in 1..d : i \in 1..n BY ONLY <1>7
  <2>3. \A i \in 1..d : delivered[i] = sent'[i].msg BY <1>11, <2>1, <2>2
  <2>4. QED BY <1>2, <1>11, <2>1, <2>2, <2>3 DEF Handed
<1> DEFINE F == [i \in 1..(n + 2) |-> IF i = n + 2 THEN <<>> ELSE T[i] \o bytes]
<1>15. /\ T \in [1..(n + 1) -> Seq(Nat)] /\ T[n + 1] = <<>>
       /\ \A i \in 1..n : T[i] = sent[i].bytes \o T[i + 1]
  BY <1>4 DEF Rest
<1>16. /\ n + 1 \in 1..(n + 2) /\ n + 2 \in 1..(n + 2) /\ n + 1 # n + 2 /\ n + 1 \in 1..(n + 1)
       /\ n + 1 + 1 = n + 2
       /\ \A i \in 1..(n + 1) : i \in 1..(n + 2) /\ i # n + 2
       /\ \A i \in 1..n : i \in 1..(n + 1) /\ i + 1 \in 1..(n + 1)
       /\ \A i \in 1..(n + 2) : i = n + 2 \/ i \in 1..(n + 1)
  BY ONLY <1>7
<1>23. PICK U : U = F OBVIOUS
<1>17. U[n + 2] = <<>> /\ \A i \in 1..(n + 1) : U[i] = T[i] \o bytes BY <1>16, <1>23
<1>18. U[n + 1] = bytes
  <2>1. U[n + 1] = <<>> \o bytes BY <1>15, <1>16, <1>17
  <2>2. QED BY <2>1, <1>6, JoinAgain
<1>19. U \in [1..(n + 2) -> Seq(Nat)]
  <2>1. ASSUME NEW i \in 1..(n + 2) PROVE U[i] \in Seq(Nat)
    <3>1. CASE i = n + 2 BY <3>1, <1>17
    <3>2. CASE i \in 1..(n + 1)
      <4>1. T[i] \in Seq(Nat) BY <3>2, <1>15
      <4>2. T[i] \o bytes \in Seq(Nat) BY <4>1, <1>6, JoinIs
      <4>3. QED BY <3>2, <4>2, <1>17
    <3>3. QED BY <3>1, <3>2, <1>16
  <2>2. U = [i \in 1..(n + 2) |-> U[i]] BY <1>23
  <2> HIDE DEF F
  <2>3. QED BY <2>1, <2>2
<1> HIDE DEF F
<1>20. Rest(U)'
  <2>1. ASSUME NEW i \in 1..(n + 1) PROVE U[i] = sent'[i].bytes \o U[i + 1]
    <3>1. CASE i = n + 1
      <4>1. bytes \o <<>> = bytes BY <1>6, JoinAgain
      <4>2. sent'[i].bytes = bytes BY <3>1, <1>9, <1>11
      <4>3. U[i + 1] = <<>> BY <3>1, <1>16, <1>17
      <4>4. QED BY <4>1, <4>2, <4>3, <3>1, <1>18
    <3>2. CASE i \in 1..n
      <4>1. i \in 1..(n + 1) /\ i + 1 \in 1..(n + 1) BY <3>2, <1>16
      <4>2. U[i] = T[i] \o bytes /\ U[i + 1] = T[i + 1] \o bytes BY <4>1, <1>17
      <4>3. T[i + 1] \in Seq(Nat) /\ sent[i].bytes \in Seq(Nat)
        <5>1. sent[i] \in [msg : Something, bytes : Seq(Nat)] BY <3>2, <1>7, ElementOfSeq
        <5>2. QED BY <5>1, <4>1, <1>15
      <4>4. (sent[i].bytes \o T[i + 1]) \o bytes = sent[i].bytes \o (T[i + 1] \o bytes)
        BY <4>3, <1>6, JoinAgain, ZenonT(40)
      <4>5. T[i] = sent[i].bytes \o T[i + 1] BY <3>2, <1>15
      <4>6. sent'[i].bytes = sent[i].bytes BY <3>2, <1>11
      <4>7. QED BY <4>2, <4>4, <4>5, <4>6, Zenon
    <3>3. QED BY <3>1, <3>2, <1>12
  <2>2. Len(sent') + 1 = n + 2 BY <1>7, <1>11
  <2>3. U \in [1..(Len(sent') + 1) -> Seq(Nat)] /\ U[Len(sent') + 1] = <<>> BY <2>2, <1>17, <1>19
  <2>4. \A i \in 1..Len(sent') : U[i] = sent'[i].bytes \o U[i + 1] BY <2>1, <1>11
  <2>5. QED BY <2>3, <2>4 DEF Rest
<1>21. Unread(U)'
  <2>1. ~ (d = n + 1) BY ONLY <1>7
  <2>2. \E u, v : /\ Piece(link, sent'[d + 1].msg, u, v)
                  /\ Len(u) + Len(v) <= Len(sent'[d + 1].bytes)
                  /\ pending \o (wire \o bytes) = u \o (v \o U[d + 2])
                  /\ ~reading => Len(pending) < Len(u)
    <3>1. CASE d = n
      <4>1. pending \o wire = <<>> BY <3>1, <1>4 DEF Unread
      <4>2. Len(pending) = 0
        <5>1. Len(pending) \in Nat /\ Len(wire) \in Nat /\ Len(pending) + Len(wire) = Len(<<>>)
          BY <4>1, <1>7, JoinIs
        <5>2. Len(<<>>) = 0 OBVIOUS
        <5>3. QED BY ONLY <5>1, <5>2
      <4>3. pending \o (wire \o bytes) = bytes
        <5>1. (pending \o wire) \o bytes = pending \o (wire \o bytes) BY <1>6, <1>7, JoinAgain, ZenonT(40)
        <5>2. <<>> \o bytes = bytes BY <1>6, JoinAgain
        <5>3. QED BY <4>1, <5>1, <5>2
      <4>4. t \o U[d + 2] = t BY <3>1, <1>6, <1>17, JoinAgain
      <4>5. sent'[d + 1].msg = m /\ sent'[d + 1].bytes = bytes BY <3>1, <1>9, <1>11
      <4>6. Len(s) + Len(t) <= Len(bytes) /\ Len(pending) < Len(s) BY <1>6, <4>2
      <4>7. QED BY <4>3, <4>4, <4>5, <4>6, <1>5
    <3>2. CASE d < n
      <4>1. PICK u, v : /\ Piece(link, sent[d + 1].msg, u, v)
                        /\ Len(u) + Len(v) <= Len(sent[d + 1].bytes)
                        /\ pending \o wire = u \o (v \o T[d + 2])
                        /\ ~reading => Len(pending) < Len(u)
        BY <3>2, <1>4 DEF Unread
      <4>2. d + 1 \in 1..n /\ d + 2 \in 1..(n + 1) BY ONLY <3>2, <1>7
      <4>3. u \in Seq(Nat) /\ v \in Seq(Nat) /\ T[d + 2] \in Seq(Nat) BY <4>1, <4>2, <1>15, PieceIs
      <4>4. U[d + 2] = T[d + 2] \o bytes /\ sent'[d + 1] = sent[d + 1] BY <4>2, <1>11, <1>17
      <4>5. pending \o (wire \o bytes) = (pending \o wire) \o bytes BY <1>6, <1>7, JoinAgain, ZenonT(40)
      <4>6. (u \o (v \o T[d + 2])) \o bytes = u \o (v \o (T[d + 2] \o bytes))
        <5> DEFINE w == T[d + 2]
        <5>1. u \in Seq(Nat) /\ v \in Seq(Nat) /\ w \in Seq(Nat) /\ bytes \in Seq(Nat) BY <4>3, <1>6
        <5> HIDE DEF w
        <5>2. (u \o (v \o w)) \o bytes = u \o (v \o (w \o bytes)) BY ONLY <5>1, JoinFour, SMTT(60)
        <5>3. QED BY ONLY <5>2 DEF w
      <4>7. pending \o (wire \o bytes) = u \o (v \o U[d + 2])
        BY <4>1, <4>4, <4>5, <4>6, Zenon
      <4>8. QED BY <4>1, <4>4, <4>7
    <3>3. d = n \/ d < n BY ONLY <1>7
    <3>4. QED BY <3>1, <3>2, <3>3, Zenon
  <2>3. /\ Len(delivered') = Len(sent') => pending' \o wire' = <<>>
        /\ Len(delivered') < Len(sent') =>
              \E u, v : /\ Piece(link', sent'[Len(delivered') + 1].msg, u, v)
                        /\ Len(u) + Len(v) <= Len(sent'[Len(delivered') + 1].bytes)
                        /\ pending' \o wire' = u \o (v \o U[Len(delivered') + 2])
                        /\ ~reading' => Len(pending') < Len(u)
    BY <2>1, <2>2, <1>1, <1>2, <1>11, Zenon
  <2>4. QED BY <2>3, Zenon DEF Unread
<1>22. QED BY <1>13, <1>14, <1>20, <1>21 DEF StreamInv

(* The bytes the callback begins with come to the end of those it has *)
LEMMA StreamReceive ==
    ASSUME StreamInv, NEW k \in 1..Len(wire), Receive(k)
    PROVE  StreamInv'
<1>1. /\ pending' = pending \o SubSeq(wire, 1, k) /\ wire' = SubSeq(wire, k + 1, Len(wire))
      /\ reading' = TRUE /\ link' = link /\ sent' = sent /\ delivered' = delivered
  BY DEF Receive
<1>2. Written /\ Handed BY DEF StreamInv
<1>3. PICK T : Rest(T) /\ Unread(T) BY DEF StreamInv
<1>4. wire \in Seq(Nat) /\ pending \in Seq(Nat) BY <1>2 DEF Written
<1>5. PICK x \in Seq(Nat), y \in Seq(Nat) :
          x = SubSeq(wire, 1, k) /\ y = SubSeq(wire, k + 1, Len(wire)) /\ x \o y = wire
  <2>1. Len(wire) \in Nat /\ k \in Nat /\ k <= Len(wire) /\ 1 <= k BY <1>4
  <2>2. SubSeq(wire, 1, k) \in Seq(Nat) /\ SubSeq(wire, k + 1, Len(wire)) \in Seq(Nat)
    BY <1>4, <2>1
  <2>3. wire = SubSeq(wire, 1, k) \o SubSeq(wire, k + 1, Len(wire))
    <3>1. 1 \in 1..(Len(wire) + 1) /\ k \in 1 - 1..Len(wire) /\ Len(wire) \in k..Len(wire)
      BY ONLY <2>1
    <3>2. SubSeq(wire, 1, k) \o SubSeq(wire, k + 1, Len(wire)) = SubSeq(wire, 1, Len(wire))
      BY <1>4, <3>1, ConcatAdjacentSubSeq
    <3>3. QED BY <1>4, <3>2, SubSeqFull
  <2>4. QED BY <2>2, <2>3
<1>6. /\ pending' = pending \o x /\ wire' = y /\ pending' \in Seq(Nat) /\ wire' \in Seq(Nat)
  BY <1>1, <1>4, <1>5, JoinIs
<1>7. pending' \o wire' = pending \o wire
  <2>1. (pending \o x) \o y = pending \o (x \o y) BY <1>4, JoinAgain
  <2>2. QED BY <1>5, <1>6, <2>1, Zenon
<1>8. Written' BY <1>1, <1>2, <1>6 DEF Written
<1>9. Handed' BY <1>1, <1>2 DEF Handed
<1>10. Rest(T)'
  <2>1. /\ T \in [1..(Len(sent') + 1) -> Seq(Nat)] /\ T[Len(sent') + 1] = <<>>
        /\ \A i \in 1..Len(sent') : T[i] = sent'[i].bytes \o T[i + 1]
    BY <1>1, <1>3 DEF Rest
  <2>2. QED BY <2>1, Zenon DEF Rest
<1>11. Unread(T)'
  <2>1. /\ Len(delivered') = Len(sent') => pending' \o wire' = <<>>
        /\ Len(delivered') < Len(sent') =>
              \E u, v : /\ Piece(link', sent'[Len(delivered') + 1].msg, u, v)
                        /\ Len(u) + Len(v) <= Len(sent'[Len(delivered') + 1].bytes)
                        /\ pending' \o wire' = u \o (v \o T[Len(delivered') + 2])
                        /\ ~reading' => Len(pending') < Len(u)
    BY <1>1, <1>3, <1>7, Zenon DEF Unread
  <2>2. QED BY <2>1, Zenon DEF Unread
<1>12. QED BY <1>8, <1>9, <1>10, <1>11 DEF StreamInv

(* A turn of the loop, when every message sent has been handed over *)
LEMMA StreamIdle ==
    ASSUME StreamInv, Read, Len(delivered) = Len(sent)
    PROVE  StreamInv'
<1>1. Written /\ Handed BY DEF StreamInv
<1>2. PICK T : Rest(T) /\ Unread(T) BY DEF StreamInv
<1>3. wire \in Seq(Nat) /\ pending \in Seq(Nat) /\ link \in Links BY <1>1 DEF Written
<1>4. pending \o wire = <<>> BY <1>2 DEF Unread
<1>5. pending = <<>>
  <2>1. Len(pending) \in Nat /\ Len(wire) \in Nat /\ Len(pending) + Len(wire) = Len(<<>>)
    BY <1>3, <1>4, JoinIs
  <2>2. Len(<<>>) = 0 OBVIOUS
  <2>3. Len(pending) = 0 BY ONLY <2>1, <2>2
  <2>4. QED BY <1>3, <2>3, EmptySeq
<1>6. Extract(pending) = Kept(pending) BY <1>3, <1>5, NothingWaits
<1>7. /\ pending' = pending /\ reading' = FALSE /\ delivered' = delivered \o <<>>
      /\ link' = link /\ sent' = sent /\ wire' = wire
  BY <1>6 DEF Read, Kept
<1>8. delivered' = delivered BY <1>1, <1>7 DEF Handed
<1>9. Written' BY <1>1, <1>7 DEF Written
<1>10. Handed' BY <1>1, <1>7, <1>8 DEF Handed
<1>11. Rest(T)'
  <2>1. /\ T \in [1..(Len(sent') + 1) -> Seq(Nat)] /\ T[Len(sent') + 1] = <<>>
        /\ \A i \in 1..Len(sent') : T[i] = sent'[i].bytes \o T[i + 1]
    BY <1>2, <1>7 DEF Rest
  <2>2. QED BY <2>1, Zenon DEF Rest
<1>12. Unread(T)'
  <2>1. Len(sent) \in Nat BY <1>1 DEF Written
  <2>2. ~ (Len(delivered') < Len(sent')) BY <2>1, <1>7, <1>8
  <2>3. pending' \o wire' = <<>> BY <1>4, <1>7
  <2>4. QED BY <2>2, <2>3, Zenon DEF Unread
<1>13. QED BY <1>9, <1>10, <1>11, <1>12 DEF StreamInv

(* .. when the next piece has come completely: the turn takes it, and hands the message *)
(* over with the last of its pieces                                                    *)
LEMMA StreamTakes ==
    ASSUME StreamInv, Read, NEW T, Rest(T), Len(delivered) < Len(sent), NEW u, NEW v,
           Piece(link, sent[Len(delivered) + 1].msg, u, v),
           Len(u) + Len(v) <= Len(sent[Len(delivered) + 1].bytes),
           pending \o wire = u \o (v \o T[Len(delivered) + 2]),
           Len(u) <= Len(pending)
    PROVE  StreamInv'
<1> DEFINE n == Len(sent)
           d == Len(delivered)
           m == sent[d + 1].msg
<1>1. Written /\ Handed BY DEF StreamInv
<1>2. /\ sent \in Seq([msg : Something, bytes : Seq(Nat)]) /\ n \in Nat
      /\ wire \in Seq(Nat) /\ pending \in Seq(Nat) /\ reading \in BOOLEAN /\ link \in Links
      /\ \A i \in 1..n : Starts(link, sent[i].msg, sent[i].bytes)
  BY <1>1 DEF Written
<1>3. /\ delivered \in Seq(Something) /\ d \in Nat /\ d <= n
      /\ \A i \in 1..d : delivered[i] = sent[i].msg
  BY <1>1 DEF Handed
<1>4. /\ T \in [1..(n + 1) -> Seq(Nat)] /\ T[n + 1] = <<>>
      /\ \A i \in 1..n : T[i] = sent[i].bytes \o T[i + 1]
  BY DEF Rest
<1>5. d + 1 \in 1..n /\ d + 2 \in 1..(n + 1) /\ d + 1 <= n BY <1>2, <1>3
<1>6. m \in Something
  <2>1. sent[d + 1] \in [msg : Something, bytes : Seq(Nat)] BY <1>2, <1>5, ElementOfSeq
  <2>2. QED BY <2>1
<1>7. /\ u \in Seq(Nat) /\ v \in Seq(Nat) /\ Len(u) \in Nat /\ Len(v) \in Nat /\ Len(u) > 0
      /\ v # <<>> => Piece(link, m, v, <<>>)
  BY PieceIs
<1>8. T[d + 2] \in Seq(Nat) BY <1>4, <1>5
<1>9. PICK r \in Seq(Nat) : pending = u \o r /\ r \o wire = v \o T[d + 2]
  <2>1. v \o T[d + 2] \in Seq(Nat) BY <1>7, <1>8, JoinIs
  <2> DEFINE w == v \o T[d + 2]
  <2>2. Same(pending, wire, u, w) BY <1>2, <1>7, <2>1 DEF Same
  <2>3. Len(u) <= Len(pending) OBVIOUS
  <2> HIDE DEF w
  <2>4. \E r \in Seq(Nat) : pending = u \o r /\ r \o wire = w BY ONLY <2>2, <2>3, CameWhole
  <2>5. QED BY <2>4 DEF w
<1>10. Extract(pending) = Took(Says(m, v), r)
  <2>1. Piece(link, m, u, v) OBVIOUS
  <2> HIDE DEF m
  <2>2. r \in Seq(Nat) /\ pending = u \o r BY <1>9
  <2>3. QED BY ONLY <2>1, <2>2, PieceReads, ZenonT(30)
<1>11. /\ pending' = r /\ reading' = TRUE /\ delivered' = delivered \o Says(m, v)
       /\ link' = link /\ sent' = sent /\ wire' = wire
  BY <1>10 DEF Read, Took
<1>12. Written' BY <1>1, <1>9, <1>11 DEF Written
<1>13. Rest(T)'
  <2>1. /\ T \in [1..(Len(sent') + 1) -> Seq(Nat)] /\ T[Len(sent') + 1] = <<>>
        /\ \A i \in 1..Len(sent') : T[i] = sent'[i].bytes \o T[i + 1]
    BY <1>4, <1>11
  <2>2. QED BY <2>1, Zenon DEF Rest
<1>14. CASE v # <<>>
  <2>1. delivered' = delivered BY <1>3, <1>11, <1>14 DEF Says
  <2>2. Handed' BY <1>1, <1>11, <2>1 DEF Handed
  <2>3. Unread(T)'
    <3>1. \E a, b : /\ Piece(link, m, a, b)
                    /\ Len(a) + Len(b) <= Len(sent[d + 1].bytes)
                    /\ r \o wire = a \o (b \o T[d + 2])
      <4>1. <<>> \o T[d + 2] = T[d + 2] BY <1>8, JoinAgain
      <4>2. r \o wire = v \o (<<>> \o T[d + 2]) BY <4>1, <1>9
      <4>3. Len(v) + Len(<<>>) <= Len(sent[d + 1].bytes)
        <5>1. Len(<<>>) = 0 OBVIOUS
        <5>2. Len(sent[d + 1].bytes) \in Nat
          <6>1. sent[d + 1] \in [msg : Something, bytes : Seq(Nat)] BY <1>2, <1>5, ElementOfSeq
          <6>2. QED BY <6>1
        <5>3. Len(u) + Len(v) <= Len(sent[d + 1].bytes) OBVIOUS
        <5>4. QED BY ONLY <5>1, <5>2, <5>3, <1>7
      <4>4. Piece(link, m, v, <<>>) BY <1>7, <1>14
      <4>5. QED BY <4>2, <4>3, <4>4
    <3>2. ~ (d = n) BY <1>2
    <3>3. /\ Len(delivered') = Len(sent') => pending' \o wire' = <<>>
          /\ Len(delivered') < Len(sent') =>
                \E a, b : /\ Piece(link', sent'[Len(delivered') + 1].msg, a, b)
                          /\ Len(a) + Len(b) <= Len(sent'[Len(delivered') + 1].bytes)
                          /\ pending' \o wire' = a \o (b \o T[Len(delivered') + 2])
                          /\ ~reading' => Len(pending') < Len(a)
      BY <1>11, <2>1, <3>1, <3>2, Zenon
    <3>4. QED BY <3>3, Zenon DEF Unread
  <2>4. QED BY <1>12, <1>13, <2>2, <2>3 DEF StreamInv
<1>15. CASE v = <<>>
  <2>1. delivered' = delivered \o <<m>> BY <1>11, <1>15 DEF Says
  <2>2. /\ delivered' \in Seq(Something) /\ Len(delivered') = d + 1
        /\ \A i \in 1..d : delivered'[i] = delivered[i]
        /\ delivered'[d + 1] = m
    <3> HIDE DEF m
    <3>1. delivered' = Append(delivered, m) BY <2>1, <1>3, <1>6
    <3>2. QED BY <3>1, <1>3, <1>6
  <2>3. Handed'
    <3>1. \A i \in 1..(d + 1) : i = d + 1 \/ i \in 1..d BY ONLY <1>3
    <3>2. \A i \in 1..(d + 1) : delivered'[i] = sent[i].msg BY <1>3, <2>2, <3>1
    <3>3. QED BY <1>5, <1>11, <2>2, <3>2 DEF Handed
  <2>4. r \o wire = T[d + 2] BY <1>8, <1>9, <1>15, JoinAgain
  <2>5. d + 1 = n => r \o wire = <<>>
    <3>1. d + 1 = n => d + 2 = n + 1 BY ONLY <1>2, <1>3
    <3>2. QED BY <3>1, <2>4, <1>4
  <2>6. d + 1 < n => \E a, b : /\ Piece(link, sent[d + 2].msg, a, b)
                               /\ Len(a) + Len(b) <= Len(sent[d + 2].bytes)
                               /\ r \o wire = a \o (b \o T[d + 3])
    <3>1. SUFFICES ASSUME d + 1 < n
                   PROVE  \E a, b : /\ Piece(link, sent[d + 2].msg, a, b)
                                    /\ Len(a) + Len(b) <= Len(sent[d + 2].bytes)
                                    /\ r \o wire = a \o (b \o T[d + 3])
      OBVIOUS
    <3>2. d + 2 \in 1..n /\ d + 2 + 1 = d + 3 /\ d + 3 \in 1..(n + 1) BY ONLY <3>1, <1>2, <1>3
    <3>3. PICK a, b : Piece(link, sent[d + 2].msg, a, b) /\ sent[d + 2].bytes = a \o b
      BY <1>2, <3>2 DEF Starts
    <3>4. a \in Seq(Nat) /\ b \in Seq(Nat) /\ T[d + 3] \in Seq(Nat) BY <1>4, <3>2, <3>3, PieceIs
    <3>5. T[d + 2] = sent[d + 2].bytes \o T[d + 3] BY <1>4, <3>2
    <3>6. (a \o b) \o T[d + 3] = a \o (b \o T[d + 3]) BY <3>4, JoinAgain, ZenonT(40)
    <3>7. Len(a) + Len(b) <= Len(a \o b)
      <4>1. Len(a) \in Nat /\ Len(b) \in Nat /\ Len(a \o b) = Len(a) + Len(b) BY <3>4, JoinIs
      <4>2. QED BY ONLY <4>1
    <3>8. r \o wire = a \o (b \o T[d + 3]) BY <2>4, <3>3, <3>5, <3>6, Zenon
    <3>9. QED BY <3>3, <3>7, <3>8
  <2>7. Unread(T)'
    <3>1. d + 1 + 1 = d + 2 /\ d + 1 + 2 = d + 3 BY ONLY <1>3
    <3>2. /\ Len(delivered') = Len(sent') => pending' \o wire' = <<>>
          /\ Len(delivered') < Len(sent') =>
                \E a, b : /\ Piece(link', sent'[Len(delivered') + 1].msg, a, b)
                          /\ Len(a) + Len(b) <= Len(sent'[Len(delivered') + 1].bytes)
                          /\ pending' \o wire' = a \o (b \o T[Len(delivered') + 2])
                          /\ ~reading' => Len(pending') < Len(a)
      BY <1>11, <2>2, <2>5, <2>6, <3>1, Zenon
    <3>3. QED BY <3>2, Zenon DEF Unread
  <2>8. QED BY <1>12, <1>13, <2>3, <2>7 DEF StreamInv
<1>16. QED BY <1>14, <1>15

(* .. and when it has not: the turn is the last one of its callback *)
LEMMA StreamWaits ==
    ASSUME StreamInv, Read, NEW T, Rest(T), Len(delivered) < Len(sent), NEW u, NEW v,
           Piece(link, sent[Len(delivered) + 1].msg, u, v),
           Len(u) + Len(v) <= Len(sent[Len(delivered) + 1].bytes),
           pending \o wire = u \o (v \o T[Len(delivered) + 2]),
           Len(pending) < Len(u)
    PROVE  StreamInv'
<1> DEFINE n == Len(sent)
           d == Len(delivered)
           m == sent[d + 1].msg
<1>1. Written /\ Handed BY DEF StreamInv
<1>2. n \in Nat /\ d \in Nat /\ wire \in Seq(Nat) /\ pending \in Seq(Nat)
  BY <1>1, SMTT(60) DEF Written, Handed
<1>3. u \in Seq(Nat) /\ v \in Seq(Nat) BY PieceIs
<1>4. d + 2 \in 1..(n + 1) BY <1>2
<1>5. v \o T[d + 2] \in Seq(Nat)
  <2>1. T[d + 2] \in Seq(Nat) BY <1>4 DEF Rest
  <2>2. QED BY <1>3, <2>1, JoinIs
<1>6. pending = SubSeq(u, 1, Len(pending)) BY <1>2, <1>3, <1>5, CamePart
<1>7. Len(pending) \in Nat BY <1>2
<1>8. Extract(pending) = Kept(pending) BY <1>6, <1>7, PieceWaits
<1>9. /\ pending' = pending /\ reading' = FALSE /\ delivered' = delivered \o <<>>
      /\ link' = link /\ sent' = sent /\ wire' = wire
  BY <1>8 DEF Read, Kept
<1>10. delivered' = delivered BY <1>1, <1>9 DEF Handed
<1>11. Written' BY <1>1, <1>9 DEF Written
<1>12. Handed' BY <1>1, <1>9, <1>10 DEF Handed
<1>13. Rest(T)'
  <2>1. /\ T \in [1..(Len(sent') + 1) -> Seq(Nat)] /\ T[Len(sent') + 1] = <<>>
        /\ \A i \in 1..Len(sent') : T[i] = sent'[i].bytes \o T[i + 1]
    BY <1>9 DEF Rest
  <2>2. QED BY <2>1, Zenon DEF Rest
<1>14. Unread(T)'
  <2>1. ~ (d = n) BY <1>2
  <2>2. /\ Len(delivered') = Len(sent') => pending' \o wire' = <<>>
        /\ Len(delivered') < Len(sent') =>
              \E a, b : /\ Piece(link', sent'[Len(delivered') + 1].msg, a, b)
                        /\ Len(a) + Len(b) <= Len(sent'[Len(delivered') + 1].bytes)
                        /\ pending' \o wire' = a \o (b \o T[Len(delivered') + 2])
                        /\ ~reading' => Len(pending') < Len(a)
    BY <1>9, <1>10, <2>1, Zenon
  <2>3. QED BY <2>2, Zenon DEF Unread
<1>15. QED BY <1>11, <1>12, <1>13, <1>14 DEF StreamInv

LEMMA StreamRead == ASSUME StreamInv, Read PROVE StreamInv'
<1>1. Written /\ Handed BY DEF StreamInv
<1>2. PICK T : Rest(T) /\ Unread(T) BY DEF StreamInv
<1>3. /\ Len(sent) \in Nat /\ Len(delivered) \in Nat /\ Len(delivered) <= Len(sent)
      /\ Len(pending) \in Nat
  BY <1>1 DEF Written, Handed
<1>4. CASE Len(delivered) = Len(sent) BY <1>4, StreamIdle
<1>5. CASE Len(delivered) < Len(sent)
  <2>1. PICK u, v : /\ Piece(link, sent[Len(delivered) + 1].msg, u, v)
                    /\ Len(u) + Len(v) <= Len(sent[Len(delivered) + 1].bytes)
                    /\ pending \o wire = u \o (v \o T[Len(delivered) + 2])
    BY <1>2, <1>5 DEF Unread
  <2>2. Len(u) \in Nat BY <2>1, PieceIs
  <2>3. CASE Len(u) <= Len(pending) BY <1>2, <1>5, <2>1, <2>3, StreamTakes
  <2>4. CASE Len(pending) < Len(u) BY <1>2, <1>5, <2>1, <2>4, StreamWaits
  <2>5. QED BY <1>3, <2>2, <2>3, <2>4
<1>6. QED BY <1>3, <1>4, <1>5

LEMMA StreamStutter == ASSUME StreamInv, UNCHANGED vars PROVE StreamInv'
<1>1. /\ link' = link /\ sent' = sent /\ wire' = wire /\ pending' = pending /\ reading' = reading
      /\ delivered' = delivered
  BY DEF vars
<1>2. QED BY <1>1 DEF StreamInv, Written, Handed, Rest, Unread

LEMMA StreamHolds == Spec => []StreamInv
<1>1. Init => StreamInv BY StreamInit
<1>2. StreamInv /\ [Next]_vars => StreamInv'
  <2>1. SUFFICES ASSUME StreamInv, [Next]_vars PROVE StreamInv' OBVIOUS
  <2>2. ASSUME NEW m \in Message, Send(m) PROVE StreamInv' BY <2>1, <2>2, StreamSend
  <2>3. ASSUME NEW k \in 1..Len(wire), Receive(k) PROVE StreamInv' BY <2>1, <2>3, StreamReceive
  <2>4. CASE Read BY <2>1, <2>4, StreamRead
  <2>5. CASE UNCHANGED vars BY <2>1, <2>5, StreamStutter
  <2>6. QED BY <2>1, <2>2, <2>3, <2>4, <2>5 DEF Next
<1>3. QED BY <1>1, <1>2, PTL DEF Spec

LEMMA StreamFaithful == StreamInv => Faithful
<1> SUFFICES ASSUME StreamInv PROVE Faithful OBVIOUS
<1> DEFINE n == Len(sent)
           d == Len(delivered)
<1>1. Written /\ Handed BY DEF StreamInv
<1>2. /\ sent \in Seq([msg : Something, bytes : Seq(Nat)]) /\ n \in Nat /\ DOMAIN sent = 1..n
      /\ delivered \in Seq(Something) /\ d \in Nat /\ d <= n
      /\ \A i \in 1..d : delivered[i] = sent[i].msg
      /\ pending \in Seq(Nat)
  BY <1>1 DEF Written, Handed
<1>3. /\ Messages \in Seq(Something) /\ Len(Messages) = n
      /\ \A i \in 1..n : Messages[i] = sent[i].msg
  <2>1. \A i \in 1..n : sent[i].msg \in Something
    <3>1. \A i \in 1..n : sent[i] \in [msg : Something, bytes : Seq(Nat)] BY <1>2, ElementOfSeq
    <3>2. QED BY <3>1
  <2>2. Messages = [i \in 1..n |-> sent[i].msg] BY <1>2 DEF Messages
  <2>3. QED BY <1>2, <2>1, <2>2
<1>4. IsPrefix(delivered, Messages)
  <2>1. SubSeq(delivered, 1, d) = SubSeq(Messages, 1, d)
    <3>1. /\ SubSeq(delivered, 1, d) \in Seq(Something) /\ SubSeq(Messages, 1, d) \in Seq(Something)
          /\ Len(SubSeq(delivered, 1, d)) = d /\ Len(SubSeq(Messages, 1, d)) = d
          /\ \A i \in 1..d : SubSeq(delivered, 1, d)[i] = delivered[i]
          /\ \A i \in 1..d : SubSeq(Messages, 1, d)[i] = Messages[i]
      BY <1>2, <1>3
    <3>2. \A i \in 1..d : i \in 1..n BY ONLY <1>2
    <3>3. \A i \in 1..d : SubSeq(delivered, 1, d)[i] = SubSeq(Messages, 1, d)[i]
      BY <1>2, <1>3, <3>1, <3>2
    <3>4. QED BY <3>1, <3>3, SeqEqual
  <2>2. QED BY <1>2, <1>3, <2>1 DEF IsPrefix
<1>5. ASSUME wire = <<>>, ~reading PROVE delivered = Messages
  <2>1. PICK T : Rest(T) /\ Unread(T) BY DEF StreamInv
  <2>2. d = n
    <3>1. SUFFICES ASSUME d < n PROVE FALSE
      <4>1. d \in Nat /\ n \in Nat /\ d <= n BY <1>2
      <4>2. d = n \/ d < n BY ONLY <4>1
      <4>3. QED BY <4>2
    <3>2. PICK u, v : /\ Piece(link, sent[d + 1].msg, u, v)
                      /\ pending \o wire = u \o (v \o T[d + 2])
                      /\ Len(pending) < Len(u)
      BY <2>1, <3>1, <1>5 DEF Unread
    <3>3. pending \o wire = pending BY <1>2, <1>5, JoinAgain
    <3>4. u \in Seq(Nat) /\ v \in Seq(Nat) /\ Len(u) \in Nat BY <3>2, PieceIs
    <3>5. v \o T[d + 2] \in Seq(Nat)
      <4>1. d + 2 \in 1..(n + 1) BY <1>2, <3>1
      <4>2. T[d + 2] \in Seq(Nat) BY <2>1, <4>1 DEF Rest
      <4>3. QED BY <3>4, <4>2, JoinIs
    <3>6. pending = u \o (v \o T[d + 2]) BY <3>2, <3>3
    <3>7. Len(v \o T[d + 2]) \in Nat /\ Len(pending) = Len(u) + Len(v \o T[d + 2])
      BY <3>4, <3>5, <3>6, JoinIs
    <3>8. Len(pending) < Len(u) BY <3>2
    <3>9. QED BY ONLY <3>4, <3>7, <3>8
  <2>3. QED BY <1>2, <1>3, <2>2, SeqEqual
<1>6. QED BY <1>4, <1>5 DEF Faithful

LEMMA StreamPrompt == StreamInv => Prompt
<1> SUFFICES ASSUME StreamInv, ~reading, Len(delivered) < Len(sent)
             PROVE  Len(pending) < Len(sent[Len(delivered) + 1].bytes)
  BY DEF Prompt
<1> DEFINE d == Len(delivered)
<1>1. Written /\ Handed BY DEF StreamInv
<1>2. PICK T : Unread(T) BY DEF StreamInv
<1>3. PICK u, v : /\ Piece(link, sent[d + 1].msg, u, v)
                  /\ Len(u) + Len(v) <= Len(sent[d + 1].bytes)
                  /\ Len(pending) < Len(u)
  BY <1>2 DEF Unread
<1>4. Len(u) \in Nat /\ Len(v) \in Nat BY <1>3, PieceIs
<1>5. Len(pending) \in Nat /\ Len(sent[d + 1].bytes) \in Nat
  <2>1. pending \in Seq(Nat) /\ d + 1 \in 1..Len(sent) BY <1>1 DEF Written, Handed
  <2>2. sent[d + 1] \in [msg : Something, bytes : Seq(Nat)] BY <1>1, <2>1, ElementOfSeq DEF Written
  <2>3. QED BY <2>1, <2>2
<1>6. QED BY ONLY <1>3, <1>4, <1>5

(* However many messages are sent and however their bytes are cut into pieces, the       *)
(* handlers see the messages that were sent, whole, in order, none twice and none made   *)
(* up, and all of them once everything has come (the loops of ChatServer::onMessage,      *)
(* ClusterServer::onMessage, readTaskHandler and loadEnvFile)                            *)
THEOREM StreamsFaithful == Spec => []Faithful
BY StreamHolds, StreamFaithful, PTL

(* When a callback returns no message that has come completely stays in the buffer: each *)
(* loop goes on until what it has is not enough for another one (the same four)           *)
THEOREM StreamsPrompt == Spec => []Prompt
BY StreamHolds, StreamPrompt, PTL

=============================================================================
