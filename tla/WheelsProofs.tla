----------------------------- MODULE WheelsProofs -----------------------------
(***************************************************************************)
(* Proofs about both directions of the serial port, for bodies of any      *)
(* length whose bytes look like anything, headers included; for lines and  *)
(* receive buffers of any size; and for any number of lost, disturbed,     *)
(* flushed and dropped bytes.                                              *)
(***************************************************************************)
EXTENDS MCWheels, SequenceTheorems, FunctionTheorems, FiniteSetTheorems,
        WellFoundedInduction, TLAPS

-----------------------------------------------------------------------------
(* What is left of a sequence.                                             *)

\* p is what is left of q without its first d elements.
After(p, q, d) ==
  /\ d \in 0 .. Len(q)
  /\ Len(p) = Len(q) - d
  /\ \A i \in 1 .. Len(p) : p[i] = q[d + i]

\* Sequences that are as long and agree everywhere are the same.
LEMMA SameSequence ==
  ASSUME NEW S, NEW p \in Seq(S), NEW q \in Seq(S), Len(p) = Len(q),
         \A i \in 1 .. Len(p) : p[i] = q[i]
  PROVE  p = q
BY SeqEqual

LEMMA ConcatFacts ==
  ASSUME NEW S, NEW p \in Seq(S), NEW q \in Seq(S)
  PROVE  /\ p \o q \in Seq(S)
         /\ Len(p \o q) = Len(p) + Len(q)
         /\ \A i \in 1 .. Len(p) : (p \o q)[i] = p[i]
         /\ \A i \in 1 .. Len(q) : (p \o q)[Len(p) + i] = q[i]
<1>1. Len(p) \in Nat /\ Len(q) \in Nat
  BY LenProperties
<1>2. \A i \in 1 .. Len(p) + Len(q) :
        (p \o q)[i] = IF i <= Len(p) THEN p[i] ELSE q[i - Len(p)]
  BY ConcatProperties
<1>3. ASSUME NEW i \in 1 .. Len(q) PROVE (p \o q)[Len(p) + i] = q[i]
  <2>1. Len(p) + i \in 1 .. Len(p) + Len(q) /\ ~ (Len(p) + i <= Len(p))
        /\ Len(p) + i - Len(p) = i
    BY <1>1
  <2> QED
    BY <1>2, <2>1
<1>4. ASSUME NEW i \in 1 .. Len(p) PROVE (p \o q)[i] = p[i]
  <2>1. i \in 1 .. Len(p) + Len(q) /\ i <= Len(p)
    BY <1>1
  <2> QED
    BY <1>2, <2>1
<1> QED
  BY <1>3, <1>4, ConcatProperties

LEMMA Assembled ==
  ASSUME NEW S, NEW p \in Seq(S), NEW q \in Seq(S), NEW r \in Seq(S),
         NEW s, s = (p \o q) \o r
  PROVE  /\ s \in Seq(S)
         /\ Len(s) = Len(p) + Len(q) + Len(r)
         /\ \A i \in 1 .. Len(p) : s[i] = p[i]
         /\ \A i \in 1 .. Len(q) : s[Len(p) + i] = q[i]
         /\ \A i \in 1 .. Len(r) : s[Len(p) + Len(q) + i] = r[i]
<1>1. /\ p \o q \in Seq(S)
      /\ Len(p \o q) = Len(p) + Len(q)
      /\ \A i \in 1 .. Len(p) : (p \o q)[i] = p[i]
      /\ \A i \in 1 .. Len(q) : (p \o q)[Len(p) + i] = q[i]
  BY ConcatFacts
<1>2. /\ s \in Seq(S)
      /\ Len(s) = Len(p \o q) + Len(r)
      /\ \A i \in 1 .. Len(p \o q) : s[i] = (p \o q)[i]
      /\ \A i \in 1 .. Len(r) : s[Len(p \o q) + i] = r[i]
  BY <1>1, ConcatFacts
<1>3. Len(p) \in Nat /\ Len(q) \in Nat
  BY LenProperties
<1>4. /\ \A i \in 1 .. Len(p) : i \in 1 .. Len(p \o q)
      /\ \A i \in 1 .. Len(q) : Len(p) + i \in 1 .. Len(p \o q)
  BY <1>1, <1>3
<1> QED
  BY <1>1, <1>2, <1>4

LEMMA SubSeqFacts ==
  ASSUME NEW S, NEW q \in Seq(S), NEW m \in 1 .. Len(q) + 1, NEW n \in m - 1 .. Len(q)
  PROVE  /\ SubSeq(q, m, n) \in Seq(S)
         /\ Len(SubSeq(q, m, n)) = n - m + 1
         /\ \A i \in 1 .. n - m + 1 : SubSeq(q, m, n)[i] = q[m + i - 1]
<1>1. Len(q) \in Nat
  BY LenProperties
<1>2. CASE m <= n
  <2>1. m \in 1 .. Len(q) /\ n \in m - 1 .. Len(q)
    BY <1>1, <1>2
  <2> QED
    BY <1>2, <2>1, SubSeqProperties
<1>3. CASE n = m - 1
  <2>1. SubSeq(q, m, n) = << >>
    BY <1>1, <1>3, SubSeqEmpty
  <2>2. Len(<< >>) = 0 /\ << >> \in Seq(S) /\ n - m + 1 = 0
    BY <1>1, <1>3
  <2> QED
    BY <2>1, <2>2
<1> QED
  BY <1>1, <1>2, <1>3

LEMMA AfterSubSeq ==
  ASSUME NEW S, NEW q \in Seq(S), NEW d \in 0 .. Len(q)
  PROVE  SubSeq(q, d + 1, Len(q)) \in Seq(S) /\ After(SubSeq(q, d + 1, Len(q)), q, d)
<1>1. Len(q) \in Nat
  BY LenProperties
<1>2. d + 1 \in 1 .. Len(q) + 1 /\ Len(q) \in (d + 1) - 1 .. Len(q)
      /\ Len(q) - (d + 1) + 1 = Len(q) - d
  BY <1>1
<1>3. \A i \in 1 .. Len(q) - d : (d + 1) + i - 1 = d + i
  BY <1>1
<1> DEFINE p == SubSeq(q, d + 1, Len(q))
<1>4. /\ p \in Seq(S) /\ Len(p) = Len(q) - d
      /\ \A i \in 1 .. Len(q) - d : p[i] = q[(d + 1) + i - 1]
  <2> HIDE DEF p
  <2>1. /\ p \in Seq(S)
        /\ Len(p) = Len(q) - (d + 1) + 1
        /\ \A i \in 1 .. Len(q) - (d + 1) + 1 : p[i] = q[(d + 1) + i - 1]
    BY <1>2, SubSeqFacts DEF p
  <2> QED
    BY <1>2, <2>1
<1> HIDE DEF p
<1>5. After(p, q, d)
  BY <1>3, <1>4 DEF After
<1> QED
  BY <1>4, <1>5 DEF p

LEMMA AfterAfter ==
  ASSUME NEW S, NEW p \in Seq(S), NEW q \in Seq(S), NEW r \in Seq(S),
         NEW d, NEW e, After(p, q, d), After(q, r, e)
  PROVE  After(p, r, e + d)
<1>1. Len(p) \in Nat /\ Len(q) \in Nat /\ Len(r) \in Nat /\ d \in Nat /\ e \in Nat
  BY LenProperties DEF After
<1>2. e + d \in 0 .. Len(r) /\ Len(p) = Len(r) - (e + d)
  BY <1>1 DEF After
<1>3. ASSUME NEW i \in 1 .. Len(p) PROVE p[i] = r[e + d + i]
  <2>1. d + i \in 1 .. Len(q) /\ e + (d + i) = e + d + i
    BY <1>1 DEF After
  <2>2. p[i] = q[d + i] /\ q[d + i] = r[e + (d + i)]
    BY <2>1 DEF After
  <2> QED
    BY <2>1, <2>2
<1> QED
  BY <1>2, <1>3 DEF After

\* What is appended is left as well.
LEMMA AfterConcat ==
  ASSUME NEW S, NEW p \in Seq(S), NEW q \in Seq(S), NEW r \in Seq(S),
         NEW d, After(p, q, d)
  PROVE  After(p \o r, q \o r, d)
<1>1. Len(p) \in Nat /\ Len(q) \in Nat /\ Len(r) \in Nat /\ d \in Nat
  BY LenProperties DEF After
<1>2. Len(p \o r) = Len(p) + Len(r) /\ Len(q \o r) = Len(q) + Len(r)
  BY ConcatFacts
<1>3. ASSUME NEW i \in 1 .. Len(p \o r) PROVE (p \o r)[i] = (q \o r)[d + i]
  <2>1. CASE i \in 1 .. Len(p)
    <3>1. d + i \in 1 .. Len(q)
      BY <1>1, <2>1 DEF After
    <3> QED
      BY <2>1, <3>1, ConcatFacts DEF After
  <2>2. CASE i \notin 1 .. Len(p)
    <3> DEFINE j == i - Len(p)
    <3>1. j \in 1 .. Len(r) /\ i = Len(p) + j /\ d + i = Len(q) + j
      BY <1>1, <1>2, <2>2 DEF After
    <3> HIDE DEF j
    <3> QED
      BY <3>1, ConcatFacts
  <2> QED
    BY <2>1, <2>2
<1> QED
  BY <1>1, <1>2, <1>3 DEF After

\* A set of naturals that is not empty has a least one.
LEMMA LeastExists ==
  ASSUME NEW T \in SUBSET Nat, T # {}
  PROVE  \E n \in T : \A y \in T : n <= y
<1> DEFINE Less == OpToRel(<, Nat)
<1>1. IsWellFoundedOn(Less, Nat)
  BY NatLessThanWellFounded
<1>2. IsWellFoundedOn(Less, T)
  BY <1>1, IsWellFoundedOnSubset
<1>3. \E n \in T : \A y \in T : ~ (<<y, n>> \in Less)
  BY <1>2, WFMin
<1>4. PICK n \in T : \A y \in T : ~ (<<y, n>> \in Less)
  BY <1>3
<1>5. ASSUME NEW y \in T PROVE n <= y
  <2>1. y \in Nat /\ n \in Nat
    OBVIOUS
  <2>2. ~ y < n
    BY <1>4, <2>1 DEF OpToRel
  <2> QED
    BY <2>1, <2>2
<1> QED
  BY <1>5

-----------------------------------------------------------------------------
(* Packets, and where whole ones are.                                      *)

Looks == HeaderKinds \cup {"other"}

\* A packet with such a body, in either direction.
PacketOf(looks, id, n) ==
  <<Byte("AA", <<>>), Byte("55", <<>>), Byte(id, <<>>), Byte("10", <<>>)>>
    \o [k \in 1 .. Len(looks) |-> Byte(looks[k], <<n>>)]
    \o <<Byte(CrcKind(id), <<n>>)>>

\* Only the first four bytes of a packet do not carry its number, and only
\* its last one looks like a CRC.
LEMMA PacketBytes ==
  ASSUME NEW looks \in Seq(Looks), NEW id \in {"cmd", "meas"}, NEW n,
         NEW P, P = PacketOf(looks, id, n)
  PROVE  /\ n \in Nat => P \in Seq(Bytes)
         /\ Len(P) = HeaderLen + Len(looks) + 1
         /\ P[1] = Byte("AA", <<>>) /\ P[2] = Byte("55", <<>>)
         /\ P[3] = Byte(id, <<>>) /\ P[4] = Byte("10", <<>>)
         /\ \A k \in 1 .. Len(looks) : P[HeaderLen + k] = Byte(looks[k], <<n>>)
         /\ P[HeaderLen + Len(looks) + 1] = Byte(CrcKind(id), <<n>>)
<1> DEFINE B == [kind : HeaderKinds \cup {"other", "crc of cmd", "crc of meas"},
                 of : {<<>>, <<n>>}]
           head == <<Byte("AA", <<>>), Byte("55", <<>>), Byte(id, <<>>),
                     Byte("10", <<>>)>>
           body == [k \in 1 .. Len(looks) |-> Byte(looks[k], <<n>>)]
           tail == <<Byte(CrcKind(id), <<n>>)>>
<1>1. Len(looks) \in Nat /\ \A k \in 1 .. Len(looks) : looks[k] \in Looks
  BY LenProperties, ElementOfSeq
<1>2. /\ Byte("AA", <<>>) \in B /\ Byte("55", <<>>) \in B
      /\ Byte(id, <<>>) \in B /\ Byte("10", <<>>) \in B
      /\ Byte(CrcKind(id), <<n>>) \in B
      /\ \A k \in Looks : Byte(k, <<n>>) \in B
  BY DEF Byte, CrcKind, HeaderKinds, Looks
<1>3. head \in Seq(B) /\ Len(head) = 4
  <2> HIDE DEF B
  <2> QED
    BY <1>2
<1>4. body \in Seq(B) /\ Len(body) = Len(looks)
  <2> HIDE DEF B
  <2>1. \A k \in 1 .. Len(looks) : Byte(looks[k], <<n>>) \in B
    BY <1>1, <1>2
  <2> HIDE DEF B
  <2> QED
    BY <1>1, <2>1, SeqDef, LenProperties
<1>5. tail \in Seq(B) /\ Len(tail) = 1 /\ tail[1] = Byte(CrcKind(id), <<n>>)
  <2>1. Byte(CrcKind(id), <<n>>) \in B
    BY <1>2
  <2> HIDE DEF B
  <2> QED
    BY <2>1
<1>6. /\ head[1] = Byte("AA", <<>>) /\ head[2] = Byte("55", <<>>)
      /\ head[3] = Byte(id, <<>>) /\ head[4] = Byte("10", <<>>)
      /\ \A k \in 1 .. Len(looks) : body[k] = Byte(looks[k], <<n>>)
  OBVIOUS
<1>7. P = (head \o body) \o tail
  BY DEF PacketOf
<1>8. n \in Nat => B \subseteq Bytes
  <2>1. n \in Nat => <<>> \in Seq(Nat) /\ <<n>> \in Seq(Nat)
    OBVIOUS
  <2> QED
    BY <2>1 DEF Bytes
<1> HIDE DEF B, head, body, tail
<1>9. /\ P \in Seq(B) /\ Len(P) = Len(head) + Len(body) + Len(tail)
      /\ \A k \in 1 .. Len(head) : P[k] = head[k]
      /\ \A k \in 1 .. Len(body) : P[Len(head) + k] = body[k]
      /\ \A k \in 1 .. Len(tail) : P[Len(head) + Len(body) + k] = tail[k]
  <2>1. head \in Seq(B)
    BY <1>3
  <2>2. body \in Seq(B)
    BY <1>4
  <2>3. tail \in Seq(B)
    BY <1>5
  <2>4. P = (head \o body) \o tail
    BY <1>7
  <2> QED
    BY <2>1, <2>2, <2>3, <2>4, Assembled
<1>10. /\ 1 \in 1 .. Len(tail) /\ 1 \in 1 .. Len(head) /\ 2 \in 1 .. Len(head)
       /\ 3 \in 1 .. Len(head) /\ 4 \in 1 .. Len(head)
  BY <1>3, <1>5
<1>11. /\ Len(P) = 4 + Len(looks) + 1
       /\ \A k \in {1, 2, 3, 4} : P[k] = head[k]
       /\ \A k \in 1 .. Len(looks) : P[4 + k] = body[k]
       /\ P[4 + Len(looks) + 1] = tail[1]
  BY <1>1, <1>3, <1>4, <1>5, <1>9, <1>10
<1>12. n \in Nat => P \in Seq(Bytes)
  BY <1>8, <1>9, ElementOfSeq, LenProperties, SeqDef
<1> QED
  BY <1>5, <1>6, <1>11, <1>12 DEF HeaderLen

LEMMA ByteParts == \A k, o : Byte(k, o).kind = k /\ Byte(k, o).of = o
BY DEF Byte

-----------------------------------------------------------------------------
(* The measurements.                                                       *)

LEMMA Sizes ==
  /\ Len(BodyLooks) \in Nat \ {0} /\ HeaderLen = 4
  /\ Total(BodyLooks) = Len(BodyLooks) + 5
  /\ BodyLooks \in Seq(Looks)
<1>1. Len(BodyLooks) \in Nat \ {0}
  BY FramesAssumption, EmptySeq, LenProperties
<1> QED
  BY <1>1, FramesAssumption DEF HeaderLen, Total, Looks

\* The packet with the number n, byte by byte.
LEMMA Measurement ==
  ASSUME NEW n
  PROVE  /\ n \in Nat => Packet("meas", n) \in Seq(Bytes)
         /\ Len(Packet("meas", n)) = Total(BodyLooks)
         /\ Packet("meas", n)[1] = Byte("AA", <<>>)
         /\ Packet("meas", n)[2] = Byte("55", <<>>)
         /\ Packet("meas", n)[3] = Byte("meas", <<>>)
         /\ Packet("meas", n)[4] = Byte("10", <<>>)
         /\ \A k \in 1 .. Len(BodyLooks) :
              Packet("meas", n)[HeaderLen + k] = Byte(BodyLooks[k], <<n>>)
         /\ Packet("meas", n)[Total(BodyLooks)] = Byte("crc of meas", <<n>>)
<1>1. Packet("meas", n) = PacketOf(BodyLooks, "meas", n)
  BY DEF Packet, PacketOf
<1>2. CrcKind("meas") = "crc of meas"
  BY DEF CrcKind
<1>3. Total(BodyLooks) = HeaderLen + Len(BodyLooks) + 1 /\ BodyLooks \in Seq(Looks)
  BY Sizes DEF Total
<1> DEFINE P == Packet("meas", n)
<1> HIDE DEF P
<1>4. P = PacketOf(BodyLooks, "meas", n)
  BY <1>1 DEF P
<1>5. /\ n \in Nat => P \in Seq(Bytes)
      /\ Len(P) = Total(BodyLooks)
      /\ P[1] = Byte("AA", <<>>) /\ P[2] = Byte("55", <<>>)
      /\ P[3] = Byte("meas", <<>>) /\ P[4] = Byte("10", <<>>)
      /\ \A k \in 1 .. Len(BodyLooks) : P[HeaderLen + k] = Byte(BodyLooks[k], <<n>>)
      /\ P[Total(BodyLooks)] = Byte("crc of meas", <<n>>)
  <2>1. /\ n \in Nat => P \in Seq(Bytes)
        /\ Len(P) = HeaderLen + Len(BodyLooks) + 1
        /\ P[1] = Byte("AA", <<>>) /\ P[2] = Byte("55", <<>>)
        /\ P[3] = Byte("meas", <<>>) /\ P[4] = Byte("10", <<>>)
        /\ \A k \in 1 .. Len(BodyLooks) : P[HeaderLen + k] = Byte(BodyLooks[k], <<n>>)
        /\ P[HeaderLen + Len(BodyLooks) + 1] = Byte(CrcKind("meas"), <<n>>)
    <3>1. BodyLooks \in Seq(Looks) /\ "meas" \in {"cmd", "meas"}
      BY <1>3
    <3> QED
      BY <1>4, <3>1, PacketBytes
  <2> QED
    BY <1>2, <1>3, <2>1
<1> QED
  BY <1>5 DEF P

\* The bytes of q from i on are those of the packet with the number n.
Holds(q, i, n) ==
  /\ i \in 1 .. Len(q) /\ i + Total(BodyLooks) - 1 <= Len(q)
  /\ \A k \in 1 .. Total(BodyLooks) : q[i + k - 1] = Packet("meas", n)[k]

LEMMA IntactHolds ==
  ASSUME NEW q \in Seq(Bytes), NEW i, Intact(q, i, "meas")
  PROVE  \E n \in Nat : Holds(q, i, n)
<1> DEFINE T == Total(BodyLooks)
           crc == q[i + T - 1]
           n == crc.of[1]
<1>1. Len(q) \in Nat /\ T \in Nat /\ T >= 6
  BY LenProperties, Sizes
<1>2. /\ i \in 1 .. Len(q) - 3 /\ i + T - 1 <= Len(q)
      /\ SubSeq(q, i, i + T - 1) = Packet("meas", n)
  BY Sizes DEF Intact, Positions, Complete, CrcOK
<1>3. i \in 1 .. Len(q) + 1 /\ i + T - 1 \in i - 1 .. Len(q)
      /\ (i + T - 1) - i + 1 = T
  BY <1>1, <1>2
<1>4. \A k \in 1 .. T : SubSeq(q, i, i + T - 1)[k] = q[i + k - 1]
  <2> HIDE DEF T
  <2>1. \A k \in 1 .. (i + T - 1) - i + 1 :
          SubSeq(q, i, i + T - 1)[k] = q[i + k - 1]
    BY <1>3, SubSeqFacts
  <2> QED
    BY <1>3, <2>1
<1>5. \A k \in 1 .. T : q[i + k - 1] = Packet("meas", n)[k]
  BY <1>2, <1>4
<1>6. n \in Nat
  <2>1. crc = Byte("crc of meas", <<n>>)
    <3> HIDE DEF n, crc, T
    <3>1. T \in 1 .. T
      BY <1>1
    <3>2. q[i + T - 1] = Packet("meas", n)[T]
      BY <1>5, <3>1
    <3> QED
      BY <3>2, Measurement DEF T, crc
  <2>2. crc \in Bytes
    <3>1. i + T - 1 \in 1 .. Len(q)
      BY <1>1, <1>2
    <3> HIDE DEF T
    <3> QED
      BY <3>1, ElementOfSeq
  <2> HIDE DEF n, crc
  <2>3. <<n>> \in Seq(Nat)
    BY <2>1, <2>2 DEF Byte, Bytes
  <2>4. <<n>>[1] \in Nat
    BY <2>3, ElementOfSeq
  <2> QED
    BY <2>4
<1> HIDE DEF n
<1> QED
  BY <1>1, <1>2, <1>5, <1>6 DEF Holds

LEMMA HoldsIntact ==
  ASSUME NEW q \in Seq(Bytes), NEW i, NEW n \in Nat, Holds(q, i, n)
  PROVE  /\ Intact(q, i, "meas")
         /\ Carried(q, i) = Numbered(n)
         /\ q[i + Total(BodyLooks) - 1] = Byte("crc of meas", <<n>>)
<1> DEFINE T == Total(BodyLooks)
           P == Packet("meas", n)
<1>1. Len(q) \in Nat /\ T = Len(BodyLooks) + 5 /\ Len(BodyLooks) \in Nat \ {0}
      /\ HeaderLen = 4
  BY LenProperties, Sizes
<1>2. /\ i \in 1 .. Len(q) /\ i + T - 1 <= Len(q)
      /\ \A k \in 1 .. T : q[i + k - 1] = P[k]
  BY DEF Holds
<1>3. /\ P \in Seq(Bytes) /\ Len(P) = T
      /\ P[1] = Byte("AA", <<>>) /\ P[2] = Byte("55", <<>>)
      /\ P[3] = Byte("meas", <<>>) /\ P[4] = Byte("10", <<>>)
      /\ \A k \in 1 .. Len(BodyLooks) : P[4 + k] = Byte(BodyLooks[k], <<n>>)
      /\ P[T] = Byte("crc of meas", <<n>>)
  BY <1>1, Measurement
<1> HIDE DEF T, P
<1>4. /\ q[i] = P[1] /\ q[i + 1] = P[2] /\ q[i + 2] = P[3] /\ q[i + 3] = P[4]
      /\ q[i + T - 1] = P[T]
  <2>1. 1 \in 1 .. T /\ 2 \in 1 .. T /\ 3 \in 1 .. T /\ 4 \in 1 .. T /\ T \in 1 .. T
    BY <1>1
  <2>2. i + 1 - 1 = i /\ i + 2 - 1 = i + 1 /\ i + 3 - 1 = i + 2 /\ i + 4 - 1 = i + 3
    BY <1>1, <1>2
  <2> QED
    BY <1>2, <2>1, <2>2
<1>5. i \in Positions(q)
  BY <1>1, <1>2 DEF Positions
<1>6. HeaderAt(q, i, "meas")
  <2>1. /\ q[i] = Byte("AA", <<>>) /\ q[i + 1] = Byte("55", <<>>)
        /\ q[i + 2] = Byte("meas", <<>>) /\ q[i + 3] = Byte("10", <<>>)
    BY <1>3, <1>4
  <2>2. /\ q[i].kind = "AA" /\ q[i + 1].kind = "55"
        /\ q[i + 2].kind = "meas" /\ q[i + 3].kind = "10"
    BY <2>1, ByteParts
  <2> QED
    BY <2>2 DEF HeaderAt
<1>7. Complete(q, i)
  BY <1>2 DEF Complete, T
<1>8. SubSeq(q, i, i + T - 1) = P
  <2>1. i \in 1 .. Len(q) + 1 /\ i + T - 1 \in i - 1 .. Len(q)
        /\ (i + T - 1) - i + 1 = T
    BY <1>1, <1>2
  <2>2. /\ SubSeq(q, i, i + T - 1) \in Seq(Bytes)
        /\ Len(SubSeq(q, i, i + T - 1)) = (i + T - 1) - i + 1
        /\ \A k \in 1 .. (i + T - 1) - i + 1 :
             SubSeq(q, i, i + T - 1)[k] = q[i + k - 1]
    BY <2>1, SubSeqFacts
  <2> QED
    BY <1>2, <1>3, <2>1, <2>2, SameSequence
<1>9. CrcOK(q, i, "meas")
  <2>1. /\ q[i + T - 1].kind = CrcKind("meas")
        /\ q[i + T - 1].of[1] = n
    <3>1. q[i + T - 1] = Byte("crc of meas", <<n>>)
      BY <1>3, <1>4
    <3>2. Byte("crc of meas", <<n>>).kind = "crc of meas"
          /\ Byte("crc of meas", <<n>>).of = <<n>> /\ <<n>>[1] = n
      BY ByteParts
    <3> QED
      BY <3>1, <3>2 DEF CrcKind
  <2> QED
    BY <1>8, <2>1 DEF CrcOK, T, P
<1>10. Carried(q, i) = Numbered(n)
  <2>1. ASSUME NEW k \in 1 .. Len(BodyLooks)
        PROVE  q[i + HeaderLen - 1 + k].of = <<n>>
    <3>1. 4 + k \in 1 .. T /\ i + (4 + k) - 1 = i + HeaderLen - 1 + k
      BY <1>1, <1>2
    <3>2. q[i + HeaderLen - 1 + k] = P[4 + k]
      BY <1>2, <3>1
    <3>3. q[i + HeaderLen - 1 + k] = Byte(BodyLooks[k], <<n>>)
      BY <1>3, <3>2
    <3> QED
      BY <3>3, ByteParts
  <2> QED
    BY <2>1 DEF Carried, Numbered
<1> QED
  BY <1>3, <1>4, <1>5, <1>6, <1>7, <1>9, <1>10 DEF Intact, T

\* Different numbers make different measurements.
LEMMA NumberedApart ==
  ASSUME NEW m, NEW n, Numbered(m) = Numbered(n)
  PROVE  m = n
<1>1. 1 \in 1 .. Len(BodyLooks)
  BY Sizes
<1>2. Numbered(m)[1] = <<m>> /\ Numbered(n)[1] = <<n>>
  BY <1>1 DEF Numbered
<1> QED
  BY <1>2

\* Whether a packet is there does not depend on what is around it.
LEMMA HoldsAfter ==
  ASSUME NEW p \in Seq(Bytes), NEW q \in Seq(Bytes), NEW d, After(p, q, d),
         NEW i \in 1 .. Len(p), NEW n
  PROVE  Holds(p, i, n) <=> Holds(q, d + i, n)
<1> DEFINE T == Total(BodyLooks)
<1>1. Len(p) \in Nat /\ Len(q) \in Nat /\ d \in Nat /\ T \in Nat /\ T >= 6
      /\ Len(p) = Len(q) - d
  BY LenProperties, Sizes DEF After
<1>2. d + i \in 1 .. Len(q)
  BY <1>1
<1>3. i + T - 1 <= Len(p) <=> d + i + T - 1 <= Len(q)
  BY <1>1
<1>4. ASSUME i + T - 1 <= Len(p), NEW k \in 1 .. T
      PROVE  p[i + k - 1] = q[d + i + k - 1]
  <2>1. i + k - 1 \in 1 .. Len(p) /\ d + (i + k - 1) = d + i + k - 1
    BY <1>1, <1>4
  <2> QED
    BY <2>1 DEF After
<1> HIDE DEF T
<1>5. Holds(p, i, n) <=> /\ i + T - 1 <= Len(p)
                         /\ \A k \in 1 .. T : p[i + k - 1] = Packet("meas", n)[k]
  BY DEF Holds, T
<1>6. Holds(q, d + i, n)
        <=> /\ d + i + T - 1 <= Len(q)
            /\ \A k \in 1 .. T : q[d + i + k - 1] = Packet("meas", n)[k]
  BY <1>2 DEF Holds, T
<1> QED
  BY <1>3, <1>4, <1>5, <1>6

LEMMA HoldsFront ==
  ASSUME NEW p \in Seq(Bytes), NEW r \in Seq(Bytes), NEW i \in 1 .. Len(p),
         i + Total(BodyLooks) - 1 <= Len(p), NEW n
  PROVE  Holds(p, i, n) <=> Holds(p \o r, i, n)
<1> DEFINE T == Total(BodyLooks)
<1>1. Len(p) \in Nat /\ Len(r) \in Nat /\ T \in Nat
  BY LenProperties, Sizes
<1>2. Len(p \o r) = Len(p) + Len(r)
  BY ConcatFacts
<1>3. ASSUME NEW k \in 1 .. T PROVE p[i + k - 1] = (p \o r)[i + k - 1]
  <2>1. i + k - 1 \in 1 .. Len(p)
    BY <1>1
  <2> QED
    BY <2>1, ConcatFacts
<1>4. i \in 1 .. Len(p \o r) /\ i + T - 1 <= Len(p \o r)
  BY <1>1, <1>2
<1> HIDE DEF T
<1>5. i + T - 1 <= Len(p)
  BY DEF T
<1> QED
  BY <1>3, <1>4, <1>5 DEF Holds, T

(***************************************************************************)
(* Packets do not overlap, even when the bytes of a body look like the     *)
(* header of a packet: they carry a number, and no byte of a header does.  *)
(***************************************************************************)
LEMMA NoOverlap ==
  ASSUME NEW q \in Seq(Bytes), NEW i, NEW j, NEW m, NEW n,
         Holds(q, i, m), Holds(q, j, n), i < j
  PROVE  i + Total(BodyLooks) <= j
<1> DEFINE T == Total(BodyLooks)
           L == Len(BodyLooks)
<1>1. L \in Nat \ {0} /\ T = L + 5 /\ HeaderLen = 4 /\ Len(q) \in Nat
  BY Sizes, LenProperties
<1>2. i \in 1 .. Len(q) /\ j \in 1 .. Len(q)
  BY DEF Holds
<1>3. SUFFICES ASSUME j < i + T PROVE FALSE
  BY <1>1, <1>2
<1> DEFINE k == j - i + 1
<1>4. k \in 2 .. T /\ i + k - 1 = j /\ j + 1 - 1 = j /\ 1 \in 1 .. T /\ k \in 1 .. T
  BY <1>1, <1>2, <1>3
<1> HIDE DEF T, L, k
<1>5. q[j] = Packet("meas", m)[k] /\ q[j] = Packet("meas", n)[1]
  BY <1>4 DEF Holds, T
<1>6. q[j].kind = "AA" /\ q[j].of = <<>>
  <2>1. q[j] = Byte("AA", <<>>)
    BY <1>5, Measurement
  <2> QED
    BY <2>1, ByteParts
<1>7. k \in {2, 3, 4} \/ k = T \/ k - 4 \in 1 .. L
  BY <1>1, <1>4
<1>8. CASE k \in {2, 3, 4}
  <2>1. q[j] \in {Byte("55", <<>>), Byte("meas", <<>>), Byte("10", <<>>)}
    BY <1>5, <1>8, Measurement
  <2>2. q[j].kind \in {"55", "meas", "10"}
    BY <2>1, ByteParts
  <2> QED
    BY <1>6, <2>2
<1>9. CASE k = T
  <2>1. q[j] = Byte("crc of meas", <<m>>)
    BY <1>5, <1>9, Measurement DEF T
  <2>2. q[j].kind = "crc of meas"
    BY <2>1, ByteParts
  <2> QED
    BY <1>6, <2>2
<1>10. CASE k - 4 \in 1 .. L
  <2>1. Packet("meas", m)[HeaderLen + (k - 4)] = Byte(BodyLooks[k - 4], <<m>>)
    BY <1>10, Measurement DEF L
  <2>2. HeaderLen + (k - 4) = k
    BY <1>1, <1>4
  <2>3. q[j].of = <<m>>
    BY <1>5, <2>1, <2>2, ByteParts
  <2>4. <<m>> # <<>>
    OBVIOUS
  <2> QED
    BY <1>6, <2>3, <2>4
<1> QED
  BY <1>7, <1>8, <1>9, <1>10

\* Whole packets are what Holds says, and the loop of the parser stops there.
LEMMA WholeFacts ==
  ASSUME NEW q \in Seq(Bytes)
  PROVE  /\ \A i : i \in Whole(q) <=> \E n \in Nat : Holds(q, i, n)
         /\ Whole(q) \subseteq 1 .. Len(q) /\ Whole(q) \in SUBSET Nat
         /\ Whole(q) \subseteq Stops(q)
         /\ \A i \in Stops(q) : Complete(q, i) => i \in Whole(q)
         /\ Stops(q) \in SUBSET Nat
<1>1. \A i : i \in Whole(q) <=> Intact(q, i, "meas")
  BY DEF Whole, Intact
<1>2. \A i : i \in Whole(q) <=> \E n \in Nat : Holds(q, i, n)
  BY <1>1, IntactHolds, HoldsIntact
<1>3. Whole(q) \subseteq 1 .. Len(q)
  BY <1>2 DEF Holds
<1>4. Stops(q) \in SUBSET Nat
  <2>1. Len(q) \in Nat
    BY LenProperties
  <2> QED
    BY <2>1, Sizes DEF Stops, Positions
<1>5. /\ Whole(q) \subseteq Stops(q)
      /\ \A i \in Stops(q) : Complete(q, i) => i \in Whole(q)
  BY <1>1 DEF Whole, Stops, Intact
<1>6. 1 .. Len(q) \in SUBSET Nat
  BY LenProperties
<1> QED
  BY <1>2, <1>3, <1>4, <1>5, <1>6

\* The loop takes the first packet that is whole, if there is one at all: an
\* incomplete one cannot be in front of it.
LEMMA GotFacts ==
  ASSUME NEW q \in Seq(Bytes)
  PROVE  /\ Got(q) <=> Whole(q) # {}
         /\ Stops(q) # {} =>
              /\ FirstStop(q) \in Stops(q)
              /\ \A i \in Stops(q) : FirstStop(q) <= i
         /\ Got(q) => FirstStop(q) \in Whole(q)
<1>1. ASSUME Stops(q) # {}
      PROVE  /\ FirstStop(q) \in Stops(q)
             /\ \A i \in Stops(q) : FirstStop(q) <= i
  <2>1. \E i \in Stops(q) : \A j \in Stops(q) : i <= j
    BY <1>1, WholeFacts, LeastExists
  <2> QED
    BY <2>1 DEF FirstStop
<1>2. ASSUME Got(q) PROVE FirstStop(q) \in Whole(q)
  BY <1>1, <1>2, WholeFacts DEF Got
<1>3. ASSUME NEW w \in Whole(q) PROVE Got(q)
  <2>1. w \in Stops(q) /\ Complete(q, w)
    BY WholeFacts DEF Whole, Intact
  <2>2. FirstStop(q) \in Stops(q) /\ FirstStop(q) <= w
    BY <1>1, <2>1
  <2>3. Complete(q, FirstStop(q))
    <3>1. FirstStop(q) \in Nat /\ w \in Nat /\ Len(q) \in Nat
          /\ Total(BodyLooks) \in Nat
      BY <2>1, <2>2, WholeFacts, LenProperties, Sizes
    <3> QED
      BY <2>1, <2>2, <3>1 DEF Complete
  <2> QED
    BY <2>1, <2>2, <2>3 DEF Got, Stops
<1> QED
  BY <1>1, <1>2, <1>3

-----------------------------------------------------------------------------
(* What the parser leaves in its buffer.                                   *)

LEMMA KeepLastFacts ==
  ASSUME NEW S, NEW q \in Seq(S), NEW n \in Nat
  PROVE  /\ KeepLast(q, n) \in Seq(S) /\ Len(KeepLast(q, n)) <= n
         /\ After(KeepLast(q, n), q, IF Len(q) > n THEN Len(q) - n ELSE 0)
<1>1. Len(q) \in Nat
  BY LenProperties
<1>2. CASE Len(q) > n
  <2> DEFINE d == Len(q) - n
  <2>1. d \in 0 .. Len(q) /\ Len(q) - n + 1 = d + 1 /\ Len(q) - d = n
    BY <1>1, <1>2
  <2>2. KeepLast(q, n) = SubSeq(q, d + 1, Len(q))
    BY <1>2, <2>1 DEF KeepLast
  <2> HIDE DEF d
  <2>3. KeepLast(q, n) \in Seq(S) /\ After(KeepLast(q, n), q, d)
    BY <2>1, <2>2, AfterSubSeq
  <2>4. Len(KeepLast(q, n)) <= n
    BY <1>1, <2>1, <2>3 DEF After
  <2> QED
    BY <1>2, <2>3, <2>4 DEF d
<1>3. CASE ~ (Len(q) > n)
  <2>1. KeepLast(q, n) = q
    BY <1>3 DEF KeepLast
  <2>2. After(q, q, 0)
    BY <1>1 DEF After
  <2> QED
    BY <1>1, <1>3, <2>1, <2>2
<1> QED
  BY <1>2, <1>3

\* How many bytes the parser throws away or takes.
Dropped(buf) ==
  IF Got(buf) THEN FirstStop(buf) + Total(BodyLooks) - 1
  ELSE IF Stops(buf) # {} \/ Len(buf) <= HeaderLen - 1 THEN 0
  ELSE Len(buf) - (HeaderLen - 1)

LEMMA RemainderType ==
  ASSUME NEW buf \in Seq(Bytes)
  PROVE  Remainder(buf) \in Seq(Bytes) /\ After(Remainder(buf), buf, Dropped(buf))
<1>1. Len(buf) \in Nat /\ HeaderLen - 1 = 3 /\ HeaderLen - 1 \in Nat
      /\ Total(BodyLooks) \in Nat /\ Total(BodyLooks) >= 6
  BY LenProperties, Sizes
<1>2. CASE Got(buf)
  <2>1. FirstStop(buf) \in Whole(buf)
    BY <1>2, GotFacts
  <2>2. FirstStop(buf) \in 1 .. Len(buf)
        /\ FirstStop(buf) + Total(BodyLooks) - 1 <= Len(buf)
    BY <2>1, WholeFacts DEF Whole, Intact, Complete
  <2> DEFINE d == FirstStop(buf) + Total(BodyLooks) - 1
  <2>3. d \in 0 .. Len(buf) /\ FirstStop(buf) + Total(BodyLooks) = d + 1
    BY <1>1, <2>2
  <2>4. Remainder(buf) = SubSeq(buf, d + 1, Len(buf)) /\ Dropped(buf) = d
    BY <1>2, <2>3 DEF Remainder, Dropped
  <2> HIDE DEF d
  <2> QED
    BY <2>3, <2>4, AfterSubSeq
<1>3. CASE ~ Got(buf) /\ Stops(buf) # {}
  <2>1. Remainder(buf) = buf /\ Dropped(buf) = 0
    BY <1>3 DEF Remainder, Dropped
  <2> QED
    BY <1>1, <2>1 DEF After
<1>4. CASE ~ Got(buf) /\ Stops(buf) = {}
  <2>1. Remainder(buf) = KeepLast(buf, HeaderLen - 1)
    BY <1>4 DEF Remainder
  <2>2. Dropped(buf) = IF Len(buf) > HeaderLen - 1 THEN Len(buf) - (HeaderLen - 1) ELSE 0
    BY <1>1, <1>4 DEF Dropped
  <2> QED
    BY <1>1, <2>1, <2>2, KeepLastFacts
<1> QED
  BY <1>2, <1>3, <1>4

\* Of the whole packets that are there, or will be once the rest has come, it
\* throws away none but the one it takes.
LEMMA RemainderKeeps ==
  ASSUME NEW buf \in Seq(Bytes), NEW rest \in Seq(Bytes),
         NEW w \in Whole(buf \o rest)
  PROVE  w <= Dropped(buf) <=> Got(buf) /\ w = FirstStop(buf)
<1> DEFINE T == Total(BodyLooks)
           all == buf \o rest
           i == FirstStop(buf)
<1>1. Len(buf) \in Nat /\ Len(rest) \in Nat /\ T \in Nat /\ T >= 6 /\ HeaderLen = 4
  BY LenProperties, Sizes
<1>2. /\ all \in Seq(Bytes) /\ Len(all) = Len(buf) + Len(rest)
      /\ \A k \in 1 .. Len(buf) : all[k] = buf[k]
  BY ConcatFacts
<1>3. w \in Nat /\ w >= 1 /\ \E n \in Nat : Holds(all, w, n)
  <2>1. w \in 1 .. Len(all) /\ \E n \in Nat : Holds(all, w, n)
    <3> HIDE DEF all
    <3> QED
      BY <1>2, WholeFacts DEF all
  <2> QED
    BY <1>1, <1>2, <2>1
\* One that ends in the buffer is a whole packet of the buffer.
<1>4. ASSUME w + T - 1 <= Len(buf) PROVE w \in Whole(buf)
  <2>1. w \in 1 .. Len(buf)
    BY <1>1, <1>3, <1>4
  <2>2. \E n \in Nat : Holds(buf, w, n)
    BY <1>3, <1>4, <2>1, HoldsFront
  <2> QED
    BY <2>2, WholeFacts
<1>5. CASE Got(buf)
  <2>1. /\ i \in Whole(buf) /\ i \in Nat /\ i >= 1
        /\ \A j \in Stops(buf) : i <= j
    BY <1>5, GotFacts, WholeFacts DEF Got
  <2>2. PICK n \in Nat : Holds(buf, i, n)
    BY <2>1, WholeFacts
  <2>3. i \in 1 .. Len(buf) /\ i + T - 1 <= Len(buf)
    BY <2>2 DEF Holds
  <2>4. Holds(all, i, n)
    BY <2>2, <2>3, HoldsFront
  <2>5. PICK m \in Nat : Holds(all, w, m)
    BY <1>3
  <2>6. CASE w < i
    <3>1. w + T - 1 <= Len(buf)
      BY <1>1, <1>3, <2>1, <2>3, <2>6
    <3>2. i <= w
      BY <1>4, <2>1, <3>1, WholeFacts
    <3> QED
      BY <1>3, <2>1, <2>6, <3>2
  <2>7. CASE i < w
    <3>1. i + T <= w
      BY <1>2, <2>4, <2>5, <2>7, NoOverlap
    <3> QED
      BY <1>1, <1>3, <1>5, <2>1, <2>7, <3>1 DEF Dropped
  <2>8. CASE w = i
    BY <1>1, <1>5, <2>1, <2>8 DEF Dropped
  <2> QED
    BY <1>3, <2>1, <2>6, <2>7, <2>8
<1>6. CASE ~ Got(buf)
  <2>1. SUFFICES ASSUME w <= Dropped(buf) PROVE FALSE
    BY <1>6
  <2>2. Stops(buf) = {} /\ w <= Len(buf) - 3
    BY <1>1, <1>3, <1>6, <2>1 DEF Dropped
  <2>3. w \in Positions(buf)
    BY <1>1, <1>3, <2>2 DEF Positions
  <2>4. HeaderAt(buf, w, "meas")
    <3>1. HeaderAt(all, w, "meas")
      BY DEF Whole, Intact
    <3>2. /\ w \in 1 .. Len(buf) /\ w + 1 \in 1 .. Len(buf)
          /\ w + 2 \in 1 .. Len(buf) /\ w + 3 \in 1 .. Len(buf)
      BY <1>1, <1>3, <2>2
    <3> HIDE DEF all
    <3> QED
      BY <1>2, <3>1, <3>2 DEF HeaderAt
  <2>5. Complete(buf, w) => CrcOK(buf, w, "meas")
    <3>1. ASSUME Complete(buf, w) PROVE w \in Whole(buf)
      BY <1>4, <3>1 DEF Complete
    <3> QED
      BY <3>1 DEF Whole, Intact
  <2>6. w \in Stops(buf)
    BY <2>3, <2>4, <2>5 DEF Stops
  <2> QED
    BY <2>2, <2>6
<1> QED
  BY <1>5, <1>6

-----------------------------------------------------------------------------
(* Numbers that rise.                                                      *)

IsCrc(b) == b.kind = "crc of meas"

\* The CRCs of measurements in q are of later and later ones, all of them
\* after low and up to high.
Rising(q, low, high) ==
  /\ \A i \in 1 .. Len(q) : IsCrc(q[i]) => \E n \in low + 1 .. high : q[i].of = <<n>>
  /\ \A i, j \in 1 .. Len(q) :
       i < j /\ IsCrc(q[i]) /\ IsCrc(q[j]) => q[i].of[1] < q[j].of[1]

\* They still rise when bytes are left out, or made into no CRC.
LEMMA RisingThinned ==
  ASSUME NEW p, NEW q, NEW low, NEW high, Rising(q, low, high),
         NEW f \in [1 .. Len(p) -> 1 .. Len(q)],
         \A i, j \in 1 .. Len(p) : i < j => f[i] < f[j],
         \A i \in 1 .. Len(p) : IsCrc(p[i]) => p[i] = q[f[i]]
  PROVE  Rising(p, low, high)
<1>1. ASSUME NEW i \in 1 .. Len(p), IsCrc(p[i])
      PROVE  f[i] \in 1 .. Len(q) /\ p[i] = q[f[i]] /\ IsCrc(q[f[i]])
  <2>1. f[i] \in 1 .. Len(q)
    OBVIOUS
  <2>2. p[i] = q[f[i]]
    BY <1>1
  <2> QED
    BY <1>1, <2>1, <2>2
<1>2. ASSUME NEW i \in 1 .. Len(p), IsCrc(p[i])
      PROVE  \E n \in low + 1 .. high : p[i].of = <<n>>
  <2>1. \E n \in low + 1 .. high : q[f[i]].of = <<n>>
    BY <1>1, <1>2 DEF Rising
  <2> QED
    BY <1>1, <1>2, <2>1
<1>3. ASSUME NEW i \in 1 .. Len(p), NEW j \in 1 .. Len(p), i < j,
             IsCrc(p[i]), IsCrc(p[j])
      PROVE  p[i].of[1] < p[j].of[1]
  <2>1. f[i] < f[j]
    BY <1>3
  <2>2. q[f[i]].of[1] < q[f[j]].of[1]
    BY <1>1, <1>3, <2>1 DEF Rising
  <2> QED
    BY <1>1, <1>3, <2>2
<1> QED
  BY <1>2, <1>3 DEF Rising

LEMMA RisingAfter ==
  ASSUME NEW S, NEW p \in Seq(S), NEW q \in Seq(S), NEW d, After(p, q, d),
         NEW low, NEW high, Rising(q, low, high)
  PROVE  Rising(p, low, high)
<1> DEFINE f == [i \in 1 .. Len(p) |-> d + i]
<1>1. Len(p) \in Nat /\ Len(q) \in Nat /\ d \in Nat /\ Len(p) = Len(q) - d
  BY LenProperties DEF After
<1>2. f \in [1 .. Len(p) -> 1 .. Len(q)]
  BY <1>1
<1>3. \A i, j \in 1 .. Len(p) : i < j => f[i] < f[j]
  BY <1>1
<1>4. \A i \in 1 .. Len(p) : p[i] = q[f[i]]
  BY DEF After
<1> HIDE DEF f
<1> QED
  BY <1>2, <1>3, <1>4, RisingThinned

-----------------------------------------------------------------------------
(* One cycle.                                                              *)

BuffersOK ==
  /\ rxbuf \in Seq(Bytes) /\ Len(rxbuf) <= RxbufMax
  /\ line \in Seq(Bytes)

\* What the cycle leaves on the line, and how many bytes did not fit.
Rest(k) == SubSeq(line, k + 1, Len(line))
Overflow(k) == IF Len(rxbuf) + k > RxbufMax THEN Len(rxbuf) + k - RxbufMax ELSE 0

LEMMA ReadFacts ==
  ASSUME BuffersOK, NEW k \in 0 .. Len(line), ReadPort(k)
  PROVE  /\ BuffersOK'
         /\ Filled(k) \in Seq(Bytes) /\ Rest(k) \in Seq(Bytes) /\ line' = Rest(k)
         /\ After(Filled(k) \o Rest(k), rxbuf \o line, Overflow(k))
         /\ After(rxbuf' \o line', Filled(k) \o Rest(k), Dropped(Filled(k)))
         /\ After(rxbuf' \o line', rxbuf \o line, Overflow(k) + Dropped(Filled(k)))
<1> DEFINE front == SubSeq(line, 1, k)
           buf == Filled(k)
<1>1. /\ Len(rxbuf) \in Nat /\ Len(line) \in Nat /\ RxbufMax \in Nat
      /\ rxbuf \in Seq(Bytes) /\ line \in Seq(Bytes)
  BY LenProperties, StatesAssumption DEF BuffersOK
<1>2. /\ front \in Seq(Bytes) /\ Len(front) = k
      /\ \A i \in 1 .. k : front[i] = line[i]
  <2>1. 1 \in 1 .. Len(line) + 1 /\ k \in 1 - 1 .. Len(line) /\ k - 1 + 1 = k
    BY <1>1
  <2>2. /\ front \in Seq(Bytes) /\ Len(front) = k - 1 + 1
        /\ \A i \in 1 .. k - 1 + 1 : front[i] = line[1 + i - 1]
    BY <1>1, <2>1, SubSeqFacts
  <2>3. \A i \in 1 .. k : 1 + i - 1 = i
    BY <1>1
  <2> HIDE DEF front
  <2> QED
    BY <2>1, <2>2, <2>3
<1>3. Rest(k) \in Seq(Bytes) /\ After(Rest(k), line, k)
  BY <1>1, AfterSubSeq DEF Rest
<1> HIDE DEF front
<1>4. rxbuf \o front \in Seq(Bytes) /\ Len(rxbuf \o front) = Len(rxbuf) + k
  BY <1>1, <1>2, ConcatFacts
<1>5. /\ buf \in Seq(Bytes) /\ Len(buf) <= RxbufMax
      /\ After(buf, rxbuf \o front, Overflow(k))
  <2>1. buf = KeepLast(rxbuf \o front, RxbufMax)
    BY DEF Filled, front
  <2>2. /\ buf \in Seq(Bytes) /\ Len(buf) <= RxbufMax
        /\ After(buf, rxbuf \o front,
                 IF Len(rxbuf \o front) > RxbufMax
                   THEN Len(rxbuf \o front) - RxbufMax ELSE 0)
    <3> HIDE DEF buf
    <3>1. rxbuf \o front \in Seq(Bytes)
      BY <1>4
    <3> QED
      BY <1>1, <2>1, <3>1, KeepLastFacts
  <2> HIDE DEF buf
  <2>3. Overflow(k) = IF Len(rxbuf \o front) > RxbufMax
                        THEN Len(rxbuf \o front) - RxbufMax ELSE 0
    <3>1. Len(rxbuf \o front) = Len(rxbuf) + k
      BY <1>4
    <3>2. \A n \in Nat : n = Len(rxbuf) + k =>
            Overflow(k) = IF n > RxbufMax THEN n - RxbufMax ELSE 0
      BY <1>1 DEF Overflow
    <3>3. Len(rxbuf \o front) \in Nat
      BY <1>1, <3>1
    <3> QED
      BY ONLY <3>1, <3>2, <3>3
  <2> QED
    BY <2>2, <2>3
<1>6. (rxbuf \o front) \o Rest(k) = rxbuf \o line
  <2>1. line = front \o Rest(k)
    <3>1. front \o Rest(k) \in Seq(Bytes) /\ Len(front \o Rest(k)) = Len(line)
      <4>1. Len(Rest(k)) = Len(line) - k
        BY <1>3 DEF After
      <4>2. front \in Seq(Bytes) /\ Rest(k) \in Seq(Bytes)
        BY <1>2, <1>3
      <4>3. /\ front \o Rest(k) \in Seq(Bytes)
            /\ Len(front \o Rest(k)) = Len(front) + Len(Rest(k))
        BY <4>2, ConcatFacts
      <4> QED
        BY <1>1, <1>2, <4>1, <4>3
    <3>2. ASSUME NEW i \in 1 .. Len(line) PROVE line[i] = (front \o Rest(k))[i]
      <4>1. CASE i <= k
        <5>1. i \in 1 .. k
          BY <4>1
        <5> QED
          BY <1>2, <1>3, <5>1, ConcatFacts
      <4>2. CASE ~ (i <= k)
        <5>1. i - k \in 1 .. Len(Rest(k)) /\ k + (i - k) = i
          BY <1>1, <1>3, <4>2 DEF After
        <5>2. Rest(k)[i - k] = line[i]
          BY <1>3, <5>1 DEF After
        <5>3. (front \o Rest(k))[Len(front) + (i - k)] = Rest(k)[i - k]
          BY <1>2, <1>3, <5>1, ConcatFacts
        <5> QED
          BY <1>2, <5>1, <5>2, <5>3
      <4> QED
        BY <4>1, <4>2
    <3> QED
      BY <1>1, <3>1, <3>2, SameSequence
  <2> QED
    BY <1>1, <1>2, <1>3, <2>1, ConcatAssociative
<1>7. After(buf \o Rest(k), rxbuf \o line, Overflow(k))
  BY <1>3, <1>4, <1>5, <1>6, AfterConcat
<1>8. rxbuf' = Remainder(buf) /\ line' = Rest(k)
  BY DEF ReadPort, Rest
<1>9. Remainder(buf) \in Seq(Bytes) /\ After(Remainder(buf), buf, Dropped(buf))
  BY <1>5, RemainderType
<1> HIDE DEF buf
<1>10. After(rxbuf' \o line', buf \o Rest(k), Dropped(buf))
  BY <1>3, <1>5, <1>8, <1>9, AfterConcat
<1>11. BuffersOK'
  <2>1. Len(buf) \in Nat /\ Len(Remainder(buf)) \in Nat
    BY <1>5, <1>9, LenProperties
  <2>2. Len(Remainder(buf)) <= RxbufMax
    BY <1>1, <1>5, <1>9, <2>1 DEF After
  <2> QED
    BY <1>3, <1>8, <1>9, <2>2 DEF BuffersOK
<1>12. /\ rxbuf' \o line' \in Seq(Bytes) /\ buf \o Rest(k) \in Seq(Bytes)
       /\ rxbuf \o line \in Seq(Bytes)
  BY <1>1, <1>3, <1>5, <1>8, <1>9, ConcatFacts
<1>13. After(rxbuf' \o line', rxbuf \o line, Overflow(k) + Dropped(buf))
  BY <1>7, <1>10, <1>12, AfterAfter
<1> QED
  BY <1>3, <1>5, <1>7, <1>8, <1>10, <1>11, <1>13 DEF buf

-----------------------------------------------------------------------------
(* The numbers of what is collected and on its way.                        *)

LEMMA RisingWider ==
  ASSUME NEW q, NEW low \in Int, NEW high \in Int, NEW l \in Int, NEW h \in Int,
         Rising(q, low, high), l <= low, high <= h
  PROVE  Rising(q, l, h)
<1>1. low + 1 .. high \subseteq l + 1 .. h
  OBVIOUS
<1> QED
  BY <1>1 DEF Rising

\* What comes after a whole packet has later numbers than that packet.
LEMMA RisingPast ==
  ASSUME NEW p \in Seq(Bytes), NEW q \in Seq(Bytes), NEW d, After(p, q, d),
         NEW low \in Int, NEW high \in Int, Rising(q, low, high),
         NEW i, NEW n \in Nat, Holds(q, i, n), i + Total(BodyLooks) - 1 <= d
  PROVE  n \in low + 1 .. high /\ Rising(p, n, high)
<1> DEFINE c == i + Total(BodyLooks) - 1
<1>1. /\ Len(p) \in Nat /\ Len(q) \in Nat /\ d \in Nat /\ Len(p) = Len(q) - d
      /\ d <= Len(q)
  BY LenProperties DEF After
<1>2. c \in 1 .. Len(q) /\ c <= d
  BY <1>1, Sizes DEF Holds
<1>3. q[c] = Byte("crc of meas", <<n>>)
  BY HoldsIntact
<1> HIDE DEF c
<1>4. IsCrc(q[c]) /\ q[c].of = <<n>> /\ q[c].of[1] = n
  <2>1. /\ Byte("crc of meas", <<n>>).kind = "crc of meas"
        /\ Byte("crc of meas", <<n>>).of = <<n>> /\ <<n>>[1] = n
    BY ByteParts
  <2> QED
    BY <1>3, <2>1 DEF IsCrc
<1>5. n \in low + 1 .. high
  <2>1. PICK m \in low + 1 .. high : q[c].of = <<m>>
    BY <1>2, <1>4 DEF Rising
  <2> QED
    BY <1>4, <2>1
<1>6. ASSUME NEW x \in 1 .. Len(p), IsCrc(p[x])
      PROVE  \E m \in n + 1 .. high : p[x].of = <<m>>
  <2>1. d + x \in 1 .. Len(q) /\ c < d + x
    BY <1>1, <1>2
  <2>2. p[x] = q[d + x]
    BY DEF After
  <2>3. IsCrc(q[d + x])
    BY <1>6, <2>2
  <2>4. PICK m \in low + 1 .. high : q[d + x].of = <<m>>
    BY <2>1, <2>3 DEF Rising
  <2>5. q[c].of[1] < q[d + x].of[1]
    BY <1>2, <1>4, <2>1, <2>3 DEF Rising
  <2>6. q[d + x].of[1] = m
    BY <2>4
  <2>7. n < m
    BY <1>4, <2>5, <2>6
  <2>8. m \in n + 1 .. high
    BY <2>7
  <2> QED
    BY <2>2, <2>4, <2>8
<1>7. Rising(p, low, high)
  BY RisingAfter
<1> QED
  BY <1>5, <1>6, <1>7 DEF Rising

\* Only the last byte of a packet looks like its CRC.
LEMMA MeasurementCrc ==
  ASSUME NEW n, NEW k \in 1 .. Total(BodyLooks), IsCrc(Packet("meas", n)[k])
  PROVE  k = Total(BodyLooks)
<1> DEFINE b == Packet("meas", n)[k]
<1>1. Total(BodyLooks) = Len(BodyLooks) + 5 /\ Len(BodyLooks) \in Nat /\ HeaderLen = 4
  BY Sizes
<1>2. b.kind = "crc of meas"
  BY DEF IsCrc
<1>3. CASE k \in {1, 2, 3, 4}
  <2>1. b \in {Byte("AA", <<>>), Byte("55", <<>>), Byte("meas", <<>>), Byte("10", <<>>)}
    BY <1>3, Measurement
  <2>2. b.kind \in {"AA", "55", "meas", "10"}
    BY <2>1, ByteParts
  <2> QED
    BY <1>2, <2>2
<1>4. CASE k - 4 \in 1 .. Len(BodyLooks)
  <2>1. HeaderLen + (k - 4) = k
    BY <1>1
  <2>2. b = Byte(BodyLooks[k - 4], <<n>>)
    BY <1>4, <2>1, Measurement
  <2>3. BodyLooks[k - 4] \in Looks
    BY <1>4, Sizes, ElementOfSeq
  <2>4. b.kind \in Looks
    BY <2>2, <2>3, ByteParts
  <2> HIDE DEF b
  <2> QED
    BY <1>2, <2>4 DEF Looks, HeaderKinds
<1>5. k \in {1, 2, 3, 4} \/ k - 4 \in 1 .. Len(BodyLooks) \/ k = Total(BodyLooks)
  BY <1>1
<1> QED
  BY <1>3, <1>4, <1>5

LEMMA RisingSent ==
  ASSUME NEW q \in Seq(Bytes), NEW low \in Nat, NEW high \in Nat, low <= high,
         Rising(q, low, high)
  PROVE  Rising(q \o Packet("meas", high + 1), low, high + 1)
<1> DEFINE P == Packet("meas", high + 1)
           all == q \o P
           T == Total(BodyLooks)
<1>1. P \in Seq(Bytes) /\ Len(P) = T /\ P[T] = Byte("crc of meas", <<high + 1>>)
  <2>1. high + 1 \in Nat
    OBVIOUS
  <2> QED
    BY <2>1, Measurement
<1>2. Len(q) \in Nat /\ T \in Nat
  BY LenProperties, Sizes
<1>3. \A k \in 1 .. T : IsCrc(P[k]) => k = T
  BY MeasurementCrc
<1> HIDE DEF P, T
<1>4. /\ Len(all) = Len(q) + T
      /\ \A i \in 1 .. Len(q) : all[i] = q[i]
      /\ \A i \in 1 .. T : all[Len(q) + i] = P[i]
  <2>1. P \in Seq(Bytes)
    BY <1>1
  <2>2. /\ Len(all) = Len(q) + Len(P)
        /\ \A i \in 1 .. Len(q) : all[i] = q[i]
        /\ \A i \in 1 .. Len(P) : all[Len(q) + i] = P[i]
    BY <2>1, ConcatFacts
  <2>3. Len(P) = T
    BY <1>1
  <2> QED
    BY <2>2, <2>3
<1> HIDE DEF all
<1>5. ASSUME NEW i \in 1 .. Len(all), IsCrc(all[i])
      PROVE  \/ /\ i \in 1 .. Len(q) /\ IsCrc(q[i]) /\ all[i] = q[i]
                /\ \E n \in low + 1 .. high : all[i].of = <<n>>
             \/ i = Len(q) + T /\ all[i].of = <<high + 1>>
  <2>1. CASE i \in 1 .. Len(q)
    <3>1. all[i] = q[i]
      BY <1>4, <2>1
    <3>2. IsCrc(q[i])
      BY <1>5, <3>1
    <3>3. \E n \in low + 1 .. high : q[i].of = <<n>>
      BY <2>1, <3>2 DEF Rising
    <3> QED
      BY <2>1, <3>1, <3>2, <3>3
  <2>2. CASE i \notin 1 .. Len(q)
    <3> DEFINE k == i - Len(q)
    <3>1. k \in 1 .. T /\ i = Len(q) + k
      BY <1>2, <1>4, <2>2
    <3> HIDE DEF k
    <3>2. all[i] = P[k]
      BY <1>4, <3>1
    <3>3. k = T
      BY <1>3, <1>5, <3>1, <3>2
    <3>4. all[i] = Byte("crc of meas", <<high + 1>>)
      BY <1>1, <3>2, <3>3
    <3>5. all[i].of = <<high + 1>>
      BY <3>4, ByteParts
    <3> QED
      BY <3>1, <3>3, <3>5
  <2> QED
    BY <2>1, <2>2
<1>6. ASSUME NEW i \in 1 .. Len(all), IsCrc(all[i])
      PROVE  \E n \in low + 1 .. high + 1 : all[i].of = <<n>>
  <2>1. high + 1 \in low + 1 .. high + 1 /\ low + 1 .. high \subseteq low + 1 .. high + 1
    OBVIOUS
  <2> QED
    BY <1>5, <1>6, <2>1
<1>7. ASSUME NEW i \in 1 .. Len(all), NEW j \in 1 .. Len(all), i < j,
             IsCrc(all[i]), IsCrc(all[j])
      PROVE  all[i].of[1] < all[j].of[1]
  <2>1. CASE j \in 1 .. Len(q)
    <3>1. i \in 1 .. Len(q)
      BY <1>2, <1>7, <2>1
    <3>2. all[i] = q[i] /\ all[j] = q[j]
      BY <1>4, <2>1, <3>1
    <3>3. IsCrc(q[i]) /\ IsCrc(q[j])
      BY <1>7, <3>2
    <3>4. q[i].of[1] < q[j].of[1]
      BY <1>7, <2>1, <3>1, <3>3 DEF Rising
    <3> QED
      BY <3>2, <3>4
  <2>2. CASE j \notin 1 .. Len(q)
    <3>1. j = Len(q) + T /\ all[j].of = <<high + 1>>
      BY <1>5, <1>7, <2>2
    <3>2. i # Len(q) + T
      BY <1>2, <1>7, <3>1
    <3>3. PICK n \in low + 1 .. high : all[i].of = <<n>>
      BY <1>5, <1>7, <3>2
    <3>4. all[i].of[1] = n /\ all[j].of[1] = high + 1
      BY <3>1, <3>3
    <3> QED
      BY <3>4
  <2> QED
    BY <2>1, <2>2
<1> QED
  BY <1>6, <1>7 DEF Rising, all, P

\* A byte is taken out of q.
Without(q, i) == SubSeq(q, 1, i - 1) \o SubSeq(q, i + 1, Len(q))

LEMMA TakenOut ==
  ASSUME NEW S, NEW q \in Seq(S), NEW i \in 1 .. Len(q),
         NEW r, r = Without(q, i)
  PROVE  /\ r \in Seq(S) /\ Len(r) = Len(q) - 1
         /\ \A x \in 1 .. Len(r) : r[x] = q[IF x < i THEN x ELSE x + 1]
<1> DEFINE a == SubSeq(q, 1, i - 1)
           b == SubSeq(q, i + 1, Len(q))
<1>1. Len(q) \in Nat
  BY LenProperties
<1>2. /\ a \in Seq(S) /\ Len(a) = i - 1
      /\ \A x \in 1 .. i - 1 : a[x] = q[x]
  <2>1. /\ 1 \in 1 .. Len(q) + 1 /\ i - 1 \in 1 - 1 .. Len(q)
        /\ (i - 1) - 1 + 1 = i - 1
    BY <1>1
  <2>2. /\ a \in Seq(S) /\ Len(a) = (i - 1) - 1 + 1
        /\ \A x \in 1 .. (i - 1) - 1 + 1 : a[x] = q[1 + x - 1]
    BY <2>1, SubSeqFacts
  <2>3. \A x \in 1 .. i - 1 : 1 + x - 1 = x
    BY <1>1
  <2> HIDE DEF a
  <2> QED
    BY <2>1, <2>2, <2>3
<1>3. b \in Seq(S) /\ After(b, q, i)
  <2>1. i \in 0 .. Len(q)
    BY <1>1
  <2> QED
    BY <2>1, AfterSubSeq
<1> HIDE DEF a, b
<1>4. r = a \o b
  BY DEF a, b, Without
<1>5. /\ r \in Seq(S) /\ Len(r) = Len(a) + Len(b)
      /\ \A x \in 1 .. Len(a) : r[x] = a[x]
      /\ \A x \in 1 .. Len(b) : r[Len(a) + x] = b[x]
  <2>1. a \in Seq(S) /\ b \in Seq(S)
    BY <1>2, <1>3
  <2>2. /\ a \o b \in Seq(S) /\ Len(a \o b) = Len(a) + Len(b)
        /\ \A x \in 1 .. Len(a) : (a \o b)[x] = a[x]
        /\ \A x \in 1 .. Len(b) : (a \o b)[Len(a) + x] = b[x]
    BY <2>1, ConcatFacts
  <2> QED
    BY ONLY <1>4, <2>2
<1>6. Len(b) = Len(q) - i /\ \A x \in 1 .. Len(b) : b[x] = q[i + x]
  BY <1>3 DEF After
<1>7. Len(r) = Len(q) - 1 /\ Len(a) = i - 1
  <2>1. Len(r) = Len(a) + Len(b)
    BY <1>5
  <2>2. Len(a) = i - 1 /\ Len(b) = Len(q) - i
    BY <1>2, <1>6
  <2> QED
    BY ONLY <1>1, <2>1, <2>2, i \in 1 .. Len(q)
<1>8. ASSUME NEW x \in 1 .. Len(r) PROVE r[x] = q[IF x < i THEN x ELSE x + 1]
  <2>1. CASE x < i
    <3>1. x \in 1 .. i - 1
      BY <1>1, <1>7, <2>1
    <3>2. r[x] = a[x] /\ a[x] = q[x]
      BY <1>2, <1>5, <3>1
    <3> QED
      BY <2>1, <3>2
  <2>2. CASE ~ (x < i)
    <3> DEFINE y == x - (i - 1)
    <3>1. y \in 1 .. Len(b) /\ x = Len(a) + y /\ i + y = x + 1
      <4>1. Len(b) = Len(q) - i
        BY <1>6
      <4> QED
        BY ONLY <1>1, <1>7, <2>2, <4>1, i \in 1 .. Len(q), x \in 1 .. Len(r)
    <3> HIDE DEF y
    <3>2. r[x] = b[y] /\ b[y] = q[i + y]
      BY <1>5, <1>6, <3>1
    <3> QED
      BY <2>2, <3>1, <3>2
  <2> QED
    BY <2>1, <2>2
<1> QED
  BY <1>5, <1>7, <1>8

\* The byte the parser looks for is no CRC.
LEMMA RisingDisturbed ==
  ASSUME NEW p \in Seq(Bytes), NEW q \in Seq(Bytes), NEW i \in 1 .. Len(q), NEW r,
         \/ r = Without(q, i)
         \/ r = [q EXCEPT ![i] = Byte("AA", <<>>)],
         NEW low, NEW high, Rising(p \o q, low, high)
  PROVE  r \in Seq(Bytes) /\ Rising(p \o r, low, high)
<1>1. Len(p) \in Nat /\ Len(q) \in Nat
  BY LenProperties
<1>2. /\ Len(p \o q) = Len(p) + Len(q)
      /\ \A x \in 1 .. Len(p) : (p \o q)[x] = p[x]
      /\ \A x \in 1 .. Len(q) : (p \o q)[Len(p) + x] = q[x]
  BY ConcatFacts
<1>3. CASE r = Without(q, i)
  <2>1. /\ r \in Seq(Bytes) /\ Len(r) = Len(q) - 1
        /\ \A x \in 1 .. Len(r) : r[x] = q[IF x < i THEN x ELSE x + 1]
    BY <1>3, TakenOut
  <2>2. /\ Len(p \o r) = Len(p) + Len(r)
        /\ \A x \in 1 .. Len(p) : (p \o r)[x] = p[x]
        /\ \A x \in 1 .. Len(r) : (p \o r)[Len(p) + x] = r[x]
    <3>1. r \in Seq(Bytes)
      BY <2>1
    <3> QED
      BY <3>1, ConcatFacts
  <2> DEFINE A == p \o q
             B == p \o r
             f == [x \in 1 .. Len(B) |-> IF x < Len(p) + i THEN x ELSE x + 1]
  <2> HIDE DEF A, B
  <2>3. Len(A) = Len(p) + Len(q) /\ Len(B) = Len(A) - 1 /\ Len(B) = Len(p) + Len(r)
    BY <1>1, <1>2, <2>1, <2>2 DEF A, B
  <2>4. f \in [1 .. Len(B) -> 1 .. Len(A)]
    BY <1>1, <2>3
  <2>5. \A x, y \in 1 .. Len(B) : x < y => f[x] < f[y]
    BY <1>1, <2>3
  <2>6. ASSUME NEW x \in 1 .. Len(B) PROVE B[x] = A[f[x]]
    <3>1. f[x] = IF x < Len(p) + i THEN x ELSE x + 1
      OBVIOUS
    <3> HIDE DEF f
    <3>2. CASE x \in 1 .. Len(p)
      <4>1. x < Len(p) + i
        BY <1>1, <3>2
      <4> QED
        BY <1>2, <2>2, <3>1, <3>2, <4>1 DEF A, B
    <3>3. CASE x \notin 1 .. Len(p)
      <4> DEFINE y == x - Len(p)
      <4>1. y \in 1 .. Len(r) /\ x = Len(p) + y
        BY <1>1, <2>3, <3>3
      <4>2. /\ y < i <=> x < Len(p) + i
            /\ y < i => y \in 1 .. Len(q)
            /\ y + 1 \in 1 .. Len(q) /\ Len(p) + (y + 1) = x + 1
        BY <1>1, <2>1, <4>1
      <4> HIDE DEF y
      <4>3. B[x] = r[y] /\ r[y] = q[IF y < i THEN y ELSE y + 1]
        BY <2>1, <2>2, <4>1 DEF B
      <4>4. CASE y < i
        <5>1. A[x] = q[y]
          BY <1>2, <4>1, <4>2, <4>4 DEF A
        <5> QED
          BY <3>1, <4>2, <4>3, <4>4, <5>1
      <4>5. CASE ~ (y < i)
        <5>1. A[x + 1] = q[y + 1]
          <6>1. A[Len(p) + (y + 1)] = q[y + 1]
            BY <1>2, <4>2 DEF A
          <6> QED
            BY <4>2, <6>1
        <5> QED
          BY <3>1, <4>2, <4>3, <4>5, <5>1
      <4> QED
        BY <4>4, <4>5
    <3> QED
      BY <3>2, <3>3
  <2> HIDE DEF f
  <2>7. Rising(A, low, high)
    BY DEF A
  <2>8. Rising(B, low, high)
    BY <2>4, <2>5, <2>6, <2>7, RisingThinned
  <2> QED
    BY <2>1, <2>8 DEF B
<1>4. CASE r = [q EXCEPT ![i] = Byte("AA", <<>>)]
  <2>1. Byte("AA", <<>>) \in Bytes /\ ~ IsCrc(Byte("AA", <<>>))
    <3>1. <<>> \in Seq(Nat)
      OBVIOUS
    <3>2. Byte("AA", <<>>).kind = "AA"
      BY ByteParts
    <3> QED
      BY <3>1, <3>2 DEF Byte, Bytes, IsCrc, HeaderKinds
  <2>2. r \in Seq(Bytes) /\ Len(r) = Len(q)
    BY <1>4, <2>1, ExceptSeq
  <2>3. \A x \in 1 .. Len(q) : r[x] = IF x = i THEN Byte("AA", <<>>) ELSE q[x]
    BY <1>4, <1>1, LenProperties
  <2> DEFINE A == p \o q
             B == p \o r
             f == [x \in 1 .. Len(B) |-> x]
  <2>4. /\ Len(p \o r) = Len(p) + Len(r)
        /\ \A x \in 1 .. Len(p) : (p \o r)[x] = p[x]
        /\ \A x \in 1 .. Len(r) : (p \o r)[Len(p) + x] = r[x]
    <3>1. r \in Seq(Bytes)
      BY <2>2
    <3> QED
      BY <3>1, ConcatFacts
  <2> HIDE DEF A, B
  <2>5. Len(B) = Len(A) /\ Len(B) = Len(p) + Len(q)
    BY <1>2, <2>2, <2>4 DEF A, B
  <2>6. /\ f \in [1 .. Len(B) -> 1 .. Len(A)]
        /\ \A x, y \in 1 .. Len(B) : x < y => f[x] < f[y]
    BY <2>5
  <2>7. ASSUME NEW x \in 1 .. Len(B), IsCrc(B[x]) PROVE B[x] = A[f[x]]
    <3>1. CASE x \in 1 .. Len(p)
      BY <1>2, <2>4, <3>1 DEF A, B
    <3>2. CASE x \notin 1 .. Len(p)
      <4> DEFINE y == x - Len(p)
      <4>1. y \in 1 .. Len(q) /\ x = Len(p) + y
        BY <1>1, <2>5, <3>2
      <4> HIDE DEF y
      <4>2. B[x] = r[y] /\ A[x] = q[y]
        BY <1>2, <2>2, <2>4, <4>1 DEF A, B
      <4>3. y # i
        BY <2>1, <2>3, <2>7, <4>1, <4>2
      <4> QED
        BY <2>3, <4>1, <4>2, <4>3
    <3> QED
      BY <3>1, <3>2
  <2> HIDE DEF f
  <2>8. Rising(A, low, high)
    BY DEF A
  <2>9. Rising(B, low, high)
    BY <2>6, <2>7, <2>8, RisingThinned
  <2> QED
    BY <2>2, <2>9 DEF B
<1> QED
  BY <1>3, <1>4

-----------------------------------------------------------------------------
(* The measurement path.                                                   *)

(***************************************************************************)
(* What is collected and what is on the line, taken together, holds the    *)
(* CRCs of later and later measurements, all of them later than the one    *)
(* the wheels' speeds are of.  A packet that two cycles collect is the     *)
(* reason why the two have to be seen as one sequence.                     *)
(***************************************************************************)
StatesInv ==
  /\ BuffersOK
  /\ sent \in Nat
  /\ \E m \in 0 .. sent : speed = Numbered(m) /\ Rising(rxbuf \o line, m, sent)

\* What a step of this direction does to the wheels' speeds.
Follows ==
  speed' # speed =>
    \/ speed' = Numbered(0)
    \/ \E n \in 1 .. sent : /\ speed' = Numbered(n)
                            /\ \E m \in 0 .. n - 1 : speed = Numbered(m)

LEMMA StatesInit == Init => StatesInv
<1> SUFFICES ASSUME Init PROVE StatesInv
  OBVIOUS
<1>1. rxbuf = <<>> /\ line = <<>> /\ sent = 0 /\ speed = Numbered(0)
  BY DEF Init
<1>2. BuffersOK
  <2>1. <<>> \in Seq(Bytes) /\ Len(<<>>) = 0
    OBVIOUS
  <2> QED
    BY <1>1, <2>1, StatesAssumption DEF BuffersOK
<1>3. Rising(rxbuf \o line, 0, sent)
  <2>1. Len(rxbuf \o line) = 0
    BY <1>1
  <2> HIDE DEF Init
  <2> DEFINE q == rxbuf \o line
  <2> HIDE DEF q
  <2>2. Rising(q, 0, sent)
    <3>1. Len(q) = 0
      BY <2>1 DEF q
    <3> QED
      BY <3>1 DEF Rising
  <2> QED
    BY <2>2 DEF q
<1> QED
  BY <1>1, <1>2, <1>3 DEF StatesInv

LEMMA ActivateRises ==
  ASSUME StatesInv, Activate PROVE StatesInv' /\ Follows
<1>1. PICK m \in 0 .. sent : Rising(rxbuf \o line, m, sent)
  BY DEF StatesInv
<1>2. /\ rxbuf \in Seq(Bytes) /\ line \in Seq(Bytes) /\ sent \in Nat
      /\ Len(rxbuf) \in Nat /\ Len(line) \in Nat
  BY LenProperties DEF StatesInv, BuffersOK
<1>3. rxbuf' = <<>> /\ sent' = sent /\ speed' = Numbered(0)
  BY DEF Activate
<1>4. \E d \in 0 .. Len(line) : line' \in Seq(Bytes) /\ After(line', line, d)
  <2>1. CASE line' \in Suffixes(line)
    <3>1. PICK k \in 1 .. Len(line) + 1 : line' = SubSeq(line, k, Len(line))
      BY <2>1 DEF Suffixes
    <3>2. k - 1 \in 0 .. Len(line) /\ (k - 1) + 1 = k
      BY <1>2
    <3> QED
      BY <1>2, <3>1, <3>2, AfterSubSeq
  <2>2. CASE line' = line
    BY <1>2, <2>2 DEF After
  <2> QED
    BY <2>1, <2>2 DEF Activate
<1>5. PICK d \in 0 .. Len(line) : line' \in Seq(Bytes) /\ After(line', line, d)
  BY <1>4
<1>6. rxbuf \o line \in Seq(Bytes) /\ After(line, rxbuf \o line, Len(rxbuf))
  BY <1>2, ConcatFacts DEF After
<1>7. Rising(line, m, sent)
  BY <1>1, <1>2, <1>6, RisingAfter
<1>8. Rising(line', m, sent)
  BY <1>2, <1>5, <1>7, RisingAfter
<1>9. Rising(line', 0, sent)
  BY <1>2, <1>8, RisingWider
<1>10. rxbuf' \o line' = line'
  BY <1>3, <1>5, ConcatEmptySeq
<1>11. BuffersOK'
  <2>1. <<>> \in Seq(Bytes) /\ Len(<<>>) = 0
    OBVIOUS
  <2> QED
    BY <1>3, <1>5, <2>1, StatesAssumption DEF BuffersOK
<1> QED
  BY <1>2, <1>3, <1>9, <1>10, <1>11 DEF StatesInv, Follows

LEMMA DeactivateRises ==
  ASSUME StatesInv, Deactivate PROVE StatesInv' /\ Follows
<1>1. PICK m \in 0 .. sent : speed = Numbered(m) /\ Rising(rxbuf \o line, m, sent)
  BY DEF StatesInv
<1>2. /\ rxbuf \in Seq(Bytes) /\ line \in Seq(Bytes) /\ sent \in Nat
      /\ Len(rxbuf) \in Nat /\ Len(line) \in Nat
  BY LenProperties DEF StatesInv, BuffersOK
<1>3. rxbuf' = <<>> /\ UNCHANGED <<speed, line, sent>>
  BY DEF Deactivate
<1>4. rxbuf \o line \in Seq(Bytes) /\ After(line, rxbuf \o line, Len(rxbuf))
  BY <1>2, ConcatFacts DEF After
<1>5. Rising(line, m, sent)
  BY <1>1, <1>2, <1>4, RisingAfter
<1>6. <<>> \o line = line
  BY <1>2, ConcatEmptySeq
<1>7. BuffersOK'
  <2>1. <<>> \in Seq(Bytes) /\ Len(<<>>) = 0
    OBVIOUS
  <2> QED
    BY <1>2, <1>3, <2>1, StatesAssumption DEF BuffersOK
<1> QED
  BY <1>1, <1>2, <1>3, <1>5, <1>6, <1>7 DEF StatesInv, Follows

LEMMA SendRises ==
  ASSUME StatesInv, Send PROVE StatesInv' /\ Follows
<1>1. PICK m \in 0 .. sent : speed = Numbered(m) /\ Rising(rxbuf \o line, m, sent)
  BY DEF StatesInv
<1>2. rxbuf \in Seq(Bytes) /\ line \in Seq(Bytes) /\ sent \in Nat
  BY DEF StatesInv, BuffersOK
<1> DEFINE P == Packet("meas", sent + 1)
<1>3. sent' = sent + 1 /\ line' = line \o P /\ UNCHANGED <<rxbuf, speed>>
  BY DEF Send
<1>4. P \in Seq(Bytes)
  <2>1. sent + 1 \in Nat
    BY <1>2
  <2> QED
    BY <2>1, Measurement
<1>5. Rising((rxbuf \o line) \o P, m, sent + 1)
  <2>1. rxbuf \o line \in Seq(Bytes)
    BY <1>2, ConcatFacts
  <2>2. m \in Nat /\ m <= sent
    BY <1>2
  <2> QED
    BY <1>1, <1>2, <2>1, <2>2, RisingSent
<1> HIDE DEF P
<1>6. (rxbuf \o line) \o P = rxbuf \o (line \o P)
  BY <1>2, <1>4, ConcatAssociative
<1>7. line \o P \in Seq(Bytes)
  BY <1>2, <1>4, ConcatFacts
<1>8. m \in 0 .. sent + 1 /\ sent + 1 \in Nat
  BY <1>2
<1>9. BuffersOK'
  BY <1>3, <1>7 DEF StatesInv, BuffersOK
<1> QED
  BY <1>1, <1>3, <1>5, <1>6, <1>8, <1>9 DEF StatesInv, Follows

LEMMA DisturbRises ==
  ASSUME StatesInv, Disturb PROVE StatesInv' /\ Follows
<1>1. PICK m \in 0 .. sent : speed = Numbered(m) /\ Rising(rxbuf \o line, m, sent)
  BY DEF StatesInv
<1>2. rxbuf \in Seq(Bytes) /\ line \in Seq(Bytes) /\ sent \in Nat
  BY DEF StatesInv, BuffersOK
<1>3. UNCHANGED <<rxbuf, speed, sent>>
  BY DEF Disturb
<1>4. PICK i \in 1 .. Len(line) : \/ line' = Without(line, i)
                                  \/ line' = [line EXCEPT ![i] = Byte("AA", <<>>)]
  BY DEF Disturb, Without
<1>5. line' \in Seq(Bytes) /\ Rising(rxbuf \o line', m, sent)
  BY <1>1, <1>2, <1>4, RisingDisturbed
<1>6. BuffersOK'
  BY <1>3, <1>5 DEF StatesInv, BuffersOK
<1> QED
  BY <1>1, <1>2, <1>3, <1>5, <1>6 DEF StatesInv, Follows

\* The packet a cycle takes, among all the bytes there are.
LEMMA Taken ==
  ASSUME BuffersOK, NEW k \in 0 .. Len(line), ReadPort(k), Got(Filled(k))
  PROVE  \E n \in Nat :
           LET i == FirstStop(Filled(k)) IN
             /\ speed' = Numbered(n)
             /\ Holds(Filled(k) \o Rest(k), i, n)
             /\ Holds(rxbuf \o line, Overflow(k) + i, n)
             /\ Overflow(k) + i + Total(BodyLooks) - 1 = Overflow(k) + Dropped(Filled(k))
<1> DEFINE buf == Filled(k)
           i == FirstStop(buf)
<1>1. /\ buf \in Seq(Bytes) /\ Rest(k) \in Seq(Bytes)
      /\ After(buf \o Rest(k), rxbuf \o line, Overflow(k))
  BY ReadFacts
<1>2. Got(buf)
  OBVIOUS
<1>3. speed' = Carried(buf, i)
  BY DEF ReadPort
<1>4. Dropped(buf) = i + Total(BodyLooks) - 1
  BY DEF Dropped
<1> HIDE DEF buf, i
<1>5. i \in Whole(buf)
  BY <1>1, <1>2, GotFacts DEF i
<1>6. PICK n \in Nat : Holds(buf, i, n)
  BY <1>1, <1>5, WholeFacts
<1>7. speed' = Numbered(n)
  BY <1>1, <1>3, <1>6, HoldsIntact
<1>8. i \in 1 .. Len(buf) /\ i + Total(BodyLooks) - 1 <= Len(buf)
  BY <1>6 DEF Holds
<1>9. Holds(buf \o Rest(k), i, n)
  BY <1>1, <1>6, <1>8, HoldsFront
<1>10. /\ buf \o Rest(k) \in Seq(Bytes) /\ rxbuf \o line \in Seq(Bytes)
       /\ i \in 1 .. Len(buf \o Rest(k))
  <2>1. rxbuf \in Seq(Bytes) /\ line \in Seq(Bytes)
    BY DEF BuffersOK
  <2> QED
    BY <1>1, <1>9, <2>1, ConcatFacts DEF Holds
<1>11. Holds(rxbuf \o line, Overflow(k) + i, n)
  BY <1>1, <1>9, <1>10, HoldsAfter
<1>12. Overflow(k) + i + Total(BodyLooks) - 1 = Overflow(k) + Dropped(buf)
  <2>1. Overflow(k) \in Nat /\ i \in Nat /\ Total(BodyLooks) \in Nat
    BY <1>1, <1>8, Sizes DEF After
  <2> QED
    BY <1>4, <2>1
<1> QED
  BY <1>7, <1>9, <1>11, <1>12 DEF i, buf

LEMMA ReadRises ==
  ASSUME StatesInv, Read PROVE StatesInv' /\ Follows
<1>1. PICK m \in 0 .. sent : speed = Numbered(m) /\ Rising(rxbuf \o line, m, sent)
  BY DEF StatesInv
<1>2. /\ rxbuf \in Seq(Bytes) /\ line \in Seq(Bytes) /\ sent \in Nat /\ BuffersOK
  BY DEF StatesInv, BuffersOK
<1>3. PICK k \in 0 .. Len(line) : ReadPort(k)
  BY DEF Read
<1> DEFINE d == Overflow(k) + Dropped(Filled(k))
           all == rxbuf \o line
<1>4. BuffersOK' /\ After(rxbuf' \o line', all, d)
  BY <1>2, <1>3, ReadFacts
<1>5. all \in Seq(Bytes) /\ rxbuf' \o line' \in Seq(Bytes)
  <2>1. rxbuf' \in Seq(Bytes) /\ line' \in Seq(Bytes)
    BY <1>4 DEF BuffersOK
  <2> QED
    BY <1>2, <2>1, ConcatFacts
<1>6. sent' = sent
  BY <1>3 DEF ReadPort
<1>7. CASE Got(Filled(k))
  <2>1. PICK n \in Nat :
          /\ speed' = Numbered(n)
          /\ Holds(all, Overflow(k) + FirstStop(Filled(k)), n)
          /\ Overflow(k) + FirstStop(Filled(k)) + Total(BodyLooks) - 1 = d
    BY <1>2, <1>3, <1>7, Taken
  <2> DEFINE i == Overflow(k) + FirstStop(Filled(k))
  <2>2. Holds(all, i, n) /\ i + Total(BodyLooks) - 1 = d
    BY <2>1
  <2>3. d \in Int
    BY <1>4 DEF After
  <2> HIDE DEF all, d, i
  <2>4. n \in m + 1 .. sent /\ Rising(rxbuf' \o line', n, sent)
    <3>1. Rising(all, m, sent)
      BY <1>1 DEF all
    <3>2. After(rxbuf' \o line', all, d)
      BY <1>4
    <3>3. m \in Int /\ sent \in Int
      BY <1>2
    <3>4. i + Total(BodyLooks) - 1 <= d
      BY <2>2, <2>3
    <3>5. rxbuf' \o line' \in Seq(Bytes) /\ all \in Seq(Bytes)
      BY <1>5
    <3> QED
      BY <2>2, <3>1, <3>2, <3>3, <3>4, <3>5, RisingPast
  <2>5. n \in 0 .. sent /\ n \in 1 .. sent /\ m \in 0 .. n - 1
    BY <1>2, <2>4
  <2> QED
    BY <1>1, <1>2, <1>4, <1>6, <2>1, <2>4, <2>5 DEF StatesInv, Follows
<1>8. CASE ~ Got(Filled(k))
  <2>1. speed' = speed
    BY <1>3, <1>8 DEF ReadPort
  <2> HIDE DEF all, d
  <2>2. Rising(all, m, sent)
    BY <1>1 DEF all
  <2>3. Rising(rxbuf' \o line', m, sent)
    BY <1>4, <1>5, <2>2, RisingAfter
  <2> QED
    BY <1>1, <1>2, <1>4, <1>6, <2>1, <2>3 DEF StatesInv, Follows
<1> QED
  BY <1>7, <1>8

LEMMA StatesStep ==
  ASSUME StatesInv, [States \/ Sending(Commands!Next)]_mcVars
  PROVE  StatesInv' /\ Follows
<1>1. CASE Next
  BY <1>1, ActivateRises, DeactivateRises, ReadRises, SendRises, DisturbRises DEF Next
<1>2. CASE UNCHANGED <<rxbuf, speed, line, sent>>
  BY <1>2 DEF StatesInv, BuffersOK, Follows
<1>3. CASE States
  BY <1>1, <1>3 DEF States
<1>4. CASE Sending(Commands!Next)
  BY <1>2, <1>4 DEF Sending
<1>5. CASE UNCHANGED mcVars
  BY <1>2, <1>5 DEF mcVars, vars
<1> QED
  BY <1>3, <1>4, <1>5

(***************************************************************************)
(* Wheel speeds are those the controller measured, each used once and in   *)
(* the order they were sent (MecanumHWSystem::read, try_parse_one_frame_). *)
(***************************************************************************)
THEOREM SpeedsFollow == MCSpec => SpeedsInOrder
<1>1. MCInit => StatesInv
  BY StatesInit DEF MCInit
<1>2. StatesInv /\ [States \/ Sending(Commands!Next)]_mcVars => StatesInv'
  BY StatesStep
<1>3. StatesInv /\ [States \/ Sending(Commands!Next)]_mcVars => [Follows]_vars
  BY StatesStep
<1>4. [Follows]_vars
        => [speed' # speed =>
              \/ speed' = Numbered(0)
              \/ \E n \in 1 .. sent : /\ speed' = Numbered(n)
                                     /\ \E m \in 0 .. n - 1 : speed = Numbered(m)]_vars
  BY DEF Follows
<1> QED
  BY <1>1, <1>2, <1>3, <1>4, PTL DEF MCSpec, SpeedsInOrder

-----------------------------------------------------------------------------
(* Every cycle with a whole packet takes one, and no packet is dropped.    *)

\* The whole packets of what is left are the whole packets behind the cut.
LEMMA WholeLeft ==
  ASSUME NEW p \in Seq(Bytes), NEW q \in Seq(Bytes), NEW d, After(p, q, d)
  PROVE  Cardinality(Whole(p)) = Cardinality({w \in Whole(q) : w > d})
<1> DEFINE A == Whole(p)
           B == {w \in Whole(q) : w > d}
           f == [w \in A |-> d + w]
<1>1. /\ Len(p) \in Nat /\ Len(q) \in Nat /\ d \in Nat /\ Len(p) = Len(q) - d
  BY LenProperties DEF After
<1>2. /\ A \subseteq 1 .. Len(p) /\ Whole(q) \subseteq 1 .. Len(q)
      /\ \A w : w \in A <=> \E n \in Nat : Holds(p, w, n)
      /\ \A w : w \in Whole(q) <=> \E n \in Nat : Holds(q, w, n)
  BY WholeFacts
<1>3. ASSUME NEW w \in 1 .. Len(p) PROVE w \in A <=> d + w \in Whole(q)
  <2>1. \A n \in Nat : Holds(p, w, n) <=> Holds(q, d + w, n)
    BY HoldsAfter
  <2> HIDE DEF A
  <2> QED
    BY <1>2, <2>1
<1>4. ASSUME NEW w \in A PROVE w \in 1 .. Len(p) /\ d + w \in B
  <2>1. w \in 1 .. Len(p)
    BY <1>2
  <2>2. d + w \in Whole(q)
    BY <1>3, <2>1
  <2> QED
    BY <1>1, <2>1, <2>2
<1>5. ASSUME NEW v \in B PROVE \E w \in A : d + w = v
  <2>1. v \in 1 .. Len(q) /\ v \in Whole(q) /\ v > d
    BY <1>2
  <2>2. v - d \in 1 .. Len(p) /\ d + (v - d) = v
    BY <1>1, <2>1
  <2>3. v - d \in A
    BY <1>3, <2>1, <2>2
  <2> QED
    BY <2>2, <2>3
<1> HIDE DEF A, B
<1>6. f \in [A -> B] /\ \A v \in B : \E w \in A : f[w] = v
  BY <1>4, <1>5
<1>7. \A v, w \in A : f[v] = f[w] => v = w
  BY <1>1, <1>4
<1> HIDE DEF f
<1>8. f \in Bijection(A, B)
  BY <1>6, <1>7 DEF Bijection, Injection, Surjection, IsInjective
<1>9. ExistsBijection(A, B)
  BY <1>8 DEF ExistsBijection
<1>10. IsFiniteSet(A)
  <2>1. IsFiniteSet(1 .. Len(p))
    <3>1. 1 \in Int /\ Len(p) \in Int
      BY <1>1
    <3> QED
      BY <3>1, FS_Interval
  <2>2. A \in SUBSET (1 .. Len(p))
    BY <1>2
  <2> QED
    BY <2>1, <2>2, FS_Subset
<1> QED
  BY <1>9, <1>10, FS_Bijection DEF A, B

LEMMA NoneDropped ==
  ASSUME BuffersOK, NEW k \in 0 .. Len(line), ReadPort(k), Len(rxbuf) + k <= RxbufMax
  PROVE  Cardinality(Whole(rxbuf \o line)) =
           Cardinality(Whole(rxbuf' \o line')) + (IF Got(Filled(k)) THEN 1 ELSE 0)
<1> DEFINE buf == Filled(k)
           all == rxbuf \o line
           new == rxbuf' \o line'
           d == Dropped(buf)
           i == FirstStop(buf)
           W == Whole(all)
           B == {w \in W : w > d}
<1>1. /\ rxbuf \in Seq(Bytes) /\ line \in Seq(Bytes)
      /\ rxbuf' \in Seq(Bytes) /\ line' \in Seq(Bytes)
      /\ buf \in Seq(Bytes) /\ Rest(k) \in Seq(Bytes)
      /\ After(buf \o Rest(k), all, Overflow(k))
      /\ After(new, buf \o Rest(k), d)
  BY ReadFacts DEF BuffersOK
<1>2. Overflow(k) = 0
  <2>1. Len(rxbuf) \in Nat /\ k \in Nat /\ RxbufMax \in Nat
    BY <1>1, LenProperties, StatesAssumption
  <2> QED
    BY <2>1 DEF Overflow
<1>3. Got(buf) => \E n \in Nat : Holds(buf \o Rest(k), i, n)
  BY Taken
<1> HIDE DEF buf, i
<1>4. all \in Seq(Bytes) /\ new \in Seq(Bytes) /\ buf \o Rest(k) \in Seq(Bytes)
  BY <1>1, ConcatFacts
<1>5. buf \o Rest(k) = all
  <2> DEFINE b == buf \o Rest(k)
  <2> HIDE DEF b, all
  <2>1. b \in Seq(Bytes) /\ all \in Seq(Bytes) /\ After(b, all, 0)
    BY <1>1, <1>2, <1>4 DEF b
  <2>2. Len(b) = Len(all) /\ \A x \in 1 .. Len(b) : b[x] = all[x]
    BY <2>1, LenProperties DEF After
  <2>3. b = all
    BY <2>1, <2>2, SameSequence
  <2> QED
    BY <2>3 DEF b
<1>6. After(new, all, d)
  BY <1>1, <1>5
<1>7. ASSUME NEW w \in W PROVE w <= d <=> Got(buf) /\ w = i
  <2>1. w \in Whole(buf \o Rest(k))
    BY <1>5
  <2> QED
    BY <1>1, <2>1, RemainderKeeps DEF i
<1>8. Got(buf) => i \in W
  BY <1>3, <1>4, <1>5, WholeFacts
<1> HIDE DEF all, new, d
<1>9. W \subseteq 1 .. Len(all) /\ W \in SUBSET Nat /\ d \in Nat /\ Len(all) \in Nat
  BY <1>4, <1>6, WholeFacts, LenProperties DEF After
<1> HIDE DEF W
<1>10. IsFiniteSet(W)
  <2>1. IsFiniteSet(1 .. Len(all))
    <3>1. 1 \in Int /\ Len(all) \in Int
      BY <1>9
    <3> QED
      BY <3>1, FS_Interval
  <2> QED
    BY <1>9, <2>1, FS_Subset
<1>11. Cardinality(Whole(new)) = Cardinality(B)
  BY <1>4, <1>6, WholeLeft DEF W
<1>12. \A w \in W : w > d <=> ~ (w <= d)
  BY <1>9
<1>13. CASE Got(buf)
  <2>1. B = W \ {i}
    BY <1>7, <1>12, <1>13
  <2>2. Cardinality(B) = Cardinality(W) - 1 /\ Cardinality(W) \in Nat
    BY <1>8, <1>10, <1>13, <2>1, FS_RemoveElement, FS_CardinalityType
  <2> QED
    BY <1>11, <1>13, <2>2 DEF W, all, new, buf
<1>14. CASE ~ Got(buf)
  <2>1. B = W
    BY <1>7, <1>12, <1>14
  <2>2. Cardinality(W) \in Nat
    BY <1>10, FS_CardinalityType
  <2>3. Cardinality(W) = Cardinality(Whole(new)) + (IF Got(buf) THEN 1 ELSE 0)
    BY <1>11, <1>14, <2>1, <2>2
  <2> QED
    BY <2>3 DEF W, all, new, buf
<1> QED
  BY <1>13, <1>14

\* What a cycle gets is a new speed.
LEMMA GotIsNew ==
  ASSUME StatesInv, NEW k \in 0 .. Len(line), ReadPort(k)
  PROVE  speed' # speed <=> Got(Filled(k))
<1>1. BuffersOK
  BY DEF StatesInv
<1>2. CASE ~ Got(Filled(k))
  BY <1>2 DEF ReadPort
<1>3. CASE Got(Filled(k))
  <2>1. PICK m \in 0 .. sent : speed = Numbered(m) /\ Rising(rxbuf \o line, m, sent)
    BY DEF StatesInv
  <2>2. /\ rxbuf \in Seq(Bytes) /\ line \in Seq(Bytes) /\ sent \in Nat
        /\ rxbuf' \in Seq(Bytes) /\ line' \in Seq(Bytes)
    BY <1>1, ReadFacts DEF BuffersOK, StatesInv
  <2> DEFINE all == rxbuf \o line
             new == rxbuf' \o line'
             d == Overflow(k) + Dropped(Filled(k))
             i == Overflow(k) + FirstStop(Filled(k))
  <2>3. PICK n \in Nat :
          speed' = Numbered(n) /\ Holds(all, i, n) /\ i + Total(BodyLooks) - 1 = d
    BY <1>1, <1>3, Taken
  <2>4. /\ all \in Seq(Bytes) /\ new \in Seq(Bytes) /\ After(new, all, d)
    BY <1>1, <2>2, ConcatFacts, ReadFacts
  <2>5. m \in Int /\ sent \in Int /\ Rising(all, m, sent)
    BY <2>1, <2>2
  <2>6. d \in Int
    BY <2>4 DEF After
  <2> HIDE DEF all, new, d, i
  <2>7. i + Total(BodyLooks) - 1 <= d
    BY <2>3, <2>6
  <2>8. n \in m + 1 .. sent
    BY <2>3, <2>4, <2>5, <2>7, RisingPast
  <2>9. n # m
    BY <2>5, <2>8
  <2> QED
    BY <1>3, <2>1, <2>3, <2>9, NumberedApart
<1> QED
  BY <1>2, <1>3

\* What a cycle does with the whole packets there are.
Yields ==
  LET k == Len(line) - Len(line')
      used == IF speed' # speed THEN 1 ELSE 0
  IN  Reads(k) =>
        /\ Whole(Filled(k)) # {} => used = 1
        /\ Len(rxbuf) + k <= RxbufMax =>
             Cardinality(Whole(rxbuf \o line)) =
               Cardinality(Whole(rxbuf' \o line')) + used

LEMMA StepYields ==
  ASSUME StatesInv, StatesInv' PROVE Yields
<1> DEFINE k == Len(line) - Len(line')
<1>1. SUFFICES ASSUME Reads(k)
      PROVE  /\ Whole(Filled(k)) # {} => speed' # speed
             /\ Len(rxbuf) + k <= RxbufMax =>
                  Cardinality(Whole(rxbuf \o line)) =
                    Cardinality(Whole(rxbuf' \o line'))
                      + (IF speed' # speed THEN 1 ELSE 0)
  BY DEF Yields
<1>2. line \in Seq(Bytes) /\ line' \in Seq(Bytes) /\ BuffersOK
  BY DEF StatesInv, BuffersOK
<1>3. Len(line) \in Nat /\ Len(line') \in Nat /\ k >= 0
  BY <1>1, <1>2, LenProperties DEF Reads
<1>4. k \in 0 .. Len(line)
  BY <1>3
<1>5. ReadPort(k)
  BY <1>1 DEF Reads
<1> HIDE DEF k
<1>6. speed' # speed <=> Got(Filled(k))
  BY <1>4, <1>5, GotIsNew
<1>7. Whole(Filled(k)) # {} => Got(Filled(k))
  BY <1>2, <1>4, <1>5, ReadFacts, GotFacts
<1>8. Len(rxbuf) + k <= RxbufMax =>
        Cardinality(Whole(rxbuf \o line)) =
          Cardinality(Whole(rxbuf' \o line')) + (IF Got(Filled(k)) THEN 1 ELSE 0)
  BY <1>2, <1>4, <1>5, NoneDropped
<1> QED
  BY <1>6, <1>7, <1>8

(***************************************************************************)
(* A cycle in which a whole packet is in the buffer gets a new speed, and  *)
(* while the buffer has room no whole packet is dropped:                   *)
(* fill_rx_nonblock_ and try_parse_one_frame_.                             *)
(***************************************************************************)
THEOREM CyclesYield == MCSpec => ReadYields
<1>1. MCInit => StatesInv
  BY StatesInit DEF MCInit
<1>2. StatesInv /\ [States \/ Sending(Commands!Next)]_mcVars => StatesInv'
  BY StatesStep
<1>3. StatesInv /\ StatesInv' => [Yields]_vars
  BY StepYields
<1>4. [Yields]_vars
        => [LET k == Len(line) - Len(line')
                used == IF speed' # speed THEN 1 ELSE 0
            IN  Reads(k) =>
                  /\ Whole(Filled(k)) # {} => used = 1
                  /\ Len(rxbuf) + k <= RxbufMax =>
                       Cardinality(Whole(rxbuf \o line)) =
                         Cardinality(Whole(rxbuf' \o line')) + used]_vars
  BY DEF Yields
<1> QED
  BY <1>1, <1>2, <1>3, <1>4, PTL DEF MCSpec, ReadYields

-----------------------------------------------------------------------------
(* The commands.                                                           *)

CmdTotal == Len(CommandLooks) + 5

LEMMA CommandSizes ==
  /\ Len(CommandLooks) \in Nat \ {0} /\ CmdTotal \in Nat
  /\ CommandLooks \in Seq(Looks)
  /\ Commands!Total(CommandLooks) = CmdTotal /\ Commands!HeaderLen = 4
<1>1. Len(CommandLooks) \in Nat \ {0}
  BY CommandsAssumption, EmptySeq, LenProperties
<1> QED
  BY <1>1, CommandsAssumption
  DEF CmdTotal, Looks, Commands!Total, Commands!HeaderLen

IsCmdCrc(b) == b.kind = "crc of cmd"

\* The packet with the command n, byte by byte.
LEMMA Command ==
  ASSUME NEW n, NEW P, P = Commands!Packet("cmd", n)
  PROVE  /\ n \in Nat => P \in Seq(Bytes)
         /\ Len(P) = CmdTotal
         /\ \A k \in 1 .. Len(CommandLooks) : P[4 + k] = Byte(CommandLooks[k], <<n>>)
         /\ P[CmdTotal] = Byte("crc of cmd", <<n>>)
         /\ \A k \in 1 .. CmdTotal : IsCmdCrc(P[k]) => k = CmdTotal
<1>1. P = PacketOf(CommandLooks, "cmd", n)
  BY DEF Commands!Packet, Commands!Byte, Commands!CrcKind, PacketOf, Byte, CrcKind
<1>2. CrcKind("cmd") = "crc of cmd" /\ HeaderLen = 4
  BY Sizes DEF CrcKind
<1>3. /\ Len(CommandLooks) \in Nat \ {0} /\ CommandLooks \in Seq(Looks)
      /\ CmdTotal = 4 + Len(CommandLooks) + 1
  BY CommandSizes DEF CmdTotal
<1>4. /\ n \in Nat => P \in Seq(Bytes)
      /\ Len(P) = HeaderLen + Len(CommandLooks) + 1
      /\ P[1] = Byte("AA", <<>>) /\ P[2] = Byte("55", <<>>)
      /\ P[3] = Byte("cmd", <<>>) /\ P[4] = Byte("10", <<>>)
      /\ \A k \in 1 .. Len(CommandLooks) : P[HeaderLen + k] = Byte(CommandLooks[k], <<n>>)
      /\ P[HeaderLen + Len(CommandLooks) + 1] = Byte(CrcKind("cmd"), <<n>>)
  <2>1. CommandLooks \in Seq(Looks) /\ "cmd" \in {"cmd", "meas"}
    BY <1>3
  <2> QED
    BY <1>1, <2>1, PacketBytes
<1>5. /\ n \in Nat => P \in Seq(Bytes)
      /\ Len(P) = CmdTotal
      /\ P[1] = Byte("AA", <<>>) /\ P[2] = Byte("55", <<>>)
      /\ P[3] = Byte("cmd", <<>>) /\ P[4] = Byte("10", <<>>)
      /\ \A k \in 1 .. Len(CommandLooks) : P[4 + k] = Byte(CommandLooks[k], <<n>>)
      /\ P[CmdTotal] = Byte("crc of cmd", <<n>>)
  BY <1>2, <1>3, <1>4
<1>6. ASSUME NEW k \in 1 .. CmdTotal, IsCmdCrc(P[k]) PROVE k = CmdTotal
  <2>1. P[k].kind = "crc of cmd"
    BY <1>6 DEF IsCmdCrc
  <2>2. CASE k \in {1, 2, 3, 4}
    <3>1. P[k] \in {Byte("AA", <<>>), Byte("55", <<>>), Byte("cmd", <<>>),
                    Byte("10", <<>>)}
      BY <1>5, <2>2
    <3>2. P[k].kind \in {"AA", "55", "cmd", "10"}
      BY <3>1, ByteParts
    <3> QED
      BY <2>1, <3>2
  <2>3. CASE k - 4 \in 1 .. Len(CommandLooks)
    <3>1. 4 + (k - 4) = k
      BY <1>3
    <3>2. P[k] = Byte(CommandLooks[k - 4], <<n>>)
      BY <1>5, <2>3, <3>1
    <3>3. CommandLooks[k - 4] \in Looks
      BY <1>3, <2>3, ElementOfSeq
    <3>4. P[k].kind \in Looks
      BY <3>2, <3>3, ByteParts
    <3> QED
      BY <2>1, <3>4 DEF Looks, HeaderKinds
  <2>4. k \in {1, 2, 3, 4} \/ k - 4 \in 1 .. Len(CommandLooks) \/ k = CmdTotal
    BY <1>3
  <2> QED
    BY <2>2, <2>3, <2>4
<1> QED
  BY <1>5, <1>6

LEMMA CommandsApart ==
  ASSUME NEW m, NEW n, Commands!Numbered(m) = Commands!Numbered(n)
  PROVE  m = n
<1>1. 1 \in 1 .. Len(CommandLooks)
  BY CommandSizes
<1>2. Commands!Numbered(m)[1] = <<m>> /\ Commands!Numbered(n)[1] = <<n>>
  BY <1>1 DEF Commands!Numbered
<1> QED
  BY <1>2

\* The CRCs of commands in q are of later and later ones, from low up to
\* high, but for the command to stand still.
Ordered(q, low, high) ==
  /\ \A i \in 1 .. Len(q) :
       IsCmdCrc(q[i]) => \E n \in {0} \cup low .. high : q[i].of = <<n>>
  /\ \A i, j \in 1 .. Len(q) :
       i < j /\ IsCmdCrc(q[i]) /\ IsCmdCrc(q[j]) =>
         q[j].of[1] = 0 \/ q[i].of[1] <= q[j].of[1]

LEMMA OrderedThinned ==
  ASSUME NEW p, NEW q, NEW low, NEW high, Ordered(q, low, high),
         NEW f \in [1 .. Len(p) -> 1 .. Len(q)],
         \A i, j \in 1 .. Len(p) : i < j => f[i] < f[j],
         \A i \in 1 .. Len(p) : p[i] = q[f[i]]
  PROVE  Ordered(p, low, high)
<1>1. ASSUME NEW i \in 1 .. Len(p) PROVE f[i] \in 1 .. Len(q) /\ p[i] = q[f[i]]
  OBVIOUS
<1>2. ASSUME NEW i \in 1 .. Len(p), IsCmdCrc(p[i])
      PROVE  \E n \in {0} \cup low .. high : p[i].of = <<n>>
  <2>1. \E n \in {0} \cup low .. high : q[f[i]].of = <<n>>
    BY <1>1, <1>2 DEF Ordered
  <2> QED
    BY <1>1, <2>1
<1>3. ASSUME NEW i \in 1 .. Len(p), NEW j \in 1 .. Len(p), i < j,
             IsCmdCrc(p[i]), IsCmdCrc(p[j])
      PROVE  p[j].of[1] = 0 \/ p[i].of[1] <= p[j].of[1]
  <2>1. f[i] < f[j]
    BY <1>3
  <2>2. q[f[j]].of[1] = 0 \/ q[f[i]].of[1] <= q[f[j]].of[1]
    BY <1>1, <1>3, <2>1 DEF Ordered
  <2> QED
    BY <1>1, <2>2
<1> QED
  BY <1>2, <1>3 DEF Ordered

LEMMA OrderedAfter ==
  ASSUME NEW S, NEW p \in Seq(S), NEW q \in Seq(S), NEW d, After(p, q, d),
         NEW low, NEW high, Ordered(q, low, high)
  PROVE  Ordered(p, low, high)
<1> DEFINE f == [i \in 1 .. Len(p) |-> d + i]
<1>1. Len(p) \in Nat /\ Len(q) \in Nat /\ d \in Nat /\ Len(p) = Len(q) - d
  BY LenProperties DEF After
<1>2. f \in [1 .. Len(p) -> 1 .. Len(q)]
  BY <1>1
<1>3. \A i, j \in 1 .. Len(p) : i < j => f[i] < f[j]
  BY <1>1
<1>4. \A i \in 1 .. Len(p) : p[i] = q[f[i]]
  BY DEF After
<1> HIDE DEF f
<1> QED
  BY <1>2, <1>3, <1>4, OrderedThinned

\* One byte less behind p.
LEMMA OrderedWithout ==
  ASSUME NEW p \in Seq(Bytes), NEW q \in Seq(Bytes), NEW i \in 1 .. Len(q),
         NEW r \in Seq(Bytes), Len(r) = Len(q) - 1,
         \A x \in 1 .. Len(r) : r[x] = q[IF x < i THEN x ELSE x + 1],
         NEW low, NEW high, Ordered(p \o q, low, high)
  PROVE  Ordered(p \o r, low, high)
<1>1. Len(p) \in Nat /\ Len(q) \in Nat
  BY LenProperties
<1>2. /\ Len(p \o q) = Len(p) + Len(q)
      /\ \A x \in 1 .. Len(p) : (p \o q)[x] = p[x]
      /\ \A x \in 1 .. Len(q) : (p \o q)[Len(p) + x] = q[x]
  BY ConcatFacts
<1>3. /\ Len(p \o r) = Len(p) + Len(r)
      /\ \A x \in 1 .. Len(p) : (p \o r)[x] = p[x]
      /\ \A x \in 1 .. Len(r) : (p \o r)[Len(p) + x] = r[x]
  BY ONLY p \in Seq(Bytes), r \in Seq(Bytes), ConcatFacts
<1> DEFINE A == p \o q
           B == p \o r
           f == [x \in 1 .. Len(B) |-> IF x < Len(p) + i THEN x ELSE x + 1]
<1> HIDE DEF A, B
<1>4. Len(A) = Len(p) + Len(q) /\ Len(B) = Len(A) - 1 /\ Len(B) = Len(p) + Len(r)
  BY <1>1, <1>2, <1>3 DEF A, B
<1>5. /\ f \in [1 .. Len(B) -> 1 .. Len(A)]
      /\ \A x, y \in 1 .. Len(B) : x < y => f[x] < f[y]
  BY <1>1, <1>4
<1>6. ASSUME NEW x \in 1 .. Len(B) PROVE B[x] = A[f[x]]
  <2>1. f[x] = IF x < Len(p) + i THEN x ELSE x + 1
    OBVIOUS
  <2> HIDE DEF f
  <2>2. CASE x \in 1 .. Len(p)
    <3>1. x < Len(p) + i
      BY <1>1, <2>2
    <3> QED
      BY <1>2, <1>3, <2>1, <2>2, <3>1 DEF A, B
  <2>3. CASE x \notin 1 .. Len(p)
    <3> DEFINE y == x - Len(p)
    <3>1. y \in 1 .. Len(r) /\ x = Len(p) + y
      BY <1>1, <1>4, <2>3
    <3>2. /\ y < i <=> x < Len(p) + i
          /\ y < i => y \in 1 .. Len(q)
          /\ y + 1 \in 1 .. Len(q) /\ Len(p) + (y + 1) = x + 1
      BY <1>1, <3>1
    <3> HIDE DEF y
    <3>3. B[x] = r[y] /\ r[y] = q[IF y < i THEN y ELSE y + 1]
      BY <1>3, <3>1 DEF B
    <3>4. CASE y < i
      <4>1. A[x] = q[y]
        BY <1>2, <3>1, <3>2, <3>4 DEF A
      <4> QED
        BY <2>1, <3>2, <3>3, <3>4, <4>1
    <3>5. CASE ~ (y < i)
      <4>1. A[Len(p) + (y + 1)] = q[y + 1]
        BY <1>2, <3>2 DEF A
      <4>2. A[x + 1] = q[y + 1]
        BY <3>2, <4>1
      <4> QED
        BY <2>1, <3>2, <3>3, <3>5, <4>2
    <3> QED
      BY <3>4, <3>5
  <2> QED
    BY <2>2, <2>3
<1> HIDE DEF f
<1>7. Ordered(A, low, high)
  BY DEF A
<1>8. Ordered(B, low, high)
  BY <1>5, <1>6, <1>7, OrderedThinned
<1> QED
  BY <1>8 DEF B

\* What is appended is of the newest command, or to stand still.
LEMMA OrderedAppended ==
  ASSUME NEW q \in Seq(Bytes), NEW p \in Seq(Bytes),
         NEW low \in Nat, NEW high \in Nat, low <= high, Ordered(q, low, high),
         \A i \in 1 .. Len(p) :
           IsCmdCrc(p[i]) => \E n \in {0, high} : p[i].of = <<n>>
  PROVE  Ordered(q \o p, low, high)
<1> DEFINE all == q \o p
<1>1. Len(q) \in Nat /\ Len(p) \in Nat
  BY LenProperties
<1>2. /\ Len(all) = Len(q) + Len(p)
      /\ \A i \in 1 .. Len(q) : all[i] = q[i]
      /\ \A i \in 1 .. Len(p) : all[Len(q) + i] = p[i]
  BY ConcatFacts
<1> HIDE DEF all
<1>3. ASSUME NEW i \in 1 .. Len(all), IsCmdCrc(all[i])
      PROVE  \/ /\ i \in 1 .. Len(q) /\ IsCmdCrc(q[i]) /\ all[i] = q[i]
                /\ \E n \in {0} \cup low .. high : all[i].of = <<n>>
             \/ i > Len(q) /\ \E n \in {0, high} : all[i].of = <<n>>
  <2>1. CASE i \in 1 .. Len(q)
    <3>1. all[i] = q[i]
      BY <1>2, <2>1
    <3>2. IsCmdCrc(q[i])
      BY <1>3, <3>1
    <3>3. \E n \in {0} \cup low .. high : q[i].of = <<n>>
      BY <2>1, <3>2 DEF Ordered
    <3> QED
      BY <2>1, <3>1, <3>2, <3>3
  <2>2. CASE i \notin 1 .. Len(q)
    <3> DEFINE k == i - Len(q)
    <3>1. k \in 1 .. Len(p) /\ i = Len(q) + k
      BY <1>1, <1>2, <2>2
    <3> HIDE DEF k
    <3>2. all[i] = p[k]
      BY <1>2, <3>1
    <3>3. \E n \in {0, high} : p[k].of = <<n>>
      BY <1>3, <3>1, <3>2
    <3> QED
      BY <1>1, <3>1, <3>2, <3>3
  <2> QED
    BY <2>1, <2>2
<1>4. ASSUME NEW i \in 1 .. Len(all), IsCmdCrc(all[i])
      PROVE  \E n \in {0} \cup low .. high : all[i].of = <<n>>
  <2>1. {0, high} \subseteq {0} \cup low .. high
    OBVIOUS
  <2> QED
    BY <1>3, <1>4, <2>1
<1>5. ASSUME NEW i \in 1 .. Len(all), NEW j \in 1 .. Len(all), i < j,
             IsCmdCrc(all[i]), IsCmdCrc(all[j])
      PROVE  all[j].of[1] = 0 \/ all[i].of[1] <= all[j].of[1]
  <2>1. CASE j \in 1 .. Len(q)
    <3>1. i \in 1 .. Len(q)
      BY <1>1, <1>5, <2>1
    <3>2. all[i] = q[i] /\ all[j] = q[j]
      BY <1>2, <2>1, <3>1
    <3>3. IsCmdCrc(q[i]) /\ IsCmdCrc(q[j])
      BY <1>5, <3>2
    <3>4. q[j].of[1] = 0 \/ q[i].of[1] <= q[j].of[1]
      BY <1>5, <2>1, <3>1, <3>3 DEF Ordered
    <3> QED
      BY <3>2, <3>4
  <2>2. CASE j \notin 1 .. Len(q)
    <3>1. PICK n \in {0, high} : all[j].of = <<n>>
      BY <1>3, <1>5, <2>2
    <3>2. PICK m \in {0} \cup low .. high : all[i].of = <<m>>
      BY <1>4, <1>5
    <3>3. all[j].of[1] = n /\ all[i].of[1] = m
      BY <3>1, <3>2
    <3>4. m <= high
      BY <3>2
    <3> QED
      BY <3>1, <3>3, <3>4
  <2> QED
    BY <2>1, <2>2
<1> QED
  BY <1>4, <1>5 DEF Ordered, all

-----------------------------------------------------------------------------
(* The command path.                                                       *)

(***************************************************************************)
(* What the controller has read of a frame and what is on the line, taken  *)
(* together, holds the CRCs of later and later commands, none older than   *)
(* the one it followed last.                                               *)
(***************************************************************************)
CommandsInv ==
  /\ newest \in Nat /\ cmd \in {0, newest}
  /\ last \in 0 .. newest
  /\ cmdLine \in Seq(Bytes) /\ payload \in Seq(Bytes)
  /\ Len(payload) <= Len(CommandLooks)
  /\ Ordered(payload \o cmdLine, last, newest)

\* What a step of this direction does to the command that is followed.
Obeys ==
  ref' # ref =>
    \/ ref' = Commands!Numbered(0)
    \/ \E n \in last .. newest : n > 0 /\ ref' = Commands!Numbered(n)

LEMMA CommandsInit == Commands!Init => CommandsInv
<1> SUFFICES ASSUME Commands!Init PROVE CommandsInv
  OBVIOUS
<1>1. /\ payload = <<>> /\ cmdLine = <<>> /\ newest = 0 /\ cmd = 0 /\ last = 0
  BY DEF Commands!Init
<1>2. <<>> \in Seq(Bytes) /\ Len(<<>>) = 0 /\ 0 <= Len(CommandLooks)
  BY CommandSizes
<1>3. Ordered(payload \o cmdLine, last, newest)
  <2>1. Len(payload \o cmdLine) = 0
    BY <1>1
  <2> DEFINE q == payload \o cmdLine
  <2> HIDE DEF q
  <2>2. Len(q) = 0
    BY <2>1 DEF q
  <2>3. Ordered(q, last, newest)
    BY <2>2 DEF Ordered
  <2> QED
    BY <2>3 DEF q
<1> QED
  BY <1>1, <1>2, <1>3 DEF CommandsInv

LEMMA SetCommandOrders ==
  ASSUME CommandsInv, Commands!SetCommand PROVE CommandsInv' /\ Obeys
<1>1. /\ UNCHANGED <<cmdLine, payload, ref, last>>
      /\ \/ cmd' = newest + 1 /\ newest' = newest + 1
         \/ cmd' = 0 /\ newest' = newest
  BY DEF Commands!SetCommand, Commands!feeder
<1>2. newest' \in Nat /\ cmd' \in {0, newest'} /\ last' \in 0 .. newest'
  BY <1>1 DEF CommandsInv
<1>3. Ordered(payload \o cmdLine, last, newest')
  <2>1. last .. newest \subseteq last .. newest'
    BY <1>1 DEF CommandsInv
  <2> QED
    BY <2>1 DEF CommandsInv, Ordered
<1> QED
  BY <1>1, <1>2, <1>3 DEF CommandsInv, Obeys

\* Bytes of the command that is wanted go onto the line.
LEMMA WrittenOrders ==
  ASSUME CommandsInv, NEW p \in Seq(Bytes),
         \A i \in 1 .. Len(p) : IsCmdCrc(p[i]) => p[i].of = <<cmd>>,
         cmdLine' = cmdLine \o p, UNCHANGED <<cmd, newest, payload, ref, last>>
  PROVE  CommandsInv' /\ Obeys
<1>1. cmdLine \in Seq(Bytes) /\ payload \in Seq(Bytes)
  BY DEF CommandsInv
<1>2. last \in Nat /\ newest \in Nat /\ last <= newest /\ cmd \in {0, newest}
  BY DEF CommandsInv
<1>3. \A i \in 1 .. Len(p) : IsCmdCrc(p[i]) => \E n \in {0, newest} : p[i].of = <<n>>
  BY <1>2
<1>4. payload \o cmdLine \in Seq(Bytes) /\ cmdLine \o p \in Seq(Bytes)
  BY <1>1, ConcatFacts
<1>5. Ordered(payload \o cmdLine, last, newest)
  BY DEF CommandsInv
<1>6. Ordered((payload \o cmdLine) \o p, last, newest)
  BY ONLY <1>2, <1>3, <1>4, <1>5, p \in Seq(Bytes), OrderedAppended
<1>7. (payload \o cmdLine) \o p = payload \o (cmdLine \o p)
  BY <1>1, ConcatAssociative
<1>8. Ordered(payload \o (cmdLine \o p), last, newest)
  BY <1>6, <1>7
<1> QED
  BY <1>4, <1>8 DEF CommandsInv, Obeys

LEMMA WriteOrders ==
  ASSUME CommandsInv, Commands!WriteWhole \/ Commands!WriteShort
  PROVE  CommandsInv' /\ Obeys
<1> DEFINE P == Commands!Packet("cmd", cmd)
<1>1. cmd \in Nat
  BY DEF CommandsInv
<1>2. /\ P \in Seq(Bytes) /\ Len(P) = CmdTotal
      /\ P[CmdTotal] = Byte("crc of cmd", <<cmd>>)
      /\ \A k \in 1 .. CmdTotal : IsCmdCrc(P[k]) => k = CmdTotal
  BY <1>1, Command
<1> HIDE DEF P
<1>3. UNCHANGED <<cmd, newest, payload, ref, last>>
  BY DEF Commands!WriteWhole, Commands!WriteShort, Commands!host, Commands!feeder
<1>4. CASE Commands!WriteWhole
  <2>1. cmdLine' = cmdLine \o P
    BY <1>4 DEF Commands!WriteWhole, P
  <2>2. ASSUME NEW i \in 1 .. Len(P), IsCmdCrc(P[i]) PROVE P[i].of = <<cmd>>
    <3>1. Len(P) = CmdTotal
      BY <1>2
    <3>2. P[i] = Byte("crc of cmd", <<cmd>>)
      BY <1>2, <2>2, <3>1
    <3> QED
      BY <3>2, ByteParts
  <2> QED
    BY <1>2, <1>3, <2>1, <2>2, WrittenOrders
<1>5. CASE Commands!WriteShort
  <2>1. PICK p \in Commands!Prefixes(P) :
          Len(p) < CmdTotal /\ cmdLine' = cmdLine \o p
    BY <1>5, CommandSizes DEF Commands!WriteShort, P
  <2>2. PICK k \in 0 .. Len(P) : p = SubSeq(P, 1, k)
    BY <2>1 DEF Commands!Prefixes
  <2>3. /\ p \in Seq(Bytes) /\ Len(p) = k
        /\ \A i \in 1 .. k : p[i] = P[i]
    <3>1. /\ CmdTotal \in Nat /\ Len(P) = CmdTotal /\ k \in 0 .. CmdTotal
      BY <1>2, <2>2, CommandSizes
    <3>2. 1 \in 1 .. Len(P) + 1 /\ k \in 1 - 1 .. Len(P) /\ k - 1 + 1 = k
      BY <3>1
    <3>3. /\ SubSeq(P, 1, k) \in Seq(Bytes) /\ Len(SubSeq(P, 1, k)) = k - 1 + 1
          /\ \A i \in 1 .. k - 1 + 1 : SubSeq(P, 1, k)[i] = P[1 + i - 1]
      BY ONLY <1>2, <3>2, SubSeqFacts
    <3>4. \A i \in 1 .. k : 1 + i - 1 = i
      BY <3>1
    <3> QED
      BY ONLY <2>2, <3>2, <3>3, <3>4
  <2>4. k < CmdTotal /\ CmdTotal \in Nat
    BY <2>1, <2>3, CommandSizes
  <2>5. \A i \in 1 .. Len(p) : ~ IsCmdCrc(p[i])
    <3>1. k \in 0 .. CmdTotal
      BY <1>2, <2>2
    <3>2. \A i \in 1 .. k : i \in 1 .. CmdTotal /\ i # CmdTotal
      BY ONLY <2>4, <3>1
    <3> QED
      BY <1>2, <2>3, <3>2
  <2> QED
    BY <1>3, <2>1, <2>3, <2>5, WrittenOrders
<1> QED
  BY <1>4, <1>5

LEMMA ActivationOrders ==
  ASSUME CommandsInv, Commands!Activate \/ Commands!Deactivate
  PROVE  CommandsInv' /\ Obeys
<1>1. /\ payload \in Seq(Bytes) /\ cmdLine \in Seq(Bytes)
      /\ Len(payload) \in Nat /\ Len(cmdLine) \in Nat
      /\ Ordered(payload \o cmdLine, last, newest)
  BY LenProperties DEF CommandsInv
<1>2. UNCHANGED <<newest, payload, ref, last>> /\ cmd' \in {0, cmd}
  BY DEF Commands!Activate, Commands!Deactivate, Commands!feeder
<1>3. CASE cmdLine' = cmdLine
  BY <1>2, <1>3 DEF CommandsInv, Obeys
<1>4. CASE cmdLine' \in Commands!Prefixes(cmdLine)
  <2>1. PICK k \in 0 .. Len(cmdLine) : cmdLine' = SubSeq(cmdLine, 1, k)
    BY <1>4 DEF Commands!Prefixes
  <2> DEFINE r == cmdLine'
  <2>2. /\ r \in Seq(Bytes) /\ Len(r) = k
        /\ \A i \in 1 .. k : r[i] = cmdLine[i]
    <3>1. 1 \in 1 .. Len(cmdLine) + 1 /\ k \in 1 - 1 .. Len(cmdLine) /\ k - 1 + 1 = k
      BY <1>1
    <3>2. /\ SubSeq(cmdLine, 1, k) \in Seq(Bytes)
          /\ Len(SubSeq(cmdLine, 1, k)) = k - 1 + 1
          /\ \A i \in 1 .. k - 1 + 1 : SubSeq(cmdLine, 1, k)[i] = cmdLine[1 + i - 1]
      BY ONLY <1>1, <3>1, SubSeqFacts
    <3>3. \A i \in 1 .. k : 1 + i - 1 = i
      BY <1>1
    <3> QED
      BY ONLY <2>1, <3>1, <3>2, <3>3
  <2> HIDE DEF r
  <2> DEFINE A == payload \o cmdLine
             B == payload \o r
             f == [x \in 1 .. Len(B) |-> x]
  <2>3. /\ Len(A) = Len(payload) + Len(cmdLine)
        /\ \A x \in 1 .. Len(payload) : A[x] = payload[x]
        /\ \A x \in 1 .. Len(cmdLine) : A[Len(payload) + x] = cmdLine[x]
    BY <1>1, ConcatFacts
  <2>4. /\ Len(B) = Len(payload) + Len(r)
        /\ \A x \in 1 .. Len(payload) : B[x] = payload[x]
        /\ \A x \in 1 .. Len(r) : B[Len(payload) + x] = r[x]
    <3>1. r \in Seq(Bytes) /\ payload \in Seq(Bytes)
      BY <1>1, <2>2
    <3> QED
      BY ONLY <3>1, ConcatFacts
  <2> HIDE DEF A, B
  <2>5. /\ f \in [1 .. Len(B) -> 1 .. Len(A)]
        /\ \A x, y \in 1 .. Len(B) : x < y => f[x] < f[y]
    BY <1>1, <2>2, <2>3, <2>4
  <2>6. ASSUME NEW x \in 1 .. Len(B) PROVE B[x] = A[f[x]]
    <3>1. CASE x \in 1 .. Len(payload)
      BY <2>3, <2>4, <3>1
    <3>2. CASE x \notin 1 .. Len(payload)
      <4> DEFINE y == x - Len(payload)
      <4>1. y \in 1 .. k /\ y \in 1 .. Len(cmdLine) /\ x = Len(payload) + y
        BY <1>1, <2>2, <2>4, <3>2
      <4> HIDE DEF y
      <4> QED
        BY <2>2, <2>3, <2>4, <4>1
    <3> QED
      BY <3>1, <3>2
  <2> HIDE DEF f
  <2>7. Ordered(A, last, newest)
    BY <1>1 DEF A
  <2>8. Ordered(B, last, newest)
    BY <2>5, <2>6, <2>7, OrderedThinned
  <2>9. B = payload \o cmdLine' /\ cmdLine' \in Seq(Bytes)
    BY <2>2 DEF B, r
  <2> QED
    BY <1>2, <2>8, <2>9 DEF CommandsInv, Obeys
<1> QED
  BY <1>3, <1>4 DEF Commands!Activate, Commands!Deactivate

\* Bytes are taken from the front of the line, or lost anywhere.
LEMMA ShorterOrders ==
  ASSUME CommandsInv, NEW i \in 1 .. Len(cmdLine),
         cmdLine' \in Seq(Bytes), Len(cmdLine') = Len(cmdLine) - 1,
         \A x \in 1 .. Len(cmdLine') :
           cmdLine'[x] = cmdLine[IF x < i THEN x ELSE x + 1],
         UNCHANGED <<cmd, newest, payload, ref, last>>
  PROVE  CommandsInv' /\ Obeys
<1>1. /\ payload \in Seq(Bytes) /\ cmdLine \in Seq(Bytes)
      /\ Ordered(payload \o cmdLine, last, newest)
  BY DEF CommandsInv
<1> DEFINE r == cmdLine'
<1>2. /\ r \in Seq(Bytes) /\ Len(r) = Len(cmdLine) - 1
      /\ \A x \in 1 .. Len(r) : r[x] = cmdLine[IF x < i THEN x ELSE x + 1]
  OBVIOUS
<1> HIDE DEF r
<1>3. Ordered(payload \o r, last, newest)
  BY ONLY <1>1, <1>2, i \in 1 .. Len(cmdLine), OrderedWithout
<1> QED
  BY <1>2, <1>3 DEF CommandsInv, Obeys, r

LEMMA FirstTaken ==
  ASSUME cmdLine \in Seq(Bytes), cmdLine # <<>>
  PROVE  /\ 1 \in 1 .. Len(cmdLine) /\ Head(cmdLine) \in Bytes
         /\ Head(cmdLine) = cmdLine[1]
         /\ Tail(cmdLine) \in Seq(Bytes) /\ Len(Tail(cmdLine)) = Len(cmdLine) - 1
         /\ \A x \in 1 .. Len(Tail(cmdLine)) : Tail(cmdLine)[x] = cmdLine[x + 1]
<1>1. Len(cmdLine) \in Nat /\ Len(cmdLine) # 0
  BY EmptySeq, LenProperties
<1>2. Head(cmdLine) = cmdLine[1]
  OBVIOUS
<1> QED
  BY <1>1, <1>2, HeadTailProperties

LEMMA SyncOrders ==
  ASSUME CommandsInv, Commands!SyncByte \/ Commands!Lose PROVE CommandsInv' /\ Obeys
<1>1. cmdLine \in Seq(Bytes) /\ Len(cmdLine) \in Nat
  BY LenProperties DEF CommandsInv
<1>2. UNCHANGED <<cmd, newest, payload, ref, last>>
  BY DEF Commands!SyncByte, Commands!Lose, Commands!host, Commands!feeder
<1>3. CASE Commands!SyncByte
  <2> DEFINE r == Tail(cmdLine)
  <2>1. cmdLine # <<>> /\ cmdLine' = r
    BY <1>3 DEF Commands!SyncByte
  <2>2. /\ 1 \in 1 .. Len(cmdLine)
        /\ r \in Seq(Bytes) /\ Len(r) = Len(cmdLine) - 1
        /\ \A x \in 1 .. Len(r) : r[x] = cmdLine[x + 1]
    BY <1>1, <2>1, FirstTaken
  <2> HIDE DEF r
  <2>3. \A x \in 1 .. Len(r) : r[x] = cmdLine[IF x < 1 THEN x ELSE x + 1]
    BY <1>1, <2>2
  <2> QED
    BY <1>2, <2>1, <2>2, <2>3, ShorterOrders
<1>4. CASE Commands!Lose
  <2>1. PICK i \in 1 .. Len(cmdLine) : cmdLine' = Without(cmdLine, i)
    BY <1>4 DEF Commands!Lose, Without
  <2> DEFINE r == cmdLine'
  <2>2. r = Without(cmdLine, i)
    BY <2>1
  <2> HIDE DEF r
  <2>3. /\ r \in Seq(Bytes) /\ Len(r) = Len(cmdLine) - 1
        /\ \A x \in 1 .. Len(r) : r[x] = cmdLine[IF x < i THEN x ELSE x + 1]
    BY <1>1, <2>2, TakenOut
  <2> QED
    BY <1>2, <2>3, ShorterOrders DEF r
<1> QED
  BY <1>3, <1>4

\* A frame whose CRC is right is the packet with the number its CRC has.
LEMMA FrameNumber ==
  ASSUME NEW got \in Seq(Bytes), Len(got) = Len(CommandLooks) + 1,
         Commands!FrameOK(Commands!Header \o got)
  PROVE  LET crc == got[Len(CommandLooks) + 1] IN
           /\ IsCmdCrc(crc)
           /\ Commands!Carried(Commands!Header \o got, 1)
                = Commands!Numbered(crc.of[1])
<1> DEFINE L == Len(CommandLooks)
           P0 == Commands!Packet("cmd", 0)
           head == Commands!Header
           frame == head \o got
           crc == got[L + 1]
           n == crc.of[1]
           P == Commands!Packet("cmd", n)
<1>1. L \in Nat \ {0} /\ CmdTotal = L + 5 /\ Commands!HeaderLen = 4
      /\ Commands!Total(CommandLooks) = CmdTotal
  BY CommandSizes DEF CmdTotal
<1>2. P0 \in Seq(Bytes) /\ Len(P0) = CmdTotal
  BY Command
<1>3. head \in Seq(Bytes) /\ Len(head) = 4
  <2>1. head = SubSeq(P0, 1, 4)
    BY <1>1 DEF Commands!Header
  <2> HIDE DEF P0, head
  <2>2. 1 \in 1 .. Len(P0) + 1 /\ 4 \in 1 - 1 .. Len(P0) /\ 4 - 1 + 1 = 4
    BY <1>1, <1>2
  <2>3. SubSeq(P0, 1, 4) \in Seq(Bytes) /\ Len(SubSeq(P0, 1, 4)) = 4 - 1 + 1
    BY <1>2, <2>2, SubSeqFacts
  <2> QED
    BY <2>1, <2>2, <2>3
<1>4. Commands!CrcOK(frame, 1, "cmd")
  BY DEF Commands!FrameOK
<1> HIDE DEF head
<1>5. /\ frame \in Seq(Bytes) /\ Len(frame) = 4 + Len(got)
      /\ \A i \in 1 .. Len(got) : frame[4 + i] = got[i]
  <2>1. /\ head \o got \in Seq(Bytes) /\ Len(head \o got) = Len(head) + Len(got)
        /\ \A i \in 1 .. Len(got) : (head \o got)[Len(head) + i] = got[i]
    <3>1. head \in Seq(Bytes)
      BY <1>3
    <3> QED
      BY ONLY <3>1, got \in Seq(Bytes), ConcatFacts
  <2> QED
    BY <1>3, <2>1
<1> HIDE DEF frame
<1>6. Len(frame) = CmdTotal /\ Len(got) = L + 1 /\ 1 + CmdTotal - 1 = CmdTotal
      /\ 4 + (L + 1) = CmdTotal /\ L + 1 \in 1 .. Len(got)
  BY <1>1, <1>5
<1>7. frame[1 + CmdTotal - 1] = crc
  BY <1>5, <1>6
<1> HIDE DEF L, crc, n
<1>8. crc.kind = "crc of cmd" /\ SubSeq(frame, 1, CmdTotal) = P
  <2>1. /\ frame[1 + CmdTotal - 1].kind = Commands!CrcKind("cmd")
        /\ SubSeq(frame, 1, 1 + CmdTotal - 1)
             = Commands!Packet("cmd", frame[1 + CmdTotal - 1].of[1])
    BY <1>1, <1>4 DEF Commands!CrcOK
  <2>2. Commands!CrcKind("cmd") = "crc of cmd"
    BY DEF Commands!CrcKind
  <2> QED
    BY <1>6, <1>7, <2>1, <2>2 DEF n
<1>9. \A k \in 1 .. L : P[4 + k] = Byte(CommandLooks[k], <<n>>)
  BY Command DEF L
<1> HIDE DEF P
<1>10. \A x \in 1 .. CmdTotal : P[x] = frame[x]
  <2>1. /\ 1 \in 1 .. Len(frame) + 1 /\ CmdTotal \in 1 - 1 .. Len(frame)
        /\ CmdTotal - 1 + 1 = CmdTotal
    BY <1>1, <1>6
  <2>2. \A x \in 1 .. CmdTotal - 1 + 1 : SubSeq(frame, 1, CmdTotal)[x] = frame[1 + x - 1]
    BY <1>5, <2>1, SubSeqFacts
  <2>3. \A x \in 1 .. CmdTotal : 1 + x - 1 = x
    BY <1>1
  <2> QED
    BY ONLY <1>8, <2>1, <2>2, <2>3
<1>11. ASSUME NEW k \in 1 .. L
       PROVE  frame[1 + Commands!HeaderLen - 1 + k].of = <<n>>
  <2>1. 1 + Commands!HeaderLen - 1 + k = 4 + k /\ 4 + k \in 1 .. CmdTotal
    BY <1>1
  <2>2. frame[4 + k] = Byte(CommandLooks[k], <<n>>)
    BY <1>9, <1>10, <2>1
  <2>3. frame[4 + k].of = <<n>>
    BY <2>2, ByteParts
  <2> QED
    BY <2>1, <2>3
<1>12. Commands!Carried(frame, 1) = Commands!Numbered(n)
  BY <1>11 DEF Commands!Carried, Commands!Numbered, L
<1> QED
  BY <1>8, <1>12 DEF IsCmdCrc, frame, head, n, crc, L

\* What comes after a CRC is not older than it.
LEMMA OrderedPast ==
  ASSUME NEW p \in Seq(Bytes), NEW q \in Seq(Bytes), NEW d, After(p, q, d),
         NEW low \in Nat, NEW high \in Nat, Ordered(q, low, high),
         NEW c \in 1 .. Len(q), c <= d, NEW n \in Nat,
         IsCmdCrc(q[c]), q[c].of = <<n>>
  PROVE  Ordered(p, n, high)
<1>1. /\ Len(p) \in Nat /\ Len(q) \in Nat /\ d \in Nat /\ Len(p) = Len(q) - d
  BY LenProperties DEF After
<1>2. Ordered(p, low, high)
  BY OrderedAfter
<1>3. ASSUME NEW x \in 1 .. Len(p), IsCmdCrc(p[x])
      PROVE  \E m \in {0} \cup n .. high : p[x].of = <<m>>
  <2>1. d + x \in 1 .. Len(q) /\ c < d + x
    BY <1>1
  <2>2. p[x] = q[d + x]
    BY DEF After
  <2>3. IsCmdCrc(q[d + x])
    BY <1>3, <2>2
  <2>4. PICK m \in {0} \cup low .. high : q[d + x].of = <<m>>
    BY <2>1, <2>3 DEF Ordered
  <2>5. q[d + x].of[1] = 0 \/ q[c].of[1] <= q[d + x].of[1]
    BY <2>1, <2>3 DEF Ordered
  <2>6. q[d + x].of[1] = m /\ q[c].of[1] = n
    BY <2>4
  <2>7. m \in {0} \cup n .. high
    <3>1. m = 0 \/ n <= m
      BY <2>5, <2>6
    <3> QED
      BY ONLY <3>1, m \in {0} \cup low .. high, low \in Nat, high \in Nat, n \in Nat
  <2> QED
    BY <2>2, <2>4, <2>7
<1> QED
  BY <1>2, <1>3 DEF Ordered

LEMMA PayloadOrders ==
  ASSUME CommandsInv, Commands!PayloadByte PROVE CommandsInv' /\ Obeys
<1> DEFINE b == Head(cmdLine)
           got == Append(payload, b)
           r == Tail(cmdLine)
           all == payload \o cmdLine
           L == Len(CommandLooks)
<1>1. /\ payload \in Seq(Bytes) /\ cmdLine \in Seq(Bytes)
      /\ Len(payload) \in Nat /\ Len(cmdLine) \in Nat /\ Len(payload) <= L
      /\ Ordered(all, last, newest)
      /\ last \in Nat /\ newest \in Nat /\ last <= newest
  BY LenProperties DEF CommandsInv
<1>2. cmdLine # <<>> /\ cmdLine' = r /\ UNCHANGED <<cmd, newest>>
  BY DEF Commands!PayloadByte, Commands!host
<1>3. /\ 1 \in 1 .. Len(cmdLine) /\ b \in Bytes /\ b = cmdLine[1]
      /\ r \in Seq(Bytes) /\ Len(r) = Len(cmdLine) - 1
      /\ \A x \in 1 .. Len(r) : r[x] = cmdLine[x + 1]
  BY <1>1, <1>2, FirstTaken
<1>4. L \in Nat \ {0}
  BY CommandSizes
<1>5. IF Len(got) < L + 1
        THEN payload' = got /\ UNCHANGED <<ref, last>>
        ELSE payload' = <<>> /\ Commands!Receive(Commands!Header \o got)
  BY DEF Commands!PayloadByte
<1> HIDE DEF b, r
<1>6. /\ got \in Seq(Bytes) /\ Len(got) = Len(payload) + 1
      /\ \A i \in 1 .. Len(payload) : got[i] = payload[i]
      /\ got[Len(payload) + 1] = b
  BY <1>1, <1>3, AppendProperties
<1> HIDE DEF got, all
<1>7. /\ all \in Seq(Bytes) /\ Len(all) = Len(payload) + Len(cmdLine)
      /\ \A i \in 1 .. Len(payload) : all[i] = payload[i]
      /\ \A i \in 1 .. Len(cmdLine) : all[Len(payload) + i] = cmdLine[i]
  BY <1>1, ConcatFacts DEF all
<1>8. all[Len(payload) + 1] = b /\ Len(payload) + 1 \in 1 .. Len(all)
  BY <1>1, <1>3, <1>7
<1>9. After(r, all, Len(payload) + 1)
  <2>1. \A x \in 1 .. Len(r) :
          x + 1 \in 1 .. Len(cmdLine)
            /\ Len(payload) + 1 + x = Len(payload) + (x + 1)
    BY <1>1, <1>3
  <2>2. \A x \in 1 .. Len(r) : r[x] = all[Len(payload) + 1 + x]
    BY <1>3, <1>7, <2>1
  <2>3. Len(payload) + 1 \in 0 .. Len(all)
        /\ Len(r) = Len(all) - (Len(payload) + 1)
    <3>1. Len(all) = Len(payload) + Len(cmdLine) /\ Len(r) = Len(cmdLine) - 1
          /\ 1 <= Len(cmdLine)
      BY <1>1, <1>3, <1>7
    <3>2. Len(payload) \in Nat /\ Len(cmdLine) \in Nat
      BY <1>1
    <3> QED
      BY ONLY <3>1, <3>2
  <2> QED
    BY ONLY <2>2, <2>3 DEF After
<1>10. CASE Len(got) < L + 1
  <2>1. payload' = got /\ UNCHANGED <<ref, last>>
    BY <1>5, <1>10
  <2>2. got \o r = all
    <3> DEFINE a == got \o r
    <3>1. /\ a \in Seq(Bytes) /\ Len(a) = Len(got) + Len(r)
          /\ \A i \in 1 .. Len(got) : a[i] = got[i]
          /\ \A i \in 1 .. Len(r) : a[Len(got) + i] = r[i]
      <4>1. got \in Seq(Bytes) /\ r \in Seq(Bytes)
        BY <1>3, <1>6
      <4> QED
        BY ONLY <4>1, ConcatFacts
    <3> HIDE DEF a
    <3>2. Len(a) = Len(all)
      <4>1. /\ Len(a) = Len(got) + Len(r) /\ Len(got) = Len(payload) + 1
            /\ Len(r) = Len(cmdLine) - 1 /\ Len(all) = Len(payload) + Len(cmdLine)
        BY <1>3, <1>6, <1>7, <3>1
      <4>2. Len(payload) \in Nat /\ Len(cmdLine) \in Nat
        BY <1>1
      <4> QED
        BY ONLY <4>1, <4>2
    <3>3. ASSUME NEW x \in 1 .. Len(a) PROVE a[x] = all[x]
      <4>1. CASE x \in 1 .. Len(payload)
        <5>1. x \in 1 .. Len(got)
          BY <1>1, <1>6, <4>1
        <5> QED
          BY <1>6, <1>7, <3>1, <4>1, <5>1
      <4>2. CASE x = Len(payload) + 1
        <5>1. x \in 1 .. Len(got)
          BY <1>1, <1>6, <4>2
        <5> QED
          BY <1>6, <1>8, <3>1, <4>2, <5>1
      <4>3. CASE x \notin 1 .. Len(payload) /\ x # Len(payload) + 1
        <5> DEFINE y == x - (Len(payload) + 1)
        <5>1. y \in 1 .. Len(r) /\ x = Len(payload) + 1 + y
          <6>1. x \in 1 .. Len(payload) + 1 + Len(r) /\ Len(r) \in Nat
            BY <1>1, <1>3, <1>6, <3>1
          <6>2. Len(payload) \in Nat
            BY <1>1
          <6> QED
            BY ONLY <4>3, <6>1, <6>2
        <5> HIDE DEF y
        <5>2. a[x] = r[y]
          BY <1>6, <3>1, <5>1
        <5>3. r[y] = all[Len(payload) + 1 + y]
          BY <1>9, <5>1 DEF After
        <5> QED
          BY <5>1, <5>2, <5>3
      <4> QED
        BY <4>1, <4>2, <4>3
    <3>4. a = all
      BY <1>7, <3>1, <3>2, <3>3, SameSequence
    <3> QED
      BY <3>4 DEF a
  <2>3. Len(got) <= L
    BY <1>1, <1>4, <1>6, <1>10
  <2> QED
    BY <1>1, <1>2, <1>3, <1>6, <2>1, <2>2, <2>3 DEF CommandsInv, Obeys
<1>11. CASE ~ (Len(got) < L + 1)
  <2>1. payload' = <<>> /\ Commands!Receive(Commands!Header \o got)
    BY <1>5, <1>11
  <2>2. Len(got) = L + 1 /\ Len(payload) = L
    BY <1>1, <1>4, <1>6, <1>11
  <2>3. <<>> \o r = r /\ <<>> \in Seq(Bytes) /\ Len(<<>>) = 0 /\ 0 <= L
    BY <1>3, <1>4, ConcatEmptySeq
  <2>4. CASE ~ Commands!FrameOK(Commands!Header \o got)
    <3>1. UNCHANGED <<ref, last>>
      BY <2>1, <2>4 DEF Commands!Receive
    <3>2. Ordered(r, last, newest)
      BY ONLY <1>1, <1>3, <1>7, <1>9, OrderedAfter
    <3> QED
      BY <1>1, <1>2, <1>3, <2>1, <2>3, <3>1, <3>2 DEF CommandsInv, Obeys
  <2>5. CASE Commands!FrameOK(Commands!Header \o got)
    <3>1. /\ ref' = Commands!Carried(Commands!Header \o got, 1)
          /\ last' = IF \E n \in 1 .. newest : ref' = Commands!Numbered(n)
                       THEN CHOOSE n \in 1 .. newest : ref' = Commands!Numbered(n)
                       ELSE last
      BY <2>1, <2>5 DEF Commands!Receive
    <3>2. got[L + 1] = b
      BY <1>6, <2>2
    <3>3. IsCmdCrc(b) /\ ref' = Commands!Numbered(b.of[1])
      BY <1>6, <2>2, <2>5, <3>1, <3>2, FrameNumber
    <3> DEFINE c == Len(payload) + 1
    <3>4. IsCmdCrc(all[c]) /\ c \in 1 .. Len(all) /\ all[c] = b
      BY <1>8, <3>3
    <3> HIDE DEF c
    <3>5. PICK n \in {0} \cup last .. newest : all[c].of = <<n>>
      BY <1>1, <3>4 DEF Ordered
    <3>6. ref' = Commands!Numbered(n)
      BY <3>3, <3>4, <3>5
    <3>7. n \in Nat /\ n <= newest
      BY <1>1
    <3>8. CASE n = 0
      <4>1. \A m \in 1 .. newest : ref' # Commands!Numbered(m)
        BY <3>6, <3>8, CommandsApart
      <4>2. last' = last
        BY <3>1, <4>1
      <4>3. Ordered(r, last, newest)
        BY ONLY <1>1, <1>3, <1>7, <1>9, OrderedAfter
      <4> QED
        BY <1>1, <1>2, <1>3, <2>1, <2>3, <3>6, <3>8, <4>2, <4>3
        DEF CommandsInv, Obeys
    <3>9. CASE n # 0
      <4>1. n \in 1 .. newest /\ n \in last .. newest /\ n > 0
        BY <1>1, <3>7, <3>9
      <4>2. last' \in 1 .. newest /\ ref' = Commands!Numbered(last')
        BY <3>1, <3>6, <4>1
      <4>3. last' = n
        BY <3>6, <4>2, CommandsApart
      <4>4. Ordered(r, n, newest)
        <5>1. c <= Len(payload) + 1
          BY <1>1 DEF c
        <5> QED
          BY ONLY <1>1, <1>3, <1>7, <1>9, <3>4, <3>5, <3>7, <5>1, OrderedPast
      <4> QED
        BY <1>1, <1>2, <1>3, <2>1, <2>3, <3>6, <4>1, <4>3, <4>4
        DEF CommandsInv, Obeys
    <3> QED
      BY <3>8, <3>9
  <2> QED
    BY <2>4, <2>5
<1> QED
  BY <1>10, <1>11

LEMMA LoopOrders ==
  ASSUME CommandsInv,
         \/ Commands!Look \/ Commands!PayloadTimeout
         \/ Commands!Tick \/ Commands!Elapse
  PROVE  CommandsInv' /\ Obeys
<1>1. UNCHANGED <<cmd, newest, cmdLine, last>>
  BY DEF Commands!Look, Commands!PayloadTimeout, Commands!Tick, Commands!Elapse,
         Commands!host
<1>2. CASE payload' = payload
  <2>1. ref' = ref \/ ref' = Commands!Numbered(0)
    BY DEF Commands!Look, Commands!PayloadTimeout, Commands!Tick, Commands!Elapse
  <2> QED
    BY <1>1, <1>2, <2>1 DEF CommandsInv, Obeys
<1>3. CASE Commands!PayloadTimeout
  <2>1. payload' = <<>> /\ ref' = ref
    BY <1>3 DEF Commands!PayloadTimeout
  <2>2. /\ payload \in Seq(Bytes) /\ cmdLine \in Seq(Bytes)
        /\ Len(payload) \in Nat /\ Len(cmdLine) \in Nat
        /\ Ordered(payload \o cmdLine, last, newest)
    BY LenProperties DEF CommandsInv
  <2>3. /\ payload \o cmdLine \in Seq(Bytes)
        /\ After(cmdLine, payload \o cmdLine, Len(payload))
    BY <2>2, ConcatFacts DEF After
  <2>4. Ordered(cmdLine, last, newest)
    BY <2>2, <2>3, OrderedAfter
  <2>5. <<>> \o cmdLine = cmdLine /\ <<>> \in Seq(Bytes) /\ Len(<<>>) = 0
        /\ 0 <= Len(CommandLooks)
    BY <2>2, ConcatEmptySeq, CommandSizes
  <2> QED
    BY <1>1, <2>1, <2>4, <2>5 DEF CommandsInv, Obeys
<1>4. CASE Commands!Look \/ Commands!Tick \/ Commands!Elapse
  BY <1>2, <1>4 DEF Commands!Look, Commands!Tick, Commands!Elapse
<1> QED
  BY <1>3, <1>4

LEMMA CommandsStep ==
  ASSUME CommandsInv, [States \/ Sending(Commands!Next)]_mcVars
  PROVE  CommandsInv' /\ Obeys
<1>1. CASE Commands!Next
  <2>1. CASE Commands!SetCommand
    BY <2>1, SetCommandOrders
  <2>2. CASE Commands!WriteWhole \/ Commands!WriteShort
    BY <2>2, WriteOrders
  <2>3. CASE Commands!Activate \/ Commands!Deactivate
    BY <2>3, ActivationOrders
  <2>4. CASE Commands!SyncByte \/ Commands!Lose
    BY <2>4, SyncOrders
  <2>5. CASE Commands!PayloadByte
    BY <2>5, PayloadOrders
  <2>6. CASE \/ Commands!Look \/ Commands!PayloadTimeout
             \/ Commands!Tick \/ Commands!Elapse
    BY <2>6, LoopOrders
  <2> QED
    BY <1>1, <2>1, <2>2, <2>3, <2>4, <2>5, <2>6 DEF Commands!Next, Commands!Feeder
<1>2. CASE UNCHANGED commandVars
  BY <1>2 DEF commandVars, CommandsInv, Obeys
<1>3. CASE States
  BY <1>2, <1>3 DEF States
<1>4. CASE Sending(Commands!Next)
  BY <1>1, <1>4 DEF Sending
<1>5. CASE UNCHANGED mcVars
  BY <1>2, <1>5 DEF mcVars
<1> QED
  BY <1>3, <1>4, <1>5

(***************************************************************************)
(* The wheels only ever follow a command that was wanted, and never one    *)
(* older than a command they followed before (MecanumHWSystem::write,      *)
(* find_and_read_cmd).                                                     *)
(***************************************************************************)
THEOREM CommandsFollow == MCSpec => CommandsInOrder
<1>1. MCInit => CommandsInv
  BY CommandsInit DEF MCInit
<1>2. CommandsInv /\ [States \/ Sending(Commands!Next)]_mcVars => CommandsInv'
  BY CommandsStep
<1>3. CommandsInv /\ [States \/ Sending(Commands!Next)]_mcVars
        => [ref' # ref =>
              \/ ref' = Commands!Numbered(0)
              \/ \E n \in last .. newest :
                   n > 0 /\ ref' = Commands!Numbered(n)]_Commands!vars
  BY CommandsStep DEF Obeys
<1> QED
  BY <1>1, <1>2, <1>3, PTL DEF MCSpec, CommandsInOrder, Commands!CommandsInOrder
=============================================================================
