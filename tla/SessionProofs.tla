---------------------------- MODULE SessionProofs ----------------------------
(***************************************************************************)
(* Proofs about Session.tla, for any scenario and any sizes of reads: what *)
(* is decoded of a stream is what was sent on it, an end never waits for a *)
(* byte behind the item it decodes, both ends agree about the setup, and   *)
(* none ends because it cannot decode what its peer encoded.               *)
(*                                                                         *)
(* The first half is about the codecs.  Agrees says what a decoder owes to *)
(* an encoding e of v when the bytes it is given, up to where they end     *)
(* now, are those of e: v if all of e is there, and otherwise a request    *)
(* for no more than the rest of e.  It is proved of the integers, then of  *)
(* sequences and of fields, of every message, setup message, header,       *)
(* object and datagram.                                                    *)
(*                                                                         *)
(* The second half is about the streams.  Carries says that the bytes on   *)
(* their way and in the buffer are, from where the receiver is, the next   *)
(* ones of the encodings of the items sent; IInv says it of every stream,  *)
(* and with it how far the setup is.  With it, every step of a session is  *)
(* one of Delivery.tla, or nothing.                                        *)
(***************************************************************************)
EXTENDS Session, TLAPS, WellFoundedInduction, SequenceTheorems

-----------------------------------------------------------------------------
(* Results, and encodings one after the other.                             *)

\* What b has from a position on is e, or the beginning of e.
Fits(b, at, e) ==
    at <= Len(b) /\ \A i \in 1..Len(e) : at + i <= Len(b) => b[at + i] = e[i]

\* A decoder's result, where e is the encoding of v: the value if e is there, else
\* a wait for no more than the rest of e.
Agrees(r, b, at, e, v) ==
    Fits(b, at, e) =>
        IF at + Len(e) <= Len(b) THEN r = Ok(v, at + Len(e))
        ELSE \E k \in 1..(at + Len(e) - Len(b)) : r = More(k)

\* What the constructors of results say.
LEMMA Results ==
    /\ \A v, at : Ok(v, at).res = "ok" /\ Ok(v, at).value = v /\ Ok(v, at).at = at
    /\ \A k : More(k).res = "more" /\ More(k).need = k
    /\ \A e : Encoded(e).res = "ok" /\ Encoded(e).bytes = e
    /\ \A why : Failed(why).res = why
  BY DEF Ok, More, Encoded, Failed

\* Two encodings, one after the other.
LEMMA FitsConcat ==
  ASSUME NEW b \in Bytes, NEW at \in Nat, NEW e1 \in Bytes, NEW e2 \in Bytes,
         Fits(b, at, e1 \o e2)
  PROVE  Fits(b, at, e1) /\ (at + Len(e1) <= Len(b) => Fits(b, at + Len(e1), e2))
<1> DEFINE e == e1 \o e2
<1>1. /\ Len(e) = Len(e1) + Len(e2) /\ Len(e1) \in Nat /\ Len(e2) \in Nat /\ Len(b) \in Nat
      /\ \A i \in 1..Len(e1) : e[i] = e1[i]
      /\ \A i \in 1..Len(e2) : e[Len(e1) + i] = e2[i]
  BY DEF Bytes
<1>2. Fits(b, at, e1)
  BY <1>1 DEF Fits
<1>3. ASSUME at + Len(e1) <= Len(b), NEW i \in 1..Len(e2), at + Len(e1) + i <= Len(b)
      PROVE  b[at + Len(e1) + i] = e2[i]
  <2>1. Len(e1) + i \in 1..Len(e) /\ at + (Len(e1) + i) <= Len(b)
    BY <1>1, <1>3
  <2>2. b[at + (Len(e1) + i)] = e[Len(e1) + i]
    BY <2>1 DEF Fits
  <2> QED
    BY <1>1, <2>2
<1> QED
  BY <1>2, <1>3 DEF Fits

\* One decoder after another.
LEMMA Sequenced ==
  ASSUME NEW b \in Bytes, NEW at \in Nat, NEW e1 \in Bytes, NEW e2 \in Bytes,
         NEW v1, NEW v2, NEW r1, NEW r2, NEW r,
         Agrees(r1, b, at, e1, v1), Agrees(r2, b, at + Len(e1), e2, v2),
         r1 = Ok(v1, at + Len(e1)) => r = r2,
         r1.res # "ok" => r = r1
  PROVE  Agrees(r, b, at, e1 \o e2, v2)
<1> SUFFICES ASSUME Fits(b, at, e1 \o e2)
             PROVE  IF at + Len(e1 \o e2) <= Len(b) THEN r = Ok(v2, at + Len(e1 \o e2))
                    ELSE \E k \in 1..(at + Len(e1 \o e2) - Len(b)) : r = More(k)
  BY DEF Agrees
<1>1. /\ Len(e1 \o e2) = Len(e1) + Len(e2) /\ Len(e1) \in Nat /\ Len(e2) \in Nat
      /\ Len(b) \in Nat
  BY DEF Bytes
<1>2. Fits(b, at, e1) /\ (at + Len(e1) <= Len(b) => Fits(b, at + Len(e1), e2))
  BY FitsConcat
<1>3. CASE at + Len(e1) <= Len(b)
  <2>1. r = r2
    BY <1>2, <1>3 DEF Agrees
  <2>2. IF at + Len(e1) + Len(e2) <= Len(b) THEN r2 = Ok(v2, at + Len(e1) + Len(e2))
        ELSE \E k \in 1..(at + Len(e1) + Len(e2) - Len(b)) : r2 = More(k)
    BY <1>2, <1>3 DEF Agrees
  <2> QED
    BY <1>1, <2>1, <2>2
<1>4. CASE ~(at + Len(e1) <= Len(b))
  <2>1. PICK k \in 1..(at + Len(e1) - Len(b)) : r1 = More(k)
    BY <1>2, <1>4 DEF Agrees
  <2>2. r = More(k)
    BY <2>1, Results
  <2>3. k \in 1..(at + Len(e1 \o e2) - Len(b)) /\ ~(at + Len(e1 \o e2) <= Len(b))
    BY <1>1, <1>4
  <2> QED
    BY <2>2, <2>3
<1> QED
  BY <1>3, <1>4

\* What a decoder makes of a value that it has.
LEMMA Mapped ==
  ASSUME NEW b \in Bytes, NEW at \in Nat, NEW e \in Bytes, NEW v, NEW w, NEW x, NEW r,
         Agrees(x, b, at, e, v),
         x = Ok(v, at + Len(e)) => r = Ok(w, at + Len(e)),
         x.res # "ok" => r = x
  PROVE  Agrees(r, b, at, e, w)
<1> SUFFICES ASSUME Fits(b, at, e)
             PROVE  IF at + Len(e) <= Len(b) THEN r = Ok(w, at + Len(e))
                    ELSE \E k \in 1..(at + Len(e) - Len(b)) : r = More(k)
  BY DEF Agrees
<1>1. CASE at + Len(e) <= Len(b)
  BY <1>1 DEF Agrees
<1>2. CASE ~(at + Len(e) <= Len(b))
  <2>1. PICK k \in 1..(at + Len(e) - Len(b)) : x = More(k)
    BY <1>2 DEF Agrees
  <2> QED
    BY <1>2, <2>1, Results
<1> QED
  BY <1>1, <1>2

\* The bytes that are left.
LEMMA RemainingAgrees ==
  ASSUME NEW b \in Bytes, NEW at \in Nat, NEW e \in Bytes
  PROVE  Agrees(DecodeRemaining(b, at, Len(e)), b, at, e, e)
<1> SUFFICES ASSUME Fits(b, at, e)
             PROVE  IF at + Len(e) <= Len(b) THEN DecodeRemaining(b, at, Len(e)) = Ok(e, at + Len(e))
                    ELSE \E k \in 1..(at + Len(e) - Len(b)) : DecodeRemaining(b, at, Len(e)) = More(k)
  BY DEF Agrees
<1>1. Len(b) \in Nat /\ Len(e) \in Nat
  BY DEF Bytes
<1>2. CASE at + Len(e) <= Len(b)
  <2>1. SubSeq(b, at + 1, at + Len(e)) \in Bytes /\ Len(SubSeq(b, at + 1, at + Len(e))) = Len(e)
    BY <1>1, <1>2 DEF Bytes
  <2>2. ASSUME NEW i \in 1..Len(e) PROVE SubSeq(b, at + 1, at + Len(e))[i] = e[i]
    <3>1. SubSeq(b, at + 1, at + Len(e))[i] = b[at + 1 + i - 1]
      BY <1>1, <1>2 DEF Bytes
    <3>2. /\ i \in Nat /\ i <= Len(e) /\ at + 1 + i - 1 = at + i
      BY <1>1
    <3>3. at + i <= Len(b)
      BY <1>1, <1>2, <3>2
    <3>4. b[at + i] = e[i]
      BY <3>3 DEF Fits
    <3> QED
      BY <3>1, <3>2, <3>4
  <2>3. SubSeq(b, at + 1, at + Len(e)) = e
    BY <2>1, <2>2, SeqEqual DEF Bytes
  <2>4. ~(Remaining(b, at) < Len(e))
    BY <1>1, <1>2 DEF Remaining
  <2> QED
    BY <1>2, <2>3, <2>4, Zenon DEF DecodeRemaining
<1>3. CASE ~(at + Len(e) <= Len(b))
  <2>1. at <= Len(b)
    BY DEF Fits
  <2> DEFINE k == Len(e) - (Len(b) - at)
  <2>2. DecodeRemaining(b, at, Len(e)) = More(k)
    BY <1>1, <1>3 DEF DecodeRemaining, Remaining
  <2>3. k \in 1..(at + Len(e) - Len(b))
    BY <1>1, <1>3, <2>1
  <2> QED
    BY <1>3, <2>2, <2>3
<1> QED
  BY <1>2, <1>3

-----------------------------------------------------------------------------
(* Integers, in bytes.                                                     *)

IsEncoding(r) == r.res = "ok" => r.bytes \in Bytes

\* What was encoded in two parts.
LEMMA BothOk ==
  ASSUME NEW x, NEW y, Both(x, y).res = "ok"
  PROVE  x.res = "ok" /\ y.res = "ok" /\ Both(x, y).bytes = x.bytes \o y.bytes
  BY Results DEF Both

\* Numbers in words of two bytes.
IsU16(x) == x \in Nat /\ x < 65536

\* Bytes.
LEMMA IsU8 == \A x : x \in U8 <=> x \in Nat /\ x < 256
  BY DEF U8

\* A number is its high and its low word.
LEMMA Split ==
  ASSUME NEW x \in Nat
  PROVE  High(x) \in Nat /\ IsU16(Low(x)) /\ Join(High(x), Low(x)) = x
  BY DEF High, Low, Join, IsU16

\* A word with the tag of a varint in its two top bits.
LEMMA TaggedWord ==
  ASSUME NEW tag \in {1, 2, 3}, NEW x \in Nat, x < 16384
  PROVE  /\ IsU16(16384 * tag + x)
         /\ ((16384 * tag + x) \div 256) \in U8 /\ ((16384 * tag + x) % 256) \in U8
         /\ ((16384 * tag + x) \div 256) \div 64 = tag
         /\ 256 * (((16384 * tag + x) \div 256) % 64) + ((16384 * tag + x) % 256) = x
<1>1. CASE tag = 1
  BY <1>1, IsU8 DEF IsU16
<1>2. CASE tag = 2
  BY <1>2, IsU8 DEF IsU16
<1>3. CASE tag = 3
  BY <1>3, IsU8 DEF IsU16
<1> QED
  BY <1>1, <1>2, <1>3

\* A word is two bytes.
LEMMA PlainWord ==
  ASSUME NEW x, IsU16(x)
  PROVE  x \div 256 \in U8 /\ x % 256 \in U8 /\ 256 * (x \div 256) + (x % 256) = x
  BY IsU8 DEF IsU16

\* Sequences of bytes, taken apart.
LEMMA TwoBytes ==
  ASSUME NEW a1 \in U8, NEW a2 \in U8
  PROVE  /\ <<a1>> \o <<a2>> = <<a1, a2>>
<1> DEFINE t == <<a1, a2>>
           s1 == <<a1>> \o <<a2>>
<1>1. t \in Seq(U8) /\ Len(t) = 2
  OBVIOUS
<1>2. s1 \in Seq(U8) /\ Len(s1) = 2
  OBVIOUS
<1>3. s1[1] = t[1] /\ s1[2] = t[2]
  OBVIOUS
<1> HIDE DEF t, s1
<1>4. \A i \in 1..2 : i = 1 \/ i = 2
  OBVIOUS
<1>5. \A i \in 1..2 : s1[i] = t[i]
  BY <1>3, <1>4
<1>6. s1 = t
  BY <1>1, <1>2, <1>5, SeqEqual
<1> QED
  BY <1>6 DEF t, s1

\* Four bytes, in two parts.
LEMMA FourBytes ==
  ASSUME NEW a1 \in U8, NEW a2 \in U8, NEW a3 \in U8, NEW a4 \in U8
  PROVE  /\ <<a1, a2>> \o <<a3, a4>> = <<a1, a2, a3, a4>>
         /\ <<a1>> \o <<a2, a3, a4>> = <<a1, a2, a3, a4>>
<1> DEFINE t == <<a1, a2, a3, a4>>
           s1 == <<a1, a2>> \o <<a3, a4>>
           s2 == <<a1>> \o <<a2, a3, a4>>
<1>1. t \in Seq(U8) /\ Len(t) = 4
  OBVIOUS
<1>2. s1 \in Seq(U8) /\ Len(s1) = 4
  OBVIOUS
<1>3. s1[1] = t[1] /\ s1[2] = t[2] /\ s1[3] = t[3] /\ s1[4] = t[4]
  OBVIOUS
<1>4. s2 \in Seq(U8) /\ Len(s2) = 4
  OBVIOUS
<1>5. s2[1] = t[1] /\ s2[2] = t[2] /\ s2[3] = t[3] /\ s2[4] = t[4]
  OBVIOUS
<1> HIDE DEF t, s1, s2
<1>6. \A i \in 1..4 : i = 1 \/ i = 2 \/ i = 3 \/ i = 4
  OBVIOUS
<1>7. \A i \in 1..4 : s1[i] = t[i]
  BY <1>3, <1>6
<1>8. s1 = t
  BY <1>1, <1>2, <1>7, SeqEqual
<1>9. \A i \in 1..4 : s2[i] = t[i]
  BY <1>5, <1>6
<1>10. s2 = t
  BY <1>1, <1>4, <1>9, SeqEqual
<1> QED
  BY <1>8, <1>10 DEF t, s1, s2

\* The bytes of a concatenation.
LEMMA Elements ==
  ASSUME NEW q \in Bytes, NEW r \in Bytes
  PROVE  /\ q \o r \in Bytes /\ Len(q \o r) = Len(q) + Len(r)
         /\ \A i \in Nat : 1 <= i /\ i <= Len(q) => (q \o r)[i] = q[i]
         /\ \A i \in Nat : Len(q) < i /\ i <= Len(q) + Len(r) => (q \o r)[i] = r[i - Len(q)]
  BY DEF Bytes

\* A varint is a byte whose two top bits say how many follow.
Shaped(x) ==
  \E first \in U8, rest \in Bytes :
      /\ EncodeVarInt(x) = Encoded(<<first>> \o rest)
      /\ Rest(first \div 64) = Len(rest)
      /\ BigEndian(<<first % 64>> \o rest) = x

LEMMA VarIntShape ==
  ASSUME NEW x \in Nat, x <= VarIntMax
  PROVE  Shaped(x)
<1>0. ~(x > VarIntMax)
  BY CodingAssumption DEF CodingAssumption
<1>1. CASE x < 64
  <2>1. EncodeVarInt(x) = Encoded(<<x>>)
    BY <1>0, <1>1 DEF EncodeVarInt
  <2>2. x \in U8 /\ x % 64 = x /\ x \div 64 = 0 /\ <<>> \in Bytes
    BY <1>1, IsU8 DEF IsU16, Bytes
  <2>3. <<x>> = <<x>> \o <<>> /\ <<x % 64>> \o <<>> = <<x>>
    BY <2>2, ConcatEmptySeq DEF Bytes
  <2>4. Rest(0) = Len(<<>>) /\ BigEndian(<<x>>) = x
    BY <1>1 DEF Rest, BigEndian
  <2> QED
    BY <2>1, <2>2, <2>3, <2>4 DEF Shaped
<1>2. CASE 64 <= x /\ x < 16384
  <2> DEFINE w == 16384 * 1 + x
  <2>0. 16384 + x = w
    BY <1>2
  <2>1. EncodeVarInt(x) = Encoded(<<w \div 256, w % 256>>)
    BY <1>0, <1>2, <2>0 DEF EncodeVarInt, Word
  <2>2. PICK a1 \in U8, a2 \in U8 : /\ a1 = w \div 256 /\ a2 = w % 256
                                    /\ a1 \div 64 = 1 /\ 256 * (a1 % 64) + a2 = x
    BY <1>2, TaggedWord
  <2> HIDE DEF w
  <2> DEFINE rest == <<a2>>
             whole == <<a1 % 64, a2>>
  <2>3. a1 % 64 \in U8 /\ rest \in Bytes /\ Len(rest) = 1
    BY IsU8 DEF Bytes
  <2>4. <<a1, a2>> = <<a1>> \o rest /\ <<a1 % 64>> \o rest = whole
    BY <2>3, TwoBytes
  <2>4a. <<w \div 256, w % 256>> = <<a1>> \o rest
    BY <2>2, <2>4, Zenon
  <2>5. Rest(a1 \div 64) = Len(rest)
    BY <2>2, <2>3 DEF Rest
  <2>6. BigEndian(whole) = x
    BY <2>2 DEF BigEndian, WordAt
  <2>7. EncodeVarInt(x) = Encoded(<<a1>> \o rest)
    BY <2>1, <2>4a, Zenon
  <2> HIDE DEF rest, whole
  <2> QED
    BY <2>3, <2>4, <2>5, <2>6, <2>7 DEF Shaped
<1>3. CASE 16384 <= x /\ x < 1073741824
  <2> DEFINE x1 == High(x)
             x0 == Low(x)
             w == 16384 * 2 + x1
  <2>0. x1 \in Nat /\ IsU16(x0) /\ Join(x1, x0) = x
    BY Split
  <2>1. x1 < 16384 /\ 32768 + x1 = w
    BY <1>3 DEF High
  <2>2. EncodeVarInt(x) = Encoded(<<w \div 256, w % 256>> \o <<x0 \div 256, x0 % 256>>)
    BY <1>0, <1>3, <2>1 DEF EncodeVarInt, Word
  <2> HIDE DEF x0, x1
  <2>3. PICK a1 \in U8, a2 \in U8 : /\ a1 = w \div 256 /\ a2 = w % 256
                                    /\ a1 \div 64 = 2 /\ 256 * (a1 % 64) + a2 = x1
    BY <2>0, <2>1, TaggedWord
  <2> HIDE DEF w
  <2>4. PICK a3 \in U8, a4 \in U8 : a3 = x0 \div 256 /\ a4 = x0 % 256 /\ 256 * a3 + a4 = x0
    BY <2>0, PlainWord
  <2> DEFINE rest == <<a2, a3, a4>>
  <2>4a. PICK t \in U8 : t = a1 % 64
    BY IsU8
  <2> DEFINE whole == <<t>> \o rest
  <2>5. rest \in Bytes /\ Len(rest) = 3
    BY IsU8 DEF Bytes
  <2>6. <<a1, a2>> \o <<a3, a4>> = <<a1>> \o rest
    BY FourBytes
  <2>6b. <<w \div 256, w % 256>> \o <<x0 \div 256, x0 % 256>> = <<a1>> \o rest
    BY <2>3, <2>4, <2>6, Zenon
  <2>7. Rest(a1 \div 64) = Len(rest)
    BY <2>3, <2>5 DEF Rest
  <2> DEFINE head == <<t>>
  <2>8a. head \in Bytes /\ Len(head) = 1 /\ head[1] = t
    BY DEF Bytes
  <2>8b. rest[1] = a2 /\ rest[2] = a3 /\ rest[3] = a4
    OBVIOUS
  <2> HIDE DEF head, rest
  <2>8c. /\ Len(whole) = Len(head) + Len(rest)
         /\ \A i \in Nat : 1 <= i /\ i <= Len(head) => whole[i] = head[i]
         /\ \A i \in Nat : Len(head) < i /\ i <= Len(head) + Len(rest) => whole[i] = rest[i - Len(head)]
    BY <2>5, <2>8a, Elements, Zenon DEF head
  <2> HIDE DEF whole
  <2>8d. Len(whole) = 4 /\ whole[1] = t /\ whole[2] = a2 /\ whole[3] = a3 /\ whole[4] = a4
    BY <2>5, <2>8a, <2>8b, <2>8c
  <2>8. BigEndian(whole) = Join(256 * t + a2, 256 * a3 + a4)
    BY <2>8d DEF BigEndian, WordAt
  <2>9. BigEndian(whole) = x
    BY <2>0, <2>3, <2>4, <2>4a, <2>8
  <2>10. EncodeVarInt(x) = Encoded(<<a1>> \o rest)
    BY <2>2, <2>6b, Zenon
  <2> QED
    BY <2>4a, <2>5, <2>7, <2>9, <2>10 DEF whole, Shaped
<1>4. CASE 1073741824 <= x
  <2> DEFINE x1 == High(x)
             x2 == High(x1)
             x3 == High(x2)
             w == 16384 * 3 + x3
  <2>0. /\ x1 \in Nat /\ IsU16(Low(x)) /\ Join(x1, Low(x)) = x
        /\ x2 \in Nat /\ IsU16(Low(x1)) /\ Join(x2, Low(x1)) = x1
        /\ x3 \in Nat /\ IsU16(Low(x2)) /\ Join(x3, Low(x2)) = x2
    BY Split
  <2>1. x3 < 16384
    BY CodingAssumption DEF CodingAssumption, High
  <2> DEFINE w0 == Word(49152 + x3)
             w2 == Word(Low(x2))
             w1 == Word(Low(x1))
             w00 == Word(Low(x))
  <2>2. EncodeVarInt(x) = Encoded(w0 \o w2 \o w1 \o w00)
    BY <1>0, <1>4 DEF EncodeVarInt
  <2> HIDE DEF x1, x2, x3
  <2>2a. Word(49152 + x3) = <<w \div 256, w % 256>>
    BY <2>0, <2>1 DEF Word
  <2>3. PICK a1 \in U8, a2 \in U8 : /\ a1 = w \div 256 /\ a2 = w % 256
                                    /\ a1 \div 64 = 3 /\ 256 * (a1 % 64) + a2 = x3
    BY <2>0, <2>1, TaggedWord
  <2> HIDE DEF w
  <2>4. PICK a3 \in U8, a4 \in U8 : /\ a3 = Low(x2) \div 256 /\ a4 = Low(x2) % 256
                                    /\ 256 * a3 + a4 = Low(x2)
    BY <2>0, PlainWord
  <2>5. PICK a5 \in U8, a6 \in U8 : /\ a5 = Low(x1) \div 256 /\ a6 = Low(x1) % 256
                                    /\ 256 * a5 + a6 = Low(x1)
    BY <2>0, PlainWord
  <2>6. PICK a7 \in U8, a8 \in U8 : /\ a7 = Low(x) \div 256 /\ a8 = Low(x) % 256
                                    /\ 256 * a7 + a8 = Low(x)
    BY <2>0, PlainWord
  <2>7. w0 = <<a1, a2>>
    BY <2>2a, <2>3
  <2>8. w2 = <<a3, a4>> /\ w1 = <<a5, a6>> /\ w00 = <<a7, a8>>
    BY <2>4, <2>5, <2>6 DEF Word
  <2> HIDE DEF w0, w1, w2, w00
  <2>9. PICK t \in U8 : t = a1 % 64
    BY IsU8
  <2> DEFINE s4 == <<a2, a3, a4>>
             s56 == <<a5, a6>>
             s78 == <<a7, a8>>
             s6 == s4 \o s56
             rest == s6 \o s78
             whole == <<t>> \o rest
  <2>10. s4 \in Bytes /\ s56 \in Bytes /\ s78 \in Bytes /\ <<a1>> \in Bytes /\ <<t>> \in Bytes
    BY DEF Bytes
  <2>11. Len(s4) = 3 /\ s4[1] = a2 /\ s4[2] = a3 /\ s4[3] = a4
    OBVIOUS
  <2>12. Len(s56) = 2 /\ s56[1] = a5 /\ s56[2] = a6 /\ Len(s78) = 2 /\ s78[1] = a7 /\ s78[2] = a8
    OBVIOUS
  <2>13. <<a1, a2>> \o <<a3, a4>> = <<a1>> \o s4
    BY FourBytes
  <2>14. Len(<<t>>) = 1 /\ <<t>>[1] = t
    OBVIOUS
  <2> HIDE DEF s4, s56, s78
  <2>15. s6 \in Bytes /\ rest \in Bytes
    BY <2>10, Elements
  <2>16. (<<a1>> \o s4) \o s56 = <<a1>> \o s6
    BY <2>10, ConcatAssociative DEF Bytes
  <2>17. /\ Len(s6) = Len(s4) + Len(s56)
         /\ \A i \in Nat : 1 <= i /\ i <= Len(s4) => s6[i] = s4[i]
         /\ \A i \in Nat : Len(s4) < i /\ i <= Len(s4) + Len(s56) => s6[i] = s56[i - Len(s4)]
    BY <2>10, Elements, Zenon
  <2> HIDE DEF s6
  <2>18. Len(s6) = 5 /\ s6[1] = a2 /\ s6[2] = a3 /\ s6[3] = a4 /\ s6[4] = a5 /\ s6[5] = a6
    BY <2>11, <2>12, <2>17
  <2>19. /\ Len(rest) = Len(s6) + Len(s78)
         /\ \A i \in Nat : 1 <= i /\ i <= Len(s6) => rest[i] = s6[i]
         /\ \A i \in Nat : Len(s6) < i /\ i <= Len(s6) + Len(s78) => rest[i] = s78[i - Len(s6)]
    BY <2>10, <2>15, Elements, Zenon
  <2>20. (<<a1>> \o s6) \o s78 = <<a1>> \o rest
    BY <2>10, <2>15, ConcatAssociative DEF Bytes
  <2> HIDE DEF rest
  <2>21. /\ Len(rest) = 7 /\ rest[1] = a2 /\ rest[2] = a3 /\ rest[3] = a4 /\ rest[4] = a5
         /\ rest[5] = a6 /\ rest[6] = a7 /\ rest[7] = a8
    BY <2>12, <2>18, <2>19
  <2>22. <<a1, a2>> \o <<a3, a4>> \o <<a5, a6>> \o <<a7, a8>> = <<a1>> \o rest
    BY <2>13, <2>16, <2>20, Zenon DEF s56, s78
  <2> DEFINE head == <<t>>
  <2> HIDE DEF head
  <2>23. /\ Len(whole) = Len(head) + Len(rest)
         /\ \A i \in Nat : 1 <= i /\ i <= Len(head) => whole[i] = head[i]
         /\ \A i \in Nat : Len(head) < i /\ i <= Len(head) + Len(rest) => whole[i] = rest[i - Len(head)]
    BY <2>10, <2>15, Elements, Zenon DEF head
  <2> HIDE DEF whole
  <2>24. /\ Len(whole) = 8 /\ whole[1] = t /\ whole[2] = a2 /\ whole[3] = a3 /\ whole[4] = a4
         /\ whole[5] = a5 /\ whole[6] = a6 /\ whole[7] = a7 /\ whole[8] = a8
    BY <2>14, <2>21, <2>23 DEF head
  <2>25. BigEndian(whole) = Join(Join(Join(256 * t + a2, 256 * a3 + a4), 256 * a5 + a6),
                                 256 * a7 + a8)
    BY <2>24 DEF BigEndian, WordAt
  <2>26. BigEndian(whole) = x
    BY <2>0, <2>3, <2>4, <2>5, <2>6, <2>9, <2>25
  <2>27. EncodeVarInt(x) = Encoded(<<a1>> \o rest)
    BY <2>2, <2>7, <2>8, <2>22, Zenon
  <2>28. Rest(a1 \div 64) = Len(rest)
    BY <2>3, <2>21 DEF Rest
  <2> QED
    BY <2>9, <2>15, <2>26, <2>27, <2>28 DEF whole, Shaped
<1>5. x < 64 \/ (64 <= x /\ x < 16384) \/ (16384 <= x /\ x < 1073741824) \/ 1073741824 <= x
  OBVIOUS
<1> QED
  BY <1>1, <1>2, <1>3, <1>4, <1>5

\* Varints: decode(encode(x)) = x, and a prefix asks for no more than the rest.
LEMMA VarIntAgrees ==
  ASSUME NEW x \in Nat, EncodeVarInt(x).res = "ok"
  PROVE  /\ EncodeVarInt(x).bytes \in Bytes /\ Len(EncodeVarInt(x).bytes) >= 1
         /\ x <= VarIntMax
         /\ \A b \in Bytes, at \in Nat :
               Agrees(DecodeVarInt(b, at), b, at, EncodeVarInt(x).bytes, x)
<1>0. x <= VarIntMax
  BY CodingAssumption DEF EncodeVarInt, Failed, CodingAssumption
<1>1. PICK first \in U8, rest \in Bytes :
            /\ EncodeVarInt(x) = Encoded(<<first>> \o rest)
            /\ Rest(first \div 64) = Len(rest)
            /\ BigEndian(<<first % 64>> \o rest) = x
  BY <1>0, VarIntShape DEF Shaped
<1>2a. EncodeVarInt(x).bytes = <<first>> \o rest
  BY <1>1, Results, Zenon
<1>2b. <<first>> \in Bytes /\ Len(<<first>>) = 1
  BY DEF Bytes
<1>2c. <<first>> \o rest \in Bytes /\ Len(<<first>> \o rest) >= 1
  BY <1>2b DEF Bytes
<1>2. /\ EncodeVarInt(x).bytes = <<first>> \o rest /\ <<first>> \in Bytes /\ Len(<<first>>) = 1
      /\ <<first>> \o rest \in Bytes /\ Len(<<first>> \o rest) >= 1
  BY <1>2a, <1>2b, <1>2c
<1>3. ASSUME NEW b \in Bytes, NEW at \in Nat
      PROVE  Agrees(DecodeVarInt(b, at), b, at, <<first>> \o rest, x)
  <2> DEFINE r1 == DecodeRemaining(b, at, 1)
             rr == DecodeRemaining(b, at + 1, Len(rest))
             r2 == Map(rr, LAMBDA bytes : BigEndian(<<first % 64>> \o bytes))
  <2>1. Agrees(r1, b, at, <<first>>, <<first>>)
    BY <1>2, RemainingAgrees
  <2>2. Agrees(rr, b, at + 1, rest, rest)
    BY RemainingAgrees
  <2>3. Agrees(r2, b, at + 1, rest, x)
    <3>1. rr = Ok(rest, at + 1 + Len(rest)) => r2 = Ok(x, at + 1 + Len(rest))
      BY <1>1, Results DEF Map, Then
    <3>2. rr.res # "ok" => r2 = rr
      BY DEF Map, Then
    <3> HIDE DEF rr, r2
    <3> QED
      BY <2>2, <3>1, <3>2, Mapped
  <2>4. r1 = Ok(<<first>>, at + 1) => DecodeVarInt(b, at) = r2
    BY <1>1, Results DEF DecodeVarInt, Map, Then
  <2>5. r1.res # "ok" => DecodeVarInt(b, at) = r1
    BY DEF DecodeVarInt, Then
  <2> HIDE DEF r1, r2
  <2> QED
    BY <1>2, <2>1, <2>3, <2>4, <2>5, Sequenced
<1> QED
  BY <1>0, <1>2, <1>3

-----------------------------------------------------------------------------
(* Values: numbers, enumerations, bytes, strings, locations, pairs.        *)

\* What an encoder makes of v, some bytes, if it does, a decoder turns into v again.
Codes(r, v, Decoder(_, _)) ==
    r.res = "ok" =>
        /\ r.bytes \in Bytes /\ Len(r.bytes) >= 1
        /\ \A b \in Bytes, at \in Nat : Agrees(Decoder(b, at), b, at, r.bytes, v)

\* The parts of a result.
LEMMA OkParts ==
  ASSUME NEW r, NEW v, NEW at, r = Ok(v, at)
  PROVE  r.res = "ok" /\ r.value = v /\ r.at = at
  BY DEF Ok

\* Varints, as a codec.
LEMMA VarIntCodes ==
  ASSUME NEW x \in Nat
  PROVE  Codes(EncodeVarInt(x), x, DecodeVarInt)
  BY VarIntAgrees DEF Codes

\* One byte.
LEMMA U8Codes ==
  ASSUME NEW x \in U8
  PROVE  Codes(EncodeU8(x), x, DecodeU8)
<1>1. <<x>> \in Bytes /\ Len(<<x>>) = 1 /\ <<x>>[1] = x
  BY DEF Bytes
<1>2. EncodeU8(x).bytes = <<x>>
  BY Results, Zenon DEF EncodeU8
<1>3. ASSUME NEW b \in Bytes, NEW at \in Nat
      PROVE  Agrees(DecodeU8(b, at), b, at, <<x>>, x)
  <2> DEFINE e == <<x>>
             y == DecodeRemaining(b, at, 1)
  <2>1. Agrees(y, b, at, e, e)
    BY <1>1, RemainingAgrees
  <2>2. ASSUME y = Ok(e, at + 1) PROVE DecodeU8(b, at) = Ok(x, at + 1)
    <3>1. y.res = "ok" /\ y.value = e /\ y.at = at + 1
      BY <2>2, OkParts
    <3> QED
      BY <1>1, <3>1 DEF DecodeU8, Map, Then
  <2>3. y.res # "ok" => DecodeU8(b, at) = y
    BY Zenon DEF DecodeU8, Map, Then
  <2>4. e \in Bytes /\ Len(e) = 1
    BY <1>1
  <2> HIDE DEF y, e
  <2>5. Agrees(DecodeU8(b, at), b, at, e, x)
    BY <2>1, <2>2, <2>3, <2>4, Mapped
  <2> QED
    BY <2>5 DEF e
<1> QED
  BY <1>1, <1>2, <1>3 DEF Codes

\* Two bytes.
LEMMA U16Codes ==
  ASSUME NEW x, IsU16(x)
  PROVE  Codes(EncodeU16(x), x, DecodeU16)
<1> DEFINE e == Word(x)
<1>1. PICK a1 \in U8, a2 \in U8 : e = <<a1, a2>> /\ 256 * a1 + a2 = x
  BY PlainWord DEF Word
<1>2. e \in Bytes /\ Len(e) = 2 /\ e[1] = a1 /\ e[2] = a2
  BY <1>1 DEF Bytes
<1>3. WordAt(e, 1) = x
  BY <1>1, <1>2 DEF WordAt
<1>4. EncodeU16(x).bytes = e
  BY Results, Zenon DEF EncodeU16
<1> HIDE DEF e
<1>5. ASSUME NEW b \in Bytes, NEW at \in Nat
      PROVE  Agrees(DecodeU16(b, at), b, at, e, x)
  <2> DEFINE y == DecodeRemaining(b, at, 2)
  <2>1. Agrees(y, b, at, e, e)
    BY <1>2, RemainingAgrees
  <2>2. ASSUME y = Ok(e, at + 2) PROVE DecodeU16(b, at) = Ok(x, at + 2)
    <3>1. y.res = "ok" /\ y.value = e /\ y.at = at + 2
      BY <2>2, OkParts
    <3> QED
      BY <1>3, <3>1 DEF DecodeU16, Map, Then
  <2>3. y.res # "ok" => DecodeU16(b, at) = y
    BY Zenon DEF DecodeU16, Map, Then
  <2> HIDE DEF y
  <2> QED
    BY <1>2, <2>1, <2>2, <2>3, Mapped
<1>6. EncodeU16(x).bytes \in Bytes /\ Len(EncodeU16(x).bytes) >= 1
  BY <1>2, <1>4
<1> QED
  BY <1>4, <1>5, <1>6, Zenon DEF Codes

\* Booleans.
LEMMA BoolCodes ==
  ASSUME NEW x \in BOOLEAN
  PROVE  Codes(EncodeBool(x), x, DecodeBool)
<1> DEFINE n == IF x THEN 1 ELSE 0
<1>1. n \in U8 /\ n < 2 /\ ((n = 1) = x)
  BY IsU8
<1>2. EncodeBool(x) = EncodeU8(n)
  BY DEF EncodeBool, EncodeU8
<1> HIDE DEF n
<1>3. Codes(EncodeU8(n), n, DecodeU8)
  BY <1>1, U8Codes
<1>4. ASSUME NEW b \in Bytes, NEW at \in Nat, NEW e \in Bytes,
             Agrees(DecodeU8(b, at), b, at, e, n)
      PROVE  Agrees(DecodeBool(b, at), b, at, e, x)
  <2> DEFINE y == DecodeU8(b, at)
             next == at + Len(e)
  <2>1. y = Ok(n, next) => DecodeBool(b, at) = Ok(n = 1, next)
    BY <1>1, Results DEF DecodeBool, Then
  <2>2. y.res # "ok" => DecodeBool(b, at) = y
    BY Zenon DEF DecodeBool, Then
  <2>3. Ok(n = 1, next) = Ok(x, next)
    BY <1>1
  <2> HIDE DEF y
  <2> QED
    BY <1>4, <2>1, <2>2, <2>3, Mapped DEF y
<1> QED
  BY <1>2, <1>3, <1>4, Zenon DEF Codes

\* A value of those that are allowed.
LEMMA EnumAgrees ==
  ASSUME NEW b \in Bytes, NEW at \in Nat, NEW e \in Bytes, NEW v, NEW r, NEW values, NEW error,
         Agrees(r, b, at, e, v), v \in values
  PROVE  Agrees(Enum(r, values, error), b, at, e, v)
<1> DEFINE w == Enum(r, values, error)
<1>1. ASSUME r = Ok(v, at + Len(e)) PROVE w = Ok(v, at + Len(e))
  <2>1. r.res = "ok" /\ r.value = v /\ r.at = at + Len(e)
    BY <1>1, OkParts
  <2> QED
    BY <2>1 DEF Enum, Then
<1>2. r.res # "ok" => w = r
  BY Zenon DEF Enum, Then
<1> HIDE DEF w
<1>3. Agrees(w, b, at, e, v)
  BY <1>1, <1>2, Mapped
<1> QED
  BY <1>3 DEF w

\* Bytes with their length before them.
LEMMA BytesAgree ==
  ASSUME NEW x \in Bytes, NEW max \in Nat, NEW bound \in Nat, bound = max \/ Len(x) <= bound,
         EncodeBytes(x, max).res = "ok"
  PROVE  /\ EncodeBytes(x, max).bytes \in Bytes
         /\ Len(EncodeBytes(x, max).bytes) >= 1 + Len(x)
         /\ \A b \in Bytes, at \in Nat :
               Agrees(DecodeBytes(b, at, bound), b, at, EncodeBytes(x, max).bytes, x)
<1> DEFINE n == Len(x)
           size == EncodeVarInt(n)
           e1 == size.bytes
<1>0. n \in Nat
  BY DEF Bytes
<1>1. ~(n > max) /\ EncodeBytes(x, max) = Both(size, Encoded(x))
  BY Results DEF EncodeBytes
<1>2a. Encoded(x).res = "ok" /\ Encoded(x).bytes = x
  BY Results
<1>2b. Both(size, Encoded(x)).res = "ok"
  BY <1>1
<1>2. size.res = "ok" /\ EncodeBytes(x, max).bytes = e1 \o x
  BY <1>1, <1>2a, <1>2b, BothOk
<1>3. n <= bound
  BY <1>0, <1>1
<1>4. e1 \in Bytes /\ Len(e1) >= 1 /\ \A b \in Bytes, at \in Nat : Agrees(DecodeVarInt(b, at), b, at, e1, n)
  BY <1>0, <1>2, VarIntAgrees
<1>5. e1 \o x \in Bytes /\ Len(e1 \o x) = Len(e1) + Len(x)
  BY <1>4 DEF Bytes
<1> HIDE DEF size, e1
<1>6. ASSUME NEW b \in Bytes, NEW at \in Nat
      PROVE  Agrees(DecodeBytes(b, at, bound), b, at, e1 \o x, x)
  <2> DEFINE r1 == DecodeVarInt(b, at)
             next == at + Len(e1)
             r2 == DecodeRemaining(b, next, n)
             r == DecodeBytes(b, at, bound)
  <2>1. Agrees(r1, b, at, e1, n) /\ next \in Nat
    BY <1>4 DEF Bytes
  <2>2. Agrees(r2, b, next, x, x)
    BY <2>1, RemainingAgrees
  <2>3. ASSUME r1 = Ok(n, next) PROVE r = r2
    <3>1. r1.res = "ok" /\ r1.value = n /\ r1.at = next
      BY <2>3, OkParts
    <3>2. ~(n > bound)
      BY <1>0, <1>3
    <3> HIDE DEF n, next
    <3> QED
      BY <3>1, <3>2 DEF DecodeBytes, Then
  <2>4. r1.res # "ok" => r = r1
    BY Zenon DEF DecodeBytes, Then
  <2> HIDE DEF r1, r2, r, n
  <2> QED
    BY <1>4, <2>1, <2>2, <2>3, <2>4, Sequenced DEF r
<1> QED
  BY <1>0, <1>2, <1>4, <1>5, <1>6

\* Text is bytes below 128.
LEMMA AsciiBytes ==
  ASSUME NEW x \in Seq(Ascii)
  PROVE  x \in Bytes /\ \A i \in DOMAIN x : x[i] < 128
<1>1. \A a : a \in Ascii => a \in U8 /\ a < 128
  <2>1. \A a : a \in Ascii => a \in Nat /\ a < 128
    BY DEF Ascii
  <2> QED
    BY <2>1, IsU8
<1> QED
  BY <1>1 DEF Bytes

\* Text that is checked is what it was.
LEMMA Utf8Agrees ==
  ASSUME NEW b \in Bytes, NEW at \in Nat, NEW e \in Bytes, NEW x \in Seq(Ascii), NEW r,
         Agrees(r, b, at, e, x)
  PROVE  Agrees(Utf8(r), b, at, e, x)
<1> DEFINE w == Utf8(r)
<1>0. \A i \in DOMAIN x : x[i] < 128
  BY AsciiBytes
<1>1. ASSUME r = Ok(x, at + Len(e)) PROVE w = Ok(x, at + Len(e))
  <2>1. r.res = "ok" /\ r.value = x /\ r.at = at + Len(e)
    BY <1>1, OkParts
  <2> QED
    BY <1>0, <2>1 DEF Utf8, Then
<1>2. r.res # "ok" => w = r
  BY Zenon DEF Utf8, Then
<1> HIDE DEF w
<1>3. Agrees(w, b, at, e, x)
  BY <1>1, <1>2, Mapped
<1> QED
  BY <1>3 DEF w

\* Text with its length before it.
LEMMA StringsAgree ==
  ASSUME NEW x \in Seq(Ascii), NEW max \in Nat, EncodeBytes(x, max).res = "ok"
  PROVE  /\ EncodeBytes(x, max).bytes \in Bytes /\ Len(EncodeBytes(x, max).bytes) >= 1
         /\ \A b \in Bytes, at \in Nat :
               Agrees(Utf8(DecodeBytes(b, at, max)), b, at, EncodeBytes(x, max).bytes, x)
<1> DEFINE e == EncodeBytes(x, max).bytes
<1>1. x \in Bytes /\ Len(x) \in Nat
  BY AsciiBytes DEF Bytes
<1>2. /\ e \in Bytes /\ Len(e) >= 1 + Len(x)
      /\ \A b \in Bytes, at \in Nat : Agrees(DecodeBytes(b, at, max), b, at, e, x)
  BY <1>1, BytesAgree
<1>3. Len(e) >= 1
  BY <1>1, <1>2 DEF Bytes
<1> HIDE DEF e
<1>4. \A b \in Bytes, at \in Nat : Agrees(Utf8(DecodeBytes(b, at, max)), b, at, e, x)
  BY <1>2, Utf8Agrees
<1> QED
  BY <1>2, <1>3, <1>4 DEF e

\* The three kinds of text.
LEMMA StringCodes ==
  ASSUME NEW x \in Seq(Ascii)
  PROVE  /\ Codes(EncodeString(x), x, DecodeString)
         /\ Codes(EncodeReasonPhrase(x), x, DecodeReasonPhrase)
         /\ Codes(EncodeSessionUri(x), x, DecodeSessionUri)
<1>0. VarIntMax \in Nat /\ MaxReason \in Nat /\ MaxUri \in Nat
  BY CodingAssumption DEF CodingAssumption
<1>1. Codes(EncodeString(x), x, DecodeString)
  BY <1>0, StringsAgree DEF Codes, EncodeString, DecodeString
<1>2. Codes(EncodeReasonPhrase(x), x, DecodeReasonPhrase)
  BY <1>0, StringsAgree DEF Codes, EncodeReasonPhrase, DecodeReasonPhrase
<1>3. Codes(EncodeSessionUri(x), x, DecodeSessionUri)
  BY <1>0, StringsAgree DEF Codes, EncodeSessionUri, DecodeSessionUri
<1> QED
  BY <1>1, <1>2, <1>3

\* Bytes with their length before them, as a codec.
LEMMA BytesCodes ==
  ASSUME NEW x \in Bytes, NEW max \in Nat, NEW bound \in Nat, bound = max \/ Len(x) <= bound,
         EncodeBytes(x, max).res = "ok"
  PROVE  /\ EncodeBytes(x, max).bytes \in Bytes /\ Len(EncodeBytes(x, max).bytes) >= 1
         /\ \A b \in Bytes, at \in Nat :
               Agrees(DecodeBytes(b, at, bound), b, at, EncodeBytes(x, max).bytes, x)
<1> DEFINE e == EncodeBytes(x, max).bytes
<1>1. Len(x) \in Nat
  BY DEF Bytes
<1>2. /\ e \in Bytes /\ Len(e) >= 1 + Len(x)
      /\ \A b \in Bytes, at \in Nat : Agrees(DecodeBytes(b, at, bound), b, at, e, x)
  BY BytesAgree
<1>3. Len(e) >= 1
  BY <1>1, <1>2 DEF Bytes
<1> HIDE DEF e
<1> QED
  BY <1>2, <1>3 DEF e

\* Fields of a namespace.
LEMMA TupleFieldCodes ==
  ASSUME NEW x \in Bytes
  PROVE  Codes(EncodeTupleField(x), x, DecodeTupleField)
<1>1. MaxValueSize \in Nat
  BY CodingAssumption DEF CodingAssumption
<1> QED
  BY <1>1, BytesCodes DEF Codes, EncodeTupleField, DecodeTupleField

\* Locations.
LEMMA LocationCodes ==
  ASSUME NEW loc \in [group_id : Nat, object_id : Nat]
  PROVE  Codes(EncodeLocation(loc), loc, DecodeLocation)
<1> DEFINE group == loc.group_id
           object == loc.object_id
           c1 == EncodeVarInt(group)
           c2 == EncodeVarInt(object)
           e1 == c1.bytes
           e2 == c2.bytes
<1> SUFFICES ASSUME EncodeLocation(loc).res = "ok"
             PROVE  /\ EncodeLocation(loc).bytes \in Bytes /\ Len(EncodeLocation(loc).bytes) >= 1
                    /\ \A b \in Bytes, at \in Nat :
                          Agrees(DecodeLocation(b, at), b, at, EncodeLocation(loc).bytes, loc)
  BY Zenon DEF Codes
<1>1. group \in Nat /\ object \in Nat /\ loc = [group_id |-> group, object_id |-> object]
  OBVIOUS
<1>2. c1.res = "ok" /\ c2.res = "ok" /\ EncodeLocation(loc).bytes = e1 \o e2
  BY BothOk DEF EncodeLocation
<1>3. /\ e1 \in Bytes /\ Len(e1) >= 1 /\ e2 \in Bytes /\ Len(e2) >= 1
      /\ \A b \in Bytes, at \in Nat : Agrees(DecodeVarInt(b, at), b, at, e1, group)
      /\ \A b \in Bytes, at \in Nat : Agrees(DecodeVarInt(b, at), b, at, e2, object)
  BY <1>1, <1>2, VarIntAgrees
<1> HIDE DEF e1, e2, c1, c2, group, object
<1>4. e1 \o e2 \in Bytes /\ Len(e1 \o e2) >= 1
  BY <1>3 DEF Bytes
<1>5. ASSUME NEW b \in Bytes, NEW at \in Nat
      PROVE  Agrees(DecodeLocation(b, at), b, at, e1 \o e2, loc)
  <2> DEFINE r1 == DecodeVarInt(b, at)
             next == at + Len(e1)
             y == DecodeVarInt(b, next)
             r2 == Map(y, LAMBDA o : [group_id |-> group, object_id |-> o])
             r == DecodeLocation(b, at)
             last == next + Len(e2)
  <2>1. Agrees(r1, b, at, e1, group) /\ next \in Nat
    BY <1>3 DEF Bytes
  <2>2. Agrees(y, b, next, e2, object)
    BY <1>3, <2>1
  <2>3. ASSUME y = Ok(object, last) PROVE r2 = Ok(loc, last)
    <3>1. y.res = "ok" /\ y.value = object /\ y.at = last
      BY <2>3, OkParts
    <3> HIDE DEF y, last
    <3> QED
      BY <1>1, <3>1, Zenon DEF Map, Then
  <2>4. y.res # "ok" => r2 = y
    BY Zenon DEF Map, Then
  <2>5. ASSUME r1 = Ok(group, next) PROVE r = r2
    <3>1. r1.res = "ok" /\ r1.value = group /\ r1.at = next
      BY <2>5, OkParts
    <3> HIDE DEF next
    <3> QED
      BY <3>1, Zenon DEF DecodeLocation, Map, Then
  <2>6. r1.res # "ok" => r = r1
    BY Zenon DEF DecodeLocation, Then
  <2> HIDE DEF r1, r2, r, y
  <2>7. Agrees(r2, b, next, e2, loc)
    BY <1>3, <2>1, <2>2, <2>3, <2>4, Mapped
  <2> QED
    BY <1>3, <2>1, <2>5, <2>6, <2>7, Sequenced DEF r
<1> QED
  BY <1>2, <1>4, <1>5

\* A pair whose value a receiver takes.
LEMMA KeyValuePairCodes ==
  ASSUME NEW kvp, IsKeyValuePair(kvp),
         kvp.value.kind = "bytes" => Len(kvp.value.value) <= U16Max
  PROVE  Codes(EncodeKeyValuePair(kvp), kvp, DecodeKeyValuePair)
<1> DEFINE key == kvp.key
           kind == kvp.value.kind
           value == kvp.value.value
           c1 == EncodeVarInt(key)
           c2 == IF kind = "int" THEN EncodeVarInt(value) ELSE EncodeBytes(value, VarIntMax)
           e1 == c1.bytes
           e2 == c2.bytes
           Second(b, at) == IF key % 2 = 0 THEN DecodeVarInt(b, at) ELSE DecodeBytes(b, at, U16Max)
<1> SUFFICES ASSUME EncodeKeyValuePair(kvp).res = "ok"
             PROVE  /\ EncodeKeyValuePair(kvp).bytes \in Bytes
                    /\ Len(EncodeKeyValuePair(kvp).bytes) >= 1
                    /\ \A b \in Bytes, at \in Nat :
                          Agrees(DecodeKeyValuePair(b, at), b, at, EncodeKeyValuePair(kvp).bytes, kvp)
  BY Zenon DEF Codes
<1>0. VarIntMax \in Nat /\ U16Max \in Nat
  BY CodingAssumption DEF CodingAssumption
<1>1. /\ kvp = Pair(key, [kind |-> kind, value |-> value]) /\ key \in Nat
      /\ \/ kind = "int" /\ value \in Nat
         \/ kind = "bytes" /\ value \in Bytes /\ Len(value) <= U16Max
  BY Zenon DEF IsKeyValuePair
<1>2. (kind = "int" <=> key % 2 = 0) /\ EncodeKeyValuePair(kvp) = Both(c1, c2)
  BY Results DEF EncodeKeyValuePair
<1>3. c1.res = "ok" /\ c2.res = "ok" /\ EncodeKeyValuePair(kvp).bytes = e1 \o e2
  BY <1>2, BothOk
<1>4. /\ e1 \in Bytes /\ Len(e1) >= 1
      /\ \A b \in Bytes, at \in Nat : Agrees(DecodeVarInt(b, at), b, at, e1, key)
  BY <1>1, <1>3, VarIntAgrees
<1>5. /\ e2 \in Bytes /\ Len(e2) >= 1
      /\ \A b \in Bytes, at \in Nat : Agrees(Second(b, at), b, at, e2, value)
  <2>1. CASE kind = "int"
    BY <1>1, <1>2, <1>3, <2>1, VarIntAgrees
  <2>2. CASE kind = "bytes"
    BY <1>0, <1>1, <1>2, <1>3, <2>2, BytesCodes
  <2> QED
    BY <1>1, <2>1, <2>2
<1>6. kind = "int" \/ kind = "bytes"
  BY <1>1
<1> HIDE DEF e1, e2, c1, c2, key, kind, value
<1>7. e1 \o e2 \in Bytes /\ Len(e1 \o e2) >= 1
  BY <1>4, <1>5 DEF Bytes
<1>8. ASSUME NEW b \in Bytes, NEW at \in Nat
      PROVE  Agrees(DecodeKeyValuePair(b, at), b, at, e1 \o e2, kvp)
  <2> DEFINE r1 == DecodeVarInt(b, at)
             next == at + Len(e1)
             y == Second(b, next)
             r2 == Map(y, LAMBDA x : Pair(key, [kind |-> kind, value |-> x]))
             r == DecodeKeyValuePair(b, at)
             last == next + Len(e2)
  <2>1. Agrees(r1, b, at, e1, key) /\ next \in Nat
    BY <1>4 DEF Bytes
  <2>2. Agrees(y, b, next, e2, value)
    BY <1>5, <2>1
  <2>3. ASSUME y = Ok(value, last) PROVE r2 = Ok(kvp, last)
    <3>1. y.res = "ok" /\ y.value = value /\ y.at = last
      BY <2>3, OkParts
    <3> HIDE DEF y, last
    <3> QED
      BY <1>1, <3>1, Zenon DEF Map, Then
  <2>4. y.res # "ok" => r2 = y
    BY Zenon DEF Map, Then
  <2>5. ASSUME r1 = Ok(key, next) PROVE r = r2
    <3>1. r1.res = "ok" /\ r1.value = key /\ r1.at = next
      BY <2>5, OkParts
    <3> HIDE DEF next
    <3>2. CASE kind = "int"
      BY <1>2, <3>1, <3>2, Zenon DEF DecodeKeyValuePair, Map, Then, IntValue
    <3>3. CASE kind = "bytes"
      <4>1. key % 2 # 0
        BY <1>2, <3>3
      <4> QED
        BY <3>1, <3>3, <4>1, Zenon DEF DecodeKeyValuePair, Map, Then, BytesValue
    <3> QED
      BY <1>6, <3>2, <3>3
  <2>6. r1.res # "ok" => r = r1
    BY Zenon DEF DecodeKeyValuePair, Then
  <2> HIDE DEF r1, r2, r, y, Second
  <2>7. Agrees(r2, b, next, e2, kvp)
    BY <1>5, <2>1, <2>2, <2>3, <2>4, Mapped
  <2> QED
    BY <1>4, <1>5, <2>1, <2>5, <2>6, <2>7, Sequenced DEF r
<1> QED
  BY <1>3, <1>7, <1>8

-----------------------------------------------------------------------------
(* Sequences of values: as many as were counted, or up to the end of a buffer. *)

\* Induction up to a number, on a set.
LEMMA UpTo ==
  ASSUME NEW N \in Nat, NEW G, 0 \in G,
         \A n \in 0..N : n \in G /\ n # N => n + 1 \in G
  PROVE  \A n \in 0..N : n \in G
<1> SUFFICES ASSUME {n \in 0..N : n \notin G} # {} PROVE FALSE
  OBVIOUS
<1> DEFINE Bad == {n \in 0..N : n \notin G}
<1>1. Bad \subseteq Nat /\ Bad # {}
  OBVIOUS
<1>2. PICK k \in Bad : \A l \in Bad : ~(<<l, k>> \in OpToRel(<, Nat))
  <2>1. IsWellFoundedOn(OpToRel(<, Nat), Nat)
    BY NatLessThanWellFounded, Zenon
  <2> QED
    BY <1>1, <2>1, WFMin, Zenon
<1>3. k # 0 /\ k - 1 \in 0..N /\ k - 1 # N /\ k - 1 < k
  OBVIOUS
<1>4. k - 1 \notin Bad
  <2>1. ASSUME k - 1 \in Bad PROVE <<k - 1, k>> \in OpToRel(<, Nat)
    BY <1>1, <1>3, <2>1, Zenon DEF OpToRel
  <2> QED
    BY <1>2, <2>1
<1>5. (k - 1) + 1 \in G
  BY <1>3, <1>4
<1> QED
  BY <1>5

\* The function that All defines.
IsAll(all, parts) ==
    all = [n \in 0..Len(parts) |-> IF n = 0 THEN Encoded(<<>>) ELSE Both(all[n - 1], parts[n])]

\* All has the function that it is defined by.
LEMMA AllDefined ==
  ASSUME NEW parts, Len(parts) \in Nat
  PROVE  \E all : IsAll(all, parts) /\ All(parts) = all[Len(parts)]
<1> DEFINE N == Len(parts)
           F(f, k) == f = [n \in 0..k |-> IF n = 0 THEN Encoded(<<>>) ELSE Both(f[n - 1], parts[n])]
           G == {k \in 0..N : \E f : F(f, k)}
           a == CHOOSE f : f = [n \in 0..N |-> IF n = 0 THEN Encoded(<<>>)
                                               ELSE Both(f[n - 1], parts[n])]
<1>0. N \in Nat /\ 0 \in 0..N /\ N \in 0..N
  OBVIOUS
<1>1. 0 \in G
  <2> DEFINE f == [n \in 0..0 |-> Encoded(<<>>)]
  <2>1. F(f, 0)
    OBVIOUS
  <2> HIDE DEF f, F, N
  <2> QED
    BY <1>0, <2>1
<1>2. ASSUME NEW k \in 0..N, k \in G, k # N PROVE k + 1 \in G
  <2>1. PICK f : F(f, k)
    BY <1>2
  <2> DEFINE g == [n \in 0..(k + 1) |-> IF n = 0 THEN Encoded(<<>>) ELSE Both(f[n - 1], parts[n])]
  <2>2. ASSUME NEW n \in 0..k PROVE g[n] = f[n]
    BY <2>1
  <2>3. \A n \in 0..(k + 1) : n # 0 => n - 1 \in 0..k
    OBVIOUS
  <2>4. F(g, k + 1)
    BY <2>2, <2>3
  <2>5. k + 1 \in 0..N
    BY <1>2
  <2> QED
    BY <2>4, <2>5
<1>3. N \in G
  <2> HIDE DEF G, N
  <2> QED
    BY <1>0, <1>1, <1>2, UpTo
<1>4. F(a, N)
  BY <1>3
<1>5. All(parts) = a[N]
  BY DEF All
<1> HIDE DEF a
<1> QED
  BY <1>4, <1>5 DEF IsAll

\* Counting down from N.
LEMMA Back ==
  ASSUME NEW N \in Nat, NEW n \in 0..N, n # N
  PROVE  /\ N - n - 1 \in 0..N /\ N - n - 1 # N /\ N - n - 1 + 1 = N - n
         /\ N - (n + 1) = N - n - 1 /\ n + 1 \in 0..N /\ N - n \in 0..N
  OBVIOUS

\* Every part of an encoding that succeeds succeeds.
LEMMA Pieces ==
  ASSUME NEW parts, Len(parts) \in Nat, NEW all, IsAll(all, parts), all[Len(parts)].res = "ok",
         \A i \in 1..Len(parts) : IsEncoding(parts[i])
  PROVE  /\ all[0].bytes = <<>>
         /\ \A n \in 0..Len(parts) : all[n].res = "ok" /\ all[n].bytes \in Bytes
         /\ \A n \in 0..Len(parts) : n # Len(parts) =>
               /\ parts[n + 1].res = "ok" /\ parts[n + 1].bytes \in Bytes
               /\ all[n + 1].bytes = all[n].bytes \o parts[n + 1].bytes
<1> DEFINE N == Len(parts)
<1>0. /\ all[0] = Encoded(<<>>)
      /\ \A n \in 0..N : n # N => all[n + 1] = Both(all[n], parts[n + 1])
  <2>1. \A n \in 0..N : all[n] = IF n = 0 THEN Encoded(<<>>) ELSE Both(all[n - 1], parts[n])
    BY Zenon DEF IsAll
  <2>2. ASSUME NEW n \in 0..N, n # N PROVE n + 1 \in 0..N /\ n + 1 # 0 /\ (n + 1) - 1 = n
    BY <2>2
  <2>3. 0 \in 0..N
    OBVIOUS
  <2>4. ASSUME NEW n \in 0..N, n # N PROVE all[n + 1] = Both(all[n], parts[n + 1])
    BY <2>1, <2>2, <2>4
  <2> HIDE DEF N
  <2> QED
    BY <2>1, <2>3, <2>4
<1>1. \A n \in 0..N : all[n].res = "ok"
  <2> DEFINE G == {n \in 0..N : all[N - n].res = "ok"}
  <2>0. N \in Nat /\ all[N].res = "ok"
    OBVIOUS
  <2> HIDE DEF N
  <2>1. 0 \in G
    <3>1. 0 \in 0..N /\ N - 0 = N
      BY <2>0
    <3> QED
      BY <2>0, <3>1, Zenon
  <2>2. ASSUME NEW n \in 0..N, n \in G, n # N PROVE n + 1 \in G
    <3>1. N - n - 1 \in 0..N /\ N - n - 1 # N /\ N - n - 1 + 1 = N - n /\ N - (n + 1) = N - n - 1
          /\ n + 1 \in 0..N
      BY <2>0, <2>2, Back
    <3>2. all[N - n] = Both(all[N - n - 1], parts[N - n])
      BY <1>0, <3>1, Zenon
    <3>3. Both(all[N - n - 1], parts[N - n]).res = "ok"
      BY <2>2, <3>2
    <3>4. all[N - n - 1].res = "ok"
      BY <3>3, BothOk
    <3> QED
      BY <3>1, <3>4, Zenon
  <2>3. \A n \in 0..N : n \in G
    <3> HIDE DEF G
    <3> QED
      BY <2>0, <2>1, <2>2, UpTo
  <2>4. ASSUME NEW n \in 0..N PROVE all[n].res = "ok"
    <3>1. N - n \in 0..N /\ N - (N - n) = n
      BY <2>0
    <3> QED
      BY <2>3, <3>1
  <2> QED
    BY <2>4
<1>2. ASSUME NEW n \in 0..N, n # N
      PROVE  /\ parts[n + 1].res = "ok" /\ parts[n + 1].bytes \in Bytes
             /\ all[n + 1].bytes = all[n].bytes \o parts[n + 1].bytes
  <2>1. n + 1 \in 1..N /\ n + 1 \in 0..N
    BY <1>2
  <2>2. Both(all[n], parts[n + 1]).res = "ok" /\ all[n + 1] = Both(all[n], parts[n + 1])
    BY <1>0, <1>1, <1>2, <2>1
  <2> QED
    BY <2>1, <2>2, BothOk DEF IsEncoding
<1>3. all[0].bytes = <<>>
  BY <1>0, Results
<1>4. \A n \in 0..N : all[n].bytes \in Bytes
  <2> DEFINE G == {n \in 0..N : all[n].bytes \in Bytes}
  <2>1. 0 \in G
    <3>1. 0 \in 0..N /\ <<>> \in Bytes
      BY DEF Bytes
    <3> HIDE DEF N
    <3> QED
      BY <1>3, <3>1
  <2>2. ASSUME NEW n \in 0..N, n \in G, n # N PROVE n + 1 \in G
    <3>1. n + 1 \in 0..N
      BY <2>2
    <3>2. all[n].bytes \o parts[n + 1].bytes \in Bytes
      BY <1>2, <2>2, Elements
    <3> QED
      BY <1>2, <2>2, <3>1, <3>2
  <2> HIDE DEF G
  <2>3. \A n \in 0..N : n \in G
    BY <2>1, <2>2, UpTo
  <2> QED
    BY <2>3 DEF G
<1> QED
  BY <1>1, <1>2, <1>3, <1>4

\* One step of DecodeEach, and the function that it defines.
EachStep(kind, b, end, r) ==
    Then(r, LAMBDA values, next :
        IF next = end THEN Ok(values, next)
        ELSE Map(DecodeElement(kind, b, next), LAMBDA v : Append(values, v)))
IsEach(decoded, kind, b, at, most, end) ==
    decoded = [n \in 0..most |->
                IF n = 0 THEN Ok(<<>>, at) ELSE EachStep(kind, b, end, decoded[n - 1])]

\* DecodeEach has the function that it is defined by.
LEMMA EachDefined ==
  ASSUME NEW kind, NEW b, NEW at, NEW most \in Nat, NEW end
  PROVE  \E decoded : /\ IsEach(decoded, kind, b, at, most, end)
                      /\ DecodeEach(kind, b, at, most, end) = decoded[most]
<1> DEFINE F(f, k) == f = [n \in 0..k |->
                             IF n = 0 THEN Ok(<<>>, at) ELSE EachStep(kind, b, end, f[n - 1])]
           G == {k \in 0..most : \E f : F(f, k)}
           a == CHOOSE f : f = [n \in 0..most |->
                             IF n = 0 THEN Ok(<<>>, at) ELSE EachStep(kind, b, end, f[n - 1])]
<1>0. 0 \in 0..most /\ most \in 0..most
  OBVIOUS
<1>1. 0 \in G
  <2> DEFINE f == [n \in 0..0 |-> Ok(<<>>, at)]
  <2>1. F(f, 0)
    OBVIOUS
  <2> HIDE DEF f, F
  <2> QED
    BY <1>0, <2>1
<1>2. ASSUME NEW k \in 0..most, k \in G, k # most PROVE k + 1 \in G
  <2>1. PICK f : F(f, k)
    BY <1>2
  <2> DEFINE g == [n \in 0..(k + 1) |->
                     IF n = 0 THEN Ok(<<>>, at) ELSE EachStep(kind, b, end, f[n - 1])]
  <2>2. ASSUME NEW n \in 0..k PROVE g[n] = f[n]
    BY <2>1
  <2>3. \A n \in 0..(k + 1) : n # 0 => n - 1 \in 0..k
    OBVIOUS
  <2>4. F(g, k + 1)
    BY <2>2, <2>3
  <2>5. k + 1 \in 0..most
    BY <1>2
  <2> QED
    BY <2>4, <2>5
<1>3. most \in G
  <2> HIDE DEF G
  <2> QED
    BY <1>0, <1>1, <1>2, UpTo
<1>4. F(a, most)
  BY <1>3
<1>5. DecodeEach(kind, b, at, most, end) = a[most]
  BY DEF DecodeEach, EachStep
<1> HIDE DEF a
<1> QED
  BY <1>4, <1>5 DEF IsEach

\* Nothing is decoded of nothing.
LEMMA NothingAgrees ==
  ASSUME NEW b \in Bytes, NEW at \in Nat, NEW v
  PROVE  Agrees(Ok(v, at), b, at, <<>>, v)
  BY DEF Agrees, Fits, Bytes

\* The first elements of a sequence.
LEMMA Longer ==
  ASSUME NEW values, IsSequence(values), NEW n \in Nat, n < Len(values)
  PROVE  /\ SubSeq(values, 1, 0) = <<>>
         /\ SubSeq(values, 1, n + 1) = Append(SubSeq(values, 1, n), values[n + 1])
         /\ SubSeq(values, 1, Len(values)) = values
<1> DEFINE S == {values[i] : i \in 1..Len(values)}
<1>1. Len(values) \in Nat /\ values = [i \in 1..Len(values) |-> values[i]]
  BY DEF IsSequence
<1>2. values \in Seq(S)
  <2>1. values \in [1..Len(values) -> S]
    BY <1>1
  <2>2. [1..Len(values) -> S] \subseteq Seq(S)
    BY <1>1, SeqDef
  <2> HIDE DEF S
  <2> QED
    BY <2>1, <2>2
<1> HIDE DEF S
<1>3. n + 1 \in 1..Len(values) /\ (n + 1) - 1 = n
  BY <1>1
<1>4. SubSeq(values, 1, n + 1) = SubSeq(values, 1, n) \o <<values[n + 1]>>
  <2>1. 1 \in 1..Len(values) /\ n + 1 \in 1..Len(values)
    BY <1>1
  <2>2. SubSeq(values, 1, n + 1) = SubSeq(values, 1, (n + 1) - 1) \o <<values[n + 1]>>
    BY <1>2, <2>1, SubSeqRecursiveSecond
  <2> QED
    BY <1>3, <2>2
<1>5. SubSeq(values, 1, n) \in Seq(S) /\ values[n + 1] \in S
  BY <1>1, <1>2, <1>3
<1>6. Append(SubSeq(values, 1, n), values[n + 1]) = SubSeq(values, 1, n) \o <<values[n + 1]>>
  BY <1>5, AppendIsConcat
<1>7. SubSeq(values, 1, 0) = <<>>
  BY <1>2
<1>8. SubSeq(values, 1, Len(values)) = values
  BY <1>2, SubSeqFull
<1> QED
  BY <1>4, <1>6, <1>7, <1>8

\* One more element.
LEMMA OneMore ==
  ASSUME NEW kind, NEW b \in Bytes, NEW at \in Nat, NEW end,
         NEW e1 \in Bytes, NEW e2 \in Bytes, NEW some, NEW v, NEW r1,
         Agrees(r1, b, at, e1, some), at + Len(e1) # end,
         Agrees(DecodeElement(kind, b, at + Len(e1)), b, at + Len(e1), e2, v)
  PROVE  Agrees(EachStep(kind, b, end, r1), b, at, e1 \o e2, Append(some, v))
<1> DEFINE next == at + Len(e1)
           y == DecodeElement(kind, b, next)
           r2 == Map(y, LAMBDA x : Append(some, x))
           r == EachStep(kind, b, end, r1)
           last == next + Len(e2)
<1>1. next \in Nat
  BY DEF Bytes
<1>2. ASSUME y = Ok(v, last) PROVE r2 = Ok(Append(some, v), last)
  <2>1. y.res = "ok" /\ y.value = v /\ y.at = last
    BY <1>2, OkParts
  <2> HIDE DEF y, last
  <2> QED
    BY <2>1, Zenon DEF Map, Then
<1>3. y.res # "ok" => r2 = y
  BY Zenon DEF Map, Then
<1>4. ASSUME r1 = Ok(some, next) PROVE r = r2
  <2>1. r1.res = "ok" /\ r1.value = some /\ r1.at = next
    BY <1>4, OkParts
  <2> HIDE DEF next
  <2>2. next # end
    BY DEF next
  <2> QED
    BY <2>1, <2>2, Zenon DEF EachStep, Map, Then
<1>5. r1.res # "ok" => r = r1
  BY Zenon DEF EachStep, Then
<1> HIDE DEF r2, r, y
<1>6. Agrees(r2, b, next, e2, Append(some, v))
  BY <1>1, <1>2, <1>3, Mapped DEF y
<1> QED
  BY <1>1, <1>4, <1>5, <1>6, Sequenced DEF r

CodesElement(kind, r, v) ==
    r.res = "ok" =>
        /\ r.bytes \in Bytes /\ Len(r.bytes) >= 1
        /\ \A b \in Bytes, at \in Nat : Agrees(DecodeElement(kind, b, at), b, at, r.bytes, v)

\* The elements one by one, by induction.
LEMMA EachAgrees ==
  ASSUME NEW kind, NEW b \in Bytes, NEW at \in Nat, NEW most \in Nat, NEW end,
         NEW values, IsSequence(values), Len(values) <= most,
         NEW parts, Len(parts) = Len(values), NEW all, IsAll(all, parts),
         all[Len(parts)].res = "ok",
         \A i \in 1..Len(values) : CodesElement(kind, parts[i], values[i]),
         \A n \in 0..Len(values) : n # Len(values) => at + Len(all[n].bytes) # end,
         NEW decoded, IsEach(decoded, kind, b, at, most, end)
  PROVE  \A n \in 0..Len(values) :
            Agrees(decoded[n], b, at, all[n].bytes, SubSeq(values, 1, n))
<1> DEFINE N == Len(values)
           G == {n \in 0..N : Agrees(decoded[n], b, at, all[n].bytes, SubSeq(values, 1, n))}
<1>0. N \in Nat /\ 0 \in 0..N /\ \A n \in 0..N : n # N => n + 1 \in 1..N /\ n + 1 \in 0..N /\ n < N
  BY DEF IsSequence
<1>1. \A i \in 1..Len(parts) : IsEncoding(parts[i])
  BY DEF IsEncoding, CodesElement
<1>2. /\ all[0].bytes = <<>>
      /\ \A n \in 0..N : all[n].res = "ok" /\ all[n].bytes \in Bytes
      /\ \A n \in 0..N : n # N =>
               /\ parts[n + 1].res = "ok" /\ parts[n + 1].bytes \in Bytes
               /\ all[n + 1].bytes = all[n].bytes \o parts[n + 1].bytes
  <2>1. Len(parts) \in Nat
    BY <1>0
  <2> QED
    BY <1>1, <2>1, Pieces
<1>3. /\ decoded[0] = Ok(<<>>, at)
      /\ \A n \in 0..most : n # most => decoded[n + 1] = EachStep(kind, b, end, decoded[n])
  <2>1. \A n \in 0..most :
           decoded[n] = IF n = 0 THEN Ok(<<>>, at) ELSE EachStep(kind, b, end, decoded[n - 1])
    BY Zenon DEF IsEach
  <2>2. ASSUME NEW n \in 0..most, n # most PROVE n + 1 \in 0..most /\ n + 1 # 0 /\ (n + 1) - 1 = n
    BY <2>2
  <2>3. 0 \in 0..most
    OBVIOUS
  <2>4. ASSUME NEW n \in 0..most, n # most
        PROVE  decoded[n + 1] = EachStep(kind, b, end, decoded[n])
    BY <2>1, <2>2, <2>4
  <2> QED
    BY <2>1, <2>3, <2>4
<1>4. 0 \in G
  <2>1. SubSeq(values, 1, 0) = <<>>
    BY <1>0
  <2>2. Agrees(decoded[0], b, at, <<>>, <<>>)
    BY <1>3, NothingAgrees
  <2> QED
    BY <1>0, <1>2, <2>1, <2>2
<1>5. ASSUME NEW n \in 0..N, n \in G, n # N PROVE n + 1 \in G
  <2> DEFINE some == SubSeq(values, 1, n)
             e1 == all[n].bytes
             e2 == parts[n + 1].bytes
             next == at + Len(e1)
  <2>1. Agrees(decoded[n], b, at, e1, some)
    BY <1>5
  <2>2a. /\ e1 \in Bytes /\ e2 \in Bytes /\ next # end
         /\ all[n + 1].bytes = e1 \o e2 /\ parts[n + 1].res = "ok"
    BY <1>2, <1>5
  <2>2b. \A x \in Bytes : at + Len(x) \in Nat
    BY DEF Bytes
  <2>2. /\ e1 \in Bytes /\ e2 \in Bytes /\ next \in Nat /\ next # end
        /\ all[n + 1].bytes = e1 \o e2 /\ parts[n + 1].res = "ok"
    BY <2>2a, <2>2b
  <2>3. Agrees(DecodeElement(kind, b, next), b, next, e2, values[n + 1])
    BY <1>0, <1>5, <2>2 DEF CodesElement
  <2>4. decoded[n + 1] = EachStep(kind, b, end, decoded[n])
    <3>1. n \in 0..most /\ n # most
      BY <1>0, <1>5
    <3> QED
      BY <1>3, <3>1
  <2>5. SubSeq(values, 1, n + 1) = Append(some, values[n + 1])
    BY <1>0, <1>5, Longer
  <2> HIDE DEF some, e1, e2
  <2>6. Agrees(EachStep(kind, b, end, decoded[n]), b, at, e1 \o e2, Append(some, values[n + 1]))
    BY <2>1, <2>2, <2>3, OneMore
  <2> QED
    BY <1>0, <1>5, <2>2, <2>4, <2>5, <2>6
<1> HIDE DEF G, N
<1>6. \A n \in 0..N : n \in G
  BY <1>0, <1>4, <1>5, UpTo
<1> QED
  BY <1>6 DEF G, N

\* What every part adds.
LEMMA Growth ==
  ASSUME NEW parts, Len(parts) \in Nat, NEW all, IsAll(all, parts), all[Len(parts)].res = "ok",
         \A i \in 1..Len(parts) :
            parts[i].res = "ok" => parts[i].bytes \in Bytes /\ Len(parts[i].bytes) >= 1
  PROVE  \A n \in 0..Len(parts) : /\ Len(all[n].bytes) >= n
                                  /\ Len(all[n].bytes) + (Len(parts) - n) <= Len(all[Len(parts)].bytes)
<1> DEFINE N == Len(parts)
           L(n) == Len(all[n].bytes)
<1>0. 0 \in 0..N /\ N \in 0..N /\ \A n \in 0..N : n # N => n + 1 \in 1..N /\ n + 1 \in 0..N
  OBVIOUS
<1>1. \A i \in 1..N : IsEncoding(parts[i])
  BY DEF IsEncoding
<1>2. /\ all[0].bytes = <<>>
      /\ \A n \in 0..N : all[n].res = "ok" /\ all[n].bytes \in Bytes
      /\ \A n \in 0..N : n # N =>
               /\ parts[n + 1].res = "ok" /\ parts[n + 1].bytes \in Bytes
               /\ all[n + 1].bytes = all[n].bytes \o parts[n + 1].bytes
  BY <1>1, Pieces
<1>3. /\ L(0) = 0
      /\ \A n \in 0..N : L(n) \in Nat
      /\ \A n \in 0..N : n # N => L(n + 1) >= L(n) + 1
  <2>1. \A x \in Bytes, y \in Bytes : Len(x) \in Nat /\ Len(y) \in Nat /\ Len(x \o y) = Len(x) + Len(y)
    BY DEF Bytes
  <2>2. ASSUME NEW n \in 0..N, n # N PROVE L(n + 1) >= L(n) + 1
    <3>1. n + 1 \in 1..N
      BY <1>0, <2>2
    <3>2. Len(parts[n + 1].bytes) >= 1 /\ parts[n + 1].bytes \in Bytes /\ all[n].bytes \in Bytes
      BY <1>2, <2>2, <3>1
    <3>3. L(n + 1) = L(n) + Len(parts[n + 1].bytes)
      BY <1>2, <2>1, <2>2, <3>2
    <3> QED
      BY <2>1, <3>2, <3>3
  <2>3. L(0) = 0
    BY <1>2
  <2>4. \A n \in 0..N : L(n) \in Nat
    BY <1>2, <2>1
  <2> QED
    BY <2>2, <2>3, <2>4
<1>4. \A n \in 0..N : L(n) >= n
  <2> DEFINE G == {n \in 0..N : L(n) >= n}
  <2>1. 0 \in G
    BY <1>0, <1>3
  <2>2. ASSUME NEW n \in 0..N, n \in G, n # N PROVE n + 1 \in G
    <3>1. L(n + 1) >= L(n) + 1 /\ L(n) >= n /\ L(n) \in Nat /\ n + 1 \in 0..N /\ L(n + 1) \in Nat
      BY <1>0, <1>3, <2>2
    <3> QED
      BY <3>1
  <2> HIDE DEF G
  <2>3. \A n \in 0..N : n \in G
    BY <2>1, <2>2, UpTo
  <2> QED
    BY <2>3 DEF G
<1>5. \A n \in 0..N : L(n) + (N - n) <= L(N)
  <2> DEFINE G == {n \in 0..N : L(N - n) + n <= L(N)}
  <2>1. 0 \in G
    BY <1>0, <1>3
  <2>2. ASSUME NEW n \in 0..N, n \in G, n # N PROVE n + 1 \in G
    <3>0. N \in Nat
      OBVIOUS
    <3> HIDE DEF N
    <3>1. N - n - 1 \in 0..N /\ N - n - 1 # N /\ N - n - 1 + 1 = N - n /\ N - (n + 1) = N - n - 1
          /\ n + 1 \in 0..N /\ N - n \in 0..N
      BY <2>2, <3>0, Back
    <3> HIDE DEF L
    <3>2. /\ L(N - n) >= L(N - n - 1) + 1 /\ L(N - n) + n <= L(N)
          /\ L(N - n - 1) \in Nat /\ L(N - n) \in Nat /\ L(N) \in Nat
      <4>1. L(N - n - 1 + 1) >= L(N - n - 1) + 1
        BY <1>3, <3>1
      <4>2. L(N - n) + n <= L(N)
        BY <2>2
      <4> QED
        BY <1>0, <1>3, <3>1, <4>1, <4>2
    <3>3. PICK j : j = N - n - 1 /\ L(N - (n + 1)) = L(j)
      BY <3>1
    <3>4. L(j) + (n + 1) <= L(N)
      BY <3>2, <3>3
    <3> QED
      BY <3>1, <3>3, <3>4
  <2>3. \A n \in 0..N : n \in G
    <3> HIDE DEF G
    <3> QED
      BY <2>1, <2>2, UpTo
  <2>4. ASSUME NEW n \in 0..N PROVE L(n) + (N - n) <= L(N)
    <3>1. N - n \in 0..N /\ N - (N - n) = n
      OBVIOUS
    <3> HIDE DEF L
    <3> QED
      BY <2>3, <3>1
  <2> QED
    BY <2>4
<1> HIDE DEF N
<1> QED
  BY <1>4, <1>5 DEF N

\* Elements of which the number is known.
LEMMA EachCounted ==
  ASSUME NEW kind, NEW values, IsSequence(values),
         NEW parts, Len(parts) = Len(values), All(parts).res = "ok",
         \A i \in 1..Len(values) : CodesElement(kind, parts[i], values[i])
  PROVE  /\ All(parts).bytes \in Bytes
         /\ \A b \in Bytes, at \in Nat :
               Agrees(DecodeEach(kind, b, at, Len(values), Nowhere), b, at, All(parts).bytes, values)
<1> DEFINE N == Len(values)
<1>0. N \in Nat /\ Len(parts) = N /\ 0 \in 0..N /\ N \in 0..N /\ N <= N
  BY DEF IsSequence
<1>1. PICK all : IsAll(all, parts) /\ All(parts) = all[N]
  BY <1>0, AllDefined
<1>2. \A i \in 1..Len(parts) : IsEncoding(parts[i])
  BY DEF IsEncoding, CodesElement
<1>2a. all[Len(parts)].res = "ok" /\ Len(parts) \in Nat
  BY <1>0, <1>1
<1>3. \A n \in 0..N : all[n].bytes \in Bytes
  BY <1>0, <1>1, <1>2, <1>2a, Pieces
<1>4. ASSUME NEW b \in Bytes, NEW at \in Nat
      PROVE  Agrees(DecodeEach(kind, b, at, N, Nowhere), b, at, All(parts).bytes, values)
  <2>1. PICK decoded : /\ IsEach(decoded, kind, b, at, N, Nowhere)
                       /\ DecodeEach(kind, b, at, N, Nowhere) = decoded[N]
    <3>1. N \in Nat
      BY <1>0
    <3> HIDE DEF N
    <3> QED
      BY <3>1, EachDefined
  <2>2. \A n \in 0..N : n # N => at + Len(all[n].bytes) # Nowhere
    <3>1. \A x \in Bytes : at + Len(x) # -1
      BY DEF Bytes
    <3> QED
      BY <1>3, <3>1 DEF Nowhere
  <2>3. all[Len(parts)].res = "ok"
    BY <1>0, <1>1
  <2>4. \A n \in 0..N : Agrees(decoded[n], b, at, all[n].bytes, SubSeq(values, 1, n))
    BY <1>0, <1>1, <2>1, <2>2, <2>3, EachAgrees
  <2>5. SubSeq(values, 1, N) = values
    <3>1. CASE N = 0
      <4>1. values = <<>>
        <5>1. values = [i \in 1..N |-> values[i]]
          BY DEF IsSequence
        <5> HIDE DEF N
        <5> QED
          BY <3>1, <5>1
      <4> QED
        BY <4>1
    <3>2. CASE N # 0
      <4>1. 0 \in Nat /\ 0 < Len(values)
        BY <1>0, <3>2
      <4> QED
        BY <4>1, Longer
    <3> QED
      BY <3>1, <3>2
  <2> QED
    BY <1>0, <1>1, <2>1, <2>4, <2>5
<1>5. All(parts).bytes \in Bytes
  BY <1>0, <1>1, <1>3
<1> QED
  BY <1>4, <1>5

\* Elements up to the end of a buffer that holds nothing else.
LEMMA EachBounded ==
  ASSUME NEW kind, NEW values, IsSequence(values),
         NEW parts, Len(parts) = Len(values), All(parts).res = "ok",
         \A i \in 1..Len(values) : CodesElement(kind, parts[i], values[i])
  PROVE  LET e == All(parts).bytes
         IN  e \in Bytes /\ DecodeEach(kind, e, 0, Len(e), Len(e)) = Ok(values, Len(e))
<1> DEFINE N == Len(values)
           e == All(parts).bytes
           M == Len(e)
<1>0. N \in Nat /\ Len(parts) = N /\ 0 \in 0..N /\ N \in 0..N
  BY DEF IsSequence
<1>1. PICK all : IsAll(all, parts) /\ All(parts) = all[N]
  BY <1>0, AllDefined
<1>2. \A i \in 1..Len(parts) : IsEncoding(parts[i])
  BY DEF IsEncoding, CodesElement
<1>2a. all[Len(parts)].res = "ok" /\ Len(parts) \in Nat
  BY <1>0, <1>1
<1>3. \A n \in 0..N : all[n].bytes \in Bytes
  BY <1>0, <1>1, <1>2, <1>2a, Pieces
<1>4. e \in Bytes /\ M \in Nat /\ M \in 0..M
  BY <1>0, <1>1, <1>3 DEF Bytes
<1>5. all[Len(parts)].res = "ok"
  BY <1>0, <1>1
<1>6. \A n \in 0..N : Len(all[n].bytes) >= n /\ Len(all[n].bytes) + (N - n) <= M
  <2>1. \A i \in 1..Len(parts) :
            parts[i].res = "ok" => parts[i].bytes \in Bytes /\ Len(parts[i].bytes) >= 1
    BY DEF CodesElement
  <2> QED
    BY <1>0, <1>1, <1>5, <2>1, Growth
<1>7. N <= M /\ \A n \in 0..N : n # N => 0 + Len(all[n].bytes) # M
  <2>1. \A n \in 0..N : Len(all[n].bytes) \in Nat
    BY <1>3 DEF Bytes
  <2> HIDE DEF N, M
  <2> QED
    BY <1>0, <1>4, <1>6, <2>1
<1>8. PICK decoded : /\ IsEach(decoded, kind, e, 0, M, M)
                     /\ DecodeEach(kind, e, 0, M, M) = decoded[M]
  <2> HIDE DEF M, e
  <2> QED
    BY <1>4, EachDefined
<1>9. Agrees(decoded[N], e, 0, e, values)
  <2>1. 0 \in Nat
    OBVIOUS
  <2>2. \A n \in 0..N : Agrees(decoded[n], e, 0, all[n].bytes, SubSeq(values, 1, n))
    <3> HIDE DEF M, e
    <3> QED
      BY <1>0, <1>1, <1>4, <1>5, <1>7, <1>8, <2>1, EachAgrees
  <2>3. SubSeq(values, 1, N) = values
    <3>1. CASE N = 0
      <4>1. values = <<>>
        <5>1. values = [i \in 1..N |-> values[i]]
          BY DEF IsSequence
        <5> HIDE DEF N
        <5> QED
          BY <3>1, <5>1
      <4> QED
        BY <4>1
    <3>2. CASE N # 0
      <4>1. 0 \in Nat /\ 0 < Len(values)
        BY <1>0, <3>2
      <4> QED
        BY <4>1, Longer
    <3> QED
      BY <3>1, <3>2
  <2> QED
    BY <1>0, <1>1, <2>2, <2>3
<1>10. decoded[N] = Ok(values, M)
  BY <1>4, <1>9 DEF Agrees, Fits
<1>11. \A n \in 0..M : n # M => decoded[n + 1] = EachStep(kind, e, M, decoded[n])
  <2>1. \A n \in 0..M :
           decoded[n] = IF n = 0 THEN Ok(<<>>, 0) ELSE EachStep(kind, e, M, decoded[n - 1])
    BY <1>8, Zenon DEF IsEach
  <2> HIDE DEF M
  <2>2. ASSUME NEW n \in 0..M, n # M PROVE n + 1 \in 0..M /\ n + 1 # 0 /\ (n + 1) - 1 = n
    BY <1>4, <2>2
  <2> QED
    BY <2>1, <2>2
<1>12. EachStep(kind, e, M, Ok(values, M)) = Ok(values, M)
  <2>1. PICK r : r = Ok(values, M)
    OBVIOUS
  <2>2. r.res = "ok" /\ r.value = values /\ r.at = M
    BY <2>1, OkParts
  <2> HIDE DEF M
  <2>3. EachStep(kind, e, M, r) = Ok(values, M)
    BY <2>2, Zenon DEF EachStep, Then
  <2> QED
    BY <2>1, <2>3
<1>13. decoded[M] = Ok(values, M)
  <2> DEFINE K == M - N
             G == {n \in 0..K : decoded[N + n] = Ok(values, M)}
  <2>0. K \in Nat /\ 0 \in 0..K /\ K \in 0..K /\ N + K = M
    BY <1>0, <1>4, <1>7
  <2>1. 0 \in G
    BY <1>0, <1>10, <2>0
  <2>2. ASSUME NEW n \in 0..K, n \in G, n # K PROVE n + 1 \in G
    <3>1. N + n \in 0..M /\ N + n # M /\ (N + n) + 1 = N + (n + 1) /\ n + 1 \in 0..K
      BY <1>0, <1>4, <1>7, <2>2
    <3>2. decoded[N + n] = Ok(values, M)
      BY <2>2
    <3>3. decoded[(N + n) + 1] = EachStep(kind, e, M, decoded[N + n])
      BY <1>11, <3>1
    <3> HIDE DEF K
    <3> QED
      BY <1>12, <3>1, <3>2, <3>3
  <2>3. \A n \in 0..K : n \in G
    <3> HIDE DEF G, K
    <3> QED
      BY <2>0, <2>1, <2>2, UpTo
  <2> QED
    BY <2>0, <2>3
<1> QED
  BY <1>4, <1>8, <1>13

\* The kinds of elements.
LEMMA ElementCodes ==
    /\ \A x \in Bytes : CodesElement("TupleField", EncodeTupleField(x), x)
    /\ \A x \in Nat : CodesElement("version", EncodeVersion(x), x)
    /\ \A kvp : /\ IsKeyValuePair(kvp)
                /\ kvp.value.kind = "bytes" => Len(kvp.value.value) <= U16Max
                => CodesElement("pair", EncodeKeyValuePair(kvp), kvp)
<1>1. ASSUME NEW x \in Bytes PROVE CodesElement("TupleField", EncodeTupleField(x), x)
  <2>1. \A b, at : DecodeElement("TupleField", b, at) = DecodeTupleField(b, at)
    BY Zenon DEF DecodeElement
  <2> QED
    BY <2>1, TupleFieldCodes, Zenon DEF CodesElement, Codes
<1>2. ASSUME NEW x \in Nat PROVE CodesElement("version", EncodeVersion(x), x)
  <2>1. \A b, at : DecodeElement("version", b, at) = DecodeVarInt(b, at)
    BY Zenon DEF DecodeElement, DecodeVersion
  <2> QED
    BY <2>1, VarIntCodes, Zenon DEF CodesElement, Codes, EncodeVersion
<1>3. ASSUME NEW kvp, IsKeyValuePair(kvp),
             kvp.value.kind = "bytes" => Len(kvp.value.value) <= U16Max
      PROVE  CodesElement("pair", EncodeKeyValuePair(kvp), kvp)
  <2>1. \A b, at : DecodeElement("pair", b, at) = DecodeKeyValuePair(b, at)
    BY Zenon DEF DecodeElement
  <2> QED
    BY <1>3, <2>1, KeyValuePairCodes, Zenon DEF CodesElement, Codes
<1> QED
  BY <1>1, <1>2, <1>3

\* The parts of a sequence.
LEMMA EachParts ==
  ASSUME NEW values, IsSequence(values), NEW Parts, Parts = [i \in DOMAIN values |-> Parts[i]]
  PROVE  DOMAIN values = 1..Len(values) /\ Len(Parts) = Len(values) /\ Len(values) \in Nat
<1>1. Len(values) \in Nat /\ values = [i \in 1..Len(values) |-> values[i]]
  BY DEF IsSequence
<1>2. DOMAIN values = 1..Len(values)
  BY <1>1
<1>3. Parts = [i \in 1..Len(values) |-> Parts[i]]
  BY <1>2
<1> QED
  BY <1>1, <1>2, <1>3

\* Elements with their count before them.
LEMMA CountedAgrees ==
  ASSUME NEW kind, NEW values, IsSequence(values),
         NEW parts, Len(parts) = Len(values),
         NEW whole, whole = Both(EncodeVarInt(Len(values)), All(parts)), whole.res = "ok",
         \A i \in 1..Len(values) : CodesElement(kind, parts[i], values[i])
  PROVE  /\ whole.bytes \in Bytes /\ Len(whole.bytes) >= 1
         /\ \A b \in Bytes, at \in Nat : \A r :
               /\ \A next : DecodeVarInt(b, at) = Ok(Len(values), next) =>
                                r = DecodeEach(kind, b, next, Len(values), Nowhere)
               /\ DecodeVarInt(b, at).res # "ok" => r = DecodeVarInt(b, at)
               => Agrees(r, b, at, whole.bytes, values)
<1> DEFINE n == Len(values)
           size == EncodeVarInt(n)
           e1 == size.bytes
           e2 == All(parts).bytes
<1>0. n \in Nat
  BY DEF IsSequence
<1>1. size.res = "ok" /\ All(parts).res = "ok" /\ whole.bytes = e1 \o e2
  BY BothOk
<1>2. /\ e1 \in Bytes /\ Len(e1) >= 1
      /\ \A b \in Bytes, at \in Nat : Agrees(DecodeVarInt(b, at), b, at, e1, n)
  BY <1>0, <1>1, VarIntAgrees
<1>3. /\ e2 \in Bytes
      /\ \A b \in Bytes, at \in Nat : Agrees(DecodeEach(kind, b, at, n, Nowhere), b, at, e2, values)
  BY <1>1, EachCounted
<1> HIDE DEF n, size, e1, e2
<1>4. e1 \o e2 \in Bytes /\ Len(e1 \o e2) >= 1
  BY <1>2, <1>3 DEF Bytes
<1>5. ASSUME NEW b \in Bytes, NEW at \in Nat, NEW r,
             \A next : DecodeVarInt(b, at) = Ok(n, next) => r = DecodeEach(kind, b, next, n, Nowhere),
             DecodeVarInt(b, at).res # "ok" => r = DecodeVarInt(b, at)
      PROVE  Agrees(r, b, at, e1 \o e2, values)
  <2> DEFINE r1 == DecodeVarInt(b, at)
             next == at + Len(e1)
             r2 == DecodeEach(kind, b, next, n, Nowhere)
  <2>1. Agrees(r1, b, at, e1, n) /\ next \in Nat
    BY <1>2 DEF Bytes
  <2>2. Agrees(r2, b, next, e2, values)
    BY <1>3, <2>1
  <2>3. (r1 = Ok(n, next) => r = r2) /\ (r1.res # "ok" => r = r1)
    BY <1>5
  <2> HIDE DEF r1, r2
  <2> QED
    BY <1>2, <1>3, <2>1, <2>2, <2>3, Sequenced
<1> QED
  BY <1>1, <1>4, <1>5 DEF n

\* Namespaces.
LEMMA NamespaceCodes ==
  ASSUME NEW values \in Seq(Bytes)
  PROVE  Codes(EncodeTrackNamespace(values), values, DecodeTrackNamespace)
<1> DEFINE n == Len(values)
           parts == [i \in DOMAIN values |-> EncodeTupleField(values[i])]
           whole == Both(EncodeVarInt(n), All(parts))
<1> SUFFICES ASSUME EncodeTrackNamespace(values).res = "ok"
             PROVE  /\ EncodeTrackNamespace(values).bytes \in Bytes
                    /\ Len(EncodeTrackNamespace(values).bytes) >= 1
                    /\ \A b \in Bytes, at \in Nat :
                          Agrees(DecodeTrackNamespace(b, at), b, at, EncodeTrackNamespace(values).bytes,
                                 values)
  BY Zenon DEF Codes
<1>1. IsSequence(values) /\ \A i \in 1..n : values[i] \in Bytes
  BY DEF IsSequence
<1>2. Len(parts) = n
  BY <1>1, EachParts
<1>3. ~(n > MaxFields) /\ EncodeTrackNamespace(values) = whole
  <2>1. ~(n > MaxFields)
    BY Results DEF EncodeTrackNamespace
  <2> QED
    BY <2>1, Zenon DEF EncodeTrackNamespace, EncodeEach
<1>4. ASSUME NEW i \in 1..n PROVE CodesElement("TupleField", parts[i], values[i])
  <2>1. parts[i] = EncodeTupleField(values[i])
    OBVIOUS
  <2> HIDE DEF parts, n
  <2> QED
    BY <1>1, <2>1, ElementCodes
<1>5. whole.res = "ok"
  BY <1>3
<1> HIDE DEF parts, whole
<1>6. /\ whole.bytes \in Bytes /\ Len(whole.bytes) >= 1
      /\ \A b \in Bytes, at \in Nat : \A r :
               /\ \A next : DecodeVarInt(b, at) = Ok(n, next) =>
                                r = DecodeEach("TupleField", b, next, n, Nowhere)
               /\ DecodeVarInt(b, at).res # "ok" => r = DecodeVarInt(b, at)
               => Agrees(r, b, at, whole.bytes, values)
  BY <1>1, <1>2, <1>4, <1>5, CountedAgrees DEF whole
<1> HIDE DEF n
<1>7. ASSUME NEW b \in Bytes, NEW at \in Nat
      PROVE  Agrees(DecodeTrackNamespace(b, at), b, at, whole.bytes, values)
  <2> DEFINE r == DecodeTrackNamespace(b, at)
  <2>1. ASSUME NEW next, DecodeVarInt(b, at) = Ok(n, next)
        PROVE  r = DecodeEach("TupleField", b, next, n, Nowhere)
    <3>1. PICK y : y = DecodeVarInt(b, at) /\ y.res = "ok" /\ y.value = n /\ y.at = next
      BY <2>1, OkParts
    <3> QED
      BY <1>3, <3>1, Zenon DEF DecodeTrackNamespace, Then
  <2>2. DecodeVarInt(b, at).res # "ok" => r = DecodeVarInt(b, at)
    BY Zenon DEF DecodeTrackNamespace, Then
  <2> HIDE DEF r
  <2>3. Agrees(r, b, at, whole.bytes, values)
    BY <1>6, <2>1, <2>2
  <2> QED
    BY <2>3 DEF r
<1> QED
  BY <1>3, <1>6, <1>7

\* Key-value pairs, with their count.
LEMMA PairsCode ==
  ASSUME NEW kvps, IsSequence(kvps), \A i \in DOMAIN kvps : IsKeyValuePair(kvps[i]), Carried(kvps)
  PROVE  Codes(EncodeKeyValuePairs(kvps), kvps, DecodeKeyValuePairs)
<1> DEFINE n == Len(kvps)
           parts == [i \in DOMAIN kvps |-> EncodeKeyValuePair(kvps[i])]
           whole == Both(EncodeVarInt(n), All(parts))
<1> SUFFICES ASSUME EncodeKeyValuePairs(kvps).res = "ok"
             PROVE  /\ EncodeKeyValuePairs(kvps).bytes \in Bytes
                    /\ Len(EncodeKeyValuePairs(kvps).bytes) >= 1
                    /\ \A b \in Bytes, at \in Nat :
                          Agrees(DecodeKeyValuePairs(b, at), b, at, EncodeKeyValuePairs(kvps).bytes,
                                 kvps)
  BY Zenon DEF Codes
<1>2. Len(parts) = n /\ DOMAIN kvps = 1..n
  BY EachParts
<1>3. EncodeKeyValuePairs(kvps) = whole
  BY Zenon DEF EncodeKeyValuePairs, EncodeEach
<1>4. ASSUME NEW i \in 1..n PROVE CodesElement("pair", parts[i], kvps[i])
  <2>1. parts[i] = EncodeKeyValuePair(kvps[i])
    BY <1>2
  <2>2. IsKeyValuePair(kvps[i]) /\ (kvps[i].value.kind = "bytes" => Len(kvps[i].value.value) <= U16Max)
    BY <1>2 DEF Carried
  <2> HIDE DEF parts, n
  <2> QED
    BY <2>1, <2>2, ElementCodes
<1>5. whole.res = "ok"
  BY <1>3
<1> HIDE DEF parts, whole
<1>6. /\ whole.bytes \in Bytes /\ Len(whole.bytes) >= 1
      /\ \A b \in Bytes, at \in Nat : \A r :
               /\ \A next : DecodeVarInt(b, at) = Ok(n, next) =>
                                r = DecodeEach("pair", b, next, n, Nowhere)
               /\ DecodeVarInt(b, at).res # "ok" => r = DecodeVarInt(b, at)
               => Agrees(r, b, at, whole.bytes, kvps)
  BY <1>2, <1>4, <1>5, CountedAgrees DEF whole
<1> HIDE DEF n
<1>7. ASSUME NEW b \in Bytes, NEW at \in Nat
      PROVE  Agrees(DecodeKeyValuePairs(b, at), b, at, whole.bytes, kvps)
  <2> DEFINE r == DecodeKeyValuePairs(b, at)
  <2>1. ASSUME NEW next, DecodeVarInt(b, at) = Ok(n, next)
        PROVE  r = DecodeEach("pair", b, next, n, Nowhere)
    <3>1. PICK y : y = DecodeVarInt(b, at) /\ y.res = "ok" /\ y.value = n /\ y.at = next
      BY <2>1, OkParts
    <3> QED
      BY <3>1, Zenon DEF DecodeKeyValuePairs, Then
  <2>2. DecodeVarInt(b, at).res # "ok" => r = DecodeVarInt(b, at)
    BY Zenon DEF DecodeKeyValuePairs, Then
  <2> HIDE DEF r
  <2>3. Agrees(r, b, at, whole.bytes, kvps)
    BY <1>6, <2>1, <2>2
  <2> QED
    BY <2>3 DEF r
<1> QED
  BY <1>3, <1>6, <1>7

\* Versions, with their count.
LEMMA VersionsCode ==
  ASSUME NEW versions \in Seq(Nat)
  PROVE  Codes(EncodeVersions(versions), versions, DecodeVersions)
<1> DEFINE n == Len(versions)
           parts == [i \in DOMAIN versions |-> EncodeVersion(versions[i])]
           whole == Both(EncodeVarInt(n), All(parts))
<1> SUFFICES ASSUME EncodeVersions(versions).res = "ok"
             PROVE  /\ EncodeVersions(versions).bytes \in Bytes
                    /\ Len(EncodeVersions(versions).bytes) >= 1
                    /\ \A b \in Bytes, at \in Nat :
                          Agrees(DecodeVersions(b, at), b, at, EncodeVersions(versions).bytes,
                                 versions)
  BY Zenon DEF Codes
<1>1. IsSequence(versions) /\ \A i \in 1..n : versions[i] \in Nat
  BY DEF IsSequence
<1>2. Len(parts) = n /\ DOMAIN versions = 1..n
  BY <1>1, EachParts
<1>3. EncodeVersions(versions) = whole
  BY Zenon DEF EncodeVersions, EncodeEach
<1>4. ASSUME NEW i \in 1..n PROVE CodesElement("version", parts[i], versions[i])
  <2>1. parts[i] = EncodeVersion(versions[i])
    BY <1>2
  <2> HIDE DEF parts, n
  <2> QED
    BY <1>1, <2>1, ElementCodes
<1>5. whole.res = "ok"
  BY <1>3
<1> HIDE DEF parts, whole
<1>6. /\ whole.bytes \in Bytes /\ Len(whole.bytes) >= 1
      /\ \A b \in Bytes, at \in Nat : \A r :
               /\ \A next : DecodeVarInt(b, at) = Ok(n, next) =>
                                r = DecodeEach("version", b, next, n, Nowhere)
               /\ DecodeVarInt(b, at).res # "ok" => r = DecodeVarInt(b, at)
               => Agrees(r, b, at, whole.bytes, versions)
  BY <1>1, <1>2, <1>4, <1>5, CountedAgrees DEF whole
<1> HIDE DEF n
<1>7. ASSUME NEW b \in Bytes, NEW at \in Nat
      PROVE  Agrees(DecodeVersions(b, at), b, at, whole.bytes, versions)
  <2> DEFINE r == DecodeVersions(b, at)
  <2>1. ASSUME NEW next, DecodeVarInt(b, at) = Ok(n, next)
        PROVE  r = DecodeEach("version", b, next, n, Nowhere)
    <3>1. PICK y : y = DecodeVarInt(b, at) /\ y.res = "ok" /\ y.value = n /\ y.at = next
      BY <2>1, OkParts
    <3> QED
      BY <3>1, Zenon DEF DecodeVersions, Then
  <2>2. DecodeVarInt(b, at).res # "ok" => r = DecodeVarInt(b, at)
    BY Zenon DEF DecodeVersions, Then
  <2> HIDE DEF r
  <2>3. Agrees(r, b, at, whole.bytes, versions)
    BY <1>6, <2>1, <2>2
  <2> QED
    BY <2>3 DEF r
<1> QED
  BY <1>3, <1>6, <1>7

\* Extension headers, with their size.
LEMMA ExtensionsCode ==
  ASSUME NEW kvps, IsSequence(kvps), \A i \in DOMAIN kvps : IsKeyValuePair(kvps[i]), Carried(kvps)
  PROVE  Codes(EncodeExtensionHeaders(kvps), kvps, DecodeExtensionHeaders)
<1> DEFINE parts == [i \in DOMAIN kvps |-> EncodeKeyValuePair(kvps[i])]
           pairs == All(parts)
           e2 == pairs.bytes
           n == Len(e2)
           size == EncodeVarInt(n)
           e1 == size.bytes
           whole == EncodeExtensionHeaders(kvps)
<1> SUFFICES ASSUME whole.res = "ok"
             PROVE  /\ whole.bytes \in Bytes /\ Len(whole.bytes) >= 1
                    /\ \A b \in Bytes, at \in Nat :
                          Agrees(DecodeExtensionHeaders(b, at), b, at, whole.bytes, kvps)
  BY Zenon DEF Codes
<1>1. Len(parts) = Len(kvps) /\ DOMAIN kvps = 1..Len(kvps)
  BY EachParts
<1>2. pairs.res = "ok" /\ whole = Both(size, pairs)
  <2>1. whole = IF pairs.res = "ok" THEN Both(size, pairs) ELSE pairs
    BY Zenon DEF EncodeExtensionHeaders, EncodeEach
  <2> HIDE DEF whole, pairs, size
  <2> QED
    BY <2>1
<1>3. ASSUME NEW i \in 1..Len(kvps) PROVE CodesElement("pair", parts[i], kvps[i])
  <2>1. parts[i] = EncodeKeyValuePair(kvps[i])
    BY <1>1
  <2>2. IsKeyValuePair(kvps[i]) /\ (kvps[i].value.kind = "bytes" => Len(kvps[i].value.value) <= U16Max)
    BY <1>1 DEF Carried
  <2> HIDE DEF parts
  <2> QED
    BY <2>1, <2>2, ElementCodes
<1>4. e2 \in Bytes /\ DecodeEach("pair", e2, 0, n, n) = Ok(kvps, n)
  <2> HIDE DEF parts
  <2> QED
    BY <1>1, <1>2, <1>3, EachBounded
<1>5. n \in Nat
  BY <1>4 DEF Bytes
<1>6. size.res = "ok" /\ whole.bytes = e1 \o e2
  <2> HIDE DEF whole, pairs, size
  <2> QED
    BY <1>2, BothOk
<1>7. /\ e1 \in Bytes /\ Len(e1) >= 1
      /\ \A b \in Bytes, at \in Nat : Agrees(DecodeVarInt(b, at), b, at, e1, n)
  BY <1>5, <1>6, VarIntAgrees
<1> HIDE DEF size, pairs, whole, e1, e2, n
<1>8. e1 \o e2 \in Bytes /\ Len(e1 \o e2) >= 1
  BY <1>4, <1>7 DEF Bytes
<1>9. ASSUME NEW b \in Bytes, NEW at \in Nat
      PROVE  Agrees(DecodeExtensionHeaders(b, at), b, at, e1 \o e2, kvps)
  <2> DEFINE r1 == DecodeVarInt(b, at)
             start == at + Len(e1)
             y == DecodeRemaining(b, start, n)
             end == start + Len(e2)
             r2 == Then(y, LAMBDA copy, last :
                     Then(DecodeEach("pair", copy, 0, n, n), LAMBDA values, x : Ok(values, last)))
             r == DecodeExtensionHeaders(b, at)
  <2>1. Agrees(r1, b, at, e1, n) /\ start \in Nat
    BY <1>7 DEF Bytes
  <2>2. Agrees(y, b, start, e2, e2)
    BY <1>4, <2>1, RemainingAgrees DEF n
  <2>3. ASSUME y = Ok(e2, end) PROVE r2 = Ok(kvps, end)
    <3>1. y.res = "ok" /\ y.value = e2 /\ y.at = end
      BY <2>3, OkParts
    <3>2. PICK z : /\ z = DecodeEach("pair", e2, 0, n, n)
                   /\ z.res = "ok" /\ z.value = kvps
      BY <1>4, OkParts
    <3> HIDE DEF y, end
    <3> QED
      BY <3>1, <3>2, Zenon DEF Then
  <2>4. y.res # "ok" => r2 = y
    BY Zenon DEF Then
  <2>5. ASSUME r1 = Ok(n, start) PROVE r = r2
    <3>1. r1.res = "ok" /\ r1.value = n /\ r1.at = start
      BY <2>5, OkParts
    <3> HIDE DEF start
    <3> QED
      BY <3>1, Zenon DEF DecodeExtensionHeaders, Then
  <2>6. r1.res # "ok" => r = r1
    BY Zenon DEF DecodeExtensionHeaders, Then
  <2> HIDE DEF r1, r2, r, y
  <2>7. Agrees(r2, b, start, e2, kvps)
    BY <1>4, <2>1, <2>2, <2>3, <2>4, Mapped
  <2> QED
    BY <1>4, <1>7, <2>1, <2>5, <2>6, <2>7, Sequenced DEF r
<1> QED
  BY <1>6, <1>8, <1>9

-----------------------------------------------------------------------------
(* Fields, and records of them.                                            *)

\* The enumerations.
LEMMA EnumsCode ==
    /\ \A v \in 0..2 : Codes(EncodeGroupOrder(v), v, DecodeGroupOrder)
    /\ \A v \in 0..2 : Codes(EncodeOrderOnly(v), v, DecodeOrderOnly)
    /\ \A v \in 1..4 : Codes(EncodeFilterType(v), v, DecodeFilterType)
    /\ \A v \in 1..3 : Codes(EncodeFetchType(v), v, DecodeFetchType)
    /\ \A v \in {0, 1, 3, 4} : Codes(EncodeObjectStatus(v), v, DecodeObjectStatus)
<1>1. ASSUME NEW v \in 0..2 PROVE Codes(EncodeGroupOrder(v), v, DecodeGroupOrder)
  <2>1. v \in U8
    BY IsU8
  <2>2. Codes(EncodeU8(v), v, DecodeU8)
    BY <2>1, U8Codes
  <2>3. ASSUME NEW b \in Bytes, NEW at \in Nat, NEW e \in Bytes, Agrees(DecodeU8(b, at), b, at, e, v)
        PROVE  Agrees(DecodeGroupOrder(b, at), b, at, e, v)
    BY <2>3, EnumAgrees DEF DecodeGroupOrder
  <2> QED
    BY <2>2, <2>3, Zenon DEF Codes, EncodeGroupOrder
<1>2. ASSUME NEW v \in 0..2 PROVE Codes(EncodeOrderOnly(v), v, DecodeOrderOnly)
  <2>1. CASE v = 0
    BY <2>1, Results DEF EncodeOrderOnly, PublisherOrder, Codes
  <2>2. CASE v # 0
    <3>1. EncodeOrderOnly(v) = EncodeGroupOrder(v)
      BY <2>2 DEF EncodeOrderOnly, PublisherOrder
    <3>2. ASSUME NEW b \in Bytes, NEW at \in Nat, NEW e \in Bytes,
                 Agrees(DecodeGroupOrder(b, at), b, at, e, v)
          PROVE  Agrees(DecodeOrderOnly(b, at), b, at, e, v)
      <4>1. v \in 1..2
        BY <2>2
      <4> QED
        BY <3>2, <4>1, EnumAgrees DEF DecodeOrderOnly
    <3> QED
      BY <1>1, <3>1, <3>2, Zenon DEF Codes
  <2> QED
    BY <2>1, <2>2
<1>3. ASSUME NEW v \in 1..4 PROVE Codes(EncodeFilterType(v), v, DecodeFilterType)
  <2>1. v \in Nat
    OBVIOUS
  <2>2. Codes(EncodeVarInt(v), v, DecodeVarInt)
    BY <2>1, VarIntCodes
  <2>3. ASSUME NEW b \in Bytes, NEW at \in Nat, NEW e \in Bytes, Agrees(DecodeVarInt(b, at), b, at, e, v)
        PROVE  Agrees(DecodeFilterType(b, at), b, at, e, v)
    BY <2>3, EnumAgrees DEF DecodeFilterType
  <2> QED
    BY <2>2, <2>3, Zenon DEF Codes, EncodeFilterType
<1>4. ASSUME NEW v \in 1..3 PROVE Codes(EncodeFetchType(v), v, DecodeFetchType)
  <2>1. v \in U8
    BY IsU8
  <2>2. Codes(EncodeU8(v), v, DecodeU8)
    BY <2>1, U8Codes
  <2>3. ASSUME NEW b \in Bytes, NEW at \in Nat, NEW e \in Bytes, Agrees(DecodeU8(b, at), b, at, e, v)
        PROVE  Agrees(DecodeFetchType(b, at), b, at, e, v)
    BY <2>3, EnumAgrees DEF DecodeFetchType
  <2> QED
    BY <2>2, <2>3, Zenon DEF Codes, EncodeFetchType
<1>5. ASSUME NEW v \in {0, 1, 3, 4} PROVE Codes(EncodeObjectStatus(v), v, DecodeObjectStatus)
  <2>1. v \in Nat
    OBVIOUS
  <2>2. Codes(EncodeVarInt(v), v, DecodeVarInt)
    BY <2>1, VarIntCodes
  <2>3. ASSUME NEW b \in Bytes, NEW at \in Nat, NEW e \in Bytes, Agrees(DecodeVarInt(b, at), b, at, e, v)
        PROVE  Agrees(DecodeObjectStatus(b, at), b, at, e, v)
    BY <2>3, EnumAgrees DEF DecodeObjectStatus
  <2> QED
    BY <2>2, <2>3, Zenon DEF Codes, EncodeObjectStatus
<1> QED
  BY <1>1, <1>2, <1>3, <1>4, <1>5

\* Every kind of field.
Kinds ==
    {"u64", "u8", "bool", "string", "reason", "uri", "namespace", "location", "params", "extensions",
     "order", "order_only", "filter", "fetch", "status"}
CodesField(kind, r, v) ==
    r.res = "ok" =>
        /\ r.bytes \in Bytes /\ Len(r.bytes) >= 1
        /\ \A b \in Bytes, at \in Nat : Agrees(DecodeField(kind, b, at), b, at, r.bytes, v)

\* Every kind of field is decoded as it was encoded.
LEMMA FieldCodes ==
  ASSUME NEW kind \in Kinds, NEW v, HasType(kind, v),
         kind \in {"params", "extensions"} => Carried(v)
  PROVE  CodesField(kind, EncodeField(kind, v), v)
<1>1. CASE kind = "u64"
  <2>1. v \in Nat
    BY <1>1, Zenon DEF HasType
  <2>2. Codes(EncodeVarInt(v), v, DecodeVarInt)
    BY <2>1, VarIntCodes
  <2>3. EncodeField("u64", v) = EncodeVarInt(v) /\ \A b, at : DecodeField("u64", b, at) = DecodeVarInt(b, at)
    BY Zenon DEF EncodeField, DecodeField
  <2> QED
    BY <1>1, <2>2, <2>3, Zenon DEF CodesField, Codes
<1>2. CASE kind = "u8"
  <2>1. v \in U8
    BY <1>2, Zenon DEF HasType
  <2>2. Codes(EncodeU8(v), v, DecodeU8)
    BY <2>1, U8Codes
  <2>3. EncodeField("u8", v) = EncodeU8(v) /\ \A b, at : DecodeField("u8", b, at) = DecodeU8(b, at)
    BY Zenon DEF EncodeField, DecodeField
  <2> QED
    BY <1>2, <2>2, <2>3, Zenon DEF CodesField, Codes
<1>3. CASE kind = "bool"
  <2>1. v \in BOOLEAN
    BY <1>3, Zenon DEF HasType
  <2>2. Codes(EncodeBool(v), v, DecodeBool)
    BY <2>1, BoolCodes
  <2>3. EncodeField("bool", v) = EncodeBool(v) /\ \A b, at : DecodeField("bool", b, at) = DecodeBool(b, at)
    BY Zenon DEF EncodeField, DecodeField
  <2> QED
    BY <1>3, <2>2, <2>3, Zenon DEF CodesField, Codes
<1>4. CASE kind = "string"
  <2>1. v \in Seq(Ascii)
    BY <1>4, Zenon DEF HasType
  <2>2. Codes(EncodeString(v), v, DecodeString)
    BY <2>1, StringCodes
  <2>3. EncodeField("string", v) = EncodeString(v) /\ \A b, at : DecodeField("string", b, at) = DecodeString(b, at)
    BY Zenon DEF EncodeField, DecodeField
  <2> QED
    BY <1>4, <2>2, <2>3, Zenon DEF CodesField, Codes
<1>5. CASE kind = "reason"
  <2>1. v \in Seq(Ascii)
    BY <1>5, Zenon DEF HasType
  <2>2. Codes(EncodeReasonPhrase(v), v, DecodeReasonPhrase)
    BY <2>1, StringCodes
  <2>3. EncodeField("reason", v) = EncodeReasonPhrase(v) /\ \A b, at : DecodeField("reason", b, at) = DecodeReasonPhrase(b, at)
    BY Zenon DEF EncodeField, DecodeField
  <2> QED
    BY <1>5, <2>2, <2>3, Zenon DEF CodesField, Codes
<1>6. CASE kind = "uri"
  <2>1. v \in Seq(Ascii)
    BY <1>6, Zenon DEF HasType
  <2>2. Codes(EncodeSessionUri(v), v, DecodeSessionUri)
    BY <2>1, StringCodes
  <2>3. EncodeField("uri", v) = EncodeSessionUri(v) /\ \A b, at : DecodeField("uri", b, at) = DecodeSessionUri(b, at)
    BY Zenon DEF EncodeField, DecodeField
  <2> QED
    BY <1>6, <2>2, <2>3, Zenon DEF CodesField, Codes
<1>7. CASE kind = "namespace"
  <2>1. v \in Seq(Bytes)
    BY <1>7, Zenon DEF HasType
  <2>2. Codes(EncodeTrackNamespace(v), v, DecodeTrackNamespace)
    BY <2>1, NamespaceCodes
  <2>3. EncodeField("namespace", v) = EncodeTrackNamespace(v) /\ \A b, at : DecodeField("namespace", b, at) = DecodeTrackNamespace(b, at)
    BY Zenon DEF EncodeField, DecodeField
  <2> QED
    BY <1>7, <2>2, <2>3, Zenon DEF CodesField, Codes
<1>8. CASE kind = "location"
  <2>1. v \in [group_id : Nat, object_id : Nat]
    BY <1>8, Zenon DEF HasType
  <2>2. Codes(EncodeLocation(v), v, DecodeLocation)
    BY <2>1, LocationCodes
  <2>3. EncodeField("location", v) = EncodeLocation(v) /\ \A b, at : DecodeField("location", b, at) = DecodeLocation(b, at)
    BY Zenon DEF EncodeField, DecodeField
  <2> QED
    BY <1>8, <2>2, <2>3, Zenon DEF CodesField, Codes
<1>9. CASE kind = "params"
  <2>1. IsSequence(v) /\ (\A i \in DOMAIN v : IsKeyValuePair(v[i])) /\ Carried(v)
    BY <1>9, Zenon DEF HasType
  <2>2. Codes(EncodeKeyValuePairs(v), v, DecodeKeyValuePairs)
    BY <2>1, PairsCode
  <2>3. EncodeField("params", v) = EncodeKeyValuePairs(v) /\ \A b, at : DecodeField("params", b, at) = DecodeKeyValuePairs(b, at)
    BY Zenon DEF EncodeField, DecodeField
  <2> QED
    BY <1>9, <2>2, <2>3, Zenon DEF CodesField, Codes
<1>10. CASE kind = "extensions"
  <2>1. IsSequence(v) /\ (\A i \in DOMAIN v : IsKeyValuePair(v[i])) /\ Carried(v)
    BY <1>10, Zenon DEF HasType
  <2>2. Codes(EncodeExtensionHeaders(v), v, DecodeExtensionHeaders)
    BY <2>1, ExtensionsCode
  <2>3. EncodeField("extensions", v) = EncodeExtensionHeaders(v) /\ \A b, at : DecodeField("extensions", b, at) = DecodeExtensionHeaders(b, at)
    BY Zenon DEF EncodeField, DecodeField
  <2> QED
    BY <1>10, <2>2, <2>3, Zenon DEF CodesField, Codes
<1>11. CASE kind = "order"
  <2>1. v \in 0..2
    BY <1>11, Zenon DEF HasType
  <2>2. Codes(EncodeGroupOrder(v), v, DecodeGroupOrder)
    BY <2>1, EnumsCode
  <2>3. EncodeField("order", v) = EncodeGroupOrder(v) /\ \A b, at : DecodeField("order", b, at) = DecodeGroupOrder(b, at)
    BY Zenon DEF EncodeField, DecodeField
  <2> QED
    BY <1>11, <2>2, <2>3, Zenon DEF CodesField, Codes
<1>12. CASE kind = "order_only"
  <2>1. v \in 0..2
    BY <1>12, Zenon DEF HasType
  <2>2. Codes(EncodeOrderOnly(v), v, DecodeOrderOnly)
    BY <2>1, EnumsCode
  <2>3. EncodeField("order_only", v) = EncodeOrderOnly(v) /\ \A b, at : DecodeField("order_only", b, at) = DecodeOrderOnly(b, at)
    BY Zenon DEF EncodeField, DecodeField
  <2> QED
    BY <1>12, <2>2, <2>3, Zenon DEF CodesField, Codes
<1>13. CASE kind = "filter"
  <2>1. v \in 1..4
    BY <1>13, Zenon DEF HasType
  <2>2. Codes(EncodeFilterType(v), v, DecodeFilterType)
    BY <2>1, EnumsCode
  <2>3. EncodeField("filter", v) = EncodeFilterType(v) /\ \A b, at : DecodeField("filter", b, at) = DecodeFilterType(b, at)
    BY Zenon DEF EncodeField, DecodeField
  <2> QED
    BY <1>13, <2>2, <2>3, Zenon DEF CodesField, Codes
<1>14. CASE kind = "fetch"
  <2>1. v \in 1..3
    BY <1>14, Zenon DEF HasType
  <2>2. Codes(EncodeFetchType(v), v, DecodeFetchType)
    BY <2>1, EnumsCode
  <2>3. EncodeField("fetch", v) = EncodeFetchType(v) /\ \A b, at : DecodeField("fetch", b, at) = DecodeFetchType(b, at)
    BY Zenon DEF EncodeField, DecodeField
  <2> QED
    BY <1>14, <2>2, <2>3, Zenon DEF CodesField, Codes
<1>15. CASE kind = "status"
  <2>1. v \in {0, 1, 3, 4}
    BY <1>15, Zenon DEF HasType
  <2>2. Codes(EncodeObjectStatus(v), v, DecodeObjectStatus)
    BY <2>1, EnumsCode
  <2>3. EncodeField("status", v) = EncodeObjectStatus(v) /\ \A b, at : DecodeField("status", b, at) = DecodeObjectStatus(b, at)
    BY Zenon DEF EncodeField, DecodeField
  <2> QED
    BY <1>15, <2>2, <2>3, Zenon DEF CodesField, Codes
<1> QED
  BY <1>1, <1>2, <1>3, <1>4, <1>5, <1>6, <1>7, <1>8, <1>9, <1>10, <1>11, <1>12, <1>13, <1>14, <1>15 DEF Kinds

\* What EncodeFields makes of a field, one step of DecodeFields, and the function
\* that it defines.
FieldPart(m, field) ==
    IF ~Present(m, field) THEN Encoded(<<>>)
    ELSE IF field.name \in DOMAIN m THEN EncodeField(field.kind, m[field.name])
    ELSE Failed("MissingField")
FieldStep(b, field, r) ==
    Then(r, LAMBDA m, next :
        IF ~Present(m, field) THEN Ok(m, next)
        ELSE Map(DecodeField(field.kind, b, next), LAMBDA v : With(m, field.name, v)))
IsFields(decoded, before, b, at, fields) ==
    decoded = [n \in 0..Len(fields) |->
                IF n = 0 THEN Ok(before, at) ELSE FieldStep(b, fields[n], decoded[n - 1])]

\* DecodeFields has the function that it is defined by.
LEMMA FieldsDefined ==
  ASSUME NEW before, NEW b, NEW at, NEW fields, Len(fields) \in Nat
  PROVE  \E decoded : /\ IsFields(decoded, before, b, at, fields)
                      /\ DecodeFields(before, b, at, fields) = decoded[Len(fields)]
<1> DEFINE most == Len(fields)
           F(f, k) == f = [n \in 0..k |->
                             IF n = 0 THEN Ok(before, at) ELSE FieldStep(b, fields[n], f[n - 1])]
           G == {k \in 0..most : \E f : F(f, k)}
           a == CHOOSE f : f = [n \in 0..most |->
                             IF n = 0 THEN Ok(before, at) ELSE FieldStep(b, fields[n], f[n - 1])]
<1>0. most \in Nat /\ 0 \in 0..most /\ most \in 0..most
  OBVIOUS
<1>1. 0 \in G
  <2> DEFINE f == [n \in 0..0 |-> Ok(before, at)]
  <2>1. F(f, 0)
    OBVIOUS
  <2> HIDE DEF f, F, most
  <2> QED
    BY <1>0, <2>1
<1>2. ASSUME NEW k \in 0..most, k \in G, k # most PROVE k + 1 \in G
  <2>1. PICK f : F(f, k)
    BY <1>2
  <2> DEFINE g == [n \in 0..(k + 1) |->
                     IF n = 0 THEN Ok(before, at) ELSE FieldStep(b, fields[n], f[n - 1])]
  <2>2. ASSUME NEW n \in 0..k PROVE g[n] = f[n]
    BY <2>1
  <2>3. \A n \in 0..(k + 1) : n # 0 => n - 1 \in 0..k
    OBVIOUS
  <2>4. F(g, k + 1)
    BY <2>2, <2>3
  <2>5. k + 1 \in 0..most
    BY <1>2
  <2> QED
    BY <2>4, <2>5
<1>3. most \in G
  <2> HIDE DEF G, most
  <2> QED
    BY <1>0, <1>1, <1>2, UpTo
<1>4. F(a, most)
  BY <1>3
<1>5. DecodeFields(before, b, at, fields) = a[most]
  BY DEF DecodeFields, FieldStep
<1> HIDE DEF a
<1> QED
  BY <1>4, <1>5 DEF IsFields

\* One more field.
LEMMA OneField ==
  ASSUME NEW b \in Bytes, NEW at \in Nat, NEW field, NEW m, NEW some,
         Present(some, field) <=> Present(m, field),
         FieldPart(m, field).res = "ok",
         Present(m, field) => CodesField(field.kind, FieldPart(m, field), m[field.name]),
         NEW e1 \in Bytes, NEW r1, Agrees(r1, b, at, e1, some)
  PROVE  /\ FieldPart(m, field).bytes \in Bytes
         /\ Agrees(FieldStep(b, field, r1), b, at, e1 \o FieldPart(m, field).bytes,
                   IF Present(m, field) THEN With(some, field.name, m[field.name]) ELSE some)
<1> DEFINE p == FieldPart(m, field)
           e2 == p.bytes
           next == at + Len(e1)
           r == FieldStep(b, field, r1)
<1>1. r1.res # "ok" => r = r1
  BY Zenon DEF FieldStep, Then
<1>2. CASE ~Present(m, field)
  <2>1. p = Encoded(<<>>)
    BY <1>2 DEF FieldPart
  <2>2. e2 = <<>>
    BY <2>1, Results
  <2>3. e2 \in Bytes /\ e1 \o e2 = e1
    BY <2>2 DEF Bytes
  <2>4. ASSUME r1 = Ok(some, next) PROVE r = Ok(some, next)
    <3>1. r1.res = "ok" /\ r1.value = some /\ r1.at = next
      BY <2>4, OkParts
    <3> HIDE DEF next
    <3> QED
      BY <1>2, <3>1, Zenon DEF FieldStep, Then
  <2> HIDE DEF r, p, e2
  <2>5. Agrees(r, b, at, e1, some)
    BY <1>1, <2>4, Mapped
  <2> QED
    BY <1>2, <2>3, <2>5 DEF r, p, e2
<1>3. CASE Present(m, field)
  <2> DEFINE v == m[field.name]
             new == With(some, field.name, v)
             y == DecodeField(field.kind, b, next)
             r2 == Map(y, LAMBDA x : With(some, field.name, x))
             last == next + Len(e2)
  <2>1. next \in Nat
    BY DEF Bytes
  <2>2. e2 \in Bytes /\ Agrees(y, b, next, e2, v)
    <3> HIDE DEF p, next
    <3> QED
      BY <1>3, <2>1 DEF p, CodesField
  <2>3. ASSUME y = Ok(v, last) PROVE r2 = Ok(new, last)
    <3>1. y.res = "ok" /\ y.value = v /\ y.at = last
      BY <2>3, OkParts
    <3> HIDE DEF y, last, v
    <3> QED
      BY <3>1, Zenon DEF Map, Then
  <2>4. y.res # "ok" => r2 = y
    BY Zenon DEF Map, Then
  <2>5. ASSUME r1 = Ok(some, next) PROVE r = r2
    <3>1. r1.res = "ok" /\ r1.value = some /\ r1.at = next
      BY <2>5, OkParts
    <3> HIDE DEF next
    <3> QED
      BY <1>3, <3>1, Zenon DEF FieldStep, Map, Then
  <2> HIDE DEF r2, r, y, new, p, e2, v
  <2>6. Agrees(r2, b, next, e2, new)
    BY <2>1, <2>2, <2>3, <2>4, Mapped
  <2>7. Agrees(r, b, at, e1 \o e2, new)
    BY <1>1, <2>1, <2>2, <2>5, <2>6, Sequenced
  <2> QED
    BY <1>3, <2>2, <2>7 DEF r, p, e2, new, v
<1> QED
  BY <1>2, <1>3

\* Fields of which each depends on none, on one that is known, or on one before it.
WellFormed(fields, known) ==
    /\ Len(fields) \in Nat /\ DOMAIN fields = 1..Len(fields)
    /\ \A n \in 1..Len(fields) :
        /\ fields[n].kind \in Kinds
        /\ \/ fields[n].on = Always
           \/ fields[n].on \in known
           \/ \E i \in 1..Len(fields) : i < n /\ fields[i].name = fields[n].on /\ fields[i].on = Always

\* The fields of m that are there, among the first n, and what is decoded from them.
Names(m, fields, n) == {fields[i].name : i \in {j \in 1..n : Present(m, fields[j])}}
Part(m, before, fields, n) ==
    [f \in DOMAIN before \cup Names(m, fields, n) |->
        IF f \in Names(m, fields, n) THEN m[f] ELSE before[f]]

\* The fields of m have their types, those that are known are what they are in m.
Typed(m, before, fields, known) ==
    /\ \A g \in known : g \in DOMAIN before /\ g \in DOMAIN m /\ m[g] = before[g]
    /\ \A n \in 1..Len(fields) : Present(m, fields[n]) =>
        /\ fields[n].name \in DOMAIN m
        /\ HasType(fields[n].kind, m[fields[n].name])
        /\ fields[n].kind \in {"params", "extensions"} => Carried(m[fields[n].name])

\* Whether a field is there is known when it is reached.
LEMMA PresentInPart ==
  ASSUME NEW m, NEW before, NEW fields, NEW known, WellFormed(fields, known),
         Typed(m, before, fields, known), NEW n \in Nat, n < Len(fields)
  PROVE  Present(Part(m, before, fields, n), fields[n + 1]) <=> Present(m, fields[n + 1])
<1> DEFINE field == fields[n + 1]
           g == field.on
           some == Part(m, before, fields, n)
<1>0. n + 1 \in 1..Len(fields) /\ Len(fields) \in Nat
  BY DEF WellFormed
<1>1. CASE g = Always
  BY <1>1 DEF Present
<1>2. CASE g \in known
  <2>1. g \in DOMAIN before /\ g \in DOMAIN m /\ m[g] = before[g]
    BY <1>2 DEF Typed
  <2>2. g \in DOMAIN some /\ some[g] = m[g]
    BY <2>1 DEF Part
  <2>3. g \in DOMAIN m
    BY <2>1
  <2> HIDE DEF some, g
  <2> QED
    BY <2>2, <2>3 DEF Present, g, some
<1>3. ASSUME NEW i \in 1..Len(fields), i < n + 1, fields[i].name = g, fields[i].on = Always
      PROVE  Present(some, field) <=> Present(m, field)
  <2>1. Present(m, fields[i])
    BY <1>3 DEF Present
  <2>2. g \in DOMAIN m
    BY <1>3, <2>1 DEF Typed
  <2>3. g \in Names(m, fields, n)
    <3>1. i \in {j \in 1..n : Present(m, fields[j])}
      BY <1>0, <1>3, <2>1
    <3> QED
      BY <1>3, <3>1 DEF Names
  <2>4. g \in DOMAIN some /\ some[g] = m[g]
    BY <2>3 DEF Part
  <2> HIDE DEF some, g
  <2> QED
    BY <2>2, <2>4 DEF Present, g
<1> QED
  BY <1>0, <1>1, <1>2, <1>3 DEF WellFormed

\* One more field of a record.
LEMMA NextPart ==
  ASSUME NEW m, NEW before, NEW fields, NEW n \in Nat
  PROVE  /\ Part(m, before, fields, 0) = [f \in DOMAIN before |-> before[f]]
         /\ Part(m, before, fields, n + 1) =
              IF Present(m, fields[n + 1])
              THEN With(Part(m, before, fields, n), fields[n + 1].name, m[fields[n + 1].name])
              ELSE Part(m, before, fields, n)
<1> DEFINE P(k) == {j \in 1..k : Present(m, fields[j])}
           name == fields[n + 1].name
<1>1. Names(m, fields, 0) = {}
  BY DEF Names
<1>2. Part(m, before, fields, 0) = [f \in DOMAIN before |-> before[f]]
  BY <1>1 DEF Part
<1>3. CASE Present(m, fields[n + 1])
  <2>1. P(n + 1) = P(n) \cup {n + 1}
    BY <1>3
  <2>2. Names(m, fields, n + 1) = Names(m, fields, n) \cup {name}
    BY <2>1 DEF Names
  <2> HIDE DEF name
  <2>3. Part(m, before, fields, n + 1) = With(Part(m, before, fields, n), name, m[name])
    BY <2>2 DEF Part, With
  <2> QED
    BY <1>2, <1>3, <2>3 DEF name
<1>4. CASE ~Present(m, fields[n + 1])
  <2>1. P(n + 1) = P(n)
    BY <1>4
  <2>2. Names(m, fields, n + 1) = Names(m, fields, n)
    BY <2>1 DEF Names
  <2> QED
    BY <1>2, <1>4, <2>2 DEF Part
<1> QED
  BY <1>3, <1>4

\* The fields of a record one by one, by induction.
LEMMA FieldsAgree ==
  ASSUME NEW m, NEW before, NEW fields, NEW known, WellFormed(fields, known),
         Typed(m, before, fields, known), before = [f \in DOMAIN before |-> before[f]],
         EncodeFields(m, fields).res = "ok"
  PROVE  /\ EncodeFields(m, fields).bytes \in Bytes
         /\ \A b \in Bytes, at \in Nat :
                Agrees(DecodeFields(before, b, at, fields), b, at, EncodeFields(m, fields).bytes,
                       Part(m, before, fields, Len(fields)))
<1> DEFINE N == Len(fields)
           parts == [i \in DOMAIN fields |-> FieldPart(m, fields[i])]
           C(i) == CodesField(fields[i].kind, parts[i], m[fields[i].name])
<1>0. /\ N \in Nat /\ DOMAIN fields = 1..N /\ 0 \in 0..N /\ N \in 0..N
      /\ \A n \in 0..N : n # N => n + 1 \in 1..N /\ n + 1 \in 0..N /\ n < N
  BY DEF WellFormed
<1>1. EncodeFields(m, fields) = All(parts)
  BY Zenon DEF EncodeFields, EncodeEach, FieldPart
<1>2. Len(parts) = N /\ \A i \in 1..N : parts[i] = FieldPart(m, fields[i])
  BY <1>0
<1>3. ASSUME NEW i \in 1..N, Present(m, fields[i]) PROVE C(i)
  <2>1. /\ fields[i].kind \in Kinds /\ fields[i].name \in DOMAIN m
        /\ HasType(fields[i].kind, m[fields[i].name])
        /\ fields[i].kind \in {"params", "extensions"} => Carried(m[fields[i].name])
    BY <1>3 DEF WellFormed, Typed
  <2>2. parts[i] = EncodeField(fields[i].kind, m[fields[i].name])
    BY <1>2, <1>3, <2>1 DEF FieldPart
  <2> HIDE DEF parts
  <2> QED
    BY <2>1, <2>2, FieldCodes
<1> HIDE DEF parts
<1>4. \A i \in 1..Len(parts) : IsEncoding(parts[i])
  <2>1. ASSUME NEW i \in 1..N PROVE IsEncoding(parts[i])
    <3>1. CASE Present(m, fields[i])
      BY <1>3, <3>1 DEF CodesField, IsEncoding
    <3>2. CASE ~Present(m, fields[i])
      <4>1. parts[i] = Encoded(<<>>)
        BY <1>2, <3>2 DEF FieldPart
      <4>2. <<>> \in Bytes
        BY DEF Bytes
      <4> QED
        BY <4>1, <4>2, Results DEF IsEncoding
    <3> QED
      BY <3>1, <3>2
  <2> QED
    BY <1>2, <2>1
<1>5. PICK all : IsAll(all, parts) /\ All(parts) = all[N]
  BY <1>0, <1>2, AllDefined
<1>6. all[Len(parts)].res = "ok" /\ Len(parts) \in Nat
  BY <1>0, <1>1, <1>2, <1>5
<1>7. /\ all[0].bytes = <<>>
      /\ \A n \in 0..N : all[n].res = "ok" /\ all[n].bytes \in Bytes
      /\ \A n \in 0..N : n # N =>
               /\ parts[n + 1].res = "ok" /\ parts[n + 1].bytes \in Bytes
               /\ all[n + 1].bytes = all[n].bytes \o parts[n + 1].bytes
  <2>1. IsAll(all, parts)
    BY <1>5
  <2>2. /\ all[0].bytes = <<>>
        /\ \A n \in 0..Len(parts) : all[n].res = "ok" /\ all[n].bytes \in Bytes
        /\ \A n \in 0..Len(parts) : n # Len(parts) =>
               /\ parts[n + 1].res = "ok" /\ parts[n + 1].bytes \in Bytes
               /\ all[n + 1].bytes = all[n].bytes \o parts[n + 1].bytes
    BY <1>4, <1>6, <2>1, Pieces
  <2> HIDE DEF N
  <2> QED
    BY <1>2, <2>2
<1>8. ASSUME NEW b \in Bytes, NEW at \in Nat
      PROVE  Agrees(DecodeFields(before, b, at, fields), b, at, all[N].bytes,
                    Part(m, before, fields, N))
  <2>1. PICK decoded : /\ IsFields(decoded, before, b, at, fields)
                       /\ DecodeFields(before, b, at, fields) = decoded[N]
    BY <1>0, FieldsDefined
  <2>2. /\ decoded[0] = Ok(before, at)
        /\ \A n \in 0..N : n # N => decoded[n + 1] = FieldStep(b, fields[n + 1], decoded[n])
    <3>1. \A n \in 0..N :
             decoded[n] = IF n = 0 THEN Ok(before, at) ELSE FieldStep(b, fields[n], decoded[n - 1])
      BY <2>1, Zenon DEF IsFields
    <3> HIDE DEF N
    <3>2. ASSUME NEW n \in 0..N, n # N PROVE n + 1 \in 0..N /\ n + 1 # 0 /\ (n + 1) - 1 = n
      BY <1>0, <3>2
    <3>3. ASSUME NEW n \in 0..N, n # N
          PROVE  decoded[n + 1] = FieldStep(b, fields[n + 1], decoded[n])
      BY <3>1, <3>2, <3>3
    <3> QED
      BY <1>0, <3>1, <3>3
  <2> DEFINE G == {n \in 0..N : Agrees(decoded[n], b, at, all[n].bytes, Part(m, before, fields, n))}
  <2>3. 0 \in G
    <3>1. Part(m, before, fields, 0) = before
      BY NextPart
    <3>2. Agrees(decoded[0], b, at, <<>>, before)
      BY <2>2, NothingAgrees
    <3> QED
      BY <1>0, <1>7, <3>1, <3>2
  <2>4. ASSUME NEW n \in 0..N, n \in G, n # N PROVE n + 1 \in G
    <3> DEFINE some == Part(m, before, fields, n)
               field == fields[n + 1]
               e1 == all[n].bytes
               p == FieldPart(m, field)
               new == IF Present(m, field) THEN With(some, field.name, m[field.name]) ELSE some
    <3>1. n + 1 \in 1..N /\ n + 1 \in 0..N /\ n < N /\ n \in Nat
      BY <1>0, <2>4
    <3>2. Present(some, field) <=> Present(m, field)
      BY <3>1, PresentInPart
    <3>3. p = parts[n + 1]
      BY <1>2, <3>1
    <3>4. p.res = "ok" /\ (Present(m, field) => CodesField(field.kind, p, m[field.name]))
      BY <1>3, <1>7, <2>4, <3>1, <3>3
    <3>5. e1 \in Bytes /\ Agrees(decoded[n], b, at, e1, some)
      BY <1>7, <2>4
    <3>6. Part(m, before, fields, n + 1) = new
      BY <3>1, NextPart
    <3> HIDE DEF some, field, e1
    <3>7. Agrees(FieldStep(b, field, decoded[n]), b, at, e1 \o p.bytes, new)
      BY <3>2, <3>4, <3>5, OneField
    <3>8. decoded[n + 1] = FieldStep(b, field, decoded[n])
      BY <2>2, <2>4 DEF field
    <3>9. all[n + 1].bytes = e1 \o p.bytes
      BY <1>7, <2>4, <3>3 DEF e1
    <3> QED
      BY <3>1, <3>6, <3>7, <3>8, <3>9
  <2> HIDE DEF G
  <2>5. \A n \in 0..N : n \in G
    <3> HIDE DEF N
    <3> QED
      BY <1>0, <2>3, <2>4, UpTo
  <2> QED
    BY <1>0, <2>1, <2>5 DEF G
<1> QED
  BY <1>0, <1>1, <1>5, <1>7, <1>8

\* A part is no longer than the whole.
LEMMA PartFits ==
  ASSUME NEW parts, Len(parts) \in Nat, All(parts).res = "ok",
         \A i \in 1..Len(parts) : IsEncoding(parts[i])
  PROVE  /\ All(parts).bytes \in Bytes
         /\ \A i \in 1..Len(parts) :
                /\ parts[i].res = "ok" /\ parts[i].bytes \in Bytes
                /\ Len(parts[i].bytes) <= Len(All(parts).bytes)
<1> DEFINE N == Len(parts)
<1>0. N \in Nat /\ N \in 0..N
  OBVIOUS
<1>1. PICK all : IsAll(all, parts) /\ All(parts) = all[N]
  BY AllDefined
<1>2. IsAll(all, parts) /\ all[N].res = "ok"
  BY <1>1
<1>3. /\ \A n \in 0..N : all[n].bytes \in Bytes
      /\ \A n \in 0..N : n # N =>
               /\ parts[n + 1].res = "ok" /\ parts[n + 1].bytes \in Bytes
               /\ all[n + 1].bytes = all[n].bytes \o parts[n + 1].bytes
  BY <1>2, Pieces
<1> DEFINE L(n) == Len(all[n].bytes)
<1>4. \A n \in 0..N : L(n) \in Nat
  BY <1>3 DEF Bytes
<1>5. \A x \in Bytes, y \in Bytes : Len(x) \in Nat /\ Len(y) \in Nat /\ Len(x \o y) = Len(x) + Len(y)
  BY DEF Bytes
<1>6. ASSUME NEW n \in 0..N, n # N
      PROVE  L(n + 1) = L(n) + Len(parts[n + 1].bytes) /\ Len(parts[n + 1].bytes) \in Nat
  BY <1>3, <1>5, <1>6
<1> HIDE DEF N, L
<1>7. \A n \in 0..N : L(n) <= L(N)
  <2> DEFINE G == {n \in 0..N : L(N - n) <= L(N)}
  <2>1. 0 \in G
    BY <1>0, <1>4
  <2>2. ASSUME NEW n \in 0..N, n \in G, n # N PROVE n + 1 \in G
    <3>1. N - n - 1 \in 0..N /\ N - n - 1 # N /\ N - n - 1 + 1 = N - n /\ N - (n + 1) = N - n - 1
          /\ n + 1 \in 0..N /\ N - n \in 0..N
      BY <1>0, <2>2
    <3>2. L(N - n) >= L(N - n - 1)
      <4>1. PICK j \in 0..N : j # N /\ j = N - n - 1 /\ j + 1 = N - n
        BY <3>1
      <4>2. L(j + 1) = L(j) + Len(parts[j + 1].bytes) /\ Len(parts[j + 1].bytes) \in Nat
        BY <1>6, <4>1
      <4>3. L(j) \in Nat /\ L(j + 1) >= L(j)
        BY <1>4, <4>1, <4>2
      <4> QED
        BY <4>1, <4>3
    <3>3. L(N - n) \in Nat /\ L(N - n - 1) \in Nat /\ L(N) \in Nat /\ L(N - n) <= L(N)
      BY <1>0, <1>4, <2>2, <3>1
    <3>4. L(N - n - 1) <= L(N)
      BY <3>2, <3>3
    <3> QED
      BY <3>1, <3>4
  <2>3. \A n \in 0..N : n \in G
    <3> HIDE DEF G
    <3> QED
      BY <1>0, <2>1, <2>2, UpTo
  <2>4. ASSUME NEW n \in 0..N PROVE L(n) <= L(N)
    <3>1. N - n \in 0..N /\ N - (N - n) = n
      BY <1>0
    <3> QED
      BY <2>3, <3>1
  <2> QED
    BY <2>4
<1>8. ASSUME NEW i \in 1..N
      PROVE  parts[i].res = "ok" /\ parts[i].bytes \in Bytes /\ Len(parts[i].bytes) <= L(N)
  <2>1. i - 1 \in 0..N /\ i - 1 # N /\ (i - 1) + 1 = i /\ i \in 0..N
    BY <1>0
  <2>2. L(i) = L(i - 1) + Len(parts[i].bytes) /\ Len(parts[i].bytes) \in Nat
    BY <1>6, <2>1
  <2>3. L(i) <= L(N) /\ L(i) \in Nat /\ L(i - 1) \in Nat /\ L(N) \in Nat
    BY <1>0, <1>4, <1>7, <2>1
  <2>4. Len(parts[i].bytes) <= L(N)
    BY <2>2, <2>3
  <2> QED
    BY <1>3, <2>1, <2>4
<1> QED
  BY <1>0, <1>1, <1>3, <1>8 DEF L, N

\* A pair is no shorter than its value.
LEMMA PairShape ==
  ASSUME NEW kvp, IsKeyValuePair(kvp), EncodeKeyValuePair(kvp).res = "ok"
  PROVE  /\ EncodeKeyValuePair(kvp).bytes \in Bytes
         /\ kvp.value.kind = "bytes" =>
                Len(kvp.value.value) <= Len(EncodeKeyValuePair(kvp).bytes)
<1> DEFINE key == kvp.key
           kind == kvp.value.kind
           value == kvp.value.value
           c1 == EncodeVarInt(key)
           c2 == IF kind = "int" THEN EncodeVarInt(value) ELSE EncodeBytes(value, VarIntMax)
<1>0. VarIntMax \in Nat
  BY CodingAssumption DEF CodingAssumption
<1>1. key \in Nat /\ ((kind = "int" /\ value \in Nat) \/ (kind = "bytes" /\ value \in Bytes))
  BY Zenon DEF IsKeyValuePair
<1>2. EncodeKeyValuePair(kvp) = Both(c1, c2)
  BY Results DEF EncodeKeyValuePair
<1>3. c1.res = "ok" /\ c2.res = "ok" /\ EncodeKeyValuePair(kvp).bytes = c1.bytes \o c2.bytes
  BY <1>2, BothOk
<1>4. c1.bytes \in Bytes
  BY <1>1, <1>3, VarIntAgrees
<1>5. CASE kind = "int"
  <2>1. c2.bytes \in Bytes
    BY <1>1, <1>3, <1>5, VarIntAgrees
  <2> HIDE DEF c1, c2
  <2>2. c1.bytes \o c2.bytes \in Bytes
    BY <1>4, <2>1 DEF Bytes
  <2> QED
    BY <1>3, <1>5, <2>2
<1>6. CASE kind = "bytes"
  <2>1. c2 = EncodeBytes(value, VarIntMax) /\ value \in Bytes
    BY <1>1, <1>6
  <2>2. EncodeBytes(value, VarIntMax).res = "ok"
    BY <1>3, <2>1
  <2>3. c2.bytes \in Bytes /\ Len(c2.bytes) >= 1 + Len(value)
    BY <1>0, <2>1, <2>2, BytesAgree
  <2>4. Len(value) \in Nat
    BY <2>1 DEF Bytes
  <2>5. \A x \in Bytes, y \in Bytes :
           x \o y \in Bytes /\ Len(x \o y) = Len(x) + Len(y) /\ Len(x) \in Nat /\ Len(y) \in Nat
    BY DEF Bytes
  <2> HIDE DEF c1, c2, value
  <2> DEFINE l1 == Len(c1.bytes)
             l2 == Len(c2.bytes)
             l3 == Len(value)
             l == Len(c1.bytes \o c2.bytes)
  <2>6a. c1.bytes \o c2.bytes \in Bytes /\ l = l1 + l2 /\ l1 \in Nat /\ l2 \in Nat
    BY <1>4, <2>3, <2>5
  <2>6b. l3 \in Nat /\ l2 >= 1 + l3
    BY <2>3, <2>4
  <2> HIDE DEF l1, l2, l3, l
  <2>6c. l3 <= l
    BY <2>6a, <2>6b
  <2>6. c1.bytes \o c2.bytes \in Bytes /\ Len(value) <= Len(c1.bytes \o c2.bytes)
    BY <2>6a, <2>6c DEF l, l3
  <2> QED
    BY <1>3, <2>6 DEF value
<1> QED
  BY <1>1, <1>5, <1>6

\* The values of parameters that fit into a message are taken by its receiver.
LEMMA PairsCarried ==
  ASSUME NEW kvps, IsSequence(kvps), \A i \in DOMAIN kvps : IsKeyValuePair(kvps[i]),
         EncodeKeyValuePairs(kvps).res = "ok"
  PROVE  /\ EncodeKeyValuePairs(kvps).bytes \in Bytes
         /\ Len(EncodeKeyValuePairs(kvps).bytes) <= U16Max => Carried(kvps)
<1> DEFINE n == Len(kvps)
           parts == [i \in DOMAIN kvps |-> EncodeKeyValuePair(kvps[i])]
           c1 == EncodeVarInt(n)
           c2 == All(parts)
<1>1. Len(parts) = n /\ DOMAIN kvps = 1..n /\ n \in Nat
  BY EachParts
<1>2. EncodeKeyValuePairs(kvps) = Both(c1, c2)
  BY Zenon DEF EncodeKeyValuePairs, EncodeEach
<1>3. c1.res = "ok" /\ c2.res = "ok" /\ EncodeKeyValuePairs(kvps).bytes = c1.bytes \o c2.bytes
  BY <1>2, BothOk
<1>4. c1.bytes \in Bytes
  BY <1>1, <1>3, VarIntAgrees
<1>5. \A i \in 1..Len(parts) : parts[i] = EncodeKeyValuePair(kvps[i]) /\ IsKeyValuePair(kvps[i])
  BY <1>1
<1> HIDE DEF parts
<1>6. \A i \in 1..Len(parts) : IsEncoding(parts[i])
  BY <1>5, PairShape DEF IsEncoding
<1>7. Len(parts) \in Nat /\ All(parts).res = "ok"
  BY <1>1, <1>3
<1>8. /\ All(parts).bytes \in Bytes
      /\ \A i \in 1..Len(parts) :
                /\ parts[i].res = "ok" /\ parts[i].bytes \in Bytes
                /\ Len(parts[i].bytes) <= Len(All(parts).bytes)
  BY <1>6, <1>7, PartFits
<1>9. U16Max \in Nat
  BY CodingAssumption DEF CodingAssumption
<1>10. /\ c1.bytes \o c2.bytes \in Bytes
       /\ Len(c1.bytes \o c2.bytes) = Len(c1.bytes) + Len(c2.bytes)
       /\ Len(c1.bytes) \in Nat /\ Len(c2.bytes) \in Nat
  BY <1>4, <1>8 DEF Bytes
<1>11. ASSUME Len(c1.bytes \o c2.bytes) <= U16Max, NEW i \in DOMAIN kvps, kvps[i].value.kind = "bytes"
       PROVE  Len(kvps[i].value.value) <= U16Max
  <2>1. i \in 1..Len(parts)
    BY <1>1
  <2>2. /\ Len(kvps[i].value.value) <= Len(parts[i].bytes) /\ kvps[i].value.value \in Bytes
        /\ parts[i].bytes \in Bytes /\ Len(parts[i].bytes) <= Len(c2.bytes)
    <3>1. IsKeyValuePair(kvps[i]) /\ parts[i].res = "ok" /\ parts[i] = EncodeKeyValuePair(kvps[i])
      BY <1>5, <1>8, <2>1
    <3>2. kvps[i].value.value \in Bytes
      BY <1>11, <3>1 DEF IsKeyValuePair
    <3> QED
      BY <1>8, <1>11, <2>1, <3>1, <3>2, PairShape
  <2>3. \A x \in Bytes : Len(x) \in Nat
    BY DEF Bytes
  <2> HIDE DEF c1, c2
  <2>4. Len(kvps[i].value.value) \in Nat /\ Len(parts[i].bytes) \in Nat
    BY <2>2, <2>3
  <2> DEFINE l1 == Len(c1.bytes)
             l2 == Len(c2.bytes)
             l3 == Len(kvps[i].value.value)
             l4 == Len(parts[i].bytes)
  <2>5. l1 \in Nat /\ l2 \in Nat /\ l3 \in Nat /\ l4 \in Nat /\ l1 + l2 <= U16Max /\ l3 <= l4 /\ l4 <= l2
    BY <1>10, <1>11, <2>2, <2>4
  <2> HIDE DEF l1, l2, l3, l4
  <2>6. l3 <= U16Max
    BY <1>9, <2>5
  <2> QED
    BY <2>6 DEF l3
<1> QED
  BY <1>3, <1>10, <1>11 DEF Carried

-----------------------------------------------------------------------------
(* The messages.                                                           *)

\* The fields of a message.
MessageFields(fields) ==
    /\ WellFormed(fields, {})
    /\ \A n \in 1..Len(fields) : fields[n].kind # "extensions" /\ fields[n].name # "payload"

\* The fields of every message are of known kinds, and what they depend on is before them.
LEMMA SubscribeFields == MessageFields(SubscribeWritten)
  BY DEF SubscribeWritten, Id, Namespace, Name, Priority, Order, Forward, Filter,
       FilterStart, Start, FilterEnd, End, Params, Field, When, MessageFields, WellFormed,
       Kinds, Always
LEMMA SubscribeOkFields == MessageFields(SubscribeOkWritten)
  BY DEF SubscribeOkWritten, Id, Alias, Expires, Order, ContentExists, LargestIfAny,
       Largest, Params, Field, When, MessageFields, WellFormed, Kinds, Always
LEMMA SubscribeErrorFields == MessageFields(SubscribeErrorWritten)
  BY DEF SubscribeErrorWritten, Id, ErrorCode, Reason, Field, MessageFields, WellFormed,
       Kinds, Always
LEMMA SubscribeUpdateFields == MessageFields(SubscribeUpdateWritten)
  BY DEF SubscribeUpdateWritten, Id, Start, End, Priority, Forward, Params, Field,
       MessageFields, WellFormed, Kinds, Always
LEMMA UnsubscribeFields == MessageFields(UnsubscribeWritten)
  BY DEF UnsubscribeWritten, Id, Field, MessageFields, WellFormed, Kinds, Always
LEMMA PublishNamespaceFields == MessageFields(PublishNamespaceWritten)
  BY DEF PublishNamespaceWritten, Id, Namespace, Params, Field, MessageFields, WellFormed,
       Kinds, Always
LEMMA PublishNamespaceDoneFields == MessageFields(PublishNamespaceDoneWritten)
  BY DEF PublishNamespaceDoneWritten, Namespace, Field, MessageFields, WellFormed, Kinds,
       Always
LEMMA PublishNamespaceOkFields == MessageFields(PublishNamespaceOkWritten)
  BY DEF PublishNamespaceOkWritten, Id, Field, MessageFields, WellFormed, Kinds, Always
LEMMA PublishNamespaceErrorFields == MessageFields(PublishNamespaceErrorWritten)
  BY DEF PublishNamespaceErrorWritten, Id, ErrorCode, Reason, Field, MessageFields,
       WellFormed, Kinds, Always
LEMMA PublishNamespaceCancelFields == MessageFields(PublishNamespaceCancelWritten)
  BY DEF PublishNamespaceCancelWritten, Namespace, ErrorCode, Reason, Field, MessageFields,
       WellFormed, Kinds, Always
LEMMA TrackStatusFields == MessageFields(TrackStatusWritten)
  BY DEF TrackStatusWritten, Id, Namespace, Name, Priority, Order, Forward, Filter,
       FilterStart, Start, FilterEnd, End, Params, Field, When, MessageFields, WellFormed,
       Kinds, Always
LEMMA TrackStatusOkFields == MessageFields(TrackStatusOkWritten)
  BY DEF TrackStatusOkWritten, Id, Alias, Expires, Order, ContentExists, LargestIfAny,
       Largest, Params, Field, When, MessageFields, WellFormed, Kinds, Always
LEMMA TrackStatusErrorFields == MessageFields(TrackStatusErrorWritten)
  BY DEF TrackStatusErrorWritten, Id, ErrorCode, Reason, Field, MessageFields, WellFormed,
       Kinds, Always
LEMMA SubscribeNamespaceFields == MessageFields(SubscribeNamespaceWritten)
  BY DEF SubscribeNamespaceWritten, Id, Prefix, Params, Field, MessageFields, WellFormed,
       Kinds, Always
LEMMA SubscribeNamespaceOkFields == MessageFields(SubscribeNamespaceOkWritten)
  BY DEF SubscribeNamespaceOkWritten, Id, Field, MessageFields, WellFormed, Kinds, Always
LEMMA SubscribeNamespaceErrorFields == MessageFields(SubscribeNamespaceErrorWritten)
  BY DEF SubscribeNamespaceErrorWritten, Id, ErrorCode, Reason, Field, MessageFields,
       WellFormed, Kinds, Always
LEMMA UnsubscribeNamespaceFields == MessageFields(UnsubscribeNamespaceWritten)
  BY DEF UnsubscribeNamespaceWritten, Prefix, Field, MessageFields, WellFormed, Kinds,
       Always
LEMMA FetchFields == MessageFields(FetchWritten)
<1> DEFINE a1 == Id
           a2 == Priority
           a3 == Order
           a4 == Field("fetch_type", "fetch")
           a5 == IfStandalone(Namespace)
           a6 == IfStandalone(Name)
           a7 == IfStandalone(Start)
           a8 == IfStandalone(Field("end_location", "location"))
           a9 == IfJoining(Field("joining_request_id", "u64"))
           a10 == IfJoining(Field("joining_start", "u64"))
           a11 == Params
           s4 == <<a1, a2, a3, a4>>
           s8 == <<a1, a2, a3, a4, a5, a6, a7, a8>>
           s10 == <<a1, a2, a3, a4, a5, a6, a7, a8, a9, a10>>
           s11 == <<a1, a2, a3, a4, a5, a6, a7, a8, a9, a10, a11>>
<1>1. FetchWritten = ((s4 \o <<a5, a6, a7, a8>>) \o <<a9, a10>>) \o <<a11>>
  BY Zenon DEF FetchWritten, StandaloneFetch, JoiningFetch
<1>2. MessageFields(s11)
  BY DEF Id, Namespace, Name, Priority, Order, Start, Params, IfStandalone, IfJoining, When,
         Field, MessageFields, WellFormed, Kinds, Always
<1> HIDE DEF a1, a2, a3, a4, a5, a6, a7, a8, a9, a10, a11
<1>3. s4 \o <<a5, a6, a7, a8>> = s8
  <2> DEFINE s == s4 \o <<a5, a6, a7, a8>>
             S == {a1, a2, a3, a4, a5, a6, a7, a8}
  <2>1. s8 \in Seq(S) /\ Len(s8) = 8 /\ s \in Seq(S) /\ Len(s) = 8
    OBVIOUS
  <2>2. s[1] = s8[1] /\ s[2] = s8[2] /\ s[3] = s8[3] /\ s[4] = s8[4] /\ s[5] = s8[5] /\ s[6] = s8[6] /\ s[7] = s8[7] /\ s[8] = s8[8]
    OBVIOUS
  <2> HIDE DEF s, S, s8
  <2>3. \A i \in 1..8 : i = 1 \/ i = 2 \/ i = 3 \/ i = 4 \/ i = 5 \/ i = 6 \/ i = 7 \/ i = 8
    OBVIOUS
  <2>4. \A i \in 1..8 : s[i] = s8[i]
    BY <2>2, <2>3
  <2>5. s = s8
    BY <2>1, <2>4, SeqEqual
  <2> QED
    BY <2>5 DEF s
<1>4. s8 \o <<a9, a10>> = s10
  <2> DEFINE s == s8 \o <<a9, a10>>
             S == {a1, a2, a3, a4, a5, a6, a7, a8, a9, a10}
  <2>1. s10 \in Seq(S) /\ Len(s10) = 10 /\ s \in Seq(S) /\ Len(s) = 10
    OBVIOUS
  <2>2. s[1] = s10[1] /\ s[2] = s10[2] /\ s[3] = s10[3] /\ s[4] = s10[4] /\ s[5] = s10[5] /\ s[6] = s10[6] /\ s[7] = s10[7] /\ s[8] = s10[8] /\ s[9] = s10[9] /\ s[10] = s10[10]
    OBVIOUS
  <2> HIDE DEF s, S, s10
  <2>3. \A i \in 1..10 : i = 1 \/ i = 2 \/ i = 3 \/ i = 4 \/ i = 5 \/ i = 6 \/ i = 7 \/ i = 8 \/ i = 9 \/ i = 10
    OBVIOUS
  <2>4. \A i \in 1..10 : s[i] = s10[i]
    BY <2>2, <2>3
  <2>5. s = s10
    BY <2>1, <2>4, SeqEqual
  <2> QED
    BY <2>5 DEF s
<1>5. s10 \o <<a11>> = s11
  <2> DEFINE s == s10 \o <<a11>>
             S == {a1, a2, a3, a4, a5, a6, a7, a8, a9, a10, a11}
  <2>1. s11 \in Seq(S) /\ Len(s11) = 11 /\ s \in Seq(S) /\ Len(s) = 11
    OBVIOUS
  <2>2. s[1] = s11[1] /\ s[2] = s11[2] /\ s[3] = s11[3] /\ s[4] = s11[4] /\ s[5] = s11[5] /\ s[6] = s11[6] /\ s[7] = s11[7] /\ s[8] = s11[8] /\ s[9] = s11[9] /\ s[10] = s11[10] /\ s[11] = s11[11]
    OBVIOUS
  <2> HIDE DEF s, S, s11
  <2>3. \A i \in 1..11 : i = 1 \/ i = 2 \/ i = 3 \/ i = 4 \/ i = 5 \/ i = 6 \/ i = 7 \/ i = 8 \/ i = 9 \/ i = 10 \/ i = 11
    OBVIOUS
  <2>4. \A i \in 1..11 : s[i] = s11[i]
    BY <2>2, <2>3
  <2>5. s = s11
    BY <2>1, <2>4, SeqEqual
  <2> QED
    BY <2>5 DEF s
<1> HIDE DEF s4, s8, s10, s11
<1> QED
  BY <1>1, <1>2, <1>3, <1>4, <1>5
LEMMA FetchCancelFields == MessageFields(FetchCancelWritten)
  BY DEF FetchCancelWritten, Id, Field, MessageFields, WellFormed, Kinds, Always
LEMMA FetchOkFields == MessageFields(FetchOkWritten)
  BY DEF FetchOkWritten, Id, OrderOnly, Params, Field, MessageFields, WellFormed, Kinds,
       Always
LEMMA FetchErrorFields == MessageFields(FetchErrorWritten)
  BY DEF FetchErrorWritten, Id, ErrorCode, Reason, Field, MessageFields, WellFormed, Kinds,
       Always
LEMMA PublishFields == MessageFields(PublishWritten)
  BY DEF PublishWritten, Id, Namespace, Name, Alias, OrderOnly, ContentExists, LargestIfAny,
       Largest, Forward, Params, Field, When, MessageFields, WellFormed, Kinds, Always
LEMMA PublishOkFields == MessageFields(PublishOkWritten)
  BY DEF PublishOkWritten, Id, Forward, Priority, Order, Filter, FilterStart, Start,
       FilterEnd, End, Params, Field, When, MessageFields, WellFormed, Kinds, Always
LEMMA PublishErrorFields == MessageFields(PublishErrorWritten)
  BY DEF PublishErrorWritten, Id, ErrorCode, Reason, Field, MessageFields, WellFormed,
       Kinds, Always
LEMMA PublishDoneFields == MessageFields(PublishDoneWritten)
  BY DEF PublishDoneWritten, Id, Reason, Field, MessageFields, WellFormed, Kinds, Always
LEMMA GoAwayFields == MessageFields(GoAwayWritten)
  BY DEF GoAwayWritten, Field, MessageFields, WellFormed, Kinds, Always
LEMMA MaxRequestIdFields == MessageFields(MaxRequestIdWritten)
  BY DEF MaxRequestIdWritten, Field, MessageFields, WellFormed, Kinds, Always
LEMMA RequestsBlockedFields == MessageFields(RequestsBlockedWritten)
  BY DEF RequestsBlockedWritten, Field, MessageFields, WellFormed, Kinds, Always

\* What is read of a message is what is written of it, in every message, and its
\* type has a number of its own.
LEMMA SameFields == FieldsRead = FieldsWritten
  BY Zenon DEF FieldsRead, FieldsWritten, SubscribeRead, SubscribeWritten, SubscribeOkRead,
       SubscribeOkWritten, SubscribeErrorRead, SubscribeErrorWritten, SubscribeUpdateRead,
       SubscribeUpdateWritten, UnsubscribeRead, UnsubscribeWritten, PublishNamespaceRead,
       PublishNamespaceWritten, PublishNamespaceDoneRead, PublishNamespaceDoneWritten,
       PublishNamespaceOkRead, PublishNamespaceOkWritten, PublishNamespaceErrorRead,
       PublishNamespaceErrorWritten, PublishNamespaceCancelRead,
       PublishNamespaceCancelWritten, TrackStatusRead, TrackStatusWritten,
       TrackStatusOkRead, TrackStatusOkWritten, TrackStatusErrorRead,
       TrackStatusErrorWritten, SubscribeNamespaceRead, SubscribeNamespaceWritten,
       SubscribeNamespaceOkRead, SubscribeNamespaceOkWritten, SubscribeNamespaceErrorRead,
       SubscribeNamespaceErrorWritten, UnsubscribeNamespaceRead,
       UnsubscribeNamespaceWritten, FetchRead, FetchWritten, FetchCancelRead,
       FetchCancelWritten, FetchOkRead, FetchOkWritten, FetchErrorRead, FetchErrorWritten,
       PublishRead, PublishWritten, PublishOkRead, PublishOkWritten, PublishErrorRead,
       PublishErrorWritten, PublishDoneRead, PublishDoneWritten, GoAwayRead, GoAwayWritten,
       MaxRequestIdRead, MaxRequestIdWritten, RequestsBlockedRead, RequestsBlockedWritten

Types ==
    {"Subscribe", "SubscribeOk", "SubscribeError", "SubscribeUpdate", "Unsubscribe",
         "PublishNamespace", "PublishNamespaceDone", "PublishNamespaceOk",
         "PublishNamespaceError", "PublishNamespaceCancel", "TrackStatus", "TrackStatusOk",
         "TrackStatusError", "SubscribeNamespace", "SubscribeNamespaceOk",
         "SubscribeNamespaceError", "UnsubscribeNamespace", "Fetch", "FetchCancel",
         "FetchOk", "FetchError", "Publish", "PublishOk", "PublishError", "PublishDone",
         "GoAway", "MaxRequestId", "RequestsBlocked"}
\* The types of messages, and the fields of each.
LEMMA AllTypes == DOMAIN MessageId = Types /\ \A t \in Types : MessageFields(FieldsWritten[t])
<1>1. DOMAIN MessageId = Types
  BY DEF MessageId, Types
<1>2. MessageFields(FieldsWritten["Subscribe"])
  <2>1. FieldsWritten["Subscribe"] = SubscribeWritten
    BY Zenon DEF FieldsWritten
  <2> QED
    BY <2>1, SubscribeFields
<1>3. MessageFields(FieldsWritten["SubscribeOk"])
  <2>1. FieldsWritten["SubscribeOk"] = SubscribeOkWritten
    BY Zenon DEF FieldsWritten
  <2> QED
    BY <2>1, SubscribeOkFields
<1>4. MessageFields(FieldsWritten["SubscribeError"])
  <2>1. FieldsWritten["SubscribeError"] = SubscribeErrorWritten
    BY Zenon DEF FieldsWritten
  <2> QED
    BY <2>1, SubscribeErrorFields
<1>5. MessageFields(FieldsWritten["SubscribeUpdate"])
  <2>1. FieldsWritten["SubscribeUpdate"] = SubscribeUpdateWritten
    BY Zenon DEF FieldsWritten
  <2> QED
    BY <2>1, SubscribeUpdateFields
<1>6. MessageFields(FieldsWritten["Unsubscribe"])
  <2>1. FieldsWritten["Unsubscribe"] = UnsubscribeWritten
    BY Zenon DEF FieldsWritten
  <2> QED
    BY <2>1, UnsubscribeFields
<1>7. MessageFields(FieldsWritten["PublishNamespace"])
  <2>1. FieldsWritten["PublishNamespace"] = PublishNamespaceWritten
    BY Zenon DEF FieldsWritten
  <2> QED
    BY <2>1, PublishNamespaceFields
<1>8. MessageFields(FieldsWritten["PublishNamespaceDone"])
  <2>1. FieldsWritten["PublishNamespaceDone"] = PublishNamespaceDoneWritten
    BY Zenon DEF FieldsWritten
  <2> QED
    BY <2>1, PublishNamespaceDoneFields
<1>9. MessageFields(FieldsWritten["PublishNamespaceOk"])
  <2>1. FieldsWritten["PublishNamespaceOk"] = PublishNamespaceOkWritten
    BY Zenon DEF FieldsWritten
  <2> QED
    BY <2>1, PublishNamespaceOkFields
<1>10. MessageFields(FieldsWritten["PublishNamespaceError"])
  <2>1. FieldsWritten["PublishNamespaceError"] = PublishNamespaceErrorWritten
    BY Zenon DEF FieldsWritten
  <2> QED
    BY <2>1, PublishNamespaceErrorFields
<1>11. MessageFields(FieldsWritten["PublishNamespaceCancel"])
  <2>1. FieldsWritten["PublishNamespaceCancel"] = PublishNamespaceCancelWritten
    BY Zenon DEF FieldsWritten
  <2> QED
    BY <2>1, PublishNamespaceCancelFields
<1>12. MessageFields(FieldsWritten["TrackStatus"])
  <2>1. FieldsWritten["TrackStatus"] = TrackStatusWritten
    BY Zenon DEF FieldsWritten
  <2> QED
    BY <2>1, TrackStatusFields
<1>13. MessageFields(FieldsWritten["TrackStatusOk"])
  <2>1. FieldsWritten["TrackStatusOk"] = TrackStatusOkWritten
    BY Zenon DEF FieldsWritten
  <2> QED
    BY <2>1, TrackStatusOkFields
<1>14. MessageFields(FieldsWritten["TrackStatusError"])
  <2>1. FieldsWritten["TrackStatusError"] = TrackStatusErrorWritten
    BY Zenon DEF FieldsWritten
  <2> QED
    BY <2>1, TrackStatusErrorFields
<1>15. MessageFields(FieldsWritten["SubscribeNamespace"])
  <2>1. FieldsWritten["SubscribeNamespace"] = SubscribeNamespaceWritten
    BY Zenon DEF FieldsWritten
  <2> QED
    BY <2>1, SubscribeNamespaceFields
<1>16. MessageFields(FieldsWritten["SubscribeNamespaceOk"])
  <2>1. FieldsWritten["SubscribeNamespaceOk"] = SubscribeNamespaceOkWritten
    BY Zenon DEF FieldsWritten
  <2> QED
    BY <2>1, SubscribeNamespaceOkFields
<1>17. MessageFields(FieldsWritten["SubscribeNamespaceError"])
  <2>1. FieldsWritten["SubscribeNamespaceError"] = SubscribeNamespaceErrorWritten
    BY Zenon DEF FieldsWritten
  <2> QED
    BY <2>1, SubscribeNamespaceErrorFields
<1>18. MessageFields(FieldsWritten["UnsubscribeNamespace"])
  <2>1. FieldsWritten["UnsubscribeNamespace"] = UnsubscribeNamespaceWritten
    BY Zenon DEF FieldsWritten
  <2> QED
    BY <2>1, UnsubscribeNamespaceFields
<1>19. MessageFields(FieldsWritten["Fetch"])
  <2>1. FieldsWritten["Fetch"] = FetchWritten
    BY Zenon DEF FieldsWritten
  <2> QED
    BY <2>1, FetchFields
<1>20. MessageFields(FieldsWritten["FetchCancel"])
  <2>1. FieldsWritten["FetchCancel"] = FetchCancelWritten
    BY Zenon DEF FieldsWritten
  <2> QED
    BY <2>1, FetchCancelFields
<1>21. MessageFields(FieldsWritten["FetchOk"])
  <2>1. FieldsWritten["FetchOk"] = FetchOkWritten
    BY Zenon DEF FieldsWritten
  <2> QED
    BY <2>1, FetchOkFields
<1>22. MessageFields(FieldsWritten["FetchError"])
  <2>1. FieldsWritten["FetchError"] = FetchErrorWritten
    BY Zenon DEF FieldsWritten
  <2> QED
    BY <2>1, FetchErrorFields
<1>23. MessageFields(FieldsWritten["Publish"])
  <2>1. FieldsWritten["Publish"] = PublishWritten
    BY Zenon DEF FieldsWritten
  <2> QED
    BY <2>1, PublishFields
<1>24. MessageFields(FieldsWritten["PublishOk"])
  <2>1. FieldsWritten["PublishOk"] = PublishOkWritten
    BY Zenon DEF FieldsWritten
  <2> QED
    BY <2>1, PublishOkFields
<1>25. MessageFields(FieldsWritten["PublishError"])
  <2>1. FieldsWritten["PublishError"] = PublishErrorWritten
    BY Zenon DEF FieldsWritten
  <2> QED
    BY <2>1, PublishErrorFields
<1>26. MessageFields(FieldsWritten["PublishDone"])
  <2>1. FieldsWritten["PublishDone"] = PublishDoneWritten
    BY Zenon DEF FieldsWritten
  <2> QED
    BY <2>1, PublishDoneFields
<1>27. MessageFields(FieldsWritten["GoAway"])
  <2>1. FieldsWritten["GoAway"] = GoAwayWritten
    BY Zenon DEF FieldsWritten
  <2> QED
    BY <2>1, GoAwayFields
<1>28. MessageFields(FieldsWritten["MaxRequestId"])
  <2>1. FieldsWritten["MaxRequestId"] = MaxRequestIdWritten
    BY Zenon DEF FieldsWritten
  <2> QED
    BY <2>1, MaxRequestIdFields
<1>29. MessageFields(FieldsWritten["RequestsBlocked"])
  <2>1. FieldsWritten["RequestsBlocked"] = RequestsBlockedWritten
    BY Zenon DEF FieldsWritten
  <2> QED
    BY <2>1, RequestsBlockedFields
<1> QED
  BY <1>1, <1>2, <1>3, <1>4, <1>5, <1>6, <1>7, <1>8, <1>9, <1>10, <1>11, <1>12, <1>13,
       <1>14, <1>15, <1>16, <1>17, <1>18, <1>19, <1>20, <1>21, <1>22, <1>23, <1>24, <1>25,
       <1>26, <1>27, <1>28, <1>29 DEF Types

\* Every type of message has a number of its own.
LEMMA OwnNumber ==
    /\ \A t \in Types : MessageId[t] \in Nat /\ MessageId[t] < 32
    /\ \A t, u \in Types : MessageId[t] = MessageId[u] => t = u
  BY DEF MessageId, Types

\* The parameters of a message that fits a frame are taken by its receiver.
LEMMA BodyCarried ==
  ASSUME NEW m, NEW names, NEW fields, NEW before, MessageFields(fields), IsRecord(m, names, fields),
         EncodeFields(m, fields).res = "ok", ~(Len(EncodeFields(m, fields).bytes) > U16Max)
  PROVE  EncodeFields(m, fields).bytes \in Bytes /\ Typed(m, before, fields, {})
<1> DEFINE N == Len(fields)
           parts == [i \in DOMAIN fields |-> FieldPart(m, fields[i])]
           V(i) == m[fields[i].name]
<1>0. /\ N \in Nat /\ DOMAIN fields = 1..N
      /\ \A n \in 1..N : fields[n].kind \in Kinds /\ fields[n].kind # "extensions"
  BY DEF MessageFields, WellFormed
<1>1. EncodeFields(m, fields) = All(parts)
  BY Zenon DEF EncodeFields, EncodeEach, FieldPart
<1>2. Len(parts) = N /\ \A i \in 1..N : parts[i] = FieldPart(m, fields[i])
  BY <1>0
<1>3. ASSUME NEW i \in 1..N, Present(m, fields[i])
      PROVE  fields[i].name \in DOMAIN m /\ HasType(fields[i].kind, V(i))
  <2> DEFINE present == {k \in DOMAIN fields : Present(m, fields[k])}
  <2>1. i \in present
    BY <1>0, <1>3
  <2>2. /\ m = [name \in names \cup {fields[k].name : k \in present} |-> m[name]]
        /\ \A k \in present : HasType(fields[k].kind, m[fields[k].name])
    BY Zenon DEF IsRecord
  <2> HIDE DEF present
  <2>3. fields[i].name \in names \cup {fields[k].name : k \in present}
    BY <2>1
  <2> QED
    BY <2>1, <2>2, <2>3
<1>4. ASSUME NEW i \in 1..N, Present(m, fields[i]), fields[i].kind = "params"
      PROVE  /\ parts[i] = EncodeKeyValuePairs(V(i)) /\ IsSequence(V(i))
             /\ \A j \in DOMAIN V(i) : IsKeyValuePair(V(i)[j])
  <2>1. parts[i] = EncodeField("params", V(i))
    BY <1>2, <1>3, <1>4 DEF FieldPart
  <2>2. HasType("params", V(i))
    BY <1>3, <1>4
  <2> HIDE DEF V, parts
  <2>3. EncodeField("params", V(i)) = EncodeKeyValuePairs(V(i))
    BY Zenon DEF EncodeField
  <2>4. IsSequence(V(i)) /\ \A j \in DOMAIN V(i) : IsKeyValuePair(V(i)[j])
    BY <2>2, Zenon DEF HasType
  <2> QED
    BY <2>1, <2>3, <2>4
<1>5. ASSUME NEW i \in 1..N, Present(m, fields[i]), fields[i].kind # "params"
      PROVE  CodesField(fields[i].kind, parts[i], V(i))
  <2>1. fields[i].kind \in Kinds /\ HasType(fields[i].kind, V(i)) /\ ~(fields[i].kind \in {"params", "extensions"})
    BY <1>0, <1>3, <1>5
  <2>2. parts[i] = EncodeField(fields[i].kind, V(i))
    BY <1>2, <1>3, <1>5 DEF FieldPart
  <2> HIDE DEF V, parts
  <2> QED
    BY <2>1, <2>2, FieldCodes
<1> HIDE DEF parts, V
<1>6. \A i \in 1..Len(parts) : IsEncoding(parts[i])
  <2>1. ASSUME NEW i \in 1..N PROVE IsEncoding(parts[i])
    <3>1. CASE Present(m, fields[i]) /\ fields[i].kind = "params"
      BY <1>4, <3>1, PairsCarried DEF IsEncoding
    <3>2. CASE Present(m, fields[i]) /\ fields[i].kind # "params"
      BY <1>5, <3>2 DEF CodesField, IsEncoding
    <3>3. CASE ~Present(m, fields[i])
      <4>1. parts[i] = Encoded(<<>>)
        BY <1>2, <3>3 DEF FieldPart
      <4>2. <<>> \in Bytes
        BY DEF Bytes
      <4> QED
        BY <4>1, <4>2, Results DEF IsEncoding
    <3> QED
      BY <3>1, <3>2, <3>3
  <2> QED
    BY <1>2, <2>1
<1>7. Len(parts) \in Nat /\ All(parts).res = "ok"
  BY <1>0, <1>1, <1>2
<1>8. /\ All(parts).bytes \in Bytes
      /\ \A i \in 1..Len(parts) :
                /\ parts[i].res = "ok" /\ parts[i].bytes \in Bytes
                /\ Len(parts[i].bytes) <= Len(All(parts).bytes)
  BY <1>6, <1>7, PartFits
<1>9. ASSUME NEW i \in 1..N, Present(m, fields[i]), fields[i].kind = "params" PROVE Carried(V(i))
  <2>1. /\ parts[i].res = "ok" /\ parts[i].bytes \in Bytes
        /\ Len(parts[i].bytes) <= Len(All(parts).bytes) /\ ~(Len(All(parts).bytes) > U16Max)
    BY <1>1, <1>2, <1>8
  <2>2. U16Max \in Nat /\ \A x \in Bytes : Len(x) \in Nat
    BY CodingAssumption DEF CodingAssumption, Bytes
  <2>3. Len(parts[i].bytes) <= U16Max
    BY <1>8, <2>1, <2>2
  <2> QED
    BY <1>4, <1>9, <2>1, <2>3, PairsCarried
<1> QED
  BY <1>0, <1>1, <1>3, <1>8, <1>9 DEF Typed, V

\* A record whose fields are all known or decoded.
LEMMA WholePart ==
  ASSUME NEW m, NEW names, NEW fields, NEW before, IsRecord(m, names, fields),
         DOMAIN fields = 1..Len(fields), DOMAIN before = names, \A f \in names : before[f] = m[f]
  PROVE  Part(m, before, fields, Len(fields)) = m
<1> DEFINE present == {k \in DOMAIN fields : Present(m, fields[k])}
           some == {fields[k].name : k \in present}
<1>1. m = [name \in names \cup some |-> m[name]]
  BY Zenon DEF IsRecord
<1>2. Names(m, fields, Len(fields)) = some
  BY DEF Names
<1> HIDE DEF some
<1>3. Part(m, before, fields, Len(fields)) = [f \in names \cup some |-> m[f]]
  BY <1>2 DEF Part
<1> QED
  BY <1>1, <1>3

\* A frame: the type, the length of the body, the body.
LEMMA FrameParts ==
  ASSUME NEW type \in Nat, NEW body, Frame(type, body).res = "ok"
  PROVE  /\ body.res = "ok" /\ ~(Len(body.bytes) > U16Max)
         /\ EncodeVarInt(type).res = "ok" /\ EncodeU16(Len(body.bytes)).res = "ok"
         /\ Frame(type, body).bytes =
                EncodeVarInt(type).bytes \o (EncodeU16(Len(body.bytes)).bytes \o body.bytes)
<1>1. body.res = "ok" /\ ~(Len(body.bytes) > U16Max)
  BY Results DEF Frame
<1> DEFINE inner == Both(EncodeU16(Len(body.bytes)), body)
<1>2. Frame(type, body) = Both(EncodeVarInt(type), inner)
  BY <1>1 DEF Frame
<1>3. EncodeVarInt(type).res = "ok" /\ inner.res = "ok"
      /\ Frame(type, body).bytes = EncodeVarInt(type).bytes \o inner.bytes
  <2> HIDE DEF inner
  <2> QED
    BY <1>2, BothOk
<1>4. EncodeU16(Len(body.bytes)).res = "ok" /\ inner.bytes = EncodeU16(Len(body.bytes)).bytes \o body.bytes
  BY <1>3, BothOk
<1> QED
  BY <1>1, <1>3, <1>4

-----------------------------------------------------------------------------
(* Frames, and what is in them.                                            *)

\* One decoder after another, where the second depends on what the first found.
LEMMA Chained ==
  ASSUME NEW b \in Bytes, NEW at \in Nat, NEW e1 \in Bytes, NEW e2 \in Bytes,
         NEW v1, NEW v2, NEW r1, NEW r,
         Agrees(r1, b, at, e1, v1),
         r1 = Ok(v1, at + Len(e1)) => Agrees(r, b, at + Len(e1), e2, v2),
         r1.res # "ok" => r = r1
  PROVE  Agrees(r, b, at, e1 \o e2, v2)
<1> DEFINE next == at + Len(e1)
           r2 == IF r1 = Ok(v1, next) THEN r
                 ELSE IF next + Len(e2) <= Len(b) THEN Ok(v2, next + Len(e2)) ELSE More(1)
<1>1. next \in Nat /\ next + Len(e2) \in Nat /\ Len(b) \in Nat
  BY DEF Bytes
<1>2. Agrees(r2, b, next, e2, v2)
  <2>1. CASE r1 = Ok(v1, next)
    BY <2>1
  <2>2. CASE r1 # Ok(v1, next)
    <3>1. CASE next + Len(e2) <= Len(b)
      BY <2>2, <3>1 DEF Agrees
    <3>2. CASE ~(next + Len(e2) <= Len(b))
      <4>1. r2 = More(1)
        BY <2>2, <3>2
      <4>2. 1 \in 1..(next + Len(e2) - Len(b))
        BY <1>1, <3>2
      <4> HIDE DEF r2, next
      <4> QED
        BY <3>2, <4>1, <4>2 DEF Agrees
    <3> QED
      BY <3>1, <3>2
  <2> QED
    BY <2>1, <2>2
<1>3. r1 = Ok(v1, next) => r = r2
  OBVIOUS
<1> HIDE DEF r2
<1> QED
  BY <1>2, <1>3, Sequenced

\* A frame is decoded as its body is.
LEMMA FrameAgrees ==
  ASSUME NEW type \in Nat, NEW body, IsEncoding(body), Frame(type, body).res = "ok",
         NEW b \in Bytes, NEW at \in Nat, NEW v, NEW r,
         DecodeVarInt(b, at).res # "ok" => r = DecodeVarInt(b, at),
         \A next \in Nat : DecodeVarInt(b, at) = Ok(type, next) =>
            /\ DecodeU16(b, next).res # "ok" => r = DecodeU16(b, next)
            /\ \A start \in Nat : DecodeU16(b, next) = Ok(Len(body.bytes), start) =>
                    Agrees(r, b, start, body.bytes, v)
  PROVE  /\ Frame(type, body).bytes \in Bytes /\ Len(Frame(type, body).bytes) >= 1
         /\ Agrees(r, b, at, Frame(type, body).bytes, v)
<1> DEFINE n == Len(body.bytes)
           e0 == EncodeVarInt(type).bytes
           e1 == EncodeU16(n).bytes
           e2 == body.bytes
           e == Frame(type, body).bytes
           next == at + Len(e0)
           start == next + Len(e1)
<1>1. /\ body.res = "ok" /\ ~(n > U16Max) /\ EncodeVarInt(type).res = "ok" /\ EncodeU16(n).res = "ok"
      /\ e = e0 \o (e1 \o e2)
  BY FrameParts
<1>2. e2 \in Bytes
  BY <1>1 DEF IsEncoding
<1>3. IsU16(n)
  <2>1. n \in Nat
    BY <1>2 DEF Bytes
  <2> QED
    BY <1>1, <2>1, CodingAssumption DEF CodingAssumption, IsU16
<1>4. e0 \in Bytes /\ Len(e0) >= 1 /\ Agrees(DecodeVarInt(b, at), b, at, e0, type)
  BY <1>1, VarIntAgrees
<1>5. next \in Nat
  BY <1>4 DEF Bytes
<1>6. e1 \in Bytes /\ Agrees(DecodeU16(b, next), b, next, e1, n)
  <2> HIDE DEF next, n
  <2> QED
    BY <1>1, <1>3, <1>5, U16Codes DEF Codes
<1>7. start \in Nat
  <2>1. \A x \in Bytes : Len(x) \in Nat
    BY DEF Bytes
  <2> HIDE DEF next, e1
  <2>2. Len(e1) \in Nat
    BY <1>6, <2>1
  <2> QED
    BY <1>5, <2>2
<1> HIDE DEF n, e0, e1, e2, e
<1>8. e1 \o e2 \in Bytes /\ e0 \o (e1 \o e2) \in Bytes /\ Len(e0 \o (e1 \o e2)) >= 1
  <2>1. e1 \o e2 \in Bytes
    BY <1>2, <1>6, Elements
  <2>2. e0 \o (e1 \o e2) \in Bytes /\ Len(e0 \o (e1 \o e2)) = Len(e0) + Len(e1 \o e2)
    BY <1>4, <2>1, Elements
  <2>3. Len(e0) \in Nat /\ Len(e1 \o e2) \in Nat
    BY <1>4, <2>1 DEF Bytes
  <2> QED
    BY <1>4, <2>1, <2>2, <2>3
<1>9. ASSUME DecodeVarInt(b, at) = Ok(type, next)
      PROVE  Agrees(r, b, next, e1 \o e2, v)
  <2> DEFINE y == DecodeU16(b, next)
  <2>1. y.res # "ok" => r = y
    BY <1>5, <1>9
  <2>2. y = Ok(n, next + Len(e1)) => Agrees(r, b, next + Len(e1), e2, v)
    BY <1>5, <1>7, <1>9 DEF n, e2
  <2> HIDE DEF y, next
  <2> QED
    BY <1>2, <1>5, <1>6, <2>1, <2>2, Chained DEF y
<1>10. Agrees(r, b, at, e0 \o (e1 \o e2), v)
  <2> DEFINE y == DecodeVarInt(b, at)
  <2>1. y = Ok(type, at + Len(e0)) => Agrees(r, b, at + Len(e0), e1 \o e2, v)
    BY <1>9
  <2>2. y.res # "ok" => r = y
    OBVIOUS
  <2> HIDE DEF y
  <2> QED
    BY <1>4, <1>8, <2>1, <2>2, Chained DEF y
<1> QED
  BY <1>1, <1>8, <1>10 DEF e

\* Each of the control messages (message/*.rs) that encodes is decoded as what it was,
\* of a buffer that holds it wholly; of a part of it the decoder waits, for no byte
\* behind the message.
THEOREM MessageAgrees ==
  ASSUME NEW m, IsMessage(m), EncodeMessage(m).res = "ok"
  PROVE  /\ EncodeMessage(m).bytes \in Bytes /\ Len(EncodeMessage(m).bytes) >= 1
         /\ \A b \in Bytes, at \in Nat : Agrees(DecodeMessage(b, at), b, at, EncodeMessage(m).bytes, m)
<1> DEFINE type == m.type
           id == MessageId[type]
           fields == FieldsWritten[type]
           body == EncodeFields(m, fields)
           before == [type |-> type]
<1>1. /\ type \in Types /\ MessageFields(fields) /\ id \in Nat
      /\ \A t \in Types : MessageId[t] = id => t = type
  BY AllTypes, OwnNumber DEF IsMessage
<1>2. IsRecord(m, {"type"}, fields) /\ DOMAIN MessageId = Types
  BY AllTypes DEF IsMessage
<1>3. EncodeMessage(m) = Frame(id, body)
  BY DEF EncodeMessage
<1>4. body.res = "ok" /\ ~(Len(body.bytes) > U16Max)
  <2> HIDE DEF id, body
  <2> QED
    BY <1>1, <1>3, FrameParts
<1>5. DOMAIN before = {"type"} /\ before["type"] = m["type"] /\ before = [f \in DOMAIN before |-> before[f]]
  OBVIOUS
<1>6. WellFormed(fields, {}) /\ DOMAIN fields = 1..Len(fields)
  BY <1>1 DEF MessageFields, WellFormed
<1>7. Part(m, before, fields, Len(fields)) = m
  <2>1. \A f \in {"type"} : before[f] = m[f]
    BY <1>5
  <2> HIDE DEF before, fields
  <2> QED
    BY <1>2, <1>5, <1>6, <2>1, WholePart
<1> HIDE DEF before, fields, id, type
<1>8. body.bytes \in Bytes /\ Typed(m, before, fields, {})
  BY <1>1, <1>2, <1>4, BodyCarried
<1>9. \A b \in Bytes, at \in Nat :
         Agrees(DecodeFields(before, b, at, fields), b, at, body.bytes, m)
  BY <1>4, <1>5, <1>6, <1>7, <1>8, FieldsAgree
<1>10. IsEncoding(body)
  BY <1>8 DEF IsEncoding
<1>11. ASSUME NEW b \in Bytes, NEW at \in Nat
       PROVE  /\ Frame(id, body).bytes \in Bytes /\ Len(Frame(id, body).bytes) >= 1
              /\ Agrees(DecodeMessage(b, at), b, at, Frame(id, body).bytes, m)
  <2> DEFINE r == DecodeMessage(b, at)
             r1 == DecodeVarInt(b, at)
  <2>1. r1.res # "ok" => r = r1
    BY Zenon DEF DecodeMessage, Then
  <2>2. ASSUME NEW next \in Nat, r1 = Ok(id, next)
        PROVE  /\ DecodeU16(b, next).res # "ok" => r = DecodeU16(b, next)
               /\ \A start \in Nat : DecodeU16(b, next) = Ok(Len(body.bytes), start) =>
                    Agrees(r, b, start, body.bytes, m)
    <3> DEFINE y == DecodeU16(b, next)
    <3>1. r1.res = "ok" /\ r1.value = id /\ r1.at = next
      BY <2>2, OkParts
    <3>2. y.res # "ok" => r = y
      BY <3>1, Zenon DEF DecodeMessage, Then
    <3>3. ASSUME NEW start \in Nat, y = Ok(Len(body.bytes), start)
          PROVE  r = DecodeFields(before, b, start, fields)
      <4>1. y.res = "ok" /\ y.at = start
        BY <3>3, OkParts
      <4> DEFINE z == DecodeU16(b, r1.at)
                 u == CHOOSE t \in DOMAIN MessageId : MessageId[t] = r1.value
      <4>2a. z.res = "ok" /\ z.at = start /\ r1.res = "ok"
        BY <3>1, <4>1
      <4>2. r = IF \A t \in DOMAIN MessageId : MessageId[t] # r1.value
                THEN Failed("InvalidMessage")
                ELSE DecodeFields([type |-> u], b, z.at, FieldsRead[u])
        BY <4>2a, Zenon DEF DecodeMessage, Then
      <4>3. type \in DOMAIN MessageId /\ MessageId[type] = r1.value
        BY <1>1, <1>2, <3>1 DEF id
      <4>4. (CHOOSE t \in DOMAIN MessageId : MessageId[t] = r1.value) = type
        BY <1>1, <1>2, <3>1, <4>3
      <4>4a. u = type
        BY <4>4
      <4> HIDE DEF u, z
      <4>5. r = DecodeFields([type |-> type], b, start, FieldsRead[type])
        BY <4>2, <4>2a, <4>3, <4>4a
      <4> QED
        BY <4>5, SameFields, Zenon DEF before, fields
    <3> HIDE DEF r
    <3> QED
      BY <1>9, <3>2, <3>3
  <2> HIDE DEF r, r1, body
  <2>3. Frame(id, body).res = "ok"
    BY <1>3
  <2> QED
    BY <1>1, <1>10, <2>1, <2>2, <2>3, FrameAgrees DEF r, r1
<1>12. \E b \in Bytes : TRUE
  BY EmptySeq DEF Bytes
<1>13. 0 \in Nat
  OBVIOUS
<1> QED
  BY <1>3, <1>11, <1>12, <1>13

\* What a frame cannot hold is an error of the sender.
LEMMA FrameResult ==
  ASSUME NEW type \in Nat, type < 65536, NEW body
  PROVE  Frame(type, body).res \in {"ok", "panic", "MsgBoundsExceeded"}
<1>1. CASE body.res # "ok"
  BY <1>1, Results DEF Frame
<1>2. CASE body.res = "ok" /\ Len(body.bytes) > U16Max
  BY <1>2, Results DEF Frame
<1>3. CASE body.res = "ok" /\ ~(Len(body.bytes) > U16Max)
  <2> DEFINE x == EncodeVarInt(type)
             y == EncodeU16(Len(body.bytes))
             inner == Both(y, body)
  <2>1. ~(type > VarIntMax)
    BY CodingAssumption DEF CodingAssumption
  <2>2. x.res = "ok"
    BY <2>1, Results DEF EncodeVarInt
  <2>3. y.res = "ok"
    BY Results DEF EncodeU16
  <2>4. Frame(type, body) = Both(x, inner)
    BY <1>3 DEF Frame
  <2> HIDE DEF x, y
  <2>5. inner.res = "ok"
    BY <1>3, <2>3, Results DEF Both
  <2> HIDE DEF inner
  <2> QED
    BY <2>2, <2>4, <2>5, Results DEF Both
<1> QED
  BY <1>1, <1>2, <1>3

\* The body of a setup message: a value, then pairs, which the frame keeps short.
LEMMA SetupBody ==
  ASSUME NEW type \in Nat, NEW x, IsEncoding(x), NEW kvps, IsSequence(kvps),
         \A i \in DOMAIN kvps : IsKeyValuePair(kvps[i]),
         Frame(type, Both(x, EncodeKeyValuePairs(kvps))).res = "ok"
  PROVE  /\ x.res = "ok" /\ x.bytes \in Bytes
         /\ EncodeKeyValuePairs(kvps).res = "ok" /\ EncodeKeyValuePairs(kvps).bytes \in Bytes
         /\ Carried(kvps)
         /\ Both(x, EncodeKeyValuePairs(kvps)).bytes = x.bytes \o EncodeKeyValuePairs(kvps).bytes
         /\ IsEncoding(Both(x, EncodeKeyValuePairs(kvps)))
<1> DEFINE y == EncodeKeyValuePairs(kvps)
           body == Both(x, y)
<1>1. body.res = "ok" /\ ~(Len(body.bytes) > U16Max)
  BY FrameParts
<1> HIDE DEF y
<1>2. x.res = "ok" /\ y.res = "ok" /\ body.bytes = x.bytes \o y.bytes
  BY <1>1, BothOk DEF y
<1>3. x.bytes \in Bytes /\ y.bytes \in Bytes
  BY <1>2, PairsCarried DEF IsEncoding, y
<1>4. body.bytes \in Bytes /\ Len(body.bytes) = Len(x.bytes) + Len(y.bytes)
  BY <1>2, <1>3, Elements
<1>5. Len(x.bytes) \in Nat /\ Len(y.bytes) \in Nat /\ U16Max \in Nat
  BY <1>3, CodingAssumption, SMTT(20) DEF CodingAssumption, Bytes
<1>6. Len(y.bytes) <= U16Max
  <2> DEFINE l0 == Len(body.bytes)
             l1 == Len(x.bytes)
             l2 == Len(y.bytes)
  <2>1. l0 = l1 + l2 /\ l1 \in Nat /\ l2 \in Nat /\ U16Max \in Nat /\ ~(l0 > U16Max)
    BY <1>1, <1>4, <1>5
  <2> HIDE DEF l0, l1, l2
  <2>2. l2 <= U16Max
    BY <2>1
  <2> QED
    BY <2>2 DEF l2
<1>7. Carried(kvps)
  BY <1>2, <1>6, PairsCarried DEF y
<1> QED
  BY <1>2, <1>3, <1>4, <1>7 DEF IsEncoding, y

IsClient(m) ==
    /\ m = [type |-> "Client", versions |-> m.versions, params |-> m.params]
    /\ m.versions \in Seq(Nat)
    /\ IsSequence(m.params) /\ \A i \in DOMAIN m.params : IsKeyValuePair(m.params[i])
IsServer(m) ==
    /\ m = [type |-> "Server", version |-> m.version, params |-> m.params]
    /\ m.version \in Nat
    /\ IsSequence(m.params) /\ \A i \in DOMAIN m.params : IsKeyValuePair(m.params[i])

\* The same of CLIENT_SETUP (setup/client.rs).
THEOREM ClientAgrees ==
  ASSUME NEW m, IsClient(m), EncodeClient(m).res = "ok"
  PROVE  /\ EncodeClient(m).bytes \in Bytes /\ Len(EncodeClient(m).bytes) >= 1
         /\ \A b \in Bytes, at \in Nat : Agrees(DecodeClient(b, at), b, at, EncodeClient(m).bytes, m)
<1> DEFINE vs == m.versions
           kvps == m.params
           x == EncodeVersions(vs)
           e2 == EncodeKeyValuePairs(kvps).bytes
           body == Both(x, EncodeKeyValuePairs(kvps))
<1>1. /\ vs \in Seq(Nat) /\ IsSequence(kvps) /\ \A i \in DOMAIN kvps : IsKeyValuePair(kvps[i])
      /\ m = [type |-> "Client", versions |-> vs, params |-> kvps]
  BY DEF IsClient
<1>2. EncodeClient(m) = Frame(ClientType, body) /\ ClientType \in Nat
  BY DEF EncodeClient, ClientType
<1> HIDE DEF vs, kvps
<1>3. Codes(x, vs, DecodeVersions)
  BY <1>1, VersionsCode
<1>4. IsEncoding(x)
  BY <1>3 DEF Codes, IsEncoding
<1>5. /\ x.res = "ok" /\ x.bytes \in Bytes
      /\ EncodeKeyValuePairs(kvps).res = "ok" /\ e2 \in Bytes /\ Carried(kvps)
      /\ body.bytes = x.bytes \o e2 /\ IsEncoding(body)
  <2>1. Frame(ClientType, body).res = "ok"
    BY <1>2
  <2>3. IsSequence(kvps) /\ \A i \in DOMAIN kvps : IsKeyValuePair(kvps[i])
    BY <1>1
  <2>4. ClientType \in Nat
    BY <1>2
  <2> HIDE DEF x
  <2> QED
    BY <1>4, <2>1, <2>3, <2>4, SetupBody
<1>6. \A b \in Bytes, at \in Nat : Agrees(DecodeVersions(b, at), b, at, x.bytes, vs)
  BY <1>3, <1>5 DEF Codes
<1>7. ASSUME NEW b \in Bytes, NEW at \in Nat
      PROVE  /\ Frame(ClientType, body).bytes \in Bytes
             /\ Len(Frame(ClientType, body).bytes) >= 1
             /\ Agrees(DecodeClient(b, at), b, at, Frame(ClientType, body).bytes, m)
  <2> DEFINE r == DecodeClient(b, at)
             r1 == DecodeVarInt(b, at)
  <2>1. r1.res # "ok" => r = r1
    BY Zenon DEF DecodeClient, Unframe, Then
  <2>2. ASSUME NEW next \in Nat, r1 = Ok(ClientType, next)
        PROVE  /\ DecodeU16(b, next).res # "ok" => r = DecodeU16(b, next)
               /\ \A start \in Nat : DecodeU16(b, next) = Ok(Len(body.bytes), start) =>
                    Agrees(r, b, start, body.bytes, m)
    <3> DEFINE y == DecodeU16(b, next)
    <3>1. r1.res = "ok" /\ r1.value = ClientType /\ r1.at = next
      BY <2>2, OkParts
    <3>2. y.res # "ok" => r = y
      BY <3>1, Zenon DEF DecodeClient, Unframe, Then
    <3>3. ASSUME NEW start \in Nat, y = Ok(Len(body.bytes), start)
          PROVE  Agrees(r, b, start, body.bytes, m)
      <4>1. y.res = "ok" /\ y.at = start
        BY <3>3, OkParts
      <4> DEFINE z == DecodeVersions(b, start)
                 end == start + Len(x.bytes)
                 u == DecodeKeyValuePairs(b, end)
                 last == end + Len(e2)
                 r2 == Map(u, LAMBDA ws : [type |-> "Client", versions |-> vs, params |-> ws])
      <4>2. z.res # "ok" => r = z
        BY <3>1, <4>1, Zenon DEF DecodeClient, Unframe, Then
      <4>3. ASSUME z = Ok(vs, end) PROVE r = r2
        <5>1. z.res = "ok" /\ z.value = vs /\ z.at = end
          BY <4>3, OkParts
        <5> HIDE DEF end
        <5> QED
          BY <3>1, <4>1, <5>1, Zenon DEF DecodeClient, Unframe, Then, Map
      <4>4. ASSUME u = Ok(kvps, last) PROVE r2 = Ok(m, last)
        <5>1. u.res = "ok" /\ u.value = kvps /\ u.at = last
          BY <4>4, OkParts
        <5> HIDE DEF u, last
        <5> QED
          BY <1>1, <5>1, Zenon DEF Map, Then
      <4>5. u.res # "ok" => r2 = u
        BY Zenon DEF Map, Then
      <4>6. Agrees(z, b, start, x.bytes, vs)
        BY <1>6
      <4>7. end \in Nat
        <5>1. Len(x.bytes) \in Nat
          BY <1>5 DEF Bytes
        <5> HIDE DEF x
        <5> QED
          BY <5>1
      <4>8. Agrees(u, b, end, e2, kvps)
        <5> HIDE DEF end
        <5> QED
          BY <1>1, <1>5, <4>7, PairsCode, Zenon DEF Codes
      <4> HIDE DEF r2, z, r, x, e2, u, end
      <4>9. Agrees(r2, b, end, e2, m)
        BY <1>5, <4>4, <4>5, <4>7, <4>8, Mapped
      <4>10. Agrees(r, b, start, x.bytes \o e2, m)
        BY <1>5, <4>2, <4>3, <4>6, <4>9, Sequenced DEF end
      <4> QED
        BY <1>5, <4>10
    <3> HIDE DEF r
    <3> QED
      BY <3>2, <3>3
  <2> HIDE DEF r, r1, body
  <2>3. Frame(ClientType, body).res = "ok"
    BY <1>2
  <2> QED
    BY <1>2, <1>5, <2>1, <2>2, <2>3, FrameAgrees DEF r, r1
<1>8. (\E b \in Bytes : TRUE) /\ 0 \in Nat
  BY EmptySeq DEF Bytes
<1> QED
  BY <1>2, <1>7, <1>8

\* The same of SERVER_SETUP (setup/server.rs).
THEOREM ServerAgrees ==
  ASSUME NEW m, IsServer(m), EncodeServer(m).res = "ok"
  PROVE  /\ EncodeServer(m).bytes \in Bytes /\ Len(EncodeServer(m).bytes) >= 1
         /\ \A b \in Bytes, at \in Nat : Agrees(DecodeServer(b, at), b, at, EncodeServer(m).bytes, m)
<1> DEFINE v == m.version
           kvps == m.params
           x == EncodeVersion(v)
           e2 == EncodeKeyValuePairs(kvps).bytes
           body == Both(x, EncodeKeyValuePairs(kvps))
<1>1. /\ v \in Nat /\ IsSequence(kvps) /\ \A i \in DOMAIN kvps : IsKeyValuePair(kvps[i])
      /\ m = [type |-> "Server", version |-> v, params |-> kvps]
  BY DEF IsServer
<1>2. EncodeServer(m) = Frame(ServerType, body) /\ ServerType \in Nat
  BY DEF EncodeServer, ServerType
<1> HIDE DEF v, kvps
<1>3. Codes(x, v, DecodeVersion)
  BY <1>1, VarIntCodes, Zenon DEF Codes, EncodeVersion, DecodeVersion
<1>4. IsEncoding(x)
  BY <1>3 DEF Codes, IsEncoding
<1>5. /\ x.res = "ok" /\ x.bytes \in Bytes
      /\ EncodeKeyValuePairs(kvps).res = "ok" /\ e2 \in Bytes /\ Carried(kvps)
      /\ body.bytes = x.bytes \o e2 /\ IsEncoding(body)
  <2>1. Frame(ServerType, body).res = "ok"
    BY <1>2
  <2>3. IsSequence(kvps) /\ \A i \in DOMAIN kvps : IsKeyValuePair(kvps[i])
    BY <1>1
  <2>4. ServerType \in Nat
    BY <1>2
  <2> HIDE DEF x
  <2> QED
    BY <1>4, <2>1, <2>3, <2>4, SetupBody
<1>6. \A b \in Bytes, at \in Nat : Agrees(DecodeVersion(b, at), b, at, x.bytes, v)
  BY <1>3, <1>5 DEF Codes
<1>7. ASSUME NEW b \in Bytes, NEW at \in Nat
      PROVE  /\ Frame(ServerType, body).bytes \in Bytes
             /\ Len(Frame(ServerType, body).bytes) >= 1
             /\ Agrees(DecodeServer(b, at), b, at, Frame(ServerType, body).bytes, m)
  <2> DEFINE r == DecodeServer(b, at)
             r1 == DecodeVarInt(b, at)
  <2>1. r1.res # "ok" => r = r1
    BY Zenon DEF DecodeServer, Unframe, Then
  <2>2. ASSUME NEW next \in Nat, r1 = Ok(ServerType, next)
        PROVE  /\ DecodeU16(b, next).res # "ok" => r = DecodeU16(b, next)
               /\ \A start \in Nat : DecodeU16(b, next) = Ok(Len(body.bytes), start) =>
                    Agrees(r, b, start, body.bytes, m)
    <3> DEFINE y == DecodeU16(b, next)
    <3>1. r1.res = "ok" /\ r1.value = ServerType /\ r1.at = next
      BY <2>2, OkParts
    <3>2. y.res # "ok" => r = y
      BY <3>1, Zenon DEF DecodeServer, Unframe, Then
    <3>3. ASSUME NEW start \in Nat, y = Ok(Len(body.bytes), start)
          PROVE  Agrees(r, b, start, body.bytes, m)
      <4>1. y.res = "ok" /\ y.at = start
        BY <3>3, OkParts
      <4> DEFINE z == DecodeVersion(b, start)
                 end == start + Len(x.bytes)
                 u == DecodeKeyValuePairs(b, end)
                 last == end + Len(e2)
                 r2 == Map(u, LAMBDA ws : [type |-> "Server", version |-> v, params |-> ws])
      <4>2. z.res # "ok" => r = z
        BY <3>1, <4>1, Zenon DEF DecodeServer, Unframe, Then
      <4>3. ASSUME z = Ok(v, end) PROVE r = r2
        <5>1. z.res = "ok" /\ z.value = v /\ z.at = end
          BY <4>3, OkParts
        <5> HIDE DEF end
        <5> QED
          BY <3>1, <4>1, <5>1, Zenon DEF DecodeServer, Unframe, Then, Map
      <4>4. ASSUME u = Ok(kvps, last) PROVE r2 = Ok(m, last)
        <5>1. u.res = "ok" /\ u.value = kvps /\ u.at = last
          BY <4>4, OkParts
        <5> HIDE DEF u, last
        <5> QED
          BY <1>1, <5>1, Zenon DEF Map, Then
      <4>5. u.res # "ok" => r2 = u
        BY Zenon DEF Map, Then
      <4>6. Agrees(z, b, start, x.bytes, v)
        BY <1>6
      <4>7. end \in Nat
        <5>1. Len(x.bytes) \in Nat
          BY <1>5 DEF Bytes
        <5> HIDE DEF x
        <5> QED
          BY <5>1
      <4>8. Agrees(u, b, end, e2, kvps)
        <5> HIDE DEF end
        <5> QED
          BY <1>1, <1>5, <4>7, PairsCode, Zenon DEF Codes
      <4> HIDE DEF r2, z, r, x, e2, u, end
      <4>9. Agrees(r2, b, end, e2, m)
        BY <1>5, <4>4, <4>5, <4>7, <4>8, Mapped
      <4>10. Agrees(r, b, start, x.bytes \o e2, m)
        BY <1>5, <4>2, <4>3, <4>6, <4>9, Sequenced DEF end
      <4> QED
        BY <1>5, <4>10
    <3> HIDE DEF r
    <3> QED
      BY <3>2, <3>3
  <2> HIDE DEF r, r1, body
  <2>3. Frame(ServerType, body).res = "ok"
    BY <1>2
  <2> QED
    BY <1>2, <1>5, <2>1, <2>2, <2>3, FrameAgrees DEF r, r1
<1>8. (\E b \in Bytes : TRUE) /\ 0 \in Nat
  BY EmptySeq DEF Bytes
<1> QED
  BY <1>2, <1>7, <1>8

\* A record is typed; what a pair may carry is for its user to say.
LEMMA RecordTyped ==
  ASSUME NEW m, NEW names, NEW fields, NEW before, NEW known, IsRecord(m, names, fields),
         DOMAIN fields = 1..Len(fields),
         \A g \in known : g \in names /\ g \in DOMAIN before /\ m[g] = before[g],
         \A n \in 1..Len(fields) :
            Present(m, fields[n]) /\ fields[n].kind \in {"params", "extensions"}
                => Carried(m[fields[n].name])
  PROVE  Typed(m, before, fields, known)
<1> DEFINE present == {k \in DOMAIN fields : Present(m, fields[k])}
<1>1. /\ m = [name \in names \cup {fields[k].name : k \in present} |-> m[name]]
      /\ \A k \in present : HasType(fields[k].kind, m[fields[k].name])
  BY Zenon DEF IsRecord
<1>2. \A g \in known : g \in DOMAIN m
  BY <1>1
<1>3. ASSUME NEW n \in 1..Len(fields), Present(m, fields[n])
      PROVE  fields[n].name \in DOMAIN m /\ HasType(fields[n].kind, m[fields[n].name])
  <2>1. n \in present
    BY <1>3
  <2> HIDE DEF present
  <2>2. fields[n].name \in names \cup {fields[k].name : k \in present}
    BY <2>1
  <2> QED
    BY <1>1, <2>1, <2>2
<1> QED
  BY <1>2, <1>3 DEF Typed

\* The fields of a stream header.
LEMMA HeaderFields ==
    /\ WellFormed(StreamHeaderFields, {"header_type"})
    /\ \A n \in 1..Len(StreamHeaderFields) :
            ~(StreamHeaderFields[n].kind \in {"params", "extensions"})
<1> DEFINE a1 == IfSubgroup(TrackAlias)
           a2 == IfSubgroup(GroupId)
           a3 == When("header_type", {t \in SubgroupStreams : HasSubgroupId(t)},
                      Field("subgroup_id", "u64"))
           a4 == IfSubgroup(PublisherPriority)
           a5 == When("header_type", {FetchStream}, Field("request_id", "u64"))
           s4 == <<a1, a2, a3, a4>>
           s5 == <<a1, a2, a3, a4, a5>>
<1>1. StreamHeaderFields = s4 \o <<a5>>
  BY Zenon DEF StreamHeaderFields, SubgroupHeaderFields, FetchHeaderFields
<1>2. \A x \in {a1, a2, a3, a4, a5} :
        x.kind \in Kinds /\ x.on = "header_type" /\ ~(x.kind \in {"params", "extensions"})
  BY DEF IfSubgroup, TrackAlias, GroupId, PublisherPriority, When, Field, Kinds
<1> HIDE DEF a1, a2, a3, a4, a5
<1>3. s4 \o <<a5>> = s5
  <2> DEFINE s == s4 \o <<a5>>
             S == {a1, a2, a3, a4, a5}
  <2>1. s5 \in Seq(S) /\ Len(s5) = 5 /\ s \in Seq(S) /\ Len(s) = 5
    OBVIOUS
  <2>2. s[1] = s5[1] /\ s[2] = s5[2] /\ s[3] = s5[3] /\ s[4] = s5[4] /\ s[5] = s5[5]
    OBVIOUS
  <2> HIDE DEF s, S, s5
  <2>3. \A i \in 1..5 : i = 1 \/ i = 2 \/ i = 3 \/ i = 4 \/ i = 5
    OBVIOUS
  <2>4. \A i \in 1..5 : s[i] = s5[i]
    BY <2>2, <2>3
  <2>5. s = s5
    BY <2>1, <2>4, SeqEqual
  <2> QED
    BY <2>5 DEF s
<1>4. Len(s5) = 5 /\ DOMAIN s5 = 1..5 /\ \A n \in 1..5 : s5[n] \in {a1, a2, a3, a4, a5}
  OBVIOUS
<1> HIDE DEF s4, s5
<1>5. \A n \in 1..5 : /\ s5[n].kind \in Kinds /\ s5[n].on = "header_type"
                       /\ ~(s5[n].kind \in {"params", "extensions"})
  BY <1>2, <1>4, Zenon
<1>6. StreamHeaderFields = s5
  BY <1>1, <1>3, Zenon
<1> DEFINE fields == StreamHeaderFields
<1>7. Len(fields) \in Nat /\ DOMAIN fields = 1..Len(fields)
  <2>1. Len(s5) = 5 /\ DOMAIN s5 = 1..5
    BY <1>4
  <2>2. Len(s5) \in Nat /\ DOMAIN s5 = 1..Len(s5)
    BY <2>1
  <2> QED
    BY <2>2, <1>6, Zenon
<1>8. \A n \in 1..Len(fields) : /\ fields[n].kind \in Kinds /\ fields[n].on \in {"header_type"}
                                /\ ~(fields[n].kind \in {"params", "extensions"})
  <2>1. fields = s5 /\ Len(s5) = 5
    BY <1>4, <1>6
  <2> HIDE DEF fields
  <2>2. Len(fields) = 5
    BY <2>1
  <2>3. ASSUME NEW n \in 1..5
        PROVE  /\ fields[n].kind \in Kinds /\ fields[n].on \in {"header_type"}
               /\ ~(fields[n].kind \in {"params", "extensions"})
    BY <1>5, <2>1
  <2> QED
    BY <2>2, <2>3
<1> QED
  BY <1>7, <1>8, Zenon DEF WellFormed

\* The same of the header of a unidirectional stream (data/header.rs).
THEOREM HeaderAgrees ==
  ASSUME NEW m, IsStreamHeader(m), EncodeStreamHeader(m).res = "ok"
  PROVE  /\ EncodeStreamHeader(m).bytes \in Bytes /\ Len(EncodeStreamHeader(m).bytes) >= 1
         /\ \A b \in Bytes, at \in Nat :
                Agrees(DecodeStreamHeader(b, at), b, at, EncodeStreamHeader(m).bytes, m)
<1> DEFINE type == m.header_type
           fields == StreamHeaderFields
           before == [header_type |-> type]
           x == EncodeVarInt(type)
           y == EncodeFields(m, fields)
           e1 == x.bytes
           e2 == y.bytes
<1>1. IsRecord(m, {"header_type"}, fields) /\ type \in StreamHeaderTypes
  BY DEF IsStreamHeader
<1>2. type \in Nat
  BY <1>1 DEF StreamHeaderTypes, SubgroupStreams, FetchStream
<1>3. EncodeStreamHeader(m) = Both(x, y)
  BY DEF EncodeStreamHeader
<1>4. /\ DOMAIN before = {"header_type"} /\ before["header_type"] = m["header_type"]
      /\ before = [f \in DOMAIN before |-> before[f]]
  OBVIOUS
<1>5. /\ WellFormed(fields, {"header_type"}) /\ DOMAIN fields = 1..Len(fields)
      /\ \A n \in 1..Len(fields) : ~(fields[n].kind \in {"params", "extensions"})
  BY HeaderFields DEF WellFormed
<1> HIDE DEF before, fields, type, x, y
<1>6. Typed(m, before, fields, {"header_type"})
  BY <1>1, <1>4, <1>5, RecordTyped
<1>7. Part(m, before, fields, Len(fields)) = m
  BY <1>1, <1>4, <1>5, WholePart
<1>8. x.res = "ok" /\ y.res = "ok" /\ EncodeStreamHeader(m).bytes = e1 \o e2
  BY <1>3, BothOk
<1>9. e1 \in Bytes /\ Len(e1) >= 1
      /\ \A b \in Bytes, at \in Nat : Agrees(DecodeVarInt(b, at), b, at, e1, type)
  BY <1>2, <1>8, VarIntAgrees DEF x
<1>10. e2 \in Bytes
       /\ \A b \in Bytes, at \in Nat : Agrees(DecodeFields(before, b, at, fields), b, at, e2, m)
  BY <1>4, <1>5, <1>6, <1>7, <1>8, FieldsAgree DEF y
<1> HIDE DEF e1, e2
<1>11. e1 \o e2 \in Bytes /\ Len(e1 \o e2) >= 1
  <2>1. Len(e1 \o e2) = Len(e1) + Len(e2) /\ Len(e1) \in Nat /\ Len(e2) \in Nat
    BY <1>9, <1>10 DEF Bytes
  <2> QED
    BY <1>9, <1>10, <2>1, Elements
<1>12. ASSUME NEW b \in Bytes, NEW at \in Nat
       PROVE  Agrees(DecodeStreamHeader(b, at), b, at, e1 \o e2, m)
  <2> DEFINE r == DecodeStreamHeader(b, at)
             r1 == Enum(DecodeVarInt(b, at), StreamHeaderTypes, "InvalidHeaderType")
             next == at + Len(e1)
             r2 == DecodeFields(before, b, next, fields)
  <2>1. Agrees(r1, b, at, e1, type)
    <3> DEFINE z == DecodeVarInt(b, at)
    <3>1. Agrees(z, b, at, e1, type)
      BY <1>9
    <3> HIDE DEF z
    <3> QED
      BY <1>1, <1>9, <3>1, EnumAgrees
  <2>2. next \in Nat
    BY <1>9 DEF Bytes
  <2>3. Agrees(r2, b, next, e2, m)
    BY <1>10, <2>2
  <2>4. ASSUME r1 = Ok(type, next) PROVE r = r2
    <3>1. r1.res = "ok" /\ r1.value = type /\ r1.at = next
      BY <2>4, OkParts
    <3> HIDE DEF next
    <3> QED
      BY <3>1, Zenon DEF DecodeStreamHeader, Then, before, fields
  <2>5. r1.res # "ok" => r = r1
    BY Zenon DEF DecodeStreamHeader, Then
  <2> HIDE DEF r, r1, r2
  <2> QED
    BY <1>9, <1>10, <2>1, <2>3, <2>4, <2>5, Sequenced DEF r
<1> QED
  BY <1>8, <1>11, <1>12

-----------------------------------------------------------------------------
(* Objects and datagrams.                                                  *)

\* What comes before the payload of an item, and what a receiver has of it then.
PayloadOf(m) == IF "payload" \in DOMAIN m THEN m.payload ELSE <<>>
Bare(m) == IF "payload" \in DOMAIN m THEN [m EXCEPT !.payload = <<>>] ELSE m

\* The fields of an object.
LEMMA ObjectFields ==
    /\ WellFormed(SubgroupObjectExt, {})
    /\ Len(SubgroupObjectExt) = 4 /\ DOMAIN SubgroupObjectExt = 1..4
    /\ SubgroupObjectExt[1] = ObjectIdDelta /\ ObjectIdDelta.on = Always
    /\ ObjectIdDelta.kind = "u64"
    /\ \A n \in 1..4 : SubgroupObjectExt[n].name # "payload"
    /\ \A n \in 1..4 : SubgroupObjectExt[n].kind \in {"params", "extensions"} =>
            SubgroupObjectExt[n].name = "extension_headers"
  BY DEF SubgroupObjectExt, ObjectIdDelta, ExtensionHeaders, PayloadLength, EmptyStatus,
         ObjectStatus, Field, When, WellFormed, Kinds, Always

\* The same of the head of an object of a subgroup (data/subgroup.rs): its payload follows,
\* and is not waited for.
THEOREM ObjectAgrees ==
  ASSUME NEW m, IsObject(m), EncodeSubgroupObjectExt(m).res = "ok",
         NEW type, HasExtensionHeaders(type)
  PROVE  /\ EncodeSubgroupObjectExt(m).bytes \in Bytes
         /\ \A b \in Bytes, at \in Nat :
                Agrees(DecodeSubgroupObject(b, at, type), b, at, EncodeSubgroupObjectExt(m).bytes,
                       [m EXCEPT !.payload = <<>>])
<1> DEFINE fields == SubgroupObjectExt
           before == [payload |-> <<>>]
           y == EncodeFields(m, fields)
<1>1. IsRecord(m, {"payload"}, fields) /\ Carried(m.extension_headers)
  BY DEF IsObject
<1>2. /\ DOMAIN before = {"payload"} /\ before["payload"] = <<>>
      /\ before = [f \in DOMAIN before |-> before[f]]
  OBVIOUS
<1>3. /\ WellFormed(fields, {}) /\ DOMAIN fields = 1..Len(fields)
      /\ \A n \in 1..Len(fields) : fields[n].name # "payload"
      /\ \A n \in 1..Len(fields) : fields[n].kind \in {"params", "extensions"} =>
            Carried(m[fields[n].name])
  <2>1. /\ WellFormed(fields, {}) /\ Len(fields) = 4 /\ DOMAIN fields = 1..4
        /\ \A n \in 1..4 : fields[n].name # "payload"
        /\ \A n \in 1..4 : fields[n].kind \in {"params", "extensions"} =>
              fields[n].name = "extension_headers"
    BY ObjectFields
  <2> HIDE DEF fields
  <2>2. DOMAIN fields = 1..Len(fields) /\ \A n \in 1..Len(fields) : fields[n].name # "payload"
    BY <2>1
  <2>3. ASSUME NEW n \in 1..Len(fields), fields[n].kind \in {"params", "extensions"}
        PROVE  Carried(m[fields[n].name])
    <3>1. fields[n].name = "extension_headers"
      BY <2>1, <2>3
    <3> QED
      BY <1>1, <3>1
  <2> QED
    BY <2>1, <2>2, <2>3
<1>4. EncodeSubgroupObjectExt(m) = y /\ y.res = "ok"
  BY DEF EncodeSubgroupObjectExt
<1>5. ASSUME NEW b, NEW at
      PROVE  DecodeSubgroupObject(b, at, type) = DecodeFields(before, b, at, fields)
  BY Zenon DEF DecodeSubgroupObject
<1> HIDE DEF before, fields, y
<1>6. Typed(m, before, fields, {})
  BY <1>1, <1>3, RecordTyped
<1>7. Part(m, before, fields, Len(fields)) = [m EXCEPT !.payload = <<>>]
  <2> DEFINE some == Names(m, fields, Len(fields))
             present == {k \in DOMAIN fields : Present(m, fields[k])}
  <2>1. some = {fields[k].name : k \in present}
    BY <1>3 DEF Names
  <2>2. m = [name \in {"payload"} \cup some |-> m[name]]
    BY <1>1, <2>1, Zenon DEF IsRecord
  <2>3. "payload" \notin some
    BY <1>3, <2>1
  <2> HIDE DEF some
  <2>4. Part(m, before, fields, Len(fields)) =
            [f \in {"payload"} \cup some |-> IF f \in some THEN m[f] ELSE before[f]]
    BY <1>2 DEF Part, some
  <2>5. [m EXCEPT !.payload = <<>>] =
            [f \in {"payload"} \cup some |-> IF f \in some THEN m[f] ELSE before[f]]
    BY <1>2, <2>2, <2>3
  <2> QED
    BY <2>4, <2>5
<1>8. y.bytes \in Bytes
      /\ \A b \in Bytes, at \in Nat :
            Agrees(DecodeFields(before, b, at, fields), b, at, y.bytes,
                   Part(m, before, fields, Len(fields)))
  BY <1>2, <1>3, <1>4, <1>6, FieldsAgree DEF y
<1> QED
  BY <1>4, <1>5, <1>7, <1>8

\* Where nothing has arrived, every decoder waits for one byte.
LEMMA NothingYet ==
  ASSUME NEW b, b = <<>>
  PROVE  /\ DecodeVarInt(b, 0) = More(1)
         /\ DecodeClient(b, 0) = More(1) /\ DecodeServer(b, 0) = More(1)
         /\ DecodeMessage(b, 0) = More(1) /\ DecodeStreamHeader(b, 0) = More(1)
<1> DEFINE r == DecodeVarInt(b, 0)
<1>1. DecodeRemaining(b, 0, 1) = More(1)
  BY DEF DecodeRemaining, Remaining
<1>2. More(1).res # "ok"
  BY Results
<1>3. r = More(1)
  BY <1>1, <1>2, Zenon DEF DecodeVarInt, Then
<1>4. r.res # "ok"
  BY <1>2, <1>3
<1>5. DecodeClient(b, 0) = r /\ DecodeServer(b, 0) = r
  BY <1>4, Zenon DEF DecodeClient, DecodeServer, Unframe, Then
<1>6. DecodeMessage(b, 0) = r
  BY <1>4, Zenon DEF DecodeMessage, Then
<1>7. DecodeStreamHeader(b, 0) = r
  BY <1>4, Zenon DEF DecodeStreamHeader, Enum, Then
<1> QED
  BY <1>3, <1>5, <1>6, <1>7

\* The same of an object.
LEMMA NoObjectYet ==
  ASSUME NEW b, b = <<>>, NEW type, HasExtensionHeaders(type)
  PROVE  DecodeSubgroupObject(b, 0, type) = More(1)
<1> DEFINE fields == SubgroupObjectExt
           before == [payload |-> <<>>]
<1>0. DecodeSubgroupObject(b, 0, type) = DecodeFields(before, b, 0, fields)
  BY Zenon DEF DecodeSubgroupObject
<1> HIDE DEF before
<1>1. /\ Len(fields) = 4 /\ fields[1] = ObjectIdDelta
      /\ ObjectIdDelta.on = Always /\ ObjectIdDelta.kind = "u64"
  BY ObjectFields
<1> HIDE DEF fields
<1>2. PICK decoded : /\ IsFields(decoded, before, b, 0, fields)
                     /\ DecodeFields(before, b, 0, fields) = decoded[Len(fields)]
  <2>1. Len(fields) \in Nat
    BY <1>1
  <2> QED
    BY <2>1, FieldsDefined, Zenon
<1>3. /\ decoded[0] = Ok(before, 0)
      /\ \A n \in 1..4 : decoded[n] = FieldStep(b, fields[n], decoded[n - 1])
  BY <1>1, <1>2 DEF IsFields
<1>4. More(1).res # "ok"
  BY Results
<1>5. decoded[1] = More(1)
  <2> DEFINE r == decoded[0]
             z == DecodeField("u64", b, 0)
  <2>1. decoded[1] = FieldStep(b, ObjectIdDelta, r)
    BY <1>1, <1>3
  <2>2. r.res = "ok" /\ r.value = before /\ r.at = 0
    BY <1>3, OkParts
  <2>3. \A x : Present(x, ObjectIdDelta)
    BY <1>1 DEF Present
  <2>4. z = DecodeVarInt(b, 0)
    BY Zenon DEF DecodeField
  <2>5. z = More(1)
    BY <2>4, NothingYet
  <2> HIDE DEF r
  <2>6. FieldStep(b, ObjectIdDelta, r) = z
    <3>1. DecodeField(ObjectIdDelta.kind, b, r.at) = z
      BY <1>1, <2>2
    <3>2. z.res # "ok"
      BY <1>4, <2>5
    <3> QED
      BY <2>2, <2>3, <3>1, <3>2, Zenon DEF FieldStep, Then, Map
  <2> QED
    BY <2>1, <2>5, <2>6
<1>6. ASSUME NEW n \in 1..4, n - 1 \in 1..4, decoded[n - 1] = More(1) PROVE decoded[n] = More(1)
  <2> DEFINE r == decoded[n - 1]
  <2>1. decoded[n] = FieldStep(b, fields[n], r) /\ r.res # "ok" /\ r = More(1)
    BY <1>3, <1>4, <1>6
  <2> HIDE DEF r
  <2> QED
    BY <2>1, Zenon DEF FieldStep, Then
<1>7. decoded[2] = More(1)
  BY <1>5, <1>6
<1>8. decoded[3] = More(1)
  BY <1>7, <1>6
<1>9. decoded[4] = More(1)
  BY <1>8, <1>6
<1> QED
  BY <1>0, <1>1, <1>2, <1>9

\* The fields of a datagram.
LEMMA FieldsOfDatagram ==
    /\ WellFormed(DatagramFields, {"datagram_type"})
    /\ Len(DatagramFields) = 6 /\ DOMAIN DatagramFields = 1..6
    /\ \A n \in 1..6 : DatagramFields[n].kind \in {"params", "extensions"} =>
            DatagramFields[n].name = "extension_headers"
  BY DEF DatagramFields, TrackAlias, GroupId, PublisherPriority, IfDatagram, ExtensionHeaders,
         ObjectStatus, Field, When, WellFormed, Kinds, Always

\* A datagram (data/datagram.rs) that encodes is decoded as what it was.
THEOREM DatagramAgrees ==
  ASSUME NEW m, IsDatagram(m), EncodeDatagram(m).res = "ok"
  PROVE  /\ EncodeDatagram(m).bytes \in Bytes
         /\ DecodeDatagram(EncodeDatagram(m).bytes).res = "ok"
         /\ DecodeDatagram(EncodeDatagram(m).bytes).value = m
<1> DEFINE type == m.datagram_type
           fields == DatagramFields
           before == [datagram_type |-> type]
           names == {"datagram_type"} \cup IF HasPayload(type) THEN {"payload"} ELSE {}
           x == EncodeVarInt(type)
           y == EncodeFields(m, fields)
           z == IF ~HasPayload(type) THEN Encoded(<<>>)
                ELSE IF "payload" \in DOMAIN m THEN Encoded(m.payload) ELSE Failed("MissingField")
           b == EncodeDatagram(m).bytes
           e1 == x.bytes
           e2 == y.bytes
           e3 == z.bytes
           part == Part(m, before, fields, Len(fields))
<1>1. /\ IsRecord(m, names, fields) /\ type \in DatagramTypes
      /\ HasPayload(type) => m.payload \in Bytes
      /\ "extension_headers" \in DOMAIN m => Carried(m.extension_headers)
  BY Zenon DEF IsDatagram
<1>2. type \in Nat
  BY <1>1 DEF DatagramTypes
<1>3. EncodeDatagram(m) = Both(x, Both(y, z))
  BY Zenon DEF EncodeDatagram
<1>4. /\ DOMAIN before = {"datagram_type"} /\ before["datagram_type"] = m["datagram_type"]
      /\ before = [f \in DOMAIN before |-> before[f]]
  OBVIOUS
<1>5. WellFormed(fields, {"datagram_type"}) /\ DOMAIN fields = 1..Len(fields)
  BY FieldsOfDatagram, Zenon DEF WellFormed
<1>6. m = [name \in names \cup Names(m, fields, Len(fields)) |-> m[name]]
  <2> DEFINE present == {k \in DOMAIN fields : Present(m, fields[k])}
  <2>1. m = [name \in names \cup {fields[k].name : k \in present} |-> m[name]]
    BY <1>1, Zenon DEF IsRecord
  <2>2. Names(m, fields, Len(fields)) = {fields[k].name : k \in present}
    BY <1>5 DEF Names
  <2> QED
    BY <2>1, <2>2
<1>7. \A n \in 1..Len(fields) :
         Present(m, fields[n]) /\ fields[n].kind \in {"params", "extensions"}
             => Carried(m[fields[n].name])
  <2> SUFFICES ASSUME NEW n \in 1..Len(fields), Present(m, fields[n]),
                      fields[n].kind \in {"params", "extensions"}
               PROVE  Carried(m[fields[n].name])
    OBVIOUS
  <2>1. fields[n].name = "extension_headers"
    BY FieldsOfDatagram
  <2>2. fields[n].name \in Names(m, fields, Len(fields))
    <3> HIDE DEF fields
    <3> QED
      BY DEF Names
  <2>3. fields[n].name \in DOMAIN m
    <3> HIDE DEF fields, names
    <3> QED
      BY <1>6, <2>2
  <2> QED
    BY <1>1, <2>1, <2>3
<1> HIDE DEF before, fields, x, y, b, e1, e2, e3
<1>8. Typed(m, before, fields, {"datagram_type"})
  <2>1. "datagram_type" \in names
    OBVIOUS
  <2> HIDE DEF names
  <2> QED
    BY <1>1, <1>4, <1>5, <1>7, <2>1, RecordTyped
<1>9. x.res = "ok" /\ y.res = "ok" /\ z.res = "ok" /\ b = e1 \o (e2 \o e3)
  <2> HIDE DEF z
  <2>1. x.res = "ok" /\ Both(y, z).res = "ok" /\ b = e1 \o Both(y, z).bytes
    BY <1>3, BothOk DEF b, e1
  <2> QED
    BY <2>1, BothOk DEF e2, e3
<1>10. e3 \in Bytes /\ e3 = IF HasPayload(type) THEN m.payload ELSE <<>>
  <2>1. CASE HasPayload(type)
    BY <1>1, <1>9, <2>1, Results DEF e3
  <2>2. CASE ~HasPayload(type)
    <3>1. <<>> \in Bytes
      BY DEF Bytes
    <3> QED
      BY <2>2, <3>1, Results DEF e3
  <2> QED
    BY <2>1, <2>2
<1> HIDE DEF z
<1>11. /\ e1 \in Bytes
       /\ \A c \in Bytes, at \in Nat : Agrees(DecodeVarInt(c, at), c, at, e1, type)
  <2> HIDE DEF type
  <2> QED
    BY <1>2, <1>9, VarIntAgrees DEF x, e1
<1>12. /\ e2 \in Bytes
       /\ \A c \in Bytes, at \in Nat : Agrees(DecodeFields(before, c, at, fields), c, at, e2, part)
  BY <1>4, <1>5, <1>8, <1>9, FieldsAgree DEF y, e2
<1> HIDE DEF part, names, type
<1> DEFINE l1 == Len(e1)
           l2 == Len(e2)
           l3 == Len(e3)
<1>13. /\ b \in Bytes /\ e2 \o e3 \in Bytes /\ Len(b) = l1 + l2 + l3
       /\ l1 \in Nat /\ l2 \in Nat /\ l3 \in Nat /\ Len(e2 \o e3) = l2 + l3
  <2>1. e2 \o e3 \in Bytes /\ Len(e2 \o e3) = l2 + l3
    BY <1>10, <1>12, Elements
  <2>2. b \in Bytes /\ Len(b) = l1 + Len(e2 \o e3)
    BY <1>9, <1>11, <2>1, Elements
  <2>3. \A q \in Bytes : Len(q) \in Nat
    BY DEF Bytes
  <2>4. l1 \in Nat /\ l2 \in Nat /\ l3 \in Nat
    BY <1>10, <1>11, <1>12, <2>3
  <2> HIDE DEF l1, l2, l3
  <2> QED
    BY <2>1, <2>2, <2>4
<1>14. Fits(b, 0, e1 \o (e2 \o e3))
  BY <1>9, <1>13 DEF Fits
<1> HIDE DEF l1, l2, l3
<1>15. Fits(b, 0, e1) /\ Fits(b, l1, e2 \o e3)
  <2>1. 0 + l1 <= Len(b) /\ 0 + l1 = l1
    BY <1>13
  <2> QED
    BY <1>11, <1>13, <1>14, <2>1, FitsConcat DEF l1
<1>16. Fits(b, l1, e2) /\ Fits(b, l1 + l2, e3)
  <2>1. l1 + l2 <= Len(b)
    BY <1>13
  <2> QED
    BY <1>10, <1>12, <1>13, <1>15, <2>1, FitsConcat DEF l2
<1> DEFINE r1 == Enum(DecodeVarInt(b, 0), DatagramTypes, "InvalidDatagramType")
           r2 == DecodeFields(before, b, l1, fields)
           rest == l1 + l2
<1>17. r1 = Ok(type, l1)
  <2> DEFINE u == DecodeVarInt(b, 0)
  <2>1. Agrees(u, b, 0, e1, type)
    BY <1>11, <1>13
  <2> HIDE DEF u
  <2>2. Agrees(r1, b, 0, e1, type)
    BY <1>1, <1>11, <1>13, <2>1, EnumAgrees DEF u
  <2> HIDE DEF r1
  <2>3. 0 + Len(e1) = l1 /\ l1 <= Len(b)
    BY <1>13 DEF l1
  <2> QED
    BY <1>15, <2>2, <2>3 DEF Agrees
<1>18. r2 = Ok(part, rest)
  <2>1. Agrees(r2, b, l1, e2, part)
    BY <1>12, <1>13
  <2> HIDE DEF r2
  <2>2. l1 + Len(e2) = rest /\ rest <= Len(b)
    BY <1>13 DEF l2
  <2> QED
    BY <1>16, <2>1, <2>2 DEF Agrees
<1>19. r1.res = "ok" /\ r1.value = type /\ r1.at = l1
       /\ r2.res = "ok" /\ r2.value = part /\ r2.at = rest
  BY <1>17, <1>18, OkParts
<1>20. CASE HasPayload(type)
  <2> DEFINE w == With(part, "payload", SubSeq(b, rest + 1, Len(b)))
  <2>1. DecodeDatagram(b) = Ok(w, Len(b))
    <3> HIDE DEF rest
    <3> QED
      BY <1>19, <1>20, Zenon DEF DecodeDatagram, Then, before, fields
  <2>2. SubSeq(b, rest + 1, Len(b)) = e3
    <3> DEFINE v == DecodeRemaining(b, rest, Len(e3))
    <3>1. Agrees(v, b, rest, e3, e3)
      <4>1. rest \in Nat
        BY <1>13
      <4> HIDE DEF rest
      <4> QED
        BY <1>10, <1>13, <4>1, RemainingAgrees
    <3>2. rest + Len(e3) = Len(b)
      BY <1>13 DEF l3
    <3>3. v = Ok(e3, Len(b))
      <4> HIDE DEF v
      <4>1. rest + Len(e3) <= Len(b)
        BY <1>13, <3>2
      <4> QED
        BY <1>16, <3>1, <3>2, <4>1 DEF Agrees
    <3>4. v = Ok(SubSeq(b, rest + 1, Len(b)), Len(b))
      <4>1. ~(Remaining(b, rest) < Len(e3))
        BY <1>13, <3>2 DEF Remaining, l3
      <4> HIDE DEF rest
      <4> QED
        BY <3>2, <4>1, Zenon DEF DecodeRemaining
    <3>5. Ok(SubSeq(b, rest + 1, Len(b)), Len(b)).value = SubSeq(b, rest + 1, Len(b))
      BY Results, Zenon
    <3>6. Ok(e3, Len(b)).value = e3
      BY Results, Zenon
    <3> HIDE DEF v
    <3> QED
      BY <3>3, <3>4, <3>5, <3>6
  <2>3. With(part, "payload", m.payload) = m
    <3> DEFINE some == Names(m, fields, Len(fields))
    <3>1. part = [f \in {"datagram_type"} \cup some |-> IF f \in some THEN m[f] ELSE before[f]]
      BY <1>4 DEF part, Part
    <3>2. m = [f \in {"datagram_type", "payload"} \cup some |-> m[f]]
      BY <1>6, <1>20 DEF names, type
    <3> HIDE DEF some
    <3> QED
      BY <1>4, <3>1, <3>2 DEF With
  <2>4. w = m
    BY <1>10, <1>20, <2>2, <2>3
  <2> HIDE DEF w
  <2> QED
    BY <1>13, <2>1, <2>4, OkParts DEF b
<1>21. CASE ~HasPayload(type)
  <2>1. DecodeDatagram(b) = Ok(part, rest)
    <3> HIDE DEF rest
    <3> QED
      BY <1>19, <1>21, Zenon DEF DecodeDatagram, Then, before, fields
  <2>2. part = m
    <3>1. names = {"datagram_type"}
      BY <1>21 DEF names, type
    <3> QED
      BY <1>1, <1>4, <1>5, <3>1, WholePart DEF part
  <2> QED
    BY <1>13, <2>1, <2>2, OkParts DEF b
<1> QED
  BY <1>20, <1>21

-----------------------------------------------------------------------------
(* Sequences.                                                              *)

\* Sequences of anything.
LEMMA SequenceOf ==
  ASSUME NEW q, IsSequence(q)
  PROVE  /\ Len(q) \in Nat /\ q \in Seq({q[i] : i \in 1..Len(q)}) /\ DOMAIN q = 1..Len(q)
         /\ q = <<>> <=> Len(q) = 0
<1> DEFINE n == Len(q)
           S == {q[i] : i \in 1..n}
<1>1. n \in Nat /\ q = [i \in 1..n |-> q[i]]
  BY DEF IsSequence
<1>2. q \in [1..n -> S]
  <2> HIDE DEF n
  <2>1. \A i \in 1..n : q[i] \in {q[j] : j \in 1..n}
    OBVIOUS
  <2> QED
    BY <1>1, <2>1 DEF n
<1>3. q \in Seq(S)
  BY <1>1, <1>2, SeqDef, Zenon
<1>4. DOMAIN q = 1..n
  BY <1>1
<1> HIDE DEF S
<1>5. q = <<>> <=> Len(q) = 0
  BY <1>3, EmptySeq
<1> QED
  BY <1>1, <1>3, <1>4, <1>5 DEF S

\* A sequence of members of a set.
LEMMA SequenceIn ==
  ASSUME NEW S, NEW q \in Seq(S)
  PROVE  IsSequence(q)
<1>1. Len(q) \in Nat /\ q \in [1..Len(q) -> S]
  BY LenProperties
<1> QED
  BY <1>1 DEF IsSequence

\* One more at the end.
LEMMA Appended ==
  ASSUME NEW q, IsSequence(q), NEW x
  PROVE  /\ IsSequence(Append(q, x)) /\ Append(q, x) # <<>>
         /\ Len(Append(q, x)) = Len(q) + 1
         /\ \A i \in 1..Len(q) : Append(q, x)[i] = q[i]
         /\ Append(q, x)[Len(q) + 1] = x
<1> DEFINE S == {q[i] : i \in 1..Len(q)}
           T == S \cup {x}
<1>1. q \in Seq(S)
  BY SequenceOf
<1>2. q \in Seq(T) /\ x \in T
  <2>1. \A s : s \in S => s \in T
    OBVIOUS
  <2>2. x \in T
    OBVIOUS
  <2> HIDE DEF S, T
  <2>3. Len(q) \in Nat /\ q \in [1..Len(q) -> S]
    BY <1>1, LenProperties
  <2>4. q \in [1..Len(q) -> T]
    BY <2>1, <2>3
  <2>5. q \in Seq(T)
    BY <2>3, <2>4, SeqDef, Zenon
  <2> QED
    BY <2>2, <2>5
<1> HIDE DEF S, T
<1>3. Append(q, x) \in Seq(T)
  BY <1>2, AppendProperties
<1>4. IsSequence(Append(q, x))
  BY <1>3, SequenceIn
<1> QED
  BY <1>2, <1>4, AppendProperties

\* One less at the front.
LEMMA Tailed ==
  ASSUME NEW q, IsSequence(q), q # <<>>
  PROVE  /\ IsSequence(Tail(q)) /\ Len(q) >= 1 /\ Len(Tail(q)) = Len(q) - 1
         /\ \A i \in 1..Len(Tail(q)) : Tail(q)[i] = q[i + 1]
         /\ Head(q) = q[1]
<1> DEFINE S == {q[i] : i \in 1..Len(q)}
<1>1. q \in Seq(S) /\ Len(q) \in Nat /\ Len(q) # 0
  BY SequenceOf
<1> HIDE DEF S
<1>2. Tail(q) \in Seq(S) /\ Len(Tail(q)) = Len(q) - 1
      /\ \A i \in 1..Len(Tail(q)) : Tail(q)[i] = q[i + 1]
  BY <1>1, HeadTailProperties
<1>3. IsSequence(Tail(q))
  BY <1>2, SequenceIn
<1>4. Head(q) = q[1]
  BY <1>1
<1> QED
  BY <1>1, <1>2, <1>3, <1>4

\* The cuts of a sequence of bytes.
LEMMA Cut ==
  ASSUME NEW q \in Bytes, NEW n \in Nat, n <= Len(q)
  PROVE  /\ SubSeq(q, 1, n) \in Bytes /\ Len(SubSeq(q, 1, n)) = n
         /\ SubSeq(q, n + 1, Len(q)) \in Bytes /\ Len(SubSeq(q, n + 1, Len(q))) = Len(q) - n
         /\ \A i \in 1..n : SubSeq(q, 1, n)[i] = q[i]
         /\ \A i \in 1..(Len(q) - n) : SubSeq(q, n + 1, Len(q))[i] = q[n + i]
<1>1. Len(q) \in Nat
  BY DEF Bytes
<1>2. /\ SubSeq(q, 1, n) \in Bytes /\ Len(SubSeq(q, 1, n)) = n
      /\ \A i \in 1..n : SubSeq(q, 1, n)[i] = q[i]
  BY <1>1 DEF Bytes
<1>3. /\ SubSeq(q, n + 1, Len(q)) \in Bytes /\ Len(SubSeq(q, n + 1, Len(q))) = Len(q) - n
  BY <1>1 DEF Bytes
<1>4. ASSUME NEW i \in 1..(Len(q) - n) PROVE SubSeq(q, n + 1, Len(q))[i] = q[n + i]
  <2>1. SubSeq(q, n + 1, Len(q))[i] = q[n + 1 + i - 1]
    BY <1>1 DEF Bytes
  <2>2. n + 1 + i - 1 = n + i
    BY <1>1
  <2> QED
    BY <2>1, <2>2
<1> QED
  BY <1>2, <1>3, <1>4

-----------------------------------------------------------------------------
(* The encodings of a stream, cut anywhere.                                *)

\* Bytes that were sent and are yet to be decoded: those of the encodings, one after
\* the other, from a position on; off has the positions at which the encodings end.
Flows(codes, off, bytes, from) ==
    /\ off \in [0..Len(codes) -> Nat] /\ off[0] = 0
    /\ \A i \in 1..Len(codes) : off[i] = off[i - 1] + Len(codes[i])
    /\ from + Len(bytes) <= off[Len(codes)]
    /\ \A i \in 1..Len(codes) : \A k \in 1..Len(codes[i]) :
            from < off[i - 1] + k /\ off[i - 1] + k <= from + Len(bytes)
                => bytes[off[i - 1] + k - from] = codes[i][k]

\* The positions at which the encodings end do not decrease.
LEMMA Ends0 ==
  ASSUME NEW codes, Len(codes) \in Nat, \A i \in 1..Len(codes) : codes[i] \in Bytes,
         NEW off, NEW bytes, NEW from, Flows(codes, off, bytes, from)
  PROVE  \A i \in 0..Len(codes) : off[i] \in Nat /\ off[i] <= off[Len(codes)]
<1> DEFINE N == Len(codes)
           G == {n \in 0..N : off[N - n] <= off[N]}
<1>1. N \in Nat /\ \A i \in 0..N : off[i] \in Nat
  BY DEF Flows
<1>2. \A i \in 1..N : off[i - 1] <= off[i]
  <2> TAKE i \in 1..N
  <2>1. off[i] = off[i - 1] + Len(codes[i])
    BY DEF Flows
  <2>2. Len(codes[i]) \in Nat
    BY DEF Bytes
  <2>3. off[i - 1] \in Nat
    BY <1>1
  <2> QED
    BY <2>1, <2>2, <2>3
<1> HIDE DEF N
<1>3. 0 \in G
  BY <1>1
<1>4. ASSUME NEW n \in 0..N, n \in G, n # N PROVE n + 1 \in G
  <2>1. N - n \in 1..N /\ (N - n) - 1 = N - (n + 1) /\ n + 1 \in 0..N /\ N - (n + 1) \in 0..N
    BY <1>1, <1>4
  <2>2. off[N - (n + 1)] <= off[N - n] /\ off[N - n] <= off[N]
    BY <1>2, <1>4, <2>1
  <2>3. off[N - (n + 1)] \in Nat /\ off[N - n] \in Nat /\ off[N] \in Nat
    BY <1>1, <2>1
  <2> QED
    BY <2>1, <2>2, <2>3
<1>5. \A n \in 0..N : n \in G
  <2> HIDE DEF G
  <2> QED
    BY <1>1, <1>3, <1>4, UpTo
<1>6. ASSUME NEW i \in 0..N PROVE off[i] <= off[N]
  <2>1. N - i \in 0..N /\ N - (N - i) = i
    BY <1>1
  <2>2. N - i \in G
    BY <1>5, <2>1
  <2> QED
    BY <2>1, <2>2
<1> QED
  BY <1>1, <1>6 DEF N

\* The positions at which the encodings end, when there is one more.
Grown(codes, off, bytes, from, code, n) ==
    \E last :
        /\ Flows(Append(codes, code), last, bytes \o SubSeq(code, 1, n), from)
        /\ \A i \in 0..Len(codes) : last[i] = off[i]
        /\ last[Len(codes) + 1] = off[Len(codes)] + Len(code)

\* The sender sends the first bytes of an encoding, perhaps all of them.
LEMMA FlowMore ==
  ASSUME NEW codes, IsSequence(codes), \A i \in 1..Len(codes) : codes[i] \in Bytes,
         NEW off, NEW bytes \in Bytes, NEW from \in Nat, Flows(codes, off, bytes, from),
         from + Len(bytes) = off[Len(codes)],
         NEW code \in Bytes, NEW n \in Nat, n <= Len(code)
  PROVE  Grown(codes, off, bytes, from, code, n)
<1> DEFINE N == Len(codes)
           all == Append(codes, code)
           new == SubSeq(code, 1, n)
           last == [i \in 0..(N + 1) |-> IF i = N + 1 THEN off[N] + Len(code) ELSE off[i]]
<1>1. /\ N \in Nat /\ Len(all) = N + 1 /\ all[N + 1] = code
      /\ \A i \in 1..N : all[i] = codes[i]
  BY Appended DEF IsSequence
<1>2. new \in Bytes /\ Len(new) = n /\ \A i \in 1..n : new[i] = code[i]
  BY Cut
<1>3. /\ off \in [0..N -> Nat] /\ off[0] = 0
      /\ \A i \in 1..N : off[i] = off[i - 1] + Len(codes[i])
  BY DEF Flows
<1>4. /\ bytes \o new \in Bytes /\ Len(bytes \o new) = Len(bytes) + n
      /\ \A i \in Nat : 1 <= i /\ i <= Len(bytes) => (bytes \o new)[i] = bytes[i]
      /\ \A i \in Nat : Len(bytes) < i /\ i <= Len(bytes) + n
            => (bytes \o new)[i] = new[i - Len(bytes)]
  BY <1>2, Elements
<1>5. Len(code) \in Nat /\ Len(bytes) \in Nat /\ off[N] \in Nat
  BY <1>1, <1>3 DEF Bytes
<1>6. /\ last \in [0..(N + 1) -> Nat] /\ last[N + 1] = off[N] + Len(code)
      /\ \A i \in 0..N : last[i] = off[i]
  BY <1>1, <1>3, <1>5
<1>7. \A i \in 0..N : off[i] \in Nat /\ off[i] <= off[N]
  BY <1>1, Ends0
<1> HIDE DEF last, all, new, N
<1>8. last[0] = 0
  BY <1>1, <1>3, <1>6
<1>9. ASSUME NEW i \in 1..(N + 1) PROVE last[i] = last[i - 1] + Len(all[i])
  <2>1. CASE i = N + 1
    BY <1>1, <1>6, <2>1
  <2>2. CASE i # N + 1
    <3>1. i \in 1..N /\ i - 1 \in 0..N /\ i \in 0..N
      BY <1>1, <2>2
    <3> QED
      BY <1>1, <1>3, <1>6, <3>1
  <2> QED
    BY <2>1, <2>2
<1>10. from + Len(bytes \o new) <= last[N + 1]
  <2>1. from + Len(bytes) = off[N]
    BY DEF N
  <2> QED
    BY <1>4, <1>5, <1>6, <2>1
<1>11. ASSUME NEW i \in 1..(N + 1), NEW k \in 1..Len(all[i]),
              from < last[i - 1] + k, last[i - 1] + k <= from + Len(bytes \o new)
       PROVE  (bytes \o new)[last[i - 1] + k - from] = all[i][k]
  <2> DEFINE p == last[i - 1] + k - from
  <2>0. from + Len(bytes) = off[N]
    BY DEF N
  <2>1. CASE i = N + 1
    <3>1. all[i] = code /\ last[i - 1] = off[N] /\ k \in 1..Len(code)
      BY <1>1, <1>6, <1>11, <2>1
    <3>2. p = Len(bytes) + k /\ k <= n /\ k \in 1..n
      BY <1>4, <1>5, <1>11, <2>0, <3>1
    <3>3. p \in Nat /\ Len(bytes) < p /\ p <= Len(bytes) + n /\ p - Len(bytes) = k
      BY <1>5, <3>2
    <3> HIDE DEF p
    <3>4. (bytes \o new)[p] = new[k]
      BY <1>4, <3>3
    <3> QED
      BY <1>2, <3>1, <3>2, <3>4 DEF p
  <2>2. CASE i # N + 1
    <3>1. i \in 1..N /\ i - 1 \in 0..N /\ i \in 0..N
      BY <1>1, <2>2
    <3>2. all[i] = codes[i] /\ last[i - 1] = off[i - 1] /\ k \in 1..Len(codes[i])
          /\ off[i] = off[i - 1] + Len(codes[i])
      BY <1>1, <1>3, <1>6, <1>11, <3>1
    <3>3. off[i] <= off[N] /\ off[i] \in Nat /\ off[i - 1] \in Nat
      BY <1>7, <3>1
    <3>4. Len(codes[i]) \in Nat /\ k <= Len(codes[i]) /\ k \in Nat
      <4>1. codes[i] \in Bytes
        BY <3>1 DEF N
      <4>2. Len(codes[i]) \in Nat
        BY <4>1 DEF Bytes
      <4> QED
        BY <3>2, <4>2
    <3>5. off[i - 1] + k <= from + Len(bytes) /\ p \in Nat /\ 1 <= p /\ p <= Len(bytes)
      <4> DEFINE o == off[i - 1]
                 q == off[i]
                 end == off[N]
                 l == Len(codes[i])
                 h == Len(bytes)
      <4>1. /\ o \in Nat /\ q \in Nat /\ end \in Nat /\ l \in Nat /\ h \in Nat
            /\ q <= end /\ q = o + l /\ from + h = end /\ k <= l /\ k \in Nat
        BY <1>5, <2>0, <3>2, <3>3, <3>4
      <4>2. p = o + k - from /\ from < o + k
        BY <1>11, <3>2
      <4> HIDE DEF o, q, end, l, h, p
      <4>3. o + k <= from + h /\ p \in Nat /\ 1 <= p /\ p <= h
        BY <4>1, <4>2
      <4> QED
        BY <4>3 DEF o, h
    <3>6. bytes[off[i - 1] + k - from] = codes[i][k]
      <4>1. i \in 1..Len(codes) /\ from < off[i - 1] + k
        BY <1>11, <3>1, <3>2 DEF N
      <4> QED
        BY <3>2, <3>5, <4>1 DEF Flows
    <3>7. (bytes \o new)[p] = bytes[p]
      <4> HIDE DEF p
      <4> QED
        BY <1>4, <3>5
    <3> QED
      BY <3>2, <3>6, <3>7
  <2> QED
    BY <2>1, <2>2
<1>12. Flows(all, last, bytes \o new, from)
  BY <1>1, <1>6, <1>8, <1>9, <1>10, <1>11 DEF Flows
<1> QED
  BY <1>6, <1>12 DEF all, new, N, Grown

\* The receiver takes the first bytes.
LEMMA FlowLess ==
  ASSUME NEW codes, Len(codes) \in Nat, \A i \in 1..Len(codes) : codes[i] \in Bytes,
         NEW off, NEW bytes \in Bytes, NEW from \in Nat, Flows(codes, off, bytes, from),
         NEW n \in Nat, n <= Len(bytes)
  PROVE  Flows(codes, off, SubSeq(bytes, n + 1, Len(bytes)), from + n)
<1> DEFINE rest == SubSeq(bytes, n + 1, Len(bytes))
<1>1. /\ rest \in Bytes /\ Len(rest) = Len(bytes) - n
      /\ \A i \in 1..(Len(bytes) - n) : rest[i] = bytes[n + i]
  BY Cut
<1>2. Len(bytes) \in Nat
  BY DEF Bytes
<1>3. /\ off \in [0..Len(codes) -> Nat] /\ off[0] = 0
      /\ \A i \in 1..Len(codes) : off[i] = off[i - 1] + Len(codes[i])
      /\ from + Len(bytes) <= off[Len(codes)]
  BY DEF Flows
<1> HIDE DEF rest
<1>4. from + n + Len(rest) <= off[Len(codes)] /\ from + n + Len(rest) = from + Len(bytes)
  BY <1>1, <1>2, <1>3
<1>5. ASSUME NEW i \in 1..Len(codes), NEW k \in 1..Len(codes[i]),
             from + n < off[i - 1] + k, off[i - 1] + k <= from + n + Len(rest)
      PROVE  rest[off[i - 1] + k - (from + n)] = codes[i][k]
  <2>1. off[i - 1] \in Nat
    BY <1>3
  <2>2. from < off[i - 1] + k /\ off[i - 1] + k <= from + Len(bytes)
    BY <1>4, <1>5, <2>1
  <2>3. bytes[off[i - 1] + k - from] = codes[i][k]
    BY <2>2 DEF Flows
  <2> DEFINE p == off[i - 1] + k - (from + n)
  <2>4. p \in 1..(Len(bytes) - n) /\ n + p = off[i - 1] + k - from
    <3> DEFINE o == off[i - 1]
               h == Len(bytes)
    <3>1. k \in Nat
      <4>1. Len(codes[i]) \in Nat
        BY DEF Bytes
      <4> QED
        BY <4>1
    <3>2. o \in Nat /\ h \in Nat /\ from + n < o + k /\ o + k <= from + h
      BY <1>2, <1>5, <2>1, <2>2
    <3> HIDE DEF o, h
    <3>3. o + k - (from + n) \in 1..(h - n) /\ n + (o + k - (from + n)) = o + k - from
      BY <3>1, <3>2
    <3> QED
      BY <3>3 DEF o, h
  <2> QED
    BY <1>1, <2>3, <2>4
<1> QED
  BY <1>3, <1>4, <1>5 DEF Flows, rest

\* What the receiver has next is the next encoding, or its beginning.
LEMMA FlowNext ==
  ASSUME NEW codes, Len(codes) \in Nat, \A i \in 1..Len(codes) : codes[i] \in Bytes,
         NEW off, NEW bytes \in Bytes, NEW from \in Nat, Flows(codes, off, bytes, from),
         NEW i \in 1..Len(codes), from = off[i - 1],
         NEW head \in Bytes, NEW tail \in Bytes, codes[i] = head \o tail,
         NEW first \in Bytes, NEW others \in Bytes, bytes = first \o others
  PROVE  Fits(first, 0, head)
<1>1. /\ Len(first) \in Nat /\ Len(head) \in Nat /\ Len(tail) \in Nat /\ Len(others) \in Nat
  BY DEF Bytes
<1>2. /\ Len(bytes) = Len(first) + Len(others)
      /\ \A k \in Nat : 1 <= k /\ k <= Len(first) => bytes[k] = first[k]
  BY Elements
<1>3. /\ Len(codes[i]) = Len(head) + Len(tail)
      /\ \A k \in Nat : 1 <= k /\ k <= Len(head) => codes[i][k] = head[k]
  BY Elements
<1>4. ASSUME NEW k \in 1..Len(head), 0 + k <= Len(first) PROVE first[0 + k] = head[k]
  <2>1. k \in 1..Len(codes[i]) /\ codes[i][k] = head[k] /\ bytes[k] = first[k] /\ 0 + k = k
    BY <1>1, <1>2, <1>3, <1>4
  <2>2. from < off[i - 1] + k /\ off[i - 1] + k <= from + Len(bytes)
        /\ off[i - 1] + k - from = k
    BY <1>1, <1>2, <1>4, SMTT(20)
  <2>3. bytes[off[i - 1] + k - from] = codes[i][k]
    BY <2>1, <2>2 DEF Flows
  <2> QED
    BY <2>1, <2>2, <2>3
<1> QED
  BY <1>1, <1>4 DEF Fits

IsLeft(bytes, tail, rest, k) == bytes[k] = tail[Len(tail) - rest + k]
\* Within a payload, what it has next is what is left of the payload.
LEMMA FlowPayload ==
  ASSUME NEW codes, Len(codes) \in Nat, \A i \in 1..Len(codes) : codes[i] \in Bytes,
         NEW off, NEW bytes \in Bytes, NEW from \in Nat, Flows(codes, off, bytes, from),
         NEW i \in 1..Len(codes), NEW rest \in Nat, from + rest = off[i],
         NEW head \in Bytes, NEW tail \in Bytes, codes[i] = head \o tail, rest <= Len(tail),
         NEW k \in Nat, 1 <= k, k <= rest, k <= Len(bytes)
  PROVE  IsLeft(bytes, tail, rest, k)
<1>1. Len(head) \in Nat /\ Len(tail) \in Nat /\ Len(bytes) \in Nat
  BY DEF Bytes
<1>2. /\ Len(codes[i]) = Len(head) + Len(tail)
      /\ \A j \in Nat : Len(head) < j /\ j <= Len(head) + Len(tail)
            => codes[i][j] = tail[j - Len(head)]
  BY Elements, SMTT(20)
<1>3. off[i - 1] \in Nat /\ off[i] \in Nat /\ off[i] = off[i - 1] + Len(codes[i])
  <2> DEFINE N == Len(codes)
  <2>1. off \in [0..N -> Nat] /\ off[i] = off[i - 1] + Len(codes[i])
    BY DEF Flows
  <2>2. i \in 0..N /\ i - 1 \in 0..N
    OBVIOUS
  <2> HIDE DEF N
  <2> QED
    BY <2>1, <2>2
<1> DEFINE l == Len(head)
           t == Len(tail)
           o == off[i - 1]
           h == Len(bytes)
           j == l + t - rest + k
<1>4. /\ j \in Nat /\ l < j /\ j <= l + t /\ j - l = t - rest + k
      /\ off[i - 1] + j - from = k /\ from < off[i - 1] + j /\ off[i - 1] + j <= from + Len(bytes)
      /\ 1 <= j
  <2>1. /\ l \in Nat /\ t \in Nat /\ rest <= t /\ Len(codes[i]) = l + t
        /\ off[i] = off[i - 1] + (l + t)
    BY <1>1, <1>2, <1>3
  <2>2. /\ from + rest = o + (l + t) /\ o \in Nat /\ h \in Nat /\ k <= h
        /\ l \in Nat /\ t \in Nat /\ rest <= t
    BY <1>1, <1>3, <2>1
  <2> HIDE DEF l, t, o, h
  <2>3. k \in Nat /\ rest \in Nat /\ 1 <= k /\ k <= rest /\ j = l + t - rest + k
    BY DEF j
  <2> HIDE DEF j
  <2>4. j \in Int /\ j - l = t - rest + k /\ l < j /\ j <= l + t
    BY <2>2, <2>3
  <2>5. j \in Nat /\ 1 <= j
    BY <2>2, <2>4
  <2>6. o + j = from + k
    BY <2>2, <2>3
  <2>8. from \in Nat
    OBVIOUS
  <2>7. o + j - from = k /\ from < o + j /\ o + j <= from + h
    BY <2>2, <2>3, <2>5, <2>6, <2>8
  <2> QED
    BY <2>4, <2>5, <2>7 DEF o, h
<1>5. j \in 1..Len(codes[i])
  BY <1>2, <1>4
<1> HIDE DEF j
<1>6. bytes[off[i - 1] + j - from] = codes[i][j]
  BY <1>4, <1>5 DEF Flows
<1>7. codes[i][j] = tail[j - l]
  BY <1>2, <1>4
<1> QED
  BY <1>4, <1>6, <1>7 DEF IsLeft

-----------------------------------------------------------------------------
(* The items of a stream.                                                  *)

Spoken == {"up", "down", "data"}
Code(s, m) == EncodeItem(s, m).bytes

\* What the place of an item on its stream says of it.
IsItem(s, n, m) ==
    /\ s = "up" => IF n = 1 THEN IsClient(m) ELSE IsMessage(m)
    /\ s = "down" => IF n = 1 THEN IsServer(m) ELSE IsMessage(m)
    /\ s = "data" => IF n = 1 THEN IsStreamHeader(m) ELSE IsObject(m)

\* Which items have a payload, and what tells the items apart.
LEMMA Unloaded ==
  /\ \A m : IsClient(m) \/ IsServer(m) \/ IsMessage(m) \/ IsStreamHeader(m) =>
        "payload" \notin DOMAIN m
  /\ \A m : IsMessage(m) => m.type # "Client" /\ m.type # "Server"
  /\ \A m : IsClient(m) => m.type = "Client"
  /\ \A m : IsServer(m) => m.type = "Server"
  /\ \A m : IsStreamHeader(m) => "header_type" \in DOMAIN m
  /\ \A m : IsObject(m) => "header_type" \notin DOMAIN m /\ "payload" \in DOMAIN m
<1>1. ASSUME NEW m, IsClient(m) PROVE "payload" \notin DOMAIN m /\ m.type = "Client"
  <2>1. DOMAIN m = {"type", "versions", "params"} /\ m.type = "Client"
    BY <1>1 DEF IsClient
  <2> QED
    BY <2>1
<1>2. ASSUME NEW m, IsServer(m) PROVE "payload" \notin DOMAIN m /\ m.type = "Server"
  <2>1. DOMAIN m = {"type", "version", "params"} /\ m.type = "Server"
    BY <1>2 DEF IsServer
  <2> QED
    BY <2>1
<1>3. ASSUME NEW m, IsMessage(m)
      PROVE  "payload" \notin DOMAIN m /\ m.type # "Client" /\ m.type # "Server"
  <2>1. m.type \in Types /\ MessageFields(FieldsWritten[m.type])
    BY <1>3, AllTypes DEF IsMessage
  <2>2. m.type # "Client" /\ m.type # "Server"
    BY <2>1 DEF Types
  <2> DEFINE fields == FieldsWritten[m.type]
  <2>3. \A n \in 1..Len(fields) : fields[n].name # "payload"
    BY <2>1 DEF MessageFields
  <2>4. DOMAIN fields = 1..Len(fields)
    BY <2>1 DEF MessageFields, WellFormed
  <2>5. IsRecord(m, {"type"}, fields)
    BY <1>3 DEF IsMessage
  <2> HIDE DEF fields
  <2>6. DOMAIN m = {"type"} \cup {fields[i].name : i \in {j \in DOMAIN fields : Present(m, fields[j])}}
    BY <2>5 DEF IsRecord
  <2> QED
    BY <2>2, <2>3, <2>4, <2>6
<1>4. ASSUME NEW m, IsStreamHeader(m) PROVE "payload" \notin DOMAIN m /\ "header_type" \in DOMAIN m
  <2> DEFINE fields == StreamHeaderFields
  <2>1. DOMAIN fields = 1..5 /\ \A i \in 1..5 : fields[i].name # "payload"
    BY DEF StreamHeaderFields, SubgroupHeaderFields, FetchHeaderFields, IfSubgroup, When, Field,
           TrackAlias, GroupId, PublisherPriority
  <2>2. IsRecord(m, {"header_type"}, fields)
    BY <1>4 DEF IsStreamHeader
  <2> HIDE DEF fields
  <2>3. DOMAIN m = {"header_type"} \cup {fields[i].name : i \in {j \in DOMAIN fields : Present(m, fields[j])}}
    BY <2>2 DEF IsRecord
  <2> QED
    BY <2>1, <2>3
<1>5. ASSUME NEW m, IsObject(m) PROVE "header_type" \notin DOMAIN m /\ "payload" \in DOMAIN m
  <2> DEFINE fields == SubgroupObjectExt
  <2>1. DOMAIN fields = 1..4 /\ \A i \in 1..4 : fields[i].name # "header_type"
    BY DEF SubgroupObjectExt, ObjectIdDelta, ExtensionHeaders, PayloadLength, EmptyStatus, When, Field,
           ObjectStatus
  <2>2. IsRecord(m, {"payload"}, fields)
    BY <1>5 DEF IsObject
  <2> HIDE DEF fields
  <2>3. DOMAIN m = {"payload"} \cup {fields[i].name : i \in {j \in DOMAIN fields : Present(m, fields[j])}}
    BY <2>2 DEF IsRecord
  <2> QED
    BY <2>1, <2>3
<1> QED
  BY <1>1, <1>2, <1>3, <1>4, <1>5

\* Which codec is used.
LEMMA WhichEncode ==
  /\ \A m : m.type = "Client" => EncodeItem("up", m) = EncodeClient(m)
  /\ \A m : m.type = "Server" => EncodeItem("down", m) = EncodeServer(m)
  /\ \A m : \A s \in Control : m.type # "Client" /\ m.type # "Server" => EncodeItem(s, m) = EncodeMessage(m)
  /\ \A m : "header_type" \in DOMAIN m => EncodeItem("data", m) = EncodeStreamHeader(m)
  /\ \A m : "header_type" \notin DOMAIN m =>
        EncodeItem("data", m) = Both(EncodeSubgroupObjectExt(m), Encoded(m.payload))
<1>1. "up" \in Control /\ "down" \in Control /\ "data" \notin Control
  BY DEF Control
<1>2. \A m : m.type = "Client" => EncodeItem("up", m) = EncodeClient(m)
  BY <1>1, Zenon DEF EncodeItem
<1>3. \A m : m.type = "Server" => EncodeItem("down", m) = EncodeServer(m)
  BY <1>1, Zenon DEF EncodeItem
<1>4. \A m : \A s \in Control : m.type # "Client" /\ m.type # "Server" => EncodeItem(s, m) = EncodeMessage(m)
  BY <1>1, Zenon DEF EncodeItem
<1>5. \A m : "header_type" \in DOMAIN m => EncodeItem("data", m) = EncodeStreamHeader(m)
  BY <1>1, Zenon DEF EncodeItem
<1>6. \A m : "header_type" \notin DOMAIN m =>
        EncodeItem("data", m) = Both(EncodeSubgroupObjectExt(m), Encoded(m.payload))
  BY <1>1, Zenon DEF EncodeItem
<1> QED
  BY <1>2, <1>3, <1>4, <1>5, <1>6

\* Which decoder is used.
LEMMA WhichDecode ==
  /\ \A b : DecodeNext("up", <<>>, b) = DecodeClient(b, 0)
  /\ \A b : DecodeNext("down", <<>>, b) = DecodeServer(b, 0)
  /\ \A b, before : \A s \in Control : before # <<>> => DecodeNext(s, before, b) = DecodeMessage(b, 0)
  /\ \A b : DecodeNext("data", <<>>, b) = DecodeStreamHeader(b, 0)
  /\ \A b, before : before # <<>> =>
        DecodeNext("data", before, b) = DecodeSubgroupObject(b, 0, before[1].header_type)
<1>1. "up" \in Control /\ "down" \in Control /\ "data" \notin Control
      /\ "up" # "down" /\ "up" # "data" /\ "down" # "data"
  BY DEF Control
<1>2. \A b : DecodeNext("up", <<>>, b) = DecodeClient(b, 0)
  BY <1>1, Zenon DEF DecodeNext
<1>3. \A b : DecodeNext("down", <<>>, b) = DecodeServer(b, 0)
  BY <1>1, Zenon DEF DecodeNext
<1>4. \A b, before : \A s \in Control : before # <<>> => DecodeNext(s, before, b) = DecodeMessage(b, 0)
  BY <1>1, Zenon DEF DecodeNext
<1>5. \A b : DecodeNext("data", <<>>, b) = DecodeStreamHeader(b, 0)
  BY <1>1, Zenon DEF DecodeNext
<1>6. \A b, before : before # <<>> =>
        DecodeNext("data", before, b) = DecodeSubgroupObject(b, 0, before[1].header_type)
  BY <1>1, Zenon DEF DecodeNext
<1> QED
  BY <1>2, <1>3, <1>4, <1>5, <1>6

\* The next item of a stream is encoded as a head and its payload, and the receiver
\* decodes the head and no more.
ItemCode(s, before, m) ==
    \E head \in Bytes :
        /\ PayloadOf(m) \in Bytes /\ Code(s, m) = head \o PayloadOf(m) /\ Len(head) >= 1
        /\ \A b \in Bytes : Agrees(DecodeNext(s, before, b), b, 0, head, Bare(m))

\* An item without a payload.
LEMMA PlainItem ==
  ASSUME NEW s, NEW before, NEW m, "payload" \notin DOMAIN m,
         Code(s, m) \in Bytes, Len(Code(s, m)) >= 1,
         \A b \in Bytes : Agrees(DecodeNext(s, before, b), b, 0, Code(s, m), m)
  PROVE  ItemCode(s, before, m)
<1>1. PayloadOf(m) = <<>> /\ Bare(m) = m
  BY DEF PayloadOf, Bare
<1>2. Code(s, m) \o <<>> = Code(s, m) /\ <<>> \in Bytes
  BY DEF Bytes
<1> QED
  BY <1>1, <1>2 DEF ItemCode

\* The codecs, of the items of a stream.
LEMMA ItemAgrees ==
  ASSUME NEW s \in Spoken, NEW n \in Nat, NEW m, IsItem(s, n, m), EncodeItem(s, m).res = "ok",
         NEW before, before = <<>> <=> n = 1,
         s = "data" /\ n # 1 => HasExtensionHeaders(before[1].header_type)
  PROVE  /\ ItemCode(s, before, m)
         /\ DecodeNext(s, before, <<>>) = More(1)
         /\ s # "data" \/ n = 1 => "payload" \notin DOMAIN m
         /\ s = "data" /\ n # 1 => "payload" \in DOMAIN m
<1> DEFINE Done == /\ ItemCode(s, before, m)
                   /\ DecodeNext(s, before, <<>>) = More(1)
                   /\ s # "data" \/ n = 1 => "payload" \notin DOMAIN m
                   /\ s = "data" /\ n # 1 => "payload" \in DOMAIN m
<1>0. "up" \in Control /\ "down" \in Control /\ "data" \notin Control
      /\ "up" # "down" /\ "up" # "data" /\ "down" # "data"
      /\ <<>> = <<>> /\ (s = "up" \/ s = "down" \/ s = "data")
  BY DEF Control, Spoken
<1>1. CASE s = "up" /\ n = 1
  <2>1. IsClient(m) /\ "payload" \notin DOMAIN m /\ EncodeItem(s, m) = EncodeClient(m)
        /\ before = <<>> /\ (\A b : DecodeNext(s, before, b) = DecodeClient(b, 0))
        /\ DecodeClient(<<>>, 0) = More(1)
    BY <1>1, Unloaded, WhichEncode, WhichDecode, NothingYet DEF IsItem
  <2>2. /\ EncodeClient(m).bytes \in Bytes /\ Len(EncodeClient(m).bytes) >= 1
        /\ \A b \in Bytes, at \in Nat : Agrees(DecodeClient(b, at), b, at, EncodeClient(m).bytes, m)
    BY <2>1, ClientAgrees
  <2>3. ItemCode(s, before, m)
    BY <2>1, <2>2, PlainItem DEF Code
  <2> QED
    BY <1>0, <1>1, <2>1, <2>3
<1>2. CASE s = "down" /\ n = 1
  <2>1. IsServer(m) /\ "payload" \notin DOMAIN m /\ EncodeItem(s, m) = EncodeServer(m)
        /\ before = <<>> /\ (\A b : DecodeNext(s, before, b) = DecodeServer(b, 0))
        /\ DecodeServer(<<>>, 0) = More(1)
    BY <1>2, Unloaded, WhichEncode, WhichDecode, NothingYet DEF IsItem
  <2>2. /\ EncodeServer(m).bytes \in Bytes /\ Len(EncodeServer(m).bytes) >= 1
        /\ \A b \in Bytes, at \in Nat : Agrees(DecodeServer(b, at), b, at, EncodeServer(m).bytes, m)
    BY <2>1, ServerAgrees
  <2>3. ItemCode(s, before, m)
    BY <2>1, <2>2, PlainItem DEF Code
  <2> QED
    BY <1>0, <1>2, <2>1, <2>3
<1>3. CASE s \in Control /\ n # 1
  <2>1. IsMessage(m) /\ "payload" \notin DOMAIN m /\ EncodeItem(s, m) = EncodeMessage(m)
        /\ before # <<>> /\ (\A b : DecodeNext(s, before, b) = DecodeMessage(b, 0))
        /\ DecodeMessage(<<>>, 0) = More(1)
    BY <1>0, <1>3, Unloaded, WhichEncode, WhichDecode, NothingYet DEF IsItem
  <2>2. /\ EncodeMessage(m).bytes \in Bytes /\ Len(EncodeMessage(m).bytes) >= 1
        /\ \A b \in Bytes, at \in Nat : Agrees(DecodeMessage(b, at), b, at, EncodeMessage(m).bytes, m)
    BY <2>1, MessageAgrees
  <2>3. ItemCode(s, before, m)
    BY <2>1, <2>2, PlainItem DEF Code
  <2> QED
    BY <1>0, <1>3, <2>1, <2>3
<1>4. CASE s = "data" /\ n = 1
  <2>1. IsStreamHeader(m) /\ "payload" \notin DOMAIN m /\ EncodeItem(s, m) = EncodeStreamHeader(m)
        /\ before = <<>> /\ (\A b : DecodeNext(s, before, b) = DecodeStreamHeader(b, 0))
        /\ DecodeStreamHeader(<<>>, 0) = More(1)
    BY <1>4, Unloaded, WhichEncode, WhichDecode, NothingYet DEF IsItem
  <2>2. /\ EncodeStreamHeader(m).bytes \in Bytes /\ Len(EncodeStreamHeader(m).bytes) >= 1
        /\ \A b \in Bytes, at \in Nat :
              Agrees(DecodeStreamHeader(b, at), b, at, EncodeStreamHeader(m).bytes, m)
    BY <2>1, HeaderAgrees
  <2>3. ItemCode(s, before, m)
    BY <2>1, <2>2, PlainItem DEF Code
  <2> QED
    BY <1>0, <1>4, <2>1, <2>3
<1>5. CASE s = "data" /\ n # 1
  <2> DEFINE head == EncodeSubgroupObjectExt(m).bytes
             type == before[1].header_type
  <2>1. /\ IsObject(m) /\ "payload" \in DOMAIN m
        /\ EncodeItem(s, m) = Both(EncodeSubgroupObjectExt(m), Encoded(m.payload))
        /\ before # <<>> /\ (\A b : DecodeNext(s, before, b) = DecodeSubgroupObject(b, 0, type))
        /\ HasExtensionHeaders(type)
    BY <1>5, Unloaded, WhichEncode, WhichDecode DEF IsItem
  <2>2. /\ EncodeSubgroupObjectExt(m).res = "ok" /\ Code(s, m) = head \o Encoded(m.payload).bytes
    BY <2>1, BothOk DEF Code
  <2>3. Encoded(m.payload).bytes = m.payload /\ m.payload \in Bytes
    BY <2>1, Results DEF IsObject
  <2>4. PayloadOf(m) = m.payload /\ Bare(m) = [m EXCEPT !.payload = <<>>]
    BY <2>1 DEF PayloadOf, Bare
  <2>5. head \in Bytes /\ \A b \in Bytes, at \in Nat :
                Agrees(DecodeSubgroupObject(b, at, type), b, at, head, Bare(m))
    BY <2>1, <2>2, <2>4, ObjectAgrees
  <2>6. DecodeNext(s, before, <<>>) = More(1)
    BY <2>1, NoObjectYet
  <2>7. Len(head) >= 1
    <3> SUFFICES ASSUME ~(Len(head) >= 1) PROVE FALSE
      OBVIOUS
    <3>1. Len(head) \in Nat /\ <<>> \in Bytes /\ Len(<<>>) = 0
      BY <2>5 DEF Bytes
    <3>2. Len(head) = 0 /\ 0 + Len(head) <= Len(<<>>)
      BY <3>1
    <3>3. Fits(<<>>, 0, head)
      BY <3>1, <3>2 DEF Fits
    <3>4. Agrees(DecodeNext(s, before, <<>>), <<>>, 0, head, Bare(m))
      BY <2>1, <2>5, <3>1
    <3> HIDE DEF head
    <3>5. More(1) = Ok(Bare(m), 0 + Len(head))
      BY <2>6, <3>2, <3>3, <3>4 DEF Agrees
    <3>6. More(1).res = "more" /\ More(1).res = "ok"
      BY <3>5, Results
    <3> QED
      BY <3>6
  <2>8. ItemCode(s, before, m)
    <3> HIDE DEF head, type
    <3>1. \A b \in Bytes : Agrees(DecodeNext(s, before, b), b, 0, head, Bare(m))
      BY <2>1, <2>5
    <3> QED
      BY <2>2, <2>3, <2>4, <2>5, <2>7, <3>1 DEF ItemCode
  <2> QED
    BY <1>0, <1>5, <2>1, <2>6, <2>8
<1> QED
  BY <1>0, <1>1, <1>2, <1>3, <1>4, <1>5

-----------------------------------------------------------------------------
(* Bytes that move.                                                        *)

\* Sequences of bytes that agree are the same.
LEMMA SameBytes ==
  ASSUME NEW q \in Bytes, NEW r \in Bytes, Len(q) = Len(r), \A i \in 1..Len(q) : q[i] = r[i]
  PROVE  q = r
BY SeqEqual DEF Bytes

\* Concatenation is associative.
LEMMA Regrouped ==
  ASSUME NEW q \in Bytes, NEW r \in Bytes, NEW t \in Bytes
  PROVE  (q \o r) \o t = q \o (r \o t)
BY ConcatAssociative DEF Bytes

\* The two parts of a cut.
LEMMA Joined ==
  ASSUME NEW q \in Bytes, NEW n \in Nat, n <= Len(q)
  PROVE  SubSeq(q, 1, n) \o SubSeq(q, n + 1, Len(q)) = q
<1> DEFINE a == SubSeq(q, 1, n)
           z == SubSeq(q, n + 1, Len(q))
<1>1. /\ a \in Bytes /\ Len(a) = n /\ z \in Bytes /\ Len(z) = Len(q) - n
      /\ \A i \in 1..n : a[i] = q[i]
      /\ \A i \in 1..(Len(q) - n) : z[i] = q[n + i]
  BY Cut
<1>2. Len(q) \in Nat
  BY DEF Bytes
<1> HIDE DEF a, z
<1>6. /\ a \o z \in Bytes /\ Len(a \o z) = Len(a) + Len(z)
      /\ \A i \in Nat : 1 <= i /\ i <= Len(a) => (a \o z)[i] = a[i]
      /\ \A i \in Nat : Len(a) < i /\ i <= Len(a) + Len(z) => (a \o z)[i] = z[i - Len(a)]
  BY <1>1, Elements
<1>3. /\ a \o z \in Bytes /\ Len(a \o z) = Len(q)
      /\ \A i \in Nat : 1 <= i /\ i <= Len(a) => (a \o z)[i] = a[i]
      /\ \A i \in Nat : Len(a) < i /\ i <= Len(a) + Len(z) => (a \o z)[i] = z[i - Len(a)]
  BY <1>1, <1>2, <1>6
<1>4. ASSUME NEW i \in 1..Len(a \o z) PROVE (a \o z)[i] = q[i]
  <2>1. CASE i <= n
    BY <1>1, <1>2, <1>3, <1>4, <2>1
  <2>2. CASE ~(i <= n)
    <3>1. i \in Nat /\ Len(a) < i /\ i <= Len(a) + Len(z) /\ i - Len(a) \in 1..(Len(q) - n)
          /\ n + (i - Len(a)) = i
      BY <1>1, <1>2, <1>3, <1>4, <2>2
    <3> QED
      BY <1>1, <1>3, <3>1
  <2> QED
    BY <2>1, <2>2
<1>5. a \o z = q
  BY <1>3, <1>4, SameBytes
<1> QED
  BY <1>5 DEF a, z

\* What is behind the first of two sequences of bytes.
LEMMA Behind ==
  ASSUME NEW q \in Bytes, NEW r \in Bytes
  PROVE  SubSeq(q \o r, Len(q) + 1, Len(q \o r)) = r
<1> DEFINE z == SubSeq(q \o r, Len(q) + 1, Len(q \o r))
<1>1. Len(q) \in Nat /\ Len(r) \in Nat
  BY DEF Bytes
<1>2. /\ q \o r \in Bytes /\ Len(q \o r) = Len(q) + Len(r)
      /\ \A i \in Nat : Len(q) < i /\ i <= Len(q) + Len(r) => (q \o r)[i] = r[i - Len(q)]
  BY Elements
<1>3. /\ z \in Bytes /\ Len(z) = Len(q \o r) - Len(q)
      /\ \A i \in 1..(Len(q \o r) - Len(q)) : z[i] = (q \o r)[Len(q) + i]
  <2> DEFINE j == q \o r
  <2>1. j \in Bytes /\ Len(q) <= Len(j)
    BY <1>1, <1>2
  <2> HIDE DEF j
  <2>2. /\ SubSeq(j, Len(q) + 1, Len(j)) \in Bytes
        /\ Len(SubSeq(j, Len(q) + 1, Len(j))) = Len(j) - Len(q)
        /\ \A i \in 1..(Len(j) - Len(q)) : SubSeq(j, Len(q) + 1, Len(j))[i] = j[Len(q) + i]
    BY <1>1, <2>1, Cut
  <2> QED
    BY <2>2 DEF j
<1> HIDE DEF z
<1>4. Len(z) = Len(r)
  BY <1>1, <1>2, <1>3
<1>5. ASSUME NEW i \in 1..Len(z) PROVE z[i] = r[i]
  <2>1. i \in 1..(Len(q \o r) - Len(q)) /\ Len(q) + i \in Nat /\ Len(q) < Len(q) + i
        /\ Len(q) + i <= Len(q) + Len(r) /\ (Len(q) + i) - Len(q) = i
    BY <1>1, <1>2, <1>3, <1>4
  <2> QED
    BY <1>2, <1>3, <2>1
<1>6. z = r
  BY <1>3, <1>4, <1>5, SameBytes
<1> QED
  BY <1>6 DEF z

\* The first bytes of the first of two sequences, and what is left.
LEMMA TakenFirst ==
  ASSUME NEW q \in Bytes, NEW r \in Bytes, NEW n \in Nat, n <= Len(q)
  PROVE  /\ SubSeq(q \o r, 1, n) = SubSeq(q, 1, n)
         /\ SubSeq(q \o r, n + 1, Len(q \o r)) = SubSeq(q, n + 1, Len(q)) \o r
         /\ n <= Len(q \o r) /\ q \o r \in Bytes
<1> DEFINE a == SubSeq(q, 1, n)
           z == SubSeq(q, n + 1, Len(q))
           b == SubSeq(q \o r, 1, n)
<1>1. Len(q) \in Nat /\ Len(r) \in Nat
  BY DEF Bytes
<1>2. /\ q \o r \in Bytes /\ Len(q \o r) = Len(q) + Len(r)
      /\ \A i \in Nat : 1 <= i /\ i <= Len(q) => (q \o r)[i] = q[i]
  BY Elements
<1>3. n <= Len(q \o r)
  BY <1>1, <1>2
<1>4. /\ a \in Bytes /\ Len(a) = n /\ z \in Bytes /\ \A i \in 1..n : a[i] = q[i]
  BY Cut
<1>5. /\ b \in Bytes /\ Len(b) = n /\ \A i \in 1..n : b[i] = (q \o r)[i]
  BY <1>2, <1>3, Cut
<1>6. a \o z = q
  BY Joined
<1> HIDE DEF a, z, b
<1>7. b = a
  <2>1. ASSUME NEW i \in 1..Len(b) PROVE b[i] = a[i]
    BY <1>1, <1>2, <1>4, <1>5
  <2> QED
    BY <1>4, <1>5, <2>1, SameBytes
<1>8. q \o r = a \o (z \o r) /\ z \o r \in Bytes
  <2>1. (a \o z) \o r = a \o (z \o r)
    BY <1>4, Regrouped
  <2> QED
    BY <1>4, <1>6, <2>1, Elements
<1>9. SubSeq(a \o (z \o r), Len(a) + 1, Len(a \o (z \o r))) = z \o r
  BY <1>4, <1>8, Behind
<1>10. SubSeq(q \o r, n + 1, Len(q \o r)) = z \o r
  BY <1>4, <1>8, <1>9
<1> QED
  BY <1>2, <1>3, <1>7, <1>10 DEF a, z, b

\* Reading moves bytes from the stream to the buffer.
LEMMA Moved ==
  ASSUME NEW q \in Bytes, NEW r \in Bytes, NEW n \in Nat, n <= Len(r)
  PROVE  /\ (q \o SubSeq(r, 1, n)) \o SubSeq(r, n + 1, Len(r)) = q \o r
         /\ q \o SubSeq(r, 1, n) \in Bytes /\ SubSeq(r, n + 1, Len(r)) \in Bytes
<1>1. SubSeq(r, 1, n) \in Bytes /\ SubSeq(r, n + 1, Len(r)) \in Bytes
  BY Cut
<1>2. SubSeq(r, 1, n) \o SubSeq(r, n + 1, Len(r)) = r
  BY Joined
<1>3. q \o SubSeq(r, 1, n) \in Bytes
  BY <1>1, Elements
<1> DEFINE a == SubSeq(r, 1, n)
           z == SubSeq(r, n + 1, Len(r))
<1>4. (q \o a) \o z = q \o (a \o z)
  <2> HIDE DEF a, z
  <2>1. a \in Bytes /\ z \in Bytes
    BY <1>1 DEF a, z
  <2> QED
    BY <2>1, Regrouped
<1> QED
  BY <1>1, <1>2, <1>3, <1>4

-----------------------------------------------------------------------------
(* A stream.                                                               *)

CodesOf(s, S) == [i \in 1..Len(S) |-> Code(s, S[i])]

\* The bytes on their way are the next ones of what was sent: l of them end the item
\* number g, and unless the sender stopped within an item, they reach to the last one.
Flowing(s, S, g, bytes, l, f) ==
    \E off, from :
        /\ from \in Nat /\ Flows(CodesOf(s, S), off, bytes, from)
        /\ from + l = off[g]
        /\ ~f => from + Len(bytes) = off[Len(S)]

\* An item has an encoding of a head and a payload.
LEMMA Coded ==
  ASSUME NEW s \in Spoken, NEW n \in Nat, NEW m, IsItem(s, n, m), EncodeItem(s, m).res = "ok"
  PROVE  /\ \E head \in Bytes : /\ PayloadOf(m) \in Bytes /\ Code(s, m) = head \o PayloadOf(m)
                                /\ Len(head) >= 1
         /\ Code(s, m) \in Bytes /\ Len(PayloadOf(m)) \in Nat
<1>1. \E before : /\ before = <<>> <=> n = 1
                  /\ s = "data" /\ n # 1 => HasExtensionHeaders(before[1].header_type)
  <2>1. CASE n = 1
    BY <2>1
  <2>2. CASE n # 1
    <3> DEFINE before == <<[header_type |-> FetchStream]>>
    <3>1. before # <<>> /\ before[1].header_type = FetchStream
      OBVIOUS
    <3>2. HasExtensionHeaders(FetchStream)
      BY DEF HasExtensionHeaders
    <3> HIDE DEF before
    <3>3. /\ before = <<>> <=> n = 1
          /\ s = "data" /\ n # 1 => HasExtensionHeaders(before[1].header_type)
      BY <2>2, <3>1, <3>2
    <3> QED
      BY <3>3
  <2> QED
    BY <2>1, <2>2
<1>2. PICK before : /\ before = <<>> <=> n = 1
                    /\ s = "data" /\ n # 1 => HasExtensionHeaders(before[1].header_type)
  BY <1>1
<1>3. ItemCode(s, before, m)
  BY <1>2, ItemAgrees
<1>4. PICK head \in Bytes : /\ PayloadOf(m) \in Bytes /\ Code(s, m) = head \o PayloadOf(m)
                            /\ Len(head) >= 1
  BY <1>3 DEF ItemCode
<1>5. Code(s, m) \in Bytes /\ Len(PayloadOf(m)) \in Nat
  <2>1. head \o PayloadOf(m) \in Bytes
    BY <1>4, Elements
  <2>2. Len(PayloadOf(m)) \in Nat
    BY <1>4 DEF Bytes
  <2> QED
    BY <1>4, <2>1, <2>2
<1> QED
  BY <1>4, <1>5

\* As many encodings as items.
LEMMA CodesOfShape ==
  ASSUME NEW s, NEW S, IsSequence(S)
  PROVE  /\ Len(CodesOf(s, S)) = Len(S) /\ Len(S) \in Nat /\ IsSequence(CodesOf(s, S))
         /\ \A i \in 1..Len(S) : CodesOf(s, S)[i] = Code(s, S[i])
<1> DEFINE c == CodesOf(s, S)
           N == Len(S)
           T == {Code(s, S[i]) : i \in 1..N}
<1>1. N \in Nat
  BY DEF IsSequence
<1>2. c = [i \in 1..N |-> Code(s, S[i])] /\ (\A i \in 1..N : Code(s, S[i]) \in T)
  BY DEF CodesOf
<1> HIDE DEF c, N, T
<1>3. c \in Seq(T) /\ Len(c) = N /\ \A i \in 1..N : c[i] = Code(s, S[i])
  BY <1>1, <1>2
<1>4. IsSequence(c)
  BY <1>3, SequenceIn
<1> QED
  BY <1>1, <1>3, <1>4 DEF c, N

\* One more item.
LEMMA CodesOfMore ==
  ASSUME NEW s, NEW S, IsSequence(S), NEW m
  PROVE  CodesOf(s, Append(S, m)) = Append(CodesOf(s, S), Code(s, m))
<1> DEFINE all == Append(S, m)
           c == CodesOf(s, S)
           d == CodesOf(s, all)
           e == Append(c, Code(s, m))
           N == Len(S)
<1>1. /\ IsSequence(all) /\ Len(all) = N + 1 /\ all[N + 1] = m
      /\ \A i \in 1..N : all[i] = S[i]
  BY Appended
<1>2. N \in Nat /\ Len(c) = N /\ IsSequence(c) /\ \A i \in 1..N : c[i] = Code(s, S[i])
  BY CodesOfShape
<1>3. Len(d) = Len(all) /\ IsSequence(d) /\ \A i \in 1..Len(all) : d[i] = Code(s, all[i])
  BY <1>1, CodesOfShape
<1>4. /\ IsSequence(e) /\ Len(e) = Len(c) + 1 /\ e[Len(c) + 1] = Code(s, m)
      /\ \A i \in 1..Len(c) : e[i] = c[i]
  BY <1>2, Appended
<1> HIDE DEF all, c, d, e, N
<1>5. ASSUME NEW i \in 1..(N + 1) PROVE d[i] = e[i]
  <2>1. CASE i = N + 1
    BY <1>1, <1>2, <1>3, <1>4, <2>1
  <2>2. CASE i # N + 1
    <3>1. i \in 1..N /\ i \in 1..Len(all) /\ i \in 1..Len(c)
      BY <1>1, <1>2, <2>2
    <3> QED
      BY <1>1, <1>2, <1>3, <1>4, <3>1
  <2> QED
    BY <2>1, <2>2
<1>6. d = [i \in 1..(N + 1) |-> d[i]] /\ e = [i \in 1..(N + 1) |-> e[i]]
  BY <1>1, <1>2, <1>3, <1>4 DEF IsSequence
<1>7. d = e
  BY <1>5, <1>6
<1> QED
  BY <1>7 DEF all, c, d, e

\* The sender adds the first bytes of an item.
LEMMA FlowingSent ==
  ASSUME NEW s \in Spoken, NEW S, IsSequence(S),
         \A i \in 1..Len(S) : IsItem(s, i, S[i]) /\ EncodeItem(s, S[i]).res = "ok",
         NEW g \in Nat, g <= Len(S), NEW bytes \in Bytes, NEW l \in Nat,
         Flowing(s, S, g, bytes, l, FALSE),
         NEW m, Code(s, m) \in Bytes, NEW n \in Nat, n <= Len(Code(s, m)),
         NEW f \in BOOLEAN, ~f => n = Len(Code(s, m))
  PROVE  Flowing(s, Append(S, m), g, bytes \o SubSeq(Code(s, m), 1, n), l, f)
<1> DEFINE c == CodesOf(s, S)
           code == Code(s, m)
           all == Append(S, m)
           new == bytes \o SubSeq(code, 1, n)
<1>1. Len(c) = Len(S) /\ Len(S) \in Nat /\ IsSequence(c) /\ \A i \in 1..Len(S) : c[i] = Code(s, S[i])
  BY CodesOfShape
<1>2. \A i \in 1..Len(c) : c[i] \in Bytes
  <2> TAKE i \in 1..Len(c)
  <2>1. i \in 1..Len(S) /\ i \in Nat
    BY <1>1
  <2>2. Code(s, S[i]) \in Bytes
    BY <2>1, Coded
  <2> QED
    BY <1>1, <2>1, <2>2
<1>3. PICK off, from : /\ from \in Nat /\ Flows(c, off, bytes, from)
                       /\ from + l = off[g]
                       /\ from + Len(bytes) = off[Len(S)]
  BY DEF Flowing
<1>4. CodesOf(s, all) = Append(c, code) /\ Len(all) = Len(S) + 1
  BY CodesOfMore, Appended
<1>5. Len(bytes) \in Nat /\ Len(code) \in Nat
  BY DEF Bytes
<1>6. Len(new) = Len(bytes) + n
  <2>1. SubSeq(code, 1, n) \in Bytes /\ Len(SubSeq(code, 1, n)) = n
    BY Cut
  <2> QED
    BY <2>1, Elements
<1> HIDE DEF c, code, all, new
<1>7. PICK last :
            /\ Flows(Append(c, code), last, bytes \o SubSeq(code, 1, n), from)
            /\ \A i \in 0..Len(c) : last[i] = off[i]
            /\ last[Len(c) + 1] = off[Len(c)] + Len(code)
  <2>1. from + Len(bytes) = off[Len(c)]
    BY <1>1, <1>3
  <2>2. code \in Bytes
    BY DEF code
  <2>3. n <= Len(code)
    BY DEF code
  <2>4. IsSequence(c)
    BY <1>1
  <2>5. Flows(c, off, bytes, from)
    BY <1>3
  <2>6. from \in Nat
    BY <1>3
  <2>7. Grown(c, off, bytes, from, code, n)
    BY <1>2, <2>1, <2>2, <2>3, <2>4, <2>5, <2>6, FlowMore
  <2> QED
    BY <2>7 DEF Grown
<1>8. Flows(CodesOf(s, all), last, new, from)
  BY <1>4, <1>7 DEF new
<1>9. from + l = last[g]
  BY <1>1, <1>3, <1>7
<1>10. ~f => from + Len(new) = last[Len(all)]
  <2> HAVE ~f
  <2>1. n = Len(code)
    BY DEF code
  <2>2. last[Len(all)] = off[Len(S)] + Len(code)
    BY <1>1, <1>4, <1>7
  <2>3. from + Len(new) = from + (Len(bytes) + n)
    BY <1>6
  <2>4. from + (Len(bytes) + n) = (from + Len(bytes)) + Len(code)
    <3> DEFINE h == Len(bytes)
               k == Len(code)
    <3>1. from \in Nat /\ h \in Nat /\ k \in Nat /\ n = k
      BY <1>3, <1>5, <2>1
    <3> HIDE DEF h, k
    <3>2. from + (h + n) = (from + h) + k
      BY <3>1
    <3> QED
      BY <3>2 DEF h, k
  <2> QED
    BY <1>3, <2>2, <2>3, <2>4
<1>11. Flowing(s, all, g, new, l, f)
  BY <1>3, <1>8, <1>9, <1>10 DEF Flowing
<1> QED
  BY <1>11 DEF all, new, code

\* The receiver takes bytes of the item it has.
LEMMA FlowingTaken ==
  ASSUME NEW s \in Spoken, NEW S, IsSequence(S),
         \A i \in 1..Len(S) : IsItem(s, i, S[i]) /\ EncodeItem(s, S[i]).res = "ok",
         NEW g, NEW bytes \in Bytes, NEW l \in Nat, NEW f, Flowing(s, S, g, bytes, l, f),
         NEW n \in Nat, n <= Len(bytes), NEW h, NEW rest \in Nat,
         \A off : /\ off \in [0..Len(S) -> Nat]
                  /\ \A i \in 1..Len(S) : off[i] = off[i - 1] + Len(Code(s, S[i]))
                  => off[g] - l + n + rest = off[h]
  PROVE  Flowing(s, S, h, SubSeq(bytes, n + 1, Len(bytes)), rest, f)
<1> DEFINE c == CodesOf(s, S)
           new == SubSeq(bytes, n + 1, Len(bytes))
<1>1. Len(c) = Len(S) /\ Len(S) \in Nat /\ \A i \in 1..Len(S) : c[i] = Code(s, S[i])
  BY CodesOfShape
<1>2. \A i \in 1..Len(c) : c[i] \in Bytes
  <2> TAKE i \in 1..Len(c)
  <2>1. i \in 1..Len(S) /\ i \in Nat
    BY <1>1
  <2>2. Code(s, S[i]) \in Bytes
    BY <2>1, Coded
  <2> QED
    BY <1>1, <2>1, <2>2
<1>3. PICK off, from : /\ from \in Nat /\ Flows(c, off, bytes, from)
                       /\ from + l = off[g]
                       /\ ~f => from + Len(bytes) = off[Len(S)]
  BY DEF Flowing
<1>4. Len(bytes) \in Nat /\ Len(new) = Len(bytes) - n
  BY Cut DEF Bytes
<1> HIDE DEF c, new
<1>5. Flows(c, off, new, from + n)
  BY <1>1, <1>2, <1>3, FlowLess DEF new
<1>6. off \in [0..Len(S) -> Nat] /\ \A i \in 1..Len(S) : off[i] = off[i - 1] + Len(Code(s, S[i]))
  BY <1>1, <1>3 DEF Flows
<1>7. off[g] - l + n + rest = off[h]
  BY <1>6
<1>8. from + n \in Nat /\ (from + n) + rest = off[h]
  <2>1. from + l - l + n + rest = off[h]
    BY <1>3, <1>7
  <2> QED
    BY <1>3, <2>1
<1>9. ~f => (from + n) + Len(new) = off[Len(S)]
  BY <1>3, <1>4
<1>10. Flowing(s, S, h, new, rest, f)
  BY <1>5, <1>8, <1>9 DEF Flowing, c
<1> QED
  BY <1>10 DEF new

\* An item of whose payload the last bytes are yet to be read.
Partly(mine, theirs, rest) ==
    IF "payload" \in DOMAIN theirs
    THEN /\ rest <= Len(theirs.payload)
         /\ mine = [theirs EXCEPT !.payload =
                        SubSeq(theirs.payload, 1, Len(theirs.payload) - rest)]
    ELSE mine = theirs /\ rest = 0

\* A receiver that has the first g items asks for no byte behind the head of the next.
Wanted(s, S, g, w) ==
    \/ w <= 1
    \/ g < Len(S) /\ w + Len(PayloadOf(S[g + 1])) <= Len(Code(s, S[g + 1]))

\* A stream: the items sent, those its receiver has, its buffer, the bytes on their way,
\* the length it waits for, what is left of a payload, whether the sender has finished.
ItemsSent(s, S) ==
    IsSequence(S) /\ \A i \in 1..Len(S) : IsItem(s, i, S[i]) /\ EncodeItem(s, S[i]).res = "ok"
ItemsGot(S, G, l) ==
    /\ IsSequence(G) /\ Len(G) <= Len(S)
    /\ \A i \in 1..Len(G) : i < Len(G) => G[i] = S[i]
    /\ G = <<>> => l = 0
    /\ G # <<>> => Partly(G[Len(G)], S[Len(G)], l)
Carries(s, S, G, B, W, w, l, f) ==
    /\ B \in Bytes /\ W \in Bytes /\ w \in Int /\ l \in Nat /\ f \in BOOLEAN
    /\ ItemsSent(s, S) /\ ItemsGot(S, G, l)
    /\ Flowing(s, S, Len(G), B \o W, l, f)
    /\ Wanted(s, S, Len(G), w)

\* What the parts of a stream are.
LEMMA CarriesTypes ==
  ASSUME NEW s \in Spoken, NEW S, NEW G, NEW B, NEW W, NEW w, NEW l, NEW f,
         Carries(s, S, G, B, W, w, l, f)
  PROVE  /\ IsSequence(S) /\ IsSequence(G) /\ Len(S) \in Nat /\ Len(G) \in Nat /\ Len(G) <= Len(S)
         /\ B \in Bytes /\ W \in Bytes /\ B \o W \in Bytes /\ Len(B) \in Nat /\ Len(W) \in Nat
         /\ w \in Int /\ l \in Nat /\ f \in BOOLEAN
         /\ (G = <<>> <=> Len(G) = 0)
<1>1. IsSequence(S) /\ IsSequence(G) /\ Len(G) <= Len(S) /\ B \in Bytes /\ W \in Bytes
      /\ w \in Int /\ l \in Nat /\ f \in BOOLEAN
  BY DEF Carries, ItemsSent, ItemsGot
<1>2. Len(B) \in Nat /\ Len(W) \in Nat /\ B \o W \in Bytes
  BY <1>1, Elements DEF Bytes
<1>3. (G = <<>> <=> Len(G) = 0) /\ Len(S) \in Nat /\ Len(G) \in Nat
  BY <1>1, SequenceOf
<1> QED
  BY <1>1, <1>2, <1>3

\* Nothing was sent.
LEMMA CarriesNothing ==
  ASSUME NEW s \in Spoken
  PROVE  Carries(s, <<>>, <<>>, <<>>, <<>>, 0, 0, FALSE)
<1> DEFINE e == <<>>
           off == [i \in 0..0 |-> 0]
<1>1. e \in Bytes /\ e \o e = e /\ Len(e) = 0 /\ 1..Len(e) = {} /\ IsSequence(e) /\ 0..Len(e) = {0}
  <2>1. e \in Bytes /\ e \o e = e /\ Len(e) = 0
    BY DEF Bytes
  <2>2. 1..0 = {} /\ 0..0 = {0}
    OBVIOUS
  <2>3. IsSequence(e)
    BY <2>1, SequenceIn DEF Bytes
  <2> QED
    BY <2>1, <2>2, <2>3
<1>2. CodesOf(s, e) = e
  BY <1>1 DEF CodesOf
<1>3. off \in [0..0 -> Nat] /\ off[0] = 0 /\ 0..0 = {0}
  OBVIOUS
<1> HIDE DEF off
<1>4. Flows(e, off, e, 0)
  <2> HIDE DEF e
  <2> QED
    BY <1>1, <1>3 DEF Flows
<1>5. Flowing(s, e, Len(e), e \o e, 0, FALSE)
  <2> HIDE DEF e
  <2> QED
    BY <1>1, <1>2, <1>3, <1>4 DEF Flowing
<1>6. ItemsSent(s, e) /\ ItemsGot(e, e, 0) /\ Wanted(s, e, Len(e), 0)
  BY <1>1 DEF ItemsSent, ItemsGot, Wanted
<1> QED
  <2>1. FALSE \in BOOLEAN /\ 0 \in Int /\ 0 \in Nat
    OBVIOUS
  <2> HIDE DEF e
  <2>2. Carries(s, e, e, e, e, 0, 0, FALSE)
    BY <1>1, <1>5, <1>6, <2>1, Zenon DEF Carries
  <2> QED
    BY <2>2 DEF e

\* The sender encodes one more item, and writes it or, of a stream that ends with it,
\* its first bytes.
LEMMA CarriesSent ==
  ASSUME NEW s \in Spoken, NEW S, NEW G, NEW B, NEW W, NEW w, NEW l,
         Carries(s, S, G, B, W, w, l, FALSE),
         NEW m, IsItem(s, Len(S) + 1, m), EncodeItem(s, m).res = "ok",
         NEW n \in Nat, n <= Len(Code(s, m)), NEW f \in BOOLEAN, ~f => n = Len(Code(s, m))
  PROVE  Carries(s, Append(S, m), G, B, W \o SubSeq(Code(s, m), 1, n), w, l, f)
<1> DEFINE all == Append(S, m)
           N == Len(S)
           new == SubSeq(Code(s, m), 1, n)
<1>1. /\ IsSequence(S) /\ IsSequence(G) /\ N \in Nat /\ Len(G) \in Nat /\ Len(G) <= N
      /\ B \in Bytes /\ W \in Bytes /\ B \o W \in Bytes /\ w \in Int /\ l \in Nat
      /\ (G = <<>> <=> Len(G) = 0)
  BY CarriesTypes
<1>2. /\ IsSequence(all) /\ Len(all) = N + 1 /\ all[N + 1] = m
      /\ \A i \in 1..N : all[i] = S[i]
  BY <1>1, Appended
<1>3. ItemsSent(s, S) /\ ItemsGot(S, G, l) /\ Flowing(s, S, Len(G), B \o W, l, FALSE)
      /\ Wanted(s, S, Len(G), w)
  BY DEF Carries
<1>4. Code(s, m) \in Bytes
  BY <1>1, Coded
<1>5. new \in Bytes
  BY <1>4, Cut
<1>6. W \o new \in Bytes /\ (B \o W) \o new = B \o (W \o new)
  <2> HIDE DEF new
  <2>1. W \o new \in Bytes
    BY <1>1, <1>5, Elements
  <2>2. (B \o W) \o new = B \o (W \o new)
    BY <1>1, <1>5, Regrouped
  <2> QED
    BY <2>1, <2>2
<1>7. Flowing(s, all, Len(G), (B \o W) \o new, l, f)
  <2>1. \A i \in 1..Len(S) : IsItem(s, i, S[i]) /\ EncodeItem(s, S[i]).res = "ok"
    BY <1>3 DEF ItemsSent
  <2> QED
    BY <1>1, <1>3, <1>4, <2>1, FlowingSent
<1> HIDE DEF all, N, new
<1>8. ItemsSent(s, all)
  <2>1. ASSUME NEW i \in 1..Len(all) PROVE IsItem(s, i, all[i]) /\ EncodeItem(s, all[i]).res = "ok"
    <3>1. CASE i = N + 1
      BY <1>2, <3>1 DEF N
    <3>2. CASE i # N + 1
      <4>1. i \in 1..N
        BY <1>1, <1>2, <3>2
      <4> QED
        BY <1>2, <1>3, <4>1 DEF ItemsSent, N
    <3> QED
      BY <3>1, <3>2
  <2> QED
    BY <1>2, <2>1 DEF ItemsSent
<1>9. ItemsGot(all, G, l)
  <2>1. \A i \in 1..Len(G) : all[i] = S[i]
    BY <1>1, <1>2
  <2>2. G # <<>> => all[Len(G)] = S[Len(G)]
    BY <1>1, <2>1
  <2>3. Len(G) <= Len(all)
    BY <1>1, <1>2
  <2> QED
    BY <1>3, <2>1, <2>2, <2>3 DEF ItemsGot
<1>10. Wanted(s, all, Len(G), w)
  <2>1. CASE Len(G) < N
    <3>1. all[Len(G) + 1] = S[Len(G) + 1] /\ Len(G) < Len(all)
      BY <1>1, <1>2, <2>1
    <3> QED
      BY <1>3, <3>1 DEF Wanted
  <2>2. CASE ~(Len(G) < N)
    BY <1>3, <2>2 DEF Wanted, N
  <2> QED
    BY <2>1, <2>2
<1>11. Carries(s, all, G, B, W \o new, w, l, f)
  BY <1>1, <1>6, <1>7, <1>8, <1>9, <1>10 DEF Carries
<1> QED
  BY <1>11 DEF all, new

\* A read moves bytes to the buffer.
LEMMA CarriesRead ==
  ASSUME NEW s \in Spoken, NEW S, NEW G, NEW B, NEW W, NEW w, NEW l, NEW f,
         Carries(s, S, G, B, W, w, l, f), NEW n \in Nat, n <= Len(W)
  PROVE  Carries(s, S, G, B \o SubSeq(W, 1, n), SubSeq(W, n + 1, Len(W)), w, l, f)
<1> DEFINE b == B \o SubSeq(W, 1, n)
           v == SubSeq(W, n + 1, Len(W))
<1>1. B \in Bytes /\ W \in Bytes
  BY CarriesTypes
<1>2. b \in Bytes /\ v \in Bytes /\ b \o v = B \o W
  BY <1>1, Moved
<1> HIDE DEF b, v
<1>3. Carries(s, S, G, b, v, w, l, f)
  BY <1>2 DEF Carries
<1> QED
  BY <1>3 DEF b, v

\* The sender finishes the stream; the receiver gives up.
LEMMA CarriesEnded ==
  ASSUME NEW s \in Spoken, NEW S, NEW G, NEW B, NEW W, NEW w, NEW l, NEW f,
         Carries(s, S, G, B, W, w, l, f)
  PROVE  /\ Carries(s, S, G, B, W, w, l, TRUE)
         /\ Carries(s, S, G, B, W, GivenUp, l, f)
<1>1. Flowing(s, S, Len(G), B \o W, l, TRUE)
  BY DEF Carries, Flowing
<1>2. Wanted(s, S, Len(G), GivenUp) /\ GivenUp \in Int
  BY DEF Wanted, GivenUp
<1> QED
  BY <1>1, <1>2 DEF Carries

\* Nothing is decoded of nothing, and one byte is asked for.
LEMMA NothingNext ==
  ASSUME NEW s \in Spoken, NEW before,
         s = "data" /\ before # <<>> => HasExtensionHeaders(before[1].header_type)
  PROVE  DecodeNext(s, before, <<>>) = More(1)
<1>1. \/ s = "up" /\ before = <<>>
      \/ s = "down" /\ before = <<>>
      \/ s \in Control /\ before # <<>>
      \/ s = "data" /\ before = <<>>
      \/ s = "data" /\ before # <<>>
  BY DEF Spoken, Control
<1>2. CASE s = "up" /\ before = <<>>
  <2>1. DecodeNext(s, before, <<>>) = DecodeClient(<<>>, 0) /\ DecodeClient(<<>>, 0) = More(1)
    BY <1>2, WhichDecode, NothingYet
  <2> QED
    BY <2>1
<1>3. CASE s = "down" /\ before = <<>>
  <2>1. DecodeNext(s, before, <<>>) = DecodeServer(<<>>, 0) /\ DecodeServer(<<>>, 0) = More(1)
    BY <1>3, WhichDecode, NothingYet
  <2> QED
    BY <2>1
<1>4. CASE s \in Control /\ before # <<>>
  <2>1. DecodeNext(s, before, <<>>) = DecodeMessage(<<>>, 0) /\ DecodeMessage(<<>>, 0) = More(1)
    BY <1>4, WhichDecode, NothingYet
  <2> QED
    BY <2>1
<1>5. CASE s = "data" /\ before = <<>>
  <2>1. DecodeNext(s, before, <<>>) = DecodeStreamHeader(<<>>, 0)
        /\ DecodeStreamHeader(<<>>, 0) = More(1)
    BY <1>5, WhichDecode, NothingYet
  <2> QED
    BY <2>1
<1>6. CASE s = "data" /\ before # <<>>
  <2>1. DecodeNext(s, before, <<>>) = DecodeSubgroupObject(<<>>, 0, before[1].header_type)
    BY <1>6, WhichDecode
  <2>2. DecodeSubgroupObject(<<>>, 0, before[1].header_type) = More(1)
    BY <1>6, NoObjectYet
  <2> QED
    BY <2>1, <2>2
<1> QED
  BY <1>1, <1>2, <1>3, <1>4, <1>5, <1>6

\* Which items have a payload.
LEMMA Loaded ==
  ASSUME NEW s \in Spoken, NEW n \in Nat, NEW m, IsItem(s, n, m), EncodeItem(s, m).res = "ok"
  PROVE  /\ "payload" \in DOMAIN m <=> s = "data" /\ n # 1
         /\ "payload" \in DOMAIN m =>
                /\ IsObject(m) /\ m.payload \in Bytes /\ PayloadOf(m) = m.payload
                /\ m = [x \in DOMAIN m |-> m[x]] /\ Bare(m).payload_length = Len(m.payload)
         /\ "payload" \notin DOMAIN m => PayloadOf(m) = <<>> /\ Bare(m) = m
<1>1. "payload" \in DOMAIN m <=> s = "data" /\ n # 1
  BY Unloaded DEF IsItem, Spoken
<1>2. ASSUME "payload" \in DOMAIN m
      PROVE  /\ IsObject(m) /\ m.payload \in Bytes /\ PayloadOf(m) = m.payload
             /\ m = [x \in DOMAIN m |-> m[x]] /\ Bare(m).payload_length = Len(m.payload)
  <2>1. IsObject(m)
    BY <1>1, <1>2 DEF IsItem
  <2>2. m.payload \in Bytes /\ m.payload_length = Len(m.payload) /\ IsRecord(m, {"payload"}, SubgroupObjectExt)
    BY <2>1 DEF IsObject
  <2>3. PayloadOf(m) = m.payload /\ Bare(m) = [m EXCEPT !.payload = <<>>]
    BY <1>2 DEF PayloadOf, Bare
  <2>4. m = [x \in DOMAIN m |-> m[x]]
    <3> DEFINE D == {"payload"} \cup {SubgroupObjectExt[i].name : i \in
                        {j \in DOMAIN SubgroupObjectExt : Present(m, SubgroupObjectExt[j])}}
    <3>1. m = [x \in D |-> m[x]]
      BY <2>2 DEF IsRecord
    <3> HIDE DEF D
    <3> QED
      BY <3>1
  <2>5. "payload_length" \in DOMAIN m
    <3>1. /\ DOMAIN SubgroupObjectExt = 1..4 /\ SubgroupObjectExt[3] = PayloadLength
          /\ PayloadLength.on = Always /\ PayloadLength.name = "payload_length"
      BY DEF SubgroupObjectExt, PayloadLength, Field
    <3>2. 3 \in {j \in DOMAIN SubgroupObjectExt : Present(m, SubgroupObjectExt[j])}
      BY <3>1 DEF Present
    <3> DEFINE P == {j \in DOMAIN SubgroupObjectExt : Present(m, SubgroupObjectExt[j])}
               D == {"payload"} \cup {SubgroupObjectExt[i].name : i \in P}
    <3>3. DOMAIN m = D
      BY <2>2 DEF IsRecord
    <3>4. 3 \in P /\ SubgroupObjectExt[3].name = "payload_length"
      BY <3>1, <3>2
    <3>5. "payload_length" \in D
      <4> HIDE DEF P
      <4> QED
        BY <3>4
    <3> QED
      BY <3>3, <3>5
  <2>6. Bare(m).payload_length = m.payload_length
    BY <2>3, <2>4, <2>5
  <2> QED
    BY <2>1, <2>2, <2>3, <2>4, <2>6
<1>3. "payload" \notin DOMAIN m => PayloadOf(m) = <<>> /\ Bare(m) = m
  BY DEF PayloadOf, Bare
<1> QED
  BY <1>1, <1>2, <1>3

\* An item of whose payload nothing is missing, and one of whose payload all is.
LEMMA Whole ==
  ASSUME NEW s \in Spoken, NEW n \in Nat, NEW m, IsItem(s, n, m), EncodeItem(s, m).res = "ok"
  PROVE  /\ \A x : Partly(x, m, 0) => x = m
         /\ Partly(Bare(m), m, Len(PayloadOf(m)))
<1>1. CASE "payload" \notin DOMAIN m
  BY <1>1, Loaded DEF Partly
<1>2. CASE "payload" \in DOMAIN m
  <2> DEFINE p == m.payload
  <2>1. p \in Bytes /\ PayloadOf(m) = p /\ m = [x \in DOMAIN m |-> m[x]]
    BY <1>2, Loaded
  <2>2. Bare(m) = [m EXCEPT !.payload = <<>>]
    BY <1>2 DEF Bare
  <2>3. Len(p) \in Nat /\ SubSeq(p, 1, Len(p)) = p /\ SubSeq(p, 1, 0) = <<>>
    BY <2>1, SubSeqFull DEF Bytes
  <2>4. Len(p) - 0 = Len(p) /\ Len(p) - Len(p) = 0 /\ 0 <= Len(p) /\ Len(p) <= Len(p)
    BY <2>3
  <2>5. ASSUME NEW x, Partly(x, m, 0) PROVE x = m
    <3>1. x = [m EXCEPT !.payload = SubSeq(p, 1, Len(p) - 0)]
      BY <1>2, <2>5 DEF Partly
    <3>2. x = [m EXCEPT !.payload = p]
      BY <2>3, <2>4, <3>1
    <3>3. [m EXCEPT !.payload = p] = m
      BY <2>1
    <3> QED
      BY <3>2, <3>3
  <2>6. Partly(Bare(m), m, Len(p))
    <3>1. Bare(m) = [m EXCEPT !.payload = SubSeq(p, 1, Len(p) - Len(p))]
      BY <2>2, <2>3, <2>4
    <3> QED
      BY <1>2, <2>4, <3>1 DEF Partly
  <2> QED
    BY <2>1, <2>5, <2>6
<1> QED
  BY <1>1, <1>2

\* The header of a stream is what was sent.
LEMMA HeaderOf ==
  ASSUME NEW s \in Spoken, NEW S, NEW G, NEW l \in Nat, ItemsSent(s, S), ItemsGot(S, G, l)
  PROVE  /\ G # <<>> => Len(G) \in 1..Len(S) /\ Len(S) \in Nat /\ (Len(G) # 1 => G[1] = S[1])
         /\ G # <<>> => G[1] = S[1]
         /\ s = "data" /\ G # <<>> => HasExtensionHeaders(G[1].header_type)
         /\ l = 0 /\ G # <<>> => G[Len(G)] = S[Len(G)]
<1> SUFFICES ASSUME G # <<>>
             PROVE  /\ Len(G) \in 1..Len(S) /\ Len(S) \in Nat /\ (Len(G) # 1 => G[1] = S[1])
                    /\ G[1] = S[1]
                    /\ s = "data" => HasExtensionHeaders(G[1].header_type)
                    /\ l = 0 => G[Len(G)] = S[Len(G)]
  OBVIOUS
<1>1. IsSequence(S) /\ IsSequence(G) /\ Len(G) <= Len(S) /\ Partly(G[Len(G)], S[Len(G)], l)
      /\ (\A i \in 1..Len(G) : i < Len(G) => G[i] = S[i])
      /\ (\A i \in 1..Len(S) : IsItem(s, i, S[i]) /\ EncodeItem(s, S[i]).res = "ok")
  BY DEF ItemsSent, ItemsGot
<1>2. Len(S) \in Nat /\ Len(G) \in Nat /\ Len(G) # 0
  BY <1>1, SequenceOf
<1>3. Len(G) \in 1..Len(S) /\ 1 \in 1..Len(S) /\ 1 \in 1..Len(G)
  <2> DEFINE g == Len(G)
             h == Len(S)
  <2>1. g \in Nat /\ g # 0 /\ h \in Nat /\ g <= h
    BY <1>1, <1>2
  <2> HIDE DEF g, h
  <2>2. g \in 1..h /\ 1 \in 1..h /\ 1 \in 1..g
    BY <2>1
  <2> QED
    BY <2>2 DEF g, h
<1>4. Len(G) # 1 => G[1] = S[1]
  <2> DEFINE g == Len(G)
  <2>1. g \in Nat /\ g # 0 /\ 1 \in 1..g
    BY <1>2, <1>3
  <2> HIDE DEF g
  <2>2. g # 1 => 1 < g
    BY <2>1
  <2> QED
    BY <1>1, <1>3, <2>2 DEF g
<1>5. IsItem(s, 1, S[1]) /\ EncodeItem(s, S[1]).res = "ok"
  BY <1>1, <1>3
<1>6. G[1] = S[1]
  <2>1. CASE Len(G) = 1
    <3>1. "payload" \notin DOMAIN S[1]
      BY <1>5, Loaded
    <3> QED
      BY <1>1, <2>1, <3>1 DEF Partly
  <2> QED
    BY <1>4, <2>1
<1>7. s = "data" => HasExtensionHeaders(G[1].header_type)
  BY <1>5, <1>6 DEF IsItem, IsStreamHeader
<1>8. l = 0 => G[Len(G)] = S[Len(G)]
  <2>1. IsItem(s, Len(G), S[Len(G)]) /\ EncodeItem(s, S[Len(G)]).res = "ok"
    BY <1>1, <1>3
  <2> QED
    BY <1>1, <1>2, <2>1, Whole
<1> QED
  BY <1>2, <1>3, <1>4, <1>6, <1>7, <1>8

\* What an attempt to decode leads to: more is asked for, or the head of the next item
\* is decoded.
Attempt(s, S, G, B, W, f, r) ==
    \/ r.res = "more" /\ Carries(s, S, G, B, W, Len(B) + r.need, 0, f)
    \/ /\ r.res = "ok" /\ Len(G) < Len(S) /\ r.value = Bare(S[Len(G) + 1])
       /\ \A v \in {0, GivenUp} :
            Carries(s, S, Append(G, r.value), SubSeq(B, r.at + 1, Len(B)), W, v,
                    Len(PayloadOf(S[Len(G) + 1])), f)

\* All that was sent is decoded.
LEMMA FlowingAll ==
  ASSUME NEW s \in Spoken, NEW S, IsSequence(S), NEW bytes \in Bytes, NEW f,
         Flowing(s, S, Len(S), bytes, 0, f)
  PROVE  bytes = <<>>
<1>1. PICK off, from : /\ from \in Nat /\ Flows(CodesOf(s, S), off, bytes, from)
                       /\ from + 0 = off[Len(S)]
  BY DEF Flowing
<1>2. Len(CodesOf(s, S)) = Len(S)
  BY CodesOfShape
<1>3. from + Len(bytes) <= off[Len(S)] /\ Len(bytes) \in Nat
  BY <1>1, <1>2 DEF Flows, Bytes
<1>4. Len(bytes) = 0
  BY <1>1, <1>3
<1> QED
  BY <1>4 DEF Bytes

\* The buffer begins like the next item.
LEMMA FlowingFits ==
  ASSUME NEW s \in Spoken, NEW S, ItemsSent(s, S), NEW g \in Nat, g < Len(S),
         NEW B \in Bytes, NEW W \in Bytes, NEW f, Flowing(s, S, g, B \o W, 0, f),
         NEW head \in Bytes, NEW tail \in Bytes, Code(s, S[g + 1]) = head \o tail
  PROVE  Fits(B, 0, head)
<1> DEFINE c == CodesOf(s, S)
           bytes == B \o W
<1>1. IsSequence(S) /\ \A i \in 1..Len(S) : IsItem(s, i, S[i]) /\ EncodeItem(s, S[i]).res = "ok"
  BY DEF ItemsSent
<1>2. Len(c) = Len(S) /\ Len(S) \in Nat /\ \A i \in 1..Len(S) : c[i] = Code(s, S[i])
  BY <1>1, CodesOfShape
<1>3. \A i \in 1..Len(c) : c[i] \in Bytes
  <2> TAKE i \in 1..Len(c)
  <2>1. i \in 1..Len(S) /\ i \in Nat
    BY <1>2
  <2>2. Code(s, S[i]) \in Bytes
    BY <1>1, <2>1, Coded
  <2> QED
    BY <1>2, <2>1, <2>2
<1>4. PICK off, from : from \in Nat /\ Flows(c, off, bytes, from) /\ from + 0 = off[g]
  BY DEF Flowing
<1>5. bytes \in Bytes
  BY Elements
<1>6. g + 1 \in 1..Len(c) /\ (g + 1) - 1 = g
  BY <1>2
<1>7. from = off[(g + 1) - 1] /\ c[g + 1] = head \o tail
  BY <1>2, <1>4, <1>6, SMTT(20)
<1> HIDE DEF c
<1> DEFINE j == g + 1
<1>8. j \in 1..Len(c) /\ from = off[j - 1] /\ c[j] = head \o tail
  BY <1>6, <1>7
<1> HIDE DEF j
<1>9. bytes = B \o W
  OBVIOUS
<1> HIDE DEF bytes
<1>10. Len(c) \in Nat
  BY <1>2
<1>11. from \in Nat /\ Flows(c, off, bytes, from)
  BY <1>4
<1> QED
  BY <1>3, <1>5, <1>8, <1>9, <1>10, <1>11, FlowNext

\* An attempt to decode never fails: it asks for more of the item, or has it.
LEMMA Decoding ==
  ASSUME NEW s \in Spoken, NEW S, NEW G, NEW B, NEW W, NEW w, NEW f,
         Carries(s, S, G, B, W, w, 0, f)
  PROVE  Attempt(s, S, G, B, W, f, DecodeNext(s, G, B))
<1> DEFINE r == DecodeNext(s, G, B)
           g == Len(G)
           m == S[g + 1]
           p == PayloadOf(m)
           code == Code(s, m)
<1>1. /\ IsSequence(S) /\ IsSequence(G) /\ Len(S) \in Nat /\ g \in Nat /\ g <= Len(S)
      /\ B \in Bytes /\ W \in Bytes /\ B \o W \in Bytes /\ Len(B) \in Nat
      /\ f \in BOOLEAN /\ (G = <<>> <=> g = 0)
  BY CarriesTypes
<1>2. /\ ItemsSent(s, S) /\ ItemsGot(S, G, 0) /\ Flowing(s, S, g, B \o W, 0, f)
  BY DEF Carries
<1>3. /\ s = "data" /\ G # <<>> => HasExtensionHeaders(G[1].header_type)
      /\ G # <<>> => G[g] = S[g]
  BY <1>2, HeaderOf
<1>4. CASE g = Len(S)
  <2>1. B \o W = <<>>
    BY <1>1, <1>2, <1>4, FlowingAll
  <2>2. B = <<>> /\ Len(B) = 0
    BY <1>1, <2>1, Elements DEF Bytes
  <2>3. r = More(1)
    BY <1>3, <2>2, NothingNext
  <2>4. r.res = "more" /\ r.need = 1
    BY <2>3, Results
  <2>5. Wanted(s, S, g, Len(B) + r.need) /\ Len(B) + r.need \in Int
    BY <2>2, <2>4 DEF Wanted
  <2>6. Carries(s, S, G, B, W, Len(B) + r.need, 0, f)
    BY <2>5 DEF Carries
  <2> QED
    BY <2>4, <2>6 DEF Attempt
<1>5. CASE g # Len(S)
  <2>1. g < Len(S) /\ g + 1 \in 1..Len(S) /\ g + 1 \in Nat /\ (G = <<>> <=> g + 1 = 1)
    BY <1>1, <1>5
  <2> HIDE DEF r, g, m, p, code
  <2>2. IsItem(s, g + 1, m) /\ EncodeItem(s, m).res = "ok"
    BY <1>2, <2>1 DEF ItemsSent, m
  <2>3. ItemCode(s, G, m)
    BY <1>3, <2>1, <2>2, ItemAgrees
  <2>4. PICK head \in Bytes :
            /\ p \in Bytes /\ code = head \o p /\ Len(head) >= 1
            /\ \A b \in Bytes : Agrees(DecodeNext(s, G, b), b, 0, head, Bare(m))
    BY <2>3 DEF ItemCode, p, code
  <2>5. Fits(B, 0, head)
    <3>1. Code(s, S[g + 1]) = head \o p
      BY <2>4 DEF code, m
    <3>2. ItemsSent(s, S) /\ Flowing(s, S, g, B \o W, 0, f) /\ g \in Nat /\ g < Len(S)
      BY <1>1, <1>2, <2>1
    <3> QED
      BY <1>1, <2>4, <3>1, <3>2, FlowingFits
  <2>6. Agrees(r, B, 0, head, Bare(m))
    BY <1>1, <2>4 DEF r
  <2>7. Len(head) \in Nat /\ Len(p) \in Nat /\ Len(code) = Len(head) + Len(p)
    <3>1. Len(head \o p) = Len(head) + Len(p)
      BY <2>4, Elements
    <3> QED
      BY <2>4, <3>1 DEF Bytes
  <2>8. IF 0 + Len(head) <= Len(B) THEN r = Ok(Bare(m), 0 + Len(head))
        ELSE \E k \in 1..(0 + Len(head) - Len(B)) : r = More(k)
    BY <2>5, <2>6 DEF Agrees
  <2>9. CASE ~(Len(head) <= Len(B))
    <3>1. PICK k \in 1..(0 + Len(head) - Len(B)) : r = More(k)
      BY <2>7, <2>8, <2>9
    <3>2. r.res = "more" /\ r.need = k
      BY <3>1, Results
    <3>3. k \in Nat /\ Len(B) + k + Len(p) <= Len(code)
      BY <1>1, <2>7
    <3>4. Wanted(s, S, g, Len(B) + r.need) /\ Len(B) + r.need \in Int
      <4>1. Len(B) + r.need = Len(B) + k /\ Len(B) + k \in Int
        BY <1>1, <3>2, <3>3
      <4>2. (Len(B) + k) + Len(PayloadOf(S[g + 1])) <= Len(Code(s, S[g + 1]))
        BY <3>3 DEF p, m, code
      <4> QED
        BY <2>1, <4>1, <4>2 DEF Wanted
    <3>5. Carries(s, S, G, B, W, Len(B) + r.need, 0, f)
      BY <3>4 DEF Carries, g
    <3> QED
      BY <3>2, <3>5 DEF Attempt, r
  <2>10. CASE Len(head) <= Len(B)
    <3> DEFINE n == Len(head)
               rest == SubSeq(B, n + 1, Len(B))
               all == Append(G, Bare(m))
    <3>1. r = Ok(Bare(m), n)
      BY <2>7, <2>8, <2>10
    <3>2. r.res = "ok" /\ r.value = Bare(m) /\ r.at = n
      BY <3>1, OkParts
    <3>3. n \in Nat /\ n <= Len(B \o W) /\ rest \in Bytes
          /\ SubSeq(B \o W, n + 1, Len(B \o W)) = rest \o W
      BY <1>1, <2>7, <2>10, TakenFirst, Cut
    <3>4. /\ IsSequence(all) /\ Len(all) = g + 1 /\ all[g + 1] = Bare(m) /\ all # <<>>
          /\ \A i \in 1..g : all[i] = G[i]
      BY <1>1, Appended DEF g
    <3> HIDE DEF n, rest, all
    <3>5. Flowing(s, S, g + 1, rest \o W, Len(p), f)
      <4>1. ASSUME NEW off, off \in [0..Len(S) -> Nat],
                   \A i \in 1..Len(S) : off[i] = off[i - 1] + Len(Code(s, S[i]))
            PROVE  off[g] - 0 + n + Len(p) = off[g + 1]
        <5>1. off[g + 1] = off[(g + 1) - 1] + Len(code) /\ (g + 1) - 1 = g /\ g \in 0..Len(S)
          <6>1. (g + 1) - 1 = g /\ g \in 0..Len(S) /\ g + 1 \in 1..Len(S)
            BY <1>1, <2>1
          <6>2. off[g + 1] = off[(g + 1) - 1] + Len(Code(s, S[g + 1]))
            BY <4>1, <6>1
          <6> QED
            BY <6>1, <6>2 DEF code, m
        <5>2. off[g] \in Nat /\ off[g + 1] = off[g] + Len(code)
          BY <4>1, <5>1
        <5> DEFINE o == off[g]
                   q == off[g + 1]
        <5>3. o \in Nat /\ q = o + Len(code) /\ Len(code) = n + Len(p)
          BY <2>7, <5>2 DEF n
        <5>4. Len(p) \in Nat /\ n \in Nat
          BY <2>7 DEF n
        <5> HIDE DEF o, q
        <5>5. o - 0 + n + Len(p) = q
          BY <5>3, <5>4
        <5> QED
          BY <5>5 DEF o, q
      <4>2. \A i \in 1..Len(S) : IsItem(s, i, S[i]) /\ EncodeItem(s, S[i]).res = "ok"
        BY <1>2 DEF ItemsSent
      <4> DEFINE bytes == B \o W
      <4>3. bytes \in Bytes /\ n <= Len(bytes) /\ n \in Nat /\ Flowing(s, S, g, bytes, 0, f)
        BY <1>1, <1>2, <3>3
      <4> HIDE DEF bytes
      <4>4. Flowing(s, S, g + 1, SubSeq(bytes, n + 1, Len(bytes)), Len(p), f)
        <5> DEFINE h == g + 1
                   pl == Len(p)
        <5>1. \A off : /\ off \in [0..Len(S) -> Nat]
                       /\ \A i \in 1..Len(S) : off[i] = off[i - 1] + Len(Code(s, S[i]))
                       => off[g] - 0 + n + pl = off[h]
          BY <4>1
        <5>2. pl \in Nat /\ IsSequence(S) /\ 0 \in Nat
          BY <1>1, <2>7
        <5> HIDE DEF h, pl
        <5>3. Flowing(s, S, h, SubSeq(bytes, n + 1, Len(bytes)), pl, f)
          BY <4>2, <4>3, <5>1, <5>2, FlowingTaken
        <5> QED
          BY <5>3 DEF h, pl
      <4> QED
        BY <3>3, <4>4 DEF bytes
    <3>6. ItemsGot(S, all, Len(p))
      <4>1. ASSUME NEW i \in 1..Len(all), i < Len(all) PROVE all[i] = S[i]
        <5>1. i \in 1..g
          BY <1>1, <3>4, <4>1
        <5>2. CASE i = g
          <6>1. G # <<>>
            BY <1>1, <5>1
          <6> QED
            BY <1>3, <3>4, <5>1, <5>2, <6>1 DEF g
        <5>3. CASE i # g
          <6>1. i < g
            BY <1>1, <5>1, <5>3
          <6> QED
            BY <1>2, <3>4, <5>1, <6>1 DEF ItemsGot, g
        <5> QED
          BY <5>2, <5>3
      <4>2. Partly(all[Len(all)], S[Len(all)], Len(p))
        <5>1. Partly(Bare(m), m, Len(p))
          BY <2>1, <2>2, Whole DEF p
        <5> QED
          BY <3>4, <5>1 DEF m
      <4>3. Len(all) <= Len(S)
        <5>1. g + 1 <= Len(S)
          BY <1>1, <2>1
        <5> QED
          BY <3>4, <5>1
      <4> QED
        BY <3>4, <4>1, <4>2, <4>3 DEF ItemsGot
    <3>7. ASSUME NEW v \in {0, GivenUp}
          PROVE  Carries(s, S, all, rest, W, v, Len(p), f)
      <4>1. Wanted(s, S, g + 1, v) /\ v \in Int
        BY DEF Wanted, GivenUp
      <4> QED
        BY <1>1, <1>2, <2>7, <3>3, <3>4, <3>5, <3>6, <4>1 DEF Carries
    <3>8. \A v \in {0, GivenUp} :
            Carries(s, S, Append(G, r.value), SubSeq(B, r.at + 1, Len(B)), W, v, Len(p), f)
      BY <3>2, <3>7 DEF rest, all
    <3>9. Attempt(s, S, G, B, W, f, r)
      BY <2>1, <3>2, <3>8 DEF Attempt, m, p, g
    <3> QED
      BY <3>9 DEF r
  <2> QED
    BY <2>9, <2>10
<1> QED
  BY <1>1, <1>4, <1>5

\* Within a payload, what comes next is what is left of it.
LEMMA FlowingPayload ==
  ASSUME NEW s \in Spoken, NEW S, ItemsSent(s, S), NEW g \in 1..Len(S),
         NEW bytes \in Bytes, NEW l \in Nat, NEW f, Flowing(s, S, g, bytes, l, f),
         NEW head \in Bytes, NEW tail \in Bytes, Code(s, S[g]) = head \o tail, l <= Len(tail),
         NEW k \in Nat, 1 <= k, k <= l, k <= Len(bytes)
  PROVE  IsLeft(bytes, tail, l, k)
<1> DEFINE c == CodesOf(s, S)
<1>1. IsSequence(S) /\ \A i \in 1..Len(S) : IsItem(s, i, S[i]) /\ EncodeItem(s, S[i]).res = "ok"
  BY DEF ItemsSent
<1>2. Len(c) = Len(S) /\ Len(S) \in Nat /\ \A i \in 1..Len(S) : c[i] = Code(s, S[i])
  BY <1>1, CodesOfShape
<1>3. \A i \in 1..Len(c) : c[i] \in Bytes
  <2> TAKE i \in 1..Len(c)
  <2>1. i \in 1..Len(S) /\ i \in Nat
    BY <1>2
  <2>2. Code(s, S[i]) \in Bytes
    BY <1>1, <2>1, Coded
  <2> QED
    BY <1>2, <2>1, <2>2
<1>4. PICK off, from : from \in Nat /\ Flows(c, off, bytes, from) /\ from + l = off[g]
  BY DEF Flowing
<1> HIDE DEF c
<1>5. Len(c) \in Nat
  BY <1>2
<1>6. g \in 1..Len(c)
  BY <1>2
<1>10. c[g] = head \o tail
  BY <1>2
<1>7. from \in Nat
  BY <1>4
<1>8. Flows(c, off, bytes, from)
  BY <1>4
<1>9. from + l = off[g]
  BY <1>4
<1> QED
  BY <1>3, <1>5, <1>6, <1>7, <1>8, <1>9, <1>10, FlowPayload

Grows(p, q, t, k) == SubSeq(p, 1, q) \o t = SubSeq(p, 1, q + k)
\* A prefix that grows by the next bytes.
LEMMA Grow ==
  ASSUME NEW p \in Bytes, NEW q \in Nat, NEW k \in Nat, q + k <= Len(p),
         NEW t \in Bytes, Len(t) = k, \A i \in 1..k : t[i] = p[q + i]
  PROVE  Grows(p, q, t, k)
<1> DEFINE a == SubSeq(p, 1, q)
           z == SubSeq(p, 1, q + k)
<1>1. Len(p) \in Nat /\ q <= Len(p) /\ q + k \in Nat
  BY DEF Bytes
<1>2. a \in Bytes /\ Len(a) = q /\ \A i \in 1..q : a[i] = p[i]
  BY <1>1, Cut
<1>3. z \in Bytes /\ Len(z) = q + k /\ \A i \in 1..(q + k) : z[i] = p[i]
  BY <1>1, Cut
<1> HIDE DEF a, z
<1>4. /\ a \o t \in Bytes /\ Len(a \o t) = Len(a) + Len(t)
      /\ \A i \in Nat : 1 <= i /\ i <= Len(a) => (a \o t)[i] = a[i]
      /\ \A i \in Nat : Len(a) < i /\ i <= Len(a) + Len(t) => (a \o t)[i] = t[i - Len(a)]
  BY <1>2, Elements
<1>5. Len(a \o t) = q + k
  BY <1>2, <1>4
<1>6. ASSUME NEW i \in 1..Len(a \o t) PROVE (a \o t)[i] = z[i]
  <2>1. i \in Nat /\ 1 <= i /\ i <= q + k /\ z[i] = p[i]
    BY <1>3, <1>5
  <2>2. CASE i <= q
    BY <1>2, <1>4, <2>1, <2>2
  <2>3. CASE ~(i <= q)
    <3>1. q < i /\ i - q \in 1..k /\ q + (i - q) = i
      BY <2>1, <2>3
    <3> QED
      BY <1>2, <1>4, <2>1, <3>1
  <2> QED
    BY <2>2, <2>3
<1>7. a \o t = z
  BY <1>3, <1>4, <1>5, <1>6, SameBytes
<1> QED
  BY <1>7 DEF a, z, Grows

\* The receiver reads more of a payload.
LEMMA CarriesChunk ==
  ASSUME NEW s \in Spoken, NEW S, NEW G, NEW B, NEW W, NEW w, NEW l, NEW f,
         Carries(s, S, G, B, W, w, l, f),
         NEW t \in Bytes, Len(t) <= l, l > 0, NEW b \in Bytes, NEW v \in Bytes,
         B \o W = t \o (b \o v)
  PROVE  Carries(s, S, [G EXCEPT ![Len(G)].payload = @ \o t], b, v, w, l - Len(t), f)
<1> DEFINE g == Len(G)
           m == S[g]
           p == m.payload
           k == Len(t)
           all == [G EXCEPT ![g].payload = @ \o t]
           bytes == B \o W
           q == Len(p) - l
<1>1. /\ IsSequence(S) /\ IsSequence(G) /\ Len(S) \in Nat /\ g \in Nat /\ g <= Len(S)
      /\ B \in Bytes /\ W \in Bytes /\ bytes \in Bytes /\ l \in Nat /\ w \in Int
      /\ f \in BOOLEAN /\ (G = <<>> <=> g = 0)
  BY CarriesTypes
<1>2. /\ ItemsSent(s, S) /\ ItemsGot(S, G, l) /\ Flowing(s, S, g, bytes, l, f)
      /\ Wanted(s, S, g, w)
  BY DEF Carries
<1>3. G # <<>> /\ g # 0 /\ g \in 1..Len(S) /\ g \in Nat /\ g \in 1..g
  <2>1. G # <<>> /\ g # 0
    BY <1>1, <1>2 DEF ItemsGot
  <2> HIDE DEF g
  <2> QED
    BY <1>1, <2>1
<1>4. IsItem(s, g, m) /\ EncodeItem(s, m).res = "ok"
  BY <1>2, <1>3 DEF ItemsSent
<1>5. Partly(G[g], m, l)
  BY <1>2, <1>3 DEF ItemsGot
<1>6. "payload" \in DOMAIN m
  BY <1>1, <1>5 DEF Partly
<1>7. /\ p \in Bytes /\ PayloadOf(m) = p /\ m = [x \in DOMAIN m |-> m[x]] /\ Len(p) \in Nat
      /\ k \in Nat
  <2>1. p \in Bytes /\ PayloadOf(m) = p /\ m = [x \in DOMAIN m |-> m[x]]
    BY <1>3, <1>4, <1>6, Loaded
  <2> QED
    BY <2>1 DEF Bytes
<1>8. l <= Len(p) /\ G[g] = [m EXCEPT !.payload = SubSeq(p, 1, q)]
  BY <1>5, <1>6 DEF Partly
<1>9. q \in Nat /\ q + k <= Len(p) /\ q + k = Len(p) - (l - k) /\ l - k \in Nat /\ l - k <= Len(p)
  <2>1. k <= l /\ l \in Nat /\ k \in Nat /\ Len(p) \in Nat /\ l <= Len(p)
    BY <1>1, <1>7, <1>8
  <2> DEFINE n == Len(p)
  <2> HIDE DEF n, k
  <2>2. k <= l /\ l \in Nat /\ k \in Nat /\ n \in Nat /\ l <= n
    BY <2>1 DEF n
  <2>3. (n - l) \in Nat /\ (n - l) + k <= n /\ (n - l) + k = n - (l - k) /\ l - k \in Nat
        /\ l - k <= n
    BY <2>2
  <2> QED
    BY <2>3 DEF n
<1>10. PICK head \in Bytes : PayloadOf(m) \in Bytes /\ Code(s, m) = head \o PayloadOf(m)
  BY <1>3, <1>4, Coded
<1>11. b \o v \in Bytes /\ bytes = t \o (b \o v)
  BY Elements
<1>12. /\ Len(bytes) = k + Len(b \o v) /\ Len(b \o v) \in Nat /\ Len(bytes) \in Nat
       /\ \A i \in Nat : 1 <= i /\ i <= k => bytes[i] = t[i]
  BY <1>11, Elements DEF Bytes
<1>13. ASSUME NEW i \in 1..k PROVE t[i] = p[q + i]
  <2>1. i \in Nat /\ 1 <= i /\ i <= k /\ i <= l /\ i <= Len(bytes) /\ bytes[i] = t[i]
    BY <1>1, <1>7, <1>12
  <2>2. Code(s, S[g]) = head \o p /\ p \in Bytes
    BY <1>7, <1>10
  <2>3. bytes[i] = p[Len(p) - l + i]
    <3> HIDE DEF bytes, p, g, m
    <3>1. ItemsSent(s, S)
      BY <1>2
    <3>2. Flowing(s, S, g, bytes, l, f)
      BY <1>2
    <3>3. g \in 1..Len(S) /\ bytes \in Bytes /\ l \in Nat
      BY <1>1, <1>3
    <3>4. l <= Len(p)
      BY <1>8
    <3>5. i \in Nat /\ 1 <= i /\ i <= l /\ i <= Len(bytes)
      BY <2>1
    <3>6. IsLeft(bytes, p, l, i)
      BY <2>2, <3>1, <3>2, <3>3, <3>4, <3>5, FlowingPayload
    <3> QED
      BY <3>6 DEF IsLeft
  <2> QED
    BY <2>1, <2>3
<1>14. SubSeq(p, 1, q) \o t = SubSeq(p, 1, Len(p) - (l - k))
  <2> HIDE DEF p, q, k
  <2>1. Len(t) = k
    BY DEF k
  <2>2. SubSeq(p, 1, q) \o t = SubSeq(p, 1, q + k)
    <3>1. q \in Nat /\ k \in Nat /\ p \in Bytes
      BY <1>7, <1>9
    <3>2. q + k <= Len(p)
      BY <1>9
    <3>3. Grows(p, q, t, k)
      BY <1>13, <2>1, <3>1, <3>2, Grow
    <3> QED
      BY <3>3 DEF Grows
  <2> QED
    BY <1>9, <2>2
<1>15. /\ IsSequence(all) /\ Len(all) = g
       /\ \A i \in 1..g : i # g => all[i] = G[i]
       /\ all[g] = [G[g] EXCEPT !.payload = @ \o t]
  <2>1. G = [i \in 1..g |-> G[i]]
    BY <1>1 DEF IsSequence
  <2> HIDE DEF g
  <2>2. all = [i \in 1..g |-> IF i = g THEN [G[g] EXCEPT !.payload = @ \o t] ELSE G[i]]
    BY <1>3, <2>1
  <2> DEFINE last == [G[g] EXCEPT !.payload = @ \o t]
             T == {G[i] : i \in 1..g} \cup {last}
  <2>3. all = [i \in 1..g |-> IF i = g THEN last ELSE G[i]]
        /\ last \in T /\ \A i \in 1..g : G[i] \in T
    BY <2>2
  <2> HIDE DEF last, T, all
  <2>4. all \in Seq(T) /\ Len(all) = g
    BY <1>1, <2>3
  <2>5. IsSequence(all)
    BY <2>4, SequenceIn
  <2>6. (\A i \in 1..g : i # g => all[i] = G[i]) /\ all[g] = last
    BY <1>3, <2>3
  <2> QED
    BY <2>4, <2>5, <2>6 DEF last
<1>16. all[g] = [m EXCEPT !.payload = SubSeq(p, 1, Len(p) - (l - k))]
  <2> DEFINE a == SubSeq(p, 1, q)
             z == SubSeq(p, 1, Len(p) - (l - k))
  <2>1. a \o t = z
    BY <1>14
  <2>2. G[g] = [m EXCEPT !.payload = a]
    BY <1>8
  <2> HIDE DEF a, z, m, all, g
  <2>3. G[g].payload = a
    BY <1>6, <2>2
  <2>4. [G[g] EXCEPT !.payload = G[g].payload \o t] = [m EXCEPT !.payload = a \o t]
    BY <1>6, <2>2, <2>3
  <2>5. all[g] = [m EXCEPT !.payload = z]
    BY <1>15, <2>1, <2>4
  <2> QED
    BY <2>5 DEF z
<1>17. Partly(all[g], m, l - k)
  BY <1>6, <1>9, <1>16 DEF Partly
<1>18. ItemsGot(S, all, l - k)
  <2>1. all # <<>> /\ Len(all) <= Len(S)
    BY <1>1, <1>3, <1>15, SequenceOf
  <2>2. \A i \in 1..Len(all) : i < Len(all) => all[i] = S[i]
    <3> TAKE i \in 1..Len(all)
    <3> HAVE i < Len(all)
    <3>1. i \in 1..g /\ i # g /\ i < g
      BY <1>1, <1>15
    <3> QED
      BY <1>2, <1>15, <3>1 DEF ItemsGot
  <2>3. Partly(all[Len(all)], S[Len(all)], l - k)
    BY <1>15, <1>17
  <2> HIDE DEF all
  <2> QED
    BY <1>15, <2>1, <2>2, <2>3 DEF ItemsGot
<1>19. Flowing(s, S, g, b \o v, l - k, f)
  <2>1. \A i \in 1..Len(S) : IsItem(s, i, S[i]) /\ EncodeItem(s, S[i]).res = "ok"
    BY <1>2 DEF ItemsSent
  <2>2. SubSeq(bytes, k + 1, Len(bytes)) = b \o v
    BY <1>11, Behind
  <2>3. ASSUME NEW off, off \in [0..Len(S) -> Nat] PROVE off[g] - l + k + (l - k) = off[g]
    <3>1. off[g] \in Nat
      BY <1>1, <1>3, <2>3
    <3> DEFINE o == off[g]
    <3>2. o \in Nat /\ l \in Nat /\ k \in Nat
      BY <1>1, <1>7, <3>1
    <3> HIDE DEF o, k
    <3>3. o - l + k + (l - k) = o
      BY <3>2
    <3> QED
      BY <3>3 DEF o
  <2>4. k <= Len(bytes)
    BY <1>7, <1>12
  <2> DEFINE rest == l - k
  <2>5. rest \in Nat /\ \A off : off \in [0..Len(S) -> Nat] => off[g] - l + k + rest = off[g]
    BY <1>9, <2>3
  <2> HIDE DEF bytes, k, g, rest
  <2>6. Flowing(s, S, g, SubSeq(bytes, k + 1, Len(bytes)), rest, f)
    <3>1. Flowing(s, S, g, bytes, l, f)
      BY <1>2
    <3>2. IsSequence(S) /\ bytes \in Bytes /\ l \in Nat /\ k \in Nat /\ rest \in Nat
      BY <1>1, <1>7, <2>5
    <3>3. \A off : /\ off \in [0..Len(S) -> Nat]
                   /\ \A i \in 1..Len(S) : off[i] = off[i - 1] + Len(Code(s, S[i]))
                   => off[g] - l + k + rest = off[g]
      BY <2>5
    <3> QED
      BY <2>1, <2>4, <3>1, <3>2, <3>3, FlowingTaken
  <2> QED
    BY <2>2, <2>6 DEF rest
<1>20. Carries(s, S, all, b, v, w, l - k, f)
  <2> HIDE DEF all, k
  <2> QED
    BY <1>1, <1>2, <1>9, <1>15, <1>18, <1>19 DEF Carries
<1> QED
  BY <1>20

-----------------------------------------------------------------------------
(* The path and the setup messages.                                        *)

\* A set of numbers that reach no further than n has a largest one.
LEMMA HasLargest ==
  ASSUME NEW n \in Nat, NEW S, S \subseteq 1..n, S # {}
  PROVE  \E i \in S : \A j \in S : j <= i
<1> DEFINE G == {k \in 0..n : \A T \in SUBSET (1..k) : T # {} => \E i \in T : \A j \in T : j <= i}
<1>1. 0 \in G
  <2>1. 1..0 = {} /\ 0 \in 0..n
    OBVIOUS
  <2>2. \A T \in SUBSET (1..0) : T # {} => \E i \in T : \A j \in T : j <= i
    BY <2>1, Zenon
  <2> QED
    BY <2>1, <2>2
<1>2. ASSUME NEW k \in 0..n, k \in G, k # n PROVE k + 1 \in G
  <2>1. k + 1 \in 0..n /\ k \in Nat
    BY <1>2
  <2>2. ASSUME NEW T \in SUBSET (1..(k + 1)), T # {} PROVE \E i \in T : \A j \in T : j <= i
    <3>1. CASE k + 1 \in T
      <4>1. \A j \in T : j <= k + 1
        BY <2>1
      <4> QED
        BY <3>1, <4>1
    <3>2. CASE k + 1 \notin T
      <4>1. T \in SUBSET (1..k)
        BY <2>1, <3>2
      <4> QED
        BY <1>2, <2>2, <4>1
    <3> QED
      BY <3>1, <3>2
  <2> QED
    BY <2>1, <2>2
<1>3. \A k \in 0..n : k \in G
  <2> HIDE DEF G
  <2> QED
    BY <1>1, <1>2, UpTo
<1>4. n \in G
  BY <1>3
<1> QED
  BY <1>4

\* What a path is without the slashes at its end.
LEMMA TrimmedShape ==
  ASSUME NEW raw \in Bytes
  PROVE  \E n \in 0..Len(raw) :
            /\ Trimmed(raw) = SubSeq(raw, 1, n) /\ Trimmed(raw) \in Bytes /\ Len(Trimmed(raw)) = n
            /\ \A i \in 1..n : Trimmed(raw)[i] = raw[i]
            /\ n # 0 => raw[n] # Slash
            /\ \A i \in 1..Len(raw) : raw[i] # Slash => i <= n
<1> DEFINE kept == {i \in DOMAIN raw : raw[i] # Slash}
           n == IF kept = {} THEN 0 ELSE CHOOSE i \in kept : \A j \in kept : j <= i
<1>1. Len(raw) \in Nat /\ DOMAIN raw = 1..Len(raw)
  BY DEF Bytes
<1>2. Trimmed(raw) = SubSeq(raw, 1, n)
  BY DEF Trimmed
<1>3. kept \subseteq 1..Len(raw) /\ \A i \in 1..Len(raw) : i \in kept <=> raw[i] # Slash
  BY <1>1
<1> HIDE DEF kept
<1>4. kept # {} => n \in kept /\ \A j \in kept : j <= n
  <2> HAVE kept # {}
  <2>1. \E i \in kept : \A j \in kept : j <= i
    BY <1>1, <1>3, HasLargest
  <2>2. n = CHOOSE i \in kept : \A j \in kept : j <= i
    OBVIOUS
  <2> HIDE DEF n
  <2> QED
    BY <2>1, <2>2, Zenon
<1>5. n \in 0..Len(raw) /\ (n # 0 => raw[n] # Slash) /\ (\A i \in kept : i <= n)
  <2>1. CASE kept = {}
    BY <1>1, <2>1
  <2>2. CASE kept # {}
    <3> HIDE DEF n
    <3>1. n \in kept
      BY <1>4, <2>2
    <3>2. n \in 1..Len(raw) /\ raw[n] # Slash
      BY <1>3, <3>1
    <3> QED
      BY <1>1, <1>4, <2>2, <3>2
  <2> QED
    BY <2>1, <2>2
<1> HIDE DEF n
<1>6. SubSeq(raw, 1, n) \in Bytes /\ Len(SubSeq(raw, 1, n)) = n
      /\ \A i \in 1..n : SubSeq(raw, 1, n)[i] = raw[i]
  BY <1>1, <1>5, Cut
<1>7. \A i \in 1..Len(raw) : raw[i] # Slash => i <= n
  BY <1>3, <1>5
<1> QED
  BY <1>2, <1>5, <1>6, <1>7

\* Normalizing twice is normalizing once: a path that the client sends is the path that
\* the server has of it.
LEMMA Normalized ==
  ASSUME NEW raw \in Bytes
  PROVE  LET path1 == NormalizeConnectionPath(raw)
         IN  path1 # InvalidPath => path1 \in Bytes /\ NormalizeConnectionPath(path1) = path1
<1> DEFINE norm == NormalizeConnectionPath(raw)
           T == Trimmed(raw)
           Bad(t) == t # NoPath /\ \E s \in Segments(t) :
                        Percent \in Range(s) \/ s \in {<<>>, <<Dot>>, <<Dot, Dot>>}
<1> SUFFICES ASSUME norm # InvalidPath PROVE norm \in Bytes /\ NormalizeConnectionPath(norm) = norm
  OBVIOUS
<1>1. NormalizeConnectionPath(<<>>) = <<>> /\ <<>> \in Bytes
  BY DEF NormalizeConnectionPath, NoPath, Bytes
<1>2. CASE raw = <<>> \/ raw = <<Slash>>
  BY <1>1, <1>2 DEF NormalizeConnectionPath, NoPath
<1>3. CASE ~(raw = <<>> \/ raw = <<Slash>>)
  <2>1. ~(Len(raw) > MaxPath) /\ Head(raw) = Slash /\ ~Bad(T) /\ norm = T
    BY <1>3 DEF NormalizeConnectionPath
  <2>2. PICK n \in 0..Len(raw) :
            /\ T = SubSeq(raw, 1, n) /\ T \in Bytes /\ Len(T) = n
            /\ \A i \in 1..n : T[i] = raw[i]
            /\ n # 0 => raw[n] # Slash
    BY TrimmedShape
  <2>3. Len(raw) \in Nat /\ MaxPath \in Nat
    BY SetupAssumption DEF SetupAssumption, Bytes
  <2>4. CASE n = 0
    <3>1. T = <<>>
      BY <2>2, <2>4 DEF Bytes
    <3> QED
      BY <1>1, <2>1, <3>1
  <2>5. CASE n # 0
    <3>0. raw[1] = Slash /\ n \in 1..n /\ 1 \in 1..n
      BY <1>3, <2>1, <2>2, <2>3, <2>5 DEF Bytes
    <3>1. T[1] = Slash /\ T[n] # Slash /\ n # 1
      BY <2>2, <2>5, <3>0
    <3> HIDE DEF T, norm, Bad
    <3>2. T # <<>> /\ T # <<Slash>> /\ Head(T) = Slash /\ ~(Len(T) > MaxPath)
      <4>1. Len(T) = n /\ T \in Seq(U8) /\ n # 0 /\ n # 1
        BY <2>2, <2>5, <3>1 DEF Bytes
      <4>2. T # <<>> /\ T # <<Slash>> /\ Head(T) = T[1]
        BY <4>1
      <4>3. ~(Len(T) > MaxPath)
        BY <2>1, <2>2, <2>3
      <4> QED
        BY <3>1, <4>2, <4>3
    <3>3. PICK k \in 0..Len(T) :
            /\ Trimmed(T) = SubSeq(T, 1, k) /\ Trimmed(T) \in Bytes /\ Len(Trimmed(T)) = k
            /\ \A i \in 1..k : Trimmed(T)[i] = T[i]
            /\ k # 0 => T[k] # Slash
            /\ \A i \in 1..Len(T) : T[i] # Slash => i <= k
      BY <2>2, TrimmedShape
    <3>4. Trimmed(T) = T
      <4>1. k = n
        BY <2>2, <2>3, <3>0, <3>1, <3>3
      <4>2. SubSeq(T, 1, Len(T)) = T
        BY <2>2, SubSeqFull DEF Bytes
      <4> QED
        BY <2>2, <3>3, <4>1, <4>2
    <3>5. NormalizeConnectionPath(T) = T
      <4>1. ~Bad(Trimmed(T))
        BY <2>1, <3>4
      <4> QED
        BY <3>2, <3>4, <4>1 DEF NormalizeConnectionPath, Bad
    <3> QED
      BY <2>1, <2>2, <3>5 DEF T
  <2> QED
    BY <2>4, <2>5
<1> QED
  BY <1>2, <1>3

\* A key that is not there.
LEMMA FindNone ==
  ASSUME NEW kvps, NEW key, \A i \in 1..Len(kvps) : kvps[i].key # key
  PROVE  Find(kvps, key) = 0
<1>1. {i \in 1..Len(kvps) : kvps[i].key = key} = {}
  OBVIOUS
<1> QED
  BY <1>1, Zenon DEF Find, SelectInSeq

\* A key that is there.
LEMMA FindAt ==
  ASSUME NEW kvps, NEW key, NEW n \in 1..Len(kvps), Len(kvps) \in Nat, kvps[n].key = key,
         \A i \in 1..Len(kvps) : i # n => kvps[i].key # key
  PROVE  Find(kvps, key) = n
<1> DEFINE I == {i \in 1..Len(kvps) : kvps[i].key = key}
<1>1. I = {n} /\ I # {}
  OBVIOUS
<1>2. (CHOOSE x \in {n} : \A y \in {n} : x <= y) = n
  <2>1. n \in {n} /\ \A y \in {n} : n <= y
    OBVIOUS
  <2>2. \E x \in {n} : \A y \in {n} : x <= y
    BY <2>1
  <2>3. (CHOOSE x \in {n} : \A y \in {n} : x <= y) \in {n}
    BY <2>2, Zenon
  <2> QED
    BY <2>3
<1>3. Min(I) = n
  <2> HIDE DEF I
  <2>1. Min(I) = CHOOSE x \in I : \A y \in I : x <= y
    BY Zenon DEF Min
  <2> QED
    BY <1>1, <1>2, <2>1
<1> QED
  BY <1>1, <1>3, Zenon DEF Find, SelectInSeq

Limit == Pair(MaxRequestIdKey, IntValue(100))
PathName(normalized) == Pair(PathKey, BytesValue(normalized))

\* The parameters of CLIENT_SETUP.
LEMMA Parameters ==
  ASSUME NEW normalized
  PROVE  /\ IsKeyValuePair(Limit) /\ (normalized \in Bytes => IsKeyValuePair(PathName(normalized)))
         /\ Find(<<Limit>>, PathKey) = 0
         /\ Set(<<Limit>>, PathName(normalized)) = <<Limit, PathName(normalized)>>
         /\ Find(<<Limit, PathName(normalized)>>, PathKey) = 2
         /\ PathName(normalized).value.value = normalized
<1> DEFINE name == PathName(normalized)
           one == <<Limit>>
           two == <<Limit, name>>
<1>1. /\ Limit.key = 2 /\ Limit.value.kind = "int" /\ Limit.value.value = 100
      /\ Limit = Pair(Limit.key, [kind |-> Limit.value.kind, value |-> Limit.value.value])
  BY DEF Limit, Pair, IntValue, MaxRequestIdKey
<1>2. /\ name.key = 1 /\ name.value.kind = "bytes" /\ name.value.value = normalized
      /\ name = Pair(name.key, [kind |-> name.value.kind, value |-> name.value.value])
  BY DEF PathName, Pair, BytesValue, PathKey
<1>3. PathKey = 1
  BY DEF PathKey
<1>4. Len(one) = 1 /\ one[1] = Limit /\ 1..1 = {1}
  OBVIOUS
<1>5. Len(two) = 2 /\ two[1] = Limit /\ two[2] = name /\ 1..2 = {1, 2}
  OBVIOUS
<1>6. Append(one, name) = two
  <2> DEFINE S == {Limit, name}
             a == Append(one, name)
  <2>1. one \in Seq(S) /\ name \in S /\ two \in Seq(S)
    OBVIOUS
  <2> HIDE DEF S, name
  <2>2. /\ a \in Seq(S) /\ Len(a) = 2 /\ a[1] = one[1] /\ a[2] = name
    BY <1>4, <2>1, AppendProperties
  <2> HIDE DEF a
  <2>3. \A i \in 1..Len(a) : a[i] = two[i]
    BY <1>4, <1>5, <2>2
  <2> HIDE DEF two
  <2>4. a = two
    BY <1>5, <2>1, <2>2, <2>3, SeqEqual
  <2> QED
    BY <2>4 DEF a
<1>7. IsKeyValuePair(Limit)
  <2>1. 100 \in Nat /\ 2 \in Nat
    OBVIOUS
  <2> QED
    BY <1>1, <2>1 DEF IsKeyValuePair
<1>8. normalized \in Bytes => IsKeyValuePair(name)
  BY <1>2 DEF IsKeyValuePair
<1> HIDE DEF one, two, name
<1>9. Find(one, PathKey) = 0
  <2>1. \A i \in 1..Len(one) : one[i].key # PathKey
    BY <1>1, <1>3, <1>4
  <2> QED
    BY <2>1, FindNone
<1>10. Set(one, name) = two
  BY <1>2, <1>3, <1>6, <1>9 DEF Set
<1>11. Find(two, PathKey) = 2
  <2>1. /\ \A i \in 1..Len(two) : i # 2 => two[i].key # PathKey
        /\ two[2].key = PathKey /\ 2 \in 1..Len(two) /\ Len(two) \in Nat
    BY <1>1, <1>2, <1>3, <1>5
  <2> QED
    BY <2>1, FindAt
<1> QED
  BY <1>2, <1>7, <1>8, <1>9, <1>10, <1>11 DEF one, two, name

\* The messages of the setup are what their types say.
LEMMA SetupMessages ==
  ASSUME NEW normalized \in Bytes, scenario.versions \in Seq(Nat)
  PROVE  /\ IsClient(ClientSetup(normalized))
         /\ ClientSetup(normalized).versions = scenario.versions
         /\ \A client : client.versions \in Seq(Nat) =>
                /\ ServerSetup(client).version \in Nat /\ IsServer(ServerSetup(client))
                /\ ServerSetup(client).version # 0 =>
                        ServerSetup(client).version \in Range(client.versions)
<1>1. /\ IsKeyValuePair(Limit) /\ IsKeyValuePair(PathName(normalized))
      /\ Set(<<Limit>>, PathName(normalized)) = <<Limit, PathName(normalized)>>
  BY Parameters
<1> DEFINE one == <<Limit>>
           two == <<Limit, PathName(normalized)>>
<1>2. /\ IsSequence(one) /\ \A i \in DOMAIN one : IsKeyValuePair(one[i])
  <2>1. one \in Seq({Limit}) /\ Len(one) = 1 /\ one[1] = Limit /\ DOMAIN one = {1}
    OBVIOUS
  <2> HIDE DEF one
  <2> QED
    BY <1>1, <2>1, SequenceIn
<1>3. /\ IsSequence(two) /\ \A i \in DOMAIN two : IsKeyValuePair(two[i])
  <2>1. two \in Seq({Limit, PathName(normalized)}) /\ two[1] = Limit /\ two[2] = PathName(normalized)
        /\ DOMAIN two = {1, 2}
    OBVIOUS
  <2> HIDE DEF two
  <2> QED
    BY <1>1, <2>1, SequenceIn
<1> DEFINE params == IF normalized # NoPath /\ scenario.transport = "RawQuic"
                     THEN Set(one, PathName(normalized)) ELSE one
<1>4. ClientSetup(normalized) = [type |-> "Client", versions |-> scenario.versions, params |-> params]
  BY DEF ClientSetup, Limit, PathName
<1>5. IsSequence(params) /\ \A i \in DOMAIN params : IsKeyValuePair(params[i])
  BY <1>1, <1>2, <1>3
<1>6. IsClient(ClientSetup(normalized)) /\ ClientSetup(normalized).versions = scenario.versions
  <2> HIDE DEF params
  <2> QED
    BY <1>4, <1>5 DEF IsClient
<1>7. ASSUME NEW client, client.versions \in Seq(Nat)
      PROVE  /\ ServerSetup(client).version \in Nat /\ IsServer(ServerSetup(client))
             /\ ServerSetup(client).version # 0 =>
                    ServerSetup(client).version \in Range(client.versions)
  <2> DEFINE v == LargestCommon(<<Draft14>>, client.versions)
             common == Range(<<Draft14>>) \cap Range(client.versions)
  <2>1. Draft14 \in Nat
    BY SetupAssumption DEF SetupAssumption
  <2>2. Range(<<Draft14>>) = {Draft14}
    BY DEF Range
  <2>3. common = {} \/ common = {Draft14}
    BY <2>2
  <2>4. v = IF common = {} THEN 0 ELSE CHOOSE x \in common : \A y \in common : y <= x
    BY DEF LargestCommon
  <2>5. common # {} => v = Draft14
    <3> HAVE common # {}
    <3>1. common = {Draft14}
      BY <2>3
    <3>2. v = CHOOSE x \in {Draft14} : \A y \in {Draft14} : y <= x
      BY <2>4, <3>1
    <3>3. \E x \in {Draft14} : \A y \in {Draft14} : y <= x
      BY <2>1
    <3>4. (CHOOSE x \in {Draft14} : \A y \in {Draft14} : y <= x) \in {Draft14}
      BY <3>3, Zenon
    <3> QED
      BY <3>2, <3>4
  <2>6. common # {} => Draft14 \in Range(client.versions)
    BY <2>3
  <2> HIDE DEF v, common
  <2>7. v \in Nat /\ (v # 0 => v \in Range(client.versions))
    BY <2>1, <2>4, <2>5, <2>6
  <2>8. ServerSetup(client) = [type |-> "Server", version |-> v, params |-> one]
    BY DEF ServerSetup, Limit, v
  <2>9. IsServer(ServerSetup(client))
    <3> HIDE DEF one
    <3> QED
      BY <1>2, <2>7, <2>8 DEF IsServer
  <2> QED
    BY <2>7, <2>8, <2>9
<1> QED
  BY <1>6, <1>7

\* The server has the path of the client, whatever carried it.
LEMMA SamePath ==
  ASSUME scenario.url \in Bytes, scenario.transport \in {"WebTransport", "RawQuic"},
         NEW path1, path1 = NormalizeConnectionPath(scenario.url), path1 # InvalidPath
  PROVE  path1 \in Bytes /\ AcceptedPath(ClientSetup(path1)) = path1
<1>1. path1 \in Bytes /\ NormalizeConnectionPath(path1) = path1
  BY Normalized
<1>2. NormalizeConnectionPath(NoPath) = NoPath
  BY DEF NormalizeConnectionPath, NoPath
<1> DEFINE client == ClientSetup(path1)
           one == <<Limit>>
           two == <<Limit, PathName(path1)>>
<1>3. client.params = IF path1 # NoPath /\ scenario.transport = "RawQuic" THEN Set(one, PathName(path1)) ELSE one
  BY DEF ClientSetup, Limit, PathName
<1>4. /\ Find(one, PathKey) = 0 /\ Set(one, PathName(path1)) = two /\ Find(two, PathKey) = 2
      /\ PathName(path1).value.value = path1
  BY Parameters
<1>5. two[2] = PathName(path1)
  OBVIOUS
<1> HIDE DEF client, one, two
<1>6. DecodeClientSetupPath(one) = NoPath
  BY <1>4 DEF DecodeClientSetupPath
<1>7. DecodeClientSetupPath(two) = path1
  BY <1>1, <1>4, <1>5 DEF DecodeClientSetupPath
<1>8. CASE scenario.transport = "WebTransport"
  <2>1. client.params = one
    BY <1>3, <1>8
  <2>2. AcceptedPath(client) = path1
    BY <1>6, <1>8, <2>1 DEF AcceptedPath
  <2> QED
    BY <1>1, <2>2 DEF client
<1>9. CASE scenario.transport = "RawQuic"
  <2>1. client.params = IF path1 # NoPath THEN two ELSE one
    BY <1>3, <1>4, <1>9
  <2>2. AcceptedPath(client) = DecodeClientSetupPath(client.params)
    BY <1>2, <1>9 DEF AcceptedPath
  <2>3. AcceptedPath(client) = path1
    BY <1>6, <1>7, <2>1, <2>2
  <2> QED
    BY <1>1, <2>3 DEF client
<1> QED
  BY <1>8, <1>9

-----------------------------------------------------------------------------
(* The inductive invariant.                                                *)

Domains ==
    /\ scenario \in Scenarios
    /\ DOMAIN status = Sides /\ DOMAIN path = Sides /\ DOMAIN version = Sides
    /\ DOMAIN todo = Streams /\ DOMAIN sent = Streams /\ DOMAIN wire = Streams
    /\ DOMAIN fin = Streams /\ DOMAIN buffer = Streams /\ DOMAIN want = Streams
    /\ DOMAIN left = Streams /\ DOMAIN got = Streams

\* What is yet to be sent.
ToSend ==
    /\ \A s \in Control : IsSequence(todo[s]) /\ \A i \in 1..Len(todo[s]) : IsMessage(todo[s][i])
    /\ IsSequence(todo["data"])
    /\ ~fin["data"] => \A i \in 1..Len(todo["data"]) :
            IsItem("data", Len(sent["data"]) + i, todo["data"][i])
    /\ IsSequence(todo["datagrams"])
    /\ \A i \in 1..Len(todo["datagrams"]) : IsDatagram(todo["datagrams"][i])

Flow(s) == Carries(s, sent[s], got[s], buffer[s], wire[s], want[s], left[s], fin[s])
Streaming == (\A s \in Spoken : Flow(s)) /\ ~fin["up"] /\ ~fin["down"]

\* A datagram on its way is one that was sent.
Coming(d, q) ==
    \E i \in 1..Len(q) : IsDatagram(q[i]) /\ EncodeDatagram(q[i]).res = "ok" /\ d = EncodeDatagram(q[i]).bytes
Datagrams ==
    /\ IsSequence(sent["datagrams"]) /\ IsSequence(got["datagrams"])
    /\ buffer["datagrams"] = <<>> /\ want["datagrams"] = 0
    /\ \A d \in flying : Coming(d, sent["datagrams"])
    /\ Range(got["datagrams"]) \subseteq Range(sent["datagrams"])

TheirPath == NormalizeConnectionPath(scenario.url)
TheirClient == ClientSetup(TheirPath)
Setups ==
    /\ status["client"] = "new" => sent["up"] = <<>>
    /\ status["client"] \in {"setup", "running"} => sent["up"] # <<>>
    /\ status["client"] = "running" => got["down"] # <<>>
    /\ status["server"] = "running" => got["up"] # <<>> /\ sent["down"] # <<>>
    /\ got["up"] = <<>> => sent["down"] = <<>>
    /\ sent["up"] # <<>> =>
            sent["up"][1] = TheirClient /\ path["client"] = TheirPath /\ TheirPath # InvalidPath
    /\ sent["down"] # <<>> =>
            /\ sent["up"] # <<>> /\ sent["down"][1] = ServerSetup(TheirClient)
            /\ path["server"] = TheirPath
            /\ version["server"] = sent["down"][1].version
            /\ version["server"] \in Range(scenario.versions)
    /\ got["down"] # <<>> => version["client"] = sent["down"][1].version

\* The inductive invariant.
IInv == Domains /\ ToSend /\ Streaming /\ Datagrams /\ Setups /\ EndsWithCause

\* What the assumption says of a scenario.
LEMMA OfScenario ==
  ASSUME scenario \in Scenarios
  PROVE  IsScenario(scenario)
BY ScenarioAssumption DEF ScenarioAssumption

\* The invariant holds at first.
LEMMA InitIInv ==
  ASSUME Init
  PROVE  IInv
<1>1. IsScenario(scenario)
  BY OfScenario DEF Init
<1>2. Domains
  <2>1. DOMAIN status = Sides
    BY DEF Init, Sides
  <2>2. /\ scenario \in Scenarios /\ DOMAIN path = Sides /\ DOMAIN version = Sides
        /\ DOMAIN todo = Streams /\ DOMAIN sent = Streams /\ DOMAIN wire = Streams
    BY DEF Init, Items
  <2>3. /\ DOMAIN fin = Streams /\ DOMAIN buffer = Streams /\ DOMAIN want = Streams
        /\ DOMAIN left = Streams /\ DOMAIN got = Streams
    BY DEF Init
  <2> QED
    BY <2>1, <2>2, <2>3 DEF Domains
<1>3. todo = [s \in Streams |-> scenario[s]]
  BY DEF Init, Items
<1>4. scenario["up"] = scenario.up /\ scenario["down"] = scenario.down
      /\ scenario["data"] = scenario.data /\ scenario["datagrams"] = scenario.datagrams
  OBVIOUS
<1>5. ToSend
  <2>1. \A s \in Control : IsSequence(todo[s]) /\ \A i \in 1..Len(todo[s]) : IsMessage(todo[s][i])
    <3> TAKE s \in Control
    <3>1. todo[s] \in {scenario.up, scenario.down}
      BY <1>3 DEF Control, Streams
    <3>2. IsSequence(todo[s]) /\ \A i \in DOMAIN todo[s] : IsMessage(todo[s][i])
      BY <1>1, <3>1 DEF IsScenario
    <3> QED
      BY <3>2, SequenceOf
  <2>2. todo["data"] = scenario.data /\ todo["datagrams"] = scenario.datagrams
    BY <1>3 DEF Streams
  <2>3. IsSequence(todo["data"]) /\ IsSequence(todo["datagrams"])
    BY <1>1, <2>2 DEF IsScenario
  <2>4. DOMAIN todo["data"] = 1..Len(todo["data"]) /\ DOMAIN todo["datagrams"] = 1..Len(todo["datagrams"])
    BY <2>3, SequenceOf
  <2>5. \A i \in 1..Len(todo["data"]) : IsItem("data", Len(sent["data"]) + i, todo["data"][i])
    <3> TAKE i \in 1..Len(todo["data"])
    <3>1. IF i = 1 THEN IsStreamHeader(todo["data"][i]) ELSE IsObject(todo["data"][i])
      BY <1>1, <2>2, <2>4 DEF IsScenario
    <3>2. Len(sent["data"]) + i = i
      <4>1. sent["data"] = <<>>
        BY DEF Init, Streams
      <4> QED
        BY <4>1
    <3> QED
      BY <3>1, <3>2 DEF IsItem
  <2>6. \A i \in 1..Len(todo["datagrams"]) : IsDatagram(todo["datagrams"][i])
    BY <1>1, <2>2, <2>4 DEF IsScenario
  <2> QED
    BY <2>1, <2>3, <2>5, <2>6 DEF ToSend
<1>6. Streaming
  <2>1. ASSUME NEW s \in Spoken PROVE Flow(s)
    <3>1. /\ sent[s] = <<>> /\ got[s] = <<>> /\ buffer[s] = <<>> /\ wire[s] = <<>>
          /\ want[s] = 0 /\ left[s] = 0 /\ fin[s] = FALSE
      BY DEF Init, Spoken, Streams
    <3> QED
      BY <3>1, CarriesNothing DEF Flow
  <2>2. fin["up"] = FALSE /\ fin["down"] = FALSE
    BY DEF Init, Streams
  <2> QED
    BY <2>1, <2>2 DEF Streaming
<1>7. Datagrams
  <2>1. sent["datagrams"] = <<>> /\ got["datagrams"] = <<>> /\ buffer["datagrams"] = <<>>
        /\ want["datagrams"] = 0 /\ flying = {}
    BY DEF Init, Streams
  <2>2. <<>> \in Seq({}) /\ Range(<<>>) = {}
    BY DEF Range
  <2>3. IsSequence(<<>>)
    BY <2>2, SequenceIn
  <2> QED
    BY <2>1, <2>2, <2>3 DEF Datagrams
<1>8. Setups
  <2>1. /\ status["client"] = "new" /\ status["server"] = "setup"
        /\ sent["up"] = <<>> /\ sent["down"] = <<>> /\ got["up"] = <<>> /\ got["down"] = <<>>
    BY DEF Init, Streams
  <2> QED
    BY <2>1 DEF Setups
<1>9. EndsWithCause
  BY DEF Init, EndsWithCause, Alive, Sides
<1> QED
  BY <1>2, <1>5, <1>6, <1>7, <1>8, <1>9 DEF IInv

\* A stream that nobody touches.
LEMMA FlowKept ==
  ASSUME NEW s \in Spoken, Flow(s),
         sent'[s] = sent[s], got'[s] = got[s], buffer'[s] = buffer[s], wire'[s] = wire[s],
         want'[s] = want[s], left'[s] = left[s], fin'[s] = fin[s]
  PROVE  Flow(s)'
BY DEF Flow

\* Datagrams that nobody touches.
LEMMA DatagramsKept ==
  ASSUME Datagrams, flying' = flying,
         sent'["datagrams"] = sent["datagrams"], got'["datagrams"] = got["datagrams"],
         buffer'["datagrams"] = buffer["datagrams"], want'["datagrams"] = want["datagrams"]
  PROVE  Datagrams'
BY DEF Datagrams

\* Nothing is taken to be sent.
LEMMA ToSendKept ==
  ASSUME ToSend, todo' = todo, fin'["data"] = fin["data"] \/ fin'["data"] = TRUE,
         sent'["data"] = sent["data"]
  PROVE  ToSend'
BY DEF ToSend

\* The scenario stays, and with it what the client asks for.
LEMMA TheirsKept ==
  ASSUME scenario' = scenario
  PROVE  TheirPath' = TheirPath /\ TheirClient' = TheirClient
<1>1. TheirPath' = TheirPath
  BY DEF TheirPath
<1>2. TheirClient' = TheirClient
  BY <1>1 DEF TheirClient, ClientSetup
<1> QED
  BY <1>1, <1>2

\* The first items stay, and no end comes to be alive.
LEMMA SetupsKept ==
  ASSUME Setups, scenario' = scenario, path' = path, version' = version,
         \A s \in Control : /\ sent'[s] = <<>> <=> sent[s] = <<>>
                            /\ sent[s] # <<>> => sent'[s][1] = sent[s][1]
                            /\ got'[s] = <<>> <=> got[s] = <<>>,
         \A e \in Sides : status'[e] = status[e] \/ status'[e] \notin {"new", "setup", "running"}
  PROVE  Setups'
<1>1. TheirPath' = TheirPath /\ TheirClient' = TheirClient
  BY TheirsKept
<1>2. /\ sent'["up"] = <<>> <=> sent["up"] = <<>>
      /\ sent["up"] # <<>> => sent'["up"][1] = sent["up"][1]
      /\ got'["up"] = <<>> <=> got["up"] = <<>>
      /\ sent'["down"] = <<>> <=> sent["down"] = <<>>
      /\ sent["down"] # <<>> => sent'["down"][1] = sent["down"][1]
      /\ got'["down"] = <<>> <=> got["down"] = <<>>
  BY DEF Control
<1>3. /\ status'["client"] = status["client"] \/ status'["client"] \notin {"new", "setup", "running"}
      /\ status'["server"] = status["server"] \/ status'["server"] \notin {"new", "setup", "running"}
  BY DEF Sides
<1>4. /\ status'["client"] = "new" => sent'["up"] = <<>>
      /\ status'["client"] \in {"setup", "running"} => sent'["up"] # <<>>
      /\ status'["client"] = "running" => got'["down"] # <<>>
      /\ status'["server"] = "running" => got'["up"] # <<>> /\ sent'["down"] # <<>>
      /\ got'["up"] = <<>> => sent'["down"] = <<>>
  BY <1>2, <1>3 DEF Setups
<1>5. sent'["up"] # <<>> =>
        sent'["up"][1] = TheirClient' /\ path'["client"] = TheirPath' /\ TheirPath' # InvalidPath
  BY <1>1, <1>2 DEF Setups
<1>6. sent'["down"] # <<>> =>
            /\ sent'["up"] # <<>> /\ sent'["down"][1] = ServerSetup(TheirClient')
            /\ path'["server"] = TheirPath'
            /\ version'["server"] = sent'["down"][1].version
            /\ version'["server"] \in Range(scenario'.versions)
  BY <1>1, <1>2 DEF Setups
<1>7. got["down"] # <<>> => sent["down"] # <<>> \/ sent["down"] = <<>>
  OBVIOUS
<1>8. got'["down"] # <<>> => version'["client"] = sent'["down"][1].version
  BY <1>2 DEF Setups
<1> QED
  BY <1>4, <1>5, <1>6, <1>8 DEF Setups

Causes == {"dropped", "transport", "InvalidPath", "version", "unimplemented", "duplicate",
           "datagram", "panic", "MsgBoundsExceeded"}

\* Ending an end.
LEMMA EndsKept ==
  ASSUME EndsWithCause, DOMAIN status = Sides, NEW e \in Sides, NEW why,
         why \in Causes \cup {"new", "setup", "running"}, Ends(e, why)
  PROVE  /\ EndsWithCause' /\ DOMAIN status' = Sides
         /\ status'[e] = why /\ \A x \in Sides : x # e => status'[x] = status[x]
<1>1. /\ DOMAIN status' = Sides /\ status'[e] = why
      /\ \A x \in Sides : x # e => status'[x] = status[x]
  BY DEF Ends
<1>2. ASSUME NEW x \in Sides PROVE status'[x] \in Causes \cup {"new", "setup", "running"}
  <2>1. CASE x = e
    BY <1>1, <2>1
  <2>2. CASE x # e
    <3>1. status'[x] = status[x]
      BY <1>1, <2>2
    <3>2. status[x] \in Causes \cup {"new", "setup", "running"}
      BY DEF EndsWithCause, Alive, Causes
    <3> QED
      BY <3>1, <3>2
  <2> QED
    BY <2>1, <2>2
<1>3. EndsWithCause'
  BY <1>2 DEF EndsWithCause, Alive, Causes
<1> QED
  BY <1>1, <1>3

\* No end ends.
LEMMA EndsSame ==
  ASSUME EndsWithCause, status' = status
  PROVE  EndsWithCause'
BY DEF EndsWithCause, Alive

\* An end with a cause is not alive.
LEMMA CausesAreEnds ==
  \A why \in Causes : why \notin {"new", "setup", "running"}
BY DEF Causes

-----------------------------------------------------------------------------
(* Steps that touch no stream, or one.                                     *)

\* The names of the streams.
LEMMA OnSpoken ==
    /\ Spoken \subseteq Streams /\ Control \subseteq Spoken /\ "data" \in Spoken
    /\ "data" \notin Control /\ "datagrams" \notin Spoken /\ "datagrams" \in Streams
    /\ "up" \in Spoken /\ "down" \in Spoken
    /\ \A s \in Control : s = "up" \/ s = "down"
    /\ \A s \in Streams : s \in Spoken \/ s = "datagrams"
BY DEF Spoken, Control, Streams

\* What an end does that touches no stream.
LEMMA AllKept ==
  ASSUME IInv, scenario' = scenario, UNCHANGED streams, path' = path, version' = version,
         flying' \subseteq flying, DOMAIN status' = Sides, EndsWithCause',
         \A e \in Sides : status'[e] = status[e] \/ status'[e] \notin {"new", "setup", "running"}
  PROVE  IInv'
<1>0. /\ todo' = todo /\ sent' = sent /\ wire' = wire /\ fin' = fin /\ buffer' = buffer
      /\ want' = want /\ left' = left /\ got' = got
  BY DEF streams
<1>1. Domains'
  BY <1>0 DEF IInv, Domains
<1>2. ToSend'
  BY <1>0, ToSendKept DEF IInv
<1>3. Streaming'
  <2>1. ASSUME NEW s \in Spoken PROVE Flow(s)'
    BY <1>0, FlowKept DEF IInv, Streaming
  <2> QED
    BY <1>0, <2>1 DEF IInv, Streaming
<1>4. Datagrams'
  BY <1>0 DEF IInv, Datagrams
<1>5. Setups'
  <2>1. \A s \in Control :
            /\ sent'[s] = <<>> <=> sent[s] = <<>>
            /\ sent[s] # <<>> => sent'[s][1] = sent[s][1]
            /\ got'[s] = <<>> <=> got[s] = <<>>
    BY <1>0
  <2>2. Setups /\ scenario' = scenario /\ path' = path /\ version' = version
    BY DEF IInv
  <2> QED
    BY <2>1, <2>2, SetupsKept
<1> QED
  BY <1>1, <1>2, <1>3, <1>4, <1>5 DEF IInv

\* A step of nobody.
LEMMA NothingStep ==
  ASSUME IInv, UNCHANGED vars
  PROVE  IInv'
<1>1. /\ scenario' = scenario /\ UNCHANGED streams /\ path' = path /\ version' = version
      /\ flying' \subseteq flying /\ status' = status
  BY DEF vars, ends
<1>2. EndsWithCause' /\ DOMAIN status' = Sides
  BY <1>1, EndsSame DEF IInv, Domains
<1>3. \A e \in Sides : status'[e] = status[e] \/ status'[e] \notin {"new", "setup", "running"}
  BY <1>1
<1> QED
  BY <1>1, <1>2, <1>3, AllKept

\* An end that ends for one of the causes.
LEMMA Ending ==
  ASSUME IInv, NEW e \in Sides, NEW why \in Causes, Ends(e, why)
  PROVE  /\ EndsWithCause' /\ DOMAIN status' = Sides
         /\ \A x \in Sides : status'[x] = status[x] \/ status'[x] \notin {"new", "setup", "running"}
<1>1. /\ EndsWithCause' /\ DOMAIN status' = Sides
      /\ status'[e] = why /\ \A x \in Sides : x # e => status'[x] = status[x]
  BY EndsKept DEF IInv, Domains
<1> QED
  BY <1>1, CausesAreEnds

\* The application drops an end.
LEMMA DropStep ==
  ASSUME IInv, NEW e \in Sides, Drop(e)
  PROVE  IInv'
<1>1. /\ scenario' = scenario /\ UNCHANGED streams /\ path' = path /\ version' = version
      /\ flying' \subseteq flying /\ Ends(e, "dropped")
  BY DEF Drop
<1>2. "dropped" \in Causes
  BY DEF Causes
<1>3. /\ EndsWithCause' /\ DOMAIN status' = Sides
      /\ \A x \in Sides : status'[x] = status[x] \/ status'[x] \notin {"new", "setup", "running"}
  BY <1>1, <1>2, Ending
<1> QED
  BY <1>1, <1>3, AllKept

\* The peer is gone.
LEMMA PeerGoneStep ==
  ASSUME IInv, NEW e \in Sides, PeerGone(e)
  PROVE  IInv'
<1>1. /\ scenario' = scenario /\ UNCHANGED streams /\ path' = path /\ version' = version
      /\ flying' \subseteq flying /\ Ends(e, "transport")
  BY DEF PeerGone
<1>2. "transport" \in Causes
  BY DEF Causes
<1>3. /\ EndsWithCause' /\ DOMAIN status' = Sides
      /\ \A x \in Sides : status'[x] = status[x] \/ status'[x] \notin {"new", "setup", "running"}
  BY <1>1, <1>2, Ending
<1> QED
  BY <1>1, <1>3, AllKept

\* A datagram is lost.
LEMMA LoseDatagramStep ==
  ASSUME IInv, NEW d, LoseDatagram(d)
  PROVE  IInv'
<1>1. /\ scenario' = scenario /\ UNCHANGED streams /\ path' = path /\ version' = version
      /\ flying' \subseteq flying /\ status' = status
  BY DEF LoseDatagram, ends
<1>2. EndsWithCause' /\ DOMAIN status' = Sides
  BY <1>1, EndsSame DEF IInv, Domains
<1>3. \A e \in Sides : status'[e] = status[e] \/ status'[e] \notin {"new", "setup", "running"}
  BY <1>1
<1> QED
  BY <1>1, <1>2, <1>3, AllKept

\* A stream changes, and no other: of it, nothing that the setup is about.
LEMMA OneStream ==
  ASSUME IInv, NEW s \in Spoken, UNCHANGED <<scenario, path, version, flying>>,
         Flow(s)', ToSend', Domains', EndsWithCause',
         \A x \in Sides : status'[x] = status[x] \/ status'[x] \notin {"new", "setup", "running"},
         \A t \in Streams : t # s =>
            /\ sent'[t] = sent[t] /\ got'[t] = got[t] /\ buffer'[t] = buffer[t]
            /\ wire'[t] = wire[t] /\ want'[t] = want[t] /\ left'[t] = left[t] /\ fin'[t] = fin[t],
         s # "data" => fin'[s] = fin[s],
         s \in Control => /\ sent'[s] = <<>> <=> sent[s] = <<>>
                          /\ sent[s] # <<>> => sent'[s][1] = sent[s][1]
                          /\ got'[s] = <<>> <=> got[s] = <<>>
  PROVE  IInv'
<1>1. Streaming'
  <2>1. ASSUME NEW t \in Spoken PROVE Flow(t)'
    <3>1. CASE t = s
      BY <3>1
    <3>2. CASE t # s
      <4>1. /\ sent'[t] = sent[t] /\ got'[t] = got[t] /\ buffer'[t] = buffer[t]
            /\ wire'[t] = wire[t] /\ want'[t] = want[t] /\ left'[t] = left[t] /\ fin'[t] = fin[t]
        BY <3>2, OnSpoken
      <4>2. Flow(t)
        BY DEF IInv, Streaming
      <4> QED
        BY <4>1, <4>2, FlowKept
    <3> QED
      BY <3>1, <3>2
  <2>2. fin'["up"] = fin["up"] /\ fin'["down"] = fin["down"]
    BY DEF Streams
  <2> QED
    BY <2>1, <2>2 DEF IInv, Streaming
<1>2. Datagrams'
  BY OnSpoken, DatagramsKept DEF IInv
<1>3. Setups'
  <2>1. ASSUME NEW t \in Control
        PROVE  /\ sent'[t] = <<>> <=> sent[t] = <<>>
               /\ sent[t] # <<>> => sent'[t][1] = sent[t][1]
               /\ got'[t] = <<>> <=> got[t] = <<>>
    <3>1. CASE t = s
      BY <3>1
    <3>2. CASE t # s
      BY <3>2, OnSpoken
    <3> QED
      BY <3>1, <3>2
  <2>2. Setups /\ scenario' = scenario /\ path' = path /\ version' = version
    BY DEF IInv
  <2> QED
    BY <2>1, <2>2, SetupsKept
<1> QED
  BY <1>1, <1>2, <1>3 DEF IInv

\* The state as it is, of one stream.
LEMMA FlowTypes ==
  ASSUME IInv, NEW s \in Spoken
  PROVE  /\ IsSequence(sent[s]) /\ IsSequence(got[s])
         /\ Len(sent[s]) \in Nat /\ Len(got[s]) \in Nat /\ Len(got[s]) <= Len(sent[s])
         /\ buffer[s] \in Bytes /\ wire[s] \in Bytes
         /\ Len(buffer[s]) \in Nat /\ Len(wire[s]) \in Nat
         /\ want[s] \in Int /\ left[s] \in Nat /\ fin[s] \in BOOLEAN
         /\ Carries(s, sent[s], got[s], buffer[s], wire[s], want[s], left[s], fin[s])
<1>1. Carries(s, sent[s], got[s], buffer[s], wire[s], want[s], left[s], fin[s])
  BY DEF IInv, Streaming, Flow
<1> QED
  BY <1>1, CarriesTypes

\* The subgroup is done.
LEMMA ServeDoneStep ==
  ASSUME IInv, ServeDone
  PROVE  IInv'
<1>1. /\ fin' = [fin EXCEPT !["data"] = TRUE]
      /\ UNCHANGED <<scenario, path, version, flying>> /\ status' = status
      /\ todo' = todo /\ sent' = sent /\ wire' = wire /\ buffer' = buffer
      /\ want' = want /\ left' = left /\ got' = got
  BY DEF ServeDone, ends
<1>2. DOMAIN fin = Streams
  BY DEF IInv, Domains
<1>3. fin'["data"] = TRUE /\ (\A t \in Streams : t # "data" => fin'[t] = fin[t]) /\ DOMAIN fin' = Streams
  BY <1>1, <1>2 DEF Streams
<1>4. Carries("data", sent["data"], got["data"], buffer["data"], wire["data"], want["data"],
              left["data"], TRUE)
  <2>1. Carries("data", sent["data"], got["data"], buffer["data"], wire["data"], want["data"],
              left["data"], fin["data"])
    BY FlowTypes, OnSpoken
  <2> QED
    BY <2>1, CarriesEnded, OnSpoken
<1>5. Flow("data")'
  BY <1>1, <1>3, <1>4 DEF Flow
<1>6. ToSend'
  BY <1>1, <1>3, ToSendKept DEF IInv
<1>7. Domains'
  BY <1>1, <1>3 DEF IInv, Domains
<1>8. EndsWithCause'
  BY <1>1, EndsSame DEF IInv
<1>9. \A x \in Sides : status'[x] = status[x] \/ status'[x] \notin {"new", "setup", "running"}
  BY <1>1
<1>10. \A t \in Streams : t # "data" =>
            /\ sent'[t] = sent[t] /\ got'[t] = got[t] /\ buffer'[t] = buffer[t]
            /\ wire'[t] = wire[t] /\ want'[t] = want[t] /\ left'[t] = left[t] /\ fin'[t] = fin[t]
  BY <1>1, <1>3
<1>11. /\ sent'["data"] = <<>> <=> sent["data"] = <<>>
       /\ sent["data"] # <<>> => sent'["data"][1] = sent["data"][1]
       /\ got'["data"] = <<>> <=> got["data"] = <<>>
  BY <1>1
<1>12. "data" \in Spoken /\ UNCHANGED <<scenario, path, version, flying>>
  BY <1>1, OnSpoken
<1>13. "data" # "data" => fin'["data"] = fin["data"]
  OBVIOUS
<1> QED
  BY <1>5, <1>6, <1>7, <1>8, <1>9, <1>10, <1>11, <1>12, <1>13, OneStream

\* The stream has ended.
LEMMA EndOfStreamStep ==
  ASSUME IInv, EndOfStream
  PROVE  IInv'
<1>1. /\ want' = [want EXCEPT !["data"] = GivenUp]
      /\ UNCHANGED <<scenario, path, version, flying>> /\ status' = status
      /\ todo' = todo /\ sent' = sent /\ wire' = wire /\ buffer' = buffer
      /\ fin' = fin /\ left' = left /\ got' = got
  BY DEF EndOfStream, ends
<1>2. DOMAIN want = Streams
  BY DEF IInv, Domains
<1>3. /\ want'["data"] = GivenUp /\ (\A t \in Streams : t # "data" => want'[t] = want[t])
      /\ DOMAIN want' = Streams
  BY <1>1, <1>2 DEF Streams
<1>4. Carries("data", sent["data"], got["data"], buffer["data"], wire["data"], GivenUp,
              left["data"], fin["data"])
  <2>1. Carries("data", sent["data"], got["data"], buffer["data"], wire["data"], want["data"],
              left["data"], fin["data"])
    BY FlowTypes, OnSpoken
  <2> QED
    BY <2>1, CarriesEnded, OnSpoken
<1>5. Flow("data")'
  BY <1>1, <1>3, <1>4 DEF Flow
<1>6. ToSend'
  BY <1>1, ToSendKept DEF IInv
<1>7. Domains'
  BY <1>1, <1>3 DEF IInv, Domains
<1>8. EndsWithCause'
  BY <1>1, EndsSame DEF IInv
<1>9. \A x \in Sides : status'[x] = status[x] \/ status'[x] \notin {"new", "setup", "running"}
  BY <1>1
<1>10. \A t \in Streams : t # "data" =>
            /\ sent'[t] = sent[t] /\ got'[t] = got[t] /\ buffer'[t] = buffer[t]
            /\ wire'[t] = wire[t] /\ want'[t] = want[t] /\ left'[t] = left[t] /\ fin'[t] = fin[t]
  BY <1>1, <1>3
<1>11. /\ sent'["data"] = <<>> <=> sent["data"] = <<>>
       /\ sent["data"] # <<>> => sent'["data"][1] = sent["data"][1]
       /\ got'["data"] = <<>> <=> got["data"] = <<>>
  BY <1>1
<1>12. "data" \in Spoken /\ UNCHANGED <<scenario, path, version, flying>>
  BY <1>1, OnSpoken
<1>13. "data" # "data" => fin'["data"] = fin["data"]
  OBVIOUS
<1> QED
  BY <1>5, <1>6, <1>7, <1>8, <1>9, <1>10, <1>11, <1>12, <1>13, OneStream

\* A read into the buffer.
LEMMA ReadBufStep ==
  ASSUME IInv, NEW s \in Spoken, NEW n \in ReadSizes, ReadBuf(s, n)
  PROVE  IInv'
<1> DEFINE k == IF n < Len(wire[s]) THEN n ELSE Len(wire[s])
<1>1. /\ buffer' = [buffer EXCEPT ![s] = @ \o SubSeq(wire[s], 1, k)]
      /\ wire' = [wire EXCEPT ![s] = SubSeq(@, k + 1, Len(@))]
      /\ UNCHANGED <<scenario, path, version, flying>> /\ status' = status
      /\ todo' = todo /\ sent' = sent /\ want' = want
      /\ fin' = fin /\ left' = left /\ got' = got
  BY DEF ReadBuf, ends
<1>2. DOMAIN wire = Streams /\ DOMAIN buffer = Streams /\ s \in Streams
  BY OnSpoken DEF IInv, Domains
<1>k. k \in Nat /\ k <= Len(wire[s])
  <2>1. n \in Nat /\ Len(wire[s]) \in Nat
    BY ReadSizesAssumption, FlowTypes DEF ReadSizesAssumption
  <2> QED
    BY <2>1
<1> HIDE DEF k
<1>3. /\ buffer'[s] = buffer[s] \o SubSeq(wire[s], 1, k)
      /\ wire'[s] = SubSeq(wire[s], k + 1, Len(wire[s]))
      /\ \A t \in Streams : t # s => wire'[t] = wire[t] /\ buffer'[t] = buffer[t]
      /\ DOMAIN wire' = Streams /\ DOMAIN buffer' = Streams
  BY <1>1, <1>2
<1>4. Carries(s, sent[s], got[s], buffer[s] \o SubSeq(wire[s], 1, k),
              SubSeq(wire[s], k + 1, Len(wire[s])), want[s], left[s], fin[s])
  <2>1. Carries(s, sent[s], got[s], buffer[s], wire[s], want[s], left[s], fin[s])
    BY FlowTypes
  <2> QED
    BY <2>1, <1>k, CarriesRead
<1>5. Flow(s)'
  BY <1>1, <1>3, <1>4 DEF Flow
<1>6. ToSend'
  BY <1>1, ToSendKept DEF IInv
<1>7. Domains'
  BY <1>1, <1>3 DEF IInv, Domains
<1>8. EndsWithCause'
  BY <1>1, EndsSame DEF IInv
<1>9. \A x \in Sides : status'[x] = status[x] \/ status'[x] \notin {"new", "setup", "running"}
  BY <1>1
<1>10. \A t \in Streams : t # s =>
            /\ sent'[t] = sent[t] /\ got'[t] = got[t] /\ buffer'[t] = buffer[t]
            /\ wire'[t] = wire[t] /\ want'[t] = want[t] /\ left'[t] = left[t] /\ fin'[t] = fin[t]
  BY <1>1, <1>3
<1>11. /\ sent'[s] = <<>> <=> sent[s] = <<>>
       /\ sent[s] # <<>> => sent'[s][1] = sent[s][1]
       /\ got'[s] = <<>> <=> got[s] = <<>>
  BY <1>1
<1>12. UNCHANGED <<scenario, path, version, flying>> /\ fin'[s] = fin[s]
  BY <1>1
<1> QED
  BY <1>5, <1>6, <1>7, <1>8, <1>9, <1>10, <1>11, <1>12, OneStream

\* The least of two numbers or of three.
LEMMA Smallest ==
  ASSUME NEW x \in Nat, NEW y \in Nat, NEW z \in Nat, NEW S, S = {x, y} \/ S = {x, y, z}
  PROVE  Min(S) \in Nat /\ Min(S) \in S /\ Min(S) <= x /\ Min(S) <= y
<1>1. \E m \in S : \A i \in S : m <= i
  <2>1. CASE S = {x, y}
    BY <2>1
  <2>2. CASE S = {x, y, z}
    BY <2>2
  <2> QED
    BY <2>1, <2>2
<1>2. Min(S) \in S /\ \A i \in S : Min(S) <= i
  <2> DEFINE IsLeast(m) == \A i \in S : m <= i
  <2>1. \E m \in S : IsLeast(m)
    BY <1>1
  <2>2. Min(S) = CHOOSE m \in S : IsLeast(m)
    BY DEF Min
  <2> HIDE DEF IsLeast
  <2>3. Min(S) \in S /\ IsLeast(Min(S))
    BY <2>1, <2>2
  <2> QED
    BY <2>3 DEF IsLeast
<1> QED
  BY <1>2

\* A chunk of a payload.
LEMMA ReadChunkStep ==
  ASSUME IInv, NEW n \in ReadSizes, ReadChunk("data", n)
  PROVE  IInv'
<1> DEFINE G == got["data"]
           B == buffer["data"]
           W == wire["data"]
           l == left["data"]
           source == IF B # <<>> THEN B ELSE W
           size == Min({l, Len(source)} \cup IF B = <<>> THEN {n} ELSE {})
           t == SubSeq(source, 1, size)
           rest == SubSeq(source, size + 1, Len(source))
<1>1. /\ l > 0 /\ UNCHANGED <<scenario, path, version, flying>> /\ status' = status
      /\ todo' = todo /\ sent' = sent /\ fin' = fin
      /\ want' = want \/ want' = [want EXCEPT !["data"] = GivenUp]
      /\ IF B # <<>> THEN buffer' = [buffer EXCEPT !["data"] = rest] /\ wire' = wire
         ELSE wire' = [wire EXCEPT !["data"] = rest] /\ buffer' = buffer
      /\ got' = [got EXCEPT !["data"][Len(G)].payload = @ \o t]
      /\ left' = [left EXCEPT !["data"] = @ - size]
  BY DEF ReadChunk, ends
<1>2. /\ DOMAIN wire = Streams /\ DOMAIN buffer = Streams /\ DOMAIN got = Streams
      /\ DOMAIN left = Streams /\ DOMAIN want = Streams /\ "data" \in Streams /\ "data" \in Spoken
  BY OnSpoken DEF IInv, Domains
<1>3. /\ IsSequence(G) /\ B \in Bytes /\ W \in Bytes /\ l \in Nat /\ Len(source) \in Nat
      /\ source \in Bytes
      /\ Carries("data", sent["data"], G, B, W, want["data"], l, fin["data"])
  BY <1>2, FlowTypes
<1>4. size \in Nat /\ size <= l /\ size <= Len(source)
  <2>1. n \in Nat
    BY ReadSizesAssumption DEF ReadSizesAssumption
  <2> DEFINE S == {l, Len(source)} \cup IF B = <<>> THEN {n} ELSE {}
  <2>2. S = {l, Len(source)} \/ S = {l, Len(source), n}
    OBVIOUS
  <2>3. size = Min(S)
    OBVIOUS
  <2> HIDE DEF S, size, source, l
  <2> QED
    BY <2>1, <2>2, <2>3, <1>3, Smallest
<1> HIDE DEF size
<1>5. t \in Bytes /\ rest \in Bytes /\ Len(t) = size /\ t \o rest = source
  BY <1>3, <1>4, Cut, Joined
<1> HIDE DEF t, rest
<1> DEFINE b == IF B # <<>> THEN rest ELSE B
           v == IF B # <<>> THEN W ELSE rest
           H == [G EXCEPT ![Len(G)].payload = @ \o t]
<1>6. b \in Bytes /\ v \in Bytes /\ B \o W = t \o (b \o v)
  <2>1. CASE B # <<>>
    <3>1. B = t \o rest /\ b = rest /\ v = W
      BY <2>1, <1>5
    <3>2. (t \o rest) \o W = t \o (rest \o W)
      BY <1>3, <1>5, Regrouped
    <3> QED
      BY <1>3, <1>5, <3>1, <3>2
  <2>2. CASE B = <<>>
    <3>1. W = t \o rest /\ b = <<>> /\ v = rest
      BY <2>2, <1>5
    <3>2. \A q \in Bytes : <<>> \o q = q
      BY DEF Bytes
    <3>3. B \o W = W /\ b \o v = rest
      BY <2>2, <3>1, <3>2, <1>3, <1>5
    <3> QED
      BY <1>3, <1>5, <3>1, <3>3
  <2> QED
    BY <2>1, <2>2
<1>7. Carries("data", sent["data"], H, b, v, want["data"], l - size, fin["data"])
  <2> HIDE DEF b, v, G, B, W, l
  <2>1. Carries("data", sent["data"], H, b, v, want["data"], l - Len(t), fin["data"])
    <3>1. "data" \in Spoken /\ l > 0 /\ Len(t) <= l /\ t \in Bytes
          /\ Carries("data", sent["data"], G, B, W, want["data"], l, fin["data"])
      BY <1>1, <1>2, <1>3, <1>4, <1>5
    <3> QED
      BY <3>1, <1>6, CarriesChunk
  <2> QED
    BY <2>1, <1>5
<1>8. /\ buffer'["data"] = b /\ wire'["data"] = v /\ left'["data"] = l - size
      /\ \A s \in Streams : s # "data" => /\ wire'[s] = wire[s] /\ buffer'[s] = buffer[s]
                                          /\ left'[s] = left[s]
      /\ DOMAIN wire' = Streams /\ DOMAIN buffer' = Streams /\ DOMAIN left' = Streams
  BY <1>1, <1>2
<1>9. /\ got'["data"] = H /\ DOMAIN got' = Streams
      /\ \A s \in Streams : s # "data" => got'[s] = got[s]
  BY <1>1, <1>2
<1>10. H = <<>> <=> G = <<>>
  <2>1. DOMAIN H = DOMAIN G
    OBVIOUS
  <2>2. IsSequence(H)
    <3> HIDE DEF b, v, G, B, W, l, H
    <3> QED
      BY <1>2, <1>7, CarriesTypes
  <2> HIDE DEF H, G
  <2>3. /\ Len(H) \in Nat /\ DOMAIN H = 1..Len(H) /\ (H = <<>> <=> Len(H) = 0)
        /\ Len(G) \in Nat /\ DOMAIN G = 1..Len(G) /\ (G = <<>> <=> Len(G) = 0)
    BY <1>3, <2>2, SequenceOf
  <2>4. Len(H) = 0 <=> Len(G) = 0
    <3>1. \A i, j \in Nat : 1..i = 1..j => (i = 0 <=> j = 0)
      OBVIOUS
    <3> QED
      BY <2>1, <2>3, <3>1
  <2> QED
    BY <2>3, <2>4
<1> HIDE DEF H, b, v
<1>19. /\ want'["data"] \in {want["data"], GivenUp} /\ DOMAIN want' = Streams
       /\ \A s \in Streams : s # "data" => want'[s] = want[s]
  BY <1>1, <1>2
<1>20. Carries("data", sent["data"], H, b, v, want'["data"], l - size, fin["data"])
  <2> DEFINE k == l - size
  <2> HIDE DEF k, l, G, B, W
  <2>1. Carries("data", sent["data"], H, b, v, want["data"], k, fin["data"])
    BY <1>7 DEF k
  <2>2. Carries("data", sent["data"], H, b, v, GivenUp, k, fin["data"])
    BY <1>2, <2>1, CarriesEnded
  <2> QED
    BY <1>19, <2>1, <2>2 DEF k
<1>11. Flow("data")'
  BY <1>1, <1>8, <1>9, <1>20 DEF Flow
<1>12. ToSend'
  BY <1>1, ToSendKept DEF IInv
<1>13. Domains'
  BY <1>1, <1>8, <1>9, <1>19 DEF IInv, Domains
<1>14. EndsWithCause'
  BY <1>1, EndsSame DEF IInv
<1>15. \A x \in Sides : status'[x] = status[x] \/ status'[x] \notin {"new", "setup", "running"}
  BY <1>1
<1>16. \A s \in Streams : s # "data" =>
            /\ sent'[s] = sent[s] /\ got'[s] = got[s] /\ buffer'[s] = buffer[s]
            /\ wire'[s] = wire[s] /\ want'[s] = want[s] /\ left'[s] = left[s] /\ fin'[s] = fin[s]
  BY <1>1, <1>8, <1>9, <1>19
<1>17. /\ sent'["data"] = <<>> <=> sent["data"] = <<>>
       /\ sent["data"] # <<>> => sent'["data"][1] = sent["data"][1]
       /\ got'["data"] = <<>> <=> got["data"] = <<>>
  BY <1>1, <1>9, <1>10
<1>18. UNCHANGED <<scenario, path, version, flying>> /\ fin'["data"] = fin["data"]
  BY <1>1
<1> QED
  BY <1>2, <1>11, <1>12, <1>13, <1>14, <1>15, <1>16, <1>17, <1>18, OneStream

-----------------------------------------------------------------------------
(* Steps of the senders.                                                   *)

\* All of some bytes.
LEMMA AllOf ==
  ASSUME NEW q \in Bytes
  PROVE  SubSeq(q, 1, Len(q)) = q /\ Len(q) \in Nat
BY DEF Bytes

\* What comes of encoding a message.
LEMMA Unencoded ==
  ASSUME NEW s \in Control, NEW m, IsMessage(m)
  PROVE  EncodeItem(s, m).res \in {"ok", "panic", "MsgBoundsExceeded"}
<1>1. m.type # "Client" /\ m.type # "Server"
  BY Unloaded
<1>2. EncodeItem(s, m) = EncodeMessage(m)
  BY <1>1, WhichEncode
<1>3. m.type \in Types
  BY AllTypes DEF IsMessage
<1>4. MessageId[m.type] \in Nat /\ MessageId[m.type] < 65536
  BY <1>3, OwnNumber
<1> QED
  BY <1>2, <1>4, FrameResult DEF EncodeMessage

\* A message of a control stream is sent.
LEMMA SendMessageStep ==
  ASSUME IInv, NEW s \in Control, SendMessage(s)
  PROVE  IInv'
<1> DEFINE m == Head(todo[s])
           code == Code(s, m)
           S == sent[s]
<1>1. /\ todo[s] # <<>> /\ status[Sender[s]] = "running"
      /\ todo' = [todo EXCEPT ![s] = Tail(@)]
      /\ IF EncodeItem(s, m).res = "ok"
         THEN Put(s, m, code) /\ UNCHANGED status
         ELSE Ends(Sender[s], EncodeItem(s, m).res) /\ UNCHANGED <<sent, wire>>
      /\ UNCHANGED <<scenario, path, version, flying>>
      /\ fin' = fin /\ buffer' = buffer /\ want' = want /\ left' = left /\ got' = got
  BY DEF SendMessage, CanSend, Code
<1>2. /\ DOMAIN todo = Streams /\ DOMAIN sent = Streams /\ DOMAIN wire = Streams /\ DOMAIN fin = Streams
      /\ DOMAIN status = Sides /\ s \in Streams /\ s \in Spoken /\ s # "data" /\ s # "datagrams"
  BY OnSpoken DEF IInv, Domains
<1>3. /\ IsSequence(S) /\ Len(S) \in Nat /\ fin[s] = FALSE /\ wire[s] \in Bytes
      /\ Carries(s, S, got[s], buffer[s], wire[s], want[s], left[s], FALSE)
  <2>1. fin[s] = FALSE
    BY OnSpoken, FlowTypes DEF IInv, Streaming
  <2> QED
    BY <1>2, <2>1, FlowTypes
<1>4. S # <<>> /\ Sender[s] \in Sides
  <2>1. CASE s = "up"
    BY <1>1, <2>1 DEF Sender, Sides, IInv, Setups
  <2>2. CASE s = "down"
    BY <1>1, <2>2 DEF Sender, Sides, IInv, Setups
  <2> QED
    BY <2>1, <2>2, OnSpoken
<1>5. /\ IsSequence(todo[s]) /\ \A i \in 1..Len(todo[s]) : IsMessage(todo[s][i])
  BY DEF IInv, ToSend
<1>6. /\ IsSequence(Tail(todo[s])) /\ Len(todo[s]) >= 1 /\ Len(Tail(todo[s])) = Len(todo[s]) - 1
      /\ \A i \in 1..Len(Tail(todo[s])) : Tail(todo[s])[i] = todo[s][i + 1]
      /\ m = todo[s][1] /\ Len(todo[s]) \in Nat
  BY <1>1, <1>5, Tailed, SequenceOf
<1>7. IsMessage(m) /\ \A i \in 1..Len(Tail(todo[s])) : IsMessage(Tail(todo[s])[i])
  BY <1>5, <1>6
<1>8. IsItem(s, Len(S) + 1, m)
  <2>1. Len(S) # 0
    BY <1>3, <1>4, SequenceOf
  <2> HIDE DEF m, S
  <2>2. Len(S) + 1 # 1
    BY <1>3, <2>1
  <2> QED
    BY <1>2, <1>7, <2>2 DEF IsItem
<1>9. /\ todo'[s] = Tail(todo[s]) /\ DOMAIN todo' = Streams
      /\ \A t \in Streams : t # s => todo'[t] = todo[t]
  BY <1>1, <1>2
<1> HIDE DEF m, code, S
<1>10. CASE EncodeItem(s, m).res = "ok"
  <2>1. /\ sent' = [sent EXCEPT ![s] = Append(@, m)] /\ wire' = [wire EXCEPT ![s] = @ \o code]
        /\ status' = status
    BY <1>1, <1>10 DEF Put
  <2>2. /\ sent'[s] = Append(S, m) /\ wire'[s] = wire[s] \o code
        /\ DOMAIN sent' = Streams /\ DOMAIN wire' = Streams
        /\ \A t \in Streams : t # s => sent'[t] = sent[t] /\ wire'[t] = wire[t]
    BY <2>1, <1>2 DEF S
  <2>3. code \in Bytes
    <3>1. Len(S) + 1 \in Nat
      BY <1>3
    <3> QED
      BY <1>2, <1>8, <1>10, <3>1, Coded DEF code
  <2>4. Carries(s, Append(S, m), got[s], buffer[s], wire[s] \o code, want[s], left[s], FALSE)
    <3>1. Len(Code(s, m)) \in Nat /\ SubSeq(Code(s, m), 1, Len(Code(s, m))) = Code(s, m)
          /\ Len(Code(s, m)) <= Len(Code(s, m))
      BY <2>3, AllOf DEF code
    <3>2. FALSE \in BOOLEAN /\ (~FALSE => Len(Code(s, m)) = Len(Code(s, m)))
      OBVIOUS
    <3>3. Carries(s, Append(S, m), got[s], buffer[s],
                  wire[s] \o SubSeq(Code(s, m), 1, Len(Code(s, m))), want[s], left[s], FALSE)
      BY <1>2, <1>3, <1>8, <1>10, <3>1, <3>2, CarriesSent
    <3> QED
      BY <3>1, <3>3 DEF code
  <2>5. Flow(s)'
    BY <1>1, <1>3, <2>2, <2>4 DEF Flow
  <2>6. ToSend'
    <3>1. ASSUME NEW t \in Control
          PROVE  IsSequence(todo'[t]) /\ \A i \in 1..Len(todo'[t]) : IsMessage(todo'[t][i])
      <4>1. CASE t = s
        BY <4>1, <1>6, <1>7, <1>9
      <4>2. CASE t # s
        <5>1. todo'[t] = todo[t]
          BY <4>2, <1>9, OnSpoken
        <5> QED
          BY <5>1 DEF IInv, ToSend
      <4> QED
        BY <4>1, <4>2
    <3>2. todo'["data"] = todo["data"] /\ todo'["datagrams"] = todo["datagrams"]
          /\ sent'["data"] = sent["data"] /\ fin' = fin
      BY <1>1, <1>2, <1>9, <2>2, OnSpoken
    <3> QED
      BY <3>1, <3>2 DEF IInv, ToSend
  <2>7. Domains'
    BY <1>1, <1>9, <2>1, <2>2 DEF IInv, Domains
  <2>8. EndsWithCause' /\ \A x \in Sides : status'[x] = status[x] \/ status'[x] \notin {"new", "setup", "running"}
    BY <2>1, EndsSame DEF IInv
  <2>9. \A t \in Streams : t # s =>
            /\ sent'[t] = sent[t] /\ got'[t] = got[t] /\ buffer'[t] = buffer[t]
            /\ wire'[t] = wire[t] /\ want'[t] = want[t] /\ left'[t] = left[t] /\ fin'[t] = fin[t]
    BY <1>1, <2>2
  <2>10. /\ sent'[s] = <<>> <=> sent[s] = <<>>
         /\ sent[s] # <<>> => sent'[s][1] = sent[s][1]
         /\ got'[s] = <<>> <=> got[s] = <<>>
    <3>1. Append(S, m) # <<>> /\ (\A i \in 1..Len(S) : Append(S, m)[i] = S[i])
      BY <1>3, Appended
    <3>2. 1 \in 1..Len(S)
      BY <1>3, <1>4, SequenceOf
    <3> QED
      BY <1>1, <1>4, <2>2, <3>1, <3>2 DEF S
  <2>11. UNCHANGED <<scenario, path, version, flying>> /\ fin'[s] = fin[s]
    BY <1>1
  <2> QED
    BY <1>2, <2>5, <2>6, <2>7, <2>8, <2>9, <2>10, <2>11, OneStream
<1>11. CASE EncodeItem(s, m).res # "ok"
  <2>1. Ends(Sender[s], EncodeItem(s, m).res) /\ sent' = sent /\ wire' = wire
    BY <1>1, <1>11
  <2>2. EncodeItem(s, m).res \in Causes
    BY <1>7, <1>11, Unencoded DEF Causes
  <2>3. /\ EndsWithCause' /\ DOMAIN status' = Sides
        /\ \A x \in Sides : status'[x] = status[x] \/ status'[x] \notin {"new", "setup", "running"}
    BY <1>4, <2>1, <2>2, Ending
  <2>4. Flow(s)'
    <3>1. Flow(s)
      BY <1>2 DEF IInv, Streaming
    <3> QED
      BY <1>1, <1>2, <2>1, <3>1, FlowKept
  <2>5. ToSend'
    <3>1. ASSUME NEW t \in Control
          PROVE  IsSequence(todo'[t]) /\ \A i \in 1..Len(todo'[t]) : IsMessage(todo'[t][i])
      <4>1. CASE t = s
        BY <4>1, <1>6, <1>7, <1>9
      <4>2. CASE t # s
        <5>1. todo'[t] = todo[t]
          BY <4>2, <1>9, OnSpoken
        <5> QED
          BY <5>1 DEF IInv, ToSend
      <4> QED
        BY <4>1, <4>2
    <3>2. todo'["data"] = todo["data"] /\ todo'["datagrams"] = todo["datagrams"]
          /\ sent'["data"] = sent["data"] /\ fin' = fin
      BY <1>1, <1>2, <1>9, <2>1, OnSpoken
    <3> QED
      BY <3>1, <3>2 DEF IInv, ToSend
  <2>6. Domains'
    BY <1>1, <1>9, <2>1, <2>3 DEF IInv, Domains
  <2>7. \A t \in Streams : t # s =>
            /\ sent'[t] = sent[t] /\ got'[t] = got[t] /\ buffer'[t] = buffer[t]
            /\ wire'[t] = wire[t] /\ want'[t] = want[t] /\ left'[t] = left[t] /\ fin'[t] = fin[t]
    BY <1>1, <2>1
  <2>8. /\ sent'[s] = <<>> <=> sent[s] = <<>>
        /\ sent[s] # <<>> => sent'[s][1] = sent[s][1]
        /\ got'[s] = <<>> <=> got[s] = <<>>
    BY <1>1, <2>1
  <2>9. UNCHANGED <<scenario, path, version, flying>> /\ fin'[s] = fin[s]
    BY <1>1
  <2> QED
    BY <1>2, <2>3, <2>4, <2>5, <2>6, <2>7, <2>8, <2>9, OneStream
<1> QED
  BY <1>10, <1>11

\* What is left to send of the data stream, once an item has been taken.
LEMMA TodoData ==
  ASSUME IInv, todo["data"] # <<>>, todo' = [todo EXCEPT !["data"] = Tail(@)]
  PROVE  /\ IsSequence(todo'["data"]) /\ DOMAIN todo' = Streams
         /\ \A t \in Streams : t # "data" => todo'[t] = todo[t]
         /\ ~fin["data"] =>
                /\ IsItem("data", Len(sent["data"]) + 1, Head(todo["data"]))
                /\ \A i \in 1..Len(todo'["data"]) :
                        IsItem("data", (Len(sent["data"]) + 1) + i, todo'["data"][i])
<1> DEFINE q == todo["data"]
           n == Len(sent["data"])
<1>1. ~fin["data"] => \A i \in 1..Len(q) : IsItem("data", n + i, q[i])
  BY DEF IInv, ToSend
<1>2. DOMAIN todo = Streams /\ "data" \in Streams /\ n \in Nat
  BY OnSpoken, FlowTypes DEF IInv, Domains
<1>3. /\ todo'["data"] = Tail(q) /\ DOMAIN todo' = Streams
      /\ \A t \in Streams : t # "data" => todo'[t] = todo[t]
  BY <1>2
<1>4. IsSequence(q)
  BY DEF IInv, ToSend
<1> HIDE DEF q, n
<1>5. /\ IsSequence(Tail(q)) /\ Len(q) >= 1 /\ Len(Tail(q)) = Len(q) - 1
      /\ \A i \in 1..Len(Tail(q)) : Tail(q)[i] = q[i + 1]
      /\ Head(q) = q[1] /\ Len(q) \in Nat
  <2>1. q # <<>>
    BY DEF q
  <2> QED
    BY <1>4, <2>1, Tailed, SequenceOf
<1>6. ASSUME ~fin["data"]
      PROVE  /\ IsItem("data", n + 1, Head(q))
             /\ \A i \in 1..Len(Tail(q)) : IsItem("data", (n + 1) + i, Tail(q)[i])
  <2>1. \A i \in 1..Len(q) : IsItem("data", n + i, q[i])
    BY <1>1, <1>6
  <2>2. 1 \in 1..Len(q)
    BY <1>5
  <2>3. ASSUME NEW i \in 1..Len(Tail(q)) PROVE IsItem("data", (n + 1) + i, Tail(q)[i])
    <3>1. i + 1 \in 1..Len(q) /\ (n + 1) + i = n + (i + 1) /\ Tail(q)[i] = q[i + 1]
      BY <1>2, <1>5
    <3>2. IsItem("data", n + (i + 1), q[i + 1])
      BY <2>1, <3>1
    <3> QED
      BY <3>1, <3>2
  <2> QED
    BY <1>5, <2>1, <2>2, <2>3
<1> QED
  BY <1>3, <1>5, <1>6 DEF q, n

\* An item of the data stream is sent, or its first bytes, or it cannot be encoded.
LEMMA ServeObjectStep ==
  ASSUME IInv, NEW kept \in Nat, ServeObject(kept),
         kept # 0 => "payload" \in DOMAIN Head(todo["data"]) /\ kept <= Len(Head(todo["data"]).payload)
  PROVE  IInv'
<1> DEFINE m == Head(todo["data"])
           code == Code("data", m)
           S == sent["data"]
           n == Len(code) - kept
<1>1. /\ todo["data"] # <<>> /\ ~fin["data"]
      /\ todo' = [todo EXCEPT !["data"] = Tail(@)]
      /\ IF EncodeItem("data", m).res = "ok"
         THEN Put("data", m, SubSeq(code, 1, n)) /\ fin' = [fin EXCEPT !["data"] = kept > 0]
         ELSE fin' = [fin EXCEPT !["data"] = TRUE] /\ UNCHANGED <<sent, wire>>
      /\ UNCHANGED <<scenario, path, version, flying>> /\ status' = status
      /\ buffer' = buffer /\ want' = want /\ left' = left /\ got' = got
  BY DEF ServeObject, CanServe, Code, ends
<1>2. /\ DOMAIN sent = Streams /\ DOMAIN wire = Streams /\ DOMAIN fin = Streams
      /\ DOMAIN status = Sides /\ "data" \in Streams /\ "data" \in Spoken /\ "data" \notin Control
  BY OnSpoken DEF IInv, Domains
<1>3. /\ IsSequence(S) /\ Len(S) \in Nat /\ fin["data"] = FALSE /\ wire["data"] \in Bytes
      /\ Carries("data", S, got["data"], buffer["data"], wire["data"], want["data"], left["data"], FALSE)
  <2>1. fin["data"] = FALSE
    BY <1>1, <1>2, FlowTypes
  <2> QED
    BY <1>2, <2>1, FlowTypes
<1>4. /\ IsSequence(todo'["data"]) /\ DOMAIN todo' = Streams
      /\ \A t \in Streams : t # "data" => todo'[t] = todo[t]
      /\ IsItem("data", Len(S) + 1, m)
      /\ \A i \in 1..Len(todo'["data"]) : IsItem("data", (Len(S) + 1) + i, todo'["data"][i])
  BY <1>1, TodoData
<1>5. EndsWithCause' /\ \A x \in Sides : status'[x] = status[x] \/ status'[x] \notin {"new", "setup", "running"}
  BY <1>1, EndsSame DEF IInv
<1>6. UNCHANGED <<scenario, path, version, flying>> /\ ("data" # "data" => fin'["data"] = fin["data"])
  BY <1>1
<1>7. kept # 0 => "payload" \in DOMAIN m /\ kept <= Len(m.payload)
  OBVIOUS
<1> HIDE DEF m, code, S, n
<1>8. CASE EncodeItem("data", m).res = "ok"
  <2>1. /\ sent' = [sent EXCEPT !["data"] = Append(@, m)]
        /\ wire' = [wire EXCEPT !["data"] = @ \o SubSeq(code, 1, n)]
        /\ fin' = [fin EXCEPT !["data"] = kept > 0]
    BY <1>1, <1>8 DEF Put
  <2> DEFINE f == kept > 0
  <2>2. /\ sent'["data"] = Append(S, m) /\ wire'["data"] = wire["data"] \o SubSeq(code, 1, n)
        /\ fin'["data"] = f
        /\ DOMAIN sent' = Streams /\ DOMAIN wire' = Streams /\ DOMAIN fin' = Streams
        /\ \A t \in Streams : t # "data" => sent'[t] = sent[t] /\ wire'[t] = wire[t] /\ fin'[t] = fin[t]
    BY <2>1, <1>2 DEF S
  <2>3. /\ Code("data", m) \in Bytes /\ Len(Code("data", m)) \in Nat
        /\ "payload" \in DOMAIN m => /\ m.payload \in Bytes
                                     /\ Len(m.payload) <= Len(Code("data", m))
    <3>0. Len(S) + 1 \in Nat /\ "data" \in Spoken
      BY <1>2, <1>3
    <3>1. /\ \E head \in Bytes : /\ PayloadOf(m) \in Bytes /\ Code("data", m) = head \o PayloadOf(m)
                                 /\ Len(head) >= 1
          /\ Code("data", m) \in Bytes
      BY <1>4, <1>8, <3>0, Coded
    <3>2. PICK head \in Bytes : /\ PayloadOf(m) \in Bytes /\ Code("data", m) = head \o PayloadOf(m)
      BY <3>1
    <3>3. Len(Code("data", m)) = Len(head) + Len(PayloadOf(m)) /\ Len(head) \in Nat
          /\ Len(PayloadOf(m)) \in Nat
      BY <3>2, Elements, AllOf
    <3>4. "payload" \in DOMAIN m => PayloadOf(m) = m.payload
      BY DEF PayloadOf
    <3> QED
      BY <3>1, <3>2, <3>3, <3>4
  <2>4. n \in Nat /\ n <= Len(Code("data", m)) /\ (~f => n = Len(Code("data", m))) /\ f \in BOOLEAN
    <3>1. kept <= Len(Code("data", m))
      <4>1. CASE kept = 0
        BY <4>1, <2>3
      <4>2. CASE kept # 0
        <5>1. kept <= Len(m.payload) /\ Len(m.payload) <= Len(Code("data", m)) /\ Len(m.payload) \in Nat
          BY <4>2, <1>7, <2>3, AllOf
        <5> QED
          BY <5>1, <2>3
      <4> QED
        BY <4>1, <4>2
    <3> QED
      BY <2>3, <3>1 DEF n, code
  <2> HIDE DEF f
  <2>5. Carries("data", Append(S, m), got["data"], buffer["data"], wire["data"] \o SubSeq(code, 1, n),
                want["data"], left["data"], f)
    <3>1. Carries("data", Append(S, m), got["data"], buffer["data"],
                  wire["data"] \o SubSeq(Code("data", m), 1, n), want["data"], left["data"], f)
      <4>1. Carries("data", S, got["data"], buffer["data"], wire["data"], want["data"], left["data"], FALSE)
        BY <1>3
      <4>2. IsItem("data", Len(S) + 1, m)
        BY <1>4
      <4>3. "data" \in Spoken
        BY <1>2
      <4>4. n <= Len(Code("data", m))
        BY <2>4
      <4>5. ~f => n = Len(Code("data", m))
        BY <2>4
      <4>6. n \in Nat
        BY <2>4
      <4>7. f \in BOOLEAN
        BY <2>4
      <4> QED
        BY <4>1, <4>2, <4>3, <4>4, <4>5, <4>6, <4>7, <1>8, CarriesSent
    <3> QED
      BY <3>1 DEF code
  <2>6. Flow("data")'
    BY <1>1, <2>2, <2>5 DEF Flow
  <2>7. ToSend'
    <3>1. ASSUME NEW t \in Control
          PROVE  IsSequence(todo'[t]) /\ \A i \in 1..Len(todo'[t]) : IsMessage(todo'[t][i])
      <4>1. todo'[t] = todo[t]
        BY <1>4, OnSpoken
      <4> QED
        BY <4>1 DEF IInv, ToSend
    <3>2. todo'["datagrams"] = todo["datagrams"]
      BY <1>4, OnSpoken
    <3>3. Len(sent'["data"]) = Len(S) + 1
      BY <1>3, <2>2, Appended
    <3> QED
      BY <3>1, <3>2, <3>3, <1>4 DEF IInv, ToSend
  <2>8. Domains'
    BY <1>1, <1>4, <2>2 DEF IInv, Domains
  <2>9. \A t \in Streams : t # "data" =>
            /\ sent'[t] = sent[t] /\ got'[t] = got[t] /\ buffer'[t] = buffer[t]
            /\ wire'[t] = wire[t] /\ want'[t] = want[t] /\ left'[t] = left[t] /\ fin'[t] = fin[t]
    BY <1>1, <2>2
  <2>10. "data" \in Control => /\ sent'["data"] = <<>> <=> sent["data"] = <<>>
                               /\ sent["data"] # <<>> => sent'["data"][1] = sent["data"][1]
                               /\ got'["data"] = <<>> <=> got["data"] = <<>>
    BY <1>2
  <2> QED
    BY <1>2, <1>5, <1>6, <2>6, <2>7, <2>8, <2>9, <2>10, OneStream
<1>9. CASE EncodeItem("data", m).res # "ok"
  <2>1. sent' = sent /\ wire' = wire /\ fin' = [fin EXCEPT !["data"] = TRUE]
    BY <1>1, <1>9
  <2>2. /\ fin'["data"] = TRUE /\ DOMAIN fin' = Streams
        /\ \A t \in Streams : t # "data" => fin'[t] = fin[t]
    BY <1>2, <2>1
  <2>3. Flow("data")'
    <3>1. Carries("data", S, got["data"], buffer["data"], wire["data"], want["data"], left["data"], TRUE)
      BY <1>2, <1>3, CarriesEnded
    <3> QED
      BY <1>1, <2>1, <2>2, <3>1 DEF Flow, S
  <2>4. ToSend'
    <3>1. ASSUME NEW t \in Control
          PROVE  IsSequence(todo'[t]) /\ \A i \in 1..Len(todo'[t]) : IsMessage(todo'[t][i])
      <4>1. todo'[t] = todo[t]
        BY <1>4, OnSpoken
      <4> QED
        BY <4>1 DEF IInv, ToSend
    <3>2. todo'["datagrams"] = todo["datagrams"]
      BY <1>4, OnSpoken
    <3> QED
      BY <3>1, <3>2, <2>2, <1>4 DEF IInv, ToSend
  <2>5. Domains'
    BY <1>1, <1>4, <2>1, <2>2 DEF IInv, Domains
  <2>6. \A t \in Streams : t # "data" =>
            /\ sent'[t] = sent[t] /\ got'[t] = got[t] /\ buffer'[t] = buffer[t]
            /\ wire'[t] = wire[t] /\ want'[t] = want[t] /\ left'[t] = left[t] /\ fin'[t] = fin[t]
    BY <1>1, <2>1, <2>2
  <2>7. "data" \in Control => /\ sent'["data"] = <<>> <=> sent["data"] = <<>>
                              /\ sent["data"] # <<>> => sent'["data"][1] = sent["data"][1]
                              /\ got'["data"] = <<>> <=> got["data"] = <<>>
    BY <1>2
  <2> QED
    BY <1>2, <1>5, <1>6, <2>3, <2>4, <2>5, <2>6, <2>7, OneStream
<1> QED
  BY <1>8, <1>9

\* The same, whole or cut.
LEMMA ServeStep ==
  ASSUME IInv, ServeWhole \/ ServeCut
  PROVE  IInv'
<1>1. CASE ServeWhole
  <2>1. ServeObject(0)
    BY <1>1 DEF ServeWhole
  <2> QED
    BY <2>1, ServeObjectStep
<1>2. CASE ServeCut
  <2>1. "payload" \in DOMAIN Head(todo["data"])
        /\ \E kept \in 1..Len(Head(todo["data"]).payload) : ServeObject(kept)
    BY <1>2 DEF ServeCut
  <2>2. PICK kept \in 1..Len(Head(todo["data"]).payload) : ServeObject(kept)
    BY <2>1
  <2>3. \A j : \A i \in 1..j : i \in Int /\ 1 <= i /\ i <= j
    OBVIOUS
  <2>4. kept \in Nat /\ kept <= Len(Head(todo["data"]).payload)
    BY <2>3
  <2> QED
    BY <2>1, <2>2, <2>4, ServeObjectStep
<1> QED
  BY <1>1, <1>2

-----------------------------------------------------------------------------
(* Datagrams.                                                              *)

\* The datagrams change, and no stream.
LEMMA DatagramsOnly ==
  ASSUME IInv, UNCHANGED <<scenario, path, version>>,
         Datagrams', ToSend', Domains', EndsWithCause',
         \A x \in Sides : status'[x] = status[x] \/ status'[x] \notin {"new", "setup", "running"},
         \A t \in Spoken :
            /\ sent'[t] = sent[t] /\ got'[t] = got[t] /\ buffer'[t] = buffer[t]
            /\ wire'[t] = wire[t] /\ want'[t] = want[t] /\ left'[t] = left[t] /\ fin'[t] = fin[t]
  PROVE  IInv'
<1>1. Streaming'
  <2>1. ASSUME NEW t \in Spoken PROVE Flow(t)'
    <3>1. Flow(t)
      BY DEF IInv, Streaming
    <3> QED
      BY <3>1, FlowKept
  <2> QED
    BY <2>1, OnSpoken DEF IInv, Streaming
<1>2. Setups'
  <2>1. \A t \in Control :
            /\ sent'[t] = <<>> <=> sent[t] = <<>>
            /\ sent[t] # <<>> => sent'[t][1] = sent[t][1]
            /\ got'[t] = <<>> <=> got[t] = <<>>
    BY OnSpoken
  <2>2. Setups /\ scenario' = scenario /\ path' = path /\ version' = version
    BY DEF IInv
  <2> QED
    BY <2>1, <2>2, SetupsKept
<1> QED
  BY <1>1, <1>2 DEF IInv

\* What is in a sequence that has one more.
LEMMA RangeMore ==
  ASSUME NEW q, IsSequence(q), NEW x
  PROVE  Range(q) \subseteq Range(Append(q, x)) /\ Range(Append(q, x)) \subseteq Range(q) \cup {x}
         /\ x \in Range(Append(q, x))
<1>1. /\ IsSequence(Append(q, x)) /\ Len(Append(q, x)) = Len(q) + 1
      /\ \A i \in 1..Len(q) : Append(q, x)[i] = q[i]
      /\ Append(q, x)[Len(q) + 1] = x
      /\ DOMAIN q = 1..Len(q) /\ Len(q) \in Nat
  BY Appended, SequenceOf
<1>2. DOMAIN Append(q, x) = 1..(Len(q) + 1)
  BY <1>1, SequenceOf
<1> DEFINE p == Append(q, x)
           n == Len(q)
<1> HIDE DEF p, n
<1>3. /\ DOMAIN p = 1..(n + 1) /\ DOMAIN q = 1..n /\ n \in Nat
      /\ (\A i \in 1..n : p[i] = q[i]) /\ p[n + 1] = x
  BY <1>1, <1>2 DEF p, n
<1>4. \A i \in 1..(n + 1) : i \in 1..n \/ i = n + 1
  BY <1>3
<1>5. n + 1 \in 1..(n + 1) /\ \A i \in 1..n : i \in 1..(n + 1)
  BY <1>3
<1>6. Range(q) \subseteq Range(p)
  BY <1>3, <1>5 DEF Range
<1>7. Range(p) \subseteq Range(q) \cup {x}
  BY <1>3, <1>4 DEF Range
<1>8. x \in Range(p)
  BY <1>3, <1>5 DEF Range
<1> QED
  BY <1>6, <1>7, <1>8 DEF p

\* A datagram that was on its way still is one that was sent.
LEMMA ComingMore ==
  ASSUME NEW q, IsSequence(q), NEW m
  PROVE  /\ \A d : Coming(d, q) => Coming(d, Append(q, m))
         /\ IsDatagram(m) /\ EncodeDatagram(m).res = "ok" => Coming(EncodeDatagram(m).bytes, Append(q, m))
<1>1. /\ Len(Append(q, m)) = Len(q) + 1 /\ Len(q) \in Nat
      /\ \A i \in 1..Len(q) : Append(q, m)[i] = q[i]
      /\ Append(q, m)[Len(q) + 1] = m
  BY Appended, SequenceOf
<1>2. ASSUME NEW d, Coming(d, q) PROVE Coming(d, Append(q, m))
  <2>1. PICK i \in 1..Len(q) : /\ IsDatagram(q[i]) /\ EncodeDatagram(q[i]).res = "ok"
                               /\ d = EncodeDatagram(q[i]).bytes
    BY <1>2 DEF Coming
  <2>2. i \in 1..Len(Append(q, m)) /\ Append(q, m)[i] = q[i]
    BY <1>1
  <2>3. /\ IsDatagram(Append(q, m)[i]) /\ EncodeDatagram(Append(q, m)[i]).res = "ok"
        /\ d = EncodeDatagram(Append(q, m)[i]).bytes
    BY <2>1, <2>2
  <2> QED
    BY <2>2, <2>3 DEF Coming
<1>3. ASSUME IsDatagram(m), EncodeDatagram(m).res = "ok"
      PROVE  Coming(EncodeDatagram(m).bytes, Append(q, m))
  <2>1. Len(q) + 1 \in 1..Len(Append(q, m))
    BY <1>1
  <2> QED
    BY <1>1, <1>3, <2>1 DEF Coming
<1> QED
  BY <1>2, <1>3

\* A datagram is sent, or cannot be encoded.
LEMMA SendDatagramStep ==
  ASSUME IInv, SendDatagram
  PROVE  IInv'
<1> DEFINE q == todo["datagrams"]
           m == Head(q)
           S == sent["datagrams"]
           d == EncodeDatagram(m).bytes
<1>1. /\ q # <<>> /\ todo' = [todo EXCEPT !["datagrams"] = Tail(@)]
      /\ IF EncodeDatagram(m).res = "ok"
         THEN /\ sent' = [sent EXCEPT !["datagrams"] = Append(@, m)]
              /\ flying' = flying \cup {d} /\ fin' = fin
         ELSE fin' = [fin EXCEPT !["datagrams"] = TRUE] /\ UNCHANGED <<sent, flying>>
      /\ UNCHANGED <<scenario, path, version>> /\ status' = status
      /\ wire' = wire /\ buffer' = buffer /\ want' = want /\ left' = left /\ got' = got
  BY DEF SendDatagram, CanServe, ends
<1>2. /\ DOMAIN sent = Streams /\ DOMAIN todo = Streams /\ DOMAIN fin = Streams
      /\ "datagrams" \in Streams /\ "data" \in Streams /\ "datagrams" # "data"
      /\ "datagrams" \notin Control
  BY OnSpoken DEF IInv, Domains, Control
<1>3. /\ IsSequence(q) /\ \A i \in 1..Len(q) : IsDatagram(q[i])
  BY DEF IInv, ToSend
<1>4. /\ todo'["datagrams"] = Tail(q) /\ DOMAIN todo' = Streams
      /\ \A t \in Streams : t # "datagrams" => todo'[t] = todo[t]
  BY <1>1, <1>2
<1>5. IsSequence(S)
  BY DEF IInv, Datagrams
<1>6. /\ IsSequence(Tail(q)) /\ IsDatagram(m) /\ \A i \in 1..Len(Tail(q)) : IsDatagram(Tail(q)[i])
  <2> HIDE DEF q
  <2>1. /\ IsSequence(Tail(q)) /\ Len(q) >= 1 /\ Len(Tail(q)) = Len(q) - 1 /\ Len(q) \in Nat
        /\ \A i \in 1..Len(Tail(q)) : Tail(q)[i] = q[i + 1]
        /\ m = q[1]
    BY <1>1, <1>3, Tailed, SequenceOf
  <2>2. 1 \in 1..Len(q) /\ \A i \in 1..Len(Tail(q)) : i + 1 \in 1..Len(q)
    BY <2>1
  <2> QED
    BY <1>3, <2>1, <2>2
<1>7. EndsWithCause' /\ \A x \in Sides : status'[x] = status[x] \/ status'[x] \notin {"new", "setup", "running"}
  BY <1>1, EndsSame DEF IInv
<1>8. UNCHANGED <<scenario, path, version>>
  BY <1>1
<1> HIDE DEF q, m, S, d
<1>9. ASSUME fin'["data"] = fin["data"], sent'["data"] = sent["data"]
      PROVE  ToSend'
  <2>1. ASSUME NEW t \in Control
        PROVE  IsSequence(todo'[t]) /\ \A i \in 1..Len(todo'[t]) : IsMessage(todo'[t][i])
    <3>1. todo'[t] = todo[t]
      BY <1>2, <1>4, OnSpoken
    <3> QED
      BY <3>1 DEF IInv, ToSend
  <2>2. todo'["data"] = todo["data"]
    BY <1>2, <1>4
  <2> QED
    BY <1>4, <1>6, <1>9, <2>1, <2>2 DEF IInv, ToSend
<1>10. CASE EncodeDatagram(m).res = "ok"
  <2>1. /\ sent' = [sent EXCEPT !["datagrams"] = Append(@, m)]
        /\ flying' = flying \cup {d} /\ fin' = fin
    BY <1>1, <1>10
  <2>2. /\ sent'["datagrams"] = Append(S, m) /\ DOMAIN sent' = Streams
        /\ \A t \in Streams : t # "datagrams" => sent'[t] = sent[t]
    BY <1>2, <2>1 DEF S
  <2>3. Datagrams'
    <3>1. IsSequence(Append(S, m)) /\ Range(S) \subseteq Range(Append(S, m))
      BY <1>5, Appended, RangeMore
    <3>2. ASSUME NEW e \in flying' PROVE Coming(e, Append(S, m))
      <4>1. CASE e \in flying
        <5>1. Coming(e, S)
          BY <4>1 DEF IInv, Datagrams, S
        <5> QED
          BY <1>5, <5>1, ComingMore
      <4>2. CASE e = d
        BY <1>5, <1>6, <1>10, <4>2, ComingMore DEF d
      <4> QED
        BY <2>1, <3>2, <4>1, <4>2
    <3>3. /\ IsSequence(got["datagrams"]) /\ buffer["datagrams"] = <<>> /\ want["datagrams"] = 0
          /\ Range(got["datagrams"]) \subseteq Range(S)
      BY DEF IInv, Datagrams, S
    <3>4. \A e \in flying' : Coming(e, sent'["datagrams"])
      BY <2>2, <3>2
    <3>5. /\ IsSequence(sent'["datagrams"]) /\ IsSequence(got'["datagrams"])
          /\ buffer'["datagrams"] = <<>> /\ want'["datagrams"] = 0
          /\ Range(got'["datagrams"]) \subseteq Range(sent'["datagrams"])
      BY <1>1, <2>2, <3>1, <3>3
    <3>6. ASSUME NEW e \in flying' PROVE Coming(e, sent["datagrams"])'
      BY <3>4 DEF Coming
    <3> QED
      BY <3>5, <3>6 DEF Datagrams
  <2>4. ToSend'
    BY <1>2, <1>9, <2>1, <2>2
  <2>5. Domains'
    BY <1>1, <1>4, <2>1, <2>2 DEF IInv, Domains
  <2>6. \A t \in Spoken :
            /\ sent'[t] = sent[t] /\ got'[t] = got[t] /\ buffer'[t] = buffer[t]
            /\ wire'[t] = wire[t] /\ want'[t] = want[t] /\ left'[t] = left[t] /\ fin'[t] = fin[t]
    BY <1>1, <2>1, <2>2, OnSpoken
  <2> QED
    BY <1>7, <1>8, <2>3, <2>4, <2>5, <2>6, DatagramsOnly
<1>11. CASE EncodeDatagram(m).res # "ok"
  <2>1. sent' = sent /\ flying' = flying /\ fin' = [fin EXCEPT !["datagrams"] = TRUE]
    BY <1>1, <1>11
  <2>2. /\ DOMAIN fin' = Streams /\ \A t \in Streams : t # "datagrams" => fin'[t] = fin[t]
    BY <1>2, <2>1
  <2>3. Datagrams'
    BY <1>1, <2>1, DatagramsKept DEF IInv
  <2>4. ToSend'
    BY <1>2, <1>9, <2>1, <2>2
  <2>5. Domains'
    BY <1>1, <1>4, <2>1, <2>2 DEF IInv, Domains
  <2>6. \A t \in Spoken :
            /\ sent'[t] = sent[t] /\ got'[t] = got[t] /\ buffer'[t] = buffer[t]
            /\ wire'[t] = wire[t] /\ want'[t] = want[t] /\ left'[t] = left[t] /\ fin'[t] = fin[t]
    BY <1>1, <2>1, <2>2, OnSpoken
  <2> QED
    BY <1>7, <1>8, <2>3, <2>4, <2>5, <2>6, DatagramsOnly
<1> QED
  BY <1>10, <1>11

\* A datagram arrives.
LEMMA RecvDatagramStep ==
  ASSUME IInv, NEW d, RecvDatagram(d)
  PROVE  IInv'
<1> DEFINE r == DecodeDatagram(d)
           S == sent["datagrams"]
           G == got["datagrams"]
<1>1. /\ d \in flying /\ flying' = flying \ {d}
      /\ IF r.res = "ok"
         THEN /\ got' = [got EXCEPT !["datagrams"] = Append(@, r.value)]
              /\ status' = status \/ Ends("client", "datagram")
         ELSE Ends("client", r.res) /\ got' = got
      /\ UNCHANGED <<scenario, path, version>> /\ todo' = todo /\ sent' = sent /\ wire' = wire
      /\ fin' = fin /\ buffer' = buffer /\ want' = want /\ left' = left
  BY DEF RecvDatagram
<1>2. r.res = "ok" /\ r.value \in Range(S)
  <2>1. Coming(d, S)
    BY <1>1 DEF IInv, Datagrams
  <2>2. PICK i \in 1..Len(S) : IsDatagram(S[i]) /\ EncodeDatagram(S[i]).res = "ok" /\ d = EncodeDatagram(S[i]).bytes
    BY <2>1 DEF Coming
  <2>3. r.res = "ok" /\ r.value = S[i]
    BY <2>2, DatagramAgrees
  <2>4. DOMAIN S = 1..Len(S)
    BY SequenceOf DEF IInv, Datagrams
  <2>5. S[i] \in Range(S)
    BY <2>4 DEF Range
  <2> QED
    BY <2>3, <2>5
<1>3. DOMAIN got = Streams /\ DOMAIN status = Sides /\ "datagrams" \in Streams /\ "client" \in Sides
  BY OnSpoken DEF IInv, Domains, Sides
<1>4. got' = [got EXCEPT !["datagrams"] = Append(@, r.value)] /\ (status' = status \/ Ends("client", "datagram"))
  BY <1>1, <1>2
<1>5. /\ got'["datagrams"] = Append(G, r.value) /\ DOMAIN got' = Streams
      /\ \A t \in Streams : t # "datagrams" => got'[t] = got[t]
  BY <1>3, <1>4
<1>6. /\ EndsWithCause' /\ DOMAIN status' = Sides
      /\ \A x \in Sides : status'[x] = status[x] \/ status'[x] \notin {"new", "setup", "running"}
  <2>1. CASE status' = status
    BY <1>3, <2>1, EndsSame DEF IInv
  <2>2. CASE Ends("client", "datagram")
    <3>1. "datagram" \in Causes
      BY DEF Causes
    <3> QED
      BY <1>3, <2>2, <3>1, Ending
  <2> QED
    BY <1>4, <2>1, <2>2
<1> HIDE DEF r
<1>7. Datagrams'
  <2>1. IsSequence(G) /\ Range(G) \subseteq Range(S) /\ IsSequence(S)
        /\ buffer["datagrams"] = <<>> /\ want["datagrams"] = 0 /\ (\A e \in flying : Coming(e, S))
    BY DEF IInv, Datagrams
  <2>2. IsSequence(Append(G, r.value)) /\ Range(Append(G, r.value)) \subseteq Range(G) \cup {r.value}
    BY <2>1, Appended, RangeMore
  <2>3. Range(Append(G, r.value)) \subseteq Range(S)
    BY <1>2, <2>1, <2>2
  <2>4. ASSUME NEW e \in flying' PROVE Coming(e, sent["datagrams"])'
    <3>1. Coming(e, S)
      BY <1>1, <2>1
    <3> QED
      BY <1>1, <3>1 DEF Coming
  <2>5. /\ IsSequence(sent'["datagrams"]) /\ IsSequence(got'["datagrams"])
        /\ buffer'["datagrams"] = <<>> /\ want'["datagrams"] = 0
        /\ Range(got'["datagrams"]) \subseteq Range(sent'["datagrams"])
    BY <1>1, <1>5, <2>1, <2>2, <2>3
  <2> QED
    BY <2>4, <2>5 DEF Datagrams
<1>8. ToSend'
  BY <1>1, ToSendKept DEF IInv
<1>9. Domains'
  BY <1>1, <1>5, <1>6 DEF IInv, Domains
<1>10. \A t \in Spoken :
            /\ sent'[t] = sent[t] /\ got'[t] = got[t] /\ buffer'[t] = buffer[t]
            /\ wire'[t] = wire[t] /\ want'[t] = want[t] /\ left'[t] = left[t] /\ fin'[t] = fin[t]
  BY <1>1, <1>5, OnSpoken
<1>11. UNCHANGED <<scenario, path, version>>
  BY <1>1
<1> QED
  BY <1>6, <1>7, <1>8, <1>9, <1>10, <1>11, DatagramsOnly

-----------------------------------------------------------------------------
(* Steps of the receivers.                                                 *)

\* An attempt asks for more or decodes the next item: nothing that was encoded is found
\* not to decode.
LEMMA DecodeParts ==
  ASSUME IInv, NEW s \in Spoken, Decode(s),
         NEW r, r = DecodeNext(s, got[s], buffer[s])
  PROVE  /\ left[s] = 0 /\ UNCHANGED <<scenario, todo, fin, flying>>
         /\ \/ /\ want' = [want EXCEPT ![s] = Len(buffer[s]) + r.need]
               /\ UNCHANGED <<ends, sent, wire, buffer, left, got>>
               /\ Carries(s, sent[s], got[s], buffer[s], wire[s], Len(buffer[s]) + r.need, 0, fin[s])
            \/ /\ Decoded(s, r.value, SubSeq(buffer[s], r.at + 1, Len(buffer[s])))
               /\ Len(got[s]) < Len(sent[s]) /\ r.value = Bare(sent[s][Len(got[s]) + 1])
               /\ \A v \in {0, GivenUp} :
                    Carries(s, sent[s], Append(got[s], r.value),
                            SubSeq(buffer[s], r.at + 1, Len(buffer[s])), wire[s], v,
                            Len(PayloadOf(sent[s][Len(got[s]) + 1])), fin[s])
<1>1. /\ left[s] = 0 /\ UNCHANGED <<scenario, todo, fin, flying>>
      /\ \E x \in {r} :
           CASE x.res = "more" -> /\ want' = [want EXCEPT ![s] = Len(buffer[s]) + x.need]
                                  /\ UNCHANGED <<ends, sent, wire, buffer, left, got>>
             [] x.res = "ok" -> Decoded(s, x.value, SubSeq(buffer[s], x.at + 1, Len(buffer[s])))
             [] OTHER -> Undecoded(s, x.res)
  BY Zenon DEF Decode, CanDecode
<1>2. /\ r.res = "more" => /\ want' = [want EXCEPT ![s] = Len(buffer[s]) + r.need]
                           /\ UNCHANGED <<ends, sent, wire, buffer, left, got>>
      /\ r.res = "ok" => Decoded(s, r.value, SubSeq(buffer[s], r.at + 1, Len(buffer[s])))
  BY <1>1, Zenon
<1>3. Attempt(s, sent[s], got[s], buffer[s], wire[s], fin[s], r)
  <2>1. Carries(s, sent[s], got[s], buffer[s], wire[s], want[s], 0, fin[s])
    BY <1>1, FlowTypes
  <2> QED
    BY <2>1, Decoding
<1> QED
  BY <1>1, <1>2, <1>3, Zenon DEF Attempt

\* More is asked for.
LEMMA AskStep ==
  ASSUME IInv, NEW s \in Spoken, UNCHANGED <<scenario, todo, fin, flying>>, left[s] = 0,
         NEW w, want' = [want EXCEPT ![s] = w],
         UNCHANGED <<ends, sent, wire, buffer, left, got>>,
         Carries(s, sent[s], got[s], buffer[s], wire[s], w, 0, fin[s])
  PROVE  IInv'
<1>1. /\ UNCHANGED <<scenario, path, version, flying>> /\ status' = status
      /\ todo' = todo /\ sent' = sent /\ wire' = wire /\ buffer' = buffer
      /\ fin' = fin /\ left' = left /\ got' = got
  BY DEF ends
<1>2. DOMAIN want = Streams /\ s \in Streams
  BY OnSpoken DEF IInv, Domains
<1>3. /\ want'[s] = w /\ (\A t \in Streams : t # s => want'[t] = want[t])
      /\ DOMAIN want' = Streams
  BY <1>1, <1>2
<1>5. Flow(s)'
  BY <1>1, <1>3 DEF Flow
<1>6. ToSend'
  BY <1>1, ToSendKept DEF IInv
<1>7. Domains'
  BY <1>1, <1>3 DEF IInv, Domains
<1>8. EndsWithCause'
  BY <1>1, EndsSame DEF IInv
<1>9. \A x \in Sides : status'[x] = status[x] \/ status'[x] \notin {"new", "setup", "running"}
  BY <1>1
<1>10. \A t \in Streams : t # s =>
            /\ sent'[t] = sent[t] /\ got'[t] = got[t] /\ buffer'[t] = buffer[t]
            /\ wire'[t] = wire[t] /\ want'[t] = want[t] /\ left'[t] = left[t] /\ fin'[t] = fin[t]
  BY <1>1, <1>3
<1>11. s \in Control => /\ sent'[s] = <<>> <=> sent[s] = <<>>
                        /\ sent[s] # <<>> => sent'[s][1] = sent[s][1]
                        /\ got'[s] = <<>> <=> got[s] = <<>>
  BY <1>1
<1>12. UNCHANGED <<scenario, path, version, flying>> /\ (s # "data" => fin'[s] = fin[s])
  BY <1>1
<1> QED
  BY <1>5, <1>6, <1>7, <1>8, <1>9, <1>10, <1>11, <1>12, OneStream

\* The item that was decoded.
LEMMA NextItem ==
  ASSUME IInv, NEW s \in Spoken, Len(got[s]) < Len(sent[s]),
         NEW m, m = sent[s][Len(got[s]) + 1]
  PROVE  /\ IsItem(s, Len(got[s]) + 1, m) /\ EncodeItem(s, m).res = "ok"
         /\ (s # "data" \/ got[s] = <<>>) => PayloadOf(m) = <<>> /\ Bare(m) = m
         /\ (s = "data" /\ got[s] # <<>>) => Bare(m).payload_length = Len(PayloadOf(m))
<1>1. /\ IsSequence(got[s]) /\ Len(got[s]) \in Nat /\ Len(sent[s]) \in Nat
      /\ Carries(s, sent[s], got[s], buffer[s], wire[s], want[s], left[s], fin[s])
  BY FlowTypes
<1> DEFINE n == Len(got[s]) + 1
           S == sent[s]
<1>2. n \in Nat /\ n \in 1..Len(S) /\ (n = 1 <=> got[s] = <<>>)
  <2>1. got[s] = <<>> <=> Len(got[s]) = 0
    BY <1>1, SequenceOf
  <2> QED
    BY <1>1, <2>1
<1>3. ItemsSent(s, S)
  BY <1>1 DEF Carries
<1> HIDE DEF n, S
<1>4. IsItem(s, n, S[n]) /\ EncodeItem(s, S[n]).res = "ok"
  BY <1>2, <1>3 DEF ItemsSent
<1>5. m = S[n]
  BY DEF n, S
<1>6. /\ ("payload" \in DOMAIN m) <=> (s = "data" /\ n # 1)
      /\ "payload" \in DOMAIN m => PayloadOf(m) = m.payload /\ Bare(m).payload_length = Len(m.payload)
      /\ "payload" \notin DOMAIN m => PayloadOf(m) = <<>> /\ Bare(m) = m
  BY <1>2, <1>4, <1>5, Loaded
<1> QED
  BY <1>2, <1>4, <1>5, <1>6 DEF n

\* An item of the data stream.
LEMMA RecvStreamStep ==
  ASSUME IInv, UNCHANGED <<scenario, todo, fin, flying>>, left["data"] = 0,
         NEW x, NEW rest, Decoded("data", x, rest),
         NEW m, m = sent["data"][Len(got["data"]) + 1],
         Len(got["data"]) < Len(sent["data"]), x = Bare(m),
         \A v \in {0, GivenUp} :
            Carries("data", sent["data"], Append(got["data"], x), rest, wire["data"], v,
                    Len(PayloadOf(m)), fin["data"])
  PROVE  IInv'
<1> DEFINE l == Len(PayloadOf(m))
<1>0. "data" \in Spoken /\ "data" \in Streams /\ "data" \notin Control
  BY OnSpoken
<1>1. /\ UNCHANGED <<scenario, path, version, flying>> /\ status' = status
      /\ todo' = todo /\ sent' = sent /\ wire' = wire /\ fin' = fin
      /\ buffer' = [buffer EXCEPT !["data"] = rest]
      /\ got' = [got EXCEPT !["data"] = Append(@, x)]
      /\ RecvStream("data", x)
  BY DEF Decoded, RecvStream, ends
<1>2. /\ (got["data"] = <<>>) => PayloadOf(m) = <<>>
      /\ (got["data"] # <<>>) => x.payload_length = l
  BY <1>0, NextItem
<1>3. \E v \in {0, GivenUp} : /\ want' = [want EXCEPT !["data"] = v]
                              /\ left'["data"] = l /\ DOMAIN left' = Streams
                              /\ \A t \in Streams : t # "data" => left'[t] = left[t]
  <2>0. DOMAIN left = Streams
    BY DEF IInv, Domains
  <2>1. want' = [want EXCEPT !["data"] = 0] \/ want' = [want EXCEPT !["data"] = GivenUp]
    BY <1>1 DEF RecvStream
  <2>2. left' = IF got["data"] = <<>> THEN left ELSE [left EXCEPT !["data"] = x.payload_length]
    BY <1>1 DEF RecvStream
  <2>3. left'["data"] = l /\ DOMAIN left' = Streams /\ \A t \in Streams : t # "data" => left'[t] = left[t]
    <3>1. CASE got["data"] # <<>>
      BY <1>0, <1>2, <2>0, <2>2, <3>1
    <3>2. CASE got["data"] = <<>>
      BY <1>0, <1>2, <2>0, <2>2, <3>2
    <3> QED
      BY <3>1, <3>2
  <2> QED
    BY <2>1, <2>3
<1>4. PICK v \in {0, GivenUp} : /\ want' = [want EXCEPT !["data"] = v]
                                /\ left'["data"] = l /\ DOMAIN left' = Streams
                                /\ \A t \in Streams : t # "data" => left'[t] = left[t]
  BY <1>3
<1>5. DOMAIN want = Streams /\ DOMAIN buffer = Streams /\ DOMAIN got = Streams
  BY DEF IInv, Domains
<1>6. /\ want'["data"] = v /\ buffer'["data"] = rest /\ got'["data"] = Append(got["data"], x)
      /\ DOMAIN want' = Streams /\ DOMAIN buffer' = Streams /\ DOMAIN got' = Streams
      /\ \A t \in Streams : t # "data" => want'[t] = want[t] /\ buffer'[t] = buffer[t] /\ got'[t] = got[t]
  BY <1>0, <1>1, <1>4, <1>5
<1>7. Carries("data", sent["data"], Append(got["data"], x), rest, wire["data"], v, l, fin["data"])
  OBVIOUS
<1> HIDE DEF l
<1>8. Flow("data")'
  BY <1>1, <1>4, <1>6, <1>7 DEF Flow
<1>9. ToSend'
  BY <1>1, ToSendKept DEF IInv
<1>10. Domains'
  BY <1>1, <1>4, <1>6 DEF IInv, Domains
<1>11. EndsWithCause'
  BY <1>1, EndsSame DEF IInv
<1>12. \A e \in Sides : status'[e] = status[e] \/ status'[e] \notin {"new", "setup", "running"}
  BY <1>1
<1>13. \A t \in Streams : t # "data" =>
            /\ sent'[t] = sent[t] /\ got'[t] = got[t] /\ buffer'[t] = buffer[t]
            /\ wire'[t] = wire[t] /\ want'[t] = want[t] /\ left'[t] = left[t] /\ fin'[t] = fin[t]
  BY <1>1, <1>4, <1>6
<1>14. "data" \in Control => /\ sent'["data"] = <<>> <=> sent["data"] = <<>>
                             /\ sent["data"] # <<>> => sent'["data"][1] = sent["data"][1]
                             /\ got'["data"] = <<>> <=> got["data"] = <<>>
  BY <1>0
<1>15. UNCHANGED <<scenario, path, version, flying>> /\ ("data" # "data" => fin'["data"] = fin["data"])
  BY <1>1
<1> QED
  BY <1>0, <1>8, <1>9, <1>10, <1>11, <1>12, <1>13, <1>14, <1>15, OneStream

\* The step in which a receiver decodes one more item.
Took(s, x, rest) ==
    /\ UNCHANGED <<scenario, todo, fin, flying>> /\ left[s] = 0
    /\ Decoded(s, x, rest)
    /\ Len(got[s]) < Len(sent[s]) /\ x = Bare(sent[s][Len(got[s]) + 1])
    /\ \A v \in {0, GivenUp} :
            Carries(s, sent[s], Append(got[s], x), rest, wire[s], v,
                    Len(PayloadOf(sent[s][Len(got[s]) + 1])), fin[s])

\* What the receiver of a control stream has, once it has decoded one more item.
LEMMA ControlGot ==
  ASSUME IInv, NEW s \in Control, NEW x, NEW rest, Took(s, x, rest)
  PROVE  /\ x = sent[s][Len(got[s]) + 1] /\ IsItem(s, Len(got[s]) + 1, x)
         /\ Carries(s, sent[s], Append(got[s], x), rest, wire[s], 0, 0, fin[s])
         /\ buffer'[s] = rest /\ got'[s] = Append(got[s], x) /\ want'[s] = 0 /\ left' = left
         /\ DOMAIN buffer' = Streams /\ DOMAIN got' = Streams /\ DOMAIN want' = Streams
         /\ \A t \in Streams : t # s => buffer'[t] = buffer[t] /\ got'[t] = got[t] /\ want'[t] = want[t]
         /\ got'[s] # <<>> /\ sent[s] # <<>> /\ (got[s] = <<>> <=> Len(got[s]) = 0)
<1> DEFINE m == sent[s][Len(got[s]) + 1]
<1>0. s \in Spoken /\ s \in Streams /\ s # "data"
  BY OnSpoken
<1>1. /\ buffer' = [buffer EXCEPT ![s] = rest]
      /\ got' = [got EXCEPT ![s] = Append(@, x)]
      /\ want' = [want EXCEPT ![s] = 0] /\ left' = left
  BY <1>0 DEF Decoded, NextWant, Took
<1>t. /\ Len(got[s]) < Len(sent[s]) /\ x = Bare(m)
      /\ \A v \in {0, GivenUp} :
            Carries(s, sent[s], Append(got[s], x), rest, wire[s], v, Len(PayloadOf(m)), fin[s])
  BY DEF Took
<1>2. IsItem(s, Len(got[s]) + 1, m) /\ PayloadOf(m) = <<>> /\ Bare(m) = m
  BY <1>0, <1>t, NextItem
<1>3. DOMAIN want = Streams /\ DOMAIN buffer = Streams /\ DOMAIN got = Streams
  BY DEF IInv, Domains
<1>4. Carries(s, sent[s], Append(got[s], x), rest, wire[s], 0, 0, fin[s])
  <2>1. Carries(s, sent[s], Append(got[s], x), rest, wire[s], 0, Len(PayloadOf(m)), fin[s])
    BY <1>t
  <2> QED
    BY <1>2, <2>1
<1>5. /\ buffer'[s] = rest /\ got'[s] = Append(got[s], x) /\ want'[s] = 0 /\ left' = left
      /\ DOMAIN buffer' = Streams /\ DOMAIN got' = Streams /\ DOMAIN want' = Streams
      /\ \A t \in Streams : t # s => buffer'[t] = buffer[t] /\ got'[t] = got[t] /\ want'[t] = want[t]
  BY <1>0, <1>1, <1>3
<1>6. Append(got[s], x) # <<>> /\ sent[s] # <<>> /\ (got[s] = <<>> <=> Len(got[s]) = 0)
  <2>1. IsSequence(got[s]) /\ IsSequence(sent[s]) /\ Len(got[s]) \in Nat /\ Len(sent[s]) \in Nat
    BY <1>0, FlowTypes
  <2>2. Append(got[s], x) # <<>> /\ (got[s] = <<>> <=> Len(got[s]) = 0) /\ (sent[s] = <<>> <=> Len(sent[s]) = 0)
    BY <2>1, Appended, SequenceOf
  <2> QED
    BY <1>t, <2>1, <2>2
<1> QED
  BY <1>t, <1>2, <1>4, <1>5, <1>6

\* A message of a control stream, after the setup; and the first item of a stream, when
\* what is done about it touches no other stream.
LEMMA ControlKept ==
  ASSUME IInv, NEW s \in Control, NEW x, NEW rest, Took(s, x, rest),
         UNCHANGED <<sent, wire>>, DOMAIN status' = Sides, DOMAIN version' = Sides,
         DOMAIN path' = Sides, EndsWithCause', Setups'
  PROVE  IInv'
<1>0. s \in Spoken /\ s \in Streams /\ s # "data" /\ s # "datagrams"
  BY OnSpoken
<1>1. /\ Carries(s, sent[s], Append(got[s], x), rest, wire[s], 0, 0, fin[s])
      /\ buffer'[s] = rest /\ got'[s] = Append(got[s], x) /\ want'[s] = 0 /\ left' = left
      /\ DOMAIN buffer' = Streams /\ DOMAIN got' = Streams /\ DOMAIN want' = Streams
      /\ \A t \in Streams : t # s => buffer'[t] = buffer[t] /\ got'[t] = got[t] /\ want'[t] = want[t]
  BY ControlGot
<1>2. Flow(s)'
  BY <1>1 DEF Flow, Took
<1>3. Streaming'
  <2>1. ASSUME NEW t \in Spoken PROVE Flow(t)'
    <3>1. CASE t = s
      BY <1>2, <3>1
    <3>2. CASE t # s
      <4>1. Flow(t) /\ buffer'[t] = buffer[t] /\ got'[t] = got[t] /\ want'[t] = want[t]
        BY <1>1, <3>2, OnSpoken DEF IInv, Streaming
      <4>2. sent'[t] = sent[t] /\ wire'[t] = wire[t] /\ left'[t] = left[t] /\ fin'[t] = fin[t]
        BY <1>1 DEF Took
      <4> QED
        BY <4>1, <4>2, FlowKept
    <3> QED
      BY <3>1, <3>2
  <2> QED
    BY <2>1 DEF IInv, Streaming, Took
<1>4. ToSend'
  BY ToSendKept DEF IInv, Took
<1>5. Domains'
  BY <1>1 DEF IInv, Domains, Took
<1>6. Datagrams'
  BY <1>0, <1>1, OnSpoken, DatagramsKept DEF IInv, Took
<1> QED
  BY <1>3, <1>4, <1>5, <1>6 DEF IInv

\* A message after the setup.
LEMMA RecvMessageStep ==
  ASSUME IInv, NEW s \in Control, NEW x, NEW rest, Took(s, x, rest), got[s] # <<>>
  PROVE  IInv'
<1>0. s \in Spoken /\ s \in Streams /\ s # "data" /\ s # "datagrams" /\ (s = "up" \/ s = "down")
  BY OnSpoken
<1>1. /\ IsItem(s, Len(got[s]) + 1, x) /\ (got[s] = <<>> <=> Len(got[s]) = 0)
      /\ got'[s] # <<>> /\ \A t \in Streams : t # s => got'[t] = got[t]
  BY ControlGot
<1>2. IsMessage(x) /\ x.type # "Client" /\ x.type # "Server"
  <2>1. Len(got[s]) \in Nat /\ Len(got[s]) # 0
    BY <1>0, <1>1, FlowTypes
  <2> DEFINE n == Len(got[s])
  <2>2. n + 1 # 1
    BY <2>1
  <2>3. IsItem(s, n + 1, x)
    BY <1>1
  <2> HIDE DEF n
  <2>4. IsMessage(x)
    BY <1>0, <2>2, <2>3 DEF IsItem
  <2> QED
    BY <2>4, Unloaded
<1>3. RecvMessage(Receiver(s), x)
  BY <1>0, <1>2, Zenon DEF Decoded, Took
<1>4. /\ UNCHANGED <<path, version, sent, wire>>
      /\ status' = status \/ Ends(Receiver(s), "unimplemented") \/ Ends(Receiver(s), "duplicate")
  BY <1>3 DEF RecvMessage
<1>5. Receiver(s) \in Sides
  BY <1>0 DEF Receiver, Peer, Sender, Sides
<1>6. /\ EndsWithCause' /\ DOMAIN status' = Sides
      /\ \A e \in Sides : status'[e] = status[e] \/ status'[e] \notin {"new", "setup", "running"}
  <2>1. CASE status' = status
    BY <2>1, EndsSame DEF IInv, Domains
  <2>2. CASE Ends(Receiver(s), "unimplemented")
    <3>1. "unimplemented" \in Causes
      BY DEF Causes
    <3> QED
      BY <1>5, <2>2, <3>1, Ending
  <2>3. CASE Ends(Receiver(s), "duplicate")
    <3>1. "duplicate" \in Causes
      BY DEF Causes
    <3> QED
      BY <1>5, <2>3, <3>1, Ending
  <2> QED
    BY <1>4, <2>1, <2>2, <2>3
<1>7. Setups'
  <2>1. ASSUME NEW t \in Control
        PROVE  /\ sent'[t] = <<>> <=> sent[t] = <<>>
               /\ sent[t] # <<>> => sent'[t][1] = sent[t][1]
               /\ got'[t] = <<>> <=> got[t] = <<>>
    <3>1. got'[t] = <<>> <=> got[t] = <<>>
      <4>1. CASE t = s
        BY <1>1, <4>1
      <4>2. CASE t # s
        BY <1>1, <4>2, OnSpoken
      <4> QED
        BY <4>1, <4>2
    <3> QED
      BY <1>4, <3>1
  <2>2. Setups /\ scenario' = scenario /\ path' = path /\ version' = version
    BY <1>4 DEF IInv, Took
  <2> QED
    BY <1>6, <2>1, <2>2, SetupsKept
<1>8. DOMAIN path' = Sides /\ DOMAIN version' = Sides /\ UNCHANGED <<sent, wire>>
  BY <1>4 DEF IInv, Domains
<1> QED
  BY <1>6, <1>7, <1>8, ControlKept

-----------------------------------------------------------------------------
(* The setup.                                                              *)

\* What the setup takes from the scenario.
LEMMA ScenarioParts ==
  ASSUME IInv
  PROVE  /\ scenario.url \in Bytes /\ scenario.versions \in Seq(Nat)
         /\ scenario.transport \in {"WebTransport", "RawQuic"}
BY OfScenario DEF IInv, Domains, IsScenario

\* What comes of encoding a setup message.
LEMMA SetupResults ==
  \A m : EncodeClient(m).res \in {"ok", "panic", "MsgBoundsExceeded"}
         /\ EncodeServer(m).res \in {"ok", "panic", "MsgBoundsExceeded"}
<1>1. ClientType \in Nat /\ ClientType < 65536 /\ ServerType \in Nat /\ ServerType < 65536
  BY DEF ClientType, ServerType
<1>2. TAKE m
<1>3. EncodeClient(m).res \in {"ok", "panic", "MsgBoundsExceeded"}
  BY <1>1, FrameResult DEF EncodeClient
<1>4. EncodeServer(m).res \in {"ok", "panic", "MsgBoundsExceeded"}
  BY <1>1, FrameResult DEF EncodeServer
<1> QED
  BY <1>3, <1>4

\* The messages of the setup, of their senders.
LEMMA Theirs ==
  ASSUME IInv, TheirPath # InvalidPath
  PROVE  /\ IsClient(TheirClient) /\ AcceptedPath(TheirClient) = TheirPath
         /\ IsServer(ServerSetup(TheirClient))
         /\ ServerSetup(TheirClient).version # 0 =>
                ServerSetup(TheirClient).version \in Range(scenario.versions)
<1>1. /\ scenario.url \in Bytes /\ scenario.versions \in Seq(Nat)
      /\ scenario.transport \in {"WebTransport", "RawQuic"}
  BY ScenarioParts
<1>2. TheirPath = NormalizeConnectionPath(scenario.url)
  BY DEF TheirPath
<1>3. TheirPath \in Bytes /\ AcceptedPath(ClientSetup(TheirPath)) = TheirPath
  BY <1>1, <1>2, SamePath
<1>4. /\ IsClient(ClientSetup(TheirPath))
      /\ ClientSetup(TheirPath).versions = scenario.versions
      /\ \A client : client.versions \in Seq(Nat) =>
            /\ ServerSetup(client).version \in Nat /\ IsServer(ServerSetup(client))
            /\ ServerSetup(client).version # 0 =>
                    ServerSetup(client).version \in Range(client.versions)
  BY <1>1, <1>3, SetupMessages
<1>5. TheirClient = ClientSetup(TheirPath)
  BY DEF TheirClient
<1> QED
  BY <1>1, <1>3, <1>4, <1>5

\* The first of a sequence.
LEMMA OnlyOne ==
  ASSUME NEW x
  PROVE  IsSequence(<<>>) /\ Len(<<>>) = 0 /\ Append(<<>>, x) # <<>> /\ Append(<<>>, x)[1] = x
<1>1. <<>> \in Seq({}) /\ Len(<<>>) = 0 /\ Len(<<>>) + 1 = 1
  OBVIOUS
<1>2. IsSequence(<<>>)
  BY <1>1, SequenceIn
<1> QED
  BY <1>1, <1>2, Appended

\* The first item of a stream that nothing was sent on.
LEMMA FirstSent ==
  ASSUME IInv, NEW s \in Control, sent[s] = <<>>, NEW m, IsItem(s, 1, m), EncodeItem(s, m).res = "ok"
  PROVE  Carries(s, Append(<<>>, m), got[s], buffer[s], wire[s] \o Code(s, m), want[s], left[s], fin[s])
<1>1. s \in Spoken /\ fin[s] = FALSE
  BY OnSpoken, FlowTypes DEF IInv, Streaming
<1>2. Carries(s, sent[s], got[s], buffer[s], wire[s], want[s], left[s], FALSE)
  BY <1>1, FlowTypes
<1>3. Len(<<>>) + 1 = 1 /\ 1 \in Nat
  OBVIOUS
<1>4. IsItem(s, Len(sent[s]) + 1, m)
  BY <1>3
<1>5. Code(s, m) \in Bytes
  BY <1>1, <1>3, Coded
<1>6. Len(Code(s, m)) \in Nat /\ SubSeq(Code(s, m), 1, Len(Code(s, m))) = Code(s, m)
      /\ Len(Code(s, m)) <= Len(Code(s, m))
  BY <1>5, AllOf
<1>7. FALSE \in BOOLEAN /\ (~FALSE => Len(Code(s, m)) = Len(Code(s, m)))
  OBVIOUS
<1>8. Carries(s, Append(sent[s], m), got[s], buffer[s],
              wire[s] \o SubSeq(Code(s, m), 1, Len(Code(s, m))), want[s], left[s], FALSE)
  BY <1>1, <1>2, <1>4, <1>6, <1>7, CarriesSent
<1> QED
  BY <1>1, <1>6, <1>8

\* The client connects.
LEMMA ConnectStep ==
  ASSUME IInv, Connect
  PROVE  IInv'
<1> DEFINE client == TheirClient
<1>1. /\ status["client"] = "new"
      /\ IF TheirPath = InvalidPath
         THEN Ends("client", "InvalidPath") /\ UNCHANGED <<path, sent, wire>>
         ELSE IF EncodeClient(client).res # "ok"
         THEN Ends("client", EncodeClient(client).res) /\ UNCHANGED <<path, sent, wire>>
         ELSE /\ Ends("client", "setup")
              /\ path' = [path EXCEPT !["client"] = TheirPath]
              /\ Put("up", client, EncodeClient(client).bytes)
      /\ scenario' = scenario /\ version' = version /\ flying' = flying
      /\ todo' = todo /\ fin' = fin /\ buffer' = buffer /\ want' = want /\ left' = left /\ got' = got
  BY DEF Connect, TheirPath, TheirClient
<1>2. "client" \in Sides /\ "up" \in Control /\ "up" \in Streams /\ "up" \in Spoken /\ "down" \in Spoken
      /\ "up" # "data" /\ "up" # "datagrams" /\ "up" # "down" /\ "data" \in Streams /\ "datagrams" \in Streams
      /\ "down" \in Streams
  BY DEF Sides, Control, Spoken, Streams
<1>3. CASE TheirPath = InvalidPath \/ EncodeClient(client).res # "ok"
  <2>1. PICK why \in Causes : Ends("client", why) /\ UNCHANGED <<path, sent, wire>>
    <3>1. CASE TheirPath = InvalidPath
      <4>1. "InvalidPath" \in Causes
        BY DEF Causes
      <4> QED
        BY <1>1, <3>1, <4>1
    <3>2. CASE TheirPath # InvalidPath
      <4>1. EncodeClient(client).res # "ok"
        BY <1>3, <3>2
      <4>2. EncodeClient(client).res \in Causes
        BY <4>1, SetupResults DEF Causes
      <4> QED
        BY <1>1, <3>2, <4>1, <4>2
    <3> QED
      BY <3>1, <3>2
  <2>2. /\ EndsWithCause' /\ DOMAIN status' = Sides
        /\ \A e \in Sides : status'[e] = status[e] \/ status'[e] \notin {"new", "setup", "running"}
    BY <1>2, <2>1, Ending
  <2>3. /\ scenario' = scenario /\ UNCHANGED streams /\ path' = path /\ version' = version
        /\ flying' \subseteq flying
    BY <1>1, <2>1 DEF streams
  <2> QED
    BY <2>2, <2>3, AllKept
<1>4. CASE TheirPath # InvalidPath /\ EncodeClient(client).res = "ok"
  <2>1. /\ Ends("client", "setup") /\ path' = [path EXCEPT !["client"] = TheirPath]
        /\ Put("up", client, EncodeClient(client).bytes)
    BY <1>1, <1>4
  <2>2. /\ sent["up"] = <<>> /\ got["up"] = <<>> /\ sent["down"] = <<>> /\ got["down"] = <<>>
    <3>1. sent["up"] = <<>>
      BY <1>1 DEF IInv, Setups
    <3>2. got["up"] = <<>>
      <4>1. IsSequence(got["up"]) /\ Len(got["up"]) \in Nat /\ Len(got["up"]) <= Len(sent["up"])
            /\ Len(<<>>) = 0
        BY <1>2, FlowTypes
      <4>2. Len(got["up"]) = 0
        BY <3>1, <4>1
      <4> QED
        BY <4>1, <4>2, SequenceOf
    <3>3. sent["down"] = <<>>
      BY <3>2 DEF IInv, Setups
    <3>4. got["down"] = <<>>
      <4>1. IsSequence(got["down"]) /\ Len(got["down"]) \in Nat /\ Len(got["down"]) <= Len(sent["down"])
            /\ Len(<<>>) = 0
        BY <1>2, FlowTypes
      <4>2. Len(got["down"]) = 0
        BY <3>3, <4>1
      <4> QED
        BY <4>1, <4>2, SequenceOf
    <3> QED
      BY <3>1, <3>2, <3>3, <3>4
  <2>3. IsItem("up", 1, client) /\ EncodeItem("up", client) = EncodeClient(client)
    <3>1. IsClient(client)
      BY <1>4, Theirs
    <3>2. client.type = "Client"
      BY <3>1, Unloaded
    <3> QED
      BY <3>1, <3>2, WhichEncode DEF IsItem
  <2> HIDE DEF client
  <2>4. Code("up", client) = EncodeClient(client).bytes
    BY <2>3 DEF Code
  <2>5. Carries("up", Append(<<>>, client), got["up"], buffer["up"], wire["up"] \o Code("up", client),
                want["up"], left["up"], fin["up"])
    BY <1>2, <1>4, <2>2, <2>3, FirstSent
  <2>6. DOMAIN sent = Streams /\ DOMAIN wire = Streams /\ DOMAIN path = Sides /\ DOMAIN status = Sides
    BY DEF IInv, Domains
  <2>7. /\ sent' = [sent EXCEPT !["up"] = Append(@, client)]
        /\ wire' = [wire EXCEPT !["up"] = @ \o Code("up", client)]
    BY <2>1, <2>4 DEF Put
  <2>8. /\ sent'["up"] = Append(<<>>, client) /\ wire'["up"] = wire["up"] \o Code("up", client)
        /\ DOMAIN sent' = Streams /\ DOMAIN wire' = Streams
        /\ \A t \in Streams : t # "up" => sent'[t] = sent[t] /\ wire'[t] = wire[t]
    BY <1>2, <2>2, <2>6, <2>7
  <2>9. path'["client"] = TheirPath /\ DOMAIN path' = Sides /\ path'["server"] = path["server"]
    BY <1>2, <2>1, <2>6 DEF Sides
  <2>10. /\ EndsWithCause' /\ DOMAIN status' = Sides /\ status'["client"] = "setup"
         /\ status'["server"] = status["server"]
    <3>1. "setup" \in Causes \cup {"new", "setup", "running"} /\ "server" \in Sides /\ "server" # "client"
      BY DEF Sides
    <3>2. EndsWithCause /\ DOMAIN status = Sides
      BY <2>6 DEF IInv
    <3>3. /\ EndsWithCause' /\ DOMAIN status' = Sides
          /\ status'["client"] = "setup" /\ \A e \in Sides : e # "client" => status'[e] = status[e]
      BY <1>2, <2>1, <3>1, <3>2, EndsKept
    <3> QED
      BY <3>1, <3>3
  <2>11. Streaming'
    <3>1. ASSUME NEW t \in Spoken PROVE Flow(t)'
      <4>1. CASE t = "up"
        <5>1. Flow("up")'
          BY <1>1, <2>5, <2>8 DEF Flow
        <5> QED
          BY <4>1, <5>1
      <4>2. CASE t # "up"
        <5>1. Flow(t) /\ sent'[t] = sent[t] /\ wire'[t] = wire[t]
          BY <2>8, <4>2, OnSpoken DEF IInv, Streaming
        <5>2. buffer'[t] = buffer[t] /\ got'[t] = got[t] /\ want'[t] = want[t] /\ left'[t] = left[t] /\ fin'[t] = fin[t]
          BY <1>1
        <5> QED
          BY <5>1, <5>2, FlowKept
      <4> QED
        BY <4>1, <4>2
    <3> QED
      BY <1>1, <3>1 DEF IInv, Streaming
  <2>12. ToSend'
    BY <1>1, <1>2, <2>8, ToSendKept DEF IInv
  <2>13. Domains'
    BY <1>1, <2>8, <2>9, <2>10 DEF IInv, Domains
  <2>14. Datagrams'
    BY <1>1, <1>2, <2>8, DatagramsKept DEF IInv
  <2>15. Setups'
    <3>1. sent'["up"] # <<>> /\ sent'["up"][1] = client
      BY <2>8, OnlyOne
    <3>2. sent'["down"] = <<>> /\ got'["down"] = <<>> /\ got'["up"] = <<>>
      BY <1>1, <1>2, <2>2, <2>8
    <3>3. TheirPath' = TheirPath /\ TheirClient' = TheirClient
      BY <1>1, TheirsKept
    <3>4. status'["server"] # "running"
      BY <2>2, <2>10 DEF IInv, Setups
    <3> QED
      BY <1>4, <2>9, <2>10, <3>1, <3>2, <3>3, <3>4 DEF Setups, client
  <2> QED
    BY <2>10, <2>11, <2>12, <2>13, <2>14, <2>15 DEF IInv
<1> QED
  BY <1>3, <1>4

\* SERVER_SETUP arrives.
LEMMA ConnectedStep ==
  ASSUME IInv, NEW x, NEW rest, Took("down", x, rest), got["down"] = <<>>
  PROVE  IInv'
<1>0. "down" \in Control /\ "client" \in Sides /\ "up" \in Streams /\ "up" # "down" /\ "server" \in Sides
      /\ "server" # "client" /\ "down" \in Streams
  BY DEF Control, Sides, Streams
<1>1. /\ x = sent["down"][1] /\ IsItem("down", 1, x) /\ sent["down"] # <<>>
      /\ got'["down"] # <<>> /\ \A t \in Streams : t # "down" => got'[t] = got[t]
  <2>1. /\ x = sent["down"][Len(got["down"]) + 1] /\ IsItem("down", Len(got["down"]) + 1, x)
        /\ sent["down"] # <<>>
        /\ got'["down"] # <<>> /\ \A t \in Streams : t # "down" => got'[t] = got[t]
    BY <1>0, ControlGot
  <2>2. Len(<<>>) + 1 = 1
    OBVIOUS
  <2>3. Len(got["down"]) + 1 = 1
    BY <2>2
  <2> QED
    BY <2>1, <2>3
<1>2. IsServer(x) /\ x.type = "Server"
  BY <1>1, Unloaded DEF IsItem
<1>3. Connected(x) /\ scenario' = scenario
  BY <1>0, <1>2, Zenon DEF Decoded, Took
<1>4. /\ UNCHANGED <<path, sent, wire>> /\ Ends("client", "running")
      /\ version' = [version EXCEPT !["client"] = x.version]
  BY <1>3 DEF Connected
<1>5. DOMAIN version = Sides /\ DOMAIN path = Sides /\ DOMAIN status = Sides /\ EndsWithCause
  BY DEF IInv, Domains
<1>6. /\ EndsWithCause' /\ DOMAIN status' = Sides
      /\ status'["client"] = "running" /\ status'["server"] = status["server"]
  <2>1. "running" \in Causes \cup {"new", "setup", "running"}
    OBVIOUS
  <2>2. /\ EndsWithCause' /\ DOMAIN status' = Sides
        /\ status'["client"] = "running" /\ \A e \in Sides : e # "client" => status'[e] = status[e]
    BY <1>0, <1>4, <1>5, <2>1, EndsKept
  <2> QED
    BY <1>0, <2>2
<1>7. /\ version'["client"] = x.version /\ version'["server"] = version["server"]
      /\ DOMAIN version' = Sides /\ DOMAIN path' = Sides
  BY <1>0, <1>4, <1>5
<1>8. Setups'
  <2>1. TheirPath' = TheirPath /\ TheirClient' = TheirClient
    BY <1>3, TheirsKept
  <2>2. got'["up"] = got["up"] /\ sent' = sent /\ path' = path /\ scenario' = scenario
    BY <1>0, <1>1, <1>3, <1>4
  <2>3. Setups
    BY DEF IInv
  <2>4. sent["up"] # <<>>
    BY <1>1, <2>3 DEF Setups
  <2>5. /\ status'["client"] = "new" => sent'["up"] = <<>>
        /\ status'["client"] \in {"setup", "running"} => sent'["up"] # <<>>
        /\ status'["client"] = "running" => got'["down"] # <<>>
        /\ status'["server"] = "running" => got'["up"] # <<>> /\ sent'["down"] # <<>>
        /\ got'["up"] = <<>> => sent'["down"] = <<>>
    BY <1>1, <1>6, <2>2, <2>3, <2>4 DEF Setups
  <2>6. sent'["up"] # <<>> =>
            sent'["up"][1] = TheirClient' /\ path'["client"] = TheirPath' /\ TheirPath' # InvalidPath
    BY <2>1, <2>2, <2>3 DEF Setups
  <2>7. sent'["down"] # <<>> =>
            /\ sent'["up"] # <<>> /\ sent'["down"][1] = ServerSetup(TheirClient')
            /\ path'["server"] = TheirPath'
            /\ version'["server"] = sent'["down"][1].version
            /\ version'["server"] \in Range(scenario'.versions)
    BY <1>7, <2>1, <2>2, <2>3 DEF Setups
  <2>8. got'["down"] # <<>> => version'["client"] = sent'["down"][1].version
    BY <1>1, <1>7, <2>2
  <2> QED
    BY <2>5, <2>6, <2>7, <2>8 DEF Setups
<1>9. UNCHANGED <<sent, wire>>
  BY <1>4
<1> QED
  BY <1>0, <1>6, <1>7, <1>8, <1>9, ControlKept

\* CLIENT_SETUP arrives, and there is no version for it.
LEMMA RefusedStep ==
  ASSUME IInv, NEW x, NEW rest, Took("up", x, rest),
         NEW why \in Causes, Ends("server", why), UNCHANGED <<path, version, sent, wire>>
  PROVE  IInv'
<1>0. "up" \in Control /\ "server" \in Sides /\ "down" \in Streams /\ "up" # "down"
  BY DEF Control, Sides, Streams
<1>1. got'["up"] # <<>> /\ \A t \in Streams : t # "up" => got'[t] = got[t]
  BY <1>0, ControlGot
<1>2. /\ EndsWithCause' /\ DOMAIN status' = Sides
      /\ \A e \in Sides : status'[e] = status[e] \/ status'[e] \notin {"new", "setup", "running"}
  BY <1>0, Ending
<1>3. scenario' = scenario
  BY DEF Took
<1>4. Setups'
  <2>1. TheirPath' = TheirPath /\ TheirClient' = TheirClient
    BY <1>3, TheirsKept
  <2>2. /\ status'["client"] = status["client"] \/ status'["client"] \notin {"new", "setup", "running"}
        /\ status'["server"] = status["server"] \/ status'["server"] \notin {"new", "setup", "running"}
        /\ got'["down"] = got["down"]
    BY <1>0, <1>1, <1>2 DEF Sides
  <2>3. Setups
    BY DEF IInv
  <2>5. /\ status'["client"] = "new" => sent'["up"] = <<>>
        /\ status'["client"] \in {"setup", "running"} => sent'["up"] # <<>>
        /\ status'["client"] = "running" => got'["down"] # <<>>
        /\ status'["server"] = "running" => got'["up"] # <<>> /\ sent'["down"] # <<>>
        /\ got'["up"] = <<>> => sent'["down"] = <<>>
    BY <1>1, <2>2, <2>3 DEF Setups
  <2>6. sent'["up"] # <<>> =>
            sent'["up"][1] = TheirClient' /\ path'["client"] = TheirPath' /\ TheirPath' # InvalidPath
    BY <2>1, <2>3 DEF Setups
  <2>7. sent'["down"] # <<>> =>
            /\ sent'["up"] # <<>> /\ sent'["down"][1] = ServerSetup(TheirClient')
            /\ path'["server"] = TheirPath'
            /\ version'["server"] = sent'["down"][1].version
            /\ version'["server"] \in Range(scenario'.versions)
    BY <1>3, <2>1, <2>3 DEF Setups
  <2>8. got'["down"] # <<>> => version'["client"] = sent'["down"][1].version
    BY <2>2, <2>3 DEF Setups
  <2> QED
    BY <2>5, <2>6, <2>7, <2>8 DEF Setups
<1>5. DOMAIN version' = Sides /\ DOMAIN path' = Sides
  BY DEF IInv, Domains
<1> QED
  BY <1>0, <1>2, <1>4, <1>5, ControlKept

\* CLIENT_SETUP arrives.
LEMMA AcceptStep ==
  ASSUME IInv, NEW x, NEW rest, Took("up", x, rest), got["up"] = <<>>
  PROVE  IInv'
<1>0. /\ "up" \in Control /\ "down" \in Control /\ "client" \in Sides /\ "server" \in Sides
      /\ "server" # "client" /\ "down" \in Streams /\ "up" \in Streams /\ "up" # "down"
      /\ "up" \in Spoken /\ "down" \in Spoken /\ "data" \in Streams /\ "datagrams" \in Streams
      /\ "up" # "data" /\ "down" # "data" /\ "up" # "datagrams" /\ "down" # "datagrams"
  BY DEF Control, Sides, Streams, Spoken
<1>1. /\ x = sent["up"][1] /\ IsItem("up", 1, x) /\ sent["up"] # <<>>
      /\ Carries("up", sent["up"], Append(got["up"], x), rest, wire["up"], 0, 0, fin["up"])
      /\ buffer'["up"] = rest /\ got'["up"] = Append(got["up"], x) /\ want'["up"] = 0 /\ left' = left
      /\ DOMAIN buffer' = Streams /\ DOMAIN got' = Streams /\ DOMAIN want' = Streams
      /\ \A t \in Streams : t # "up" => buffer'[t] = buffer[t] /\ got'[t] = got[t] /\ want'[t] = want[t]
      /\ got'["up"] # <<>>
  <2>1. /\ x = sent["up"][Len(got["up"]) + 1] /\ IsItem("up", Len(got["up"]) + 1, x)
        /\ sent["up"] # <<>>
        /\ Carries("up", sent["up"], Append(got["up"], x), rest, wire["up"], 0, 0, fin["up"])
        /\ buffer'["up"] = rest /\ got'["up"] = Append(got["up"], x) /\ want'["up"] = 0 /\ left' = left
        /\ DOMAIN buffer' = Streams /\ DOMAIN got' = Streams /\ DOMAIN want' = Streams
        /\ \A t \in Streams : t # "up" => buffer'[t] = buffer[t] /\ got'[t] = got[t] /\ want'[t] = want[t]
        /\ got'["up"] # <<>>
    BY <1>0, ControlGot
  <2>2. Len(<<>>) + 1 = 1
    OBVIOUS
  <2>3. Len(got["up"]) + 1 = 1
    BY <2>2
  <2> QED
    BY <2>1, <2>3
<1>2. IsClient(x) /\ x.type = "Client"
  BY <1>1, Unloaded DEF IsItem
<1>3. Accept(x)
  BY <1>0, <1>2, Zenon DEF Decoded, Took
<1>4. /\ scenario' = scenario /\ todo' = todo /\ fin' = fin /\ flying' = flying /\ left["up"] = 0
  BY DEF Took
<1>5. x = TheirClient /\ path["client"] = TheirPath /\ TheirPath # InvalidPath /\ sent["down"] = <<>>
  BY <1>1 DEF IInv, Setups
<1> DEFINE server == ServerSetup(x)
<1>6. /\ AcceptedPath(x) = TheirPath /\ IsServer(server)
      /\ server.version # 0 => server.version \in Range(scenario.versions)
  BY <1>5, Theirs
<1>7. \/ \E why \in {"version", EncodeServer(server).res} :
            /\ why = "version" \/ EncodeServer(server).res # "ok"
            /\ Ends("server", why) /\ UNCHANGED <<path, version, sent, wire>>
      \/ /\ server.version # 0 /\ EncodeServer(server).res = "ok"
         /\ Ends("server", "running")
         /\ path' = [path EXCEPT !["server"] = TheirPath]
         /\ version' = [version EXCEPT !["server"] = server.version]
         /\ Put("down", server, EncodeServer(server).bytes)
  BY <1>3, <1>5, <1>6 DEF Accept
<1> HIDE DEF server
<1>8. CASE \E why \in {"version", EncodeServer(server).res} :
            /\ why = "version" \/ EncodeServer(server).res # "ok"
            /\ Ends("server", why) /\ UNCHANGED <<path, version, sent, wire>>
  <2>1. PICK why \in {"version", EncodeServer(server).res} :
            /\ why = "version" \/ EncodeServer(server).res # "ok"
            /\ Ends("server", why) /\ UNCHANGED <<path, version, sent, wire>>
    BY <1>8
  <2>2. why \in Causes
    <3>1. CASE why = "version"
      BY <3>1 DEF Causes
    <3>2. CASE why # "version"
      BY <2>1, <3>2, SetupResults DEF Causes
    <3> QED
      BY <3>1, <3>2
  <2> QED
    BY <2>1, <2>2, RefusedStep
<1>9. CASE /\ server.version # 0 /\ EncodeServer(server).res = "ok"
           /\ Ends("server", "running")
           /\ path' = [path EXCEPT !["server"] = TheirPath]
           /\ version' = [version EXCEPT !["server"] = server.version]
           /\ Put("down", server, EncodeServer(server).bytes)
  <2>1. got["down"] = <<>>
    <3>1. IsSequence(got["down"]) /\ Len(got["down"]) \in Nat /\ Len(got["down"]) <= Len(sent["down"])
          /\ Len(<<>>) = 0
      BY <1>0, FlowTypes
    <3>2. Len(got["down"]) = 0
      BY <1>5, <3>1
    <3> QED
      BY <3>1, <3>2, SequenceOf
  <2>2. IsItem("down", 1, server) /\ EncodeItem("down", server) = EncodeServer(server)
    <3>1. server.type = "Server"
      BY <1>6, Unloaded
    <3> QED
      BY <1>0, <1>6, <3>1, WhichEncode DEF IsItem
  <2>3. Code("down", server) = EncodeServer(server).bytes
    BY <2>2 DEF Code
  <2>4. Carries("down", Append(<<>>, server), got["down"], buffer["down"], wire["down"] \o Code("down", server),
                want["down"], left["down"], fin["down"])
    BY <1>0, <1>5, <1>9, <2>2, FirstSent
  <2>5. DOMAIN sent = Streams /\ DOMAIN wire = Streams /\ DOMAIN path = Sides /\ DOMAIN status = Sides
        /\ DOMAIN version = Sides
    BY DEF IInv, Domains
  <2>6. /\ sent' = [sent EXCEPT !["down"] = Append(@, server)]
        /\ wire' = [wire EXCEPT !["down"] = @ \o Code("down", server)]
    BY <1>9, <2>3 DEF Put
  <2>7. /\ sent'["down"] = Append(<<>>, server) /\ wire'["down"] = wire["down"] \o Code("down", server)
        /\ DOMAIN sent' = Streams /\ DOMAIN wire' = Streams
        /\ \A t \in Streams : t # "down" => sent'[t] = sent[t] /\ wire'[t] = wire[t]
    BY <1>0, <1>5, <2>5, <2>6
  <2>8. /\ path'["server"] = TheirPath /\ DOMAIN path' = Sides /\ path'["client"] = path["client"]
        /\ version'["server"] = server.version /\ DOMAIN version' = Sides
        /\ version'["client"] = version["client"]
    BY <1>0, <1>9, <2>5
  <2>9. /\ EndsWithCause' /\ DOMAIN status' = Sides /\ status'["server"] = "running"
        /\ status'["client"] = status["client"]
    <3>1. "running" \in Causes \cup {"new", "setup", "running"} /\ EndsWithCause
      BY DEF IInv
    <3>2. /\ EndsWithCause' /\ DOMAIN status' = Sides
          /\ status'["server"] = "running" /\ \A e \in Sides : e # "server" => status'[e] = status[e]
      BY <1>0, <1>9, <2>5, <3>1, EndsKept
    <3> QED
      BY <1>0, <3>2
  <2>10. Streaming'
    <3>1. Flow("up")'
      <4>1. sent'["up"] = sent["up"] /\ wire'["up"] = wire["up"] /\ left'["up"] = 0
        BY <1>0, <1>1, <1>4, <2>7
      <4> QED
        BY <1>1, <1>4, <4>1 DEF Flow
    <3>2. Flow("down")'
      <4>1. got'["down"] = got["down"] /\ buffer'["down"] = buffer["down"] /\ want'["down"] = want["down"]
        BY <1>0, <1>1
      <4> QED
        BY <1>1, <1>4, <2>4, <2>7, <4>1 DEF Flow
    <3>3. Flow("data")'
      <4>1. Flow("data") /\ "data" \in Spoken
        BY OnSpoken DEF IInv, Streaming
      <4>2. /\ sent'["data"] = sent["data"] /\ wire'["data"] = wire["data"] /\ left'["data"] = left["data"]
            /\ got'["data"] = got["data"] /\ buffer'["data"] = buffer["data"]
            /\ want'["data"] = want["data"] /\ fin'["data"] = fin["data"]
        BY <1>0, <1>1, <1>4, <2>7
      <4> QED
        BY <4>1, <4>2, FlowKept
    <3>4. \A t \in Spoken : t = "up" \/ t = "down" \/ t = "data"
      BY DEF Spoken
    <3>5. ASSUME NEW t \in Spoken PROVE Flow(t)'
      <4>1. CASE t = "up"
        BY <3>1, <4>1
      <4>2. CASE t = "down"
        BY <3>2, <4>2
      <4>3. CASE t = "data"
        BY <3>3, <4>3
      <4> QED
        BY <3>4, <4>1, <4>2, <4>3
    <3> QED
      BY <1>4, <3>5 DEF IInv, Streaming
  <2>11. ToSend'
    BY <1>0, <1>4, <2>7, ToSendKept DEF IInv
  <2>12. Domains'
    BY <1>1, <1>4, <2>7, <2>8, <2>9 DEF IInv, Domains
  <2>13. Datagrams'
    BY <1>0, <1>1, <1>4, <2>7, DatagramsKept DEF IInv
  <2>14. Setups'
    <3>1. sent'["down"] # <<>> /\ sent'["down"][1] = server
      BY <2>7, OnlyOne
    <3>2. sent'["up"] = sent["up"] /\ got'["down"] = <<>>
      BY <1>0, <1>1, <2>1, <2>7
    <3>3. TheirPath' = TheirPath /\ TheirClient' = TheirClient
      BY <1>4, TheirsKept
    <3>4. server = ServerSetup(TheirClient')
      BY <1>5, <3>3 DEF server
    <3>5. Setups
      BY DEF IInv
    <3>6. /\ status'["client"] = "new" => sent'["up"] = <<>>
          /\ status'["client"] \in {"setup", "running"} => sent'["up"] # <<>>
          /\ status'["client"] = "running" => got'["down"] # <<>>
          /\ status'["server"] = "running" => got'["up"] # <<>> /\ sent'["down"] # <<>>
          /\ got'["up"] = <<>> => sent'["down"] = <<>>
      BY <1>1, <2>1, <2>9, <3>1, <3>2, <3>5 DEF Setups
    <3>7. sent'["up"] # <<>> =>
            sent'["up"][1] = TheirClient' /\ path'["client"] = TheirPath' /\ TheirPath' # InvalidPath
      BY <1>1, <1>5, <2>8, <3>2, <3>3
    <3>8. /\ sent'["up"] # <<>> /\ sent'["down"][1] = ServerSetup(TheirClient')
          /\ path'["server"] = TheirPath'
          /\ version'["server"] = sent'["down"][1].version
          /\ version'["server"] \in Range(scenario'.versions)
      BY <1>1, <1>4, <1>6, <1>9, <2>8, <3>1, <3>2, <3>3, <3>4
    <3> QED
      BY <3>2, <3>6, <3>7, <3>8 DEF Setups
  <2> QED
    BY <2>9, <2>10, <2>11, <2>12, <2>13, <2>14 DEF IInv
<1> QED
  BY <1>7, <1>8, <1>9

\* An attempt to decode.
LEMMA DecodeStep ==
  ASSUME IInv, NEW s \in Spoken, Decode(s)
  PROVE  IInv'
<1> DEFINE r == DecodeNext(s, got[s], buffer[s])
           rest == SubSeq(buffer[s], r.at + 1, Len(buffer[s]))
           m == sent[s][Len(got[s]) + 1]
<1>1. /\ left[s] = 0 /\ UNCHANGED <<scenario, todo, fin, flying>>
      /\ \/ /\ want' = [want EXCEPT ![s] = Len(buffer[s]) + r.need]
            /\ UNCHANGED <<ends, sent, wire, buffer, left, got>>
            /\ Carries(s, sent[s], got[s], buffer[s], wire[s], Len(buffer[s]) + r.need, 0, fin[s])
         \/ /\ Decoded(s, r.value, rest)
            /\ Len(got[s]) < Len(sent[s]) /\ r.value = Bare(m)
            /\ \A v \in {0, GivenUp} :
                 Carries(s, sent[s], Append(got[s], r.value), rest, wire[s], v, Len(PayloadOf(m)), fin[s])
  BY DecodeParts
<1> HIDE DEF r
<1>2. CASE /\ want' = [want EXCEPT ![s] = Len(buffer[s]) + r.need]
           /\ UNCHANGED <<ends, sent, wire, buffer, left, got>>
           /\ Carries(s, sent[s], got[s], buffer[s], wire[s], Len(buffer[s]) + r.need, 0, fin[s])
  <2> DEFINE w == Len(buffer[s]) + r.need
  <2>1. want' = [want EXCEPT ![s] = w] /\ UNCHANGED <<ends, sent, wire, buffer, left, got>>
        /\ Carries(s, sent[s], got[s], buffer[s], wire[s], w, 0, fin[s])
    BY <1>2
  <2>2. left[s] = 0 /\ UNCHANGED <<scenario, todo, fin, flying>>
    BY <1>1
  <2> HIDE DEF w
  <2> QED
    BY <2>1, <2>2, AskStep
<1>3. CASE /\ Decoded(s, r.value, rest)
           /\ Len(got[s]) < Len(sent[s]) /\ r.value = Bare(m)
           /\ \A v \in {0, GivenUp} :
                 Carries(s, sent[s], Append(got[s], r.value), rest, wire[s], v, Len(PayloadOf(m)), fin[s])
  <2>1. Took(s, r.value, rest)
    BY <1>1, <1>3 DEF Took
  <2>2. CASE s = "data"
    <3>1. /\ UNCHANGED <<scenario, todo, fin, flying>> /\ left["data"] = 0
          /\ Decoded("data", r.value, rest)
          /\ Len(got["data"]) < Len(sent["data"]) /\ r.value = Bare(m)
          /\ m = sent["data"][Len(got["data"]) + 1]
      BY <1>1, <1>3, <2>2
    <3>2. \A v \in {0, GivenUp} :
            Carries("data", sent["data"], Append(got["data"], r.value), rest, wire["data"], v,
                    Len(PayloadOf(m)), fin["data"])
      BY <1>3, <2>2
    <3> HIDE DEF m, rest
    <3> QED
      BY <3>1, <3>2, RecvStreamStep
  <2>3. CASE s \in Control /\ got[s] # <<>>
    <3> HIDE DEF rest
    <3> QED
      BY <2>1, <2>3, RecvMessageStep
  <2>4. CASE s = "up" /\ got[s] = <<>>
    <3> HIDE DEF rest
    <3> QED
      BY <2>1, <2>4, AcceptStep
  <2>5. CASE s = "down" /\ got[s] = <<>>
    <3> HIDE DEF rest
    <3> QED
      BY <2>1, <2>5, ConnectedStep
  <2> QED
    BY <2>2, <2>3, <2>4, <2>5 DEF Spoken, Control
<1> QED
  BY <1>1, <1>2, <1>3

\* The invariant is inductive.
LEMMA NextIInv ==
  ASSUME IInv, [Next]_vars
  PROVE  IInv'
<1>0. (\A s \in Control : s \in Spoken) /\ (\A s \in Control \cup {"data"} : s \in Spoken)
  BY DEF Control, Spoken
<1>1. CASE Connect
  BY <1>1, ConnectStep
<1>2. ASSUME NEW s \in Control, SendMessage(s) PROVE IInv'
  BY <1>2, SendMessageStep
<1>3. CASE ServeWhole \/ ServeCut
  BY <1>3, ServeStep
<1>4. CASE ServeDone
  BY <1>4, ServeDoneStep
<1>5. CASE SendDatagram
  BY <1>5, SendDatagramStep
<1>6. ASSUME NEW s \in Control \cup {"data"}, Decode(s) PROVE IInv'
  BY <1>0, <1>6, DecodeStep
<1>7. ASSUME NEW s \in Control \cup {"data"}, NEW n \in ReadSizes, ReadBuf(s, n) PROVE IInv'
  BY <1>0, <1>7, ReadBufStep
<1>8. ASSUME NEW n \in ReadSizes, ReadChunk("data", n) PROVE IInv'
  BY <1>8, ReadChunkStep
<1>9. CASE EndOfStream
  BY <1>9, EndOfStreamStep
<1>10. ASSUME NEW d \in flying, RecvDatagram(d) \/ LoseDatagram(d) PROVE IInv'
  BY <1>10, RecvDatagramStep, LoseDatagramStep
<1>11. ASSUME NEW e \in Sides, Drop(e) \/ PeerGone(e) PROVE IInv'
  BY <1>11, DropStep, PeerGoneStep
<1>12. CASE UNCHANGED vars
  BY <1>12, NothingStep
<1> QED
  BY <1>1, <1>2, <1>3, <1>4, <1>5, <1>6, <1>7, <1>8, <1>9, <1>10, <1>11, <1>12 DEF Next

-----------------------------------------------------------------------------
(* What the invariant gives.                                               *)

\* The first bytes are a prefix.
LEMMA PrefixOf ==
  ASSUME NEW p \in Bytes, NEW n \in Nat, n <= Len(p)
  PROVE  IsPrefix(SubSeq(p, 1, n), p)
<1>1. SubSeq(p, 1, n) \in Bytes /\ Len(SubSeq(p, 1, n)) = n /\ Len(p) \in Nat
  BY Cut, AllOf
<1>2. SubSeq(SubSeq(p, 1, n), 1, n) = SubSeq(p, 1, n)
  BY <1>1, AllOf
<1> QED
  BY <1>1, <1>2 DEF IsPrefix

\* What a receiver has of an item is the item, or it with a prefix of its payload.
LEMMA SameOrPart ==
  ASSUME NEW s \in Spoken, NEW n \in Nat, NEW theirs, IsItem(s, n, theirs), EncodeItem(s, theirs).res = "ok",
         NEW mine, NEW l \in Nat, Partly(mine, theirs, l)
  PROVE  SameItem(mine, theirs)
<1>1. CASE "payload" \in DOMAIN theirs
  <2>1. theirs.payload \in Bytes /\ theirs = [x \in DOMAIN theirs |-> theirs[x]]
    BY <1>1, Loaded
  <2> DEFINE p == theirs.payload
             k == Len(p) - l
             q == SubSeq(p, 1, k)
  <2>2. l <= Len(p) /\ mine = [theirs EXCEPT !.payload = q]
    BY <1>1 DEF Partly
  <2>3. k \in Nat /\ k <= Len(p)
    <3>1. Len(p) \in Nat
      BY <2>1, AllOf
    <3> QED
      BY <2>2, <3>1
  <2>4. IsPrefix(q, p)
    <3> HIDE DEF p, k
    <3>1. p \in Bytes
      BY <2>1 DEF p
    <3> QED
      BY <2>3, <3>1, PrefixOf
  <2> HIDE DEF q
  <2>5. "payload" \in DOMAIN mine /\ mine.payload = q
    BY <1>1, <2>2
  <2>6. [mine EXCEPT !.payload = theirs.payload] = theirs
    BY <1>1, <2>1, <2>2
  <2> QED
    BY <2>4, <2>5, <2>6 DEF SameItem
<1>2. CASE "payload" \notin DOMAIN theirs
  BY <1>2 DEF Partly, SameItem
<1> QED
  BY <1>1, <1>2

\* The positions of a stream give its items.
LEMMA IInvDelivers ==
  ASSUME IInv
  PROVE  DeliveredAsSent
<1>1. ASSUME NEW s \in Streams \ {"datagrams"}
      PROVE  /\ Len(got[s]) <= Len(sent[s])
             /\ \A i \in DOMAIN got[s] :
                    IF i < Len(got[s]) THEN got[s][i] = sent[s][i]
                    ELSE SameItem(got[s][i], sent[s][i])
  <2> DEFINE G == got[s]
             S == sent[s]
             l == left[s]
  <2>0. s \in Spoken
    BY OnSpoken
  <2>1. /\ IsSequence(G) /\ Len(G) \in Nat /\ Len(S) \in Nat /\ Len(G) <= Len(S) /\ l \in Nat
        /\ ItemsSent(s, S) /\ ItemsGot(S, G, l)
    BY <2>0, FlowTypes DEF Carries
  <2> HIDE DEF G, S, l
  <2>2. DOMAIN G = 1..Len(G) /\ (G = <<>> <=> Len(G) = 0)
    BY <2>1, SequenceOf
  <2>3. ASSUME NEW i \in 1..Len(G)
        PROVE  IF i < Len(G) THEN G[i] = S[i] ELSE SameItem(G[i], S[i])
    <3>1. CASE i < Len(G)
      BY <2>1, <3>1 DEF ItemsGot
    <3>2. CASE ~(i < Len(G))
      <4>1. i = Len(G) /\ i \in 1..Len(S) /\ i \in Nat /\ G # <<>>
        <5> DEFINE n == Len(G)
                   k == Len(S)
        <5>1. n \in Nat /\ k \in Nat /\ n <= k /\ i \in 1..n /\ ~(i < n)
          BY <2>1, <3>2
        <5> HIDE DEF n, k
        <5>2. i = n /\ i \in 1..k /\ i \in Nat /\ n # 0
          BY <5>1
        <5>3. G # <<>>
          BY <2>2, <5>2 DEF n
        <5> QED
          BY <5>2, <5>3 DEF n, k
      <4>2. Partly(G[i], S[i], l)
        <5>1. G # <<>> => Partly(G[Len(G)], S[Len(G)], l)
          BY <2>1 DEF ItemsGot
        <5> QED
          BY <4>1, <5>1
      <4>3. IsItem(s, i, S[i]) /\ EncodeItem(s, S[i]).res = "ok"
        BY <2>1, <4>1 DEF ItemsSent
      <4>4. SameItem(G[i], S[i])
        BY <2>0, <2>1, <4>1, <4>2, <4>3, SameOrPart
      <4> QED
        BY <3>2, <4>4
    <3> QED
      BY <3>1, <3>2
  <2> QED
    BY <2>1, <2>2, <2>3 DEF G, S
<1>2. Range(got["datagrams"]) \subseteq Range(sent["datagrams"])
  BY DEF IInv, Datagrams
<1> QED
  BY <1>1, <1>2 DEF DeliveredAsSent

\* Nor is more wanted.
LEMMA IInvWaits ==
  ASSUME IInv
  PROVE  NeverWaitsPastTheItem
<1> SUFFICES ASSUME NEW s \in Streams, Waiting(s), Len(got[s]) < Len(sent[s])
             PROVE  LET item == sent[s][Len(got[s]) + 1]
                        payload == IF "payload" \in DOMAIN item THEN Len(item.payload) ELSE 0
                    IN  want[s] <= Len(EncodeItem(s, item).bytes) - payload
  BY DEF NeverWaitsPastTheItem
<1> DEFINE m == sent[s][Len(got[s]) + 1]
           n == Len(got[s]) + 1
           w == want[s]
<1>1. s \in Spoken
  <2>1. ASSUME s = "datagrams" PROVE FALSE
    <3>1. buffer[s] = <<>> /\ want[s] = 0 /\ Len(buffer[s]) < want[s]
      BY <2>1 DEF Waiting, IInv, Datagrams
    <3>2. Len(<<>>) = 0
      OBVIOUS
    <3> QED
      BY <3>1, <3>2
  <2> QED
    BY <2>1, OnSpoken
<1>2. Carries(s, sent[s], got[s], buffer[s], wire[s], w, left[s], fin[s]) /\ w \in Int /\ n \in Nat
  BY <1>1, FlowTypes
<1>3. IsItem(s, n, m) /\ EncodeItem(s, m).res = "ok"
  BY <1>1, NextItem
<1>4. Wanted(s, sent[s], Len(got[s]), w)
  BY <1>2 DEF Carries
<1>5. w <= 1 \/ w + Len(PayloadOf(m)) <= Len(Code(s, m))
  BY <1>4 DEF Wanted
<1> HIDE DEF m, n, w
<1>6. PICK head \in Bytes : /\ PayloadOf(m) \in Bytes /\ Code(s, m) = head \o PayloadOf(m)
                            /\ Len(head) >= 1
  BY <1>1, <1>2, <1>3, Coded
<1>7. Len(Code(s, m)) = Len(head) + Len(PayloadOf(m)) /\ Len(head) \in Nat /\ Len(PayloadOf(m)) \in Nat
  BY <1>6, Elements, AllOf
<1>8. w <= Len(Code(s, m)) - Len(PayloadOf(m))
  BY <1>2, <1>5, <1>6, <1>7
<1>9. Len(PayloadOf(m)) = IF "payload" \in DOMAIN m THEN Len(m.payload) ELSE 0
  <2>1. Len(<<>>) = 0
    OBVIOUS
  <2> QED
    BY <2>1 DEF PayloadOf
<1> QED
  BY <1>8, <1>9 DEF Code, m, w

\* The first items give the setup.
LEMMA IInvAgrees ==
  ASSUME IInv
  PROVE  SetupAgrees
<1> SUFFICES ASSUME status["client"] = "running"
             PROVE  /\ version["client"] = version["server"]
                    /\ version["client"] \in Range(scenario.versions)
                    /\ path["client"] = path["server"]
  BY DEF SetupAgrees
<1>1. got["down"] # <<>>
  BY DEF IInv, Setups
<1>2. sent["down"] # <<>>
  <2>1. /\ IsSequence(got["down"]) /\ Len(got["down"]) \in Nat /\ Len(sent["down"]) \in Nat
        /\ Len(got["down"]) <= Len(sent["down"]) /\ Len(<<>>) = 0
    BY OnSpoken, FlowTypes
  <2>2. Len(got["down"]) # 0
    BY <1>1, <2>1, SequenceOf
  <2> QED
    BY <2>1, <2>2
<1> QED
  BY <1>1, <1>2 DEF IInv, Setups

\* The invariant holds in every reachable state, for any scenarios and sizes of reads.
THEOREM SpecIInv == Spec => []IInv
<1>1. Init => IInv
  BY InitIInv
<1>2. IInv /\ [Next]_vars => IInv'
  BY NextIInv
<1> QED
  BY <1>1, <1>2, PTL DEF Spec

\* However its bytes were cut into reads (reader.rs), a stream delivers the items sent, in their
\* order and as they were; the last perhaps with the first part of its payload only.
THEOREM SpecDeliveredAsSent == Spec => []DeliveredAsSent
<1>1. IInv => DeliveredAsSent
  BY IInvDelivers
<1> QED
  BY <1>1, SpecIInv, PTL

\* Reader::decode waits for no byte behind the item that it decodes: nothing more need be sent
\* for the item to be handled.
THEOREM SpecNeverWaitsPastTheItem == Spec => []NeverWaitsPastTheItem
<1>1. IInv => NeverWaitsPastTheItem
  BY IInvWaits
<1> QED
  BY <1>1, SpecIInv, PTL

\* Once Session::connect has returned, both ends have the same version, one that the client
\* offered, and the same path.
THEOREM SpecSetupAgrees == Spec => []SetupAgrees
<1>1. IInv => SetupAgrees
  BY IInvAgrees
<1> QED
  BY <1>1, SpecIInv, PTL

\* No session ends because an end could not decode what its peer encoded.
THEOREM SpecEndsWithCause == Spec => []EndsWithCause
<1>1. IInv => EndsWithCause
  BY DEF IInv
<1> QED
  BY <1>1, SpecIInv, PTL

-----------------------------------------------------------------------------
(* The delivery of items.                                                  *)

\* The sequences of a stream.
LEMMA StreamSequences ==
  ASSUME IInv, NEW s \in Streams
  PROVE  IsSequence(sent[s]) /\ IsSequence(got[s])
<1>1. CASE s \in Spoken
  BY <1>1, FlowTypes
<1>2. CASE s = "datagrams"
  BY <1>2 DEF IInv, Datagrams
<1> QED
  BY <1>1, <1>2, OnSpoken

\* A step on one stream, or on two.
LEMMA OneMoves ==
  ASSUME NEW s \in Streams,
         \/ Promised!Send(s)
         \/ s # "datagrams" /\ (Promised!TakeNext(s) \/ Promised!TakeMore(s))
         \/ s = "datagrams" /\ Promised!TakeAny(s),
         \A t \in Streams : t # s => Promised!Rest(t) \/ Promised!Send(t)
  PROVE  Promised!Next
BY DEF Promised!Next

\* A step that no user of the session sees.
LEMMA NoneMoves ==
  ASSUME sent' = sent, got' = got, left' = left
  PROVE  [Promised!Next]_(Promised!vars)
BY DEF Promised!vars

\* An item is sent.
LEMMA SendsItem ==
  ASSUME IInv, NEW s \in Streams, NEW m, sent'[s] = Append(sent[s], m),
         got'[s] = got[s], left'[s] = left[s],
         s = "up" => sent["up"] = <<>> \/ got["down"] # <<>>,
         s # "up" => got'["up"] # <<>>
  PROVE  Promised!Send(s)
<1>1. IsSequence(sent[s])
  BY StreamSequences
<1>2. sent'[s] # <<>> /\ sent'[s][Len(sent'[s])] = m
  BY <1>1, Appended
<1>3. sent'[s] = Append(sent[s], sent'[s][Len(sent'[s])])
  BY <1>2
<1>4. IF s = "up" THEN Promised!ClientMaySend ELSE Promised!ServerMaySend
  BY DEF Promised!ClientMaySend, Promised!ServerMaySend
<1> QED
  BY <1>2, <1>3, <1>4, Zenon DEF Promised!Send

\* Nothing else happens than that an item is sent.
LEMMA OneSends ==
  ASSUME IInv, NEW s \in Streams, NEW m, sent' = [sent EXCEPT ![s] = Append(@, m)],
         got' = got, left' = left,
         s = "up" => sent["up"] = <<>> \/ got["down"] # <<>>,
         s # "up" => got["up"] # <<>>
  PROVE  Promised!Next
<1>1. DOMAIN sent = Streams
  BY DEF IInv, Domains
<1>2. sent'[s] = Append(sent[s], m) /\ \A t \in Streams : t # s => sent'[t] = sent[t]
  BY <1>1
<1>3. got'[s] = got[s] /\ left'[s] = left[s] /\ (s # "up" => got'["up"] # <<>>)
  OBVIOUS
<1>4. Promised!Send(s)
  BY <1>2, <1>3, SendsItem
<1>5. \A t \in Streams : t # s => Promised!Rest(t)
  BY <1>2 DEF Promised!Rest
<1> QED
  BY <1>4, <1>5, OneMoves

\* What Partly says is what Delivery says of the last item.
LEMMA PartlyLacks ==
  ASSUME NEW mine, NEW theirs, NEW l \in Nat, Partly(mine, theirs, l),
         "payload" \in DOMAIN theirs => theirs.payload \in Bytes
  PROVE  l \in 0..Len(Promised!Payload(theirs)) /\ mine = Promised!Lacking(theirs, l)
<1>1. CASE "payload" \in DOMAIN theirs
  <2>1. Len(theirs.payload) \in Nat
    BY <1>1, AllOf
  <2>2. /\ l <= Len(theirs.payload)
        /\ mine = [theirs EXCEPT !.payload =
                        SubSeq(theirs.payload, 1, Len(theirs.payload) - l)]
    BY <1>1 DEF Partly
  <2>3. Promised!Payload(theirs) = theirs.payload
    BY <1>1 DEF Promised!Payload
  <2>4. mine = Promised!Lacking(theirs, l)
    BY <1>1, <2>2 DEF Promised!Lacking
  <2> QED
    BY <2>1, <2>2, <2>3, <2>4
<1>2. CASE "payload" \notin DOMAIN theirs
  <2>1. mine = theirs /\ l = 0
    BY <1>2 DEF Partly
  <2>2. Promised!Payload(theirs) = <<>> /\ Len(<<>>) = 0
    BY <1>2 DEF Promised!Payload
  <2>3. Promised!Lacking(theirs, l) = theirs
    BY <1>2 DEF Promised!Lacking
  <2>4. 0 \in 0..0
    OBVIOUS
  <2> QED
    BY <2>1, <2>2, <2>3, <2>4
<1> QED
  BY <1>1, <1>2

\* The last item that a receiver has, after a step.
LEMMA LastItem ==
  ASSUME NEW s \in Spoken, Flow(s)', sent'[s] = sent[s],
         NEW n \in Nat, n = Len(got'[s]), n # 0
  PROVE  /\ n <= Len(sent[s]) /\ Len(sent[s]) \in Nat /\ left'[s] \in Nat
         /\ left'[s] \in 0..Len(Promised!Payload(sent[s][n]))
         /\ got'[s][n] = Promised!Lacking(sent[s][n], left'[s])
<1> DEFINE S == sent[s]
           G == got'[s]
           l == left'[s]
<1>1. Carries(s, S, G, buffer'[s], wire'[s], want'[s], l, fin'[s])
  BY DEF Flow
<1> HIDE DEF S, G, l
<1>2. /\ IsSequence(G) /\ Len(S) \in Nat /\ Len(G) <= Len(S) /\ l \in Nat
      /\ (G = <<>> <=> Len(G) = 0)
      /\ ItemsSent(s, S) /\ ItemsGot(S, G, l)
  <2>1. /\ IsSequence(G) /\ Len(S) \in Nat /\ Len(G) <= Len(S) /\ l \in Nat
        /\ (G = <<>> <=> Len(G) = 0)
    BY <1>1, CarriesTypes
  <2> QED
    BY <1>1, <2>1 DEF Carries
<1>3. n = Len(G) /\ G # <<>>
  BY <1>2 DEF G
<1>4. Partly(G[n], S[n], l)
  BY <1>2, <1>3 DEF ItemsGot
<1>5. n \in 1..Len(S)
  BY <1>2, <1>3
<1>6. IsItem(s, n, S[n]) /\ EncodeItem(s, S[n]).res = "ok"
  BY <1>2, <1>5 DEF ItemsSent
<1>7. "payload" \in DOMAIN S[n] => S[n].payload \in Bytes
  BY <1>6, Loaded
<1>8. l \in 0..Len(Promised!Payload(S[n])) /\ G[n] = Promised!Lacking(S[n], l)
  BY <1>2, <1>4, <1>7, PartlyLacks
<1> QED
  BY <1>2, <1>3, <1>8 DEF S, G, l

\* A receiver has one more item.
LEMMA TakesItem ==
  ASSUME IInv, NEW s \in Spoken, NEW x, got'[s] = Append(got[s], x), sent'[s] = sent[s],
         left[s] = 0, Flow(s)', s = "data" => got["down"] # <<>>
  PROVE  Promised!TakeNext(s)
<1> DEFINE n == Len(got[s])
           next == sent[s][n + 1]
<1>1. IsSequence(got[s]) /\ n \in Nat
  BY FlowTypes
<1>2. Len(got'[s]) = n + 1 /\ got'[s][n + 1] = x
  BY <1>1, Appended
<1>3. n + 1 \in Nat /\ n + 1 # 0
  BY <1>1
<1>4. /\ n + 1 <= Len(sent[s]) /\ Len(sent[s]) \in Nat
      /\ left'[s] \in 0..Len(Promised!Payload(sent[s][n + 1]))
      /\ got'[s][n + 1] = Promised!Lacking(sent[s][n + 1], left'[s])
  <2> HIDE DEF n
  <2>1. n + 1 = Len(got'[s])
    BY <1>2
  <2> QED
    BY <1>3, <2>1, LastItem
<1>5. n < Len(sent[s])
  BY <1>1, <1>4
<1>6. Promised!MayTake(s)
  BY DEF Promised!MayTake, Spoken
<1>7. got'[s] = Append(got[s], Promised!Lacking(next, left'[s])) /\ left'[s] \in 0..Len(Promised!Payload(next))
  BY <1>2, <1>4
<1>8. \E rest \in 0..Len(Promised!Payload(next)) :
            got'[s] = Append(got[s], Promised!Lacking(next, rest)) /\ left'[s] = rest
  <2> HIDE DEF next
  <2> QED
    BY <1>7
<1> QED
  BY <1>5, <1>6, <1>8 DEF Promised!TakeNext

\* Who is running has the first item of the other end.
LEMMA RunningHas ==
  ASSUME IInv
  PROVE  /\ status["client"] = "new" => sent["up"] = <<>>
         /\ status["client"] = "running" => got["down"] # <<>>
         /\ status["server"] = "running" => got["up"] # <<>>
BY DEF IInv, Setups

\* The client connects: its first item.
LEMMA ConnectDelivers ==
  ASSUME IInv, Connect
  PROVE  [Promised!Next]_(Promised!vars)
<1>1. /\ status["client"] = "new" /\ left' = left /\ got' = got
      /\ sent' = sent \/ \E client : sent' = [sent EXCEPT !["up"] = Append(@, client)]
  BY DEF Connect, Put
<1>2. CASE sent' = sent
  BY <1>1, <1>2, NoneMoves
<1>3. ASSUME NEW client, sent' = [sent EXCEPT !["up"] = Append(@, client)]
      PROVE  Promised!Next
  <2>1. sent["up"] = <<>> /\ "up" \in Streams /\ "up" = "up"
    BY <1>1, RunningHas DEF Streams
  <2> QED
    BY <1>1, <1>3, <2>1, OneSends
<1> QED
  BY <1>1, <1>2, <1>3

\* A message is sent, by an end that has the first item of the other.
LEMMA SendMessageDelivers ==
  ASSUME IInv, NEW s \in Control, SendMessage(s)
  PROVE  [Promised!Next]_(Promised!vars)
<1>1. /\ status[Sender[s]] = "running" /\ left' = left /\ got' = got
      /\ sent' = sent \/ sent' = [sent EXCEPT ![s] = Append(@, Head(todo[s]))]
  BY DEF SendMessage, CanSend, Put
<1>2. CASE sent' = sent
  BY <1>1, <1>2, NoneMoves
<1>3. CASE sent' = [sent EXCEPT ![s] = Append(@, Head(todo[s]))]
  <2>1. s \in Streams /\ (s = "up" \/ s = "down")
    BY OnSpoken
  <2>2. s = "up" => sent["up"] = <<>> \/ got["down"] # <<>>
    BY <1>1, RunningHas DEF Sender
  <2>3. s # "up" => got["up"] # <<>>
    BY <1>1, <2>1, RunningHas DEF Sender
  <2> QED
    BY <1>1, <1>3, <2>1, <2>2, <2>3, OneSends
<1> QED
  BY <1>1, <1>2, <1>3

\* So is an item of the data stream.
LEMMA ServeObjectDelivers ==
  ASSUME IInv, NEW kept, ServeObject(kept)
  PROVE  [Promised!Next]_(Promised!vars)
<1>1. /\ status["server"] = "running" /\ left' = left /\ got' = got
      /\ sent' = sent \/ sent' = [sent EXCEPT !["data"] = Append(@, Head(todo["data"]))]
  BY DEF ServeObject, CanServe, Put
<1>2. CASE sent' = sent
  BY <1>1, <1>2, NoneMoves
<1>3. CASE sent' = [sent EXCEPT !["data"] = Append(@, Head(todo["data"]))]
  <2>1. "data" \in Streams /\ "data" # "up" /\ got["up"] # <<>>
    BY <1>1, RunningHas, OnSpoken
  <2>2. "data" = "up" => sent["up"] = <<>> \/ got["down"] # <<>>
    BY <2>1
  <2> QED
    BY <1>1, <1>3, <2>1, <2>2, OneSends
<1> QED
  BY <1>1, <1>2, <1>3

\* So is a datagram.
LEMMA SendDatagramDelivers ==
  ASSUME IInv, SendDatagram
  PROVE  [Promised!Next]_(Promised!vars)
<1>1. /\ status["server"] = "running" /\ left' = left /\ got' = got
      /\ sent' = sent \/ sent' = [sent EXCEPT !["datagrams"] = Append(@, Head(todo["datagrams"]))]
  BY DEF SendDatagram, CanServe
<1>2. CASE sent' = sent
  BY <1>1, <1>2, NoneMoves
<1>3. CASE sent' = [sent EXCEPT !["datagrams"] = Append(@, Head(todo["datagrams"]))]
  <2>1. "datagrams" \in Streams /\ "datagrams" # "up" /\ got["up"] # <<>>
    BY <1>1, RunningHas, OnSpoken
  <2>2. "datagrams" = "up" => sent["up"] = <<>> \/ got["down"] # <<>>
    BY <2>1
  <2> QED
    BY <1>1, <1>3, <2>1, <2>2, OneSends
<1> QED
  BY <1>1, <1>2, <1>3

\* A datagram arrives that was sent.
LEMMA RecvDatagramDelivers ==
  ASSUME IInv, NEW d, RecvDatagram(d)
  PROVE  Promised!Next
<1> DEFINE r == DecodeDatagram(d)
           S == sent["datagrams"]
<1>1. /\ d \in flying /\ status["client"] = "running" /\ sent' = sent /\ left' = left
      /\ r.res = "ok" => got' = [got EXCEPT !["datagrams"] = Append(@, r.value)]
  BY DEF RecvDatagram
<1>2. \E i \in 1..Len(S) : r.res = "ok" /\ r.value = S[i]
  <2>1. Coming(d, S)
    BY <1>1 DEF IInv, Datagrams
  <2>2. PICK i \in 1..Len(S) : IsDatagram(S[i]) /\ EncodeDatagram(S[i]).res = "ok" /\ d = EncodeDatagram(S[i]).bytes
    BY <2>1 DEF Coming
  <2>3. r.res = "ok" /\ r.value = S[i]
    BY <2>2, DatagramAgrees
  <2> QED
    BY <2>3
<1> HIDE DEF r
<1>3. got["down"] # <<>> /\ DOMAIN got = Streams /\ "datagrams" \in Streams
  BY <1>1, RunningHas, OnSpoken DEF IInv, Domains
<1>4. /\ got'["datagrams"] = Append(got["datagrams"], r.value)
      /\ \A t \in Streams : t # "datagrams" => got'[t] = got[t]
  BY <1>1, <1>2, <1>3
<1>5. Promised!TakeAny("datagrams")
  <2>1. \E i \in 1..Len(S) : got'["datagrams"] = Append(got["datagrams"], S[i])
    BY <1>2, <1>4
  <2> QED
    BY <1>1, <1>3, <2>1 DEF Promised!TakeAny, Promised!MayTake
<1>6. \A t \in Streams : t # "datagrams" => Promised!Rest(t)
  BY <1>1, <1>4 DEF Promised!Rest
<1> QED
  BY <1>3, <1>5, <1>6, OneMoves

\* The client reads the data stream: it has the answer of the server.
LEMMA ReadsData ==
  ASSUME IInv, Reads("data")
  PROVE  got["down"] # <<>>
<1>1. Receiver("data") = "client"
  BY DEF Receiver, Peer, Sender
<1>2. status[Receiver("data")] = "running"
  BY OnSpoken DEF Reads
<1> QED
  BY <1>1, <1>2, RunningHas

\* Of an item that is decoded nothing is sent but, perhaps, the answer to it.
LEMMA DecodedDelivers ==
  ASSUME IInv, IInv', NEW s \in Spoken, NEW x, NEW rest, Took(s, x, rest), Reads(s),
         NEW t \in Control, t # s, sent' = sent \/ (s = "up" /\ t = "down" /\ \E m : sent' = [sent EXCEPT ![t] = Append(@, m)]),
         \A u \in Streams : u # s => left'[u] = left[u]
  PROVE  Promised!Next
<1>0. s \in Streams /\ t \in Streams /\ s # "datagrams" /\ "up" \in Spoken
  BY OnSpoken
<1>1. got' = [got EXCEPT ![s] = Append(@, x)] /\ left[s] = 0
  BY DEF Took, Decoded
<1>2. DOMAIN got = Streams /\ DOMAIN sent = Streams
  BY DEF IInv, Domains
<1>3. got'[s] = Append(got[s], x) /\ \A u \in Streams : u # s => got'[u] = got[u]
  BY <1>0, <1>1, <1>2
<1>4. sent'[s] = sent[s] /\ \A u \in Streams : u # t => sent'[u] = sent[u]
  BY <1>0, <1>2
<1>5. Flow(s)'
  BY DEF IInv, Streaming
<1>6. Promised!TakeNext(s)
  <2>1. s = "data" => got["down"] # <<>>
    BY ReadsData
  <2> QED
    BY <1>1, <1>3, <1>4, <1>5, <2>1, TakesItem
<1>7. ASSUME NEW u \in Streams, u # s PROVE Promised!Rest(u) \/ Promised!Send(u)
  <2>1. got'[u] = got[u] /\ left'[u] = left[u]
    BY <1>3, <1>7
  <2>2. CASE sent'[u] = sent[u]
    BY <2>1, <2>2 DEF Promised!Rest
  <2>3. CASE sent'[u] # sent[u]
    <3>1. u = t /\ s = "up" /\ t = "down"
      BY <1>4, <2>3
    <3>2. PICK m : sent' = [sent EXCEPT ![t] = Append(@, m)]
      BY <2>3
    <3>3. sent'[u] = Append(sent[u], m) /\ u # "up"
      BY <1>2, <3>1, <3>2
    <3>4. got'["up"] # <<>>
      <4>1. IsSequence(got["up"])
        BY <1>0, FlowTypes
      <4>2. Append(got["up"], x) # <<>>
        BY <4>1, Appended
      <4> QED
        BY <1>3, <3>1, <4>2
    <3> QED
      BY <2>1, <3>3, <3>4, SendsItem
  <2> QED
    BY <2>2, <2>3
<1> QED
  BY <1>0, <1>6, <1>7, OneMoves

\* What else happens when a receiver decodes an item.
LEMMA DecodedDoes ==
  ASSUME IInv, NEW s \in Spoken, NEW x, NEW rest, Took(s, x, rest)
  PROVE  /\ sent' = sent \/ (s = "up" /\ \E m : sent' = [sent EXCEPT !["down"] = Append(@, m)])
         /\ \A u \in Streams : u # s => left'[u] = left[u]
<1>1. CASE s = "data"
  <2>1. RecvStream(s, x)
    BY <1>1 DEF Took, Decoded
  <2>2. sent' = sent /\ (left' = left \/ left' = [left EXCEPT ![s] = x.payload_length])
    BY <2>1 DEF RecvStream
  <2>3. DOMAIN left = Streams
    BY DEF IInv, Domains
  <2> QED
    BY <2>2, <2>3
<1>2. CASE s \in Control
  <2>0. s \in Control /\ s # "data"
    BY <1>2, OnSpoken
  <2>1. /\ IsItem(s, Len(got[s]) + 1, x) /\ (got[s] = <<>> <=> Len(got[s]) = 0) /\ left' = left
    BY <2>0, ControlGot
  <2>2. CASE x.type \notin {"Client", "Server"}
    <3>1. RecvMessage(Receiver(s), x)
      BY <2>0, <2>2, Zenon DEF Took, Decoded
    <3> QED
      BY <2>1, <3>1 DEF RecvMessage
  <2>3. CASE x.type = "Server"
    <3>1. Connected(x)
      BY <2>0, <2>3, Zenon DEF Took, Decoded
    <3> QED
      BY <2>1, <3>1 DEF Connected
  <2>4. CASE x.type = "Client"
    <3>1. Accept(x)
      BY <2>0, <2>4, Zenon DEF Took, Decoded
    <3>2. sent' = sent \/ \E m : sent' = [sent EXCEPT !["down"] = Append(@, m)]
      BY <3>1 DEF Accept, Put
    <3>3. s = "up"
      <4>1. ~IsMessage(x) /\ ~IsServer(x)
        BY <2>4, Unloaded
      <4> QED
        BY <2>0, <2>1, <4>1, OnSpoken DEF IsItem
    <3> QED
      BY <2>1, <3>2, <3>3
  <2> QED
    BY <2>2, <2>3, <2>4
<1> QED
  BY <1>1, <1>2 DEF Spoken, Control

\* An attempt to decode takes the next item, or nothing.
LEMMA DecodeDelivers ==
  ASSUME IInv, IInv', NEW s \in Spoken, Decode(s)
  PROVE  [Promised!Next]_(Promised!vars)
<1> DEFINE r == DecodeNext(s, got[s], buffer[s])
           rest == SubSeq(buffer[s], r.at + 1, Len(buffer[s]))
           m == sent[s][Len(got[s]) + 1]
<1>1. /\ left[s] = 0 /\ UNCHANGED <<scenario, todo, fin, flying>>
      /\ \/ UNCHANGED <<ends, sent, wire, buffer, left, got>>
         \/ /\ Decoded(s, r.value, rest)
            /\ Len(got[s]) < Len(sent[s]) /\ r.value = Bare(m)
            /\ \A v \in {0, GivenUp} :
                 Carries(s, sent[s], Append(got[s], r.value), rest, wire[s], v, Len(PayloadOf(m)), fin[s])
  BY DecodeParts
<1>2. Reads(s)
  BY DEF Decode, CanDecode
<1> HIDE DEF r
<1>3. CASE UNCHANGED <<ends, sent, wire, buffer, left, got>>
  BY <1>3, NoneMoves
<1>4. CASE /\ Decoded(s, r.value, rest)
           /\ Len(got[s]) < Len(sent[s]) /\ r.value = Bare(m)
           /\ \A v \in {0, GivenUp} :
                 Carries(s, sent[s], Append(got[s], r.value), rest, wire[s], v, Len(PayloadOf(m)), fin[s])
  <2>1. Took(s, r.value, rest)
    BY <1>1, <1>4 DEF Took
  <2> DEFINE x == r.value
             t == IF s = "down" THEN "up" ELSE "down"
  <2> HIDE DEF x, rest
  <2>2. /\ sent' = sent \/ (s = "up" /\ \E i : sent' = [sent EXCEPT !["down"] = Append(@, i)])
        /\ \A u \in Streams : u # s => left'[u] = left[u]
    BY <2>1, DecodedDoes DEF x
  <2>3. t \in Control /\ t # s /\ (s = "up" => t = "down")
    BY DEF Control
  <2> HIDE DEF t
  <2>4. sent' = sent \/ (s = "up" /\ t = "down" /\ \E i : sent' = [sent EXCEPT ![t] = Append(@, i)])
    BY <2>2, <2>3
  <2>5. Promised!Next
    BY <1>2, <2>1, <2>2, <2>3, <2>4, DecodedDelivers DEF x
  <2> QED
    BY <2>5
<1> QED
  BY <1>1, <1>3, <1>4

\* More of the payload of the last object.
LEMMA ReadChunkDelivers ==
  ASSUME IInv, IInv', NEW k \in ReadSizes, ReadChunk("data", k)
  PROVE  Promised!Next
<1> DEFINE G == got["data"]
           B == buffer["data"]
           W == wire["data"]
           l == left["data"]
           n == Len(G)
           source == IF B # <<>> THEN B ELSE W
           S == {l, Len(source)} \cup IF B = <<>> THEN {k} ELSE {}
           size == Min(S)
           t == SubSeq(source, 1, size)
           y == [G[n] EXCEPT !.payload = @ \o t]
<1>1. /\ l > 0 /\ source # <<>> /\ Reads("data") /\ sent' = sent
      /\ got' = [got EXCEPT !["data"][n].payload = @ \o t]
      /\ left' = [left EXCEPT !["data"] = @ - size]
  BY DEF ReadChunk
<1>2. /\ DOMAIN got = Streams /\ DOMAIN left = Streams /\ "data" \in Streams /\ "data" \in Spoken
  BY OnSpoken DEF IInv, Domains
<1>3. /\ IsSequence(G) /\ n \in Nat /\ l \in Nat /\ B \in Bytes /\ W \in Bytes
      /\ ItemsGot(sent["data"], G, l)
  <2>1. /\ IsSequence(G) /\ n \in Nat /\ l \in Nat /\ B \in Bytes /\ W \in Bytes
        /\ Carries("data", sent["data"], G, B, W, want["data"], l, fin["data"])
    BY <1>2, FlowTypes
  <2> QED
    BY <2>1 DEF Carries
<1>4. size \in Nat /\ size > 0 /\ size <= l
  <2>1. k \in Nat /\ k > 0
    BY ReadSizesAssumption DEF ReadSizesAssumption
  <2>2. Len(source) \in Nat /\ Len(source) > 0
    <3>1. source \in Bytes
      BY <1>3
    <3> HIDE DEF source
    <3>2. Len(source) \in Nat /\ Len(source) # 0
      BY <1>1, <3>1, AllOf, EmptySeq DEF Bytes
    <3> QED
      BY <3>2
  <2>3. S = {l, Len(source)} \/ S = {l, Len(source), k}
    OBVIOUS
  <2> HIDE DEF S, source, l
  <2>4. size \in Nat /\ size \in S /\ size <= l
    BY <1>3, <2>1, <2>2, <2>3, Smallest
  <2>5. l > 0
    BY <1>1
  <2> HIDE DEF size
  <2> QED
    BY <1>3, <2>1, <2>2, <2>3, <2>4, <2>5
<1> HIDE DEF size, t
<1>5. n # 0 /\ n \in DOMAIN G /\ DOMAIN G = 1..n
  <2>1. G # <<>>
    BY <1>1, <1>3 DEF ItemsGot
  <2>2. DOMAIN G = 1..n /\ (G = <<>> <=> n = 0)
    BY <1>3, SequenceOf
  <2> HIDE DEF G, n
  <2> QED
    BY <1>3, <2>1, <2>2
<1>6. /\ got'["data"] = [G EXCEPT ![n] = y] /\ left'["data"] = l - size
      /\ \A u \in Streams : u # "data" => got'[u] = got[u] /\ left'[u] = left[u]
  BY <1>1, <1>2
<1> HIDE DEF y
<1>7. got'["data"][n] = y /\ Len(got'["data"]) = n
  <2>1. DOMAIN got'["data"] = 1..n /\ got'["data"][n] = y
    BY <1>5, <1>6
  <2>2. IsSequence(got'["data"])
    <3>1. Flow("data")'
      BY <1>2 DEF IInv, Streaming
    <3> QED
      BY <1>2, <3>1, CarriesTypes DEF Flow
  <2>3. Len(got'["data"]) \in Nat /\ DOMAIN got'["data"] = 1..Len(got'["data"])
    BY <2>2, SequenceOf
  <2>4. \A i, j \in Nat : 1..i = 1..j => i = j
    OBVIOUS
  <2> HIDE DEF n
  <2> QED
    BY <1>3, <2>1, <2>3, <2>4
<1>8. left'["data"] \in Nat /\ y = Promised!Lacking(sent["data"][n], left'["data"])
  <2>1. Flow("data")' /\ sent'["data"] = sent["data"]
    BY <1>1, <1>2 DEF IInv, Streaming
  <2>2. n \in Nat /\ n = Len(got'["data"]) /\ n # 0
    BY <1>3, <1>5, <1>7
  <2> HIDE DEF n
  <2>3. left'["data"] \in Nat /\ got'["data"][n] = Promised!Lacking(sent["data"][n], left'["data"])
    BY <1>2, <2>1, <2>2, LastItem
  <2> QED
    BY <1>7, <2>3
<1>9. left'["data"] \in 0..left["data"] /\ left'["data"] < left["data"]
  <2> DEFINE v == left'["data"]
  <2>1. v \in Nat /\ v = l - size
    BY <1>6, <1>8
  <2> HIDE DEF l, v
  <2>2. v \in 0..l /\ v < l
    BY <1>3, <1>4, <2>1
  <2> QED
    BY <2>2 DEF l, v
<1>10. Promised!TakeMore("data")
  <2>1. Promised!MayTake("data")
    BY <1>1, ReadsData DEF Promised!MayTake
  <2>2. got'["data"] = [got["data"] EXCEPT ![Len(got["data"])] =
                            Promised!Lacking(sent["data"][Len(got["data"])], left'["data"])]
    BY <1>6, <1>8
  <2>3. sent'["data"] = sent["data"]
    BY <1>1
  <2> QED
    BY <1>9, <2>1, <2>2, <2>3 DEF Promised!TakeMore
<1>11. \A u \in Streams : u # "data" => Promised!Rest(u)
  BY <1>1, <1>6 DEF Promised!Rest
<1> QED
  BY <1>2, <1>10, <1>11, OneMoves

\* The steps that are of no interest to those who use a session.
LEMMA QuietSteps ==
  ASSUME \/ ServeDone \/ EndOfStream \/ UNCHANGED vars
         \/ \E s \in Spoken, n \in ReadSizes : ReadBuf(s, n)
         \/ \E d \in flying : LoseDatagram(d)
         \/ \E e \in Sides : Drop(e) \/ PeerGone(e)
  PROVE  [Promised!Next]_(Promised!vars)
<1>1. sent' = sent /\ got' = got /\ left' = left
  <2>1. CASE ServeDone \/ EndOfStream \/ UNCHANGED vars
    BY <2>1 DEF ServeDone, EndOfStream, vars, streams
  <2>2. CASE \E s \in Spoken, n \in ReadSizes : ReadBuf(s, n)
    BY <2>2 DEF ReadBuf
  <2>3. CASE \E d \in flying : LoseDatagram(d)
    BY <2>3 DEF LoseDatagram, streams
  <2>4. CASE \E e \in Sides : Drop(e) \/ PeerGone(e)
    BY <2>4 DEF Drop, PeerGone, streams
  <2> QED
    BY <2>1, <2>2, <2>3, <2>4
<1> QED
  BY <1>1, NoneMoves

\* Every step of a session is one of the delivery, or none.
LEMMA NextDelivers ==
  ASSUME IInv, IInv', [Next]_vars
  PROVE  [Promised!Next]_(Promised!vars)
<1>0. \A s \in Control \cup {"data"} : s \in Spoken
  BY DEF Control, Spoken
<1>1. CASE Connect
  BY <1>1, ConnectDelivers
<1>2. ASSUME NEW s \in Control, SendMessage(s) PROVE [Promised!Next]_(Promised!vars)
  BY <1>2, SendMessageDelivers
<1>3. CASE ServeWhole \/ ServeCut
  <2>1. \E kept : ServeObject(kept)
    BY <1>3 DEF ServeWhole, ServeCut
  <2> QED
    BY <2>1, ServeObjectDelivers
<1>4. CASE SendDatagram
  BY <1>4, SendDatagramDelivers
<1>5. ASSUME NEW s \in Control \cup {"data"}, Decode(s) PROVE [Promised!Next]_(Promised!vars)
  BY <1>0, <1>5, DecodeDelivers
<1>6. ASSUME NEW n \in ReadSizes, ReadChunk("data", n) PROVE [Promised!Next]_(Promised!vars)
  BY <1>6, ReadChunkDelivers
<1>7. ASSUME NEW d \in flying, RecvDatagram(d) PROVE [Promised!Next]_(Promised!vars)
  BY <1>7, RecvDatagramDelivers
<1>8. CASE \/ ServeDone \/ EndOfStream \/ UNCHANGED vars
           \/ \E s \in Control \cup {"data"}, n \in ReadSizes : ReadBuf(s, n)
           \/ \E d \in flying : LoseDatagram(d)
           \/ \E e \in Sides : Drop(e) \/ PeerGone(e)
  BY <1>0, <1>8, QuietSteps
<1> QED
  BY <1>1, <1>2, <1>3, <1>4, <1>5, <1>6, <1>7, <1>8 DEF Next

\* To those who use it, a session (Session::run, reader.rs, writer.rs) is the delivery of
\* items that Delivery.tla specifies: each of its steps is one of the delivery, or nothing.
THEOREM SessionImplementsDelivery == Spec => IsDelivery
<1>1. Init => Promised!Init
  BY DEF Init, Promised!Init
<1>2. IInv /\ IInv' /\ [Next]_vars => [Promised!Next]_(Promised!vars)
  BY NextDelivers
<1> QED
  BY <1>1, <1>2, SpecIInv, PTL DEF Spec, IsDelivery, Promised!Spec
=============================================================================
