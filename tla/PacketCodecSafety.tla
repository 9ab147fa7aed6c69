----------------------- MODULE PacketCodecSafety ----------------------
(* Proof that what PacketSerializer.cpp builds is what PacketDeserializer.cpp reads, from the same *)
(* places of a stream of any length, for all reports whose packets the server takes.               *)
(*                                                                                                *)
(* As long as no thread has sent between the sends of the other, what is left of the stream is     *)
(* whole packets and the beginning of one.  The packets are the parts of the reports filed, in     *)
(* order, from the one that the server has come to up to the one that the client has come to, with *)
(* heartbeats between reports.  Nothing need be known of how a checksum is computed: a header's is *)
(* compared with that of the very bytes from which it was made, and a description's is that of the *)
(* whole text, of which the server has what is before its first 0.                                 *)
EXTENDS PacketCodec, SequenceTheorems, WellFoundedInduction, TLAPS

-----------------------------------------------------------------------
(* Integers and texts in a string of bytes. *)

LEMMA ByteRange == \A n : n \in Byte <=> n \in Int /\ 0 <= n /\ n <= 255
  BY DEF Byte

LEMMA FitsNat == \A n : Fits(n) => n \in Nat
  BY DEF Fits

\* An int is written as four bytes ...
LEMMA IntLength == ASSUME NEW n \in Nat PROVE AppendInt(n) \in Seq(Byte) /\ Len(AppendInt(n)) = 4
  <1> DEFINE a == n % 256
             b == (n \div 256) % 256
             c == (n \div 65536) % 256
             d == (n \div 16777216) % 256
  <1>1. a \in Byte /\ b \in Byte /\ c \in Byte /\ d \in Byte
    BY ByteRange
  <1>2. AppendInt(n) = <<a, b, c, d>>
    BY DEF AppendInt
  <1> HIDE DEF a, b, c, d
  <1> QED
    BY <1>1, <1>2

\* ... from which it is read.
LEMMA IntBytes == ASSUME NEW n, Fits(n) PROVE IntAt(AppendInt(n), 1) = n
  <1> DEFINE a == n % 256
             b == (n \div 256) % 256
             c == (n \div 65536) % 256
             d == (n \div 16777216) % 256
  <1>1. n \in Int /\ 0 <= n /\ n <= 2147483647
    BY DEF Fits
  <1>2. a \in Int /\ b \in Int /\ c \in Int /\ d \in Int /\ d < 128
    BY <1>1
  <1>3. AppendInt(n) = <<a, b, c, d>>
    BY DEF AppendInt
  <1>4. n = a + 256 * b + 65536 * c + 16777216 * d
    BY <1>1
  <1> HIDE DEF a, b, c, d
  <1>5. <<a, b, c, d>>[1] = a /\ <<a, b, c, d>>[2] = b /\ <<a, b, c, d>>[3] = c /\ <<a, b, c, d>>[4] = d
    OBVIOUS
  <1>6. 1 + 1 = 2 /\ 1 + 2 = 3 /\ 1 + 3 = 4
    OBVIOUS
  <1>7. IntAt(AppendInt(n), 1) = a + 256 * b + 65536 * c + 16777216 * d
    BY <1>2, <1>3, <1>5, <1>6, SMT DEF IntAt
  <1> QED
    BY <1>2, <1>4, <1>7, SMT

\* String d has the bytes s at a place of its own.
Holds(d, at, s) ==
    /\ d \in Seq(Byte) /\ s \in Seq(Byte) /\ at \in Nat \ {0} /\ at + Len(s) <= Len(d) + 1
    /\ \A i \in 1 .. Len(s) : d[at + i - 1] = s[i]

LEMMA Joined ==
    \A s, t \in Seq(Byte) : s \o t \in Seq(Byte) /\ Len(s \o t) = Len(s) + Len(t) /\ Len(s) \in Nat
  BY SMT

LEMMA Regrouped == \A s, t, u \in Seq(Byte) : (s \o t) \o u = s \o (t \o u)
  BY SMT

LEMMA HoldsSelf == \A s \in Seq(Byte) : Holds(s, 1, s)
  BY SMT DEF Holds

\* What is appended stands at the end ...
LEMMA HoldsLast == \A d, s \in Seq(Byte) : Holds(d \o s, Len(d) + 1, s)
  BY SMT DEF Holds

\* ... and leaves all that stands before it.
LEMMA HoldsStill == \A d, s, e, at : Holds(d, at, s) /\ e \in Seq(Byte) => Holds(d \o e, at, s)
  BY SMT DEF Holds

LEMMA HoldsParts ==
    ASSUME NEW d, NEW at, NEW s \in Seq(Byte), NEW t \in Seq(Byte), Holds(d, at, s \o t)
    PROVE  Holds(d, at, s) /\ Holds(d, at + Len(s), t)
  <1>1. /\ d \in Seq(Byte) /\ at \in Nat \ {0} /\ at + Len(s \o t) <= Len(d) + 1
        /\ \A i \in 1 .. Len(s \o t) : d[at + i - 1] = (s \o t)[i]
    BY DEF Holds
  <1>2. /\ Len(s \o t) = Len(s) + Len(t) /\ Len(s) \in Nat /\ Len(t) \in Nat /\ Len(d) \in Nat
        /\ \A i \in 1 .. Len(s) : (s \o t)[i] = s[i]
        /\ \A i \in 1 .. Len(t) : (s \o t)[Len(s) + i] = t[i]
    BY <1>1, SMT
  <1> DEFINE u == s \o t
  <1> HIDE DEF u
  <1>3. \A i \in 1 .. Len(u) : d[at + i - 1] = u[i]
    BY <1>1 DEF u
  <1>4. /\ \A i \in 1 .. Len(s) : u[i] = s[i]
        /\ \A i \in 1 .. Len(t) : u[Len(s) + i] = t[i]
    BY <1>2 DEF u
  <1>5. Len(u) = Len(s) + Len(t) /\ at + Len(s) + Len(t) <= Len(d) + 1
    BY <1>1, <1>2 DEF u
  <1>6. \A i \in 1 .. Len(s) : d[at + i - 1] = s[i]
    BY <1>2, <1>3, <1>4, <1>5
  <1>7. ASSUME NEW i \in 1 .. Len(t) PROVE d[at + Len(s) + i - 1] = t[i]
    <2>1. Len(s) + i \in 1 .. Len(u) /\ at + (Len(s) + i) - 1 = at + Len(s) + i - 1
      BY <1>1, <1>2, <1>5
    <2> QED
      BY <1>3, <1>4, <2>1
  <1> QED
    BY <1>1, <1>2, <1>5, <1>6, <1>7 DEF Holds

\* The same bytes are the same integer.
LEMMA SameInt ==
    ASSUME NEW d, NEW at, NEW s, Holds(d, at, s), Len(s) >= 4
    PROVE  HasInt(d, at) /\ IntAt(d, at) = IntAt(s, 1)
  <1>1. /\ at \in Nat /\ Len(s) \in Nat /\ Len(d) \in Nat /\ at + Len(s) <= Len(d) + 1
        /\ \A i \in 1 .. Len(s) : d[at + i - 1] = s[i]
    BY DEF Holds
  <1>2. d[at + 1 - 1] = s[1] /\ d[at + 2 - 1] = s[2] /\ d[at + 3 - 1] = s[3] /\ d[at + 4 - 1] = s[4]
    BY <1>1
  <1>3. d[at] = s[1] /\ d[at + 1] = s[1 + 1] /\ d[at + 2] = s[1 + 2] /\ d[at + 3] = s[1 + 3]
    BY <1>1, <1>2
  <1> QED
    BY <1>1, <1>3 DEF HasInt, IntAt

\* An integer is read where it was written ...
LEMMA IntHeld ==
    ASSUME NEW d, NEW at, NEW n, Fits(n), Holds(d, at, AppendInt(n))
    PROVE  HasInt(d, at) /\ IntAt(d, at) = n
  <1>1. Len(AppendInt(n)) = 4 /\ IntAt(AppendInt(n), 1) = n
    BY FitsNat, IntBytes, IntLength, Zenon
  <1>2. Len(AppendInt(n)) >= 4
    BY <1>1
  <1> QED
    BY <1>1, <1>2, SameInt, Zenon

\* ... and so is a text, after its length.
LEMMA BytesHeld ==
    ASSUME NEW d, NEW at, NEW s, Holds(d, at, s)
    PROVE  SubSeq(d, at, at + Len(s) - 1) = s
  BY SMT DEF Holds

LEMMA TextHeld ==
    ASSUME NEW d, NEW at, NEW s \in Seq(Byte), Fits(Len(s)), Holds(d, at, AppendString(s))
    PROVE  /\ HasInt(d, at) /\ IntAt(d, at) = Len(s)
           /\ AfterString(d, at) = at + 4 + Len(s)
           /\ SubSeq(d, at + 4, at + 3 + Len(s)) = s
  <1>1. AppendInt(Len(s)) \in Seq(Byte) /\ Len(AppendInt(Len(s))) = 4
    BY FitsNat, IntLength
  <1>2. Holds(d, at, AppendInt(Len(s))) /\ Holds(d, at + 4, s)
    BY <1>1, HoldsParts DEF AppendString
  <1>3. HasInt(d, at) /\ IntAt(d, at) = Len(s)
    BY <1>2, IntHeld
  <1>4. /\ at \in Nat /\ Len(d) \in Nat /\ Len(s) \in Nat /\ at + 4 + Len(s) <= Len(d) + 1
    BY <1>2 DEF Holds
  <1>5. AfterString(d, at) = at + 4 + Len(s)
    BY <1>3, <1>4 DEF AfterString
  <1>6. SubSeq(d, at + 4, at + 4 + Len(s) - 1) = s
    BY <1>2, BytesHeld
  <1>7. at + 4 + Len(s) - 1 = at + 3 + Len(s)
    BY <1>4
  <1> QED
    BY <1>3, <1>5, <1>6, <1>7

LEMMA TextLength ==
    ASSUME NEW s \in Seq(Byte)
    PROVE  AppendString(s) \in Seq(Byte) /\ Len(AppendString(s)) = 4 + Len(s) /\ Len(s) \in Nat
  <1>1. Len(s) \in Nat
    OBVIOUS
  <1>2. AppendInt(Len(s)) \in Seq(Byte) /\ Len(AppendInt(Len(s))) = 4
    BY <1>1, IntLength
  <1>3. /\ AppendString(s) \in Seq(Byte)
        /\ Len(AppendString(s)) = Len(AppendInt(Len(s))) + Len(s)
    BY <1>2, Joined, Zenon DEF AppendString
  <1> QED
    BY <1>1, <1>2, <1>3

-----------------------------------------------------------------------
(* A packet is read as it was built. *)

LEMMA ClockBytes == Clock \in Seq(Byte) /\ Len(Clock) = 8
  <1>1. \A n \in Nat : \A f \in [1 .. n -> Byte] : f \in Seq(Byte) /\ Len(f) = n
    BY SMT
  <1>2. Clock \in [1 .. 8 -> Byte] /\ 8 \in Nat
    BY ReportsAssumption, Zenon DEF ReportsAssumption
  <1> QED
    BY <1>1, <1>2, Zenon

LEMMA ReportFields ==
    ASSUME NEW r \in Reports
    PROVE  /\ r.hazard \in Nat /\ Fits(r.hazard) /\ r.severity \in Nat /\ Fits(r.severity)
           /\ r.zone \in Seq(Byte) /\ r.officer \in Seq(Byte) /\ r.text \in Seq(Byte)
  <1>1. /\ r.hazard \in 0 .. 4 /\ r.severity \in 0 .. 5
        /\ r.zone \in Seq(Byte) /\ r.officer \in Seq(Byte) /\ r.text \in Seq(Byte)
    BY ReportsAssumption DEF ReportsAssumption
  <1> QED
    BY <1>1 DEF Fits

LEMMA LeastIs == ASSUME NEW S \in SUBSET Nat, S # {} PROVE Min(S) \in S /\ \A i \in S : Min(S) <= i
  <1> DEFINE R == OpToRel(<, Nat)
             Least(k) == \A i \in S : k =< i
  <1>1. \A i, k \in Nat : <<i, k>> \in R <=> i < k
    BY SMT DEF OpToRel
  <1>2. IsWellFoundedOn(R, Nat)
    BY NatLessThanWellFounded
  <1> HIDE DEF R
  <1>3. PICK k \in S : \A i \in S : <<i, k>> \notin R
    BY <1>2, WFMin
  <1>4. \A i \in S : k <= i
    <2>1. ASSUME NEW i \in S PROVE k <= i
      <3>1. <<i, k>> \notin R /\ i \in Nat /\ k \in Nat
        BY <1>3
      <3>2. ~ (i < k)
        BY <3>1, <1>1
      <3> QED
        BY <3>1, <3>2
    <2> QED
      BY <2>1
  <1>5. \E m \in S : Least(m)
    BY <1>4
  <1>6. Min(S) = CHOOSE m \in S : Least(m)
    BY Zenon DEF Min
  <1> HIDE DEF Least
  <1>7. Min(S) \in S /\ Least(Min(S))
    BY <1>5, <1>6, Zenon
  <1> QED
    BY <1>7 DEF Least

\* What is sent of a text is text, and holds no 0 at which reading would end before it.
LEMMA SentText ==
    ASSUME NEW s \in Seq(Byte)
    PROVE  CString(s) \in Seq(Byte) /\ CString(CString(s)) = CString(s)
  <1> DEFINE Nuls(t) == {i \in 1 .. Len(t) : t[i] = 0}
  <1>1. \A t : SelectInSeq(t, LAMBDA b : b = 0) = IF Nuls(t) # {} THEN Min(Nuls(t)) ELSE 0
    BY DEF SelectInSeq
  <1>2. \A t : Nuls(t) = {} => CString(t) = t
    BY <1>1 DEF CString
  <1>3. CASE Nuls(s) = {}
    BY <1>2, <1>3
  <1>4. CASE Nuls(s) # {}
    <2> DEFINE nul == Min(Nuls(s))
               t == SubSeq(s, 1, nul - 1)
    <2>1. nul \in Nuls(s) /\ \A i \in Nuls(s) : nul <= i
      <3>1. Nuls(s) \in SUBSET Nat
        OBVIOUS
      <3> QED
        BY <3>1, <1>4, LeastIs, Zenon
    <2> HIDE DEF nul
    <2>2. nul \in 1 .. Len(s)
      BY <2>1
    <2>3. SelectInSeq(s, LAMBDA b : b = 0) = nul
      BY <1>1, <1>4, Zenon DEF nul
    <2>4. nul # 0
      BY <2>2
    <2>5. CString(s) = t
      BY <2>3, <2>4, Zenon DEF CString
    <2>6. t \in Seq(Byte) /\ Len(t) = nul - 1 /\ \A i \in 1 .. nul - 1 : t[i] = s[i]
      BY <2>2
    <2>7. \A i \in 1 .. nul - 1 : i \notin Nuls(s)
      BY <2>1, <2>2
    <2>8. \A i \in 1 .. nul - 1 : s[i] # 0
      BY <2>2, <2>7
    <2> HIDE DEF t
    <2>9. Nuls(t) = {}
      BY <2>6, <2>8
    <2> QED
      BY <1>2, <2>5, <2>6, <2>9, Zenon
  <1> QED
    BY <1>3, <1>4

\* What the server holds of a report once it has read its header.
Headed(r) == [hazard |-> r.hazard, zone |-> r.zone, severity |-> r.severity, officer |-> r.officer,
              verified |-> TRUE]

\* A header is read field by field, and its checksum is that of the bytes before it.
LEMMA HeaderRead ==
    ASSUME NEW r \in Reports, NEW d, d = SerializeHeader(r)
    PROVE  /\ d \in Seq(Byte) /\ Len(d) \in Nat /\ Len(d) >= 36 /\ Len(d) <= MaxPacket
           /\ HasInt(d, 1) /\ IntAt(d, 1) = TypeReport
           /\ HeaderReadable(d) /\ DeserializeHeader(d) = Headed(r)
  <1> DEFINE sum == Checksum(HeaderFields(r))
             t == AppendInt(TypeReport)
             h == AppendInt(r.hazard)
             z == AppendString(r.zone)
             s == AppendInt(r.severity)
             o == AppendString(r.officer)
             l == AppendInt(Len(r.text))
             k == AppendInt(sum)
             d1 == t \o h
             d2 == d1 \o z
             d3 == d2 \o s
             d4 == d3 \o o
             d5 == d4 \o Clock
             d6 == d5 \o l
             zl == Len(r.zone)
             ol == Len(r.officer)
             dl == Len(d)
  <1>1. /\ Fits(r.hazard) /\ Fits(r.severity) /\ Fits(sum) /\ Fits(TypeReport)
        /\ r.zone \in Seq(Byte) /\ r.officer \in Seq(Byte) /\ r.text \in Seq(Byte)
        /\ Len(SerializeHeader(r)) <= MaxPacket
    BY ReportFields, SizesAssumption DEF SizesAssumption, Fits, TypeReport
  <1>2. zl \in Nat /\ ol \in Nat /\ Len(r.text) \in Nat
    BY <1>1
  <1>3. /\ t \in Seq(Byte) /\ h \in Seq(Byte) /\ s \in Seq(Byte) /\ l \in Seq(Byte) /\ k \in Seq(Byte)
        /\ Len(t) = 4 /\ Len(h) = 4 /\ Len(s) = 4 /\ Len(l) = 4 /\ Len(k) = 4
    BY <1>1, <1>2, FitsNat, IntLength
  <1>4. z \in Seq(Byte) /\ Len(z) = 4 + zl /\ o \in Seq(Byte) /\ Len(o) = 4 + ol
    BY <1>1, TextLength
  <1>5. d6 = HeaderFields(r) /\ d = d6 \o k
    BY Zenon DEF HeaderFields, SerializeHeader
  <1>6. Clock \in Seq(Byte) /\ Len(Clock) = 8
    BY ClockBytes
  <1> HIDE DEF t, h, z, s, o, l, k
  <1>7. /\ d1 \in Seq(Byte) /\ d2 \in Seq(Byte) /\ d3 \in Seq(Byte) /\ d4 \in Seq(Byte)
        /\ d5 \in Seq(Byte) /\ d6 \in Seq(Byte) /\ d \in Seq(Byte)
        /\ Len(d1) = Len(t) + Len(h) /\ Len(d2) = Len(d1) + Len(z) /\ Len(d3) = Len(d2) + Len(s)
        /\ Len(d4) = Len(d3) + Len(o) /\ Len(d5) = Len(d4) + Len(Clock)
        /\ Len(d6) = Len(d5) + Len(l) /\ Len(d) = Len(d6) + Len(k)
    <2>1. d1 \in Seq(Byte) /\ Len(d1) = Len(t) + Len(h)
      BY <1>3, Joined, Zenon
    <2>2. d2 \in Seq(Byte) /\ Len(d2) = Len(d1) + Len(z)
      BY <1>4, <2>1, Joined, Zenon
    <2>3. d3 \in Seq(Byte) /\ Len(d3) = Len(d2) + Len(s)
      BY <1>3, <2>2, Joined, Zenon
    <2>4. d4 \in Seq(Byte) /\ Len(d4) = Len(d3) + Len(o)
      BY <1>4, <2>3, Joined, Zenon
    <2>5. d5 \in Seq(Byte) /\ Len(d5) = Len(d4) + Len(Clock)
      BY <1>6, <2>4, Joined, Zenon
    <2>6. d6 \in Seq(Byte) /\ Len(d6) = Len(d5) + Len(l)
      BY <1>3, <2>5, Joined, Zenon
    <2>7. d \in Seq(Byte) /\ Len(d) = Len(d6) + Len(k)
      BY <1>3, <1>5, <2>6, Joined, Zenon
    <2> QED
      BY <2>1, <2>2, <2>3, <2>4, <2>5, <2>6, <2>7
  <1>8. /\ Holds(d, 1, t) /\ Holds(d, Len(t) + 1, h) /\ Holds(d, Len(d1) + 1, z)
        /\ Holds(d, Len(d2) + 1, s) /\ Holds(d, Len(d3) + 1, o) /\ Holds(d, Len(d6) + 1, k)
        /\ Holds(d, 1, d6)
    <2>1. Holds(d1, 1, t) /\ Holds(d1, Len(t) + 1, h)
      BY <1>3, HoldsSelf, HoldsStill, HoldsLast, Zenon
    <2>2. Holds(d2, 1, t) /\ Holds(d2, Len(t) + 1, h) /\ Holds(d2, Len(d1) + 1, z)
      BY <1>4, <1>7, <2>1, HoldsStill, HoldsLast, Zenon
    <2>3. Holds(d3, 1, t) /\ Holds(d3, Len(t) + 1, h) /\ Holds(d3, Len(d1) + 1, z) /\ Holds(d3, Len(d2) + 1, s)
      BY <1>3, <1>7, <2>2, HoldsStill, HoldsLast, Zenon
    <2>4. /\ Holds(d4, 1, t) /\ Holds(d4, Len(t) + 1, h) /\ Holds(d4, Len(d1) + 1, z)
          /\ Holds(d4, Len(d2) + 1, s) /\ Holds(d4, Len(d3) + 1, o)
      BY <1>4, <1>7, <2>3, HoldsStill, HoldsLast, Zenon
    <2>5. /\ Holds(d5, 1, t) /\ Holds(d5, Len(t) + 1, h) /\ Holds(d5, Len(d1) + 1, z)
          /\ Holds(d5, Len(d2) + 1, s) /\ Holds(d5, Len(d3) + 1, o)
      BY <1>6, <2>4, HoldsStill, Zenon
    <2>6. /\ Holds(d6, 1, t) /\ Holds(d6, Len(t) + 1, h) /\ Holds(d6, Len(d1) + 1, z)
          /\ Holds(d6, Len(d2) + 1, s) /\ Holds(d6, Len(d3) + 1, o) /\ Holds(d6, 1, d6)
      BY <1>3, <1>7, <2>5, HoldsSelf, HoldsStill, Zenon
    <2> HIDE DEF d6
    <2> QED
      BY <1>3, <1>5, <1>7, <2>6, HoldsStill, HoldsLast, Zenon
  <1>9. /\ Len(t) + 1 = 5 /\ Len(d1) + 1 = 9 /\ Len(d2) + 1 = 13 + zl /\ Len(d3) + 1 = 17 + zl
        /\ Len(d6) = 32 + zl + ol /\ Len(d6) + 1 = 33 + zl + ol /\ Len(d) = 36 + zl + ol
    <2> DEFINE tl == Len(t)
               l1 == Len(d1)
               cl == Len(Clock)
    <2>1. tl = 4 /\ Len(h) = 4 /\ Len(s) = 4 /\ Len(l) = 4 /\ Len(k) = 4 /\ Len(z) = 4 + zl /\ Len(o) = 4 + ol /\ cl = 8
      BY <1>3, <1>4, <1>6, Zenon
    <2>2. /\ l1 = tl + Len(h) /\ Len(d2) = l1 + Len(z) /\ Len(d3) = Len(d2) + Len(s)
          /\ Len(d4) = Len(d3) + Len(o) /\ Len(d5) = Len(d4) + cl
          /\ Len(d6) = Len(d5) + Len(l) /\ Len(d) = Len(d6) + Len(k)
      BY <1>7, Zenon
    <2>3. zl \in Nat /\ ol \in Nat
      BY <1>2, Zenon
    <2> HIDE DEF d1, d2, d3, d4, d5, d6, zl, ol, tl, l1, cl
    <2>4. tl + 1 = 5 /\ l1 + 1 = 9
      BY <2>1, <2>2
    <2>5. /\ Len(d2) + 1 = 13 + zl /\ Len(d3) + 1 = 17 + zl
          /\ Len(d6) = 32 + zl + ol /\ Len(d6) + 1 = 33 + zl + ol /\ Len(d) = 36 + zl + ol
      BY <2>1, <2>2, <2>3
    <2> QED
      BY <2>4, <2>5, Zenon DEF tl, l1
  <1> HIDE DEF d1, d2, d3, d4, d5, d6, zl, ol, dl
  <1>10. Fits(zl) /\ Fits(ol) /\ dl \in Nat /\ dl >= 36 /\ dl <= MaxPacket
    <2>1. dl = 36 + zl + ol /\ dl <= MaxPacket
      BY <1>1, <1>9, Zenon DEF dl
    <2> QED
      BY <1>2, <2>1, SMT DEF Fits, MaxPacket
  <1>a. Holds(d, 1, t) /\ Holds(d, 5, h) /\ Holds(d, 9, z)
    BY <1>8, <1>9, Zenon
  <1>b. Holds(d, 13 + zl, s) /\ Holds(d, 17 + zl, o) /\ Holds(d, 33 + zl + ol, k)
    BY <1>8, <1>9, Zenon
  <1>11. HasInt(d, 1) /\ IntAt(d, 1) = TypeReport /\ IntAt(d, 5) = r.hazard
    <2>1. Holds(d, 1, t) /\ Fits(TypeReport)
      BY <1>1, <1>a
    <2>2. Holds(d, 5, h) /\ Fits(r.hazard)
      BY <1>1, <1>a
    <2>3. HasInt(d, 1) /\ IntAt(d, 1) = TypeReport
      BY <2>1, IntHeld, Zenon DEF t
    <2>4. IntAt(d, 5) = r.hazard
      BY <2>2, IntHeld, Zenon DEF h
    <2> QED
      BY <2>3, <2>4
  <1>12. AfterString(d, 9) = 13 + zl /\ SubSeq(d, 13, 12 + zl) = r.zone
    <2>1. AfterString(d, 9) = 9 + 4 + zl /\ SubSeq(d, 9 + 4, 9 + 3 + zl) = r.zone
      BY <1>1, <1>10, <1>a, TextHeld, Zenon DEF z, zl
    <2>2. 9 + 4 = 13 /\ 9 + 3 = 12
      OBVIOUS
    <2> QED
      BY <2>1, <2>2, Zenon
  <1>13. IntAt(d, 13 + zl) = r.severity
    <2>1. Holds(d, 13 + zl, s) /\ Fits(r.severity)
      BY <1>1, <1>b
    <2> QED
      BY <2>1, IntHeld, Zenon DEF s
  <1>14. /\ AfterString(d, 17 + zl) = 21 + zl + ol
         /\ SubSeq(d, 21 + zl, 20 + zl + ol) = r.officer
    <2>1. /\ AfterString(d, 17 + zl) = 17 + zl + 4 + ol
          /\ SubSeq(d, 17 + zl + 4, 17 + zl + 3 + ol) = r.officer
      BY <1>1, <1>10, <1>b, TextHeld, Zenon DEF o, ol
    <2>2. 17 + zl + 4 = 21 + zl /\ 17 + zl + 3 + ol = 20 + zl + ol /\ 17 + zl + 4 + ol = 21 + zl + ol
      BY <1>2
    <2> QED
      BY <2>1, <2>2, Zenon
  <1>15. HasInt(d, 33 + zl + ol) /\ IntAt(d, 33 + zl + ol) = sum
    <2>1. Holds(d, 33 + zl + ol, k) /\ Fits(sum)
      BY <1>1, <1>b
    <2> HIDE DEF sum
    <2> QED
      BY <2>1, IntHeld, Zenon DEF k
  <1>16. Checksum(SubSeq(d, 1, Len(d) - 4)) = sum
    <2>1. SubSeq(d, 1, 1 + (32 + zl + ol) - 1) = d6
      BY <1>8, <1>9, BytesHeld, Zenon
    <2>2. 1 + (32 + zl + ol) - 1 = (36 + zl + ol) - 4
      BY <1>2
    <2> QED
      BY <1>5, <1>9, <2>1, <2>2, Zenon
  <1>17. Layout(d) = [severity |-> 13 + zl, officer |-> 17 + zl, clock |-> 21 + zl + ol, sum |-> 33 + zl + ol]
    <2>1. 13 + zl + 4 = 17 + zl /\ 21 + zl + ol + 12 = 33 + zl + ol
      BY <1>2
    <2> QED
      BY <1>12, <1>14, <2>1, Zenon DEF Layout
  <1>18. HeaderReadable(d)
    BY <1>15, <1>17 DEF HeaderReadable
  <1>19. DeserializeHeader(d) = Headed(r)
    <2>1. /\ Layout(d).severity = 13 + zl /\ Layout(d).officer = 17 + zl
          /\ Layout(d).clock = 21 + zl + ol /\ Layout(d).sum = 33 + zl + ol
      BY <1>17
    <2>2. /\ Layout(d).severity - 1 = 12 + zl /\ Layout(d).officer + 4 = 21 + zl
          /\ Layout(d).clock - 1 = 20 + zl + ol
      BY <1>2, <2>1
    <2>3. SubSeq(d, 13, Layout(d).severity - 1) = r.zone
      BY <1>12, <2>2, Zenon
    <2>4. IntAt(d, Layout(d).severity) = r.severity
      BY <1>13, <2>1, Zenon
    <2>5. SubSeq(d, Layout(d).officer + 4, Layout(d).clock - 1) = r.officer
      BY <1>14, <2>2, Zenon
    <2>6. (IntAt(d, Layout(d).sum) = Checksum(SubSeq(d, 1, Len(d) - 4))) = TRUE
      BY <1>15, <1>16, <2>1, Zenon
    <2> QED
      BY <1>11, <2>3, <2>4, <2>5, <2>6, Zenon DEF DeserializeHeader, Headed
  <1> QED
    BY <1>7, <1>10, <1>11, <1>18, <1>19, Zenon DEF dl

\* What the server makes of its description.
Described(r) == [text |-> CString(r.text), verified |-> Checksum(CString(r.text)) = Checksum(r.text)]

\* A description is read as it was built, too.
LEMMA DescriptionRead ==
    ASSUME NEW r \in Reports, NEW d, d = SerializeDescription(r)
    PROVE  /\ d \in Seq(Byte) /\ Len(d) \in Nat /\ Len(d) >= 12 /\ Len(d) <= MaxPacket
           /\ DescriptionReadable(d) /\ DeserializeDescription(d) = Described(r)
  <1> DEFINE sum == Checksum(r.text)
             text == CString(r.text)
             t == AppendInt(TypeReport)
             k == AppendInt(sum)
             x == AppendString(text)
             d1 == t \o k
             xl == Len(text)
             dl == Len(d)
  <1>1. /\ Fits(sum) /\ Fits(TypeReport) /\ text \in Seq(Byte)
        /\ Len(SerializeDescription(r)) <= MaxPacket
    <2>1. text \in Seq(Byte)
      BY ReportFields, SentText, Zenon
    <2> HIDE DEF text
    <2> QED
      BY <2>1, SizesAssumption DEF SizesAssumption, Fits, TypeReport
  <1>b. CString(text) = text
    BY ReportFields, SentText, Zenon
  <1>2. xl \in Nat
    BY <1>1
  <1>3. /\ t \in Seq(Byte) /\ k \in Seq(Byte) /\ Len(t) = 4 /\ Len(k) = 4
    BY <1>1, FitsNat, IntLength
  <1>4. x \in Seq(Byte) /\ Len(x) = 4 + xl
    BY <1>1, TextLength
  <1>5. d = d1 \o x
    BY Zenon DEF SerializeDescription
  <1> HIDE DEF t, k, x, text
  <1>6. d1 \in Seq(Byte) /\ Len(d1) = Len(t) + Len(k)
    BY <1>3, Joined, Zenon
  <1>7. Holds(d1, Len(t) + 1, k)
    BY <1>3, HoldsLast, Zenon
  <1> HIDE DEF d1
  <1>8. d \in Seq(Byte) /\ Len(d) = Len(d1) + Len(x)
    BY <1>4, <1>5, <1>6, Joined, Zenon
  <1>9. Holds(d, Len(t) + 1, k) /\ Holds(d, Len(d1) + 1, x)
    BY <1>4, <1>5, <1>6, <1>7, HoldsStill, HoldsLast, Zenon
  <1>10. Len(t) + 1 = 5 /\ Len(d1) + 1 = 9 /\ dl = 12 + xl
    <2> DEFINE tl == Len(t)
               l1 == Len(d1)
    <2>1. tl = 4 /\ Len(k) = 4 /\ Len(x) = 4 + xl /\ l1 = tl + Len(k) /\ dl = l1 + Len(x) /\ xl \in Nat
      BY <1>2, <1>3, <1>4, <1>6, <1>8, Zenon
    <2> HIDE DEF xl, dl, tl, l1
    <2>2. tl + 1 = 5 /\ l1 + 1 = 9 /\ dl = 12 + xl
      BY <2>1
    <2> QED
      BY <2>2, Zenon DEF tl, l1
  <1>11. IntAt(d, 5) = sum
    BY <1>1, <1>9, <1>10, IntHeld, Zenon DEF k
  <1> HIDE DEF xl, dl
  <1>12. Fits(xl) /\ dl \in Nat /\ dl >= 12 /\ dl <= MaxPacket /\ xl \in 0 .. dl - 12
    <2>1. dl <= MaxPacket
      BY <1>1, Zenon DEF dl
    <2> QED
      BY <1>2, <1>10, <2>1, SMT DEF Fits, MaxPacket
  <1>a. HasInt(d, 9) /\ IntAt(d, 9) = xl /\ SubSeq(d, 13, 12 + xl) = text
    <2>1. HasInt(d, 9) /\ IntAt(d, 9) = xl /\ SubSeq(d, 9 + 4, 9 + 3 + xl) = text
      BY <1>1, <1>9, <1>10, <1>12, TextHeld, Zenon DEF x, xl
    <2>2. 9 + 4 = 13 /\ 9 + 3 = 12
      OBVIOUS
    <2> QED
      BY <2>1, <2>2, Zenon
  <1>13. DescriptionReadable(d)
    BY <1>12, <1>a, Zenon DEF DescriptionReadable, dl
  <1>14. CString(SubSeq(d, 13, 12 + IntAt(d, 9))) = text
    BY <1>a, <1>b, Zenon
  <1>15. DeserializeDescription(d) = [text |-> text, verified |-> sum = Checksum(text)]
    BY <1>11, <1>14, Zenon DEF DeserializeDescription
  <1>16. (sum = Checksum(text)) = (Checksum(text) = sum)
    <2> HIDE DEF sum
    <2> QED
      BY Zenon
  <1>17. DeserializeDescription(d) = Described(r)
    BY <1>15, <1>16, Zenon DEF Described, text
  <1> QED
    BY <1>8, <1>12, <1>13, <1>17, Zenon DEF dl

-----------------------------------------------------------------------
(* The stream, while no thread has sent between the sends of the other.                            *)

\* The parts of the reports in the order in which they are sent: a header, then its description.
Part(k) == IF k % 2 = 1 THEN SerializeHeader(filed[(k + 1) \div 2])
                        ELSE SerializeDescription(filed[k \div 2])

\* The parts that the client has sent whole, and those that the server has received.
Sent == 2 * Len(filed) - (IF chunk = 0 THEN 0 ELSE IF chunk <= 2 THEN 2 ELSE 1)
Received == 2 * Len(records) + (IF want = "description" THEN 1 ELSE 0)

\* The packet that leads from place a to place b: a heartbeat if they are the same.
Body(a, b) == IF a = b THEN AppendInt(TypeHeartbeat) ELSE Part(b)
Wire(a, b) == AppendInt(Len(Body(a, b))) \o Body(a, b)

\* A length that has been sent without what it is the length of.
Partial == IF beat # 0 THEN AppendInt(4)
           ELSE IF chunk \in {2, 4} THEN Chunks(Last(filed))[chunk - 1] ELSE << >>

\* One packet off the front of s leaves t; heartbeats are sent between reports only.
Leg(a, b, s, t) == (b = a + 1 \/ (b = a /\ a % 2 = 0)) /\ s = Wire(a, b) \o t

\* The stream is n packets, after the first i of which f[i] is left and the server has come to p[i].
Way(n, p, f) ==
    /\ n \in Nat /\ p \in [0 .. n -> Nat] /\ f \in [0 .. n -> Seq(Byte)]
    /\ p[0] = Received /\ p[n] = Sent /\ f[0] = stream /\ f[n] = Partial
    /\ \A i \in 0 .. n : i < n => Leg(p[i], p[i + 1], f[i], f[i + 1])
    /\ \A i, j \in 0 .. n : i <= j => p[i] <= p[j]

\* The server has recorded reports as they were filed, and holds the header of the next.
Recorded ==
    /\ want \in {"packet", "description"}
    /\ records \in Seq({AsRecorded(r) : r \in Reports})
    /\ \A i \in 1 .. Len(records) : i <= Len(filed) /\ records[i] = AsRecorded(filed[i])
    /\ want = "description" => header = Headed(filed[Len(records) + 1])

Undisturbed ==
    /\ beat # 0 => chunk <= 1
    /\ Recorded
    /\ \E n, p, f : Way(n, p, f)

CodecInv ==
    /\ filed \in Seq(Reports) /\ chunk \in 0 .. 4 /\ beat \in {0, 4} /\ crossed \in BOOLEAN
    /\ chunk # 0 => filed # << >>
    /\ ~ crossed => Undisturbed

LEMMA Limit == MaxPacket \in Nat /\ MaxPacket >= 4 /\ \A n \in Nat : n <= MaxPacket => Fits(n)
  BY SMT DEF MaxPacket, Fits

\* The parts of the reports filed are packets that the server takes.
LEMMA PartBytes ==
    ASSUME filed \in Seq(Reports), NEW k \in Nat, 1 <= k, k <= 2 * Len(filed)
    PROVE  Part(k) \in Seq(Byte) /\ Len(Part(k)) \in Nat /\ Len(Part(k)) >= 4 /\ Len(Part(k)) <= MaxPacket
  <1>1. CASE k % 2 = 1
    <2>1. (k + 1) \div 2 \in 1 .. Len(filed)
      BY <1>1
    <2>2. filed[(k + 1) \div 2] \in Reports
      BY <2>1, ElementOfSeq, Zenon
    <2> DEFINE d == Part(k)
    <2>3. d = SerializeHeader(filed[(k + 1) \div 2])
      BY <1>1, Zenon DEF Part
    <2> HIDE DEF d
    <2>4. d \in Seq(Byte) /\ Len(d) \in Nat /\ Len(d) >= 36 /\ Len(d) <= MaxPacket
      BY <2>2, <2>3, HeaderRead, Zenon
    <2>5. Len(d) >= 4
      BY <2>4
    <2> QED
      BY <2>4, <2>5, Zenon DEF d
  <1>2. CASE k % 2 # 1
    <2>1. k \div 2 \in 1 .. Len(filed)
      BY <1>2
    <2>2. filed[k \div 2] \in Reports
      BY <2>1, ElementOfSeq, Zenon
    <2> DEFINE d == Part(k)
    <2>3. d = SerializeDescription(filed[k \div 2])
      BY <1>2, Zenon DEF Part
    <2> HIDE DEF d
    <2>4. d \in Seq(Byte) /\ Len(d) \in Nat /\ Len(d) >= 12 /\ Len(d) <= MaxPacket
      BY <2>2, <2>3, DescriptionRead, Zenon
    <2>5. Len(d) >= 4
      BY <2>4
    <2> QED
      BY <2>4, <2>5, Zenon DEF d
  <1> QED
    BY <1>1, <1>2, Zenon

LEMMA BodyBytes ==
    ASSUME filed \in Seq(Reports), NEW a \in Nat, NEW b \in Nat, b = a \/ b = a + 1, b <= 2 * Len(filed)
    PROVE  /\ Body(a, b) \in Seq(Byte) /\ Len(Body(a, b)) \in Nat
           /\ Len(Body(a, b)) >= 4 /\ Len(Body(a, b)) <= MaxPacket
           /\ Wire(a, b) \in Seq(Byte)
  <1> DEFINE d == Body(a, b)
  <1>1. d \in Seq(Byte) /\ Len(d) \in Nat /\ Len(d) >= 4 /\ Len(d) <= MaxPacket
    <2>1. CASE a = b
      <3>1. TypeHeartbeat \in Nat
        BY DEF TypeHeartbeat
      <3>2. d = AppendInt(TypeHeartbeat)
        BY <2>1, Zenon DEF Body
      <3> HIDE DEF d
      <3>3. d \in Seq(Byte) /\ Len(d) = 4
        BY <3>1, <3>2, IntLength, Zenon
      <3> DEFINE l == Len(d)
      <3>4. l = 4
        BY <3>3
      <3> HIDE DEF l
      <3>5. l \in Nat /\ l >= 4 /\ l <= MaxPacket
        BY <3>4, Limit
      <3> QED
        BY <3>3, <3>5, Zenon DEF l
    <2>2. CASE a # b
      <3>1. 1 <= b /\ b <= 2 * Len(filed)
        BY <2>2
      <3>2. d = Part(b)
        BY <2>2, Zenon DEF Body
      <3> QED
        BY <3>1, <3>2, PartBytes, Zenon
    <2> QED
      BY <2>1, <2>2, Zenon
  <1>2. AppendInt(Len(d)) \in Seq(Byte)
    BY <1>1, IntLength, Zenon
  <1>3. Wire(a, b) \in Seq(Byte)
    BY <1>1, <1>2, Joined, Zenon DEF Wire
  <1> QED
    BY <1>1, <1>3, Zenon

\* What the server finds in front of the stream when a packet is there, and what it leaves.
LEMMA PacketRead ==
    ASSUME NEW b \in Seq(Byte), Len(b) >= 4, Len(b) <= MaxPacket, NEW t \in Seq(Byte),
           stream = (AppendInt(Len(b)) \o b) \o t
    PROVE  /\ HasInt(stream, 1) /\ Prefix = Len(b) /\ Packet = b
           /\ Prefix \in 1 .. MaxPacket /\ Prefix \in 1 .. Len(stream) - 4
           /\ SubSeq(stream, 5 + Prefix, Len(stream)) = t
  <1> DEFINE bl == Len(b)
             tl == Len(t)
             sl == Len(stream)
             h == AppendInt(bl)
             hl == Len(h)
             w == h \o b
             wl == Len(w)
  <1>1. bl \in Nat /\ tl \in Nat /\ Fits(bl)
    <2>1. bl \in Nat /\ tl \in Nat
      OBVIOUS
    <2> QED
      BY <2>1, Limit, Zenon
  <1>2. h \in Seq(Byte) /\ hl = 4
    BY <1>1, IntLength, Zenon
  <1>3. stream = w \o t /\ bl >= 4 /\ bl <= MaxPacket
    OBVIOUS
  <1>4. w \in Seq(Byte) /\ wl = hl + bl /\ Holds(w, 1, h) /\ Holds(w, hl + 1, b)
    BY <1>2, Joined, HoldsSelf, HoldsStill, HoldsLast, Zenon
  <1> HIDE DEF w
  <1>5. sl = wl + tl /\ Holds(stream, 1, h) /\ Holds(stream, hl + 1, b) /\ Holds(stream, wl + 1, t)
    <2> HIDE DEF h, hl
    <2>1. Len(w \o t) = wl + tl
      BY <1>4, Joined, Zenon
    <2>2. Holds(w \o t, 1, h) /\ Holds(w \o t, hl + 1, b)
      BY <1>4, HoldsStill, Zenon
    <2>3. Holds(w \o t, wl + 1, t)
      BY <1>4, HoldsLast, Zenon
    <2> QED
      BY <1>3, <2>1, <2>2, <2>3, Zenon
  <1> HIDE DEF bl, tl, sl, hl, wl
  <1>6. hl + 1 = 5 /\ wl + 1 = 5 + bl /\ sl = 4 + bl + tl
    BY <1>1, <1>2, <1>4, <1>5
  <1>7. Holds(stream, 5, b) /\ Holds(stream, 5 + bl, t)
    BY <1>5, <1>6, Zenon
  <1>8. HasInt(stream, 1) /\ IntAt(stream, 1) = bl
    BY <1>1, <1>5, IntHeld, Zenon
  <1>9. SubSeq(stream, 5, 5 + bl - 1) = b /\ SubSeq(stream, 5 + bl, 5 + bl + tl - 1) = t
    BY <1>7, BytesHeld, Zenon DEF bl, tl
  <1>10. 5 + bl - 1 = 4 + bl /\ 5 + bl + tl - 1 = sl /\ bl \in 1 .. MaxPacket /\ bl \in 1 .. sl - 4
    BY <1>1, <1>3, <1>6, Limit
  <1> QED
    BY <1>8, <1>9, <1>10, Zenon DEF Prefix, Packet, bl, sl

\* The length of a packet in front, with the packet still to come, makes the server wait.
LEMMA LengthRead ==
    ASSUME NEW m \in Nat, m >= 4, m <= MaxPacket, stream = AppendInt(m)
    PROVE  Prefix = m /\ Prefix \in 1 .. MaxPacket /\ Prefix \notin 1 .. Len(stream) - 4
  <1> DEFINE sl == Len(stream)
  <1>1. stream \in Seq(Byte) /\ sl = 4 /\ Fits(m)
    BY IntLength, Limit, Zenon
  <1>2. Holds(stream, 1, AppendInt(m))
    BY <1>1, HoldsSelf, Zenon
  <1>3. IntAt(stream, 1) = m
    BY <1>1, <1>2, IntHeld, Zenon
  <1> HIDE DEF sl
  <1>4. m \in 1 .. MaxPacket /\ m \notin 1 .. sl - 4
    BY <1>1, Limit
  <1> QED
    BY <1>3, <1>4, Zenon DEF Prefix, sl

\* What has been filed, and where the client is with it.
LEMMA Counts ==
    ASSUME filed \in Seq(Reports), chunk \in 0 .. 4, chunk # 0 => filed # << >>
    PROVE  /\ Len(filed) \in Nat /\ Sent \in Nat /\ Sent <= 2 * Len(filed)
           /\ chunk # 0 => Len(filed) >= 1 /\ Last(filed) = filed[Len(filed)] /\ Last(filed) \in Reports
  <1>1. Len(filed) \in Nat
    OBVIOUS
  <1>2. filed # << >> => Len(filed) >= 1
    BY EmptySeq
  <1>3. Sent \in Nat /\ Sent <= 2 * Len(filed)
    <2> DEFINE fl == Len(filed)
    <2>1. fl \in Nat /\ (chunk # 0 => fl >= 1) /\ Sent = 2 * fl - (IF chunk = 0 THEN 0 ELSE IF chunk <= 2 THEN 2 ELSE 1)
      BY <1>1, <1>2, Zenon DEF Sent
    <2> HIDE DEF fl
    <2>2. Sent \in Nat /\ Sent <= 2 * fl
      BY <2>1
    <2> QED
      BY <2>2, Zenon DEF fl
  <1>4. chunk # 0 => Last(filed) = filed[Len(filed)] /\ Last(filed) \in Reports
    <2>1. Last(filed) = filed[Len(filed)]
      BY Zenon DEF Last
    <2>2. chunk # 0 => Len(filed) \in 1 .. Len(filed)
      BY <1>1, <1>2
    <2> QED
      BY <2>1, <2>2, ElementOfSeq, Zenon
  <1> QED
    BY <1>1, <1>2, <1>3, <1>4

-----------------------------------------------------------------------
(* What the steps do to the way.                                                                   *)

\* The parts filed do not change when another report is filed.
LEMMA WireKept ==
    ASSUME filed \in Seq(Reports), NEW a \in Nat, NEW b \in Nat, b = a \/ b = a + 1, b <= 2 * Len(filed),
           filed' = filed \/ \E r \in Reports : filed' = Append(filed, r)
    PROVE  Wire(a, b)' = Wire(a, b)
  <1>1. \A i \in 1 .. Len(filed) : filed'[i] = filed[i]
    BY AppendProperties
  <1>2. a # b => Part(b)' = Part(b)
    <2> SUFFICES ASSUME a # b PROVE Part(b)' = Part(b)
      OBVIOUS
    <2>1. CASE b % 2 = 1
      <3>1. (b + 1) \div 2 \in 1 .. Len(filed)
        BY <2>1
      <3>2. filed'[(b + 1) \div 2] = filed[(b + 1) \div 2]
        BY <1>1, <3>1, Zenon
      <3> QED
        BY <2>1, <3>2, Zenon DEF Part
    <2>2. CASE b % 2 # 1
      <3>1. b \div 2 \in 1 .. Len(filed)
        BY <2>2
      <3>2. filed'[b \div 2] = filed[b \div 2]
        BY <1>1, <3>1, Zenon
      <3> QED
        BY <2>2, <3>2, Zenon DEF Part
    <2> QED
      BY <2>1, <2>2, Zenon
  <1>3. Body(a, b)' = Body(a, b)
    BY <1>2, Zenon DEF Body
  <1> QED
    BY <1>3, Zenon DEF Wire

\* What follows from a way: the places on it, the packets and what is left after them.
Passage(n, p, f) ==
    /\ n \in Nat /\ 0 \in 0 .. n /\ n \in 0 .. n
    /\ p[0] = Received /\ p[n] = Sent /\ f[0] = stream /\ f[n] = Partial
    /\ \A i \in 0 .. n : p[i] \in Nat /\ f[i] \in Seq(Byte)
    /\ \A i \in 0 .. n : p[i] <= Sent /\ Received <= p[i]
    /\ \A i, j \in 0 .. n : i <= j => p[i] <= p[j]
    /\ \A i \in 0 .. n : i < n => i + 1 \in 0 .. n
    /\ \A i \in 0 .. n : i < n => Leg(p[i], p[i + 1], f[i], f[i + 1])
    /\ \A i \in 0 .. n : i < n => p[i + 1] <= 2 * Len(filed) /\ Wire(p[i], p[i + 1]) \in Seq(Byte)

LEMMA WayFacts ==
    ASSUME CodecInv, NEW n, NEW p, NEW f, Way(n, p, f)
    PROVE  /\ Passage(n, p, f)
           /\ stream \in Seq(Byte) /\ Partial \in Seq(Byte) /\ Received <= Sent /\ Sent <= 2 * Len(filed)
  <1>1. n \in Nat /\ 0 \in 0 .. n /\ n \in 0 .. n /\ \A i \in 0 .. n : i < n => i + 1 \in 0 .. n
    BY DEF Way
  <1>2. filed \in Seq(Reports) /\ Len(filed) \in Nat /\ Sent \in Nat /\ Sent <= 2 * Len(filed)
    BY Counts DEF CodecInv
  <1>3. \A i \in 0 .. n : p[i] \in Nat /\ f[i] \in Seq(Byte)
    BY DEF Way
  <1>4. ASSUME NEW i \in 0 .. n PROVE p[i] <= Sent /\ Received <= p[i]
    <2>1. 0 <= i /\ i <= n
      BY <1>1
    <2>2. \A j, k \in 0 .. n : j <= k => p[j] <= p[k]
      BY Zenon DEF Way
    <2>3. p[0] <= p[i] /\ p[i] <= p[n]
      BY <1>1, <2>1, <2>2, Zenon
    <2>4. p[0] = Received /\ p[n] = Sent
      BY Zenon DEF Way
    <2> QED
      BY <2>3, <2>4, Zenon
  <1>5. ASSUME NEW i \in 0 .. n, i < n
        PROVE  p[i + 1] <= 2 * Len(filed) /\ Wire(p[i], p[i + 1]) \in Seq(Byte)
    <2>1. Leg(p[i], p[i + 1], f[i], f[i + 1])
      BY <1>5, Zenon DEF Way
    <2>2. p[i + 1] = p[i] \/ p[i + 1] = p[i] + 1
      BY <2>1, Zenon DEF Leg
    <2>3. i + 1 \in 0 .. n /\ p[i] \in Nat /\ p[i + 1] \in Nat /\ p[i + 1] <= Sent
      BY <1>1, <1>3, <1>4, <1>5, Zenon
    <2>4. p[i + 1] <= 2 * Len(filed)
      BY <1>2, <2>3
    <2> QED
      BY <1>2, <2>2, <2>3, <2>4, BodyBytes, Zenon
  <1>6. stream \in Seq(Byte) /\ Partial \in Seq(Byte)
    BY <1>1, <1>3, Zenon DEF Way
  <1>7. Received <= Sent
    BY <1>1, <1>4, Zenon DEF Way
  <1>8. Passage(n, p, f)
    BY <1>1, <1>3, <1>4, <1>5, Zenon DEF Passage, Way
  <1> QED
    BY <1>2, <1>6, <1>7, <1>8, Zenon

\* No step changes a packet on the way.
LEMMA WayWire ==
    ASSUME CodecInv, NEW n, NEW p, NEW f, Passage(n, p, f),
           filed' = filed \/ \E r \in Reports : filed' = Append(filed, r)
    PROVE  \A i \in 0 .. n : i < n => Wire(p[i], p[i + 1])' = Wire(p[i], p[i + 1])
  <1> SUFFICES ASSUME NEW i \in 0 .. n, i < n PROVE Wire(p[i], p[i + 1])' = Wire(p[i], p[i + 1])
    OBVIOUS
  <1> DEFINE a == p[i]
             b == p[i + 1]
  <1>1. i + 1 \in 0 .. n /\ Leg(a, b, f[i], f[i + 1]) /\ b <= 2 * Len(filed)
    BY Zenon DEF Passage
  <1>2. a \in Nat /\ b \in Nat
    BY <1>1, Zenon DEF Passage
  <1>3. b = a \/ b = a + 1
    BY <1>1, Zenon DEF Leg
  <1>4. filed \in Seq(Reports)
    BY Zenon DEF CodecInv
  <1> HIDE DEF a, b
  <1>5. Wire(a, b)' = Wire(a, b)
    BY <1>1, <1>2, <1>3, <1>4, WireKept, Zenon
  <1> QED
    BY <1>5, Zenon DEF a, b

\* What is made of its parts is a way after the step.
LEMMA WayMade ==
    ASSUME NEW n \in Nat, NEW q \in [0 .. n -> Nat], NEW g \in [0 .. n -> Seq(Byte)],
           q[0] = Received', q[n] = Sent', g[0] = stream', g[n] = Partial',
           \A i \in 0 .. n : i < n => Leg(q[i], q[i + 1], g[i], g[i + 1])',
           \A i, j \in 0 .. n : i <= j => q[i] <= q[j]
    PROVE  Way(n, q, g)'
  BY Zenon DEF Way

\* The server takes the first packet.
LEMMA Take ==
    ASSUME CodecInv, NEW n, NEW p, NEW f, Way(n, p, f), 0 < n,
           stream' = f[1], Received' = p[1], Sent' = Sent, Partial' = Partial, filed' = filed
    PROVE  (\E m, q, g : Way(m, q, g))'
  <1> DEFINE m == n - 1
             q == [i \in 0 .. m |-> p[i + 1]]
             g == [i \in 0 .. m |-> f[i + 1]]
  <1>0. Passage(n, p, f)
    BY WayFacts, Zenon
  <1>a. n \in Nat
    BY <1>0, Zenon DEF Passage
  <1>1. m \in Nat /\ m + 1 = n /\ \A i \in 0 .. m : i + 1 \in 0 .. n
    BY <1>a
  <1>2. \A i \in 0 .. m : i < m => i + 1 \in 0 .. m /\ i + 1 < n
    BY <1>a
  <1>3. \A i \in 0 .. n : p[i] \in Nat /\ f[i] \in Seq(Byte)
    BY <1>0, Zenon DEF Passage
  <1>4. q \in [0 .. m -> Nat] /\ g \in [0 .. m -> Seq(Byte)]
    BY <1>1, <1>3, Zenon
  <1>5. 0 \in 0 .. m /\ m \in 0 .. m /\ 0 + 1 = 1
    BY <1>1
  <1>6. q[0] = Received' /\ g[0] = stream' /\ q[m] = Sent' /\ g[m] = Partial'
    <2>1. p[n] = Sent /\ f[n] = Partial
      BY <1>0, Zenon DEF Passage
    <2>2. q[0] = p[0 + 1] /\ g[0] = f[0 + 1] /\ q[m] = p[m + 1] /\ g[m] = f[m + 1]
      BY <1>5, Zenon
    <2> QED
      BY <1>1, <1>5, <2>1, <2>2, Zenon
  <1>7. ASSUME NEW i \in 0 .. m, i < m PROVE Leg(q[i], q[i + 1], g[i], g[i + 1])'
    <2>1. i + 1 \in 0 .. n /\ i + 1 < n /\ i + 1 \in 0 .. m
      BY <1>1, <1>2, <1>7, Zenon
    <2>2. Leg(p[i + 1], p[i + 1 + 1], f[i + 1], f[i + 1 + 1])
      BY <1>0, <2>1, Zenon DEF Passage
    <2>3. Wire(p[i + 1], p[i + 1 + 1])' = Wire(p[i + 1], p[i + 1 + 1])
      BY <1>0, <2>1, WayWire, Zenon
    <2>4. q[i] = p[i + 1] /\ q[i + 1] = p[i + 1 + 1] /\ g[i] = f[i + 1] /\ g[i + 1] = f[i + 1 + 1]
      BY <2>1, Zenon
    <2> HIDE DEF q, g
    <2> QED
      BY <2>2, <2>3, <2>4, Zenon DEF Leg
  <1>8. ASSUME NEW i \in 0 .. m, NEW j \in 0 .. m, i <= j PROVE q[i] <= q[j]
    <2>1. i + 1 \in 0 .. n /\ j + 1 \in 0 .. n /\ i + 1 <= j + 1
      BY <1>1, <1>8
    <2>2. p[i + 1] <= p[j + 1]
      BY <1>0, <2>1, Zenon DEF Passage
    <2> QED
      BY <2>2, Zenon
  <1> HIDE DEF m, q, g
  <1>9. Way(m, q, g)'
    BY <1>1, <1>4, <1>6, <1>7, <1>8, WayMade, Zenon
  <1> QED
    BY <1>9, Zenon

\* The client sends more of what it has begun.
LEMMA Lengthen ==
    ASSUME CodecInv, NEW n, NEW p, NEW f, Way(n, p, f), NEW x \in Seq(Byte),
           filed' = filed \/ \E r \in Reports : filed' = Append(filed, r),
           stream' = stream \o x, Partial' = Partial \o x, Received' = Received, Sent' = Sent
    PROVE  (\E m, q, g : Way(m, q, g))'
  <1> DEFINE g == [i \in 0 .. n |-> f[i] \o x]
  <1>0. Passage(n, p, f)
    BY WayFacts, Zenon
  <1>1. n \in Nat /\ 0 \in 0 .. n /\ n \in 0 .. n /\ \A i \in 0 .. n : i < n => i + 1 \in 0 .. n
    BY <1>0, Zenon DEF Passage
  <1>2. \A i \in 0 .. n : f[i] \in Seq(Byte)
    BY <1>0, Zenon DEF Passage
  <1>3. p \in [0 .. n -> Nat] /\ p[0] = Received /\ p[n] = Sent /\ f[0] = stream /\ f[n] = Partial
    BY Zenon DEF Way
  <1>4. g \in [0 .. n -> Seq(Byte)]
    BY <1>2, Joined
  <1>5. g[0] = stream' /\ g[n] = Partial'
    BY <1>1, <1>3, Zenon
  <1>6. ASSUME NEW i \in 0 .. n, i < n PROVE Leg(p[i], p[i + 1], g[i], g[i + 1])'
    <2> DEFINE w == Wire(p[i], p[i + 1])
    <2>1. i + 1 \in 0 .. n
      BY <1>1, <1>6, Zenon
    <2>2. Leg(p[i], p[i + 1], f[i], f[i + 1]) /\ w \in Seq(Byte)
      BY <1>0, <1>6, Zenon DEF Passage
    <2>3. w' = w
      BY <1>0, <1>6, WayWire, Zenon
    <2>4. g[i] = f[i] \o x /\ g[i + 1] = f[i + 1] \o x
      BY <2>1, Zenon
    <2>5. (w \o f[i + 1]) \o x = w \o (f[i + 1] \o x)
      BY <1>2, <2>1, <2>2, Regrouped, Zenon
    <2>6. p[i + 1] = p[i] + 1 \/ (p[i + 1] = p[i] /\ p[i] % 2 = 0)
      BY <2>2, Zenon DEF Leg
    <2>7. f[i] = w \o f[i + 1]
      BY <2>2, Zenon DEF Leg
    <2>8. g[i] = w' \o g[i + 1]
      BY <2>3, <2>4, <2>5, <2>7, Zenon
    <2> HIDE DEF g
    <2> QED
      BY <2>6, <2>8, Zenon DEF Leg
  <1>7. \A i, j \in 0 .. n : i <= j => p[i] <= p[j]
    BY <1>0, Zenon DEF Passage
  <1>8. p[0] = Received' /\ p[n] = Sent'
    BY <1>3, Zenon
  <1> HIDE DEF g
  <1>9. Way(n, p, g)'
    BY <1>1, <1>3, <1>4, <1>5, <1>6, <1>7, <1>8, WayMade, Zenon
  <1> QED
    BY <1>9, Zenon

\* The client completes a packet.
LEMMA Complete ==
    ASSUME CodecInv, NEW n, NEW p, NEW f, Way(n, p, f), NEW x \in Seq(Byte), NEW c \in Nat,
           c = p[n] + 1 \/ (c = p[n] /\ p[n] % 2 = 0), Partial \o x = Wire(p[n], c),
           filed' = filed, stream' = stream \o x, Partial' = << >>, Received' = Received, Sent' = c
    PROVE  (\E m, q, g : Way(m, q, g))'
  <1> DEFINE m == n + 1
             q == [i \in 0 .. m |-> IF i <= n THEN p[i] ELSE c]
             g == [i \in 0 .. m |-> IF i <= n THEN f[i] \o x ELSE << >>]
  <1>0. Passage(n, p, f)
    BY WayFacts, Zenon
  <1>a. n \in Nat
    BY <1>0, Zenon DEF Passage
  <1>1. m \in Nat /\ 0 \in 0 .. m /\ m \in 0 .. m /\ n \in 0 .. m /\ 0 <= n /\ ~ (m <= n) /\ n <= n
    BY <1>a
  <1>2. \A i \in 0 .. m : (i \in 0 .. n /\ i <= n) \/ (i = m /\ ~ (i <= n))
    BY <1>a
  <1>3. \A i \in 0 .. n : p[i] \in Nat /\ f[i] \in Seq(Byte) /\ f[i] \o x \in Seq(Byte)
    <2>1. \A i \in 0 .. n : p[i] \in Nat /\ f[i] \in Seq(Byte)
      BY <1>0, Zenon DEF Passage
    <2> QED
      BY <2>1, Joined, Zenon
  <1>4. << >> \in Seq(Byte)
    OBVIOUS
  <1>5. q \in [0 .. m -> Nat]
    <2>1. \A i \in 0 .. m : (IF i <= n THEN p[i] ELSE c) \in Nat
      BY <1>2, <1>3, Zenon
    <2> QED
      BY <2>1, Zenon
  <1>6. g \in [0 .. m -> Seq(Byte)]
    <2>1. \A i \in 0 .. m : (IF i <= n THEN f[i] \o x ELSE << >>) \in Seq(Byte)
      BY <1>2, <1>3, <1>4, Zenon
    <2> QED
      BY <2>1, Zenon
  <1>7. \A i \in 0 .. n : i \in 0 .. m /\ q[i] = p[i] /\ g[i] = f[i] \o x
    <2>1. \A i \in 0 .. n : i \in 0 .. m /\ i <= n
      BY <1>a
    <2> QED
      BY <2>1, Zenon
  <1>8. q[m] = c /\ g[m] = << >>
    BY <1>1, Zenon
  <1>9. 0 \in 0 .. n /\ n \in 0 .. n /\ p[0] = Received /\ f[0] = stream /\ f[n] = Partial
    BY <1>0, Zenon DEF Passage
  <1> HIDE DEF q, g
  <1>10. q[0] = Received' /\ g[0] = stream' /\ q[m] = Sent' /\ g[m] = Partial'
    BY <1>7, <1>8, <1>9, Zenon
  <1>11. ASSUME NEW i \in 0 .. m, i < m PROVE Leg(q[i], q[i + 1], g[i], g[i + 1])'
    <2>1. CASE i < n
      <3> DEFINE w == Wire(p[i], p[i + 1])
      <3>1. i \in 0 .. n /\ i + 1 \in 0 .. n
        BY <1>a, <2>1
      <3>2. Leg(p[i], p[i + 1], f[i], f[i + 1]) /\ w \in Seq(Byte)
        BY <1>0, <2>1, <3>1, Zenon DEF Passage
      <3>3. w' = w
        BY <1>0, <2>1, <3>1, WayWire, Zenon
      <3>4. q[i] = p[i] /\ q[i + 1] = p[i + 1] /\ g[i] = f[i] \o x /\ g[i + 1] = f[i + 1] \o x
        BY <1>7, <3>1, Zenon
      <3>5. (w \o f[i + 1]) \o x = w \o (f[i + 1] \o x)
        BY <1>3, <3>1, <3>2, Regrouped, Zenon
      <3>6. p[i + 1] = p[i] + 1 \/ (p[i + 1] = p[i] /\ p[i] % 2 = 0)
        BY <3>2, Zenon DEF Leg
      <3>7. f[i] = w \o f[i + 1]
        BY <3>2, Zenon DEF Leg
      <3>8. g[i] = w' \o g[i + 1]
        BY <3>3, <3>4, <3>5, <3>7, Zenon
      <3>9. g[i] = Wire(q[i], q[i + 1])' \o g[i + 1]
        BY <3>4, <3>8, Zenon
      <3> QED
        BY <3>4, <3>6, <3>9, Zenon DEF Leg
    <2>2. CASE ~ (i < n)
      <3> DEFINE w == Wire(p[n], c)
      <3>1. i = n /\ i + 1 = m
        BY <1>a, <1>11, <2>2
      <3>2. q[i] = p[n] /\ q[i + 1] = c /\ g[i] = Partial \o x /\ g[i + 1] = << >>
        BY <1>7, <1>8, <1>9, <3>1, Zenon
      <3>3. w' = w
        BY Zenon DEF Wire, Body, Part
      <3>4. Partial \o x \in Seq(Byte)
        BY <1>3, <1>9, Zenon
      <3>5. w \in Seq(Byte) /\ Partial \o x = w
        BY <3>4, Zenon
      <3> HIDE DEF w
      <3>6. w \o << >> = w
        BY <3>5, SMT
      <3>7. g[i] = w' \o g[i + 1]
        BY <3>2, <3>3, <3>5, <3>6, Zenon
      <3>8. g[i] = Wire(q[i], q[i + 1])' \o g[i + 1]
        BY <3>2, <3>7, Zenon DEF w
      <3> QED
        BY <3>2, <3>8, Zenon DEF Leg
    <2> QED
      BY <2>1, <2>2, Zenon
  <1>12. ASSUME NEW i \in 0 .. m, NEW j \in 0 .. m, i <= j PROVE q[i] <= q[j]
    <2>1. CASE j \in 0 .. n
      <3>1. i \in 0 .. n
        BY <1>a, <1>12, <2>1
      <3>2. p[i] <= p[j]
        BY <1>0, <1>12, <2>1, <3>1, Zenon DEF Passage
      <3> QED
        BY <1>7, <2>1, <3>1, <3>2, Zenon
    <2>2. CASE j = m /\ i \in 0 .. n
      <3>1. i <= n
        BY <1>a, <2>2
      <3>2. p[i] <= p[n]
        BY <1>0, <1>9, <2>2, <3>1, Zenon DEF Passage
      <3>3. p[i] \in Nat /\ p[n] \in Nat
        BY <1>3, <1>9, <2>2, Zenon
      <3>4. p[i] <= c
        BY <3>2, <3>3
      <3> QED
        BY <1>7, <1>8, <2>2, <3>4, Zenon
    <2>3. CASE i = m /\ j = m
      <3>1. c <= c
        OBVIOUS
      <3> QED
        BY <1>8, <2>3, <3>1, Zenon
    <2>4. ~ (i = m /\ j \in 0 .. n)
      BY <1>a, <1>12
    <2> QED
      BY <1>2, <2>1, <2>2, <2>3, <2>4, Zenon
  <1> HIDE DEF m
  <1>13. Way(m, q, g)'
    BY <1>1, <1>5, <1>6, <1>10, <1>11, <1>12, WayMade, Zenon
  <1> QED
    BY <1>13, Zenon

-----------------------------------------------------------------------
(* The steps of the client.                                                                        *)

\* The parts that the client is sending are those of the report filed last.
LEMMA LastParts ==
    ASSUME CodecInv, chunk # 0
    PROVE  LET l == Len(filed)
               r == Last(filed)
           IN  /\ l \in Nat /\ l >= 1 /\ r \in Reports
               /\ Part(2 * l - 1) = SerializeHeader(r) /\ Part(2 * l) = SerializeDescription(r)
  <1> DEFINE l == Len(filed)
             r == Last(filed)
  <1>1. l \in Nat /\ l >= 1 /\ r \in Reports /\ r = filed[l]
    BY Counts, Zenon DEF CodecInv
  <1> HIDE DEF l, r
  <1>2. (2 * l - 1) % 2 = 1 /\ ((2 * l - 1) + 1) \div 2 = l /\ (2 * l) % 2 # 1 /\ (2 * l) \div 2 = l
    BY <1>1
  <1>3. Part(2 * l - 1) = SerializeHeader(r) /\ Part(2 * l) = SerializeDescription(r)
    BY <1>1, <1>2, Zenon DEF Part
  <1> QED
    BY <1>1, <1>3, Zenon DEF l, r

LEMMA ChunksSent ==
    ASSUME NEW r
    PROVE  LET h == SerializeHeader(r)
               d == SerializeDescription(r)
           IN  /\ Chunks(r)[1] = AppendInt(Len(h)) /\ Chunks(r)[2] = h
               /\ Chunks(r)[3] = AppendInt(Len(d)) /\ Chunks(r)[4] = d
  <1> DEFINE h == SerializeHeader(r)
             d == SerializeDescription(r)
             a == AppendInt(Len(h))
             b == AppendInt(Len(d))
  <1>1. Chunks(r) = <<a, h, b, d>>
    BY Zenon DEF Chunks
  <1> HIDE DEF a, h, b, d
  <1>2. <<a, h, b, d>>[1] = a /\ <<a, h, b, d>>[2] = h /\ <<a, h, b, d>>[3] = b /\ <<a, h, b, d>>[4] = d
    OBVIOUS
  <1> QED
    BY <1>1, <1>2, Zenon DEF a, h, b, d

LEMMA ChunkBytes ==
    ASSUME CodecInv, chunk # 0
    PROVE  \A i \in 1 .. 4 : Chunks(Last(filed))[i] \in Seq(Byte)
  <1> DEFINE r == Last(filed)
             h == SerializeHeader(r)
             d == SerializeDescription(r)
  <1>1. r \in Reports
    BY LastParts, Zenon
  <1>2. h \in Seq(Byte) /\ Len(h) \in Nat /\ d \in Seq(Byte) /\ Len(d) \in Nat
    BY <1>1, HeaderRead, DescriptionRead, Zenon
  <1>3. AppendInt(Len(h)) \in Seq(Byte) /\ AppendInt(Len(d)) \in Seq(Byte)
    BY <1>2, IntLength, Zenon
  <1>4. /\ Chunks(r)[1] \in Seq(Byte) /\ Chunks(r)[2] \in Seq(Byte)
        /\ Chunks(r)[3] \in Seq(Byte) /\ Chunks(r)[4] \in Seq(Byte)
    BY <1>2, <1>3, ChunksSent, Zenon
  <1> HIDE DEF r
  <1>5. \A i \in 1 .. 4 : i = 1 \/ i = 2 \/ i = 3 \/ i = 4
    OBVIOUS
  <1>6. \A i \in 1 .. 4 : Chunks(r)[i] \in Seq(Byte)
    BY <1>4, <1>5, Zenon
  <1> QED
    BY <1>6, Zenon DEF r

\* What is recorded is not touched by a step of the client.
LEMMA RecordedKept ==
    ASSUME CodecInv, Undisturbed, filed' = filed \/ \E r \in Reports : filed' = Append(filed, r),
           UNCHANGED <<want, header, records>>
    PROVE  Recorded' /\ Received' = Received
  <1>1. PICK n, p, f : Way(n, p, f)
    BY Zenon DEF Undisturbed
  <1>2. Received <= Sent /\ Sent <= 2 * Len(filed)
    BY <1>1, WayFacts, Zenon
  <1>3. filed \in Seq(Reports) /\ Len(filed) \in Nat /\ Sent \in Nat
    BY Counts, Zenon DEF CodecInv
  <1>4. Recorded
    BY Zenon DEF Undisturbed
  <1>5. Len(records) \in Nat
    BY <1>4 DEF Recorded
  <1>6. want = "description" => Len(records) + 1 \in 1 .. Len(filed)
    <2> DEFINE rl == Len(records)
               fl == Len(filed)
               st == Sent
    <2>1. rl \in Nat /\ fl \in Nat /\ st \in Nat /\ st <= 2 * fl
      BY <1>2, <1>3, <1>5, Zenon
    <2>2. want = "description" => 2 * rl + 1 <= st
      BY <1>2, Zenon DEF Received
    <2> HIDE DEF rl, fl, st
    <2>3. want = "description" => rl + 1 \in 1 .. fl
      BY <2>1, <2>2
    <2> QED
      BY <2>3, Zenon DEF rl, fl
  <1>7. \A i \in 1 .. Len(filed) : filed'[i] = filed[i]
    BY <1>3, AppendProperties
  <1>8. Len(filed) <= Len(filed')
    <2>1. \A r \in Reports : Len(Append(filed, r)) = Len(filed) + 1
      BY <1>3, AppendProperties
    <2> QED
      BY <1>3, <2>1
  <1>9. Len(filed') \in Nat
    BY <1>3, AppendProperties
  <1>10. ASSUME NEW i \in 1 .. Len(records) PROVE i <= Len(filed') /\ records[i] = AsRecorded(filed'[i])
    <2>1. i <= Len(filed) /\ records[i] = AsRecorded(filed[i])
      BY <1>4, Zenon DEF Recorded
    <2>2. i \in 1 .. Len(filed) /\ i <= Len(filed')
      BY <1>3, <1>5, <1>8, <1>9, <2>1
    <2> QED
      BY <1>7, <2>1, <2>2, Zenon
  <1>11. want = "description" => header = Headed(filed'[Len(records) + 1])
    BY <1>4, <1>6, <1>7, Zenon DEF Recorded
  <1>12. Recorded'
    BY <1>4, <1>10, <1>11, Zenon DEF Recorded
  <1> QED
    BY <1>12, Zenon DEF Received

LEMMA FileStep ==
    ASSUME CodecInv, File
    PROVE  CodecInv'
  <1>1. filed \in Seq(Reports) /\ beat \in {0, 4} /\ crossed \in BOOLEAN
    BY Zenon DEF CodecInv
  <1>2. PICK r \in Reports : filed' = Append(filed, r)
    BY Zenon DEF File
  <1>3. /\ chunk = 0 /\ chunk' = 1 /\ UNCHANGED <<beat, beats, stream, crossed>>
        /\ UNCHANGED <<want, header, records>>
    BY Zenon DEF File, SameServer
  <1>4. /\ filed' \in Seq(Reports) /\ filed' # << >> /\ Len(filed') = Len(filed) + 1
        /\ Len(filed) \in Nat
    BY <1>1, <1>2, AppendProperties
  <1>5. ASSUME ~ crossed' PROVE Undisturbed'
    <2>1. Undisturbed
      BY <1>3, <1>5, Zenon DEF CodecInv
    <2>2. PICK n, p, f : Way(n, p, f)
      BY <2>1, Zenon DEF Undisturbed
    <2>3. stream \in Seq(Byte) /\ Partial \in Seq(Byte)
      BY <2>2, WayFacts, Zenon
    <2>4. Sent' = Sent
      <3> DEFINE l == Len(filed)
                 k == Len(filed')
      <3>1. Sent = 2 * l - 0
        BY <1>3, Zenon DEF Sent
      <3>2. Sent' = 2 * k - 2
        BY <1>3 DEF Sent
      <3>3. l \in Nat /\ k = l + 1
        BY <1>4, Zenon
      <3> HIDE DEF l, k
      <3> QED
        BY <3>1, <3>2, <3>3
    <2>5. Partial' = Partial
      <3>1. 0 \notin {2, 4} /\ 1 \notin {2, 4}
        OBVIOUS
      <3> QED
        BY <1>3, <3>1, Zenon DEF Partial
    <2>6. << >> \in Seq(Byte) /\ stream' = stream \o << >> /\ Partial' = Partial \o << >>
      BY <1>3, <2>3, <2>5, ConcatEmptySeq
    <2>7. Recorded' /\ Received' = Received
      BY <1>2, <1>3, <2>1, RecordedKept, Zenon
    <2>8. (\E m, q, g : Way(m, q, g))'
      BY <1>2, <2>2, <2>4, <2>6, <2>7, Lengthen, Zenon
    <2>9. beat' # 0 => chunk' <= 1
      BY <1>3
    <2> QED
      BY <2>7, <2>8, <2>9, Zenon DEF Undisturbed
  <1>6. chunk' \in 0 .. 4 /\ beat' \in {0, 4} /\ crossed' \in BOOLEAN
    BY <1>1, <1>3
  <1> QED
    BY <1>4, <1>5, <1>6, Zenon DEF CodecInv

\* A send of a report, when the heartbeat thread is not between its own.
LEMMA ChunkWay ==
    ASSUME CodecInv, Undisturbed, SendChunk, beat = 0
    PROVE  (\E m, q, g : Way(m, q, g))'
  <1> DEFINE r == Last(filed)
             l == Len(filed)
  <1>1. PICK n, p, f : Way(n, p, f)
    BY Zenon DEF Undisturbed
  <1>2. /\ chunk # 0 /\ stream' = stream \o Chunks(r)[chunk]
        /\ chunk' = (IF chunk = 4 THEN 0 ELSE chunk + 1)
        /\ UNCHANGED <<filed, beat, beats>> /\ UNCHANGED <<want, header, records>>
    BY Zenon DEF SendChunk, SameServer
  <1>3. chunk = 1 \/ chunk = 2 \/ chunk = 3 \/ chunk = 4
    BY <1>2 DEF CodecInv
  <1>4. l \in Nat /\ l >= 1 /\ Part(2 * l - 1) = SerializeHeader(r) /\ Part(2 * l) = SerializeDescription(r)
    BY <1>2, LastParts, Zenon
  <1>5. \A i \in 1 .. 4 : Chunks(r)[i] \in Seq(Byte)
    BY <1>2, ChunkBytes, Zenon
  <1>6. /\ Chunks(r)[1] = AppendInt(Len(SerializeHeader(r))) /\ Chunks(r)[2] = SerializeHeader(r)
        /\ Chunks(r)[3] = AppendInt(Len(SerializeDescription(r))) /\ Chunks(r)[4] = SerializeDescription(r)
    BY ChunksSent, Zenon
  <1>7. Received' = Received
    BY <1>2, Zenon DEF Received
  <1>8. p[n] = Sent
    BY <1>1, Zenon DEF Way
  <1>a. beat' = 0
    BY <1>2
  <1>b. chunk \in 1 .. 4 /\ 2 \in 1 .. 4 /\ 4 \in 1 .. 4
    BY <1>3
  <1> HIDE DEF r, l
  <1>9. CASE chunk = 1 \/ chunk = 3
    <2>1. PICK x \in Seq(Byte) : x = Chunks(r)[chunk]
      BY <1>5, <1>b, Zenon
    <2>2. Partial = << >>
      <3>1. 1 \notin {2, 4} /\ 3 \notin {2, 4}
        OBVIOUS
      <3> QED
        BY <1>9, <3>1, Zenon DEF Partial
    <2>3. chunk' \in {2, 4} /\ chunk' - 1 = chunk
      BY <1>2, <1>9
    <2>4. Partial' = x
      BY <1>2, <1>a, <2>1, <2>3, Zenon DEF Partial, r
    <2>5. Partial' = Partial \o x
      BY <2>2, <2>4, ConcatEmptySeq, Zenon
    <2>6. Sent' = Sent
      <3>1. chunk = 1 => chunk' = 2
        BY <1>2
      <3>2. chunk = 3 => chunk' = 4
        BY <1>2
      <3>3. Len(filed') = Len(filed)
        BY <1>2
      <3>4. Sent = 2 * l - (IF chunk = 1 THEN 2 ELSE 1)
        BY <1>9 DEF Sent, l
      <3>5. Sent' = 2 * l - (IF chunk = 1 THEN 2 ELSE 1)
        BY <1>9, <3>1, <3>2, <3>3 DEF Sent, l
      <3> QED
        BY <3>4, <3>5, Zenon
    <2> QED
      BY <1>1, <1>2, <1>7, <2>1, <2>5, <2>6, Lengthen, Zenon
  <1>10. CASE chunk = 2
    <2>1. PICK x \in Seq(Byte) : x = Chunks(r)[2]
      BY <1>5, <1>b, Zenon
    <2>2. Partial = AppendInt(Len(x))
      <3>1. 2 \in {2, 4} /\ 2 - 1 = 1
        OBVIOUS
      <3> QED
        BY <1>6, <1>10, <2>1, <3>1, Zenon DEF Partial, r
    <2>3. Sent = 2 * l - 2 /\ Sent' = 2 * l - 1
      BY <1>2, <1>10 DEF Sent, l
    <2>4. PICK c \in Nat : c = Sent'
      <3>1. 2 * l - 1 \in Nat
        BY <1>4
      <3> QED
        BY <2>3, <3>1, Zenon
    <2>5. c = p[n] + 1 /\ c # p[n]
      BY <1>4, <1>8, <2>3, <2>4
    <2>6. Body(p[n], c) = x
      BY <1>4, <1>6, <2>1, <2>3, <2>4, <2>5, Zenon DEF Body
    <2>7. Partial \o x = Wire(p[n], c)
      BY <2>2, <2>6, Zenon DEF Wire
    <2>8. Partial' = << >>
      <3>1. 3 \notin {2, 4} /\ chunk' = 3
        BY <1>2, <1>10
      <3> QED
        BY <1>a, <3>1, Zenon DEF Partial
    <2> QED
      BY <1>1, <1>2, <1>7, <1>10, <2>1, <2>4, <2>5, <2>7, <2>8, Complete, Zenon
  <1>11. CASE chunk = 4
    <2>1. PICK x \in Seq(Byte) : x = Chunks(r)[4]
      BY <1>5, <1>b, Zenon
    <2>2. Partial = AppendInt(Len(x))
      <3>1. 4 \in {2, 4} /\ 4 - 1 = 3
        OBVIOUS
      <3> QED
        BY <1>6, <1>11, <2>1, <3>1, Zenon DEF Partial, r
    <2>3. Sent = 2 * l - 1 /\ Sent' = 2 * l
      BY <1>2, <1>4, <1>11 DEF Sent, l
    <2>4. PICK c \in Nat : c = Sent'
      <3>1. 2 * l \in Nat
        BY <1>4
      <3> QED
        BY <2>3, <3>1, Zenon
    <2>5. c = p[n] + 1 /\ c # p[n]
      BY <1>4, <1>8, <2>3, <2>4
    <2>6. Body(p[n], c) = x
      BY <1>4, <1>6, <2>1, <2>3, <2>4, <2>5, Zenon DEF Body
    <2>7. Partial \o x = Wire(p[n], c)
      BY <2>2, <2>6, Zenon DEF Wire
    <2>8. Partial' = << >>
      <3>1. 0 \notin {2, 4} /\ chunk' = 0
        BY <1>2, <1>11
      <3> QED
        BY <1>a, <3>1, Zenon DEF Partial
    <2> QED
      BY <1>1, <1>2, <1>7, <1>11, <2>1, <2>4, <2>5, <2>7, <2>8, Complete, Zenon
  <1> QED
    BY <1>3, <1>9, <1>10, <1>11, Zenon

LEMMA SendChunkStep ==
    ASSUME CodecInv, SendChunk
    PROVE  CodecInv'
  <1>1. /\ filed \in Seq(Reports) /\ beat \in {0, 4} /\ crossed \in BOOLEAN /\ chunk \in 0 .. 4
        /\ filed # << >>
    BY Zenon DEF CodecInv, SendChunk
  <1>2. /\ chunk # 0 /\ chunk' = (IF chunk = 4 THEN 0 ELSE chunk + 1)
        /\ crossed' = (crossed \/ beat # 0)
        /\ UNCHANGED <<filed, beat, beats>> /\ UNCHANGED <<want, header, records>>
    BY Zenon DEF SendChunk, SameServer
  <1>3. ASSUME ~ crossed' PROVE Undisturbed'
    <2>1. Undisturbed /\ beat = 0
      BY <1>2, <1>3, Zenon DEF CodecInv
    <2>2. Recorded'
      BY <1>2, <2>1, RecordedKept, Zenon
    <2>3. beat' # 0 => chunk' <= 1
      BY <1>2, <2>1
    <2>4. (\E m, q, g : Way(m, q, g))'
      BY <2>1, ChunkWay, Zenon
    <2> QED
      BY <2>2, <2>3, <2>4, Zenon DEF Undisturbed
  <1>4. filed' \in Seq(Reports) /\ filed' # << >> /\ chunk' \in 0 .. 4 /\ beat' \in {0, 4}
    BY <1>1, <1>2
  <1>5. crossed' \in BOOLEAN
    BY <1>2, Zenon
  <1> QED
    BY <1>3, <1>4, <1>5, Zenon DEF CodecInv

LEMMA BeatBytes ==
    /\ AppendInt(4) \in Seq(Byte) /\ AppendInt(TypeHeartbeat) \in Seq(Byte)
    /\ Len(AppendInt(TypeHeartbeat)) = 4
  <1>1. 4 \in Nat /\ TypeHeartbeat \in Nat
    BY DEF TypeHeartbeat
  <1> QED
    BY <1>1, IntLength, Zenon

\* A heartbeat is begun, when no report is.
LEMMA BeatLengthStep ==
    ASSUME CodecInv, BeatLength
    PROVE  CodecInv'
  <1>1. filed \in Seq(Reports) /\ crossed \in BOOLEAN /\ chunk \in 0 .. 4 /\ (chunk # 0 => filed # << >>)
    BY Zenon DEF CodecInv
  <1>2. /\ beat = 0 /\ beat' = 4 /\ stream' = stream \o AppendInt(4)
        /\ crossed' = (crossed \/ chunk \in 2 .. 4)
        /\ UNCHANGED <<filed, chunk>> /\ UNCHANGED <<want, header, records>>
    BY Zenon DEF BeatLength, SameServer
  <1>3. ASSUME ~ crossed' PROVE Undisturbed'
    <2>1. Undisturbed /\ chunk \notin 2 .. 4
      BY <1>2, <1>3, Zenon DEF CodecInv
    <2>2. chunk \notin {2, 4} /\ chunk' <= 1
      BY <1>1, <1>2, <2>1
    <2>3. Recorded' /\ Received' = Received
      BY <1>2, <2>1, RecordedKept, Zenon
    <2>4. PICK n, p, f : Way(n, p, f)
      BY <2>1, Zenon DEF Undisturbed
    <2>5. Partial = << >>
      BY <1>2, <2>2, Zenon DEF Partial
    <2>6. Partial' = AppendInt(4)
      <3>1. beat' # 0
        BY <1>2
      <3> QED
        BY <3>1, Zenon DEF Partial
    <2>7. Partial' = Partial \o AppendInt(4)
      BY <2>5, <2>6, BeatBytes, ConcatEmptySeq, Zenon
    <2>8. Sent' = Sent
      BY <1>2, Zenon DEF Sent
    <2>9. (\E m, q, g : Way(m, q, g))'
      BY <1>2, <2>3, <2>4, <2>7, <2>8, BeatBytes, Lengthen, Zenon
    <2> QED
      BY <2>2, <2>3, <2>9, Zenon DEF Undisturbed
  <1>4. beat' \in {0, 4} /\ crossed' \in BOOLEAN
    BY <1>2, Zenon
  <1> QED
    BY <1>1, <1>2, <1>3, <1>4, Zenon DEF CodecInv

\* A heartbeat is completed: a packet between two reports.
LEMMA BeatTypeStep ==
    ASSUME CodecInv, BeatType
    PROVE  CodecInv'
  <1>1. filed \in Seq(Reports) /\ crossed \in BOOLEAN /\ chunk \in 0 .. 4 /\ (chunk # 0 => filed # << >>)
    BY Zenon DEF CodecInv
  <1>2. /\ beat # 0 /\ beat' = 0 /\ stream' = stream \o AppendInt(TypeHeartbeat)
        /\ UNCHANGED <<filed, chunk, beats, crossed>> /\ UNCHANGED <<want, header, records>>
    BY Zenon DEF BeatType, SameServer
  <1>3. ASSUME ~ crossed' PROVE Undisturbed'
    <2>1. Undisturbed /\ chunk <= 1
      BY <1>2, <1>3, Zenon DEF CodecInv, Undisturbed
    <2>2. chunk \notin {2, 4} /\ (chunk = 0 \/ chunk = 1)
      BY <1>1, <2>1
    <2>3. Recorded' /\ Received' = Received
      BY <1>2, <2>1, RecordedKept, Zenon
    <2>4. PICK n, p, f : Way(n, p, f)
      BY <2>1, Zenon DEF Undisturbed
    <2>5. Partial = AppendInt(4) /\ Partial' = << >>
      BY <1>2, <2>2, Zenon DEF Partial
    <2>6. Sent' = Sent
      BY <1>2, Zenon DEF Sent
    <2>7. Sent \in Nat /\ Sent % 2 = 0
      <3> DEFINE l == Len(filed)
      <3>1. l \in Nat /\ Sent \in Nat
        BY <1>1, Counts, Zenon
      <3>2. Sent = 2 * l - 0 \/ Sent = 2 * l - 2
        BY <2>2 DEF Sent
      <3> HIDE DEF l
      <3> QED
        BY <3>1, <3>2
    <2>8. PICK c \in Nat : c = Sent'
      BY <2>6, <2>7, Zenon
    <2>9. c = p[n] /\ p[n] % 2 = 0
      BY <2>4, <2>6, <2>7, <2>8, Zenon DEF Way
    <2>10. Body(p[n], c) = AppendInt(TypeHeartbeat)
      BY <2>9, Zenon DEF Body
    <2>11. Partial \o AppendInt(TypeHeartbeat) = Wire(p[n], c)
      BY <2>5, <2>10, BeatBytes, Zenon DEF Wire
    <2>12. (\E m, q, g : Way(m, q, g))'
      BY <1>2, <2>3, <2>4, <2>5, <2>8, <2>9, <2>11, BeatBytes, Complete, Zenon
    <2>13. beat' # 0 => chunk' <= 1
      BY <1>2
    <2> QED
      BY <2>3, <2>12, <2>13, Zenon DEF Undisturbed
  <1>4. beat' \in {0, 4}
    BY <1>2, Zenon
  <1> QED
    BY <1>1, <1>2, <1>3, <1>4, Zenon DEF CodecInv

-----------------------------------------------------------------------
(* The steps of the server.                                                                        *)

\* A length without what it is the length of makes the server wait.
LEMMA Waiting ==
    ASSUME CodecInv, stream = Partial, HasInt(stream, 1)
    PROVE  Prefix \in 1 .. MaxPacket /\ Prefix \notin 1 .. Len(stream) - 4
  <1> DEFINE r == Last(filed)
  <1>1. Len(<< >>) = 0 /\ ~ (1 + 3 <= 0)
    OBVIOUS
  <1>2. stream # << >>
    BY <1>1, Zenon DEF HasInt
  <1>3. CASE beat # 0
    <2>1. stream = AppendInt(4)
      BY <1>3, Zenon DEF Partial
    <2>2. 4 \in Nat /\ 4 >= 4 /\ 4 <= MaxPacket
      BY Limit
    <2> QED
      BY <2>1, <2>2, LengthRead, Zenon
  <1>4. CASE beat = 0
    <2>1. chunk \in {2, 4} /\ stream = Chunks(r)[chunk - 1]
      BY <1>2, <1>4, Zenon DEF Partial
    <2>2. chunk # 0 /\ (chunk - 1 = 1 \/ chunk - 1 = 3)
      BY <2>1
    <2>3. r \in Reports
      BY <2>2, LastParts, Zenon
    <2> DEFINE hl == Len(SerializeHeader(r))
               dl == Len(SerializeDescription(r))
    <2>4. hl \in Nat /\ hl >= 36 /\ hl <= MaxPacket /\ dl \in Nat /\ dl >= 12 /\ dl <= MaxPacket
      BY <2>3, HeaderRead, DescriptionRead, Zenon
    <2>5. stream = AppendInt(hl) \/ stream = AppendInt(dl)
      BY <2>1, <2>2, ChunksSent, Zenon
    <2> HIDE DEF hl, dl
    <2>6. hl >= 4 /\ dl >= 4
      BY <2>4
    <2> QED
      BY <2>4, <2>5, <2>6, LengthRead, Zenon
  <1> QED
    BY <1>3, <1>4, Zenon

\* Otherwise a packet is there.
LEMMA Arrived ==
    ASSUME CodecInv, NEW n, NEW p, NEW f, Way(n, p, f), n # 0
    PROVE  /\ 0 < n /\ p[0] = Received /\ Leg(p[0], p[1], f[0], f[1]) /\ p[1] <= 2 * Len(filed)
           /\ Packet = Body(p[0], p[1]) /\ Prefix = Len(Packet)
           /\ Prefix \in 1 .. MaxPacket /\ Prefix \in 1 .. Len(stream) - 4
           /\ SubSeq(stream, 5 + Prefix, Len(stream)) = f[1]
  <1>0. Passage(n, p, f)
    BY WayFacts, Zenon
  <1>1. n \in Nat
    BY <1>0, Zenon DEF Passage
  <1>2. 0 < n /\ 0 \in 0 .. n /\ 1 \in 0 .. n /\ 0 + 1 = 1
    BY <1>1
  <1>3. /\ p[0] = Received /\ Leg(p[0], p[1], f[0], f[1]) /\ p[1] <= 2 * Len(filed) /\ f[0] = stream
        /\ p[0] \in Nat /\ p[1] \in Nat /\ f[1] \in Seq(Byte)
    <2>1. Leg(p[0], p[0 + 1], f[0], f[0 + 1]) /\ p[0 + 1] <= 2 * Len(filed)
      BY <1>0, <1>2, Zenon DEF Passage
    <2>2. p[0] = Received /\ f[0] = stream /\ p[0] \in Nat /\ p[1] \in Nat /\ f[1] \in Seq(Byte)
      BY <1>0, <1>2, Zenon DEF Passage
    <2> QED
      BY <1>2, <2>1, <2>2, Zenon
  <1> DEFINE a == p[0]
             b == p[1]
             t == f[1]
             d == Body(a, b)
  <1>4. a \in Nat /\ b \in Nat /\ (b = a \/ b = a + 1) /\ b <= 2 * Len(filed) /\ stream = Wire(a, b) \o t
    BY <1>3, Zenon DEF Leg
  <1>5. filed \in Seq(Reports)
    BY Zenon DEF CodecInv
  <1> HIDE DEF a, b
  <1>6. d \in Seq(Byte) /\ Len(d) >= 4 /\ Len(d) <= MaxPacket
    BY <1>4, <1>5, BodyBytes, Zenon
  <1>7. stream = (AppendInt(Len(d)) \o d) \o t
    BY <1>4, Zenon DEF Wire
  <1>8. t \in Seq(Byte)
    BY <1>3, Zenon
  <1> HIDE DEF d, t
  <1>9. /\ Prefix = Len(d) /\ Packet = d /\ Prefix \in 1 .. MaxPacket /\ Prefix \in 1 .. Len(stream) - 4
        /\ SubSeq(stream, 5 + Prefix, Len(stream)) = t
    BY <1>6, <1>7, <1>8, PacketRead, Zenon
  <1> QED
    BY <1>2, <1>3, <1>9, Zenon DEF a, b, d, t

\* What a step of the server leaves of the client.
LEMMA ClientKept ==
    ASSUME CodecInv, UNCHANGED <<filed, chunk, beat, beats, crossed>>, ~ crossed => Undisturbed'
    PROVE  CodecInv' /\ Sent' = Sent /\ Partial' = Partial
  BY Zenon DEF CodecInv, Sent, Partial

\* No length is out of range.
LEMMA ReceiveLengthStep ==
    ASSUME CodecInv, ReceiveLength
    PROVE  CodecInv'
  <1>1. HasInt(stream, 1) /\ Prefix \notin 1 .. MaxPacket
    BY Zenon DEF ReceiveLength
  <1>2. crossed
    <2> SUFFICES ASSUME ~ crossed PROVE FALSE
      OBVIOUS
    <2>1. PICK n, p, f : Way(n, p, f)
      BY Zenon DEF CodecInv, Undisturbed
    <2>2. CASE n = 0
      <3>1. stream = Partial
        BY <2>1, <2>2, Zenon DEF Way
      <3> QED
        BY <1>1, <3>1, Waiting, Zenon
    <2>3. CASE n # 0
      BY <1>1, <2>1, <2>3, Arrived, Zenon
    <2> QED
      BY <2>2, <2>3, Zenon
  <1>3. UNCHANGED <<filed, chunk, beat, beats, crossed>>
    BY Zenon DEF ReceiveLength, SameClient
  <1> QED
    BY <1>2, <1>3, ClientKept, Zenon

\* A header in front is the next report's, and what it is read as; a heartbeat is dropped.
LEMMA ReceivePacketStep ==
    ASSUME CodecInv, ReceivePacket
    PROVE  CodecInv'
  <1>1. /\ want = "packet" /\ HasInt(stream, 1) /\ Prefix \in 1 .. Len(stream) - 4
        /\ UNCHANGED <<filed, chunk, beat, beats, crossed>>
    BY Zenon DEF ReceivePacket, SameClient
  <1>2. ASSUME ~ crossed PROVE Undisturbed'
    <2> DEFINE k == Len(records)
               r == filed[Len(records) + 1]
    <2>1. Undisturbed /\ Recorded
      BY <1>2, Zenon DEF CodecInv, Undisturbed
    <2>2. PICK n, p, f : Way(n, p, f)
      BY <2>1, Zenon DEF Undisturbed
    <2>3. n # 0
      <3>1. n = 0 => stream = Partial
        BY <2>2, Zenon DEF Way
      <3> QED
        BY <1>1, <3>1, Waiting, Zenon
    <2>4. /\ 0 < n /\ p[0] = Received /\ Leg(p[0], p[1], f[0], f[1]) /\ p[1] <= 2 * Len(filed)
          /\ Packet = Body(p[0], p[1]) /\ Prefix = Len(Packet)
          /\ SubSeq(stream, 5 + Prefix, Len(stream)) = f[1]
      BY <2>2, <2>3, Arrived, Zenon
    <2>5. k \in Nat /\ Received = 2 * k
      <3>1. k \in Nat
        BY <2>1 DEF Recorded
      <3>2. want # "description"
        BY <1>1
      <3>3. Received = 2 * k + 0
        BY <3>2, Zenon DEF Received
      <3> HIDE DEF k
      <3> QED
        BY <3>1, <3>3
    <2>6. Sent' = Sent /\ Partial' = Partial /\ filed' = filed
      BY <1>1, Zenon DEF Sent, Partial
    <2>7. TypeHeartbeat \in Nat /\ Fits(TypeHeartbeat) /\ TypeReport # TypeHeartbeat
      BY SMT DEF TypeHeartbeat, TypeReport, Fits
    <2>8. beat' # 0 => chunk' <= 1
      BY <1>1, <2>1, Zenon DEF Undisturbed
    <2>9. CASE p[1] = p[0]
      <3>1. Packet = AppendInt(TypeHeartbeat)
        BY <2>4, <2>9, Zenon DEF Body
      <3>2. Prefix = 4 /\ IntAt(Packet, 1) = TypeHeartbeat
        BY <2>4, <2>7, <3>1, BeatBytes, IntBytes, Zenon
      <3>3. ~ (Prefix < 4)
        BY <3>2
      <3>4. stream' = f[1] /\ UNCHANGED <<want, header, records>>
        BY <2>4, <3>2, <3>3, Zenon DEF ReceivePacket
      <3>5. Recorded' /\ Received' = p[1]
        BY <1>1, <2>1, <2>4, <2>9, <3>4, RecordedKept, Zenon
      <3>6. (\E m, q, g : Way(m, q, g))'
        BY <2>2, <2>4, <2>6, <3>4, <3>5, Take, Zenon
      <3> QED
        BY <2>8, <3>5, <3>6, Zenon DEF Undisturbed
    <2>10. CASE p[1] # p[0]
      <3>1. p[1] = 2 * k + 1
        BY <2>4, <2>5, <2>10, Zenon DEF Leg
      <3>2. Packet = Part(2 * k + 1)
        BY <2>4, <2>10, <3>1, Zenon DEF Body
      <3>3. filed \in Seq(Reports) /\ Len(filed) \in Nat /\ 2 * k + 1 <= 2 * Len(filed)
        BY <2>4, <3>1, Counts, Zenon DEF CodecInv
      <3>4. k + 1 \in 1 .. Len(filed)
        <4> DEFINE l == Len(filed)
        <4>1. l \in Nat /\ 2 * k + 1 <= 2 * l
          BY <3>3, Zenon
        <4> HIDE DEF k, l
        <4>2. k + 1 \in 1 .. l
          BY <2>5, <4>1
        <4> QED
          BY <4>2, Zenon DEF l
      <3>5. r \in Reports
        BY <3>3, <3>4, ElementOfSeq, Zenon
      <3>6. Packet = SerializeHeader(r)
        <4> HIDE DEF k
        <4>1. (2 * k + 1) % 2 = 1 /\ (2 * k + 1 + 1) \div 2 = k + 1
          BY <2>5
        <4> QED
          BY <3>2, <4>1, Zenon DEF Part, k
      <3> HIDE DEF r
      <3>7. /\ Len(Packet) \in Nat /\ Len(Packet) >= 36 /\ IntAt(Packet, 1) # TypeHeartbeat
            /\ HeaderReadable(Packet) /\ DeserializeHeader(Packet) = Headed(r)
        BY <2>7, <3>5, <3>6, HeaderRead, Zenon
      <3> DEFINE pl == Prefix
      <3>8. pl \in Nat /\ pl >= 36
        BY <2>4, <3>7, Zenon
      <3> HIDE DEF pl
      <3>9. ~ (pl < 4)
        BY <3>8
      <3>10. ~ (Prefix < 4)
        BY <3>9, Zenon DEF pl
      <3>11. /\ header' = Headed(r) /\ want' = "description"
             /\ stream' = f[1] /\ UNCHANGED records
        BY <2>4, <3>7, <3>10, Zenon DEF ReceivePacket
      <3>12. Recorded'
        <4>1. want' \in {"packet", "description"}
          BY <3>11, Zenon
        <4>2. header' = Headed(filed'[Len(records') + 1])
          BY <2>6, <3>11, Zenon DEF r
        <4> QED
          BY <2>1, <2>6, <3>11, <4>1, <4>2, Zenon DEF Recorded
      <3>13. Received' = p[1]
        BY <3>1, <3>11, Zenon DEF Received
      <3>14. (\E m, q, g : Way(m, q, g))'
        BY <2>2, <2>4, <2>6, <3>11, <3>13, Take, Zenon
      <3> QED
        BY <2>8, <3>12, <3>14, Zenon DEF Undisturbed
    <2> QED
      BY <2>9, <2>10, Zenon
  <1> QED
    BY <1>1, <1>2, ClientKept, Zenon

\* A description in front is that of the report whose header was received, which is recorded.
LEMMA ReceiveDescriptionStep ==
    ASSUME CodecInv, ReceiveDescription
    PROVE  CodecInv'
  <1>1. /\ want = "description" /\ HasInt(stream, 1) /\ Prefix \in 1 .. Len(stream) - 4
        /\ UNCHANGED <<filed, chunk, beat, beats, crossed>>
    BY Zenon DEF ReceiveDescription, SameClient
  <1>2. ASSUME ~ crossed PROVE Undisturbed'
    <2> DEFINE k == Len(records)
               r == filed[Len(records) + 1]
    <2>1. Undisturbed /\ Recorded
      BY <1>2, Zenon DEF CodecInv, Undisturbed
    <2>2. PICK n, p, f : Way(n, p, f)
      BY <2>1, Zenon DEF Undisturbed
    <2>3. n # 0
      <3>1. n = 0 => stream = Partial
        BY <2>2, Zenon DEF Way
      <3> QED
        BY <1>1, <3>1, Waiting, Zenon
    <2>4. /\ 0 < n /\ p[0] = Received /\ Leg(p[0], p[1], f[0], f[1]) /\ p[1] <= 2 * Len(filed)
          /\ Packet = Body(p[0], p[1]) /\ Prefix = Len(Packet)
          /\ SubSeq(stream, 5 + Prefix, Len(stream)) = f[1]
      BY <2>2, <2>3, Arrived, Zenon
    <2>5. k \in Nat /\ Received = 2 * k + 1
      <3>1. k \in Nat
        BY <2>1 DEF Recorded
      <3> QED
        BY <1>1, <3>1, Zenon DEF Received
    <2>6. Sent' = Sent /\ Partial' = Partial /\ filed' = filed
      BY <1>1, Zenon DEF Sent, Partial
    <2>7. beat' # 0 => chunk' <= 1
      BY <1>1, <2>1, Zenon DEF Undisturbed
    <2>8. p[1] = 2 * k + 2 /\ p[1] # p[0] /\ p[1] = 2 * (k + 1)
      <3>1. p[1] = (2 * k + 1) + 1 \/ (p[1] = 2 * k + 1 /\ (2 * k + 1) % 2 = 0)
        BY <2>4, <2>5, Zenon DEF Leg
      <3>2. p[0] = 2 * k + 1
        BY <2>4, <2>5, Zenon
      <3> HIDE DEF k
      <3> QED
        BY <2>5, <3>1, <3>2
    <2>9. Packet = Part(2 * k + 2)
      BY <2>4, <2>8, Zenon DEF Body
    <2>10. filed \in Seq(Reports) /\ Len(filed) \in Nat /\ 2 * k + 2 <= 2 * Len(filed)
      BY <2>4, <2>8, Counts, Zenon DEF CodecInv
    <2>11. k + 1 \in 1 .. Len(filed)
      <3> DEFINE l == Len(filed)
      <3>1. l \in Nat /\ 2 * k + 2 <= 2 * l
        BY <2>10, Zenon
      <3> HIDE DEF k, l
      <3>2. k + 1 \in 1 .. l
        BY <2>5, <3>1
      <3> QED
        BY <3>2, Zenon DEF l
    <2>12. r \in Reports
      BY <2>10, <2>11, ElementOfSeq, Zenon
    <2>13. Packet = SerializeDescription(r)
      <3> HIDE DEF k
      <3>1. (2 * k + 2) % 2 # 1 /\ (2 * k + 2) \div 2 = k + 1
        BY <2>5
      <3> QED
        BY <2>9, <3>1, Zenon DEF Part, k
    <2>14. header = Headed(r)
      BY <1>1, <2>1, Zenon DEF Recorded
    <2> HIDE DEF r
    <2>15. DescriptionReadable(Packet) /\ DeserializeDescription(Packet) = Described(r)
      BY <2>12, <2>13, DescriptionRead, Zenon
    <2> DEFINE d == DeserializeDescription(Packet)
    <2>16. /\ records' = Append(records,
                 [hazard |-> header.hazard, zone |-> header.zone, severity |-> header.severity,
                  officer |-> header.officer, text |-> d.text, verified |-> header.verified /\ d.verified])
           /\ want' = "packet" /\ stream' = f[1]
      BY <2>4, <2>15, Zenon DEF ReceiveDescription
    <2>17. /\ header.hazard = r.hazard /\ header.zone = r.zone /\ header.severity = r.severity
           /\ header.officer = r.officer /\ d.text = CString(r.text)
           /\ (header.verified /\ d.verified) = (Checksum(CString(r.text)) = Checksum(r.text))
      <3>1. header.hazard = r.hazard /\ header.zone = r.zone /\ header.severity = r.severity
        BY <2>14, Zenon DEF Headed
      <3>2. header.officer = r.officer /\ header.verified = TRUE
        BY <2>14, Zenon DEF Headed
      <3>3. d.text = CString(r.text) /\ d.verified = (Checksum(CString(r.text)) = Checksum(r.text))
        <4> DEFINE text == CString(r.text)
                   good == Checksum(CString(r.text)) = Checksum(r.text)
        <4>1. d = [text |-> text, verified |-> good]
          BY <2>15, Zenon DEF Described
        <4> HIDE DEF d, text, good
        <4>2. d.text = text /\ d.verified = good
          BY <4>1, Zenon
        <4> QED
          BY <4>2, Zenon DEF text, good
      <3> HIDE DEF d
      <3> QED
        BY <3>1, <3>2, <3>3, Zenon
    <2> HIDE DEF d
    <2>18. records' = Append(records, AsRecorded(r))
      BY <2>16, <2>17, Zenon DEF AsRecorded
    <2> DEFINE v == AsRecorded(r)
               S == {AsRecorded(o) : o \in Reports}
    <2>19. v \in S /\ records \in Seq(S)
      BY <2>1, <2>12, Zenon DEF Recorded
    <2>a. \A i \in 1 .. Len(records) : i <= Len(filed) /\ records[i] = AsRecorded(filed[i])
      BY <2>1, Zenon DEF Recorded
    <2> HIDE DEF v, S
    <2>20. records' = Append(records, v)
      BY <2>18, Zenon DEF v
    <2>21. /\ records' \in Seq(S) /\ Len(records') = k + 1
           /\ \A i \in 1 .. k : records'[i] = records[i]
           /\ records'[k + 1] = v
      BY <2>19, <2>20, AppendProperties
    <2>22. ASSUME NEW i \in 1 .. Len(records') PROVE i <= Len(filed') /\ records'[i] = AsRecorded(filed'[i])
      <3>1. i \in 1 .. k \/ i = k + 1
        <4> HIDE DEF k
        <4> QED
          BY <2>5, <2>21, <2>22
      <3>2. CASE i \in 1 .. k
        BY <2>6, <2>21, <2>a, <3>2, Zenon
      <3>3. CASE i = k + 1
        <4>1. i <= Len(filed)
          BY <2>10, <2>11, <3>3
        <4>2. records'[i] = AsRecorded(filed[i])
          BY <2>21, <3>3, Zenon DEF v, r
        <4> QED
          BY <2>6, <4>1, <4>2, Zenon
      <3> QED
        BY <3>1, <3>2, <3>3, Zenon
    <2>23. Recorded'
      <3>1. want' \in {"packet", "description"} /\ want' # "description"
        BY <2>16
      <3>2. records' \in Seq({AsRecorded(o) : o \in Reports})
        BY <2>21, Zenon DEF S
      <3> QED
        BY <2>22, <3>1, <3>2, Zenon DEF Recorded
    <2>24. Received' = p[1]
      <3>1. want' # "description"
        BY <2>16
      <3>2. Received' = 2 * (k + 1) + 0
        BY <2>21, <3>1, Zenon DEF Received
      <3> HIDE DEF k
      <3>3. 2 * (k + 1) + 0 = 2 * (k + 1)
        BY <2>5
      <3> QED
        BY <2>8, <3>2, <3>3, Zenon
    <2>25. (\E m, q, g : Way(m, q, g))'
      BY <2>2, <2>4, <2>6, <2>16, <2>24, Take, Zenon
    <2> QED
      BY <2>7, <2>23, <2>25, Zenon DEF Undisturbed
  <1> QED
    BY <1>1, <1>2, ClientKept, Zenon

-----------------------------------------------------------------------
(* The invariant, and what follows from it.                                                        *)

LEMMA CodecInit == Init => CodecInv
  <1> SUFFICES ASSUME Init PROVE CodecInv
    OBVIOUS
  <1>1. /\ filed = << >> /\ chunk = 0 /\ beat = 0 /\ stream = << >> /\ want = "packet"
        /\ records = << >> /\ crossed = FALSE
    BY Zenon DEF Init
  <1>2. Len(<< >>) = 0 /\ << >> \in Seq(Byte) /\ << >> \in Seq(Reports) /\ 2 * 0 - 0 = 0 /\ 2 * 0 + 0 = 0
    OBVIOUS
  <1>3. Sent = 0 /\ Received = 0
    <2>1. want # "description"
      BY <1>1
    <2> QED
      BY <1>1, <1>2, <2>1, Zenon DEF Sent, Received
  <1>4. Partial = << >>
    <2>1. 0 \notin {2, 4}
      OBVIOUS
    <2> QED
      BY <1>1, <2>1, Zenon DEF Partial
  <1>5. Way(0, [i \in 0 .. 0 |-> 0], [i \in 0 .. 0 |-> << >>])
    <2> DEFINE p == [i \in 0 .. 0 |-> 0]
               f == [i \in 0 .. 0 |-> << >>]
    <2>1. 0 \in Nat /\ 0 \in 0 .. 0 /\ 0 <= 0
      OBVIOUS
    <2>2. \A i \in 0 .. 0 : i = 0 /\ ~ (i < 0)
      OBVIOUS
    <2>3. p \in [0 .. 0 -> Nat] /\ f \in [0 .. 0 -> Seq(Byte)] /\ p[0] = 0 /\ f[0] = << >>
      BY <1>2, <2>1, Zenon
    <2> HIDE DEF p, f
    <2>4. \A i, j \in 0 .. 0 : i <= j => p[i] <= p[j]
      BY <2>1, <2>2, <2>3, Zenon
    <2>5. p[0] = Received /\ p[0] = Sent /\ f[0] = stream /\ f[0] = Partial
      BY <1>1, <1>3, <1>4, <2>3, Zenon
    <2>6. Way(0, p, f)
      BY <2>1, <2>2, <2>3, <2>4, <2>5, Zenon DEF Way
    <2> QED
      BY <2>6, Zenon DEF p, f
  <1>6. Recorded
    <2>1. want \in {"packet", "description"} /\ want # "description"
      BY <1>1
    <2>2. \A S : << >> \in Seq(S)
      OBVIOUS
    <2>3. ~ \E i : i \in 1 .. 0
      OBVIOUS
    <2> QED
      BY <1>1, <1>2, <2>1, <2>2, <2>3, Zenon DEF Recorded
  <1>7. chunk \in 0 .. 4 /\ beat \in {0, 4}
    BY <1>1
  <1> QED
    BY <1>1, <1>2, <1>5, <1>6, <1>7, Zenon DEF CodecInv, Undisturbed

LEMMA CodecStep == CodecInv /\ [Next]_pcVars => CodecInv'
  <1> SUFFICES ASSUME CodecInv, [Next]_pcVars PROVE CodecInv'
    OBVIOUS
  <1>1. CASE File
    BY <1>1, FileStep, Zenon
  <1>2. CASE SendChunk
    BY <1>2, SendChunkStep, Zenon
  <1>3. CASE BeatLength
    BY <1>3, BeatLengthStep, Zenon
  <1>4. CASE BeatType
    BY <1>4, BeatTypeStep, Zenon
  <1>5. CASE ReceiveLength
    BY <1>5, ReceiveLengthStep, Zenon
  <1>6. CASE ReceivePacket
    BY <1>6, ReceivePacketStep, Zenon
  <1>7. CASE ReceiveDescription
    BY <1>7, ReceiveDescriptionStep, Zenon
  <1>8. CASE UNCHANGED pcVars
    <2>1. UNCHANGED <<filed, chunk, beat, beats, stream, want, header, records, crossed>>
      BY <1>8 DEF pcVars
    <2>2. \A a, b : Wire(a, b)' = Wire(a, b)
      BY <2>1, Zenon DEF Wire, Body, Part
    <2>3. \A a, b, s, t : Leg(a, b, s, t) => Leg(a, b, s, t)'
      BY <2>2, Zenon DEF Leg
    <2>4. Sent' = Sent /\ Received' = Received /\ Partial' = Partial
      BY <2>1, Zenon DEF Sent, Received, Partial
    <2>5. ASSUME NEW n, NEW p, NEW f, Way(n, p, f) PROVE Way(n, p, f)'
      BY <2>1, <2>3, <2>4, <2>5, Zenon DEF Way
    <2>6. Recorded => Recorded'
      BY <2>1, Zenon DEF Recorded
    <2>7. Undisturbed => Undisturbed'
      BY <2>1, <2>5, <2>6, Zenon DEF Undisturbed
    <2> QED
      BY <2>1, <2>7, Zenon DEF CodecInv
  <1> QED
    BY <1>1, <1>2, <1>3, <1>4, <1>5, <1>6, <1>7, <1>8, Zenon DEF Next

LEMMA CodecGives == CodecInv => RecordedAsSent
  <1> SUFFICES ASSUME CodecInv, ~ crossed
               PROVE  /\ want # "ended"
                      /\ IsPrefix(records, [i \in DOMAIN filed |-> AsRecorded(filed[i])])
                      /\ chunk = 0 /\ beat = 0 /\ stream = << >> => Len(records) = Len(filed)
    BY Zenon DEF RecordedAsSent
  <1> DEFINE S == {AsRecorded(r) : r \in Reports}
             t == [i \in DOMAIN filed |-> AsRecorded(filed[i])]
             k == Len(records)
             l == Len(filed)
  <1>1. /\ want \in {"packet", "description"} /\ records \in Seq(S) /\ filed \in Seq(Reports)
        /\ \A i \in 1 .. k : i <= l /\ records[i] = AsRecorded(filed[i])
    BY Zenon DEF CodecInv, Undisturbed, Recorded
  <1>2. PICK n, p, f : Way(n, p, f)
    BY Zenon DEF CodecInv, Undisturbed
  <1>3. k \in Nat /\ l \in Nat /\ DOMAIN filed = 1 .. l
    BY <1>1
  <1>4. t \in Seq(S) /\ Len(t) = l /\ \A i \in 1 .. l : t[i] = AsRecorded(filed[i])
    <2>1. \A i \in 1 .. l : AsRecorded(filed[i]) \in S
      BY <1>1, ElementOfSeq, Zenon
    <2> HIDE DEF S
    <2>2. t \in [1 .. l -> S] /\ \A i \in 1 .. l : t[i] = AsRecorded(filed[i])
      BY <1>3, <2>1, Zenon
    <2> HIDE DEF t, l
    <2>3. \A N \in Nat : \A g \in [1 .. N -> S] : g \in Seq(S) /\ Len(g) = N
      BY SMT
    <2> QED
      BY <1>3, <2>2, <2>3, Zenon
  <1>5. k <= l
    <2>1. k # 0 => k \in 1 .. k
      BY <1>3
    <2>2. k # 0 => k <= l
      BY <1>1, <2>1, Zenon
    <2> HIDE DEF k, l
    <2> QED
      BY <1>3, <2>2
  <1>6. \A i \in 1 .. k : records[i] = t[i]
    <2>1. \A i \in 1 .. k : i \in 1 .. l
      BY <1>3, <1>5
    <2> QED
      BY <1>1, <1>4, <2>1, Zenon
  <1>7. IsPrefix(records, t)
    <2> HIDE DEF S, t
    <2> QED
      BY <1>1, <1>4, <1>5, <1>6 DEF IsPrefix
  <1>8. ASSUME chunk = 0, beat = 0, stream = << >> PROVE k = l
    <2>1. n = 0
      <3>1. Len(stream) = 0 /\ ~ \E i : i \in 1 .. 0 - 4
        BY <1>8
      <3> QED
        BY <1>2, <3>1, Arrived, Zenon
    <2>2. Received = Sent
      BY <1>2, <2>1, Zenon DEF Way
    <2>3. Sent = 2 * l - 0
      BY <1>8, Zenon DEF Sent
    <2>4. Received = 2 * k + 0 \/ Received = 2 * k + 1
      BY Zenon DEF Received
    <2> HIDE DEF k, l
    <2> QED
      BY <1>3, <2>2, <2>3, <2>4
  <1> QED
    BY <1>1, <1>7, <1>8

\* Whatever reports are filed, however many and however long, of bytes of any values, as long as no
\* thread of the client sends between the sends of the other: the server reads the packets where the
\* client wrote them, records the reports field by field in the order filed, each text up to its first
\* 0, calls every report verified but one whose text loses bytes other than 0 in this way, and has
\* recorded all of them when nothing is left to receive (ServerSession.cpp:251-344 undoes
\* PacketSerializer.cpp).
THEOREM CodecCorrect == Spec => []RecordedAsSent
  <1>1. Init => CodecInv
    BY CodecInit
  <1>2. CodecInv /\ [Next]_pcVars => CodecInv'
    BY CodecStep
  <1>3. CodecInv => RecordedAsSent
    BY CodecGives
  <1> QED
    BY <1>1, <1>2, <1>3, PTL DEF Spec

=======================================================================
