----------------------- MODULE FODSystemDelivery ----------------------
(* Proof that the system delivers what ReportDelivery promises, in a session with no heartbeat: an *)
(* exchange that failed never leaves its answer for a later report, whatever faults strike and     *)
(* wherever, for every number of reports, every length of the packets and however much of what it  *)
(* waits for a failed receive has consumed.                                                        *)
(*                                                                                                *)
(* The server never loses its place: what is on its way to it are parts of reports, one after the  *)
(* other, from the one it has come to up to the one the client has come to.  The client either     *)
(* keeps its place in the answer to its current report, or has given up a bitmap.  The rest of     *)
(* that bitmap then lies between it and every answer that follows.  An exchange may take the       *)
(* bitmap's header for an answer, of which it reads 1032 bytes at most; it is then among the       *)
(* pixels, where the next exchange ends the session: no pixels are a length that it accepts.       *)
(*                                                                                                *)
(* With heartbeats neither end may know where it is in its stream.  The last part of the module    *)
(* proves what is left then: the answers leave the server in the order of its ledger, the client   *)
(* reads them from the front, and so never takes one again or one from before the last.            *)
EXTENDS FODSystemSafety, FODSystemLedger

-----------------------------------------------------------------------
(* Streams of whole chunks.                                                                        *)

\* The bytes of a chunk.
Size(c) == CASE c.kind = "int"    -> 4
             [] c.kind = "auth"   -> AuthLen(c.tag)
             [] c.kind = "byte"   -> 1
             [] c.kind = "header" -> HeaderLen
             [] c.kind = "desc"   -> DescLen
             [] c.kind = "text"   -> TextLen
             [] c.kind = "bitmap" -> BitmapLen
             [] OTHER             -> 0

\* No chunk has been read in part: each begins where the one before it ends.
Intact(s) ==
    /\ Spaced(s)
    /\ \A i \in DOMAIN s : s[i].end = (IF i = 1 THEN 0 ELSE s[i - 1].end) + Size(s[i])

\* What the lengths are known to be.
LEMMA Lengths ==
    /\ HeaderLen \in Nat /\ DescLen \in Nat /\ TextLen \in Nat /\ BitmapLen \in Nat
    /\ HeaderLen >= 36 /\ HeaderLen <= MaxPacket /\ DescLen >= 12 /\ DescLen <= MaxPacket
    /\ TextLen >= 7 /\ BitmapLen >= 1086 /\ BitmapLen > MaxResponse /\ BitmapLen <= MaxBitmap
  <1>1. MaxPacket \in Nat /\ MaxResponse = 1024 /\ MaxBitmap \in Nat /\ BitmapHeaderLen = 54
    BY DEF MaxPacket, MaxResponse, MaxBitmap, BitmapHeaderLen
  <1> QED
    BY <1>1, LengthsAssumption

LEMMA SizeType == ASSUME NEW c \in Chunks PROVE Size(c) \in Int
  <1>1. HeaderLen \in Int /\ DescLen \in Int /\ TextLen \in Int /\ BitmapLen \in Int
    BY Lengths
  <1> QED
    BY <1>1 DEF Size, AuthLen

\* Two chunks that differ in nothing but their ends.
Same(c, d) == c.kind = d.kind /\ c.id = d.id /\ c.num = d.num /\ c.tag = d.tag

LEMMA SameSize == \A c, d : Same(c, d) => Size(c) = Size(d)
  BY DEF Same, Size, AuthLen

\* The front of such a stream.
LEMMA IntactFront ==
    ASSUME NEW s \in Streams, s # << >>, Intact(s)
    PROVE  /\ Len(s) \in Nat /\ Len(s) >= 1 /\ Head(s) = s[1] /\ s[1] \in Chunks
           /\ s[1].end = Size(s[1]) /\ s[1].end \in Int /\ s[1].end >= 1
  <1>1. Len(s) \in Nat /\ Len(s) >= 1 /\ Head(s) = s[1] /\ s[1] \in Chunks /\ 1 \in DOMAIN s
    BY DEF Streams
  <1>2. s[1].end = 0 + Size(s[1]) /\ Size(s[1]) \in Int
    BY <1>1, SizeType DEF Intact
  <1>3. s[1].end >= Least(s, 1) /\ Least(s, 1) \in {1, 12}
    BY <1>1, SpacedFacts DEF Intact, Least
  <1> QED
    BY <1>1, <1>2, <1>3

\* Reading its first chunk leaves the others.
LEMMA ReadHead ==
    ASSUME NEW s \in Streams, s # << >>, Intact(s), NEW n \in Int, n = s[1].end
    PROVE  /\ AfterRead(s, n) \in Streams /\ Len(AfterRead(s, n)) = Len(s) - 1
           /\ \A i \in 1 .. Len(s) - 1 : /\ Same(AfterRead(s, n)[i], s[i + 1])
                                         /\ AfterRead(s, n)[i].end = s[i + 1].end - n
           /\ Intact(AfterRead(s, n))
           /\ Payload(s, n) = s[1]
  <1> DEFINE t == AfterRead(s, n)
             k == Whole(s, n)
  <1>1. Increasing(s) /\ Spaced(s)
    BY SpacedIncreasing DEF Intact
  <1>2. Left(s, t, k, n) /\ t \in Streams
    BY <1>1, ReadLeaves, AfterReadType
  <1>3. /\ Len(s) \in Nat /\ Len(s) >= 1 /\ DOMAIN s = 1 .. Len(s) /\ Head(s) = s[1]
        /\ \A i \in 1 .. Len(s) : s[i] \in Chunks /\ s[i].end \in Int
    BY IntactFront, SpacedFacts DEF Streams
  <1>4. /\ k \in 0 .. Len(s) /\ Len(t) = Len(s) - k
        /\ \A i \in 1 .. k : s[i].end <= n
        /\ \A i \in k + 1 .. Len(s) : s[i].end > n
        /\ \A i \in 1 .. Len(t) : ~ Cuts(s, n) => t[i] = [s[k + i] EXCEPT !.end = @ - n]
    BY <1>2, Zenon DEF Left
  <1>5. ~ Cuts(s, n)
    BY <1>3 DEF Cuts
  <1> HIDE DEF k, t
  <1>6. k = 1
    <2>1. k # 0
      BY <1>3, <1>4
    <2>2. ~ (k >= 2)
      <3> SUFFICES ASSUME k >= 2 PROVE FALSE
        OBVIOUS
      <3>1. 2 \in 1 .. k /\ 2 \in DOMAIN s /\ 1 \in DOMAIN s
        BY <1>3, <1>4
      <3>2. s[1].end < s[2].end /\ s[2].end <= n
        BY <1>1, <1>4, <3>1 DEF Increasing
      <3> QED
        BY <1>3, <3>1, <3>2
    <2> QED
      BY <1>4, <2>1, <2>2
  <1>7. ASSUME NEW i \in 1 .. Len(s) - 1
        PROVE  /\ t[i].kind = s[i + 1].kind /\ t[i].id = s[i + 1].id /\ t[i].num = s[i + 1].num
               /\ t[i].tag = s[i + 1].tag /\ t[i].end = s[i + 1].end - n
    <2>1. i + 1 \in 1 .. Len(s) /\ s[i + 1] \in Chunks
      BY <1>3
    <2>2. t[i] = [s[i + 1] EXCEPT !.end = @ - n]
      <3>1. i \in 1 .. Len(t) /\ k + i = i + 1
        BY <1>3, <1>4, <1>6
      <3> QED
        BY <1>4, <1>5, <3>1
    <2> QED
      BY <2>1, <2>2 DEF Chunks
  <1>8. ASSUME NEW i \in 1 .. Len(s) - 1
        PROVE  t[i].end = (IF i = 1 THEN 0 ELSE t[i - 1].end) + Size(t[i])
    <2>1. Size(t[i]) = Size(s[i + 1]) /\ Size(s[i + 1]) \in Int /\ i + 1 \in 1 .. Len(s)
      <3>1. Same(t[i], s[i + 1]) /\ i + 1 \in 1 .. Len(s) /\ s[i + 1] \in Chunks
        BY <1>3, <1>7 DEF Same
      <3> QED
        BY <3>1, SameSize, SizeType
    <2>2. s[i + 1].end = s[i].end + Size(s[i + 1])
      <3>1. i + 1 # 1 /\ (i + 1) - 1 = i
        BY <1>3
      <3>2. s[i + 1].end = (IF i + 1 = 1 THEN 0 ELSE s[(i + 1) - 1].end) + Size(s[i + 1])
        BY <1>3, <2>1 DEF Intact
      <3> QED
        BY <3>1, <3>2
    <2>3. i \in 1 .. Len(s) /\ s[i].end \in Int /\ s[i + 1].end \in Int
      BY <1>3, <2>1
    <2>4. CASE i = 1
      BY <1>7, <2>1, <2>2, <2>3, <2>4
    <2>5. CASE i # 1
      <3>1. i - 1 \in 1 .. Len(s) - 1 /\ (i - 1) + 1 = i
        BY <1>3, <2>5
      <3>2. t[i - 1].end = s[i].end - n /\ t[i].end = s[i + 1].end - n
        BY <1>7, <3>1
      <3> QED
        BY <2>1, <2>2, <2>3, <2>5, <3>2
    <2> QED
      BY <2>4, <2>5
  <1>9. Len(t) = Len(s) - 1 /\ DOMAIN t = 1 .. Len(s) - 1
    <2>1. Len(t) = Len(s) - 1
      BY <1>4, <1>6
    <2> QED
      BY <1>2, <2>1 DEF Streams
  <1>10. Spaced(t)
    <2>1. n \in Nat
      BY <1>3, IntactFront
    <2> QED
      BY <1>1, <2>1, ReadSpaced DEF t
  <1>11. Payload(s, n) = s[1]
    BY <1>3 DEF Payload
  <1>12. \A i \in 1 .. Len(s) - 1 : Same(t[i], s[i + 1]) /\ t[i].end = s[i + 1].end - n
    BY <1>7 DEF Same
  <1>13. Intact(t)
    BY <1>8, <1>9, <1>10 DEF Intact
  <1> QED
    BY <1>2, <1>9, <1>11, <1>12, <1>13 DEF t

\* What has been sent to such a stream, whole chunks too, makes such a stream.
LEMMA SentIntact ==
    ASSUME NEW s \in Streams, Intact(s), NEW packet \in Streams, Intact(packet)
    PROVE  Intact(Sent(s, packet))
  <1> DEFINE t == Sent(s, packet)
  <1>1. /\ t \in Streams /\ Len(t) = Len(s) + Len(packet)
        /\ \A i \in 1 .. Len(s) : t[i] = s[i]
        /\ \A i \in 1 .. Len(packet) : /\ t[Len(s) + i].end = Unread(s) + packet[i].end
                                       /\ Same(t[Len(s) + i], packet[i])
    BY SentChunks DEF Same
  <1>2. Spaced(t)
    BY SentSpaced DEF Intact
  <1> HIDE DEF t
  <1>3. /\ Len(s) \in Nat /\ Len(packet) \in Nat /\ DOMAIN s = 1 .. Len(s)
        /\ DOMAIN packet = 1 .. Len(packet) /\ DOMAIN t = 1 .. Len(t)
        /\ \A i \in 1 .. Len(packet) : packet[i] \in Chunks /\ packet[i].end \in Int
        /\ Unread(s) \in Int
    BY <1>1, SpacedFacts, UnreadType DEF Streams
  <1>4. ASSUME NEW j \in 1 .. Len(t)
        PROVE  t[j].end = (IF j = 1 THEN 0 ELSE t[j - 1].end) + Size(t[j])
    <2>1. CASE j \in 1 .. Len(s)
      <3>1. t[j] = s[j] /\ s[j].end = (IF j = 1 THEN 0 ELSE s[j - 1].end) + Size(s[j])
        BY <1>1, <1>3, <2>1 DEF Intact
      <3>2. j # 1 => t[j - 1] = s[j - 1]
        <4>1. j # 1 => j - 1 \in 1 .. Len(s)
          BY <1>3, <2>1
        <4> QED
          BY <1>1, <4>1
      <3> QED
        BY <3>1, <3>2
    <2>2. CASE j \notin 1 .. Len(s)
      <3>1. PICK m \in 1 .. Len(packet) : j = Len(s) + m
        <4>1. j - Len(s) \in 1 .. Len(packet) /\ j = Len(s) + (j - Len(s))
          BY <1>1, <1>3, <2>2
        <4> QED
          BY <4>1
      <3>2. /\ t[j].end = Unread(s) + packet[m].end /\ Size(t[j]) = Size(packet[m])
            /\ packet[m].end = (IF m = 1 THEN 0 ELSE packet[m - 1].end) + Size(packet[m])
            /\ Size(packet[m]) \in Int
        <4>1. Same(t[j], packet[m]) /\ t[j].end = Unread(s) + packet[m].end
          BY <1>1, <3>1
        <4> QED
          BY <1>3, <4>1, SameSize, SizeType DEF Intact
      <3>3. CASE m = 1
        <4>1. t[j].end = Unread(s) + Size(t[j])
          BY <1>3, <3>2, <3>3
        <4>2. CASE s = << >>
          BY <1>3, <3>1, <3>2, <3>3, <4>1, <4>2 DEF Unread
        <4>3. CASE s # << >>
          <5>1. j # 1 /\ j - 1 = Len(s) /\ Len(s) \in 1 .. Len(s)
            BY <1>3, <3>1, <3>3, <4>3
          <5>2. t[j - 1].end = Unread(s)
            BY <1>1, <4>3, <5>1 DEF Unread
          <5> QED
            BY <4>1, <5>1, <5>2
        <4> QED
          BY <4>2, <4>3
      <3>4. CASE m # 1
        <4>1. m - 1 \in 1 .. Len(packet) /\ j - 1 = Len(s) + (m - 1) /\ j # 1
          BY <1>3, <3>1, <3>4
        <4>2. t[j - 1].end = Unread(s) + packet[m - 1].end /\ packet[m - 1].end \in Int
          BY <1>1, <1>3, <4>1
        <4> QED
          BY <1>3, <3>2, <3>4, <4>1, <4>2
      <3> QED
        BY <3>3, <3>4
    <2> QED
      BY <2>1, <2>2
  <1>5. Intact(t)
    BY <1>2, <1>3, <1>4 DEF Intact
  <1> QED
    BY <1>5 DEF t

-----------------------------------------------------------------------
(* The packets that are sent.                                                                      *)

LEMMA NothingIntact == << >> \in Streams /\ Intact(<< >>) /\ Len(<< >>) = 0 /\ Unread(<< >>) = 0
  <1>1. << >> \in Streams /\ DOMAIN << >> = {} /\ Len(<< >>) = 0
    BY DEF Streams
  <1> QED
    BY <1>1 DEF Intact, Spaced, Unread

\* A chunk on its own, as long as it should be.
Sized(c) == /\ c \in Chunks /\ c.end = Size(c) /\ c.end >= 1
            /\ c.kind \in {"header", "desc"} => c.end >= 12

\* The stream with a chunk sent after it.
LEMMA PlusIntact ==
    ASSUME NEW s \in Streams, Intact(s), NEW c, Sized(c)
    PROVE  /\ s \oplus c = Sent(s, <<c>>) /\ <<c>> \in Streams /\ Intact(<<c>>)
           /\ s \oplus c \in Streams /\ Intact(s \oplus c) /\ Len(s \oplus c) = Len(s) + 1
           /\ \A i \in 1 .. Len(s) : (s \oplus c)[i] = s[i]
           /\ Same((s \oplus c)[Len(s) + 1], c)
           /\ (s \oplus c)[Len(s) + 1].end = Unread(s) + c.end
           /\ Unread(s \oplus c) = Unread(s) + c.end
  <1> DEFINE p == <<c>>
  <1>1. c \in Chunks /\ c.end = Size(c) /\ c.end \in Int /\ c.end >= 1
    BY EndType DEF Sized
  <1>2. p \in Streams /\ Len(p) = 1 /\ p[1] = c /\ DOMAIN p = 1 .. 1
    BY <1>1 DEF Streams
  <1>3. s \oplus c = Sent(s, p)
    <2>1. [i \in DOMAIN p |-> [p[i] EXCEPT !.end = Unread(s) + @]] = <<[c EXCEPT !.end = Unread(s) + @]>>
      BY <1>2
    <2>2. s \in Seq(Chunks) /\ [c EXCEPT !.end = Unread(s) + @] \in Chunks
      BY <1>1, UnreadType, MovedType DEF Streams
    <2> DEFINE d == [c EXCEPT !.end = Unread(s) + @]
    <2> HIDE DEF d, p
    <2>3. Append(s, d) = s \o <<d>>
      BY <2>2 DEF d
    <2> QED
      BY <2>1, <2>3 DEF d, Sent, \oplus
  <1> HIDE DEF p
  <1>4. \A j \in 1 .. 1 : j = 1 /\ 1 .. j - 1 = {}
    OBVIOUS
  <1>5. Intact(p)
    <2>1. Spaced(p)
      <3>1. p[1].end >= Least(p, 1)
        BY <1>1, <1>2 DEF Least, ReportChunks, Sized
      <3> QED
        BY <1>2, <1>4, <3>1, SpacedFacts
    <2>2. \A i \in 1 .. 1 : p[i].end = (IF i = 1 THEN 0 ELSE p[i - 1].end) + Size(p[i])
      BY <1>1, <1>2, <1>4
    <2> QED
      BY <1>2, <2>1, <2>2 DEF Intact
  <1>6. Intact(Sent(s, p))
    BY <1>2, <1>5, SentIntact
  <1>7. /\ Sent(s, p) \in Streams /\ Len(Sent(s, p)) = Len(s) + 1
        /\ \A i \in 1 .. Len(s) : Sent(s, p)[i] = s[i]
        /\ Same(Sent(s, p)[Len(s) + 1], c) /\ Sent(s, p)[Len(s) + 1].end = Unread(s) + c.end
    <2>1. /\ Sent(s, p) \in Streams /\ Len(Sent(s, p)) = Len(s) + Len(p)
          /\ \A i \in 1 .. Len(s) : Sent(s, p)[i] = s[i]
          /\ \A i \in 1 .. Len(p) : /\ Sent(s, p)[Len(s) + i].end = Unread(s) + p[i].end
                                    /\ Same(Sent(s, p)[Len(s) + i], p[i])
      BY <1>2, SentChunks DEF Same
    <2>2. 1 \in 1 .. Len(p)
      BY <1>2
    <2> QED
      BY <1>2, <2>1, <2>2
  <1>8. Unread(Sent(s, p)) = Unread(s) + c.end
    <2>1. Len(s) \in Nat
      BY DEF Streams
    <2>2. Sent(s, p) # << >>
      BY <1>7, <2>1
    <2> QED
      BY <1>7, <2>1, <2>2 DEF Unread
  <1> QED
    BY <1>2, <1>3, <1>5, <1>6, <1>7, <1>8 DEF p

\* The chunks that the programs send are as long as they should be.
LEMMA SentSizes ==
    /\ \A n \in Int : Sized(IntChunk(n)) /\ Sized(ByteChunk(n))
    /\ \A cred \in Credentials : Sized(AuthChunk(cred))
    /\ \A r \in Nat, n \in Int : Sized(HeaderChunk(r, n)) /\ Sized(DescChunk(r))
    /\ \A r \in Nat, status \in SrvState : Sized(TextChunk(r, status)) /\ Sized(BitmapChunk(r))
  <1>1. "good" \in Credentials /\ "DISCONNECTED" \in SrvState /\ 0 \in Nat /\ 0 \in Int
    BY DEF Credentials, SrvState
  <1>2. /\ HeaderLen \in Nat /\ DescLen \in Nat /\ HeaderLen >= 36 /\ DescLen >= 12
        /\ TextLen \in Nat /\ BitmapLen \in Nat /\ TextLen >= 7 /\ BitmapLen >= 1
    <2>1. MaxResponse \in Nat
      BY DEF MaxResponse
    <2> QED
      BY <2>1, Lengths
  <1>3. \A cred \in Credentials : AuthLen(cred) \in Int /\ AuthLen(cred) >= 1
    BY DEF AuthLen
  <1>4. ASSUME NEW c \in Chunks,
               \/ c.kind = "int" /\ c.end = 4
               \/ c.kind = "byte" /\ c.end = 1
               \/ c.kind = "auth" /\ c.tag \in Credentials /\ c.end = AuthLen(c.tag)
               \/ c.kind = "header" /\ c.end = HeaderLen
               \/ c.kind = "desc" /\ c.end = DescLen
               \/ c.kind = "text" /\ c.end = TextLen
               \/ c.kind = "bitmap" /\ c.end = BitmapLen
        PROVE  Sized(c)
    BY <1>2, <1>3, <1>4 DEF Sized, Size
  <1>5. \A n \in Int : Sized(IntChunk(n)) /\ Sized(ByteChunk(n))
    <2>1. \A n \in Int : IntChunk(n) \in Chunks /\ ByteChunk(n) \in Chunks
      BY <1>1, SentChunkTypes
    <2>2. \A n : /\ IntChunk(n).kind = "int" /\ IntChunk(n).end = 4
                 /\ ByteChunk(n).kind = "byte" /\ ByteChunk(n).end = 1
      BY DEF IntChunk, ByteChunk, Chunk
    <2> QED
      BY <1>4, <2>1, <2>2, Zenon
  <1>6. \A cred \in Credentials : Sized(AuthChunk(cred))
    <2>1. \A cred \in Credentials : AuthChunk(cred) \in Chunks
      BY <1>1, SentChunkTypes
    <2>2. \A cred : /\ AuthChunk(cred).kind = "auth" /\ AuthChunk(cred).tag = cred
                    /\ AuthChunk(cred).end = AuthLen(cred)
      BY DEF AuthChunk, Chunk
    <2> QED
      BY <1>4, <2>1, <2>2, Zenon
  <1>7. \A r \in Nat, n \in Int : Sized(HeaderChunk(r, n)) /\ Sized(DescChunk(r))
    <2>1. \A r \in Nat, n \in Int : HeaderChunk(r, n) \in Chunks /\ DescChunk(r) \in Chunks
      BY <1>1, SentChunkTypes
    <2>2. \A r, n : /\ HeaderChunk(r, n).kind = "header" /\ HeaderChunk(r, n).end = HeaderLen
                    /\ DescChunk(r).kind = "desc" /\ DescChunk(r).end = DescLen
      BY DEF HeaderChunk, DescChunk, Chunk
    <2> QED
      BY <1>4, <2>1, <2>2, Zenon
  <1>8. \A r \in Nat, status \in SrvState : Sized(TextChunk(r, status)) /\ Sized(BitmapChunk(r))
    <2>1. \A r \in Nat, status \in SrvState : TextChunk(r, status) \in Chunks /\ BitmapChunk(r) \in Chunks
      BY <1>1, SentChunkTypes
    <2>2. \A r, status : /\ TextChunk(r, status).kind = "text" /\ TextChunk(r, status).end = TextLen
                         /\ BitmapChunk(r).kind = "bitmap" /\ BitmapChunk(r).end = BitmapLen
      BY DEF TextChunk, BitmapChunk, Chunk
    <2> QED
      BY <1>4, <2>1, <2>2, Zenon
  <1> QED
    BY <1>5, <1>6, <1>7, <1>8

\* What is in a packet of one or two chunks.
LEMMA OneChunk ==
    ASSUME NEW c, Sized(c)
    PROVE  /\ << >> \oplus c \in Streams /\ Intact(<< >> \oplus c) /\ Len(<< >> \oplus c) = 1
           /\ Same((<< >> \oplus c)[1], c) /\ (<< >> \oplus c)[1].end = c.end
           /\ Unread(<< >> \oplus c) = c.end
  <1> DEFINE a == << >> \oplus c
  <1>1. /\ a \in Streams /\ Intact(a) /\ Len(a) = Len(<< >>) + 1 /\ Same(a[Len(<< >>) + 1], c)
        /\ a[Len(<< >>) + 1].end = Unread(<< >>) + c.end /\ Unread(a) = Unread(<< >>) + c.end
    BY NothingIntact, PlusIntact, Zenon
  <1>2. c.end \in Int /\ Len(<< >>) = 0 /\ Unread(<< >>) = 0 /\ 0 + 1 = 1
    BY NothingIntact, EndType DEF Sized
  <1> HIDE DEF a
  <1>3. a[1].end = c.end /\ Unread(a) = c.end
    BY <1>1, <1>2
  <1> QED
    BY <1>1, <1>2, <1>3 DEF a

LEMMA TwoChunks ==
    ASSUME NEW c, Sized(c), NEW d, Sized(d)
    PROVE  LET p == << >> \oplus c \oplus d IN
           /\ p \in Streams /\ Intact(p) /\ Len(p) = 2 /\ Same(p[1], c) /\ Same(p[2], d)
           /\ p[1].end = c.end /\ Unread(p) = c.end + d.end
  <1> DEFINE a == << >> \oplus c
             p == a \oplus d
  <1>1. /\ a \in Streams /\ Intact(a) /\ Len(a) = 1 /\ Same(a[1], c) /\ a[1].end = c.end
        /\ Unread(a) = c.end
    BY OneChunk, Zenon
  <1> HIDE DEF a
  <1>2. /\ p \in Streams /\ Intact(p) /\ Len(p) = Len(a) + 1
        /\ \A i \in 1 .. Len(a) : p[i] = a[i]
        /\ Same(p[Len(a) + 1], d) /\ Unread(p) = Unread(a) + d.end
    BY <1>1, PlusIntact, Zenon
  <1> HIDE DEF p
  <1>3. p[1] = a[1]
    BY <1>1, <1>2
  <1>4. Len(a) + 1 = 2
    BY <1>1
  <1>5. /\ p \in Streams /\ Intact(p) /\ Len(p) = 2 /\ Same(p[1], c) /\ Same(p[2], d)
        /\ p[1].end = c.end /\ Unread(p) = c.end + d.end
    BY <1>1, <1>2, <1>3, <1>4, Zenon
  <1> QED
    BY <1>5, Zenon DEF a, p

LEMMA LoginPacket ==
    ASSUME NEW cred \in Credentials
    PROVE  LET p == << >> \oplus IntChunk(AuthLen(cred)) \oplus AuthChunk(cred) IN
              p \in Streams /\ Intact(p) /\ Len(p) = 2
  <1>1. AuthLen(cred) \in Int
    BY DEF AuthLen
  <1>2. Sized(IntChunk(AuthLen(cred))) /\ Sized(AuthChunk(cred))
    BY <1>1, SentSizes, Zenon
  <1> QED
    BY <1>2, TwoChunks, Zenon

LEMMA ReplyPacket ==
    ASSUME NEW n \in Int
    PROVE  LET p == << >> \oplus ByteChunk(n) IN
              p \in Streams /\ Intact(p) /\ Len(p) = 1 /\ p[1].end = 1
  <1>1. Sized(ByteChunk(n)) /\ ByteChunk(n).end = 1
    <2>1. ByteChunk(n).end = 1
      BY DEF ByteChunk, Chunk
    <2> QED
      BY <2>1, SentSizes, Zenon
  <1> QED
    BY <1>1, OneChunk, Zenon

LEMMA ResponsePacket ==
    ASSUME NEW r \in Nat, NEW status \in SrvState
    PROVE  /\ Response(r, status) \in Streams /\ Intact(Response(r, status))
           /\ Len(Response(r, status)) = 2
           /\ Same(Response(r, status)[1], IntChunk(TextLen))
           /\ Same(Response(r, status)[2], TextChunk(r, status))
  <1>1. TextLen \in Int
    BY Lengths
  <1>2. Sized(IntChunk(TextLen)) /\ Sized(TextChunk(r, status))
    BY <1>1, SentSizes, Zenon
  <1> QED
    BY <1>2, TwoChunks, Zenon DEF Response

LEMMA BitmapPacket ==
    ASSUME NEW r \in Nat
    PROVE  /\ Bitmap(r) \in Streams /\ Intact(Bitmap(r)) /\ Len(Bitmap(r)) = 3
           /\ Same(Bitmap(r)[1], IntChunk(TypeBitmap)) /\ Same(Bitmap(r)[2], IntChunk(BitmapLen))
           /\ Same(Bitmap(r)[3], BitmapChunk(r)) /\ Bitmap(r)[1].end = 4
           /\ Bitmap(r)[3].end = 8 + BitmapLen
  <1>1. BitmapLen \in Int /\ TypeBitmap \in Int /\ "DISCONNECTED" \in SrvState
    BY Lengths DEF TypeBitmap, SrvState
  <1>2. Sized(IntChunk(TypeBitmap)) /\ Sized(IntChunk(BitmapLen)) /\ Sized(BitmapChunk(r))
    BY <1>1, SentSizes, Zenon
  <1>3. IntChunk(TypeBitmap).end = 4 /\ IntChunk(BitmapLen).end = 4 /\ BitmapChunk(r).end = BitmapLen
    BY DEF IntChunk, BitmapChunk, Chunk
  <1> DEFINE b == << >> \oplus IntChunk(TypeBitmap) \oplus IntChunk(BitmapLen)
             p == b \oplus BitmapChunk(r)
  <1>a. /\ b \in Streams /\ Intact(b) /\ Len(b) = 2 /\ Same(b[1], IntChunk(TypeBitmap))
        /\ Same(b[2], IntChunk(BitmapLen)) /\ b[1].end = IntChunk(TypeBitmap).end
        /\ Unread(b) = IntChunk(TypeBitmap).end + IntChunk(BitmapLen).end
    BY <1>2, TwoChunks, Zenon
  <1> HIDE DEF b
  <1>4. /\ b \in Streams /\ Intact(b) /\ Len(b) = 2 /\ Same(b[1], IntChunk(TypeBitmap))
        /\ Same(b[2], IntChunk(BitmapLen)) /\ b[1].end = 4 /\ Unread(b) = 4 + 4
    BY <1>3, <1>a
  <1>5. /\ p \in Streams /\ Intact(p) /\ Len(p) = Len(b) + 1
        /\ \A i \in 1 .. Len(b) : p[i] = b[i]
        /\ Same(p[Len(b) + 1], BitmapChunk(r))
        /\ p[Len(b) + 1].end = Unread(b) + BitmapChunk(r).end
    BY <1>2, <1>4, PlusIntact, Zenon
  <1> HIDE DEF p
  <1>6. p[1] = b[1] /\ p[2] = b[2] /\ Len(b) + 1 = 3 /\ 4 + 4 = 8
    BY <1>4, <1>5
  <1>7. /\ p \in Streams /\ Intact(p) /\ Len(p) = 3
        /\ Same(p[1], IntChunk(TypeBitmap)) /\ Same(p[2], IntChunk(BitmapLen))
        /\ Same(p[3], BitmapChunk(r)) /\ p[1].end = 4 /\ p[3].end = 8 + BitmapLen
    BY <1>3, <1>4, <1>5, <1>6, Zenon
  <1>8. p = Bitmap(r)
    BY DEF p, b, Bitmap
  <1> QED
    BY <1>7, <1>8, Zenon

-----------------------------------------------------------------------
(* The invariant: from the client to the server.                                                   *)

\* A session with no heartbeat so far.
NoHeartbeat == beats = 0

Over == phase \in {"ended", "closed"}

Gone == main \in {"join", "exited"}

\* An end that the other can see closed is closed; and no heartbeat is being sent.
Ending == /\ "server" \in closed => phase = "closed"
          /\ "client" \in closed => main = "exited"
          /\ hb \notin {"sendLen", "sendType"}

\* Chunk c is part q of all that the client sends for the reports filed, four parts for each.
ReportPart(filed, q, c) ==
    \E r \in 1 .. Len(filed) :
       \/ q = 4 * r - 3 /\ c.kind = "int" /\ c.num = HeaderLen
       \/ q = 4 * r - 2 /\ c.kind = "header" /\ c.id = r /\ c.num = filed[r]
       \/ q = 4 * r - 1 /\ c.kind = "int" /\ c.num = DescLen
       \/ q = 4 * r     /\ c.kind = "desc" /\ c.id = r

\* The number of parts that the server has received, and that the client has sent.
Received == 4 * Len(ledger) + (CASE phase = "payload" -> 1
                                 [] phase = "descLength" -> 2
                                 [] phase = "desc" -> 3
                                 [] OTHER -> 0)

Dispatched == 4 * Current - (CASE main = "sendHeaderLen" -> 4
                               [] main = "sendHeader" -> 3
                               [] main = "sendDescLen" -> 2
                               [] main = "sendDesc" -> 1
                               [] OTHER -> 0)

\* What is on its way to the server is the parts that it has not received.
Upstream ==
    phase # "auth" /\ ~ Over =>
        /\ Intact(c2s) /\ \A i \in DOMAIN c2s : ReportPart(reports, Received + i, c2s[i])
        /\ Received + Len(c2s) <= 4 * Current
        /\ ~ Gone => Received + Len(c2s) = Dispatched
        /\ phase = "payload" => want = HeaderLen
        /\ phase = "desc" => want = DescLen
        /\ phase \in {"descLength", "desc"} =>
              hdr = [id |-> Len(ledger) + 1, severity |-> reports[Len(ledger) + 1]]

\* Up to the server's answer to the login there are no reports.
LoginFirst ==
    /\ phase = "auth" => /\ main \in {"login", "reply", "join", "exited"} /\ s2c = << >>
                         /\ Intact(c2s) /\ Len(c2s) <= 2
    /\ main = "login" => (phase = "auth" \/ Over) /\ c2s = << >> /\ s2c = << >>
    /\ phase = "auth" \/ main \in {"login", "reply"} => reports = << >>
    /\ main = "reply" => s2c = << >> \/ (Len(s2c) = 1 /\ s2c[1].end = 1)

\* The ledger is the reports, in order and without a gap, up to one that the client has filed.
LedgerExact ==
    /\ Len(ledger) <= Len(reports)
    /\ \A i \in DOMAIN ledger : ledger[i].id = i /\ ledger[i].severity = reports[i]

\* What is left to be sent of the answer to the report last recorded.
Outbox == LET r == Len(ledger) IN
    IF phase = "send"
    THEN r > 0 /\ out \in {<< >>, <<Bitmap(r)>>, <<Response(r, Assess(reports[r])), Bitmap(r)>>}
    ELSE out = << >>

UpInv == Ending /\ Upstream /\ LoginFirst /\ LedgerExact /\ Outbox

-----------------------------------------------------------------------
(* Steps of the server.                                                                            *)

\* The next part is the one that the server waits for.
LEMMA NextPart ==
    ASSUME TypeOK, UpInv, phase \in {"length", "payload", "descLength", "desc"}, c2s # << >>
    PROVE  /\ Head(c2s) = c2s[1] /\ Len(ledger) + 1 \in 1 .. Len(reports)
           /\ phase = "length" => c2s[1].kind = "int" /\ c2s[1].num = HeaderLen /\ c2s[1].end = 4
           /\ phase = "payload" => /\ c2s[1].kind = "header" /\ c2s[1].id = Len(ledger) + 1
                                   /\ c2s[1].num = reports[Len(ledger) + 1] /\ c2s[1].end = want
           /\ phase = "descLength" => c2s[1].kind = "int" /\ c2s[1].num = DescLen /\ c2s[1].end = 4
           /\ phase = "desc" => /\ c2s[1].kind = "desc" /\ c2s[1].id = Len(ledger) + 1
                                /\ c2s[1].end = want
  <1>1. /\ Intact(c2s) /\ \A i \in DOMAIN c2s : ReportPart(reports, Received + i, c2s[i])
        /\ phase = "payload" => want = HeaderLen
        /\ phase = "desc" => want = DescLen
    BY DEF UpInv, Upstream, Over
  <1>2. /\ c2s \in Streams /\ Len(c2s) \in Nat /\ Len(c2s) >= 1 /\ Head(c2s) = c2s[1]
        /\ c2s[1] \in Chunks /\ c2s[1].end = Size(c2s[1]) /\ 1 \in DOMAIN c2s
    <2>1. c2s \in Streams
      BY DEF TypeOK, TcpTypes
    <2> QED
      BY <1>1, <2>1, IntactFront DEF Streams
  <1>3. Len(ledger) \in Nat /\ Len(reports) \in Nat
    BY DEF TypeOK, SrvTypes, CliTypes
  <1>4. PICK r \in 1 .. Len(reports) :
           \/ Received + 1 = 4 * r - 3 /\ c2s[1].kind = "int" /\ c2s[1].num = HeaderLen
           \/ Received + 1 = 4 * r - 2 /\ c2s[1].kind = "header" /\ c2s[1].id = r /\ c2s[1].num = reports[r]
           \/ Received + 1 = 4 * r - 1 /\ c2s[1].kind = "int" /\ c2s[1].num = DescLen
           \/ Received + 1 = 4 * r     /\ c2s[1].kind = "desc" /\ c2s[1].id = r
    BY <1>1, <1>2 DEF ReportPart
  <1>5. /\ c2s[1].kind = "int" => c2s[1].end = 4
        /\ c2s[1].kind = "header" => c2s[1].end = HeaderLen
        /\ c2s[1].kind = "desc" => c2s[1].end = DescLen
    BY <1>2 DEF Size
  <1>6. CASE phase = "length"
    <2>1. Received = 4 * Len(ledger)
      BY <1>6 DEF Received
    <2> QED
      BY <1>2, <1>3, <1>4, <1>5, <1>6, <2>1
  <1>7. CASE phase = "payload"
    <2>1. Received = 4 * Len(ledger) + 1
      BY <1>7 DEF Received
    <2>2. r = Len(ledger) + 1
      BY <1>3, <1>4, <2>1
    <2> QED
      BY <1>1, <1>2, <1>3, <1>4, <1>5, <1>7, <2>1, <2>2
  <1>8. CASE phase = "descLength"
    <2>1. Received = 4 * Len(ledger) + 2
      BY <1>8 DEF Received
    <2> QED
      BY <1>2, <1>3, <1>4, <1>5, <1>8, <2>1
  <1>9. CASE phase = "desc"
    <2>1. Received = 4 * Len(ledger) + 3
      BY <1>9 DEF Received
    <2>2. r = Len(ledger) + 1
      BY <1>3, <1>4, <2>1
    <2> QED
      BY <1>1, <1>2, <1>3, <1>4, <1>5, <1>9, <2>1, <2>2
  <1> QED
    BY <1>6, <1>7, <1>8, <1>9

\* When the server has read the next part, the others follow.
LEMMA PartsLeft ==
    ASSUME TypeOK, UpInv, phase # "auth", ~ Over, c2s # << >>, NEW n \in Int, n = c2s[1].end,
           c2s' = AfterRead(c2s, n), UNCHANGED reports, Received' = Received + 1
    PROVE  /\ Intact(c2s') /\ \A i \in DOMAIN c2s' : ReportPart(reports', Received' + i, c2s'[i])
           /\ Received' + Len(c2s') = Received + Len(c2s)
  <1>1. /\ Intact(c2s) /\ \A i \in DOMAIN c2s : ReportPart(reports, Received + i, c2s[i])
        /\ c2s \in Streams
    BY DEF UpInv, Upstream, TypeOK, TcpTypes
  <1>2. /\ c2s' \in Streams /\ Len(c2s') = Len(c2s) - 1 /\ Intact(c2s')
        /\ \A i \in 1 .. Len(c2s) - 1 : Same(c2s'[i], c2s[i + 1])
    BY <1>1, ReadHead
  <1>3. /\ Len(c2s) \in Nat /\ DOMAIN c2s = 1 .. Len(c2s) /\ DOMAIN c2s' = 1 .. Len(c2s) - 1
        /\ Received \in Int
    <2>1. Len(ledger) \in Nat
      BY DEF TypeOK, SrvTypes
    <2> QED
      BY <1>1, <1>2, <2>1 DEF Streams, Received
  <1>4. ASSUME NEW i \in DOMAIN c2s' PROVE ReportPart(reports', Received' + i, c2s'[i])
    <2>1. i \in 1 .. Len(c2s) - 1 /\ i + 1 \in DOMAIN c2s /\ Received + (i + 1) = Received' + i
      BY <1>3
    <2>2. ReportPart(reports, Received + (i + 1), c2s[i + 1]) /\ Same(c2s'[i], c2s[i + 1])
      BY <1>1, <1>2, <2>1
    <2>3. ReportPart(reports, Received' + i, c2s[i + 1])
      BY <2>1, <2>2
    <2> QED
      BY <2>2, <2>3 DEF ReportPart, Same
  <1>5. Received' + Len(c2s') = Received + Len(c2s)
    <2>1. \A a \in Int, b \in Nat : (a + 1) + (b - 1) = a + b
      OBVIOUS
    <2> QED
      BY <1>2, <1>3, <2>1, Zenon
  <1> QED
    BY <1>2, <1>4, <1>5

\* What a step of the server may be: the session ends, ...
SessionEnds ==
    /\ Over' /\ UNCHANGED <<s2c, ledger>> /\ (out' = << >> \/ (phase # "send" /\ out' = out))
    /\ closed' = closed \/ (phase' = "closed" /\ closed' = closed \union {"server"})

\* ... a login is answered, ...
LoginAnswered ==
    /\ phase = "auth" /\ UNCHANGED <<closed, out, ledger>> /\ LoginArrived
    /\ \E n \in {0, 1} : ServerSend(<< >> \oplus ByteChunk(n))
    /\ Over' \/ phase' = "select"

\* ... the session waits for a packet, ...
SessionWaits ==
    /\ \/ phase = "select" /\ phase' = "length"
       \/ phase = "send" /\ out = << >> /\ phase' = "select"
    /\ UNCHANGED <<c2s, s2c, closed, out, ledger>>

\* ... one of the first three parts of a report is received ...
PartReceived ==
    /\ c2s # << >> /\ c2s' = AfterRead(c2s, c2s[1].end) /\ UNCHANGED <<s2c, closed, out, ledger>>
    /\ \/ phase = "length" /\ phase' = "payload" /\ want' = HeaderLen
       \/ /\ phase = "payload" /\ phase' = "descLength"
          /\ hdr' = [id |-> Len(ledger) + 1, severity |-> reports[Len(ledger) + 1]]
       \/ phase = "descLength" /\ phase' = "desc" /\ want' = DescLen /\ hdr' = hdr

\* ... or the last one, and the report is recorded ...
ReportRecorded ==
    /\ c2s # << >> /\ c2s' = AfterRead(c2s, c2s[1].end) /\ UNCHANGED <<s2c, closed>>
    /\ phase = "desc" /\ phase' = "send" /\ Len(ledger) + 1 \in 1 .. Len(reports)
    /\ \E e \in Records : /\ e.id = Len(ledger) + 1 /\ e.severity = reports[Len(ledger) + 1]
                          /\ ledger' = Append(ledger, e)
    /\ LET r == Len(ledger) + 1 IN out' = <<Response(r, Assess(reports[r])), Bitmap(r)>>

\* ... or a part of an answer is sent.
AnswerSent ==
    /\ phase = "send" /\ phase' = "send" /\ out # << >>
    /\ ServerSend(Head(out)) /\ out' = Tail(out) /\ UNCHANGED <<c2s, ledger>>

LEMMA ServerSteps ==
    ASSUME TypeOK, RunwayStateAgrees, UpInv, SrvNext, UNCHANGED cliVars
    PROVE  \/ SessionEnds \/ LoginAnswered \/ SessionWaits
           \/ PartReceived \/ ReportRecorded \/ AnswerSent
  <1>a. c2s \in Streams /\ ledger \in Seq(Records) /\ Len(ledger) \in Nat /\ reports \in Seq(0 .. 5)
    BY DEF TypeOK, TcpTypes, SrvTypes, CliTypes
  <1>b. ASSUME NEW p \in Chunks, p.kind \in {"header", "desc"}
        PROVE  /\ p.kind = "header" => HeadersIn(p) = {[id |-> p.id, severity |-> p.num]}
               /\ p.kind = "desc" => DescriptionsIn(p) = {p.id}
    BY <1>b DEF HeadersIn, DescriptionsIn
  <1>c. ASSUME phase \in {"payload", "desc"}, ServerReads(want)
        PROVE  /\ c2s # << >> /\ c2s' = AfterRead(c2s, c2s[1].end) /\ Payload(c2s, want) = c2s[1]
               /\ c2s[1] \in Chunks /\ Head(c2s) = c2s[1] /\ Len(ledger) + 1 \in 1 .. Len(reports)
    <2>1. c2s # << >> /\ c2s' = AfterRead(c2s, want)
      BY <1>c DEF ServerReads
    <2>2. Head(c2s) = c2s[1] /\ c2s[1].end = want /\ Len(ledger) + 1 \in 1 .. Len(reports)
      BY <1>c, <2>1, NextPart
    <2>3. Payload(c2s, want) = c2s[1]
      BY <2>2 DEF Payload
    <2>4. c2s[1] \in Chunks
      BY <1>a, <2>1 DEF Streams
    <2> QED
      BY <2>1, <2>2, <2>3, <2>4
  <1>1. CASE SrvAcceptLogin \/ SrvRejectLogin
    <2>1. phase = "auth" /\ LoginArrived /\ UNCHANGED <<out, ledger>> /\ (Over' \/ phase' = "select")
      BY <1>1 DEF SrvAcceptLogin, SrvRejectLogin, Abandon, Over
    <2>2. \E n \in {0, 1} : ServerSend(<< >> \oplus ByteChunk(n))
      BY <1>1, Zenon DEF SrvAcceptLogin, SrvRejectLogin
    <2>3. closed' = closed
      BY <2>2 DEF ServerSend
    <2> QED
      BY <2>1, <2>2, <2>3 DEF LoginAnswered
  <1>2. CASE SrvLoginFails \/ SrvSelectFails \/ SrvRecvFails \/ SrvRecvMalformed
             \/ SrvRecvBadDescription \/ SrvSendFails
    <2>1. phase' = "ended" /\ UNCHANGED <<s2c, ledger, closed>>
      BY <1>2 DEF SrvLoginFails, SrvSelectFails, SrvRecvFails, SrvRecvMalformed,
         SrvRecvBadDescription, SrvSendFails, Abandon, Disconnect, tcpVars
    <2>2. out' = << >> \/ (phase # "send" /\ out' = out)
      BY <1>2 DEF SrvLoginFails, SrvSelectFails, SrvRecvFails, SrvRecvMalformed,
         SrvRecvBadDescription, SrvSendFails, Abandon, Disconnect
    <2> QED
      BY <2>1, <2>2 DEF SessionEnds, Over
  <1>3. CASE SrvClose
    <2>1. phase' = "closed" /\ UNCHANGED <<s2c, ledger, out>> /\ phase # "send"
      BY <1>3 DEF SrvClose, ServerClose
    <2>2. closed' = closed \/ closed' = closed \union {"server"}
      BY <1>3 DEF SrvClose, ServerClose
    <2> QED
      BY <2>1, <2>2 DEF SessionEnds, Over
  <1>4. CASE SrvSelect \/ SrvSendDone
    BY <1>4 DEF SrvSelect, SrvSendDone, SessionWaits, tcpVars
  <1>5. CASE SrvRecvLength
    <2>1. /\ phase \in {"length", "descLength"} /\ c2s # << >> /\ c2s' = AfterRead(c2s, 4)
          /\ UNCHANGED <<s2c, closed>>
      BY <1>5 DEF SrvRecvLength, ServerReads
    <2>2. /\ Head(c2s) = c2s[1] /\ c2s[1].kind = "int" /\ c2s[1].end = 4
          /\ phase = "length" => c2s[1].num = HeaderLen
          /\ phase = "descLength" => c2s[1].num = DescLen
      BY <2>1, NextPart
    <2>3. FrontInts(c2s) = {c2s[1].num}
      BY <2>2 DEF FrontInts
    <2>4. PICK n \in FrontInts(c2s) :
            IF AcceptedLength(n, MaxPacket)
            THEN /\ want' = n /\ phase' = IF phase = "length" THEN "payload" ELSE "desc"
                 /\ UNCHANGED <<ss, hdr, out, ledger>>
            ELSE Disconnect /\ UNCHANGED want
      BY <1>5 DEF SrvRecvLength
    <2>5. CASE Disconnect
      <3>1. phase' = "ended" /\ UNCHANGED <<out, ledger>>
        BY <2>5 DEF Disconnect
      <3> QED
        BY <2>1, <3>1 DEF SessionEnds, Over
    <2>6. CASE /\ want' = n /\ phase' = IF phase = "length" THEN "payload" ELSE "desc"
               /\ UNCHANGED <<ss, hdr, out, ledger>>
      <3>1. n = c2s[1].num /\ c2s' = AfterRead(c2s, c2s[1].end)
        BY <2>1, <2>2, <2>3
      <3> QED
        BY <2>1, <2>2, <2>6, <3>1 DEF PartReceived
    <2> QED
      BY <2>4, <2>5, <2>6
  <1>6. CASE SrvRecvHeartbeat
    <2>1. phase = "payload" /\ ServerReads(want) /\ TypeHeartbeat \in FrontInts(c2s)
      BY <1>6 DEF SrvRecvHeartbeat
    <2>2. c2s # << >> /\ Head(c2s) = c2s[1]
      BY <1>c, <2>1
    <2>3. c2s[1].kind = "header"
      BY <2>1, <2>2, NextPart
    <2>4. FrontInts(c2s) = {TypeReport}
      BY <2>2, <2>3 DEF FrontInts
    <2> QED
      BY <2>1, <2>4 DEF TypeReport, TypeHeartbeat
  <1>7. CASE SrvRecvHeader
    <2>1. /\ phase = "payload" /\ ServerReads(want) /\ phase' = "descLength"
          /\ hdr' \in HeadersIn(Payload(c2s, want)) /\ UNCHANGED <<s2c, closed, out, ledger>>
      BY <1>7 DEF SrvRecvHeader
    <2>2. /\ c2s # << >> /\ c2s' = AfterRead(c2s, c2s[1].end) /\ Payload(c2s, want) = c2s[1]
          /\ c2s[1] \in Chunks
      BY <1>c, <2>1
    <2>3. c2s[1].kind = "header" /\ c2s[1].id = Len(ledger) + 1 /\ c2s[1].num = reports[Len(ledger) + 1]
      BY <2>1, <2>2, NextPart
    <2>4. HeadersIn(c2s[1]) = {[id |-> c2s[1].id, severity |-> c2s[1].num]}
      BY <1>b, <2>2, <2>3
    <2>5. hdr' = [id |-> Len(ledger) + 1, severity |-> reports[Len(ledger) + 1]]
      BY <2>1, <2>2, <2>3, <2>4
    <2> QED
      BY <2>1, <2>2, <2>5 DEF PartReceived
  <1>8. CASE SrvRecordReport
    <2>1. phase = "desc" /\ phase' = "send" /\ ServerReads(want) /\ UNCHANGED <<s2c, closed>>
      BY <1>8 DEF SrvRecordReport
    <2>2. /\ c2s # << >> /\ c2s' = AfterRead(c2s, c2s[1].end) /\ Payload(c2s, want) = c2s[1]
          /\ c2s[1] \in Chunks /\ Len(ledger) + 1 \in 1 .. Len(reports)
      BY <1>c, <2>1
    <2>3. c2s[1].kind = "desc" /\ c2s[1].id = Len(ledger) + 1
      BY <2>1, <2>2, NextPart
    <2>4. hdr = [id |-> Len(ledger) + 1, severity |-> reports[Len(ledger) + 1]]
      BY <2>1 DEF UpInv, Upstream, Over
    <2>5. ss' = Assess(reports[Len(ledger) + 1])
      <3>1. ss = "INSPECTION" /\ ss' = SrvTransition(ss, Assess(hdr.severity))
        BY <1>8, <2>1 DEF SrvRecordReport, RunwayStateAgrees
      <3> QED
        BY <2>4, <3>1, SrvLegalTransitions
    <2>6. out' = <<Response(Len(ledger) + 1, Assess(reports[Len(ledger) + 1])), Bitmap(Len(ledger) + 1)>>
      <3>1. out' = <<Response(hdr.id, ss'), Bitmap(hdr.id)>>
        BY <1>8, Zenon DEF SrvRecordReport
      <3>2. hdr.id = Len(ledger) + 1
        BY <2>4
      <3> QED
        BY <2>5, <3>1, <3>2, Zenon
    <2>7. PICK d \in DescriptionsIn(Payload(c2s, want)), saved \in SaveResults :
             ledger' = Append(ledger, [id |-> hdr.id, desc |-> d, severity |-> hdr.severity,
                                       saved |-> saved])
      BY <1>8 DEF SrvRecordReport
    <2>8. \E e \in Records : /\ e.id = Len(ledger) + 1 /\ e.severity = reports[Len(ledger) + 1]
                             /\ ledger' = Append(ledger, e)
      <3> DEFINE e == [id |-> hdr.id, desc |-> d, severity |-> hdr.severity, saved |-> saved]
      <3>1. d = Len(ledger) + 1
        BY <1>b, <2>2, <2>3, <2>7
      <3>2. saved \in BOOLEAN /\ hdr \in Headers
        BY DEF SaveResults, TypeOK, SrvTypes
      <3>3. d \in Nat
        BY <1>a, <3>1
      <3>4. e \in Records
        BY <3>2, <3>3 DEF Headers, Records
      <3>5. e.id = Len(ledger) + 1 /\ e.severity = reports[Len(ledger) + 1]
        BY <2>4
      <3> QED
        BY <2>7, <3>4, <3>5
    <2> QED
      BY <2>1, <2>2, <2>6, <2>8 DEF ReportRecorded
  <1>9. CASE SrvSendAnswer
    BY <1>9 DEF SrvSendAnswer, AnswerSent
  <1> QED
    BY <1>1, <1>2, <1>3, <1>4, <1>5, <1>6, <1>7, <1>8, <1>9 DEF SrvNext


\* Reading all of a stream leaves nothing.
LEMMA ReadAll ==
    ASSUME NEW s \in Streams, Increasing(s), s # << >>
    PROVE  AfterRead(s, s[Len(s)].end) = << >>
  <1> DEFINE n == s[Len(s)].end
             t == AfterRead(s, n)
             k == Whole(s, n)
  <1>1. Len(s) \in 1 .. Len(s) /\ n \in Int /\ Len(s) \in Nat
    <2>1. Len(s) \in 1 .. Len(s) /\ Len(s) \in Nat
      BY DEF Streams
    <2> QED
      BY <2>1, SpacedFacts
  <1>2. Left(s, t, k, n) /\ t \in Streams
    BY <1>1, ReadLeaves, AfterReadType
  <1>3. k \in 0 .. Len(s) /\ Len(t) = Len(s) - k /\ \A i \in k + 1 .. Len(s) : s[i].end > n
    BY <1>2, Zenon DEF Left
  <1> HIDE DEF t, k
  <1>4. k = Len(s)
    <2>1. k < Len(s) => Len(s) \in k + 1 .. Len(s)
      BY <1>1, <1>3
    <2>2. ~ (n > n)
      BY <1>1
    <2> QED
      BY <1>1, <1>3, <2>1, <2>2
  <1>5. Len(t) = 0
    BY <1>1, <1>3, <1>4
  <1> QED
    BY <1>2, <1>5 DEF t, Streams

LEMMA ReadNothing == AfterRead(<< >>, 0) = << >>
  <1> DEFINE t == AfterRead(<< >>, 0)
             k == Whole(<< >>, 0)
  <1>1. << >> \in Streams /\ Increasing(<< >>) /\ 0 \in Int
    BY NothingIntact DEF Increasing
  <1>2. t \in Streams /\ Left(<< >>, t, k, 0)
    BY <1>1, ReadLeaves, AfterReadType, Zenon
  <1>3. k \in 0 .. Len(<< >>) /\ Len(t) = Len(<< >>) - k
    BY <1>2, Zenon DEF Left
  <1> HIDE DEF t, k
  <1>4. Len(t) = 0
    BY <1>3, NothingIntact
  <1>5. t = << >>
    BY <1>2, <1>4 DEF Streams
  <1> QED
    BY <1>5 DEF t

\* A closed session takes no step, and nothing is read where nothing is.
LEMMA ServerReadsSomething ==
    ASSUME SrvNext PROVE phase # "closed" /\ (c2s = << >> => c2s' = << >>)
  <1>1. CASE SrvAcceptLogin \/ SrvRejectLogin
    BY <1>1 DEF SrvAcceptLogin, SrvRejectLogin, LoginArrived, ServerReads
  <1>2. CASE SrvLoginFails
    BY <1>2 DEF SrvLoginFails, ServerReads
  <1>3. CASE SrvSelect \/ SrvSelectFails \/ SrvRecvFails
    BY <1>3 DEF SrvSelect, SrvSelectFails, SrvRecvFails, tcpVars
  <1>4. CASE SrvRecvLength \/ SrvRecvHeartbeat \/ SrvRecvMalformed
    BY <1>4 DEF SrvRecvLength, SrvRecvHeartbeat, SrvRecvMalformed, ServerReads
  <1>5. CASE SrvRecvHeader \/ SrvRecvBadDescription \/ SrvRecordReport
    BY <1>5 DEF SrvRecvHeader, SrvRecvBadDescription, SrvRecordReport, ServerReads
  <1>6. CASE SrvSendAnswer \/ SrvSendDone \/ SrvSendFails
    BY <1>6 DEF SrvSendAnswer, SrvSendDone, SrvSendFails, tcpVars
  <1>7. CASE SrvClose
    BY <1>7 DEF SrvClose, ServerClose
  <1> QED
    BY <1>1, <1>2, <1>3, <1>4, <1>5, <1>6, <1>7 DEF SrvNext

LEMMA ServerKeepsUp ==
    ASSUME TypeOK, TypeOK', RunwayStateAgrees, UpInv, SrvNext, UNCHANGED cliVars
    PROVE  UpInv'
  <1>a. /\ UNCHANGED <<main, reports, hb>> /\ (Gone' <=> Gone) /\ Current' = Current
        /\ Dispatched' = Dispatched
    BY DEF cliVars, Gone, Current, Dispatched
  <1>b. /\ Len(ledger) \in Nat /\ Len(reports) \in Nat /\ c2s \in Streams /\ s2c \in Streams
        /\ ledger \in Seq(Records) /\ reports \in Seq(0 .. 5) /\ closed \subseteq Ends
    BY DEF TypeOK, TcpTypes, SrvTypes, CliTypes
  <1>c. phase # "closed" /\ "server" \notin closed /\ (c2s = << >> => c2s' = << >>)
    BY ServerReadsSomething DEF UpInv, Ending
  <1>d. /\ "client" \in closed => main = "exited"
        /\ hb \notin {"sendLen", "sendType"}
    BY DEF UpInv, Ending
  <1>e. LedgerExact /\ Outbox /\ LoginFirst /\ Upstream
    BY DEF UpInv
  <1>1. CASE SessionEnds
    <2>1. Ending'
      BY <1>1, <1>a, <1>c, <1>d DEF SessionEnds, Ending
    <2>2. Upstream'
      BY <1>1 DEF SessionEnds, Upstream
    <2>3. LoginFirst'
      BY <1>1, <1>a, <1>c, <1>e DEF SessionEnds, LoginFirst, Over
    <2>4. LedgerExact'
      BY <1>1, <1>a, <1>e DEF SessionEnds, LedgerExact
    <2>5. Outbox'
      BY <1>1, <1>e DEF SessionEnds, Outbox, Over
    <2> QED
      BY <2>1, <2>2, <2>3, <2>4, <2>5 DEF UpInv
  <1>2. CASE LoginAnswered
    <2>1. /\ reports = << >> /\ ledger = << >> /\ main \in {"reply", "join", "exited"} /\ s2c = << >>
          /\ Intact(c2s) /\ Len(c2s) = 2 /\ c2s # << >>
      <3>1. /\ reports = << >> /\ main \in {"login", "reply", "join", "exited"} /\ s2c = << >>
            /\ Intact(c2s) /\ Len(c2s) <= 2 /\ (main = "login" => c2s = << >>) /\ Len(c2s) >= 2
        BY <1>2, <1>e DEF LoginAnswered, LoginFirst, LoginArrived
      <3>2. ledger = << >>
        BY <1>b, <1>e, <3>1 DEF LedgerExact
      <3>3. Len(c2s) \in Nat
        BY <1>b DEF Streams
      <3>4. Len(c2s) = 2
        BY <3>1, <3>3
      <3>5. c2s # << >>
        BY <3>4, NothingIntact
      <3>6. main # "login"
        BY <3>1, <3>5
      <3> QED
        BY <3>1, <3>2, <3>4, <3>5, <3>6
    <2>2. c2s' = << >>
      <3>1. c2s' = AfterRead(c2s, c2s[2].end)
        BY <1>2 DEF LoginAnswered, LoginArrived, ServerReads
      <3> QED
        BY <1>b, <2>1, <3>1, ReadAll, SpacedIncreasing DEF Intact
    <2>3. ledger' = << >> /\ out' = << >> /\ closed' = closed /\ (Over' \/ phase' = "select")
      BY <1>2, <1>e, <2>1 DEF LoginAnswered, Outbox
    <2>4. main = "reply" => Len(s2c') = 1 /\ s2c'[1].end = 1
      <3> SUFFICES ASSUME main = "reply" PROVE Len(s2c') = 1 /\ s2c'[1].end = 1
        OBVIOUS
      <3>1. PICK n \in {0, 1} : ServerSend(<< >> \oplus ByteChunk(n))
        BY <1>2, Zenon DEF LoginAnswered
      <3> DEFINE p == << >> \oplus ByteChunk(n)
      <3>2. p \in Streams /\ Len(p) = 1 /\ p[1].end = 1
        <4>1. n \in Int
          OBVIOUS
        <4> QED
          BY <4>1, ReplyPacket, Zenon
      <3>3. s2c' = Sent(s2c, p)
        BY <1>d, <3>1 DEF ServerSend
      <3> HIDE DEF p
      <3>4. /\ Len(s2c') = Len(s2c) + Len(p)
            /\ \A i \in 1 .. Len(p) : s2c'[Len(s2c) + i].end = Unread(s2c) + p[i].end
        BY <1>b, <3>2, <3>3, SentChunks
      <3>5. Len(s2c) = 0 /\ Unread(s2c) = 0
        BY <2>1, NothingIntact
      <3> QED
        BY <3>2, <3>4, <3>5
    <2>5. Received' = 0 /\ Len(c2s') = 0 /\ Len(ledger') = 0 /\ Len(reports') = 0 /\ Current' = 0
      <3>1. phase' \notin {"payload", "descLength", "desc"}
        BY <2>3 DEF Over
      <3>2. Received' = 4 * Len(ledger') + 0
        BY <3>1 DEF Received
      <3> QED
        BY <1>a, <2>1, <2>2, <2>3, <3>2 DEF Current
    <2>6. ~ Gone => Dispatched' = 0
      <3>1. ~ Gone => main = "reply"
        BY <2>1 DEF Gone
      <3>2. main = "reply" => Dispatched = 4 * Current
        BY <1>b DEF Dispatched, Current
      <3> QED
        BY <1>a, <2>5, <3>1, <3>2
    <2>7. Upstream'
      <3>1. Intact(c2s') /\ DOMAIN c2s' = {}
        BY <2>2, NothingIntact
      <3>2. phase' # "auth" /\ ~ Over' => phase' = "select"
        BY <2>3
      <3> QED
        BY <1>a, <2>5, <2>6, <3>1, <3>2 DEF Upstream
    <2>8. LoginFirst'
      BY <1>a, <2>1, <2>3, <2>4 DEF LoginFirst, Over
    <2>9. LedgerExact'
      BY <2>3, <2>5 DEF LedgerExact
    <2>10. Outbox'
      BY <2>3 DEF Outbox, Over
    <2>11. Ending'
      BY <1>a, <1>c, <1>d, <2>3 DEF Ending
    <2> QED
      BY <2>7, <2>8, <2>9, <2>10, <2>11 DEF UpInv
  <1>3. CASE SessionWaits
    <2>1. /\ phase \in {"select", "send"} /\ phase' \in {"length", "select"} /\ out = << >>
          /\ UNCHANGED <<c2s, s2c, closed, out, ledger>>
      BY <1>3, <1>e DEF SessionWaits, Outbox
    <2>2. Received' = Received
      BY <2>1 DEF Received
    <2>3. Upstream'
      BY <1>a, <1>e, <2>1, <2>2 DEF Upstream, Over
    <2>4. LoginFirst' /\ LedgerExact' /\ Outbox' /\ Ending'
      BY <1>a, <1>c, <1>d, <1>e, <2>1 DEF LoginFirst, LedgerExact, Outbox, Ending, Over
    <2> QED
      BY <2>3, <2>4 DEF UpInv
  <1>4. CASE PartReceived
    <2>1. /\ phase \in {"length", "payload", "descLength"} /\ phase' \in {"payload", "descLength", "desc"}
          /\ c2s # << >> /\ c2s' = AfterRead(c2s, c2s[1].end) /\ UNCHANGED <<s2c, closed, out, ledger>>
      BY <1>4 DEF PartReceived
    <2>2. Received' = Received + 1
      BY <1>4, <1>b DEF PartReceived, Received
    <2>3. /\ Intact(c2s') /\ \A i \in DOMAIN c2s' : ReportPart(reports', Received' + i, c2s'[i])
          /\ Received' + Len(c2s') = Received + Len(c2s)
      <3>1. phase # "auth" /\ ~ Over /\ c2s[1].end \in Int /\ UNCHANGED reports
        <4>1. ~ Over /\ phase # "auth" /\ UNCHANGED reports
          BY <1>a, <2>1 DEF Over
        <4>2. Intact(c2s)
          BY <1>e, <4>1 DEF Upstream
        <4> QED
          BY <1>b, <2>1, <4>1, <4>2, IntactFront
      <3> QED
        BY <2>1, <2>2, <3>1, PartsLeft
    <2>4. Upstream'
      BY <1>4, <1>a, <1>e, <2>1, <2>3 DEF PartReceived, Upstream, Over
    <2>5. LoginFirst' /\ LedgerExact' /\ Outbox' /\ Ending'
      BY <1>a, <1>c, <1>d, <1>e, <2>1 DEF LoginFirst, LedgerExact, Outbox, Ending, Over
    <2> QED
      BY <2>4, <2>5 DEF UpInv
  <1>5. CASE ReportRecorded
    <2>1. /\ phase = "desc" /\ phase' = "send" /\ Len(ledger) + 1 \in 1 .. Len(reports)
          /\ c2s # << >> /\ c2s' = AfterRead(c2s, c2s[1].end) /\ UNCHANGED <<s2c, closed>>
      BY <1>5 DEF ReportRecorded
    <2>2. PICK e \in Records : /\ e.id = Len(ledger) + 1 /\ e.severity = reports[Len(ledger) + 1]
                               /\ ledger' = Append(ledger, e)
      BY <1>5 DEF ReportRecorded
    <2>3. /\ Len(ledger') = Len(ledger) + 1 /\ DOMAIN ledger' = 1 .. Len(ledger) + 1
          /\ ledger'[Len(ledger) + 1] = e /\ \A i \in DOMAIN ledger : ledger'[i] = ledger[i]
          /\ DOMAIN ledger = 1 .. Len(ledger)
      BY <1>b, <2>2
    <2>4. Received' = Received + 1
      BY <1>b, <2>1, <2>3 DEF Received
    <2>5. /\ Intact(c2s') /\ \A i \in DOMAIN c2s' : ReportPart(reports', Received' + i, c2s'[i])
          /\ Received' + Len(c2s') = Received + Len(c2s)
      <3>1. phase # "auth" /\ ~ Over /\ c2s[1].end \in Int /\ UNCHANGED reports
        <4>1. ~ Over /\ phase # "auth" /\ UNCHANGED reports
          BY <1>a, <2>1 DEF Over
        <4>2. Intact(c2s)
          BY <1>e, <4>1 DEF Upstream
        <4> QED
          BY <1>b, <2>1, <4>1, <4>2, IntactFront
      <3> QED
        BY <2>1, <2>4, <3>1, PartsLeft
    <2>6. Upstream'
      BY <1>a, <1>e, <2>1, <2>5 DEF Upstream, Over
    <2>7. LedgerExact'
      BY <1>a, <1>b, <1>e, <2>1, <2>2, <2>3 DEF LedgerExact
    <2>8. Outbox'
      <3>1. out' = <<Response(Len(ledger'), Assess(reports'[Len(ledger')])), Bitmap(Len(ledger'))>>
        BY <1>5, <1>a, <2>3, Zenon DEF ReportRecorded
      <3>2. Len(ledger') > 0
        BY <1>b, <2>3
      <3> QED
        BY <2>1, <3>1, <3>2, Zenon DEF Outbox
    <2>9. LoginFirst' /\ Ending'
      BY <1>a, <1>c, <1>d, <1>e, <2>1 DEF LoginFirst, Ending, Over
    <2> QED
      BY <2>6, <2>7, <2>8, <2>9 DEF UpInv
  <1>6. CASE AnswerSent
    <2>1. /\ phase = "send" /\ phase' = "send" /\ out # << >> /\ out' = Tail(out)
          /\ UNCHANGED <<c2s, ledger, closed>>
      BY <1>6 DEF AnswerSent, ServerSend
    <2>2. Received' = Received
      BY <2>1 DEF Received
    <2>3. main # "reply"
      BY <1>b, <1>e, <2>1 DEF LoginFirst, LedgerExact, Outbox
    <2>4. Upstream'
      BY <1>a, <1>e, <2>1, <2>2 DEF Upstream, Over
    <2>5. LoginFirst' /\ LedgerExact' /\ Ending'
      BY <1>a, <1>c, <1>d, <1>e, <2>1, <2>3 DEF LoginFirst, LedgerExact, Ending, Over
    <2>6. Outbox'
      <3> DEFINE r == Len(ledger)
                 b == Bitmap(r)
                 a == Response(r, Assess(reports[r]))
      <3>1. r > 0 /\ (out = <<b>> \/ out = <<a, b>>)
        BY <1>e, <2>1, Zenon DEF Outbox
      <3> HIDE DEF a, b
      <3>2. Tail(<<b>>) = << >> /\ Tail(<<a, b>>) = <<b>>
        OBVIOUS
      <3>3. out' = << >> \/ out' = <<b>>
        BY <2>1, <3>1, <3>2
      <3>4. Len(ledger') = r
        BY <2>1
      <3> QED
        BY <2>1, <3>1, <3>3, <3>4, Zenon DEF Outbox, b
    <2> QED
      BY <2>4, <2>5, <2>6 DEF UpInv
  <1> QED
    BY <1>1, <1>2, <1>3, <1>4, <1>5, <1>6, ServerSteps

-----------------------------------------------------------------------
(* Steps of the client.                                                                            *)

\* What a step of the client may be: nothing is sent, ...
NothingSentNow ==
    /\ UNCHANGED <<c2s, reports>> /\ hb' \notin {"sendLen", "sendType"}
    /\ closed' = closed \/ (main' = "exited" /\ closed' = closed \union {"client"})
    /\ \/ /\ main # "exited" /\ Gone'
          /\ main \in Replying \union Fetching \/ (s2c = << >> => s2c' = << >>)
       \/ main' = main /\ s2c' = s2c
       \/ main = "reply" /\ main' = "menu" /\ s2c # << >>
       \/ /\ main \in {"menu"} \union Replying \union Fetching
          /\ main' \in {"menu", "form"} \union Replying \union Fetching

\* ... a login, ...
LoginSent ==
    /\ main = "login" /\ main' = "reply" /\ UNCHANGED <<s2c, closed, hb, reports>>
    /\ \E cred \in Credentials :
          ClientSend(<< >> \oplus IntChunk(AuthLen(cred)) \oplus AuthChunk(cred))

\* ... a report is filed, ...
ReportFiled ==
    /\ main = "form" /\ main' = "sendHeaderLen" /\ UNCHANGED <<tcpVars, hb>>
    /\ \E severity \in 0 .. 5 : reports' = Append(reports, severity)

\* ... or a part of it is sent.
PartSent(c) ==
    /\ ClientSend(<<c>>) /\ UNCHANGED <<s2c, hb, reports>>
    /\ \/ main = "sendHeaderLen" /\ main' = "sendHeader" /\ c = IntChunk(HeaderLen)
       \/ main = "sendHeader" /\ main' = "sendDescLen" /\ c = HeaderChunk(Current, reports[Current])
       \/ main = "sendDescLen" /\ main' = "sendDesc" /\ c = IntChunk(DescLen)
       \/ main = "sendDesc" /\ main' = "respLen" /\ c = DescChunk(Current)

LEMMA ClientSteps ==
    ASSUME TypeOK, UpInv, beats' = 0, CliNext
    PROVE  NothingSentNow \/ LoginSent \/ ReportFiled \/ \E c : PartSent(c)
  <1>a. hb \notin {"sendLen", "sendType"}
    BY DEF UpInv, Ending
  <1>b. Leave => Gone' /\ UNCHANGED <<hb, reports>>
    BY DEF Leave, Gone
  <1>c. BackToMenu => main' \in {"menu", "join"} /\ UNCHANGED <<hb, reports>>
    BY DEF BackToMenu, Loop
  <1>1. CASE CliLoginFails \/ CliSendFails \/ CliRecvFails \/ CliChooseExit
    <2>1. main \in {"login", "reply", "menu"} \union Sending \union Replying /\ Gone'
          /\ UNCHANGED <<c2s, s2c, closed, hb, reports>>
      BY <1>1, <1>b DEF CliLoginFails, CliSendFails, CliRecvFails, CliChooseExit, Gone, tcpVars,
         threadVars, Replying
    <2> QED
      BY <1>a, <2>1 DEF NothingSentNow, Sending, Replying
  <1>2. CASE CliRecvReply
    <2>1. /\ main = "reply" /\ s2c # << >> /\ UNCHANGED <<c2s, closed, reports>>
          /\ main' \in {"menu", "join"} /\ (hb' = "sleep" \/ hb' = hb)
      BY <1>2 DEF CliRecvReply, ClientReads, Leave, Loop
    <2> QED
      BY <1>a, <2>1 DEF NothingSentNow, Gone
  <1>3. CASE CliChooseReport
    <2>1. main = "menu" /\ main' = "form" /\ UNCHANGED <<c2s, closed, hb, reports>>
      BY <1>3 DEF CliChooseReport, threadVars, tcpVars
    <2> QED
      BY <1>a, <2>1 DEF NothingSentNow
  <1>4. CASE CliRecvLength \/ CliRecvResponse \/ CliRecvBitmapType \/ CliRecvBitmapSize
             \/ CliRecvBitmap \/ CliBitmapFails
    <2>1. /\ main \in Replying \union Fetching /\ UNCHANGED <<c2s, closed, hb, reports>>
          /\ main' \in {"menu", "join", "resp", "bmpType", "bmpSize", "bmpData"}
      BY <1>4, <1>b, <1>c DEF CliRecvLength, CliRecvResponse, CliRecvBitmapType, CliRecvBitmapSize,
         CliRecvBitmap, CliBitmapFails, Replying, Fetching, threadVars, Gone, Leave
    <2> QED
      BY <1>a, <2>1 DEF NothingSentNow, Replying, Fetching, Gone
  <1>5. CASE CliExit
    <2>1. main = "join" /\ main' = "exited" /\ UNCHANGED <<c2s, hb, reports>>
          /\ (s2c' = s2c \/ s2c' = << >>) /\ (closed' = closed \/ closed' = closed \union {"client"})
      BY <1>5 DEF CliExit, ClientClose, threadVars
    <2> QED
      BY <1>a, <2>1 DEF NothingSentNow, Gone
  <1>6. CASE Heartbeat
    <2>1. ~ HbWake
      BY DEF HbWake, TypeOK, CliTypes
    <2>2. ~ HbSendLen /\ ~ HbSendType /\ ~ HbSendFails
      BY <1>a DEF HbSendLen, HbSendType, HbSend, HbSendFails
    <2>3. HbStop
      BY <1>6, <2>1, <2>2 DEF Heartbeat
    <2> QED
      BY <2>3 DEF HbStop, NothingSentNow, tcpVars
  <1>7. CASE CliLogin
    <2>1. \E cred \in Credentials :
             ClientSend(<< >> \oplus IntChunk(AuthLen(cred)) \oplus AuthChunk(cred))
      BY <1>7, Zenon DEF CliLogin
    <2>2. main = "login" /\ main' = "reply" /\ UNCHANGED <<s2c, closed, hb, reports>>
      BY <1>7 DEF CliLogin, threadVars, ClientSend
    <2> QED
      BY <2>1, <2>2, Zenon DEF LoginSent
  <1>8. CASE CliFillForm
    <2>1. \A raw \in RawSeverities : Normalized(raw) \in 0 .. 5
      BY DEF Normalized
    <2>2. main = "form" /\ main' = "sendHeaderLen" /\ UNCHANGED <<tcpVars, hb>>
          /\ \E raw \in RawSeverities : reports' = Append(reports, Normalized(raw))
      BY <1>8 DEF CliFillForm, threadVars
    <2> QED
      BY <2>1, <2>2 DEF ReportFiled
  <1>9. CASE CliSendHeaderLen \/ CliSendHeader \/ CliSendDescLen \/ CliSendDesc
    BY <1>9, Zenon DEF CliSendHeaderLen, CliSendHeader, CliSendDescLen, CliSendDesc, SendStep,
       threadVars, PartSent
  <1> QED
    BY <1>1, <1>2, <1>3, <1>4, <1>5, <1>6, <1>7, <1>8, <1>9 DEF CliNext, Working

\* Filing one more report leaves the parts of the others what they were.
LEMMA PartsStay ==
    ASSUME NEW s \in Seq(0 .. 5), NEW t \in Seq(0 .. 5), NEW severity \in 0 .. 5, t = Append(s, severity)
    PROVE  /\ Len(t) = Len(s) + 1 /\ \A r \in 1 .. Len(s) : t[r] = s[r]
           /\ \A q, c : ReportPart(s, q, c) => ReportPart(t, q, c)
  <1>1. Len(s) \in Nat /\ Len(t) = Len(s) + 1 /\ \A r \in 1 .. Len(s) : t[r] = s[r] /\ r \in 1 .. Len(t)
    OBVIOUS
  <1>2. ASSUME NEW q, NEW c, ReportPart(s, q, c)
        PROVE  ReportPart(t, q, c)
    BY <1>1, <1>2 DEF ReportPart
  <1> QED
    BY <1>1, <1>2

\* A part sent is the next one.
LEMMA PartsGrow ==
    ASSUME TypeOK, ReportInHand, UpInv, phase # "auth", ~ Over, NEW c, PartSent(c), UNCHANGED srvVars
    PROVE  /\ Intact(c2s') /\ \A i \in DOMAIN c2s' : ReportPart(reports, Received + i, c2s'[i])
           /\ Len(c2s') = Len(c2s) + 1 /\ Dispatched' = Dispatched + 1 /\ closed' = closed
           /\ Dispatched < 4 * Current
  <1>1. /\ Intact(c2s) /\ \A i \in DOMAIN c2s : ReportPart(reports, Received + i, c2s[i])
        /\ c2s \in Streams /\ (~ Gone => Received + Len(c2s) = Dispatched)
        /\ "server" \notin closed
    BY DEF UpInv, Upstream, Ending, Over, TypeOK, TcpTypes
  <1>2. /\ main \in Sending /\ UNCHANGED reports /\ closed' = closed /\ c2s' = Sent(c2s, <<c>>)
    BY <1>1 DEF PartSent, ClientSend, Sending
  <1>3. /\ Current \in Nat /\ Current >= 1 /\ Len(ledger) \in Nat /\ Current = Len(reports)
        /\ reports[Current] \in Int /\ HeaderLen \in Int /\ DescLen \in Int
    <2>1. HeaderLen \in Int /\ DescLen \in Int
      BY Lengths
    <2>2. reports \in Seq(0 .. 5) /\ reports # << >> /\ Len(ledger) \in Nat
      BY <1>2 DEF TypeOK, SrvTypes, CliTypes, ReportInHand, Exchange
    <2> QED
      BY <2>1, <2>2 DEF Current
  <1>4. ~ Gone
    BY <1>2 DEF Gone, Sending
  <1>5. Dispatched' = Dispatched + 1 /\ Dispatched < 4 * Current
    <2>1. Current' = Current
      BY <1>2 DEF Current
    <2> QED
      BY <1>3, <2>1 DEF PartSent, Dispatched
  <1>6. Sized(c)
    BY <1>3, SentSizes, Zenon DEF PartSent
  <1>7. /\ c2s' \in Streams /\ Intact(c2s') /\ Len(c2s') = Len(c2s) + 1
        /\ \A i \in 1 .. Len(c2s) : c2s'[i] = c2s[i]
        /\ Same(c2s'[Len(c2s) + 1], c)
    BY <1>1, <1>2, <1>6, PlusIntact, Zenon
  <1>8. ReportPart(reports, Dispatched + 1, c)
    <2>1. /\ main = "sendHeaderLen" => Dispatched + 1 = 4 * Current - 3
          /\ main = "sendHeader" => Dispatched + 1 = 4 * Current - 2
          /\ main = "sendDescLen" => Dispatched + 1 = 4 * Current - 1
          /\ main = "sendDesc" => Dispatched + 1 = 4 * Current
      BY <1>3 DEF Dispatched
    <2>2. Current \in 1 .. Len(reports)
      BY <1>3
    <2>3. /\ main = "sendHeaderLen" => c.kind = "int" /\ c.num = HeaderLen
          /\ main = "sendHeader" => c.kind = "header" /\ c.id = Current /\ c.num = reports[Current]
          /\ main = "sendDescLen" => c.kind = "int" /\ c.num = DescLen
          /\ main = "sendDesc" => c.kind = "desc" /\ c.id = Current
      <3>1. /\ IntChunk(HeaderLen).kind = "int" /\ IntChunk(HeaderLen).num = HeaderLen
            /\ IntChunk(DescLen).kind = "int" /\ IntChunk(DescLen).num = DescLen
            /\ HeaderChunk(Current, reports[Current]).kind = "header"
            /\ HeaderChunk(Current, reports[Current]).id = Current
            /\ HeaderChunk(Current, reports[Current]).num = reports[Current]
            /\ DescChunk(Current).kind = "desc" /\ DescChunk(Current).id = Current
        BY DEF IntChunk, HeaderChunk, DescChunk, Chunk
      <3>2. /\ main = "sendHeaderLen" => c = IntChunk(HeaderLen)
            /\ main = "sendHeader" => c = HeaderChunk(Current, reports[Current])
            /\ main = "sendDescLen" => c = IntChunk(DescLen)
            /\ main = "sendDesc" => c = DescChunk(Current)
        BY DEF PartSent
      <3> QED
        BY <3>1, <3>2
    <2> QED
      BY <1>2, <2>1, <2>2, <2>3, Zenon DEF ReportPart, Sending
  <1>9. ASSUME NEW i \in DOMAIN c2s'
        PROVE  ReportPart(reports, Received + i, c2s'[i])
    <2>1. /\ Len(c2s) \in Nat /\ DOMAIN c2s = 1 .. Len(c2s) /\ i \in 1 .. Len(c2s) + 1
      BY <1>1, <1>7 DEF Streams
    <2>2. CASE i \in 1 .. Len(c2s)
      BY <1>1, <1>7, <2>1, <2>2
    <2>3. CASE i = Len(c2s) + 1
      <3>1. Received + i = Dispatched + 1
        <4>1. Received \in Int
          BY <1>3 DEF Received
        <4> QED
          BY <1>1, <1>4, <2>1, <2>3, <4>1
      <3>2. Same(c2s'[i], c)
        BY <1>7, <2>3
      <3> QED
        BY <1>8, <3>1, <3>2 DEF ReportPart, Same
    <2> QED
      BY <2>1, <2>2, <2>3
  <1> QED
    BY <1>2, <1>5, <1>7, <1>9

LEMMA ClientKeepsUp ==
    ASSUME TypeOK, TypeOK', ReportInHand, UpInv, beats' = 0, CliNext, UNCHANGED srvVars
    PROVE  UpInv'
  <1>a. /\ UNCHANGED <<phase, want, hdr, out, ledger>> /\ (Over' <=> Over) /\ Received' = Received
    BY DEF srvVars, Over, Received
  <1>b. /\ Len(ledger) \in Nat /\ Len(reports) \in Nat /\ c2s \in Streams /\ s2c \in Streams
        /\ ledger \in Seq(Records) /\ reports \in Seq(0 .. 5) /\ Len(c2s) \in Nat
    BY DEF TypeOK, TcpTypes, SrvTypes, CliTypes, Streams
  <1>c. Ending /\ Upstream /\ LoginFirst /\ LedgerExact /\ Outbox
    BY DEF UpInv
  <1>1. CASE NothingSentNow
    <2>1. /\ UNCHANGED <<c2s, reports>> /\ hb' \notin {"sendLen", "sendType"} /\ Current' = Current
          /\ closed' = closed \/ (main' = "exited" /\ closed' = closed \union {"client"})
      BY <1>1 DEF NothingSentNow, Current
    <2>2. Ending'
      <3>1. "server" \in closed' => phase' = "closed"
        BY <1>a, <1>c, <2>1 DEF Ending
      <3>2. "client" \in closed => main' = "exited"
        BY <1>1, <1>c DEF NothingSentNow, Ending, Replying, Fetching
      <3>3. "client" \in closed' => main' = "exited"
        BY <2>1, <3>2
      <3> QED
        BY <2>1, <3>1, <3>3 DEF Ending
    <2>3. ~ Gone' => Dispatched' = Dispatched /\ ~ Gone
      BY <1>1, <2>1 DEF NothingSentNow, Dispatched, Gone, Sending, Replying, Fetching
    <2>4. Upstream'
      BY <1>a, <1>c, <2>1, <2>3 DEF Upstream
    <2>5. LoginFirst'
      BY <1>1, <1>a, <1>c, <2>1 DEF NothingSentNow, LoginFirst, Gone, Replying, Fetching
    <2>6. LedgerExact' /\ Outbox'
      BY <1>a, <1>c, <2>1, Zenon DEF LedgerExact, Outbox
    <2> QED
      BY <2>2, <2>4, <2>5, <2>6 DEF UpInv
  <1>2. CASE LoginSent
    <2>1. /\ main = "login" /\ main' = "reply" /\ UNCHANGED <<s2c, closed, hb, reports>>
          /\ s2c = << >> /\ c2s = << >> /\ reports = << >> /\ (phase = "auth" \/ Over)
      BY <1>2, <1>c DEF LoginSent, LoginFirst
    <2>2. phase = "auth" => Intact(c2s') /\ Len(c2s') = 2
      <3> SUFFICES ASSUME phase = "auth" PROVE Intact(c2s') /\ Len(c2s') = 2
        OBVIOUS
      <3>1. PICK cred \in Credentials :
               ClientSend(<< >> \oplus IntChunk(AuthLen(cred)) \oplus AuthChunk(cred))
        BY <1>2, Zenon DEF LoginSent
      <3> DEFINE p == << >> \oplus IntChunk(AuthLen(cred)) \oplus AuthChunk(cred)
      <3>2. p \in Streams /\ Intact(p) /\ Len(p) = 2
        BY LoginPacket, Zenon
      <3> HIDE DEF p
      <3>3. c2s' = Sent(c2s, p)
        BY <1>c, <3>1 DEF p, ClientSend, Ending
      <3>4. Len(c2s') = Len(c2s) + Len(p) /\ Len(c2s) = 0
        BY <1>b, <2>1, <3>2, <3>3, SentChunks, NothingIntact
      <3>5. Intact(c2s')
        BY <2>1, <3>2, <3>3, SentIntact, NothingIntact
      <3> QED
        BY <3>2, <3>4, <3>5
    <2>3. LoginFirst'
      BY <1>a, <2>1, <2>2 DEF LoginFirst
    <2>4. Upstream' /\ Ending'
      BY <1>a, <1>c, <2>1 DEF Upstream, Ending
    <2>5. LedgerExact' /\ Outbox'
      BY <1>a, <1>c, <2>1, Zenon DEF LedgerExact, Outbox
    <2> QED
      BY <2>3, <2>4, <2>5 DEF UpInv
  <1>3. CASE ReportFiled
    <2>1. main = "form" /\ main' = "sendHeaderLen" /\ UNCHANGED <<tcpVars, hb>>
      BY <1>3 DEF ReportFiled
    <2>2. /\ Len(reports') = Len(reports) + 1 /\ \A r \in 1 .. Len(reports) : reports'[r] = reports[r]
          /\ \A q, c : ReportPart(reports, q, c) => ReportPart(reports', q, c)
      <3>1. reports' \in Seq(0 .. 5)
        BY DEF TypeOK, CliTypes
      <3>2. PICK severity \in 0 .. 5 : reports' = Append(reports, severity)
        BY <1>3 DEF ReportFiled
      <3> QED
        BY <1>b, <3>1, <3>2, PartsStay
    <2>3. Current' = Current + 1 /\ Dispatched' = Dispatched /\ Dispatched = 4 * Current
      <3>1. Current' = Current + 1 /\ Current \in Nat
        BY <1>b, <2>2 DEF Current
      <3>2. Dispatched' = 4 * Current' - 4 /\ Dispatched = 4 * Current - 0
        BY <2>1 DEF Dispatched
      <3> QED
        BY <3>1, <3>2
    <2>4. Ending' /\ LoginFirst'
      BY <1>a, <1>c, <2>1 DEF Ending, LoginFirst, tcpVars, Over
    <2>5. Upstream'
      <3> SUFFICES ASSUME phase # "auth", ~ Over
                   PROVE  Upstream'
        BY <1>a DEF Upstream
      <3>1. /\ Intact(c2s) /\ \A i \in DOMAIN c2s : ReportPart(reports, Received + i, c2s[i])
            /\ Received + Len(c2s) = Dispatched
            /\ phase = "payload" => want = HeaderLen
            /\ phase = "desc" => want = DescLen
            /\ phase \in {"descLength", "desc"} =>
                  hdr = [id |-> Len(ledger) + 1, severity |-> reports[Len(ledger) + 1]]
        BY <1>c, <2>1 DEF Upstream, Gone
      <3>2. phase \in {"descLength", "desc"} => reports'[Len(ledger) + 1] = reports[Len(ledger) + 1]
        <4>1. phase \in {"descLength", "desc"} => 4 * Len(ledger) + 2 <= Received
          BY <1>b DEF Received
        <4>2. Received \in Int
          BY <1>b DEF Received
        <4>3. phase \in {"descLength", "desc"} => Len(ledger) + 1 \in 1 .. Len(reports)
          BY <1>b, <2>3, <3>1, <4>1, <4>2 DEF Current
        <4> QED
          BY <2>2, <4>3
      <3>3. UNCHANGED c2s
        BY <2>1 DEF tcpVars
      <3>4. Received' + Len(c2s') = Dispatched' /\ Received' + Len(c2s') <= 4 * Current'
        <4>1. Current \in Nat
          BY <1>b DEF Current
        <4>2. Received' + Len(c2s') = Dispatched'
          BY <1>a, <2>3, <3>1, <3>3
        <4>3. Dispatched' <= 4 * Current'
          BY <2>3, <4>1
        <4> QED
          BY <4>2, <4>3
      <3> QED
        BY <1>a, <2>2, <3>1, <3>2, <3>3, <3>4 DEF Upstream
    <2>6. LedgerExact'
      <3>1. DOMAIN ledger = 1 .. Len(ledger)
        BY <1>b
      <3>2. \A i \in 1 .. Len(ledger) : i \in 1 .. Len(reports)
        BY <1>b, <1>c DEF LedgerExact
      <3> QED
        BY <1>a, <1>b, <1>c, <2>2, <3>1, <3>2 DEF LedgerExact
    <2>7. Outbox'
      <3>1. phase = "send" => reports'[Len(ledger)] = reports[Len(ledger)]
        <4>1. phase = "send" => Len(ledger) \in 1 .. Len(reports)
          BY <1>b, <1>c DEF Outbox, LedgerExact
        <4> QED
          BY <2>2, <4>1
      <3> QED
        BY <1>a, <1>c, <3>1, Zenon DEF Outbox
    <2> QED
      BY <2>4, <2>5, <2>6, <2>7 DEF UpInv
  <1>4. CASE \E c : PartSent(c)
    <2>1. PICK c : PartSent(c)
      BY <1>4
    <2>2. /\ main \in Sending /\ main' \in Sending \union {"respLen"} /\ UNCHANGED <<s2c, hb, reports, closed>>
          /\ Current' = Current
      BY <2>1 DEF PartSent, ClientSend, Sending, Current
    <2>3. phase # "auth" /\ main \notin {"login", "reply"}
      BY <1>c, <2>2 DEF LoginFirst, Sending
    <2>4. Ending' /\ LoginFirst'
      BY <1>a, <1>c, <2>2, <2>3 DEF Ending, LoginFirst, Sending
    <2>5. Upstream'
      <3> SUFFICES ASSUME ~ Over PROVE Upstream'
        BY <1>a DEF Upstream
      <3>1. /\ Intact(c2s') /\ \A i \in DOMAIN c2s' : ReportPart(reports, Received + i, c2s'[i])
            /\ Len(c2s') = Len(c2s) + 1 /\ Dispatched' = Dispatched + 1 /\ Dispatched < 4 * Current
        BY <2>1, <2>3, PartsGrow
      <3>2. Received + Len(c2s) = Dispatched
        BY <1>c, <2>2, <2>3 DEF Upstream, Gone, Sending
      <3>3. Received + Len(c2s') = Dispatched' /\ Dispatched' <= 4 * Current
        <4>1. Received \in Int /\ Dispatched \in Int /\ Current \in Int
          BY <1>b DEF Received, Dispatched, Current
        <4> QED
          BY <1>b, <3>1, <3>2, <4>1
      <3>4. Received' + Len(c2s') = Dispatched' /\ Received' + Len(c2s') <= 4 * Current'
        BY <1>a, <2>2, <3>3
      <3> QED
        BY <1>a, <1>c, <2>2, <2>3, <3>1, <3>4 DEF Upstream
    <2>6. LedgerExact' /\ Outbox'
      BY <1>a, <1>c, <2>2, Zenon DEF LedgerExact, Outbox
    <2> QED
      BY <2>4, <2>5, <2>6 DEF UpInv
  <1> QED
    BY <1>1, <1>2, <1>3, <1>4, ClientSteps

-----------------------------------------------------------------------
(* Streams that begin inside a bitmap that was given up.                                           *)

\* The bytes of a bitmap after its header.
Pixels == BitmapLen - BitmapHeaderLen

LEMMA PixelsType == Pixels \in Int /\ Pixels >= 1032 /\ BitmapLen = Pixels + 54 /\ MaxResponse = 1024
  BY Lengths DEF Pixels, BitmapHeaderLen, MaxResponse

\* Where chunk j begins.
Start(s, j) == IF j = 1 THEN 0 ELSE s[j - 1].end

\* Before anything else in s there is a bitmap, or the rest of one that ends so many bytes away at
\* least; and no integer before it is a bitmap's type, but for one that is its own, at the front.
Lost(s, j, floor) ==
    \/ s[j].kind = "bitmap" /\ s[j].end >= Start(s, j) + BitmapLen
    \/ s[j].kind = "bitmapRest" /\ j = 1 /\ s[j].end >= floor

Passing(s, j, m) ==
    \A i \in 1 .. j - 1 :
        /\ s[i].kind \in {"int", "rest"}
        /\ s[i].kind = "int" /\ s[i].num = TypeBitmap => i <= m /\ s[i].end <= 4

Mired(s, floor, m) == \E j \in DOMAIN s : Lost(s, j, floor) /\ Passing(s, j, m)

LEMMA MiredLess ==
    ASSUME NEW s \in Streams, NEW f \in Int, NEW m \in {0, 1}, Mired(s, f, m), NEW g \in Int, g <= f
    PROVE  Mired(s, g, m) /\ Mired(s, g, 1)
  <1>1. PICK j \in DOMAIN s : Lost(s, j, f) /\ Passing(s, j, m)
    BY DEF Mired
  <1>2. s[j].end \in Int /\ j \in Nat
    BY SpacedFacts
  <1>3. Lost(s, j, g)
    BY <1>1, <1>2 DEF Lost
  <1>4. \A i \in 1 .. j - 1 : i <= m => i <= 1
    BY <1>2
  <1>5. Passing(s, j, 1)
    BY <1>1, <1>4 DEF Passing
  <1> QED
    BY <1>1, <1>3, <1>5 DEF Mired

\* What is sent comes after the bitmap.
LEMMA MiredSent ==
    ASSUME NEW s \in Streams, NEW f \in Int, NEW m \in {0, 1}, Mired(s, f, m), NEW packet \in Streams
    PROVE  Mired(Sent(s, packet), f, m)
  <1> DEFINE t == Sent(s, packet)
  <1>1. /\ t \in Streams /\ Len(t) = Len(s) + Len(packet) /\ \A i \in 1 .. Len(s) : t[i] = s[i]
    BY SentChunks
  <1> HIDE DEF t
  <1>2. PICK j \in DOMAIN s : Lost(s, j, f) /\ Passing(s, j, m)
    BY DEF Mired
  <1>3. Len(s) \in Nat /\ Len(packet) \in Nat /\ DOMAIN s = 1 .. Len(s) /\ DOMAIN t = 1 .. Len(t)
    BY <1>1 DEF Streams
  <1>4. j \in 1 .. Len(s) /\ j \in DOMAIN t /\ \A i \in 1 .. j - 1 : i \in 1 .. Len(s)
    BY <1>1, <1>3
  <1>5. t[j] = s[j] /\ \A i \in 1 .. j - 1 : t[i] = s[i]
    BY <1>1, <1>4
  <1>6. Start(t, j) = Start(s, j)
    <2>1. j # 1 => j - 1 \in 1 .. j - 1
      BY <1>3, <1>4
    <2> QED
      BY <1>5, <2>1 DEF Start
  <1>7. Lost(t, j, f) /\ Passing(t, j, m)
    BY <1>2, <1>5, <1>6 DEF Lost, Passing
  <1>8. Mired(t, f, m)
    BY <1>4, <1>7 DEF Mired
  <1> QED
    BY <1>8 DEF t

\* A read that ends before the bitmap does leaves the reader inside it.
LEMMA MiredRead ==
    ASSUME NEW s \in Streams, Spaced(s), NEW f \in Int, NEW m \in {0, 1}, Mired(s, f, m),
           f <= BitmapLen, NEW n \in Nat, n < f
    PROVE  /\ AfterRead(s, n) \in Streams /\ Spaced(AfterRead(s, n))
           /\ Mired(AfterRead(s, n), f - n, m)
           /\ n >= 4 => Mired(AfterRead(s, n), f - n, 0)
  <1> DEFINE t == AfterRead(s, n)
             k == Whole(s, n)
  <1>1. t \in Streams /\ Spaced(t)
    BY AfterReadType, ReadSpaced
  <1>2. Left(s, t, k, n) /\ Increasing(s)
    BY SpacedIncreasing, ReadLeaves
  <1>3. /\ k \in 0 .. Len(s) /\ Len(t) = Len(s) - k
        /\ \A i \in 1 .. k : s[i].end <= n
        /\ \A i \in k + 1 .. Len(s) : s[i].end > n
        /\ \A i \in 1 .. Len(t) :
              /\ t[i].end = s[k + i].end - n
              /\ i > 1 \/ ~ Cuts(s, n) => t[i] = [s[k + i] EXCEPT !.end = @ - n]
              /\ i = 1 /\ Cuts(s, n) => t[i].kind = RestOf(s[k + i].kind)
    BY <1>2 DEF Left
  <1> HIDE DEF t, k
  <1>4. /\ Len(s) \in Nat /\ DOMAIN s = 1 .. Len(s) /\ DOMAIN t = 1 .. Len(t)
        /\ \A i \in 1 .. Len(s) : s[i] \in Chunks /\ s[i].end \in Int /\ s[i].end >= 1
        /\ BitmapLen \in Int
    <2>1. /\ Len(s) \in Nat /\ DOMAIN s = 1 .. Len(s) /\ DOMAIN t = 1 .. Len(t)
          /\ \A i \in 1 .. Len(s) : s[i] \in Chunks /\ s[i].end \in Int
      BY <1>1, SpacedFacts DEF Streams
    <2>2. \A i \in 1 .. Len(s) : s[i].end >= 1
      BY <2>1, SpacedFacts DEF Least
    <2> QED
      BY <2>1, <2>2, Lengths
  <1>5. ASSUME NEW i \in 1 .. Len(t)
        PROVE  /\ t[i].end = s[k + i].end - n
               /\ \/ t[i].kind = s[k + i].kind /\ t[i].num = s[k + i].num /\ (i > 1 \/ ~ Cuts(s, n))
                  \/ t[i].kind = RestOf(s[k + i].kind) /\ i = 1 /\ Cuts(s, n)
    <2>1. s[k + i] \in Chunks
      <3>1. k + i \in 1 .. Len(s)
        BY <1>3, <1>4
      <3> QED
        BY <1>4, <3>1
    <2>2. CASE i > 1 \/ ~ Cuts(s, n)
      BY <1>3, <2>1, <2>2 DEF Chunks
    <2>3. CASE i = 1 /\ Cuts(s, n)
      BY <1>3, <2>3
    <2>4. i > 1 \/ i = 1
      BY <1>3, <1>4
    <2> QED
      BY <1>3, <2>2, <2>3, <2>4
  <1>6. PICK j \in DOMAIN s : Lost(s, j, f) /\ Passing(s, j, m)
    BY DEF Mired
  <1>7. s[j].end > n /\ s[j].end \in Int /\ Start(s, j) \in Int /\ Start(s, j) >= 0 /\ j \in 1 .. Len(s)
    <2>1. j # 1 => j - 1 \in 1 .. Len(s)
      BY <1>4, <1>6
    <2>2. s[j].end \in Int /\ Start(s, j) \in Int /\ Start(s, j) >= 0 /\ j \in 1 .. Len(s)
      BY <1>4, <1>6, <2>1 DEF Start
    <2>3. s[j].end >= f
      BY <1>4, <1>6, <2>2 DEF Lost
    <2> QED
      BY <2>2, <2>3
  <1>8. j > k
    <2>1. j \in 1 .. k => s[j].end <= n
      BY <1>3
    <2> QED
      BY <1>3, <1>4, <1>7, <2>1
  <1>9. PICK h \in 1 .. Len(t) : j = k + h
    <2>1. j - k \in 1 .. Len(t) /\ j = k + (j - k)
      BY <1>3, <1>4, <1>7, <1>8
    <2> QED
      BY <2>1
  <1>10. Lost(t, h, f - n)
    <2>1. t[h].end = s[j].end - n
      BY <1>5, <1>9
    <2>2. CASE s[j].kind = "bitmapRest" /\ j = 1 /\ s[j].end >= f
      <3>1. h = 1 /\ t[h].kind = "bitmapRest"
        BY <1>3, <1>5, <1>9, <2>2 DEF RestOf
      <3> QED
        BY <1>7, <2>1, <2>2, <3>1 DEF Lost
    <2>3. CASE s[j].kind = "bitmap" /\ s[j].end >= Start(s, j) + BitmapLen
      <3>1. CASE h > 1
        <4>1. t[h].kind = "bitmap"
          BY <1>5, <1>9, <2>3, <3>1
        <4>2. h - 1 \in 1 .. Len(t) /\ h # 1 /\ j # 1 /\ j - 1 = k + (h - 1)
          BY <1>3, <1>9, <3>1
        <4>3. Start(t, h) = Start(s, j) - n
          BY <1>5, <4>2 DEF Start
        <4> QED
          BY <1>4, <1>7, <2>1, <2>3, <4>1, <4>3 DEF Lost
      <3>2. CASE h = 1 /\ Cuts(s, n)
        <4>1. t[h].kind = "bitmapRest"
          BY <1>5, <1>9, <2>3, <3>2 DEF RestOf
        <4>2. t[h].end >= f - n
          BY <1>4, <1>7, <2>1, <2>3
        <4> QED
          BY <3>2, <4>1, <4>2 DEF Lost
      <3>3. CASE h = 1 /\ ~ Cuts(s, n)
        <4>1. t[h].kind = "bitmap"
          BY <1>5, <1>9, <2>3, <3>3
        <4>2. n <= Start(s, j)
          <5>1. CASE n = 0
            BY <1>7, <5>1
          <5>2. CASE n # 0
            <6>1. s # << >> /\ Len(s) \in 1 .. Len(s)
              BY <1>4, <1>7
            <6>2. n < Unread(s)
              <7>1. s[j].end <= s[Len(s)].end
                <8>1. j = Len(s) \/ j < Len(s)
                  BY <1>4, <1>7
                <8>2. j < Len(s) => s[j].end < s[Len(s)].end
                  BY <1>2, <1>4, <1>7, <6>1 DEF Increasing
                <8>3. s[j].end \in Int /\ s[Len(s)].end \in Int
                  BY <1>4, <1>7, <6>1
                <8> QED
                  BY <8>1, <8>2, <8>3
              <7>2. s[Len(s)].end \in Int
                BY <1>4, <6>1
              <7> QED
                BY <1>7, <6>1, <7>1, <7>2 DEF Unread
            <6>3. PICK i \in DOMAIN s : s[i].end = n
              BY <3>3, <5>2, <6>2 DEF Cuts
            <6>4. i < j
              <7>1. j < i => s[j].end < s[i].end
                BY <1>2, <1>4, <1>7, <6>3 DEF Increasing
              <7>2. s[i].end \in Int /\ i \in Int /\ j \in Int
                BY <1>4, <1>7, <6>3
              <7> QED
                BY <1>7, <6>3, <7>1, <7>2
            <6>5. j # 1 /\ j - 1 \in 1 .. Len(s) /\ i \in 1 .. Len(s)
              BY <1>4, <1>7, <6>3, <6>4
            <6>6. i = j - 1 \/ s[i].end < s[j - 1].end
              BY <1>2, <1>4, <6>4, <6>5 DEF Increasing
            <6>7. s[i].end \in Int /\ s[j - 1].end \in Int
              BY <1>4, <6>5
            <6> QED
              BY <6>3, <6>5, <6>6, <6>7 DEF Start
          <5> QED
            BY <5>1, <5>2
        <4>3. Start(t, h) = 0
          BY <3>3 DEF Start
        <4> QED
          BY <1>4, <1>7, <2>1, <2>3, <4>1, <4>2, <4>3 DEF Lost
      <3>4. h > 1 \/ h = 1
        BY <1>9
      <3> QED
        BY <3>1, <3>2, <3>3, <3>4
    <2> QED
      BY <1>6, <2>2, <2>3 DEF Lost
  <1>11. ASSUME NEW i \in 1 .. h - 1
         PROVE  /\ t[i].kind \in {"int", "rest"}
                /\ t[i].kind = "int" /\ t[i].num = TypeBitmap => i <= m /\ t[i].end <= 4 /\ n < 4
    <2>1. i \in 1 .. Len(t) /\ k + i \in 1 .. j - 1 /\ k + i \in 1 .. Len(s) /\ i <= k + i
      BY <1>3, <1>4, <1>7, <1>9
    <2>2. /\ s[k + i].kind \in {"int", "rest"}
          /\ s[k + i].kind = "int" /\ s[k + i].num = TypeBitmap => k + i <= m /\ s[k + i].end <= 4
      BY <1>6, <2>1 DEF Passing
    <2>3. /\ t[i].end = s[k + i].end - n /\ s[k + i].end \in Int
          /\ t[i].kind = "rest" \/ (t[i].kind = s[k + i].kind /\ t[i].num = s[k + i].num)
      <3>1. RestOf(s[k + i].kind) = "rest"
        BY <2>2 DEF RestOf
      <3> QED
        BY <1>4, <1>5, <2>1, <3>1
    <2>4. t[i].end >= 1
      BY <1>1, <2>1, SpacedFacts DEF Least
    <2>5. t[i].kind = "int" /\ t[i].num = TypeBitmap => k + i <= m /\ s[k + i].end <= 4
      BY <2>2, <2>3
    <2>6. k + i <= m /\ s[k + i].end <= 4 => i <= m /\ t[i].end <= 4 /\ n < 4
      <3>1. k \in Int /\ i \in Int /\ i <= k + i
        BY <1>3, <1>4, <2>1
      <3>2. t[i].end = s[k + i].end - n /\ s[k + i].end \in Int
        BY <2>3
      <3> QED
        BY <2>4, <3>1, <3>2
    <2> QED
      BY <2>2, <2>3, <2>5, <2>6
  <1>12. Passing(t, h, m)
    BY <1>11 DEF Passing
  <1>13. n >= 4 => Passing(t, h, 0)
    <2> SUFFICES ASSUME n >= 4 PROVE Passing(t, h, 0)
      OBVIOUS
    <2>1. ~ (n < 4)
      OBVIOUS
    <2> QED
      BY <1>11, <2>1 DEF Passing
  <1> QED
    BY <1>1, <1>4, <1>10, <1>12, <1>13 DEF t, Mired

\* What is read there is neither a bitmap's type nor a whole confirmation; and it is taken for the
\* length of one only before the pixels begin.
LEMMA MiredFront ==
    ASSUME NEW s \in Streams, NEW f \in Int, NEW m \in {0, 1}, Mired(s, f, m)
    PROVE  /\ s # << >> /\ Len(s) >= 1
           /\ m = 0 => TypeBitmap \notin FrontInts(s)
           /\ \A n \in Int : Payload(s, n).kind # "text"
           /\ \A n \in FrontInts(s) : AcceptedLength(n, MaxResponse) => Mired(s, Pixels + 1, m)
  <1>1. PICK j \in DOMAIN s : Lost(s, j, f) /\ Passing(s, j, m)
    BY DEF Mired
  <1>2. Len(s) \in Nat /\ j \in 1 .. Len(s) /\ s # << >> /\ Len(s) >= 1 /\ Head(s) = s[1]
        /\ s[1].end \in Int
    BY SpacedFacts DEF Streams
  <1>3. /\ s[1].kind \in {"bitmap", "bitmapRest", "rest", "int"}
        /\ m = 0 => ~ (s[1].kind = "int" /\ s[1].num = TypeBitmap)
    <2>1. j = 1 \/ 1 \in 1 .. j - 1
      BY <1>2
    <2>2. m = 0 => ~ (1 <= m)
      OBVIOUS
    <2> QED
      BY <1>1, <2>1, <2>2 DEF Lost, Passing
  <1>4. FrontInts(s) = CASE s[1].kind = "int"    -> {s[1].num}
                         [] s[1].kind = "bitmap" -> {BitmapWord}
                         [] s[1].kind = "bitmapRest" /\ s[1].end <= Pixels -> {PixelWord}
                         [] OTHER                -> MisreadInts
    BY <1>2, <1>3 DEF FrontInts, Pixels
  <1>5. m = 0 => TypeBitmap \notin FrontInts(s)
    <2>1. TypeBitmap \notin MisreadInts /\ TypeBitmap # BitmapWord /\ TypeBitmap # PixelWord
      BY MisreadAssumption DEF TypeBitmap, BitmapWord, PixelWord
    <2> QED
      BY <1>3, <1>4, <2>1
  <1>6. ASSUME NEW n \in Int PROVE Payload(s, n).kind # "text"
    BY <1>2, <1>3 DEF Payload, Chunk
  <1>7. ASSUME NEW n \in FrontInts(s), AcceptedLength(n, MaxResponse) PROVE Mired(s, Pixels + 1, m)
    <2>1. ~ (s[1].kind = "bitmapRest" /\ s[1].end <= Pixels)
      <3>1. ~ AcceptedLength(PixelWord, MaxResponse)
        BY DEF AcceptedLength, PixelWord, MaxResponse
      <3> QED
        BY <1>4, <1>7, <3>1
    <2>2. s[1].kind = "bitmapRest" => s[1].end >= Pixels + 1
      BY <1>2, <2>1, PixelsType
    <2>3. Lost(s, j, Pixels + 1)
      BY <1>1, <2>2 DEF Lost
    <2> QED
      BY <1>1, <2>3 DEF Mired
  <1> QED
    BY <1>2, <1>5, <1>6, <1>7

\* A bitmap that is sent to a client that has given it up.
LEMMA MiredBitmap ==
    ASSUME NEW r \in Nat
    PROVE  LET s == Sent(<< >>, Bitmap(r)) IN
              s \in Streams /\ Spaced(s) /\ Mired(s, BitmapLen, 1)
  <1> DEFINE p == Bitmap(r)
             s == Sent(<< >>, p)
  <1>1. /\ p \in Streams /\ Intact(p) /\ Len(p) = 3
        /\ Same(p[1], IntChunk(TypeBitmap)) /\ Same(p[2], IntChunk(BitmapLen))
        /\ Same(p[3], BitmapChunk(r)) /\ p[1].end = 4
    BY BitmapPacket, Zenon
  <1> HIDE DEF p
  <1>2. /\ s \in Streams /\ Len(s) = Len(<< >>) + Len(p)
        /\ \A i \in 1 .. Len(p) : /\ s[Len(<< >>) + i].end = Unread(<< >>) + p[i].end
                                  /\ Same(s[Len(<< >>) + i], p[i])
    BY <1>1, NothingIntact, SentChunks, Zenon DEF Same
  <1>3. Spaced(s)
    BY <1>1, NothingIntact, SentSpaced, Zenon DEF Intact
  <1> HIDE DEF s
  <1>4. /\ Len(s) = 3 /\ DOMAIN s = 1 .. 3
        /\ \A i \in 1 .. 3 : Same(s[i], p[i]) /\ s[i].end = p[i].end
    <2>1. \A i \in 1 .. 3 : 0 + i = i /\ p[i].end \in Int
      BY <1>1, SpacedFacts
    <2>2. Len(s) = 0 + 3 /\ \A i \in 1 .. 3 : s[0 + i].end = 0 + p[i].end /\ Same(s[0 + i], p[i])
      BY <1>1, <1>2, NothingIntact
    <2> QED
      BY <1>2, <2>1, <2>2 DEF Streams
  <1>5. BitmapLen \in Int /\ BitmapLen # TypeBitmap /\ BitmapLen >= 0
    <2>1. MaxResponse = 1024 /\ TypeBitmap = 5
      BY DEF MaxResponse, TypeBitmap
    <2> QED
      BY <2>1, Lengths
  <1>6. /\ s[1].kind = "int" /\ s[1].end = 4 /\ s[2].kind = "int" /\ s[2].num = BitmapLen
        /\ s[3].kind = "bitmap"
    <2>1. Same(s[1], p[1]) /\ Same(s[2], p[2]) /\ Same(s[3], p[3]) /\ s[1].end = p[1].end
      BY <1>4
    <2>2. /\ IntChunk(TypeBitmap).kind = "int" /\ IntChunk(BitmapLen).kind = "int"
          /\ IntChunk(BitmapLen).num = BitmapLen /\ BitmapChunk(r).kind = "bitmap"
      BY DEF IntChunk, BitmapChunk, Chunk
    <2> QED
      BY <1>1, <2>1, <2>2, Zenon DEF Same
  <1>7. Lost(s, 3, BitmapLen)
    <2>1. s[3].end = p[3].end /\ s[2].end = p[2].end /\ p[2].end \in Int
      BY <1>1, <1>4, SpacedFacts
    <2>2. p[3].end = p[2].end + Size(p[3]) /\ Size(p[3]) = BitmapLen
      <3>1. Size(p[3]) = BitmapLen
        <4>1. p[3].kind = "bitmap"
          BY <1>1 DEF Same, BitmapChunk, Chunk
        <4> QED
          BY <4>1 DEF Size
      <3>2. 3 \in DOMAIN p /\ 3 - 1 = 2 /\ 3 # 1
        BY <1>1 DEF Streams
      <3>3. p[3].end = (IF 3 = 1 THEN 0 ELSE p[3 - 1].end) + Size(p[3])
        BY <1>1, <3>2 DEF Intact
      <3> QED
        BY <3>1, <3>2, <3>3
    <2>3. Start(s, 3) = s[2].end
      BY DEF Start
    <2> QED
      BY <1>5, <1>6, <2>1, <2>2, <2>3 DEF Lost
  <1>8. Passing(s, 3, 1)
    <2>1. \A i \in 1 .. 3 - 1 : i = 1 \/ i = 2
      OBVIOUS
    <2>2. ASSUME NEW i \in 1 .. 3 - 1
          PROVE  /\ s[i].kind \in {"int", "rest"}
                 /\ s[i].kind = "int" /\ s[i].num = TypeBitmap => i <= 1 /\ s[i].end <= 4
      BY <1>5, <1>6, <2>1
    <2> QED
      BY <2>2 DEF Passing
  <1>9. Mired(s, BitmapLen, 1)
    BY <1>4, <1>7, <1>8 DEF Mired
  <1> QED
    BY <1>2, <1>3, <1>9 DEF s, p

-----------------------------------------------------------------------
(* The invariant: from the server to the client.                                                   *)

\* Chunk c is part q of the answer to report r, whose status is this.
AnswerPart(r, status, q, c) ==
    \/ q = 1 /\ c.kind = "int" /\ c.num = TextLen
    \/ q = 2 /\ c.kind = "text" /\ c.id = r /\ c.tag = status
    \/ q = 3 /\ c.kind = "int" /\ c.num = TypeBitmap
    \/ q = 4 /\ c.kind = "int" /\ c.num = BitmapLen
    \/ q = 5 /\ c.kind = "bitmap" /\ c.id = r

\* The parts that the client has consumed, and that the server has still to send.
Consumed == CASE main = "resp"    -> 1
              [] main = "bmpType" -> 2
              [] main = "bmpSize" -> 3
              [] main = "bmpData" -> 4
              [] OTHER            -> 0

Pending == CASE Len(out) = 0 -> 0
             [] Len(out) = 1 -> 3
             [] OTHER        -> 5

\* The client has had the answers to all its reports, ...
Idle == /\ main \in {"menu", "form"} /\ Len(ledger) = Current
        /\ s2c = << >> /\ out = << >>

\* ... or to all but the one that it is filing, ...
Filing == /\ main \in Sending \union {"respLen"} /\ Len(ledger) = Current - 1
          /\ s2c = << >> /\ out = << >>

\* ... or it is in its place in the answer to that one, ...
Answering ==
    /\ main \in Replying \union Fetching /\ Len(ledger) = Current
    /\ Intact(s2c)
    /\ \A i \in DOMAIN s2c : AnswerPart(Current, Assess(reports[Current]), Consumed + i, s2c[i])
    /\ Consumed + Len(s2c) \in {0, 2, 5}
    /\ ~ Over => Consumed + Len(s2c) + Pending = 5
    /\ main = "resp" => need = TextLen
    /\ main = "bmpData" => need = BitmapLen

\* ... or it has given up a bitmap that was not sent yet, ...
Between == {"menu", "form", "respLen"} \union Sending

Unsent == main \in Between /\ s2c = << >> /\ (Over \/ out = <<Bitmap(Len(ledger))>>)

\* ... or one whose rest is in the way of the answers that follow, ...
Behind == main \in Between /\ Spaced(s2c) /\ Mired(s2c, 1, 1)

\* ... and which it is taking for the answer to its report.
Deep == /\ Spaced(s2c)
        /\ \/ main = "resp" /\ need <= MaxResponse /\ Mired(s2c, Pixels - 3, 0)
           \/ main = "bmpType" /\ Mired(s2c, Pixels - 3 - MaxResponse, 0)

Downstream == main \in {"login", "reply"} \/ Gone
                \/ Idle \/ Filing \/ Answering \/ Unsent \/ Behind \/ Deep

\* What is left of an answer, from the bitmap's type on, ends with the bitmap.
LEMMA AnswerMired ==
    ASSUME TypeOK, Answering, main \in Fetching, s2c # << >>
    PROVE  /\ Consumed + Len(s2c) = 5 /\ Consumed \in {2, 3, 4}
           /\ Spaced(s2c) /\ Mired(s2c, BitmapLen, 1)
  <1>1. /\ Consumed \in {2, 3, 4} /\ Intact(s2c) /\ Consumed + Len(s2c) \in {0, 2, 5}
        /\ \A i \in DOMAIN s2c : AnswerPart(Current, Assess(reports[Current]), Consumed + i, s2c[i])
    BY DEF Answering, Consumed, Fetching
  <1>2. /\ s2c \in Streams /\ Len(s2c) \in Nat /\ Len(s2c) >= 1 /\ DOMAIN s2c = 1 .. Len(s2c)
        /\ \A i \in 1 .. Len(s2c) : s2c[i] \in Chunks /\ s2c[i].end \in Int
    <2>1. s2c \in Streams
      BY DEF TypeOK, TcpTypes
    <2> QED
      BY <1>1, <2>1, IntactFront, SpacedFacts DEF Streams
  <1>3. Consumed + Len(s2c) = 5 /\ Spaced(s2c)
    BY <1>1, <1>2 DEF Intact
  <1> DEFINE j == Len(s2c)
  <1>4. BitmapLen \in Int /\ BitmapLen # TypeBitmap
    <2>1. MaxResponse = 1024 /\ TypeBitmap = 5
      BY DEF MaxResponse, TypeBitmap
    <2> QED
      BY <2>1, Lengths
  <1>5. s2c[j].kind = "bitmap"
    <2>1. AnswerPart(Current, Assess(reports[Current]), 5, s2c[j]) /\ j \in DOMAIN s2c
      BY <1>1, <1>2, <1>3
    <2> QED
      BY <2>1 DEF AnswerPart
  <1>6. Lost(s2c, j, BitmapLen)
    <2>1. s2c[j].end = Start(s2c, j) + BitmapLen
      <3>1. Size(s2c[j]) = BitmapLen
        BY <1>5 DEF Size
      <3>2. j \in DOMAIN s2c
        BY <1>2
      <3> QED
        BY <1>1, <3>1, <3>2 DEF Intact, Start
    <2>2. s2c[j].end \in Int
      BY <1>2
    <2> QED
      BY <1>5, <2>1, <2>2 DEF Lost
  <1>7. ASSUME NEW i \in 1 .. j - 1
        PROVE  /\ s2c[i].kind \in {"int", "rest"}
               /\ s2c[i].kind = "int" /\ s2c[i].num = TypeBitmap => i <= 1 /\ s2c[i].end <= 4
    <2>1. i \in DOMAIN s2c /\ Consumed + i \in {3, 4} /\ (Consumed + i = 3 => i = 1)
      BY <1>1, <1>2, <1>3
    <2>2. /\ s2c[i].kind = "int" /\ (Consumed + i = 4 => s2c[i].num = BitmapLen)
      <3>1. AnswerPart(Current, Assess(reports[Current]), Consumed + i, s2c[i])
        BY <1>1, <2>1
      <3> QED
        BY <2>1, <3>1 DEF AnswerPart
    <2>3. i = 1 => s2c[i].end = 4
      BY <1>2, <2>1, <2>2, IntactFront, <1>1 DEF Size
    <2> QED
      BY <1>4, <2>1, <2>2, <2>3
  <1>8. j \in DOMAIN s2c
    BY <1>2
  <1>9. Passing(s2c, j, 1)
    BY <1>7 DEF Passing
  <1>10. Mired(s2c, BitmapLen, 1)
    BY <1>6, <1>8, <1>9 DEF Mired
  <1> QED
    BY <1>1, <1>3, <1>10

\* The server's next packet keeps the client in its place in the answer ...
LEMMA AnswerGrows ==
    ASSUME TypeOK, Answering, ~ Over, Outbox, UpInv, AnswerSent, UNCHANGED cliVars
    PROVE  /\ Intact(s2c') /\ Len(s2c') + Pending' = Len(s2c) + Pending
           /\ \A i \in DOMAIN s2c' : AnswerPart(Current, Assess(reports[Current]), Consumed + i, s2c'[i])
           /\ Consumed + Len(s2c') \in {0, 2, 5}
  <1> DEFINE r == Len(ledger)
             st == Assess(reports[r])
  <1>1. /\ main \in Replying \union Fetching /\ r = Current /\ Intact(s2c)
        /\ \A i \in DOMAIN s2c : AnswerPart(r, st, Consumed + i, s2c[i])
        /\ Consumed + Len(s2c) + Pending = 5
    BY DEF Answering
  <1>2. s2c \in Streams /\ Len(s2c) \in Nat /\ DOMAIN s2c = 1 .. Len(s2c) /\ r \in Nat
        /\ Consumed \in 0 .. 4
    BY DEF TypeOK, TcpTypes, SrvTypes, Streams, Consumed
  <1>3. /\ s2c' = Sent(s2c, Head(out)) /\ out' = Tail(out)
        /\ out = <<Bitmap(r)>> \/ out = <<Response(r, st), Bitmap(r)>>
    <2>1. "client" \notin closed
      BY <1>1 DEF UpInv, Ending, Replying, Fetching
    <2>2. s2c' = Sent(s2c, Head(out)) /\ out' = Tail(out) /\ phase = "send" /\ out # << >>
      BY <2>1 DEF AnswerSent, ServerSend
    <2>3. out = <<Bitmap(r)>> \/ out = <<Response(r, st), Bitmap(r)>>
      BY <2>2, Zenon DEF Outbox
    <2> QED
      BY <2>2, <2>3
  <1>4. st \in SrvState
    BY DEF Assess, SrvState
  <1> DEFINE p == Head(out)
  <1> HIDE DEF r, st
  <1>5. PICK x \in {0, 2} :
          /\ p \in Streams /\ Intact(p) /\ Len(p) \in {2, 3} /\ x + Len(p) \in {2, 5}
          /\ Consumed + Len(s2c) = x /\ Pending' + Len(p) = Pending
          /\ \A i \in 1 .. Len(p) : AnswerPart(r, st, x + i, p[i])
    <2>1. CASE out = <<Bitmap(r)>>
      <3> DEFINE b == Bitmap(r)
      <3>1. /\ b \in Streams /\ Intact(b) /\ Len(b) = 3
            /\ Same(b[1], IntChunk(TypeBitmap)) /\ Same(b[2], IntChunk(BitmapLen))
            /\ Same(b[3], BitmapChunk(r))
        BY <1>2, BitmapPacket, Zenon
      <3> HIDE DEF b
      <3>2. /\ IntChunk(TypeBitmap).kind = "int" /\ IntChunk(TypeBitmap).num = TypeBitmap
            /\ IntChunk(BitmapLen).kind = "int" /\ IntChunk(BitmapLen).num = BitmapLen
            /\ BitmapChunk(r).kind = "bitmap" /\ BitmapChunk(r).id = r
        BY DEF IntChunk, BitmapChunk, Chunk
      <3>3. out = <<b>> /\ p = b /\ Len(out) = 1 /\ Len(out') = 0
        <4>1. out = <<b>>
          BY <2>1, Zenon DEF b
        <4> QED
          BY <1>3, <4>1
      <3>4. Pending = 3 /\ Pending' = 0
        BY <3>3 DEF Pending
      <3>5. AnswerPart(r, st, 3, b[1]) /\ AnswerPart(r, st, 4, b[2]) /\ AnswerPart(r, st, 5, b[3])
        BY <3>1, <3>2, Zenon DEF AnswerPart, Same
      <3>6. \A i \in 1 .. 3 : AnswerPart(r, st, 2 + i, b[i])
        <4>1. \A i \in 1 .. 3 : (i = 1 /\ 2 + i = 3) \/ (i = 2 /\ 2 + i = 4) \/ (i = 3 /\ 2 + i = 5)
          OBVIOUS
        <4> QED
          BY <3>5, <4>1
      <3>7. Consumed + Len(s2c) = 2 /\ Pending' + 3 = Pending /\ 2 + 3 = 5
        BY <1>1, <1>2, <3>4
      <3> QED
        BY <3>1, <3>3, <3>6, <3>7, Zenon
    <2>2. CASE out = <<Response(r, st), Bitmap(r)>>
      <3> DEFINE a == Response(r, st)
                 b == Bitmap(r)
      <3>1. /\ a \in Streams /\ Intact(a) /\ Len(a) = 2
            /\ Same(a[1], IntChunk(TextLen)) /\ Same(a[2], TextChunk(r, st))
        BY <1>2, <1>4, ResponsePacket, Zenon
      <3> HIDE DEF a, b
      <3>2. /\ IntChunk(TextLen).kind = "int" /\ IntChunk(TextLen).num = TextLen
            /\ TextChunk(r, st).kind = "text" /\ TextChunk(r, st).id = r /\ TextChunk(r, st).tag = st
        BY DEF IntChunk, TextChunk, Chunk
      <3>3. out = <<a, b>> /\ p = a /\ Len(out) = 2 /\ Len(out') = 1
        <4>1. out = <<a, b>>
          BY <2>2, Zenon DEF a, b
        <4> QED
          BY <1>3, <4>1
      <3>4. Pending = 5 /\ Pending' = 3
        BY <3>3 DEF Pending
      <3>5. AnswerPart(r, st, 1, a[1]) /\ AnswerPart(r, st, 2, a[2])
        BY <3>1, <3>2, Zenon DEF AnswerPart, Same
      <3>6. \A i \in 1 .. 2 : AnswerPart(r, st, 0 + i, a[i])
        <4>1. \A i \in 1 .. 2 : (i = 1 /\ 0 + i = 1) \/ (i = 2 /\ 0 + i = 2)
          OBVIOUS
        <4> QED
          BY <3>5, <4>1
      <3>7. Consumed + Len(s2c) = 0 /\ Pending' + 2 = Pending /\ 0 + 2 = 2
        BY <1>1, <1>2, <3>4
      <3> QED
        BY <3>1, <3>3, <3>6, <3>7, Zenon
    <2> QED
      BY <1>3, <2>1, <2>2
  <1> HIDE DEF p
  <1>6. /\ s2c' \in Streams /\ Intact(s2c') /\ Len(s2c') = Len(s2c) + Len(p)
        /\ \A i \in 1 .. Len(s2c) : s2c'[i] = s2c[i]
        /\ \A i \in 1 .. Len(p) : Same(s2c'[Len(s2c) + i], p[i])
    <2>1. s2c' = Sent(s2c, p)
      BY <1>3 DEF p
    <2> QED
      BY <1>1, <1>2, <1>5, <2>1, SentChunks, SentIntact DEF Same
  <1>7. ASSUME NEW i \in DOMAIN s2c'
        PROVE  AnswerPart(r, st, Consumed + i, s2c'[i])
    <2>1. Len(p) \in Nat /\ i \in 1 .. Len(s2c) + Len(p)
      BY <1>5, <1>6 DEF Streams
    <2>2. CASE i \in 1 .. Len(s2c)
      BY <1>1, <1>2, <1>6, <2>2 DEF r, st
    <2>3. CASE i \notin 1 .. Len(s2c)
      <3>1. PICK h \in 1 .. Len(p) : i = Len(s2c) + h
        <4>1. i - Len(s2c) \in 1 .. Len(p) /\ i = Len(s2c) + (i - Len(s2c))
          BY <1>2, <2>1, <2>3
        <4> QED
          BY <4>1
      <3>2. Consumed + i = x + h
        BY <1>2, <1>5, <3>1
      <3>3. Same(s2c'[i], p[h]) /\ AnswerPart(r, st, x + h, p[h])
        BY <1>5, <1>6, <3>1
      <3> QED
        BY <3>2, <3>3 DEF AnswerPart, Same
    <2> QED
      BY <2>2, <2>3
  <1>8. Len(s2c') + Pending' = Len(s2c) + Pending /\ Consumed + Len(s2c') \in {0, 2, 5}
    <2>1. Len(s2c') = Len(s2c) + Len(p) /\ Len(p) \in {2, 3} /\ Pending' \in Int
      BY <1>5, <1>6 DEF Pending
    <2>2. Consumed + Len(s2c') = x + Len(p)
      BY <1>2, <1>5, <2>1
    <2>3. Len(s2c') + Pending' = Len(s2c) + Pending
      BY <1>2, <1>5, <2>1
    <2> QED
      BY <1>5, <2>2, <2>3
  <1> QED
    BY <1>1, <1>6, <1>7, <1>8 DEF r, st


\* ... and a client that has given up a bitmap, behind it.
LEMMA BitmapInTheWay ==
    ASSUME TypeOK, TypeOK', UpInv, NoHeartbeat, ~ Over, AnswerSent, UNCHANGED cliVars,
           Unsent \/ Behind \/ Deep
    PROVE  Behind' \/ Deep'
  <1>1. UNCHANGED <<main, reports, need>>
    BY DEF cliVars
  <1>2. s2c \in Streams /\ Len(ledger) \in Nat /\ Len(reports) \in Nat
    BY DEF TypeOK, TcpTypes, SrvTypes, CliTypes
  <1>3. /\ Len(ledger) >= 1 /\ Len(ledger) <= Len(reports)
        /\ s2c' = Sent(s2c, Head(out))
    <2>1. "client" \notin closed
      BY DEF UpInv, Ending, Unsent, Behind, Deep, Between, Sending
    <2>2. s2c' = Sent(s2c, Head(out)) /\ phase = "send"
      BY <2>1 DEF AnswerSent, ServerSend
    <2>3. Len(ledger) > 0 /\ Len(ledger) <= Len(reports)
      BY <2>2 DEF UpInv, Outbox, LedgerExact
    <2> QED
      BY <1>2, <2>2, <2>3
  <1>4. CASE Unsent
    <2>1. main \in Between /\ s2c = << >> /\ out = <<Bitmap(Len(ledger))>>
      BY <1>4, Zenon DEF Unsent
    <2>2. Head(out) = Bitmap(Len(ledger))
      <3> DEFINE b == Bitmap(Len(ledger))
      <3> HIDE DEF b
      <3>1. out = <<b>>
        BY <2>1, Zenon DEF b
      <3>2. Head(out) = b
        BY <3>1
      <3> QED
        BY <3>2 DEF b
    <2>3. s2c' = Sent(<< >>, Bitmap(Len(ledger)))
      BY <1>3, <2>1, <2>2, Zenon
    <2>4. s2c' \in Streams /\ Spaced(s2c') /\ Mired(s2c', BitmapLen, 1)
      BY <1>2, <2>3, MiredBitmap, Zenon
    <2>5. Mired(s2c', 1, 1)
      <3>1. BitmapLen \in Int /\ 1 <= BitmapLen
        BY Lengths
      <3> QED
        BY <2>4, <3>1, MiredLess
    <2> QED
      BY <1>1, <2>1, <2>4, <2>5 DEF Behind
  <1>5. CASE Behind \/ Deep
    <2> DEFINE p == Head(out)
    <2>1. p \in Streams /\ Intact(p)
      <3> DEFINE r == Len(ledger)
                 st == Assess(reports[r])
                 a == Response(r, st)
                 b == Bitmap(r)
      <3>1. r \in Nat /\ st \in SrvState
        BY <1>2 DEF Assess, SrvState
      <3>2. a \in Streams /\ Intact(a) /\ b \in Streams /\ Intact(b)
        BY <3>1, ResponsePacket, BitmapPacket, Zenon
      <3>3. out = <<b>> \/ out = <<a, b>>
        BY Zenon DEF AnswerSent, UpInv, Outbox
      <3> HIDE DEF a, b
      <3>4. p = a \/ p = b
        BY <3>3
      <3> QED
        BY <3>2, <3>4
    <2> HIDE DEF p
    <2>2. s2c' = Sent(s2c, p)
      BY <1>3 DEF p
    <2>4. Spaced(s2c) /\ Spaced(p)
      BY <1>5, <2>1 DEF Behind, Deep, Intact
    <2>5. Spaced(s2c')
      BY <1>2, <2>1, <2>2, <2>4, SentSpaced
    <2>6. CASE Behind
      <3>1. Mired(s2c', 1, 1)
        BY <1>2, <2>1, <2>2, <2>6, MiredSent DEF Behind
      <3> QED
        BY <1>1, <2>5, <2>6, <3>1 DEF Behind
    <2>7. CASE Deep
      <3>1. ASSUME NEW g \in Int, Mired(s2c, g, 0) PROVE Mired(s2c', g, 0)
        BY <1>2, <2>1, <2>2, <3>1, MiredSent
      <3>2. Pixels - 3 \in Int /\ Pixels - 3 - MaxResponse \in Int
        BY PixelsType
      <3> QED
        BY <1>1, <2>5, <2>7, <3>1, <3>2 DEF Deep
    <2> QED
      BY <1>5, <2>6, <2>7
  <1> QED
    BY <1>4, <1>5

LEMMA ServerKeepsDown ==
    ASSUME TypeOK, TypeOK', RunwayStateAgrees, UpInv, UpInv', NoHeartbeat, Downstream,
           SrvNext, UNCHANGED cliVars
    PROVE  Downstream'
  <1>a. /\ UNCHANGED <<main, reports, need>> /\ (Gone' <=> Gone) /\ Current' = Current
        /\ Consumed' = Consumed
    BY DEF cliVars, Gone, Current, Consumed
  <1>b. /\ Len(ledger) \in Nat /\ Current \in Nat /\ Len(ledger) <= Current
    BY DEF TypeOK, SrvTypes, CliTypes, Current, UpInv, LedgerExact
  <1>c. Outbox /\ LoginFirst /\ Upstream
    BY DEF UpInv
  <1>d. SUFFICES ASSUME ~ (main \in {"login", "reply"} \/ Gone)
                 PROVE  Downstream'
    BY <1>a DEF Downstream
  <1>1. CASE SessionEnds
    <2>1. Over' /\ UNCHANGED <<s2c, ledger>> /\ (out' = << >> \/ out' = out)
      BY <1>1 DEF SessionEnds
    <2>2. Idle => Idle'
      BY <1>a, <2>1 DEF Idle
    <2>3. Filing => Filing'
      BY <1>a, <2>1 DEF Filing
    <2>4. Answering => Answering'
      BY <1>a, <2>1 DEF Answering
    <2>5. Unsent => Unsent'
      BY <1>a, <2>1 DEF Unsent
    <2>6. Behind \/ Deep => Behind' \/ Deep'
      BY <1>a, <2>1 DEF Behind, Deep
    <2> QED
      BY <1>d, <2>2, <2>3, <2>4, <2>5, <2>6 DEF Downstream
  <1>2. CASE LoginAnswered
    BY <1>2, <1>c, <1>d DEF LoginAnswered, LoginFirst, Gone
  <1>3. CASE SessionWaits \/ PartReceived
    <2>1. ~ Over /\ ~ Over' /\ UNCHANGED <<s2c, ledger, out>>
      BY <1>3 DEF SessionWaits, PartReceived, Over
    <2>2. Idle => Idle'
      BY <1>a, <2>1 DEF Idle
    <2>3. Filing => Filing'
      BY <1>a, <2>1 DEF Filing
    <2>4. Answering => Answering'
      BY <1>a, <2>1 DEF Answering, Pending
    <2>5. Unsent => Unsent'
      BY <1>a, <2>1, Zenon DEF Unsent
    <2>6. Behind \/ Deep => Behind' \/ Deep'
      BY <1>a, <2>1 DEF Behind, Deep
    <2> QED
      BY <1>d, <2>2, <2>3, <2>4, <2>5, <2>6 DEF Downstream
  <1>4. CASE ReportRecorded
    <2>1. /\ phase = "desc" /\ phase' = "send" /\ Len(ledger) + 1 <= Current /\ UNCHANGED s2c
          /\ c2s # << >> /\ Len(out') = 2
      <3>1. Len(<<Response(Len(ledger) + 1, Assess(reports[Len(ledger) + 1])), Bitmap(Len(ledger) + 1)>>) = 2
        OBVIOUS
      <3>2. out' = <<Response(Len(ledger) + 1, Assess(reports[Len(ledger) + 1])), Bitmap(Len(ledger) + 1)>>
        BY <1>4, Zenon DEF ReportRecorded
      <3>3. Len(ledger) + 1 \in 1 .. Len(reports)
        BY <1>4 DEF ReportRecorded
      <3> QED
        BY <1>4, <3>1, <3>2, <3>3 DEF ReportRecorded, Current
    <2>2. out = << >> /\ ~ Over /\ phase # "auth"
      BY <1>c, <2>1 DEF Outbox, Over
    <2>3. Len(ledger') = Len(ledger) + 1
      <3>1. ledger \in Seq(Records)
        BY DEF TypeOK, SrvTypes
      <3>2. \E e \in Records : ledger' = Append(ledger, e)
        BY <1>4 DEF ReportRecorded
      <3> QED
        BY <3>1, <3>2
    <2>4. ~ Idle /\ ~ Answering
      BY <1>b, <2>1 DEF Idle, Answering
    <2>5. ~ Unsent
      <3>1. << >> # <<Bitmap(Len(ledger))>>
        OBVIOUS
      <3> QED
        BY <2>2, <3>1, Zenon DEF Unsent
    <2>6. Filing => Answering'
      <3> SUFFICES ASSUME Filing PROVE Answering'
        OBVIOUS
      <3>1. main = "respLen"
        <4>1. Received = 4 * Current - 1 /\ Received + Len(c2s) = Dispatched /\ Len(c2s) \in Nat /\ Len(c2s) >= 1
          <5>1. Received = 4 * Len(ledger) + 3
            BY <2>1 DEF Received
          <5>2. Received + Len(c2s) = Dispatched
            BY <1>c, <1>d, <2>2 DEF Upstream
          <5>3. c2s \in Streams /\ Len(c2s) \in Nat /\ Len(c2s) >= 1
            BY <2>1 DEF TypeOK, TcpTypes, Streams
          <5> QED
            BY <1>b, <5>1, <5>2, <5>3 DEF Filing
        <4>2. main \in Sending => Dispatched <= 4 * Current - 1
          BY <1>b DEF Dispatched, Sending
        <4>3. main \notin Sending
          BY <1>b, <4>1, <4>2
        <4> QED
          BY <4>3 DEF Filing
      <3>2. s2c' = << >> /\ Len(ledger') = Current'
        BY <1>a, <1>b, <2>1, <2>3 DEF Filing
      <3>3. Intact(s2c') /\ DOMAIN s2c' = {} /\ Len(s2c') = 0
        BY <3>2, NothingIntact
      <3>4. Consumed' = 0 /\ Pending' = 5
        BY <1>a, <2>1, <3>1 DEF Consumed, Pending
      <3> QED
        BY <1>a, <3>1, <3>2, <3>3, <3>4 DEF Answering, Replying
    <2>7. Behind \/ Deep => Behind' \/ Deep'
      BY <1>a, <2>1 DEF Behind, Deep
    <2> QED
      BY <1>d, <2>4, <2>5, <2>6, <2>7 DEF Downstream
  <1>5. CASE AnswerSent
    <2>1. ~ Over /\ ~ Over' /\ UNCHANGED ledger /\ out # << >>
      BY <1>5 DEF AnswerSent, Over
    <2>2. ~ Idle /\ ~ Filing
      BY <2>1 DEF Idle, Filing
    <2>3. Answering => Answering'
      <3> SUFFICES ASSUME Answering PROVE Answering'
        OBVIOUS
      <3>1. /\ Intact(s2c') /\ Len(s2c') + Pending' = Len(s2c) + Pending
            /\ \A i \in DOMAIN s2c' : AnswerPart(Current, Assess(reports[Current]), Consumed + i, s2c'[i])
            /\ Consumed + Len(s2c') \in {0, 2, 5}
        BY <1>5, <1>c, <2>1, AnswerGrows
      <3>2. Consumed + Len(s2c) + Pending = 5
        BY <2>1 DEF Answering
      <3>3. Consumed + Len(s2c') + Pending' = 5
        <4>1. s2c \in Streams /\ s2c' \in Streams
          BY DEF TypeOK, TcpTypes
        <4>2. /\ Len(s2c) \in Nat /\ Len(s2c') \in Nat /\ Pending \in Int /\ Pending' \in Int
              /\ Consumed \in Int
          BY <4>1 DEF Streams, Pending, Consumed
        <4> QED
          BY <3>1, <3>2, <4>2
      <3> QED
        BY <1>a, <2>1, <3>1, <3>3 DEF Answering
    <2>4. Unsent \/ Behind \/ Deep => Behind' \/ Deep'
      BY <1>5, <2>1, BitmapInTheWay
    <2> QED
      BY <1>d, <2>2, <2>3, <2>4 DEF Downstream
  <1> QED
    BY <1>1, <1>2, <1>3, <1>4, <1>5, ServerSteps

-----------------------------------------------------------------------
(* What the client reads.                                                                          *)

\* The next part of an answer is the one that the client waits for, ...
LEMMA NextAnswerPart ==
    ASSUME TypeOK, Answering, s2c # << >>
    PROVE  /\ s2c \in Streams /\ s2c[1] \in Chunks /\ Head(s2c) = s2c[1] /\ s2c[1].end \in Int
           /\ Len(s2c) \in Nat /\ Len(s2c) >= 1 /\ Current \in Nat
           /\ main = "respLen" => s2c[1].kind = "int" /\ s2c[1].num = TextLen /\ s2c[1].end = 4
           /\ main = "resp" => /\ s2c[1].kind = "text" /\ s2c[1].id = Current /\ s2c[1].end = need
                               /\ s2c[1].tag = Assess(reports[Current])
           /\ main = "bmpType" => s2c[1].kind = "int" /\ s2c[1].num = TypeBitmap /\ s2c[1].end = 4
           /\ main = "bmpSize" => s2c[1].kind = "int" /\ s2c[1].num = BitmapLen /\ s2c[1].end = 4
           /\ main = "bmpData" => s2c[1].kind = "bitmap" /\ s2c[1].id = Current /\ s2c[1].end = need
  <1>1. /\ Intact(s2c) /\ s2c \in Streams /\ Current \in Nat
        /\ \A i \in DOMAIN s2c : AnswerPart(Current, Assess(reports[Current]), Consumed + i, s2c[i])
    BY DEF Answering, TypeOK, TcpTypes, CliTypes, Current
  <1>2. /\ s2c[1] \in Chunks /\ Head(s2c) = s2c[1] /\ s2c[1].end \in Int /\ s2c[1].end = Size(s2c[1])
        /\ Len(s2c) \in Nat /\ Len(s2c) >= 1 /\ 1 \in DOMAIN s2c
    BY <1>1, IntactFront DEF Streams
  <1>3. AnswerPart(Current, Assess(reports[Current]), Consumed + 1, s2c[1])
    BY <1>1, <1>2
  <1>4. /\ main = "respLen" => Consumed + 1 = 1
        /\ main = "resp"    => Consumed + 1 = 2
        /\ main = "bmpType" => Consumed + 1 = 3
        /\ main = "bmpSize" => Consumed + 1 = 4
        /\ main = "bmpData" => Consumed + 1 = 5
    BY DEF Consumed
  <1>5. /\ main = "respLen" => s2c[1].kind = "int" /\ s2c[1].num = TextLen
        /\ main = "resp" => /\ s2c[1].kind = "text" /\ s2c[1].id = Current
                            /\ s2c[1].tag = Assess(reports[Current])
        /\ main = "bmpType" => s2c[1].kind = "int" /\ s2c[1].num = TypeBitmap
        /\ main = "bmpSize" => s2c[1].kind = "int" /\ s2c[1].num = BitmapLen
        /\ main = "bmpData" => s2c[1].kind = "bitmap" /\ s2c[1].id = Current
    BY <1>3, <1>4 DEF AnswerPart
  <1>6. (main = "resp" => need = TextLen) /\ (main = "bmpData" => need = BitmapLen)
    BY DEF Answering
  <1>7. /\ s2c[1].kind = "int" => s2c[1].end = 4
        /\ s2c[1].kind = "text" => s2c[1].end = TextLen
        /\ s2c[1].kind = "bitmap" => s2c[1].end = BitmapLen
    BY <1>2 DEF Size
  <1> QED
    BY <1>1, <1>2, <1>5, <1>6, <1>7

\* ... and when it has been read, the others follow.
LEMMA AnswerLeft ==
    ASSUME TypeOK, Answering, s2c # << >>, s2c' = AfterRead(s2c, s2c[1].end),
           UNCHANGED <<reports, ledger, phase, out>>,
           main' \in Replying \union Fetching, Consumed' = Consumed + 1,
           main' = "resp" => need' = TextLen, main' = "bmpData" => need' = BitmapLen
    PROVE  Answering'
  <1>1. /\ Intact(s2c) /\ s2c \in Streams /\ Consumed + Len(s2c) \in {0, 2, 5}
        /\ \A i \in DOMAIN s2c : AnswerPart(Current, Assess(reports[Current]), Consumed + i, s2c[i])
        /\ Len(ledger) = Current /\ (~ Over => Consumed + Len(s2c) + Pending = 5)
    BY DEF Answering, TypeOK, TcpTypes
  <1>2. /\ s2c' \in Streams /\ Len(s2c') = Len(s2c) - 1 /\ Intact(s2c')
        /\ \A i \in 1 .. Len(s2c) - 1 : Same(s2c'[i], s2c[i + 1])
    BY <1>1, ReadHead, IntactFront
  <1>3. /\ Len(s2c) \in Nat /\ DOMAIN s2c = 1 .. Len(s2c) /\ DOMAIN s2c' = 1 .. Len(s2c) - 1
        /\ Consumed \in Int /\ Current' = Current /\ (Over' <=> Over) /\ Pending' = Pending
    BY <1>1, <1>2 DEF Streams, Consumed, Current, Over, Pending
  <1>4. ASSUME NEW i \in DOMAIN s2c'
        PROVE  AnswerPart(Current', Assess(reports'[Current']), Consumed' + i, s2c'[i])
    <2>1. i \in 1 .. Len(s2c) - 1 /\ i + 1 \in DOMAIN s2c /\ Consumed + (i + 1) = Consumed' + i
      BY <1>3
    <2>2. /\ AnswerPart(Current, Assess(reports[Current]), Consumed' + i, s2c[i + 1])
          /\ Same(s2c'[i], s2c[i + 1])
      BY <1>1, <1>2, <2>1
    <2> QED
      BY <1>3, <2>2 DEF AnswerPart, Same
  <1>5. Consumed' + Len(s2c') = Consumed + Len(s2c)
    <2>1. \A a \in Int, b \in Nat : (a + 1) + (b - 1) = a + b
      OBVIOUS
    <2> QED
      BY <1>2, <1>3, <2>1, Zenon
  <1> QED
    BY <1>1, <1>2, <1>3, <1>4, <1>5 DEF Answering

\* The client is inside a bitmap, and reads no further than its end.
LEMMA ReadBehind ==
    ASSUME TypeOK, Spaced(s2c), NEW f \in Int, f <= BitmapLen, NEW m \in {0, 1}, Mired(s2c, f, m),
           NEW n \in Nat, n >= 4 \/ m = 0, NEW g \in Int, n + g <= f, g >= 1,
           s2c' = AfterRead(s2c, n)
    PROVE  Spaced(s2c') /\ Mired(s2c', g, 0) /\ Mired(s2c', g, 1)
  <1>1. s2c \in Streams
    BY DEF TypeOK, TcpTypes
  <1>2. /\ s2c' \in Streams /\ Spaced(s2c') /\ Mired(s2c', f - n, m)
        /\ n >= 4 => Mired(s2c', f - n, 0)
    BY <1>1, MiredRead
  <1>3. Mired(s2c', f - n, 0) /\ f - n \in Int /\ g <= f - n
    BY <1>2
  <1> QED
    BY <1>2, <1>3, MiredLess

\* The length of a response, or what is taken for it.
LEMMA LengthRead ==
    ASSUME TypeOK, UpInv, NoHeartbeat, ReportInHand, Downstream, CliRecvLength, UNCHANGED srvVars
    PROVE  Downstream'
  <1>1. /\ main = "respLen" /\ s2c # << >> /\ s2c' = AfterRead(s2c, 4) /\ UNCHANGED reports
        /\ Gone' \/ \E n \in FrontInts(s2c) : /\ AcceptedLength(n, MaxResponse)
                                             /\ need' = n /\ main' = "resp"
    BY DEF CliRecvLength, ClientReads, Leave, Gone
  <1>2. SUFFICES ASSUME NEW n \in FrontInts(s2c), AcceptedLength(n, MaxResponse), need' = n, main' = "resp"
                 PROVE  Answering' \/ Deep'
    BY <1>1 DEF Downstream
  <1>3. Current >= 1 /\ Current' = Current /\ Current \in Int
    BY <1>1 DEF ReportInHand, Exchange, Replying, Current, TypeOK, CliTypes
  <1>4. Answering \/ Behind
    BY <1>1 DEF Downstream, Gone, Idle, Filing, Unsent, Deep
  <1>5. CASE Answering
    <2>1. Head(s2c) = s2c[1] /\ s2c[1].kind = "int" /\ s2c[1].num = TextLen /\ s2c[1].end = 4
      BY <1>1, <1>5, NextAnswerPart
    <2>2. n = TextLen
      BY <2>1 DEF FrontInts
    <2>3. Consumed' = Consumed + 1
      BY <1>1, <1>2 DEF Consumed
    <2>4. main' \in Replying \union Fetching /\ main' # "bmpData"
      BY <1>2 DEF Replying
    <2> QED
      BY <1>1, <1>2, <1>5, <2>1, <2>2, <2>3, <2>4, AnswerLeft DEF srvVars
  <1>6. CASE Behind
    <2>1. s2c \in Streams /\ Spaced(s2c) /\ Mired(s2c, 1, 1)
      BY <1>6 DEF Behind, TypeOK, TcpTypes
    <2>2. Mired(s2c, Pixels + 1, 1)
      BY <1>2, <2>1, MiredFront
    <2>3. Pixels + 1 \in Int /\ Pixels + 1 <= BitmapLen /\ Pixels - 3 \in Int /\ Pixels - 3 >= 1
          /\ 4 + (Pixels - 3) <= Pixels + 1
      BY PixelsType
    <2>4. Spaced(s2c') /\ Mired(s2c', Pixels - 3, 0)
      BY <1>1, <2>1, <2>2, <2>3, ReadBehind
    <2> QED
      BY <1>2, <2>4 DEF Deep, AcceptedLength
  <1> QED
    BY <1>4, <1>5, <1>6

\* A response, or what is taken for it.
LEMMA ResponseRead ==
    ASSUME TypeOK, UpInv, NoHeartbeat, ReportInHand, Downstream, CliRecvResponse, UNCHANGED srvVars
    PROVE  /\ Downstream'
           /\ \E d \in Displays : /\ shown' = Append(shown, d) /\ d.report = Current
                                  /\ Confirms(d) => /\ d.id = Current
                                                    /\ d.status = Assess(reports[Current])
                                                    /\ Len(ledger) = Current
  <1>1. /\ main = "resp" /\ s2c # << >> /\ s2c' = AfterRead(s2c, need) /\ UNCHANGED reports
        /\ main' = "bmpType" /\ need' = 0
        /\ shown' = Append(shown, Displayed(Payload(s2c, need)))
    BY DEF CliRecvResponse, ClientReads
  <1>2. /\ Current >= 1 /\ Current' = Current /\ Current \in Int /\ Current \in Nat
        /\ s2c \in Streams /\ need \in Nat
    BY <1>1 DEF ReportInHand, Exchange, Replying, Current, TypeOK, CliTypes, TcpTypes
  <1>3. Answering \/ Deep
    BY <1>1 DEF Downstream, Gone, Idle, Filing, Unsent, Behind, Between, Sending
  <1> DEFINE p == Payload(s2c, need)
             d == Displayed(p)
  <1>4. p \in Chunks
    BY <1>1, <1>2, PayloadType
  <1>5. /\ d \in Displays /\ d.report = Current /\ d.kind = p.kind /\ d.id = p.id
        /\ d.status = p.tag
    <2> HIDE DEF p
    <2> QED
      BY <1>2, <1>4 DEF Displayed, Displays, Chunks
  <1>6. CASE Answering
    <2>1. /\ Head(s2c) = s2c[1] /\ s2c[1].id = Current /\ s2c[1].end = need
          /\ s2c[1].tag = Assess(reports[Current])
      BY <1>1, <1>6, NextAnswerPart
    <2>2. p = s2c[1]
      BY <2>1 DEF Payload
    <2>3. Answering'
      <3>1. Consumed' = Consumed + 1
        BY <1>1 DEF Consumed
      <3>2. main' \in Replying \union Fetching /\ main' # "bmpData" /\ main' # "resp"
        BY <1>1 DEF Fetching
      <3> QED
        BY <1>1, <1>6, <2>1, <3>1, <3>2, AnswerLeft DEF srvVars
    <2>4. Len(ledger) = Current
      BY <1>6 DEF Answering
    <2> HIDE DEF p, d
    <2>5. shown' = Append(shown, d)
      BY <1>1 DEF p, d
    <2> QED
      BY <1>5, <2>1, <2>2, <2>3, <2>4, <2>5 DEF Downstream
  <1>7. CASE Deep
    <2>1. Spaced(s2c) /\ Mired(s2c, Pixels - 3, 0) /\ need <= MaxResponse
      BY <1>1, <1>7 DEF Deep
    <2>2. p.kind # "text"
      BY <1>2, <2>1, PixelsType, MiredFront
    <2>3. Spaced(s2c') /\ Mired(s2c', Pixels - 3 - MaxResponse, 0)
      <3> DEFINE f == Pixels - 3
                 g == f - MaxResponse
      <3>1. f \in Int /\ g \in Int /\ f <= BitmapLen /\ need + g <= f /\ g >= 1
        BY <1>2, <2>1, PixelsType
      <3>2. Mired(s2c, f, 0)
        BY <2>1
      <3> HIDE DEF f, g
      <3>3. Spaced(s2c') /\ Mired(s2c', g, 0)
        BY <1>1, <1>2, <2>1, <3>1, <3>2, ReadBehind
      <3> QED
        BY <3>3 DEF f, g
    <2>4. Deep'
      BY <1>1, <2>3 DEF Deep
    <2> HIDE DEF p, d
    <2>5. shown' = Append(shown, d) /\ ~ Confirms(d)
      BY <1>1, <1>5, <2>2 DEF p, d, Confirms
    <2> QED
      BY <1>5, <2>4, <2>5 DEF Downstream
  <1> QED
    BY <1>3, <1>6, <1>7

\* A bitmap's type, or what is not one.
LEMMA TypeRead ==
    ASSUME TypeOK, NoHeartbeat, ReportInHand, Downstream, CliRecvBitmapType, UNCHANGED srvVars
    PROVE  Downstream'
  <1>1. /\ main = "bmpType" /\ s2c # << >> /\ s2c' = AfterRead(s2c, 4) /\ UNCHANGED reports
        /\ Gone' \/ \E n \in FrontInts(s2c) : IF n = TypeBitmap THEN main' = "bmpSize" ELSE main' = "menu"
    BY DEF CliRecvBitmapType, ClientReads, BackToMenu, Loop, Gone
  <1>2. SUFFICES ASSUME NEW n \in FrontInts(s2c), IF n = TypeBitmap THEN main' = "bmpSize" ELSE main' = "menu"
                 PROVE  Answering' \/ Behind'
    BY <1>1 DEF Downstream
  <1>3. Current >= 1 /\ Current' = Current /\ Current \in Int
    BY <1>1 DEF ReportInHand, Exchange, Fetching, Current, TypeOK, CliTypes
  <1>4. Answering \/ Deep
    BY <1>1 DEF Downstream, Gone, Idle, Filing, Unsent, Behind, Between, Sending
  <1>5. CASE Answering
    <2>1. /\ Head(s2c) = s2c[1] /\ s2c[1].kind = "int" /\ s2c[1].num = TypeBitmap /\ s2c[1].end = 4
      BY <1>1, <1>5, NextAnswerPart
    <2>2. main' = "bmpSize"
      BY <1>2, <2>1 DEF FrontInts
    <2>3. Consumed' = Consumed + 1
      BY <1>1, <2>2 DEF Consumed
    <2>4. main' \in Replying \union Fetching /\ main' # "bmpData" /\ main' # "resp"
      BY <2>2 DEF Fetching
    <2> QED
      BY <1>1, <1>5, <2>1, <2>3, <2>4, AnswerLeft DEF srvVars
  <1>6. CASE Deep
    <2>1. s2c \in Streams /\ Spaced(s2c) /\ Mired(s2c, Pixels - 3 - MaxResponse, 0)
      BY <1>1, <1>6 DEF Deep, TypeOK, TcpTypes
    <2> DEFINE f == Pixels - 3 - MaxResponse
    <2>2. f \in Int /\ f <= BitmapLen /\ 4 + 1 <= f
      BY PixelsType
    <2>3. Mired(s2c, f, 0)
      BY <2>1
    <2> HIDE DEF f
    <2>4. main' = "menu"
      <3>1. TypeBitmap \notin FrontInts(s2c)
        BY <2>1, <2>2, <2>3, MiredFront
      <3> QED
        BY <1>2, <3>1
    <2>5. Spaced(s2c') /\ Mired(s2c', 1, 1)
      BY <1>1, <2>1, <2>2, <2>3, ReadBehind
    <2> QED
      BY <2>4, <2>5 DEF Behind, Between
  <1> QED
    BY <1>4, <1>5, <1>6

\* Only a client in its place gets as far as the size of the bitmap and its bytes.
LEMMA SizeRead ==
    ASSUME TypeOK, ReportInHand, Downstream, CliRecvBitmapSize, UNCHANGED srvVars
    PROVE  Downstream'
  <1>1. /\ main = "bmpSize" /\ s2c # << >> /\ s2c' = AfterRead(s2c, 4) /\ UNCHANGED reports
        /\ \E n \in FrontInts(s2c) : AcceptedLength(n, MaxBitmap) => need' = n /\ main' = "bmpData"
    BY DEF CliRecvBitmapSize, ClientReads, BackToMenu
  <1>2. Answering
    BY <1>1 DEF Downstream, Gone, Idle, Filing, Unsent, Behind, Deep, Between, Sending
  <1>3. /\ Head(s2c) = s2c[1] /\ s2c[1].kind = "int" /\ s2c[1].num = BitmapLen /\ s2c[1].end = 4
    BY <1>1, <1>2, NextAnswerPart
  <1>4. AcceptedLength(BitmapLen, MaxBitmap)
    <2>1. MaxResponse = 1024
      BY DEF MaxResponse
    <2> QED
      BY <2>1, Lengths DEF AcceptedLength
  <1>5. main' = "bmpData" /\ need' = BitmapLen
    BY <1>1, <1>3, <1>4 DEF FrontInts
  <1>6. Consumed' = Consumed + 1 /\ main' \in Replying \union Fetching /\ main' # "resp"
    BY <1>1, <1>5 DEF Consumed, Fetching
  <1> QED
    BY <1>1, <1>2, <1>3, <1>5, <1>6, AnswerLeft DEF Downstream, srvVars

LEMMA BitmapRead ==
    ASSUME TypeOK, UpInv, ReportInHand, Downstream, CliRecvBitmap, UNCHANGED srvVars
    PROVE  /\ Downstream'
           /\ pics' = pics \/ pics' = Append(pics, [report |-> Current, id |-> Current])
  <1>1. /\ main = "bmpData" /\ s2c # << >> /\ s2c' = AfterRead(s2c, need) /\ UNCHANGED reports
        /\ Gone' \/ main' = "menu"
        /\ pics' = pics \/ pics' = Append(pics, [report |-> Current, id |-> Payload(s2c, need).id])
    BY DEF CliRecvBitmap, ClientReads, BackToMenu, Loop, Gone
  <1>2. Answering
    BY <1>1 DEF Downstream, Gone, Idle, Filing, Unsent, Behind, Deep, Between, Sending
  <1>3. /\ Head(s2c) = s2c[1] /\ s2c[1].id = Current /\ s2c[1].end = need /\ s2c \in Streams
        /\ Len(s2c) \in Nat
    BY <1>1, <1>2, NextAnswerPart
  <1>4. Payload(s2c, need) = s2c[1]
    BY <1>3 DEF Payload
  <1>5. Consumed + Len(s2c) = 5 /\ Consumed = 4
    <2>1. Consumed + Len(s2c) = 5
      BY <1>1, <1>2, AnswerMired DEF Fetching
    <2> QED
      BY <1>1, <2>1 DEF Consumed
  <1>6. s2c' = << >>
    <2>1. Len(s2c) = 1
      <3>1. \A n \in Nat : 4 + n = 5 => n = 1
        OBVIOUS
      <3> QED
        BY <1>3, <1>5, <3>1, Zenon
    <2>2. Intact(s2c)
      BY <1>2 DEF Answering
    <2> QED
      BY <1>1, <1>3, <2>1, <2>2, ReadAll, SpacedIncreasing DEF Intact
  <1>7. out = << >>
    <2>1. CASE Over
      BY <2>1 DEF Over, UpInv, Outbox
    <2>2. CASE ~ Over
      <3>1. Consumed + Len(s2c) + Pending = 5 /\ Pending \in Int
        BY <1>2, <2>2 DEF Answering, Pending
      <3>2. Pending = 0
        BY <1>5, <3>1
      <3>3. Len(out) = 0
        BY <3>2 DEF Pending
      <3> QED
        BY <3>3 DEF TypeOK, SrvTypes
    <2> QED
      BY <2>1, <2>2
  <1>8. main' = "menu" => Idle'
    BY <1>1, <1>2, <1>6, <1>7 DEF Idle, Answering, Current, srvVars
  <1> QED
    BY <1>1, <1>3, <1>4, <1>8 DEF Downstream

\* The client gives a bitmap up: it may not have been sent yet, or have been read in part.
LEMMA FetchFails ==
    ASSUME TypeOK, UpInv, NoHeartbeat, ReportInHand, Downstream, CliBitmapFails, UNCHANGED srvVars
    PROVE  Downstream'
  <1>1. /\ main \in Fetching /\ UNCHANGED reports /\ (Gone' \/ main' = "menu")
        /\ \E k \in Partials : /\ k < (IF main = "bmpData" THEN need ELSE 4) /\ k <= Unread(s2c)
                               /\ s2c' = AfterRead(s2c, k)
    BY DEF CliBitmapFails, BackToMenu, Loop, Gone
  <1>2. SUFFICES ASSUME main' = "menu" PROVE Unsent' \/ Behind'
    BY <1>1 DEF Downstream
  <1>3. PICK k \in Partials : /\ k < (IF main = "bmpData" THEN need ELSE 4) /\ k <= Unread(s2c)
                              /\ s2c' = AfterRead(s2c, k)
    BY <1>1
  <1>4. /\ Current >= 1 /\ Current' = Current /\ Current \in Int /\ s2c \in Streams
        /\ need \in Nat /\ Len(s2c) \in Nat
    BY <1>1 DEF ReportInHand, Exchange, Current, TypeOK, CliTypes, TcpTypes, Streams
  <1>5. Answering \/ Deep
    BY <1>1 DEF Downstream, Gone, Idle, Filing, Unsent, Behind, Between, Sending, Fetching
  <1>6. BitmapLen \in Int /\ BitmapLen >= 1086
    BY Lengths
  <1>7. k \in Nat
    BY ClientAssumption
  <1>9. CASE Answering /\ s2c = << >>
    <2>1. Consumed = 2 /\ Consumed + Len(s2c) = 2
      <3>1. Consumed + Len(s2c) \in {0, 2, 5} /\ Len(s2c) = 0 /\ Consumed \in {2, 3, 4}
        BY <1>1, <1>9, NothingIntact DEF Answering, Consumed, Fetching
      <3> QED
        BY <3>1
    <2>2. s2c' = << >>
      <3>1. k = 0
        BY <1>3, <1>7, <1>9, NothingIntact
      <3> QED
        BY <1>3, <1>9, <3>1, ReadNothing
    <2>3. Over \/ out = <<Bitmap(Len(ledger))>>
      <3> SUFFICES ASSUME ~ Over PROVE out = <<Bitmap(Len(ledger))>>
        OBVIOUS
      <3>1. Pending = 3
        BY <1>9, <2>1 DEF Answering, Pending
      <3>2. Len(out) = 1
        BY <3>1 DEF Pending
      <3> DEFINE b == Bitmap(Len(ledger))
                 a == Response(Len(ledger), Assess(reports[Len(ledger)]))
      <3>3. out = << >> \/ out = <<b>> \/ out = <<a, b>>
        BY Zenon DEF UpInv, Outbox
      <3> HIDE DEF a, b
      <3>4. out = <<b>>
        BY <3>2, <3>3
      <3> QED
        BY <3>4, Zenon DEF b
    <2>4. (Over' <=> Over) /\ UNCHANGED <<out, ledger>>
      BY DEF srvVars, Over
    <2> QED
      BY <1>2, <2>2, <2>3, <2>4, Zenon DEF Unsent, Between
  <1>10. CASE Answering /\ s2c # << >>
    <2>1. Spaced(s2c) /\ Mired(s2c, BitmapLen, 1)
      BY <1>1, <1>10, AnswerMired
    <2>2. k < BitmapLen
      <3>1. main = "bmpData" => need = BitmapLen
        BY <1>10 DEF Answering
      <3> QED
        BY <1>3, <1>6, <1>7, <3>1
    <2>3. s2c' \in Streams /\ Spaced(s2c') /\ Mired(s2c', BitmapLen - k, 1)
      BY <1>3, <1>4, <1>6, <1>7, <2>1, <2>2, MiredRead
    <2>4. BitmapLen - k \in Int /\ 1 <= BitmapLen - k
      BY <1>6, <1>7, <2>2
    <2>5. Mired(s2c', 1, 1)
      BY <2>3, <2>4, MiredLess
    <2> QED
      BY <1>2, <2>3, <2>5 DEF Behind, Between
  <1>11. CASE Deep
    <2>1. /\ main = "bmpType" /\ Spaced(s2c) /\ Mired(s2c, Pixels - 3 - MaxResponse, 0)
      BY <1>1, <1>11 DEF Deep, Fetching
    <2> DEFINE f == Pixels - 3 - MaxResponse
    <2>2. f \in Int /\ f <= BitmapLen /\ k + 1 <= f
      BY <1>3, <1>7, <2>1, PixelsType
    <2>3. Mired(s2c, f, 0)
      BY <2>1
    <2> HIDE DEF f
    <2>4. Spaced(s2c') /\ Mired(s2c', 1, 1)
      BY <1>3, <1>7, <2>1, <2>2, <2>3, ReadBehind
    <2> QED
      BY <1>2, <2>4 DEF Behind, Between
  <1> QED
    BY <1>5, <1>9, <1>10, <1>11

LEMMA ClientKeepsDown ==
    ASSUME TypeOK, ReportInHand, UpInv, NoHeartbeat, beats' = 0, Downstream, CliNext, UNCHANGED srvVars
    PROVE  Downstream'
  <1>a. /\ UNCHANGED <<out, ledger>> /\ (Over' <=> Over)
    BY DEF srvVars, Over
  <1>b. Current \in Nat /\ BitmapLen \in Int /\ s2c \in Streams
    BY Lengths DEF Current, TypeOK, TcpTypes, CliTypes
  <1>c. ASSUME Gone' PROVE Downstream'
    BY <1>c DEF Downstream
  <1>1. CASE CliLoginFails \/ CliSendFails \/ CliRecvFails \/ CliChooseExit \/ CliExit
    <2>1. Gone'
      BY <1>1 DEF CliLoginFails, CliSendFails, CliRecvFails, CliChooseExit, CliExit, Leave, Gone
    <2> QED
      BY <1>c, <2>1
  <1>2. CASE CliLogin
    BY <1>2 DEF CliLogin, Downstream
  <1>3. CASE CliRecvReply
    <2>1. /\ main = "reply" /\ s2c # << >> /\ s2c' = AfterRead(s2c, 1)
          /\ Gone' \/ (main' = "menu" /\ UNCHANGED reports)
      BY <1>3 DEF CliRecvReply, ClientReads, Leave, Loop, Gone
    <2>2. reports = << >> /\ Len(s2c) = 1 /\ s2c[1].end = 1
      BY <2>1 DEF UpInv, LoginFirst
    <2>3. s2c' = << >>
      <3>1. Increasing(s2c)
        BY <1>b, <2>2 DEF Increasing, Streams
      <3> QED
        BY <1>b, <2>1, <2>2, <3>1, ReadAll
    <2>4. Len(ledger) = 0 /\ Len(reports) = 0
      <3>1. Len(ledger) <= Len(reports) /\ Len(ledger) \in Nat /\ Len(reports) = 0
        BY <2>2 DEF UpInv, LedgerExact, TypeOK, SrvTypes
      <3> QED
        BY <3>1
    <2>5. out = << >>
      BY <2>4 DEF UpInv, Outbox
    <2>6. main' = "menu" /\ UNCHANGED reports => Idle'
      BY <1>a, <2>3, <2>4, <2>5 DEF Idle, Current
    <2> QED
      BY <1>c, <2>1, <2>6 DEF Downstream
  <1>4. CASE CliChooseReport
    <2>1. main = "menu" /\ main' = "form" /\ UNCHANGED <<s2c, reports>>
      BY <1>4 DEF CliChooseReport, tcpVars
    <2>2. Idle \/ Unsent \/ Behind
      BY <2>1 DEF Downstream, Gone, Filing, Answering, Deep, Sending, Replying, Fetching
    <2>4. Idle => Idle'
      BY <1>a, <2>1 DEF Idle, Current
    <2>5. Unsent => Unsent'
      BY <1>a, <2>1, Zenon DEF Unsent, Between
    <2>6. Behind => Behind'
      BY <2>1 DEF Behind, Between
    <2> QED
      BY <2>2, <2>4, <2>5, <2>6 DEF Downstream
  <1>5. CASE CliFillForm
    <2>1. main = "form" /\ main' = "sendHeaderLen" /\ UNCHANGED s2c
      BY <1>5 DEF CliFillForm, tcpVars
    <2>2. Idle \/ Unsent \/ Behind
      BY <2>1 DEF Downstream, Gone, Filing, Answering, Deep, Sending, Replying, Fetching
    <2>3. Current' = Current + 1
      <3>1. PICK raw \in RawSeverities : reports' = Append(reports, Normalized(raw))
        BY <1>5 DEF CliFillForm
      <3>2. reports \in Seq(0 .. 5)
        BY DEF TypeOK, CliTypes
      <3> HIDE DEF Normalized
      <3>3. Normalized(raw) \in 0 .. 5
        BY DEF Normalized
      <3> QED
        BY <3>1, <3>2, <3>3 DEF Current
    <2>5. Idle => Filing'
      BY <1>a, <1>b, <2>1, <2>3 DEF Idle, Filing, Sending
    <2>6. Unsent => Unsent'
      BY <1>a, <2>1, Zenon DEF Unsent, Between, Sending
    <2>7. Behind => Behind'
      BY <2>1 DEF Behind, Between, Sending
    <2> QED
      BY <2>2, <2>5, <2>6, <2>7 DEF Downstream
  <1>6. CASE CliSendHeaderLen \/ CliSendHeader \/ CliSendDescLen \/ CliSendDesc
    <2>1. main \in Sending /\ main' \in Sending \union {"respLen"} /\ UNCHANGED <<s2c, reports>>
      BY <1>6 DEF CliSendHeaderLen, CliSendHeader, CliSendDescLen, CliSendDesc, SendStep, Sending
    <2>2. Filing \/ Unsent \/ Behind
      BY <2>1 DEF Downstream, Gone, Idle, Answering, Deep, Sending, Replying, Fetching
    <2>4. Filing => Filing'
      BY <1>a, <2>1 DEF Filing, Current
    <2>5. Unsent => Unsent'
      BY <1>a, <2>1, Zenon DEF Unsent, Between
    <2>6. Behind => Behind'
      BY <2>1 DEF Behind, Between
    <2> QED
      BY <2>2, <2>4, <2>5, <2>6 DEF Downstream
  <1>7. CASE CliRecvLength
    BY <1>7, LengthRead
  <1>8. CASE CliRecvResponse
    BY <1>8, ResponseRead
  <1>9. CASE CliRecvBitmapType
    BY <1>9, TypeRead
  <1>10. CASE CliRecvBitmapSize
    BY <1>10, SizeRead
  <1>11. CASE CliRecvBitmap
    BY <1>11, BitmapRead
  <1>12. CASE CliBitmapFails
    BY <1>12, FetchFails
  <1>13. CASE Heartbeat
    <2>1. ~ HbWake
      BY DEF HbWake, TypeOK, CliTypes
    <2>2. ~ HbSendLen /\ ~ HbSendType /\ ~ HbSendFails
      BY DEF HbSendLen, HbSendType, HbSend, HbSendFails, UpInv, Ending
    <2>3. UNCHANGED <<main, need, reports, s2c>>
      BY <1>13, <2>1, <2>2 DEF Heartbeat, HbStop, tcpVars
    <2>4. Consumed' = Consumed /\ Pending' = Pending /\ Current' = Current /\ (Gone' <=> Gone)
      BY <1>a, <2>3 DEF Consumed, Pending, Current, Gone
    <2>5. (Idle => Idle') /\ (Filing => Filing') /\ (Behind => Behind') /\ (Deep => Deep')
      BY <1>a, <2>3, <2>4 DEF Idle, Filing, Behind, Deep
    <2>6. Answering => Answering'
      BY <1>a, <2>3, <2>4 DEF Answering
    <2>7. Unsent => Unsent'
      BY <1>a, <2>3, Zenon DEF Unsent
    <2> QED
      BY <2>3, <2>4, <2>5, <2>6, <2>7 DEF Downstream
  <1> QED
    BY <1>1, <1>2, <1>3, <1>4, <1>5, <1>6, <1>7, <1>8, <1>9, <1>10, <1>11, <1>12, <1>13
       DEF CliNext, Working

-----------------------------------------------------------------------
(* What the crew is told.                                                                          *)

\* Nothing is displayed for a report that is still to come, nor yet for the one being exchanged.
Told == \A i \in DOMAIN shown : /\ shown[i].report <= Current
                                /\ main \in Sending \union Replying => shown[i].report < Current

DeliveryInv == UpInv /\ Downstream /\ Told /\ ConfirmationMatchesReport /\ BitmapMatchesReport

\* The logs of ReportDelivery.
Logged(recs) == [i \in DOMAIN recs |-> [id |-> recs[i].id, status |-> Assess(recs[i].severity)]]

Notice(d) == IF Confirms(d) THEN [id |-> d.report, status |-> d.status] ELSE [id |-> 0, status |-> ""]

Notices(displays) == [i \in DOMAIN displays |-> Notice(displays[i])]

LEMMA LoggedGrows ==
    ASSUME NEW s \in Seq(Records), NEW e \in Records
    PROVE  Logged(Append(s, e)) = Append(Logged(s), [id |-> e.id, status |-> Assess(e.severity)])
  <1> DEFINE f(r) == [id |-> r.id, status |-> Assess(r.severity)]
             S == [id : Nat, status : {"CLEARED", "HAZARD"}]
  <1>1. \A r \in Records : f(r) \in S
    BY DEF Records, Assess
  <1>2. Append(s, e) \in Seq(Records) /\ DOMAIN s = 1 .. Len(s) /\ \A i \in 1 .. Len(s) : s[i] \in Records
    OBVIOUS
  <1> HIDE DEF f, S
  <1>3. [i \in DOMAIN Append(s, e) |-> f(Append(s, e)[i])] = Append([i \in DOMAIN s |-> f(s[i])], f(e))
    BY <1>1, <1>2
  <1> QED
    BY <1>3 DEF Logged, f

LEMMA NoticesGrow ==
    ASSUME NEW s \in Seq(Displays), NEW d \in Displays
    PROVE  Notices(Append(s, d)) = Append(Notices(s), Notice(d))
  <1> DEFINE S == {Notice(c) : c \in Displays}
  <1>1. Append(s, d) \in Seq(Displays) /\ DOMAIN s = 1 .. Len(s) /\ \A i \in 1 .. Len(s) : s[i] \in Displays
    OBVIOUS
  <1>2. \A c \in Displays : Notice(c) \in S
    OBVIOUS
  <1> HIDE DEF S
  <1>3. [i \in DOMAIN Append(s, d) |-> Notice(Append(s, d)[i])] = Append([i \in DOMAIN s |-> Notice(s[i])], Notice(d))
    BY <1>1, <1>2
  <1> QED
    BY <1>3 DEF Notices

LEMMA RDStays ==
    ASSUME UNCHANGED <<reports, ledger, shown>>
    PROVE  UNCHANGED RD!rdVars
  <1>1. UNCHANGED <<Logged(ledger), Notices(shown)>>
    BY DEF Logged, Notices, Notice
  <1> QED
    BY <1>1 DEF RD!rdVars, Logged, Notices, Notice

LEMMA RDActions ==
    /\ RD!FileReport <=> /\ \E s \in 0 .. 5 : reports' = Append(reports, s)
                         /\ UNCHANGED <<Logged(ledger), Notices(shown)>>
    /\ RD!TellNothing <=> /\ Notices(shown)' = Append(Notices(shown), [id |-> 0, status |-> ""])
                          /\ UNCHANGED <<reports, Logged(ledger)>>
  BY DEF RD!FileReport, RD!TellNothing, RD!Noise, Logged, Notices, Notice

\* The entry that ReportDelivery makes for report r.
LEMMA RDEntry ==
    ASSUME NEW r \in 1 .. Len(reports), reports \in Seq(0 .. 5)
    PROVE  RD!Entry(r) = [id |-> r, status |-> Assess(reports[r])]
  <1>1. reports[r] \in 0 .. 5
    OBVIOUS
  <1> QED
    BY <1>1 DEF RD!Entry

LEMMA RDLast ==
    ASSUME TypeOK, LedgerExact
    PROVE  RD!LastId(Logged(ledger)) = Len(ledger)
  <1>1. ledger \in Seq(Records)
    BY DEF TypeOK, SrvTypes
  <1>2. DOMAIN ledger = 1 .. Len(ledger) /\ Len(ledger) \in Nat
    BY <1>1
  <1> DEFINE l == Logged(ledger)
  <1>3. DOMAIN l = 1 .. Len(ledger) /\ \A i \in 1 .. Len(ledger) : l[i].id = ledger[i].id
    BY <1>2 DEF Logged
  <1>4. Len(l) = Len(ledger)
    <2> DEFINE f(e) == [id |-> e.id, status |-> Assess(e.severity)]
               S == {f(e) : e \in Records}
    <2>1. \A i \in 1 .. Len(ledger) : f(ledger[i]) \in S
      BY <1>1
    <2> HIDE DEF f, S
    <2>2. [i \in 1 .. Len(ledger) |-> f(ledger[i])] \in Seq(S)
      BY <1>2, <2>1
    <2>3. l \in Seq(S)
      BY <1>2, <2>2 DEF Logged, f
    <2> HIDE DEF l
    <2> QED
      BY <1>2, <1>3, <2>3
  <1> HIDE DEF l
  <1>5. CASE Len(ledger) = 0
    <2>1. l = << >>
      BY <1>3, <1>5
    <2> QED
      BY <1>5, <2>1 DEF l, RD!LastId
  <1>6. CASE Len(ledger) # 0
    <2>1. Len(ledger) \in 1 .. Len(ledger)
      BY <1>2, <1>6
    <2>2. l[Len(l)].id = Len(ledger)
      BY <1>2, <1>3, <1>4, <2>1 DEF LedgerExact
    <2>3. l # << >>
      BY <1>3, <2>1
    <2> QED
      BY <2>2, <2>3 DEF l, RD!LastId
  <1> QED
    BY <1>5, <1>6

\* A report that is recorded is one that the tower logs.
LEMMA RecordingLogs ==
    ASSUME TypeOK, UpInv, ReportRecorded, UNCHANGED <<reports, shown>>
    PROVE  RD!LogReport
  <1> DEFINE r == Len(ledger) + 1
  <1>1. ledger \in Seq(Records) /\ reports \in Seq(0 .. 5) /\ Len(ledger) \in Nat /\ Len(reports) \in Nat
    BY DEF TypeOK, SrvTypes, CliTypes
  <1>2. r \in 1 .. Len(reports)
    BY DEF ReportRecorded
  <1>3. PICK e \in Records : e.id = r /\ e.severity = reports[r] /\ ledger' = Append(ledger, e)
    BY DEF ReportRecorded
  <1>4. Logged(ledger') = Append(Logged(ledger), RD!Entry(r))
    <2>1. Logged(ledger') = Append(Logged(ledger), [id |-> e.id, status |-> Assess(e.severity)])
      BY <1>1, <1>3, LoggedGrows
    <2>2. RD!Entry(r) = [id |-> r, status |-> Assess(reports[r])]
      BY <1>1, <1>2, RDEntry
    <2> QED
      BY <1>3, <2>1, <2>2
  <1>5. r \in (RD!LastId(Logged(ledger)) + 1) .. Len(reports)
    <2>1. RD!LastId(Logged(ledger)) = Len(ledger)
      BY RDLast DEF UpInv
    <2> QED
      BY <1>1, <1>2, <2>1
  <1>6. UNCHANGED <<reports, Notices(shown)>>
    BY DEF Notices
  <1> QED
    BY <1>4, <1>5, <1>6 DEF RD!LogReport, Logged, Notices, Notice

\* What is displayed tells the crew of the report just filed, or of none.
LEMMA DisplayTells ==
    ASSUME TypeOK, UpInv, Told, main = "resp", Current >= 1, UNCHANGED <<reports, ledger>>,
           NEW d \in Displays, shown' = Append(shown, d), d.report = Current,
           Confirms(d) => /\ d.id = Current /\ d.status = Assess(reports[Current])
                          /\ Len(ledger) = Current
    PROVE  RD!TellCrew \/ RD!TellNothing
  <1>1. /\ shown \in Seq(Displays) /\ reports \in Seq(0 .. 5) /\ Current \in Nat
        /\ Current = Len(reports) /\ DOMAIN shown = 1 .. Len(shown)
    BY DEF TypeOK, CliTypes, Current
  <1>2. Notices(shown') = Append(Notices(shown), Notice(d))
    BY <1>1, NoticesGrow
  <1>3. UNCHANGED <<reports, Logged(ledger)>>
    BY DEF Logged
  <1>4. CASE Confirms(d)
    <2>1. Notice(d) = RD!Entry(Current)
      <3>1. Current \in 1 .. Len(reports)
        BY <1>1
      <3>2. RD!Entry(Current) = [id |-> Current, status |-> Assess(reports[Current])]
        BY <1>1, <3>1, RDEntry
      <3> QED
        BY <1>4, <3>2 DEF Notice
    <2>2. RD!LastId(Logged(ledger)) = Len(reports)
      BY <1>1, <1>4, RDLast DEF UpInv
    <2>3. reports # << >>
      BY <1>1
    <2>4. \A i \in DOMAIN Notices(shown) : Notices(shown)[i].id < Len(reports)
      <3> SUFFICES ASSUME NEW i \in DOMAIN shown PROVE Notice(shown[i]).id < Len(reports)
        BY DEF Notices
      <3>1. shown[i].report < Current
        BY DEF Told, Replying
      <3>2. 0 < Current
        BY <1>1
      <3> QED
        BY <1>1, <3>1, <3>2 DEF Notice
    <2>5. Notices(shown') = Append(Notices(shown), RD!Entry(Len(reports)))
      BY <1>1, <1>2, <2>1
    <2>6. RD!TellCrew
      BY <1>3, <2>2, <2>3, <2>4, <2>5 DEF RD!TellCrew, Logged, Notices, Notice
    <2> QED
      BY <2>6
  <1>5. CASE ~ Confirms(d)
    <2>1. Notices(shown') = Append(Notices(shown), [id |-> 0, status |-> ""])
      BY <1>2, <1>5 DEF Notice
    <2> QED
      BY <1>3, <2>1, RDActions
  <1> QED
    BY <1>4, <1>5

\* Only filing a report and reading its answer bear on what has been told.
LEMMA ClientTells ==
    ASSUME CliNext
    PROVE  \/ CliFillForm
           \/ CliRecvResponse
           \/ /\ UNCHANGED <<reports, shown>> /\ (CliRecvBitmap \/ UNCHANGED pics)
              /\ main' \in Sending \union Replying => main \in Sending \union Replying
  <1>1. CASE \/ CliLoginFails \/ CliRecvReply \/ CliSendFails \/ CliRecvFails \/ CliExit \/ CliLogin
             \/ CliChooseReport \/ CliChooseExit
    BY <1>1 DEF CliLoginFails, CliRecvReply, CliSendFails, CliRecvFails, CliExit, CliLogin,
       CliChooseReport, CliChooseExit, Leave, Loop, Sending, Replying
  <1>2. CASE CliSendHeaderLen \/ CliSendHeader \/ CliSendDescLen \/ CliSendDesc
    <2>1. main \in Sending /\ UNCHANGED <<reports, shown, pics>>
      BY <1>2 DEF CliSendHeaderLen, CliSendHeader, CliSendDescLen, CliSendDesc, SendStep, Sending
    <2> QED
      BY <2>1
  <1>3. CASE CliRecvLength \/ CliRecvBitmapType \/ CliRecvBitmapSize \/ CliBitmapFails
    BY <1>3 DEF CliRecvLength, CliRecvBitmapType, CliRecvBitmapSize, CliBitmapFails, Leave,
       BackToMenu, Loop, Sending, Replying
  <1>4. CASE CliRecvBitmap
    BY <1>4 DEF CliRecvBitmap, BackToMenu, Loop, Sending, Replying
  <1>5. CASE Heartbeat
    BY <1>5 DEF Heartbeat, HbWake, HbSendLen, HbSendType, HbSend, HbSendFails, HbStop
  <1> QED
    BY <1>1, <1>2, <1>3, <1>4, <1>5 DEF CliNext, Working

\* A confirmation and a bitmap stay those of their report.
LEMMA TruthStays ==
    ASSUME TypeOK, Told, ConfirmationMatchesReport, shown' = shown,
           UNCHANGED reports \/ \E s \in 0 .. 5 : reports' = Append(reports, s),
           UNCHANGED ledger \/ \E e \in Records : ledger' = Append(ledger, e)
    PROVE  ConfirmationMatchesReport'
  <1>1. /\ reports \in Seq(0 .. 5) /\ ledger \in Seq(Records) /\ shown \in Seq(Displays)
        /\ Len(reports) \in Nat /\ DOMAIN shown = 1 .. Len(shown)
    BY DEF TypeOK, SrvTypes, CliTypes
  <1>2. \A r \in 1 .. Len(reports) : reports'[r] = reports[r]
    <2>1. CASE UNCHANGED reports
      BY <2>1
    <2>2. CASE \E s \in 0 .. 5 : reports' = Append(reports, s)
      BY <1>1, <2>2
    <2> QED
      BY <2>1, <2>2
  <1>3. \A j \in DOMAIN ledger : j \in DOMAIN ledger' /\ ledger'[j] = ledger[j]
    BY <1>1
  <1>4. ASSUME NEW i \in DOMAIN shown, Confirms(shown[i])
        PROVE  /\ shown[i].id = shown[i].report
               /\ shown[i].status = Assess(reports'[shown[i].report])
               /\ \E j \in DOMAIN ledger' : ledger'[j].id = shown[i].id
    <2>1. /\ shown[i].id = shown[i].report /\ shown[i].status = Assess(reports[shown[i].report])
          /\ \E j \in DOMAIN ledger : ledger[j].id = shown[i].id
      BY <1>4 DEF ConfirmationMatchesReport
    <2>2. shown[i].report \in 1 .. Len(reports)
      <3>1. shown[i] \in Displays
        BY <1>1
      <3>2. shown[i].report \in Nat /\ shown[i].report <= Len(reports)
        BY <3>1 DEF Displays, Told, Current
      <3>3. shown[i].id > 0
        BY <1>4 DEF Confirms
      <3> QED
        BY <1>1, <2>1, <3>2, <3>3
    <2> QED
      BY <1>2, <1>3, <2>1, <2>2
  <1> QED
    BY <1>4, Zenon DEF ConfirmationMatchesReport

LEMMA ServerDelivers ==
    ASSUME TypeInv, TypeInv', RunwayStateAgrees, DeliveryInv, NoHeartbeat, SrvNext, UNCHANGED cliVars
    PROVE  DeliveryInv' /\ (RD!RDNext \/ UNCHANGED RD!rdVars)
  <1>1. TypeOK /\ TypeOK' /\ UpInv /\ Downstream /\ UNCHANGED <<main, reports, shown, pics>>
    BY DEF TypeInv, DeliveryInv, cliVars
  <1>2. UpInv' /\ Downstream'
    <2>1. UpInv'
      BY <1>1, ServerKeepsUp
    <2> QED
      BY <1>1, <2>1, ServerKeepsDown
  <1>3. UNCHANGED ledger \/ ReportRecorded
    BY <1>1, ServerSteps DEF SessionEnds, LoginAnswered, SessionWaits, PartReceived, AnswerSent
  <1>4. UNCHANGED ledger \/ \E e \in Records : ledger' = Append(ledger, e)
    BY <1>3 DEF ReportRecorded
  <1>5. Told' /\ ConfirmationMatchesReport' /\ BitmapMatchesReport'
    <2>1. ConfirmationMatchesReport'
      BY <1>1, <1>4, TruthStays DEF DeliveryInv
    <2> QED
      BY <1>1, <2>1 DEF DeliveryInv, Told, BitmapMatchesReport, Current
  <1>6. RD!RDNext \/ UNCHANGED RD!rdVars
    <2>1. CASE UNCHANGED ledger
      BY <1>1, <2>1, RDStays
    <2>2. CASE ReportRecorded
      BY <1>1, <2>2, RecordingLogs DEF RD!RDNext
    <2> QED
      BY <1>3, <2>1, <2>2
  <1> QED
    BY <1>2, <1>5, <1>6 DEF DeliveryInv

LEMMA ClientDelivers ==
    ASSUME TypeInv, TypeInv', DeliveryInv, NoHeartbeat, NoHeartbeat', CliNext, UNCHANGED srvVars
    PROVE  DeliveryInv' /\ (RD!RDNext \/ UNCHANGED RD!rdVars)
  <1>1. /\ TypeOK /\ TypeOK' /\ ReportInHand /\ UpInv /\ Downstream /\ beats' = 0
        /\ Told /\ ConfirmationMatchesReport /\ BitmapMatchesReport /\ UNCHANGED ledger
    BY DEF TypeInv, DeliveryInv, NoHeartbeat, srvVars
  <1>2. UpInv' /\ Downstream'
    BY <1>1, ClientKeepsUp, ClientKeepsDown
  <1>3. /\ shown \in Seq(Displays) /\ pics \in Seq(Pictures) /\ Current \in Nat
        /\ Current = Len(reports) /\ reports \in Seq(0 .. 5) /\ ledger \in Seq(Records)
    BY <1>1 DEF TypeOK, CliTypes, SrvTypes, Current
  <1>4. CASE CliFillForm
    <2>1. /\ UNCHANGED <<shown, pics>> /\ \E s \in 0 .. 5 : reports' = Append(reports, s)
      <3>1. \A raw \in RawSeverities : Normalized(raw) \in 0 .. 5
        BY DEF Normalized
      <3>2. \E raw \in RawSeverities : reports' = Append(reports, Normalized(raw))
        BY <1>4 DEF CliFillForm
      <3> QED
        BY <1>4, <3>1, <3>2 DEF CliFillForm
    <2>2. Current' = Current + 1
      BY <1>3, <2>1 DEF Current
    <2>3. Told'
      <3> SUFFICES ASSUME NEW k \in DOMAIN shown PROVE shown[k].report < Current + 1
        <4>1. \A a \in Nat : a < Current + 1 => a <= Current + 1
          BY <1>3
        <4>2. \A i \in DOMAIN shown : shown[i].report \in Nat
          <5>1. \A i \in DOMAIN shown : shown[i] \in Displays
            BY <1>3
          <5> QED
            BY <5>1 DEF Displays
        <4> QED
          BY <2>1, <2>2, <4>1, <4>2 DEF Told
      <3>1. shown[k] \in Displays
        BY <1>3
      <3>2. shown[k].report \in Nat /\ shown[k].report <= Current
        BY <1>1, <3>1 DEF Displays, Told
      <3> QED
        BY <1>3, <3>2
    <2>4. ConfirmationMatchesReport'
      BY <1>1, <2>1, TruthStays
    <2>5. BitmapMatchesReport'
      BY <1>1, <2>1 DEF BitmapMatchesReport
    <2>6. RD!RDNext
      BY <1>1, <2>1, RDActions DEF RD!RDNext, Logged, Notices
    <2> QED
      BY <1>2, <2>3, <2>4, <2>5, <2>6 DEF DeliveryInv
  <1>5. CASE CliRecvResponse
    <2>1. PICK d \in Displays :
             /\ shown' = Append(shown, d) /\ d.report = Current
             /\ Confirms(d) => /\ d.id = Current /\ d.status = Assess(reports[Current])
                               /\ Len(ledger) = Current
      BY <1>1, <1>5, ResponseRead
    <2>2. main = "resp" /\ main' = "bmpType" /\ UNCHANGED <<reports, pics>>
      BY <1>5 DEF CliRecvResponse
    <2>3. Current >= 1 /\ Current' = Current
      BY <1>1, <1>3, <2>2 DEF ReportInHand, Exchange, Replying, Current
    <2>4. /\ Len(shown) \in Nat /\ DOMAIN shown = 1 .. Len(shown) /\ DOMAIN shown' = 1 .. Len(shown) + 1
          /\ \A i \in 1 .. Len(shown) : shown'[i] = shown[i]
          /\ shown'[Len(shown) + 1] = d
      BY <1>3, <2>1
    <2>5. \A i \in DOMAIN shown' : i \in DOMAIN shown \/ i = Len(shown) + 1
      BY <2>4
    <2>6. Told'
      <3>1. \A i \in DOMAIN shown' : shown'[i].report <= Current
        BY <1>1, <1>3, <2>1, <2>4, <2>5 DEF Told
      <3> QED
        BY <2>2, <2>3, <3>1 DEF Told, Sending, Replying
    <2>7. ConfirmationMatchesReport'
      <3>1. \A i \in DOMAIN shown :
               Confirms(shown[i]) =>
                  /\ shown[i].id = shown[i].report
                  /\ shown[i].status = Assess(reports[shown[i].report])
                  /\ \E j \in DOMAIN ledger : ledger[j].id = shown[i].id
        BY <1>1, Zenon DEF ConfirmationMatchesReport
      <3>2. Confirms(d) =>
                  /\ d.id = d.report /\ d.status = Assess(reports[d.report])
                  /\ \E j \in DOMAIN ledger : ledger[j].id = d.id
        <4> SUFFICES ASSUME Confirms(d)
                     PROVE  /\ d.id = d.report /\ d.status = Assess(reports[d.report])
                            /\ \E j \in DOMAIN ledger : ledger[j].id = d.id
          OBVIOUS
        <4>1. Current \in DOMAIN ledger /\ ledger[Current].id = Current
          <5>1. Current \in DOMAIN ledger
            BY <1>3, <2>1, <2>3
          <5> QED
            BY <1>1, <5>1 DEF UpInv, LedgerExact
        <4> QED
          BY <2>1, <4>1
      <3>3. UNCHANGED <<reports, ledger>>
        BY <1>1, <2>2
      <3>4. \A i \in DOMAIN shown' :
               Confirms(shown'[i]) =>
                  /\ shown'[i].id = shown'[i].report
                  /\ shown'[i].status = Assess(reports[shown'[i].report])
                  /\ \E j \in DOMAIN ledger : ledger[j].id = shown'[i].id
        BY <2>4, <2>5, <3>1, <3>2, Zenon
      <3> QED
        BY <3>3, <3>4, Zenon DEF ConfirmationMatchesReport
    <2>8. BitmapMatchesReport'
      BY <1>1, <2>2 DEF BitmapMatchesReport
    <2>9. RD!RDNext
      BY <1>1, <2>1, <2>2, <2>3, DisplayTells DEF RD!RDNext
    <2> QED
      BY <1>2, <2>6, <2>7, <2>8, <2>9 DEF DeliveryInv
  <1>6. CASE /\ UNCHANGED <<reports, shown>> /\ (CliRecvBitmap \/ UNCHANGED pics)
             /\ main' \in Sending \union Replying => main \in Sending \union Replying
    <2>1. Told' /\ ConfirmationMatchesReport'
      <3>1. ConfirmationMatchesReport'
        BY <1>1, <1>6, TruthStays
      <3> QED
        BY <1>1, <1>6, <3>1 DEF Told, Current
    <2>2. pics' = pics \/ pics' = Append(pics, [report |-> Current, id |-> Current])
      BY <1>1, <1>6, BitmapRead
    <2>3. BitmapMatchesReport'
      <3>1. [report |-> Current, id |-> Current] \in Pictures
        BY <1>3 DEF Pictures
      <3> DEFINE e == [report |-> Current, id |-> Current]
      <3>2. e.id = e.report /\ e \in Pictures
        BY <3>1
      <3> HIDE DEF e
      <3>3. pics' = pics \/ pics' = Append(pics, e)
        BY <2>2 DEF e
      <3> QED
        BY <1>1, <1>3, <3>2, <3>3 DEF BitmapMatchesReport
    <2>4. UNCHANGED RD!rdVars
      BY <1>1, <1>6, RDStays
    <2> QED
      BY <1>2, <2>1, <2>3, <2>4 DEF DeliveryInv
  <1> QED
    BY <1>4, <1>5, <1>6, ClientTells

-----------------------------------------------------------------------
(* The whole system.                                                                               *)

LEMMA InitDelivers == Init => DeliveryInv /\ RD!RDInit
  <1> SUFFICES ASSUME Init PROVE DeliveryInv /\ RD!RDInit
    OBVIOUS
  <1> USE DEF Init, TcpInit, SrvInit, CliInit
  <1>1. Ending /\ Upstream /\ Outbox
    BY DEF Ending, Upstream, Outbox
  <1>2. LedgerExact
    BY DEF LedgerExact
  <1>3. LoginFirst
    BY DEF LoginFirst, Intact, Spaced
  <1>4. Downstream
    BY DEF Downstream
  <1>5. Told /\ ConfirmationMatchesReport /\ BitmapMatchesReport
    BY DEF Told, ConfirmationMatchesReport, BitmapMatchesReport
  <1>6. RD!RDInit
    BY DEF RD!RDInit
  <1> QED
    BY <1>1, <1>2, <1>3, <1>4, <1>5, <1>6 DEF DeliveryInv, UpInv

\* A fault of the network takes nothing from the streams.
LEMMA NetworkDelivers ==
    ASSUME DeliveryInv, UNCHANGED <<c2s, s2c, closed, srvVars, cliVars>>
    PROVE  DeliveryInv' /\ UNCHANGED RD!rdVars
  <1> USE DEF srvVars, cliVars
  <1>1. UpInv'
    <2> USE DEF DeliveryInv, UpInv
    <2>1. Ending' /\ LedgerExact' /\ Outbox'
      BY DEF Ending, LedgerExact, Outbox
    <2>2. LoginFirst'
      <3>1. (Intact(c2s))' <=> Intact(c2s)
        BY DEF Intact, Spaced
      <3>2. Over' <=> Over
        BY DEF Over
      <3> QED
        BY <3>1, <3>2 DEF LoginFirst
    <2>3. Upstream'
      BY DEF Upstream, Received, Dispatched, Current, Over, Gone
    <2> QED
      BY <2>1, <2>2, <2>3
  <1>2. Downstream'
    <2>1. /\ Consumed' = Consumed /\ Pending' = Pending /\ Current' = Current
          /\ Gone' <=> Gone
      BY DEF Consumed, Pending, Current, Gone
    <2>2. (Idle => Idle') /\ (Filing => Filing') /\ (Behind => Behind') /\ (Deep => Deep')
      BY <2>1 DEF Idle, Filing, Behind, Deep
    <2>3. Answering => Answering'
      BY <2>1 DEF Answering, Over
    <2>4. Unsent => Unsent'
      BY Zenon DEF Unsent, Over
    <2> QED
      BY <2>1, <2>2, <2>3, <2>4 DEF DeliveryInv, Downstream
  <1>3. Told' /\ ConfirmationMatchesReport' /\ BitmapMatchesReport'
    BY DEF DeliveryInv, Told, ConfirmationMatchesReport, BitmapMatchesReport, Current
  <1>4. UNCHANGED RD!rdVars
    BY RDStays
  <1> QED
    BY <1>1, <1>2, <1>3, <1>4 DEF DeliveryInv

\* The heartbeat thread alone counts heartbeats.
LEMMA ClientCounts == CliNext => Heartbeat \/ UNCHANGED beats
  <1> USE DEF threadVars, Leave, BackToMenu
  <1>1. CliLogin \/ CliLoginFails \/ CliRecvReply \/ CliChooseReport \/ CliChooseExit \/ CliFillForm
        \/ CliExit => UNCHANGED beats
    BY DEF CliLogin, CliLoginFails, CliRecvReply, CliChooseReport, CliChooseExit, CliFillForm, CliExit
  <1>2. CliSendHeaderLen \/ CliSendHeader \/ CliSendDescLen \/ CliSendDesc \/ CliSendFails
        => UNCHANGED beats
    BY DEF CliSendHeaderLen, CliSendHeader, CliSendDescLen, CliSendDesc, SendStep, CliSendFails
  <1>3. CliRecvLength \/ CliRecvResponse \/ CliRecvFails => UNCHANGED beats
    BY DEF CliRecvLength, CliRecvResponse, CliRecvFails
  <1>4. CliRecvBitmapType \/ CliRecvBitmapSize \/ CliRecvBitmap \/ CliBitmapFails => UNCHANGED beats
    BY DEF CliRecvBitmapType, CliRecvBitmapSize, CliRecvBitmap, CliBitmapFails
  <1> QED
    BY <1>1, <1>2, <1>3, <1>4 DEF CliNext, Working

LEMMA HeartbeatCounts ==
    Heartbeat => UNCHANGED beats \/ (beats < MaxHeartbeats /\ beats' = beats + 1)
  BY DEF Heartbeat, HbWake, HbSendLen, HbSendType, HbSend, HbSendFails, HbStop

\* A session that has had no heartbeat never had one.
LEMMA NoneBefore == TypeOK /\ [Next]_vars /\ NoHeartbeat' => NoHeartbeat
  <1> SUFFICES ASSUME TypeOK, [Next]_vars, NoHeartbeat' PROVE NoHeartbeat
    OBVIOUS
  <1>1. beats \in Nat
    BY DEF TypeOK, CliTypes
  <1>2. UNCHANGED beats \/ beats' = beats + 1
    BY ClientCounts, HeartbeatCounts DEF Next, vars, cliVars
  <1> QED
    BY <1>1, <1>2 DEF NoHeartbeat

LEMMA DeliveryStep ==
    ASSUME TypeInv, TypeInv', RunwayStateAgrees, NoHeartbeat => DeliveryInv, [Next]_vars, NoHeartbeat'
    PROVE  DeliveryInv' /\ (RD!RDNext \/ UNCHANGED RD!rdVars)
  <1>1. NoHeartbeat /\ DeliveryInv
    BY NoneBefore DEF TypeInv
  <1>2. CASE SrvNext /\ UNCHANGED cliVars
    BY <1>1, <1>2, ServerDelivers
  <1>3. CASE CliNext /\ UNCHANGED srvVars
    BY <1>1, <1>3, ClientDelivers
  <1>4. CASE UNCHANGED <<c2s, s2c, closed, srvVars, cliVars>>
    BY <1>1, <1>4, NetworkDelivers
  <1>5. LinkLost \/ RetransmitFails => UNCHANGED <<c2s, s2c, closed>>
    BY DEF LinkLost, RetransmitFails
  <1> QED
    BY <1>2, <1>3, <1>4, <1>5 DEF Next, vars, tcpVars

\* In a session in which no heartbeat has been sent, a confirmation that is displayed is that of the
\* report it is displayed for, and a bitmap is saved only for the report it was drawn for: whatever
\* faults have struck, the exchanges that runClientSession gave up leave nothing that a later one
\* takes for its own.
THEOREM AnswersCorrect ==
    Spec => [](NoHeartbeat => ConfirmationMatchesReport /\ BitmapMatchesReport)
  <1>1. Init => DeliveryInv
    BY InitDelivers
  <1>2. TypeInv /\ TypeInv' /\ RunwayStateAgrees /\ (NoHeartbeat => DeliveryInv) /\ [Next]_vars
        => (NoHeartbeat => DeliveryInv)'
    BY DeliveryStep
  <1>3. DeliveryInv => ConfirmationMatchesReport /\ BitmapMatchesReport
    BY DEF DeliveryInv
  <1>4. TypeOK /\ ReportInHand <=> TypeInv
    BY DEF TypeInv
  <1> QED
    BY <1>1, <1>2, <1>3, <1>4, TypeCorrect, RunwayStateCorrect, PTL DEF Spec

\* Every step of such a session is one that ReportDelivery allows: the tower logs each report at
\* most once and in order, and the crew is told of the report it has just filed, after it is
\* logged, or of none.
THEOREM DeliveryKept == Spec => RD!RDInit /\ [][NoHeartbeat' => RD!RDNext]_(RD!rdVars)
  <1>1. Init => DeliveryInv /\ RD!RDInit
    BY InitDelivers
  <1>2. TypeInv /\ TypeInv' /\ RunwayStateAgrees /\ (NoHeartbeat => DeliveryInv) /\ [Next]_vars
        => (NoHeartbeat => DeliveryInv)' /\ [NoHeartbeat' => RD!RDNext]_(RD!rdVars)
    BY DeliveryStep
  <1>3. TypeOK /\ ReportInHand <=> TypeInv
    BY DEF TypeInv
  <1> QED
    BY <1>1, <1>2, <1>3, TypeCorrect, RunwayStateCorrect, PTL DEF Spec

-----------------------------------------------------------------------
(* Every session, where the client sends no heartbeat.                                             *)

LEMMA HeartbeatsBounded == ASSUME MaxHeartbeats = 0 PROVE Spec => []NoHeartbeat
  <1>1. Init => NoHeartbeat
    BY DEF Init, CliInit, NoHeartbeat
  <1>2. NoHeartbeat /\ [Next]_vars => NoHeartbeat'
    BY ClientCounts, HeartbeatCounts DEF Next, vars, cliVars, NoHeartbeat
  <1> QED
    BY <1>1, <1>2, PTL DEF Spec

\* What AnswersCorrect says of the confirmations, of a whole session without heartbeats ...
COROLLARY ConfirmationsCorrect ==
    ASSUME MaxHeartbeats = 0
    PROVE  Spec => []ConfirmationMatchesReport
  BY HeartbeatsBounded, AnswersCorrect, PTL

\* ... and of the bitmaps that are saved.
COROLLARY BitmapsCorrect ==
    ASSUME MaxHeartbeats = 0
    PROVE  Spec => []BitmapMatchesReport
  BY HeartbeatsBounded, AnswersCorrect, PTL

\* Such a session implements what ReportDelivery promises the ground crew and the tower.
COROLLARY DeliveryImplemented ==
    ASSUME MaxHeartbeats = 0
    PROVE  Spec => ImplementsReportDelivery
  BY HeartbeatsBounded, DeliveryKept, PTL DEF ImplementsReportDelivery, RD!RDSpec

-----------------------------------------------------------------------
(* Sessions with heartbeats.  Either end may lose its place in the stream that it reads, but the   *)
(* answers leave in the order of the ledger, which is that of the reports, and one that the client *)
(* has taken for an answer is behind it.                                                           *)

\* The confirmations and bitmaps of numbered reports that a stream holds whole.
Answers(s) == {i \in DOMAIN s : s[i].kind \in {"text", "bitmap"} /\ s[i].id > 0}

\* Their place in the order in which the server sends them.
Place(c) == IF c.kind = "text" THEN 2 * c.id ELSE 2 * c.id + 1

\* An integer has its four bytes before it, and a bitmap's type its size and itself behind it.
Framed(s) ==
    \A i \in DOMAIN s : s[i].kind = "int" =>
        /\ s[i].end = Start(s, i) + 4
        /\ s[i].num = TypeBitmap =>
              /\ i + 2 \in DOMAIN s /\ s[i + 1].kind = "int" /\ s[i + 1].num = BitmapLen
              /\ s[i + 2].kind = "bitmap" /\ s[i + 2].end = s[i + 1].end + BitmapLen

\* Where the client has taken a bitmap's type, the bitmap is what it will take for one.
Fetched ==
    /\ main = "bmpSize" =>
          /\ 2 \in DOMAIN s2c /\ s2c[1].kind = "int" /\ s2c[1].num = BitmapLen /\ s2c[1].end = 4
          /\ s2c[2].kind = "bitmap" /\ s2c[2].end = 4 + BitmapLen
    /\ main = "bmpData" =>
          need = BitmapLen /\ 1 \in DOMAIN s2c /\ s2c[1].kind = "bitmap" /\ s2c[1].end = BitmapLen

\* What the server has still to send is the answer to a heartbeat or to the last recorded report.
OutForm ==
    \/ out \in {<< >>, <<HeartbeatAck>>}
    \/ ledger # << >> /\ LET e == ledger[Len(ledger)] IN
          out \in {<<Response(e.id, Assess(e.severity)), Bitmap(e.id)>>, <<Bitmap(e.id)>>}

\* An answer is that of a recorded report, with its status.
Known(c) == \E j \in DOMAIN ledger : /\ ledger[j].id = c.id
                                     /\ c.kind = "text" => c.tag = Assess(ledger[j].severity)

\* Every answer up to the one at place q has been sent ...
Given(q) ==
    /\ \E j \in DOMAIN ledger : q <= 2 * ledger[j].id + 1
    /\ \A k \in DOMAIN out : \A i \in Answers(out[k]) : q < Place(out[k][i])

\* ... and has left the stream.
Met(q) == Given(q) /\ \A i \in Answers(s2c) : q < Place(s2c[i])

\* The answers on their way are known and in order.
Coming ==
    \A i \in Answers(s2c) : /\ Known(s2c[i]) /\ Given(Place(s2c[i]))
                            /\ \A j \in Answers(s2c) : i < j => Place(s2c[i]) < Place(s2c[j])

\* The places of the answers that the client has displayed or saved.
Seen == {q \in Nat : \/ \E i \in DOMAIN shown : Confirms(shown[i]) /\ q = 2 * shown[i].id
                     \/ \E i \in DOMAIN pics : pics[i].id > 0 /\ q = 2 * pics[i].id + 1}

AnswerStream == Spaced(s2c) /\ Framed(s2c) /\ OutForm /\ Coming

AnswerInv == AnswerStream /\ Fetched /\ (\A q \in Seen : Met(q)) /\ AnswersInOrder

-----------------------------------------------------------------------
(* The packets of the server.                                                                      *)

Packet(p) == p \in Streams /\ Spaced(p) /\ Framed(p) /\ \A i, j \in Answers(p) : i = j

\* In a stream of whole chunks every integer has its four bytes.
LEMMA IntactFramed ==
    ASSUME NEW s \in Streams, Intact(s),
           \A i \in DOMAIN s : s[i].kind = "int" /\ s[i].num = TypeBitmap =>
              /\ i + 2 \in DOMAIN s /\ s[i + 1].kind = "int" /\ s[i + 1].num = BitmapLen
              /\ s[i + 2].kind = "bitmap" /\ s[i + 2].end = s[i + 1].end + BitmapLen
    PROVE  Spaced(s) /\ Framed(s)
  <1>1. \A i \in DOMAIN s : s[i].kind = "int" => s[i].end = Start(s, i) + 4
    BY DEF Intact, Size, Start
  <1> QED
    BY <1>1 DEF Framed, Intact

\* The packets that the server sends are such, with one answer in them at most, which is that of the
\* report they are made for.
LEMMA AnswerPackets ==
    /\ \A n \in Int : Packet(<< >> \oplus ByteChunk(n)) /\ Answers(<< >> \oplus ByteChunk(n)) = {}
    /\ Packet(HeartbeatAck) /\ Answers(HeartbeatAck) = {}
    /\ \A r \in Nat, status \in SrvState : LET p == Response(r, status) IN
          Packet(p) /\ \A i \in Answers(p) : p[i].kind = "text" /\ p[i].id = r /\ p[i].tag = status
    /\ \A r \in Nat : LET p == Bitmap(r) IN
          Packet(p) /\ \A i \in Answers(p) : p[i].kind = "bitmap" /\ p[i].id = r
  <1>1. ASSUME NEW n \in Int
        PROVE  Packet(<< >> \oplus ByteChunk(n)) /\ Answers(<< >> \oplus ByteChunk(n)) = {}
    <2>1. Sized(ByteChunk(n)) /\ ByteChunk(n).kind = "byte"
      <3>1. ByteChunk(n).kind = "byte"
        BY DEF ByteChunk, Chunk
      <3> QED
        BY <3>1, SentSizes, Zenon
    <2>2. PICK p : p = << >> \oplus ByteChunk(n)
      OBVIOUS
    <2>3. p \in Streams /\ Intact(p) /\ Len(p) = 1 /\ p[1].kind = "byte"
      BY <2>1, <2>2, OneChunk, Zenon DEF Same
    <2>4. DOMAIN p = 1 .. 1 /\ \A i \in 1 .. 1 : i = 1
      BY <2>3 DEF Streams
    <2>5. Spaced(p) /\ Framed(p) /\ Answers(p) = {}
      BY <2>3, <2>4, IntactFramed DEF Answers
    <2> QED
      BY <2>2, <2>3, <2>5 DEF Packet
  <1>2. Packet(HeartbeatAck) /\ Answers(HeartbeatAck) = {}
    <2>1. /\ Sized(IntChunk(4)) /\ Sized(IntChunk(TypeHeartbeat))
          /\ \A n : IntChunk(n).kind = "int" /\ IntChunk(n).num = n
      <3>1. 4 \in Int /\ TypeHeartbeat \in Int
        BY DEF TypeHeartbeat
      <3>2. \A n : IntChunk(n).kind = "int" /\ IntChunk(n).num = n
        BY DEF IntChunk, Chunk
      <3> QED
        BY <3>1, <3>2, SentSizes, Zenon
    <2>2. PICK p : p = HeartbeatAck
      OBVIOUS
    <2>3. /\ p \in Streams /\ Intact(p) /\ Len(p) = 2 /\ p[1].kind = "int" /\ p[2].kind = "int"
          /\ p[1].num = 4 /\ p[2].num = TypeHeartbeat
      <3>1. /\ p \in Streams /\ Intact(p) /\ Len(p) = 2
            /\ Same(p[1], IntChunk(4)) /\ Same(p[2], IntChunk(TypeHeartbeat))
        BY <2>1, <2>2, TwoChunks, Zenon DEF HeartbeatAck
      <3> QED
        BY <2>1, <3>1, Zenon DEF Same
    <2>4. DOMAIN p = 1 .. 2 /\ \A i \in 1 .. 2 : i = 1 \/ i = 2
      BY <2>3 DEF Streams
    <2>5. Spaced(p) /\ Framed(p) /\ Answers(p) = {}
      BY <2>3, <2>4, IntactFramed DEF Answers, TypeHeartbeat, TypeBitmap
    <2> QED
      BY <2>2, <2>3, <2>5 DEF Packet
  <1>3. ASSUME NEW r \in Nat, NEW status \in SrvState
        PROVE  LET p == Response(r, status) IN
                 Packet(p) /\ \A i \in Answers(p) : p[i].kind = "text" /\ p[i].id = r /\ p[i].tag = status
    <2>1. PICK p : p = Response(r, status)
      OBVIOUS
    <2>2. /\ p \in Streams /\ Intact(p) /\ Len(p) = 2 /\ p[1].kind = "int" /\ p[1].num = TextLen
          /\ p[2].kind = "text" /\ p[2].id = r /\ p[2].tag = status
      <3>1. /\ p \in Streams /\ Intact(p) /\ Len(p) = 2
            /\ Same(p[1], IntChunk(TextLen)) /\ Same(p[2], TextChunk(r, status))
        BY <2>1, ResponsePacket, Zenon
      <3>2. /\ IntChunk(TextLen).kind = "int" /\ IntChunk(TextLen).num = TextLen
            /\ TextChunk(r, status).kind = "text" /\ TextChunk(r, status).id = r
            /\ TextChunk(r, status).tag = status
        BY DEF IntChunk, TextChunk, Chunk
      <3> QED
        BY <3>1, <3>2, Zenon DEF Same
    <2>3. DOMAIN p = 1 .. 2 /\ \A i \in 1 .. 2 : i = 1 \/ i = 2
      BY <2>2 DEF Streams
    <2>4. TextLen # TypeBitmap
      BY Lengths DEF TypeBitmap
    <2>5. Spaced(p) /\ Framed(p)
      BY <2>2, <2>3, <2>4, IntactFramed
    <2>6. \A i \in Answers(p) : i = 2
      BY <2>2, <2>3 DEF Answers
    <2>7. Packet(p)
      BY <2>2, <2>5, <2>6 DEF Packet
    <2> QED
      BY <2>1, <2>2, <2>6, <2>7
  <1>4. ASSUME NEW r \in Nat
        PROVE  LET p == Bitmap(r) IN
                 Packet(p) /\ \A i \in Answers(p) : p[i].kind = "bitmap" /\ p[i].id = r
    <2>1. PICK p : p = Bitmap(r)
      OBVIOUS
    <2>2. /\ p \in Streams /\ Intact(p) /\ Len(p) = 3 /\ p[1].kind = "int"
          /\ p[2].kind = "int" /\ p[2].num = BitmapLen
          /\ p[3].kind = "bitmap" /\ p[3].id = r /\ p[1].end = 4 /\ p[3].end = 8 + BitmapLen
      BY <2>1, BitmapPacket DEF Same, IntChunk, BitmapChunk, Chunk
    <2>3. DOMAIN p = 1 .. 3 /\ \A i \in 1 .. 3 : i = 1 \/ i = 2 \/ i = 3
      BY <2>2 DEF Streams
    <2>4. BitmapLen # TypeBitmap /\ BitmapLen \in Int
      BY Lengths DEF TypeBitmap
    <2>5. p[2].end = 8
      BY <2>2, <2>3 DEF Intact, Size
    <2>6. Spaced(p) /\ Framed(p)
      <3>1. 1 + 2 = 3 /\ 1 + 1 = 2 /\ p[3].end = p[2].end + BitmapLen
        BY <2>2, <2>4, <2>5
      <3> QED
        BY <2>2, <2>3, <2>4, <3>1, IntactFramed
    <2>7. \A i \in Answers(p) : i = 3
      BY <2>2, <2>3 DEF Answers
    <2>8. Packet(p)
      BY <2>2, <2>6, <2>7 DEF Packet
    <2> QED
      BY <2>1, <2>2, <2>7, <2>8
  <1> QED
    BY <1>1, <1>2, <1>3, <1>4, Zenon

LEMMA ResponseAnswer ==
    ASSUME NEW r \in Nat, NEW severity, NEW p, p = Response(r, Assess(severity))
    PROVE  Packet(p) /\ \A i \in Answers(p) : /\ p[i].kind = "text" /\ p[i].id = r /\ p[i].id > 0
                                            /\ p[i].tag = Assess(severity)
  <1>1. Assess(severity) \in SrvState
    BY DEF Assess, SrvState
  <1>2. Packet(p) /\ \A i \in Answers(p) : /\ p[i].kind = "text" /\ p[i].id = r
                                          /\ p[i].tag = Assess(severity)
    BY <1>1, AnswerPackets
  <1> QED
    BY <1>2 DEF Answers

LEMMA BitmapAnswer ==
    ASSUME NEW r \in Nat, NEW p, p = Bitmap(r)
    PROVE  Packet(p) /\ \A i \in Answers(p) : p[i].kind = "bitmap" /\ p[i].id = r /\ p[i].id > 0
  <1>1. Packet(p) /\ \A i \in Answers(p) : p[i].kind = "bitmap" /\ p[i].id = r
    BY AnswerPackets
  <1> QED
    BY <1>1 DEF Answers

\* A packet sent leaves the integers of the stream with their bytes, and its answers behind the
\* others.
LEMMA SentFramed ==
    ASSUME NEW s \in Streams, Framed(s), NEW p \in Streams, Framed(p), NEW t, t = Sent(s, p)
    PROVE  /\ Framed(t) /\ Len(s) \in Nat /\ Answers(s) \subseteq 1 .. Len(s)
           /\ \A i \in Answers(t) :
                 \/ i \in Answers(s) /\ t[i] = s[i]
                 \/ \E m \in Answers(p) : i = Len(s) + m /\ m >= 1 /\ Same(t[i], p[m])
  <1>1. /\ t \in Streams /\ Len(t) = Len(s) + Len(p)
        /\ \A i \in 1 .. Len(s) : t[i] = s[i]
        /\ \A i \in 1 .. Len(p) : /\ t[Len(s) + i].end = Unread(s) + p[i].end
                                  /\ Same(t[Len(s) + i], p[i])
    BY SentChunks DEF Same
  <1>2. /\ Len(s) \in Nat /\ Len(p) \in Nat /\ DOMAIN s = 1 .. Len(s)
        /\ DOMAIN p = 1 .. Len(p) /\ DOMAIN t = 1 .. Len(t)
        /\ \A i \in 1 .. Len(p) : p[i].end \in Int
        /\ Unread(s) \in Int
    BY <1>1, SpacedFacts, UnreadType
  <1>3. ASSUME NEW i \in 1 .. Len(s), s[i].kind = "int"
        PROVE  /\ t[i].end = Start(t, i) + 4
               /\ t[i].num = TypeBitmap =>
                     /\ i + 2 \in DOMAIN t /\ t[i + 1].kind = "int" /\ t[i + 1].num = BitmapLen
                     /\ t[i + 2].kind = "bitmap" /\ t[i + 2].end = t[i + 1].end + BitmapLen
    <2>1. t[i] = s[i] /\ Start(t, i) = Start(s, i)
      <3>1. i # 1 => i - 1 \in 1 .. Len(s)
        BY <1>2
      <3> QED
        BY <1>1, <3>1 DEF Start
    <2>2. t[i].num = TypeBitmap => i + 2 \in 1 .. Len(s) /\ i + 1 \in 1 .. Len(s)
      <3>1. s[i].num = TypeBitmap => i + 2 \in 1 .. Len(s)
        BY <1>2, <1>3 DEF Framed
      <3> QED
        BY <1>2, <2>1, <3>1
    <2>3. t[i].num = TypeBitmap => i + 2 \in DOMAIN t /\ t[i + 1] = s[i + 1] /\ t[i + 2] = s[i + 2]
      BY <1>1, <1>2, <2>2
    <2> QED
      BY <1>2, <1>3, <2>1, <2>3 DEF Framed
  <1>4. ASSUME NEW m \in 1 .. Len(p), p[m].kind = "int", NEW i, i = Len(s) + m
        PROVE  /\ t[i].end = Start(t, i) + 4
               /\ t[i].num = TypeBitmap =>
                     /\ i + 2 \in DOMAIN t /\ t[i + 1].kind = "int" /\ t[i + 1].num = BitmapLen
                     /\ t[i + 2].kind = "bitmap" /\ t[i + 2].end = t[i + 1].end + BitmapLen
    <2>1. t[i].end = Unread(s) + p[m].end /\ t[i].num = p[m].num
      BY <1>1, <1>4 DEF Same
    <2>2. Start(t, i) = Unread(s) + Start(p, m)
      <3>1. CASE m = 1 /\ s = << >>
        <4>1. i = 1 /\ Unread(s) = 0
          BY <1>2, <1>4, <3>1 DEF Unread
        <4> QED
          BY <3>1, <4>1 DEF Start
      <3>2. CASE m = 1 /\ s # << >>
        <4>1. i # 1 /\ i - 1 = Len(s) /\ Len(s) \in 1 .. Len(s)
          BY <1>2, <1>4, <3>2
        <4>2. t[i - 1].end = Unread(s)
          BY <1>1, <3>2, <4>1 DEF Unread
        <4> QED
          BY <1>2, <3>2, <4>1, <4>2 DEF Start
      <3>3. CASE m # 1
        <4>1. m - 1 \in 1 .. Len(p) /\ i - 1 = Len(s) + (m - 1) /\ i # 1
          BY <1>2, <1>4, <3>3
        <4> QED
          BY <1>1, <3>3, <4>1 DEF Start
      <3> QED
        BY <3>1, <3>2, <3>3
    <2>3. t[i].end = Start(t, i) + 4
      <3>1. p[m].end = Start(p, m) + 4
        BY <1>2, <1>4 DEF Framed
      <3>2. Start(p, m) \in Int
        <4>1. m # 1 => m - 1 \in 1 .. Len(p)
          BY <1>2
        <4> QED
          BY <1>2, <4>1 DEF Start
      <3> QED
        BY <1>2, <2>1, <2>2, <3>1, <3>2
    <2>4. ASSUME t[i].num = TypeBitmap
          PROVE  /\ i + 2 \in DOMAIN t /\ t[i + 1].kind = "int" /\ t[i + 1].num = BitmapLen
                 /\ t[i + 2].kind = "bitmap" /\ t[i + 2].end = t[i + 1].end + BitmapLen
      <3>1. /\ m + 2 \in 1 .. Len(p) /\ p[m + 1].kind = "int" /\ p[m + 1].num = BitmapLen
            /\ p[m + 2].kind = "bitmap" /\ p[m + 2].end = p[m + 1].end + BitmapLen
        BY <1>2, <1>4, <2>1, <2>4 DEF Framed
      <3>2. /\ m + 1 \in 1 .. Len(p) /\ i + 1 = Len(s) + (m + 1) /\ i + 2 = Len(s) + (m + 2)
            /\ i + 2 \in DOMAIN t
        BY <1>1, <1>2, <1>4, <3>1
      <3>3. /\ Same(t[i + 1], p[m + 1]) /\ Same(t[i + 2], p[m + 2])
            /\ t[i + 1].end = Unread(s) + p[m + 1].end /\ t[i + 2].end = Unread(s) + p[m + 2].end
        BY <1>1, <3>1, <3>2
      <3>4. p[m + 1].end \in Int /\ BitmapLen \in Int
        BY <1>2, <3>2, Lengths
      <3> QED
        BY <1>2, <3>1, <3>2, <3>3, <3>4 DEF Same
    <2> QED
      BY <2>3, <2>4
  <1>5. ASSUME NEW i \in 1 .. Len(t), i \notin 1 .. Len(s)
        PROVE  \E m \in 1 .. Len(p) : i = Len(s) + m /\ Same(t[i], p[m])
    <2>1. i - Len(s) \in 1 .. Len(p) /\ i = Len(s) + (i - Len(s))
      BY <1>1, <1>2, <1>5
    <2> QED
      BY <1>1, <2>1
  <1>6. Framed(t)
    <2> SUFFICES ASSUME NEW i \in 1 .. Len(t), t[i].kind = "int"
                 PROVE  /\ t[i].end = Start(t, i) + 4
                        /\ t[i].num = TypeBitmap =>
                              /\ i + 2 \in DOMAIN t /\ t[i + 1].kind = "int" /\ t[i + 1].num = BitmapLen
                              /\ t[i + 2].kind = "bitmap" /\ t[i + 2].end = t[i + 1].end + BitmapLen
      BY <1>2 DEF Framed
    <2>1. CASE i \in 1 .. Len(s)
      <3>1. s[i].kind = "int"
        BY <1>1, <2>1
      <3> QED
        BY <1>3, <2>1, <3>1
    <2>2. CASE i \notin 1 .. Len(s)
      <3>1. PICK m \in 1 .. Len(p) : i = Len(s) + m /\ Same(t[i], p[m])
        BY <1>5, <2>2
      <3>2. p[m].kind = "int"
        BY <3>1 DEF Same
      <3> QED
        BY <1>4, <3>1, <3>2
    <2> QED
      BY <2>1, <2>2
  <1>7. ASSUME NEW i \in Answers(t)
        PROVE  \/ i \in Answers(s) /\ t[i] = s[i]
               \/ \E m \in Answers(p) : i = Len(s) + m /\ m >= 1 /\ Same(t[i], p[m])
    <2>1. i \in 1 .. Len(t) /\ t[i].kind \in {"text", "bitmap"} /\ t[i].id > 0
      BY <1>2 DEF Answers
    <2>2. CASE i \in 1 .. Len(s)
      BY <1>1, <1>2, <2>1, <2>2 DEF Answers
    <2>3. CASE i \notin 1 .. Len(s)
      <3>1. PICK m \in 1 .. Len(p) : i = Len(s) + m /\ Same(t[i], p[m])
        BY <1>5, <2>1, <2>3
      <3>2. m \in Answers(p) /\ m >= 1
        BY <1>2, <2>1, <3>1 DEF Answers, Same
      <3> QED
        BY <3>1, <3>2
    <2> QED
      BY <2>2, <2>3
  <1> QED
    BY <1>2, <1>6, <1>7 DEF Answers

\* What a read leaves of them, and that the chunk it stops before has all its bytes.
LEMMA ReadAnswers ==
    ASSUME NEW s \in Streams, Spaced(s), NEW n \in Nat, NEW t, t = AfterRead(s, n),
           NEW k, k = Whole(s, n)
    PROVE  /\ t \in Streams /\ Spaced(t) /\ k \in 0 .. Len(s) /\ Len(s) \in Nat
           /\ \A i \in Answers(t) : i >= 1 /\ k + i \in Answers(s) /\ Same(t[i], s[k + i])
           /\ Framed(s) => Framed(t)
           /\ s # << >> /\ s[1].end = n =>
                 /\ k = 1 /\ Len(t) = Len(s) - 1
                 /\ \A i \in 1 .. Len(s) - 1 : Same(t[i], s[i + 1]) /\ t[i].end = s[i + 1].end - n
  <1>a. Increasing(s) /\ n \in Int
    BY SpacedIncreasing
  <1>1. Left(s, t, k, n) /\ t \in Streams /\ Spaced(t)
    BY <1>a, ReadLeaves, AfterReadType, ReadSpaced
  <1>2. /\ k \in 0 .. Len(s) /\ Len(t) = Len(s) - k
        /\ \A i \in 1 .. k : s[i].end <= n
        /\ \A i \in k + 1 .. Len(s) : s[i].end > n
        /\ \A i \in 1 .. Len(t) :
              /\ t[i].end = s[k + i].end - n
              /\ i > 1 \/ ~ Cuts(s, n) => t[i] = [s[k + i] EXCEPT !.end = @ - n]
              /\ i = 1 /\ Cuts(s, n) => t[i].kind = RestOf(s[k + i].kind)
    BY <1>1, Zenon DEF Left
  <1>3. /\ Len(s) \in Nat /\ Len(t) \in Nat /\ DOMAIN s = 1 .. Len(s) /\ DOMAIN t = 1 .. Len(t)
        /\ \A i \in 1 .. Len(s) : s[i] \in Chunks /\ s[i].end \in Int
    BY <1>1, SpacedFacts DEF Streams
  <1>4. ASSUME NEW i \in 1 .. Len(t), t[i].kind \in {"int", "text", "bitmap"} \/ i > 1
        PROVE  k + i \in 1 .. Len(s) /\ Same(t[i], s[k + i]) /\ (i > 1 \/ ~ Cuts(s, n))
    <2>1. k + i \in 1 .. Len(s)
      BY <1>2, <1>3
    <2>2. i > 1 \/ ~ Cuts(s, n)
      <3>1. CASE i = 1 /\ Cuts(s, n)
        BY <1>2, <1>4, <3>1 DEF RestOf
      <3>2. i = 1 \/ i > 1
        OBVIOUS
      <3> QED
        BY <3>1, <3>2
    <2>3. t[i] = [s[k + i] EXCEPT !.end = @ - n] /\ s[k + i] \in Chunks
      BY <1>2, <1>3, <2>1, <2>2
    <2> QED
      BY <2>1, <2>2, <2>3 DEF Same, Chunks
  <1>5. \A i \in Answers(t) : i >= 1 /\ k + i \in Answers(s) /\ Same(t[i], s[k + i])
    <2> SUFFICES ASSUME NEW i \in Answers(t)
                 PROVE  i >= 1 /\ k + i \in Answers(s) /\ Same(t[i], s[k + i])
      OBVIOUS
    <2>1. i \in 1 .. Len(t) /\ t[i].kind \in {"text", "bitmap"} /\ t[i].id > 0
      BY <1>3 DEF Answers
    <2>2. k + i \in 1 .. Len(s) /\ Same(t[i], s[k + i])
      BY <1>4, <2>1
    <2> QED
      BY <1>3, <2>1, <2>2 DEF Answers, Same
  \* A chunk left whole begins where the read stopped, or behind the one before it.
  <1>6. ASSUME NEW i \in 1 .. Len(t), i > 1 \/ ~ Cuts(s, n) PROVE Start(t, i) = Start(s, k + i) - n
    <2>1. CASE i > 1
      <3>1. i - 1 \in 1 .. Len(t) /\ k + i # 1 /\ (k + i) - 1 = k + (i - 1) /\ i # 1
        BY <1>2, <1>3, <2>1
      <3>2. t[i - 1].end = s[k + (i - 1)].end - n
        BY <1>2, <3>1
      <3> QED
        BY <3>1, <3>2 DEF Start
    <2>2. CASE i = 1 /\ ~ Cuts(s, n)
      <3>1. k + 1 \in 1 .. Len(s) /\ s # << >> /\ Unread(s) = s[Len(s)].end /\ Len(s) \in 1 .. Len(s)
        BY <1>2, <1>3, <2>2 DEF Unread
      <3>2. s[k + 1].end > n /\ n < Unread(s)
        <4>1. s[k + 1].end > n /\ s[Len(s)].end > n
          BY <1>2, <1>3, <3>1
        <4> QED
          BY <1>3, <3>1, <4>1
      <3>3. n = 0 \/ \E j \in 1 .. Len(s) : s[j].end = n
        BY <1>3, <2>2, <3>2 DEF Cuts
      <3>4. CASE \E j \in 1 .. Len(s) : s[j].end = n
        <4>1. PICK j \in 1 .. Len(s) : s[j].end = n
          BY <3>4
        <4>2. j \in 1 .. k
          BY <1>2, <1>3, <4>1
        <4>3. j = k
          <5>1. j < k => s[j].end < s[k].end /\ s[k].end <= n /\ s[k].end \in Int
            BY <1>2, <1>3, <1>a, <4>2 DEF Increasing
          <5> QED
            BY <1>2, <1>3, <4>1, <4>2, <5>1
        <4>4. k + 1 # 1 /\ (k + 1) - 1 = k
          BY <1>2, <1>3, <4>2
        <4> QED
          BY <2>2, <4>1, <4>3, <4>4 DEF Start
      <3>5. CASE n = 0 /\ ~ \E j \in 1 .. Len(s) : s[j].end = n
        <4>1. k = 0
          <5>1. k # 0 => k \in 1 .. k /\ k \in 1 .. Len(s)
            BY <1>2, <1>3
          <5>2. k # 0 => s[k].end <= 0 /\ s[k].end >= Least(s, k) /\ s[k].end \in Int
            BY <1>2, <1>3, <3>5, <5>1, SpacedFacts
          <5> QED
            BY <5>2 DEF Least
        <4> QED
          BY <2>2, <3>5, <4>1 DEF Start
      <3> QED
        BY <3>3, <3>4, <3>5
    <2> QED
      BY <1>6, <2>1, <2>2
  <1>7. ASSUME Framed(s) PROVE Framed(t)
    <2> SUFFICES ASSUME NEW i \in 1 .. Len(t), t[i].kind = "int"
                 PROVE  /\ t[i].end = Start(t, i) + 4
                        /\ t[i].num = TypeBitmap =>
                              /\ i + 2 \in DOMAIN t /\ t[i + 1].kind = "int" /\ t[i + 1].num = BitmapLen
                              /\ t[i + 2].kind = "bitmap" /\ t[i + 2].end = t[i + 1].end + BitmapLen
      BY <1>3 DEF Framed
    <2>1. k + i \in 1 .. Len(s) /\ Same(t[i], s[k + i]) /\ (i > 1 \/ ~ Cuts(s, n))
      BY <1>4
    <2>2. /\ s[k + i].end = Start(s, k + i) + 4
          /\ s[k + i].num = TypeBitmap =>
                /\ (k + i) + 2 \in 1 .. Len(s) /\ s[(k + i) + 1].kind = "int"
                /\ s[(k + i) + 1].num = BitmapLen /\ s[(k + i) + 2].kind = "bitmap"
                /\ s[(k + i) + 2].end = s[(k + i) + 1].end + BitmapLen
      BY <1>3, <1>7, <2>1 DEF Framed, Same
    <2>3. t[i].end = Start(t, i) + 4
      <3>1. t[i].end = s[k + i].end - n /\ Start(t, i) = Start(s, k + i) - n
        BY <1>2, <1>6, <2>1
      <3>2. Start(s, k + i) \in Int
        <4>1. k + i # 1 => (k + i) - 1 \in 1 .. Len(s)
          BY <1>2, <1>3, <2>1
        <4> QED
          BY <1>3, <4>1 DEF Start
      <3> QED
        BY <2>2, <3>1, <3>2
    <2>4. ASSUME t[i].num = TypeBitmap
          PROVE  /\ i + 2 \in DOMAIN t /\ t[i + 1].kind = "int" /\ t[i + 1].num = BitmapLen
                 /\ t[i + 2].kind = "bitmap" /\ t[i + 2].end = t[i + 1].end + BitmapLen
      <3>1. s[k + i].num = TypeBitmap
        BY <2>1, <2>4 DEF Same
      <3>2. /\ i + 2 \in 1 .. Len(t) /\ i + 1 \in 1 .. Len(t) /\ i + 1 > 1 /\ i + 2 > 1
            /\ k + (i + 1) = (k + i) + 1 /\ k + (i + 2) = (k + i) + 2
        <4>1. k \in Int /\ i \in Int /\ i >= 1 /\ Len(t) = Len(s) - k /\ Len(s) \in Nat
          BY <1>2, <1>3
        <4>2. (k + i) + 2 \in 1 .. Len(s)
          BY <2>2, <3>1
        <4> QED
          BY <4>1, <4>2
      <3>3. /\ Same(t[i + 1], s[(k + i) + 1]) /\ t[i + 1].end = s[(k + i) + 1].end - n
            /\ Same(t[i + 2], s[(k + i) + 2]) /\ t[i + 2].end = s[(k + i) + 2].end - n
            /\ (k + i) + 1 \in 1 .. Len(s)
        BY <1>2, <1>4, <3>2
      <3>4. s[(k + i) + 1].end \in Int /\ BitmapLen \in Int
        BY <1>3, <3>3, Lengths
      <3> QED
        BY <1>3, <2>2, <3>1, <3>2, <3>3, <3>4 DEF Same
    <2> QED
      BY <2>3, <2>4
  <1>8. ASSUME s # << >>, s[1].end = n
        PROVE  /\ k = 1 /\ Len(t) = Len(s) - 1
               /\ \A i \in 1 .. Len(s) - 1 : Same(t[i], s[i + 1]) /\ t[i].end = s[i + 1].end - n
    <2>1. 1 \in 1 .. Len(s) /\ ~ Cuts(s, n)
      BY <1>3, <1>8 DEF Cuts
    <2>2. k = 1
      <3>1. k # 0
        BY <1>2, <1>3, <1>8, <2>1
      <3>2. ~ (k >= 2)
        <4> SUFFICES ASSUME k >= 2 PROVE FALSE
          OBVIOUS
        <4>1. 2 \in 1 .. k /\ 2 \in DOMAIN s /\ 1 \in DOMAIN s
          BY <1>2, <1>3
        <4>2. s[1].end < s[2].end /\ s[2].end <= n
          BY <1>2, <1>a, <4>1 DEF Increasing
        <4> QED
          BY <1>3, <1>8, <4>1, <4>2
      <3> QED
        BY <1>2, <3>1, <3>2
    <2>3. ASSUME NEW i \in 1 .. Len(s) - 1 PROVE Same(t[i], s[i + 1]) /\ t[i].end = s[i + 1].end - n
      <3>1. i \in 1 .. Len(t) /\ k + i = i + 1 /\ i + 1 \in 1 .. Len(s)
        BY <1>2, <1>3, <2>2
      <3>2. t[i] = [s[i + 1] EXCEPT !.end = @ - n] /\ s[i + 1] \in Chunks /\ t[i].end = s[i + 1].end - n
        BY <1>2, <1>3, <2>1, <3>1
      <3> QED
        BY <3>2 DEF Same, Chunks
    <2> QED
      BY <1>2, <2>2, <2>3
  <1> QED
    BY <1>1, <1>2, <1>3, <1>5, <1>7, <1>8

-----------------------------------------------------------------------
(* What becomes of the answers on their way.                                                       *)

LEMMA AnswerPlaces ==
    ASSUME NEW s \in Streams
    PROVE  \A i \in Answers(s) :
              i \in Nat /\ s[i] \in Chunks /\ s[i].id \in Nat /\ s[i].id > 0 /\ Place(s[i]) \in Nat
  <1> SUFFICES ASSUME NEW i \in Answers(s)
               PROVE  i \in Nat /\ s[i] \in Chunks /\ s[i].id \in Nat /\ s[i].id > 0 /\ Place(s[i]) \in Nat
    OBVIOUS
  <1>1. i \in Nat /\ s[i] \in Chunks /\ s[i].id > 0
    BY DEF Answers, Streams
  <1>2. s[i].id \in Nat
    BY <1>1 DEF Chunks
  <1> QED
    BY <1>1, <1>2 DEF Place

\* Where nothing is sent, the answers on their way stay in order if none is forgotten ...
LEMMA AnswersStay ==
    ASSUME AnswerStream, UNCHANGED s2c, OutForm', \A c : Known(c) => Known(c)',
           \A q \in Nat : Given(q) => Given(q)', s2c \in Streams
    PROVE  AnswerStream' /\ \A q \in Nat : Met(q) => Met(q)'
  <1>1. Coming'
    <2> SUFFICES ASSUME NEW i \in Answers(s2c)
                 PROVE  /\ Known(s2c[i])' /\ Given(Place(s2c[i]))'
                        /\ \A j \in Answers(s2c) : i < j => Place(s2c[i]) < Place(s2c[j])
      BY DEF Coming, Answers, Place
    <2>1. PICK q \in Nat : q = Place(s2c[i])
      BY AnswerPlaces
    <2>2. PICK c : c = s2c[i]
      OBVIOUS
    <2>3. Known(c) /\ Given(q)
      BY <2>1, <2>2 DEF AnswerStream, Coming
    <2>4. Known(c)' /\ Given(q)'
      BY <2>3
    <2> QED
      BY <2>1, <2>2, <2>4 DEF AnswerStream, Coming, Known, Given, Place
  <1>2. Spaced(s2c)' /\ Framed(s2c)'
    BY Zenon DEF AnswerStream, Spaced, Framed, ReportChunks, Start
  <1>3. \A q \in Nat : Met(q) => Met(q)'
    BY DEF Met
  <1> QED
    BY <1>1, <1>2, <1>3 DEF AnswerStream

\* ... and if a packet is sent whose answer is behind them all.
LEMMA AnswersSent ==
    ASSUME s2c \in Streams, AnswerStream, NEW p, Packet(p), ServerSend(p), UNCHANGED ledger, OutForm',
           \A i \in Answers(p) : Known(p[i]),
           \A q \in Nat : Given(q) => Given(q)' /\ \A i \in Answers(p) : q < Place(p[i]),
           \A q \in Nat : (\E i \in Answers(p) : q = Place(p[i])) => Given(q)'
    PROVE  AnswerStream' /\ \A q \in Nat : Met(q) => Met(q)'
  <1>1. CASE s2c' = s2c
    <2>1. \A c : Known(c) => Known(c)'
      BY DEF Known
    <2> QED
      BY <1>1, <2>1, AnswersStay
  <1>2. CASE s2c' = Sent(s2c, p)
    <2>1. p \in Streams /\ Spaced(p) /\ Framed(p) /\ (\A i, j \in Answers(p) : i = j)
      BY DEF Packet
    <2>2. PICK s \in Streams : s = s2c
      OBVIOUS
    <2>3. PICK t : t = Sent(s, p)
      OBVIOUS
    <2>4. t = s2c'
      BY <1>2, <2>2, <2>3
    <2>5. Spaced(s) /\ Framed(s)
      BY <2>2 DEF AnswerStream
    <2>6. /\ Framed(t) /\ Len(s) \in Nat /\ Answers(s) \subseteq 1 .. Len(s)
          /\ \A i \in Answers(t) :
                \/ i \in Answers(s) /\ t[i] = s[i]
                \/ \E m \in Answers(p) : i = Len(s) + m /\ m >= 1 /\ Same(t[i], p[m])
      BY <2>1, <2>3, <2>5, SentFramed
    <2>7. Spaced(t) /\ t \in Streams
      BY <2>1, <2>3, <2>5, SentSpaced, SentType
    <2>8. \A i \in Answers(s) : /\ Known(s[i]) /\ Place(s[i]) \in Nat /\ Given(Place(s[i]))
                                /\ \A j \in Answers(s) : i < j => Place(s[i]) < Place(s[j])
      BY <2>2, AnswerPlaces DEF AnswerStream, Coming
    <2>9. \A m \in Answers(p) : m \in Nat /\ Place(p[m]) \in Nat /\ p[m].kind \in {"text", "bitmap"}
      BY <2>1, AnswerPlaces DEF Answers
    <2>10. \A i, m : Same(t[i], p[m]) => Place(t[i]) = Place(p[m])
      BY DEF Same, Place
    <2>11. ASSUME NEW i \in Answers(t)
           PROVE  /\ Known(t[i])' /\ Place(t[i]) \in Nat /\ Given(Place(t[i]))'
                  /\ \A j \in Answers(t) : i < j => Place(t[i]) < Place(t[j])
      <3>1. CASE i \in Answers(s) /\ t[i] = s[i]
        <4>1. PICK q \in Nat : q = Place(s[i])
          BY <2>8, <3>1
        <4>2. Given(q)'
          BY <2>8, <3>1, <4>1
        <4>3. Known(s[i])'
          BY <2>8, <3>1 DEF Known
        <4>4. ASSUME NEW j \in Answers(t), i < j PROVE Place(t[i]) < Place(t[j])
          <5>1. CASE j \in Answers(s) /\ t[j] = s[j]
            BY <2>8, <3>1, <4>4, <5>1
          <5>2. CASE \E m \in Answers(p) : j = Len(s) + m /\ m >= 1 /\ Same(t[j], p[m])
            <6>1. PICK m \in Answers(p) : Same(t[j], p[m])
              BY <5>2
            <6>2. q < Place(p[m])
              BY <2>8, <3>1, <4>1, <6>1
            <6> QED
              BY <2>10, <3>1, <4>1, <6>1, <6>2
          <5> QED
            BY <2>6, <5>1, <5>2
        <4> QED
          BY <2>2, <3>1, <4>1, <4>2, <4>3, <4>4 DEF Given, Known
      <3>2. CASE \E m \in Answers(p) : i = Len(s) + m /\ m >= 1 /\ Same(t[i], p[m])
        <4>1. PICK m \in Answers(p) : i = Len(s) + m /\ m >= 1 /\ Same(t[i], p[m])
          BY <3>2
        <4>2. PICK q \in Nat : q = Place(p[m])
          BY <2>9
        <4>3. Given(q)' /\ Place(t[i]) = q
          BY <2>10, <4>1, <4>2
        <4>4. Known(p[m])
          OBVIOUS
        <4>5. Known(t[i])'
          BY <4>1, <4>4 DEF Known, Same
        <4>6. ASSUME NEW j \in Answers(t), i < j PROVE FALSE
          <5>1. CASE j \in Answers(s)
            BY <2>6, <2>9, <4>1, <4>6, <5>1
          <5>2. CASE \E k \in Answers(p) : j = Len(s) + k
            BY <2>1, <2>6, <2>9, <4>1, <4>6, <5>2
          <5> QED
            BY <2>6, <5>1, <5>2
        <4> QED
          BY <4>3, <4>5, <4>6 DEF Given
      <3> QED
        BY <2>6, <3>1, <3>2
    <2>12. Coming'
      BY <2>4, <2>11 DEF Coming, Answers, Place, Known, Given
    <2>13. Spaced(s2c)' /\ Framed(s2c)'
      BY <2>4, <2>6, <2>7, Zenon DEF Spaced, Framed, ReportChunks, Start
    <2>14. ASSUME NEW q \in Nat, Met(q) PROVE Met(q)'
      <3>1. Given(q) /\ \A i \in Answers(s) : q < Place(s[i])
        BY <2>2, <2>14 DEF Met
      <3>2. Given(q)' /\ \A i \in Answers(p) : q < Place(p[i])
        BY <3>1
      <3>3. \A i \in Answers(t) : q < Place(t[i])
        BY <2>6, <2>10, <3>1, <3>2
      <3> QED
        BY <2>4, <3>2, <3>3 DEF Met, Answers, Place
    <2> QED
      BY <2>12, <2>13, <2>14 DEF AnswerStream
  <1> QED
    BY <1>1, <1>2 DEF ServerSend

\* A read takes answers from the front, and may keep bytes of the next one from being an answer ...
LEMMA AnswersRead ==
    ASSUME s2c \in Streams, AnswerStream, UNCHANGED <<out, ledger>>, NEW n \in Nat, s2c' = AfterRead(s2c, n)
    PROVE  AnswerStream' /\ \A q \in Nat : Met(q) => Met(q)'
  <1>1. PICK s \in Streams : s = s2c
    OBVIOUS
  <1>2. PICK t : t = AfterRead(s, n)
    OBVIOUS
  <1>3. PICK k : k = Whole(s, n)
    OBVIOUS
  <1>4. Spaced(s) /\ Framed(s) /\ t = s2c'
    BY <1>1, <1>2 DEF AnswerStream
  <1>5. /\ t \in Streams /\ Spaced(t) /\ k \in 0 .. Len(s) /\ Len(s) \in Nat /\ Framed(t)
        /\ \A i \in Answers(t) : i >= 1 /\ k + i \in Answers(s) /\ Same(t[i], s[k + i])
    BY <1>2, <1>3, <1>4, ReadAnswers
  <1>6. \A i \in Answers(s) : /\ Known(s[i]) /\ Place(s[i]) \in Nat /\ Given(Place(s[i]))
                              /\ \A j \in Answers(s) : i < j => Place(s[i]) < Place(s[j])
    BY <1>1, AnswerPlaces DEF AnswerStream, Coming
  <1>7. \A i \in Answers(t) : i \in Nat /\ Place(t[i]) = Place(s[k + i])
    <2>1. \A i \in Answers(t) : i \in Nat
      BY <1>5, AnswerPlaces
    <2> QED
      BY <1>5, <2>1 DEF Same, Place
  <1>8. Coming'
    <2>1. ASSUME NEW i \in Answers(t)
          PROVE  /\ Known(t[i])' /\ Given(Place(t[i]))'
                 /\ \A j \in Answers(t) : i < j => Place(t[i]) < Place(t[j])
      <3>1. k + i \in Answers(s) /\ Same(t[i], s[k + i]) /\ i \in Nat /\ k \in Nat
        BY <1>5, <1>7
      <3>2. Known(t[i])'
        BY <1>6, <3>1 DEF Known, Same
      <3>3. Given(Place(t[i]))'
        <4>1. Place(t[i]) = Place(s[k + i])
          BY <1>7
        <4> QED
          BY <1>6, <3>1, <4>1 DEF Given
      <3>4. \A j \in Answers(t) : i < j => Place(t[i]) < Place(t[j])
        <4> SUFFICES ASSUME NEW j \in Answers(t), i < j PROVE Place(t[i]) < Place(t[j])
          OBVIOUS
        <4>1. k + i < k + j /\ k + j \in Answers(s)
          BY <1>5, <1>7, <3>1
        <4> QED
          BY <1>6, <1>7, <3>1, <4>1
      <3> QED
        BY <3>2, <3>3, <3>4
    <2> QED
      BY <1>4, <2>1 DEF Coming, Answers, Place, Known, Given
  <1>9. Spaced(s2c)' /\ Framed(s2c)'
    BY <1>4, <1>5, Zenon DEF Spaced, Framed, ReportChunks, Start
  <1>10. OutForm'
    BY DEF AnswerStream, OutForm
  <1>11. ASSUME NEW q \in Nat, Met(q) PROVE Met(q)'
    <2>1. \A i \in Answers(t) : q < Place(t[i])
      BY <1>1, <1>5, <1>7, <1>11 DEF Met
    <2> QED
      BY <1>4, <1>11, <2>1 DEF Met, Given, Answers, Place
  <1> QED
    BY <1>8, <1>9, <1>10, <1>11 DEF AnswerStream

\* ... and the client has met one that it reads whole.
LEMMA AnswerMet ==
    ASSUME s2c \in Streams, AnswerStream, UNCHANGED <<out, ledger>>, 1 \in Answers(s2c),
           s2c' = AfterRead(s2c, s2c[1].end), NEW q \in Nat, q = Place(s2c[1])
    PROVE  /\ Known(s2c[1]) /\ Met(q)' /\ \A r \in Nat : Met(r) => r < q
  <1>1. PICK s \in Streams : s = s2c
    OBVIOUS
  <1>2. PICK n : n = s[1].end
    OBVIOUS
  <1>3. PICK t : t = AfterRead(s, n)
    OBVIOUS
  <1>4. PICK k : k = Whole(s, n)
    OBVIOUS
  <1>5. Spaced(s) /\ t = s2c' /\ s # << >> /\ 1 \in DOMAIN s
    BY <1>1, <1>2, <1>3 DEF AnswerStream, Answers
  <1>6. n \in Nat
    <2>1. n \in Int /\ n >= Least(s, 1)
      BY <1>2, <1>5, SpacedFacts
    <2> QED
      BY <2>1 DEF Least
  <1>7. k = 1 /\ \A i \in Answers(t) : i >= 1 /\ k + i \in Answers(s) /\ Same(t[i], s[k + i])
    BY <1>2, <1>3, <1>4, <1>5, <1>6, ReadAnswers
  <1>8. /\ Known(s[1]) /\ Given(q)
        /\ \A j \in Answers(s) : 1 < j => Place(s[1]) < Place(s[j])
    BY <1>1 DEF AnswerStream, Coming
  <1>9. \A i \in Answers(t) : q < Place(t[i])
    <2> SUFFICES ASSUME NEW i \in Answers(t) PROVE q < Place(t[i])
      OBVIOUS
    <2>1. i \in Nat
      <3>1. t \in Streams
        BY <1>3, <1>6, AfterReadType
      <3> QED
        BY <3>1, AnswerPlaces
    <2>2. 1 < 1 + i /\ 1 + i \in Answers(s) /\ Same(t[i], s[1 + i])
      BY <1>7, <2>1
    <2> QED
      BY <1>1, <1>8, <2>2 DEF Same, Place
  <1>10. Met(q)'
    BY <1>5, <1>8, <1>9 DEF Met, Given, Answers, Place
  <1> QED
    BY <1>1, <1>8, <1>10 DEF Met

-----------------------------------------------------------------------
(* Steps of the server.                                                                            *)

\* The answer to a report is behind those to the reports recorded before it.
LEMMA RecordedAnswer ==
    ASSUME TypeOK, TypeOK', RunwayStateAgrees', RecordedInOrder', AnswerStream, SrvRecordReport
    PROVE  OutForm' /\ (\A c : Known(c) => Known(c)') /\ \A q \in Nat : Given(q) => Given(q)'
  <1>1. PICK e : /\ e.id = hdr.id /\ e.severity = hdr.severity
                 /\ ledger' = Append(ledger, e)
    BY DEF SrvRecordReport
  <1>2. /\ ledger \in Seq(Records) /\ ledger' \in Seq(Records) /\ hdr.id \in Nat
        /\ Len(ledger) \in Nat
    BY DEF TypeOK, SrvTypes, Headers
  <1>3. /\ DOMAIN ledger = 1 .. Len(ledger) /\ DOMAIN ledger' = 1 .. Len(ledger) + 1
        /\ Len(ledger') = Len(ledger) + 1 /\ ledger' # << >> /\ ledger'[Len(ledger) + 1] = e
        /\ \A j \in 1 .. Len(ledger) : ledger'[j] = ledger[j]
    BY <1>1, <1>2
  <1>4. out' = <<Response(e.id, Assess(e.severity)), Bitmap(e.id)>>
    <2>1. out' = <<Response(hdr.id, ss'), Bitmap(hdr.id)>> /\ phase' = "send"
      BY Zenon DEF SrvRecordReport
    <2>2. ss' = Assess(e.severity)
      BY <1>3, <2>1 DEF RunwayStateAgrees
    <2> QED
      BY <1>1, <2>1, <2>2, Zenon
  <1>5. OutForm'
    BY <1>3, <1>4 DEF OutForm
  <1>6. \A c : Known(c) => Known(c)'
    BY <1>3 DEF Known
  <1>7. ASSUME NEW q \in Nat, Given(q) PROVE Given(q)'
    <2>1. PICK j \in 1 .. Len(ledger) : q <= 2 * ledger[j].id + 1
      BY <1>3, <1>7 DEF Given
    <2>2. ledger[j].id \in Nat /\ e.id \in Nat
      <3>1. ledger[j] \in Records
        BY <1>2, <2>1
      <3> QED
        BY <1>1, <1>2, <3>1 DEF Records
    <2>3. e.id > 0 => q < 2 * e.id
      <3>1. j < Len(ledger) + 1 /\ j \in DOMAIN ledger' /\ Len(ledger) + 1 \in DOMAIN ledger'
        BY <1>2, <1>3
      <3>2. e.id > 0 => ledger[j].id < e.id
        BY <1>3, <3>1 DEF RecordedInOrder
      <3> QED
        BY <2>1, <2>2, <3>2
    <2>4. \A i \in Answers(Response(e.id, Assess(e.severity))) :
             q < Place(Response(e.id, Assess(e.severity))[i])
      <3>1. PICK p : p = Response(e.id, Assess(e.severity))
        OBVIOUS
      <3>2. \A i \in Answers(p) : p[i].kind = "text" /\ p[i].id = e.id /\ p[i].id > 0
        BY <2>2, <3>1, ResponseAnswer
      <3> QED
        BY <2>3, <3>1, <3>2 DEF Place
    <2>5. \A i \in Answers(Bitmap(e.id)) : q < Place(Bitmap(e.id)[i])
      <3>1. PICK p : p = Bitmap(e.id)
        OBVIOUS
      <3>2. \A i \in Answers(p) : p[i].kind = "bitmap" /\ p[i].id = e.id /\ p[i].id > 0
        BY <2>2, <3>1, BitmapAnswer
      <3> QED
        BY <2>2, <2>3, <3>1, <3>2 DEF Place
    <2>6. \A k \in DOMAIN out' : \A i \in Answers(out'[k]) : q < Place(out'[k][i])
      <3>1. PICK a : a = Response(e.id, Assess(e.severity))
        OBVIOUS
      <3>2. PICK b : b = Bitmap(e.id)
        OBVIOUS
      <3>3. out' = <<a, b>>
        BY <1>4, <3>1, <3>2
      <3>4. \A k \in DOMAIN out' : out'[k] = a \/ out'[k] = b
        BY <3>3
      <3> QED
        BY <2>4, <2>5, <3>1, <3>2, <3>4
    <2>7. \E m \in DOMAIN ledger' : q <= 2 * ledger'[m].id + 1
      BY <1>2, <1>3, <2>1
    <2> QED
      BY <2>6, <2>7 DEF Given
  <1> QED
    BY <1>5, <1>6, <1>7

\* A part of an answer is sent behind the answers that have been sent.
LEMMA AnswerLeaves ==
    ASSUME TypeOK, AnswerStream, SrvSendAnswer
    PROVE  AnswerStream' /\ \A q \in Nat : Met(q) => Met(q)'
  <1>1. PICK p : p = Head(out)
    OBVIOUS
  <1>2. ServerSend(p) /\ out # << >> /\ out' = Tail(out) /\ ledger' = ledger
    BY <1>1 DEF SrvSendAnswer
  <1>3. /\ out \in Seq(Streams) /\ p = out[1] /\ 1 \in DOMAIN out
        /\ \A k \in DOMAIN out' : k + 1 \in DOMAIN out /\ out'[k] = out[k + 1]
    BY <1>1, <1>2 DEF TypeOK, SrvTypes
  <1>4. \A q \in Nat : Given(q) => Given(q)' /\ \A i \in Answers(p) : q < Place(p[i])
    BY <1>2, <1>3 DEF Given
  <1>5. PICK e : ledger # << >> => e = ledger[Len(ledger)]
    OBVIOUS
  <1>6. \/ out = <<HeartbeatAck>>
        \/ /\ ledger # << >> /\ e = ledger[Len(ledger)]
           /\ out \in {<<Response(e.id, Assess(e.severity)), Bitmap(e.id)>>, <<Bitmap(e.id)>>}
    BY <1>2, <1>5 DEF AnswerStream, OutForm
  <1>7. ledger # << >> => e.id \in Nat /\ Len(ledger) \in DOMAIN ledger
    <2>1. ledger \in Seq(Records)
      BY DEF TypeOK, SrvTypes
    <2>2. ledger # << >> => Len(ledger) \in DOMAIN ledger /\ ledger[Len(ledger)] \in Records
      BY <2>1
    <2> QED
      BY <1>5, <2>2 DEF Records
  <1>8. CASE out = <<HeartbeatAck>>
    <2>1. p = HeartbeatAck /\ out' = << >>
      BY <1>2, <1>3, <1>8
    <2>2. Packet(p) /\ Answers(p) = {}
      BY <2>1, AnswerPackets, Zenon
    <2>3. OutForm'
      BY <2>1 DEF OutForm
    <2> QED
      BY <1>2, <1>4, <2>2, <2>3, AnswersSent DEF TypeOK, TcpTypes
  <1>9. CASE /\ ledger # << >> /\ e = ledger[Len(ledger)]
             /\ out = <<Response(e.id, Assess(e.severity)), Bitmap(e.id)>>
    <2>1. PICK b : b = Bitmap(e.id)
      OBVIOUS
    <2>a. e.id \in Nat
      BY <1>7, <1>9
    <2>2. p = Response(e.id, Assess(e.severity)) /\ out' = <<b>>
      BY <1>2, <1>3, <1>9, <2>1
    <2>3. Packet(p) /\ \A i \in Answers(p) : /\ p[i].kind = "text" /\ p[i].id = e.id
                                             /\ p[i].tag = Assess(e.severity)
      BY <2>a, <2>2, ResponseAnswer
    <2>4. \A i \in Answers(b) : b[i].kind = "bitmap" /\ b[i].id = e.id
      BY <2>a, <2>1, BitmapAnswer
    <2>5. OutForm'
      BY <1>2, <1>9, <2>1, <2>2 DEF OutForm
    <2>6. \A i \in Answers(p) : Known(p[i])
      BY <1>7, <1>9, <2>3 DEF Known
    <2>7. ASSUME NEW q \in Nat, \E i \in Answers(p) : q = Place(p[i]) PROVE Given(q)'
      <3>1. q = 2 * e.id
        BY <2>3, <2>7 DEF Place
      <3>2. \A i \in Answers(b) : q < Place(b[i])
        BY <1>7, <1>9, <2>4, <3>1 DEF Place
      <3>3. \A k \in DOMAIN out' : out'[k] = b
        BY <2>2
      <3> QED
        BY <1>2, <1>7, <1>9, <3>1, <3>2, <3>3 DEF Given
    <2> QED
      BY <1>2, <1>4, <2>3, <2>5, <2>6, <2>7, AnswersSent DEF TypeOK, TcpTypes
  <1>10. CASE /\ ledger # << >> /\ e = ledger[Len(ledger)] /\ out = <<Bitmap(e.id)>>
    <2>1. p = Bitmap(e.id) /\ out' = << >>
      BY <1>2, <1>3, <1>10
    <2>a. e.id \in Nat
      BY <1>7, <1>10
    <2>2. Packet(p) /\ \A i \in Answers(p) : p[i].kind = "bitmap" /\ p[i].id = e.id
      BY <2>a, <2>1, BitmapAnswer
    <2>3. OutForm'
      BY <2>1 DEF OutForm
    <2>4. \A i \in Answers(p) : Known(p[i])
      BY <1>7, <1>10, <2>2 DEF Known
    <2>5. ASSUME NEW q \in Nat, \E i \in Answers(p) : q = Place(p[i]) PROVE Given(q)'
      <3>1. q = 2 * e.id + 1
        BY <2>2, <2>5 DEF Place
      <3> QED
        BY <1>2, <1>7, <1>10, <2>1, <3>1 DEF Given
    <2> QED
      BY <1>2, <1>4, <2>2, <2>3, <2>4, <2>5, AnswersSent DEF TypeOK, TcpTypes
  <1> QED
    BY <1>6, <1>8, <1>9, <1>10

\* What the server sends is behind the bitmap that the client has begun to fetch.
LEMMA FetchedStays ==
    ASSUME s2c \in Streams, Fetched, UNCHANGED cliVars,
           s2c' = s2c \/ \E p \in Streams : s2c' = Sent(s2c, p)
    PROVE  Fetched'
  <1>1. UNCHANGED <<main, need>>
    BY DEF cliVars
  <1>2. CASE s2c' = s2c
    BY <1>1, <1>2 DEF Fetched
  <1>3. CASE \E p \in Streams : s2c' = Sent(s2c, p)
    <2>1. PICK p \in Streams : s2c' = Sent(s2c, p)
      BY <1>3
    <2>2. /\ s2c' \in Streams /\ Len(s2c') = Len(s2c) + Len(p)
          /\ \A i \in 1 .. Len(s2c) : s2c'[i] = s2c[i]
      BY <2>1, SentChunks
    <2>3. /\ Len(s2c) \in Nat /\ Len(p) \in Nat
          /\ DOMAIN s2c = 1 .. Len(s2c) /\ DOMAIN s2c' = 1 .. Len(s2c')
      BY <2>2, SpacedFacts
    <2>4. \A i \in DOMAIN s2c : i \in DOMAIN s2c' /\ s2c'[i] = s2c[i]
      BY <2>2, <2>3
    <2>5. 2 \in DOMAIN s2c => 1 \in DOMAIN s2c
      BY <2>3
    <2> QED
      BY <1>1, <2>4, <2>5 DEF Fetched
  <1> QED
    BY <1>2, <1>3

LEMMA ServerAnswers ==
    ASSUME TypeOK, TypeOK', RunwayStateAgrees', RecordedInOrder', AnswerStream, SrvNext
    PROVE  /\ AnswerStream' /\ \A q \in Nat : Met(q) => Met(q)'
           /\ s2c' = s2c \/ \E p \in Streams : s2c' = Sent(s2c, p)
           /\ UNCHANGED ledger \/ \E e \in Records : ledger' = Append(ledger, e)
  <1>a. s2c \in Streams /\ out \in Seq(Streams)
    BY DEF TypeOK, TcpTypes, SrvTypes
  <1>b. ASSUME UNCHANGED ledger
        PROVE  (\A c : Known(c) => Known(c)') /\ (ledger # << >> <=> ledger' # << >>)
    BY <1>b DEF Known
  <1>1. CASE SrvAcceptLogin \/ SrvRejectLogin
    <2>1. PICK n \in {0, 1} : ServerSend(<< >> \oplus ByteChunk(n))
      BY <1>1, Zenon DEF SrvAcceptLogin, SrvRejectLogin
    <2>2. UNCHANGED <<out, ledger>>
      BY <1>1 DEF SrvAcceptLogin, SrvRejectLogin, Abandon
    <2>3. PICK p : p = << >> \oplus ByteChunk(n)
      OBVIOUS
    <2>4. Packet(p) /\ Answers(p) = {} /\ ServerSend(p)
      <3>1. n \in Int
        OBVIOUS
      <3> QED
        BY <2>1, <2>3, <3>1, AnswerPackets, Zenon
    <2>5. OutForm' /\ \A q \in Nat : Given(q) => Given(q)'
      BY <2>2 DEF AnswerStream, OutForm, Given
    <2>6. AnswerStream' /\ \A q \in Nat : Met(q) => Met(q)'
      BY <1>a, <2>2, <2>4, <2>5, AnswersSent
    <2> QED
      BY <2>2, <2>4, <2>6 DEF ServerSend, Packet
  <1>2. CASE SrvRecvHeartbeat
    <2>1. out' = <<HeartbeatAck>> /\ UNCHANGED <<s2c, ledger>>
      BY <1>2 DEF SrvRecvHeartbeat
    <2>2. Answers(HeartbeatAck) = {}
      BY AnswerPackets, Zenon
    <2>3. OutForm' /\ \A q \in Nat : Given(q) => Given(q)'
      <3>1. \A k \in DOMAIN out' : out'[k] = HeartbeatAck
        BY <2>1
      <3> QED
        BY <2>1, <2>2, <3>1 DEF OutForm, Given
    <2> QED
      BY <1>a, <1>b, <2>1, <2>3, AnswersStay
  <1>3. CASE SrvRecordReport
    <2>1. UNCHANGED s2c /\ \E e \in Records : ledger' = Append(ledger, e)
      <3>1. UNCHANGED s2c
        BY <1>3 DEF SrvRecordReport
      <3>2. PICK e : ledger' = Append(ledger, e)
        BY <1>3 DEF SrvRecordReport
      <3>3. ledger \in Seq(Records) /\ ledger' \in Seq(Records)
        BY DEF TypeOK, SrvTypes
      <3>4. e = ledger'[Len(ledger) + 1] /\ Len(ledger) + 1 \in DOMAIN ledger'
        BY <3>2, <3>3
      <3>5. e \in Records
        BY <3>3, <3>4
      <3> QED
        BY <3>1, <3>2, <3>5
    <2> QED
      BY <1>3, <1>a, <2>1, RecordedAnswer, AnswersStay
  <1>4. CASE SrvSendAnswer
    <2>1. Head(out) \in Streams /\ (s2c' = s2c \/ s2c' = Sent(s2c, Head(out))) /\ UNCHANGED ledger
      BY <1>4, <1>a DEF SrvSendAnswer, ServerSend
    <2> QED
      BY <1>4, <2>1, AnswerLeaves
  <1>5. CASE SrvSendFails
    <2>1. out' = << >> /\ UNCHANGED <<s2c, ledger>>
      BY <1>5 DEF SrvSendFails, tcpVars
    <2>2. OutForm' /\ \A q \in Nat : Given(q) => Given(q)'
      BY <2>1 DEF OutForm, Given
    <2> QED
      BY <1>a, <1>b, <2>1, <2>2, AnswersStay
  <1>6. CASE \/ SrvLoginFails \/ SrvSelect \/ SrvSelectFails \/ SrvRecvLength \/ SrvRecvFails
             \/ SrvRecvMalformed \/ SrvRecvHeader \/ SrvRecvBadDescription \/ SrvSendDone \/ SrvClose
    <2>1. UNCHANGED <<s2c, out, ledger>>
      BY <1>6 DEF SrvLoginFails, SrvSelect, SrvSelectFails, SrvRecvLength, SrvRecvFails,
         SrvRecvMalformed, SrvRecvHeader, SrvRecvBadDescription, SrvSendDone, SrvClose, ServerClose,
         Abandon, Disconnect, tcpVars
    <2>2. OutForm' /\ \A q \in Nat : Given(q) => Given(q)'
      BY <2>1 DEF AnswerStream, OutForm, Given
    <2> QED
      BY <1>a, <1>b, <2>1, <2>2, AnswersStay
  <1> QED
    BY <1>1, <1>2, <1>3, <1>4, <1>5, <1>6 DEF SrvNext

-----------------------------------------------------------------------
(* Steps of the client.                                                                            *)

\* The client only ever reads of the answers, or closes its socket on them.
LEMMA ClientReadsOnly ==
    ASSUME TypeOK, CliNext
    PROVE  s2c' = s2c \/ s2c' = << >> \/ \E n \in Nat : s2c' = AfterRead(s2c, n)
  <1>a. need \in Nat /\ Partials \subseteq Nat
    BY ClientAssumption DEF TypeOK, CliTypes
  <1>1. CASE CliRecvReply \/ CliRecvLength \/ CliRecvBitmapType \/ CliRecvBitmapSize
    <2>1. s2c' = AfterRead(s2c, 1) \/ s2c' = AfterRead(s2c, 4)
      BY <1>1, Zenon DEF CliRecvReply, CliRecvLength, CliRecvBitmapType, CliRecvBitmapSize, ClientReads
    <2> QED
      BY <2>1
  <1>2. CASE CliRecvResponse \/ CliRecvBitmap
    <2>1. s2c' = AfterRead(s2c, need)
      BY <1>2, Zenon DEF CliRecvResponse, CliRecvBitmap, ClientReads
    <2> QED
      BY <1>a, <2>1
  <1>3. CASE CliBitmapFails
    BY <1>3, <1>a DEF CliBitmapFails
  <1>4. CASE CliExit
    BY <1>4 DEF CliExit, ClientClose
  <1>5. CASE \/ CliLogin \/ CliLoginFails \/ CliChooseReport \/ CliChooseExit \/ CliFillForm
             \/ CliSendFails \/ CliRecvFails \/ Heartbeat
    BY <1>5 DEF CliLogin, CliLoginFails, CliChooseReport, CliChooseExit, CliFillForm, CliSendFails,
       CliRecvFails, Heartbeat, HbWake, HbSendLen, HbSendType, HbSend, HbSendFails, HbStop, tcpVars
  <1>6. CASE CliSendHeaderLen \/ CliSendHeader \/ CliSendDescLen \/ CliSendDesc
    BY <1>6, Zenon DEF CliSendHeaderLen, CliSendHeader, CliSendDescLen, CliSendDesc, SendStep
  <1> QED
    BY <1>1, <1>2, <1>3, <1>4, <1>5, <1>6 DEF CliNext, Working

\* Reading keeps the answers that are left, with everything that is behind what has been read.
LEMMA ClientKeepsAnswers ==
    ASSUME TypeOK, AnswerStream, CliNext, UNCHANGED <<out, ledger>>
    PROVE  AnswerStream' /\ \A q \in Nat : Met(q) => Met(q)'
  <1>a. s2c \in Streams
    BY DEF TypeOK, TcpTypes
  <1>1. CASE s2c' = s2c
    <2>1. OutForm' /\ (\A c : Known(c) => Known(c)') /\ \A q \in Nat : Given(q) => Given(q)'
      BY DEF AnswerStream, OutForm, Known, Given
    <2> QED
      BY <1>1, <1>a, <2>1, AnswersStay
  <1>2. CASE s2c' = << >>
    <2>1. Answers(s2c') = {} /\ Framed(s2c') /\ Spaced(s2c')
      BY <1>2 DEF Answers, Framed, Spaced
    <2>2. Framed(s2c)' /\ Spaced(s2c)'
      BY <2>1, Zenon DEF Framed, Spaced, ReportChunks, Start
    <2>3. OutForm' /\ \A q \in Nat : Given(q) => Given(q)'
      BY DEF AnswerStream, OutForm, Given
    <2>4. Coming'
      BY <2>1 DEF Coming, Answers
    <2>5. \A q \in Nat : Met(q) => Met(q)'
      BY <2>1, <2>3 DEF Met, Answers
    <2> QED
      BY <2>2, <2>3, <2>4, <2>5 DEF AnswerStream
  <1>3. CASE \E n \in Nat : s2c' = AfterRead(s2c, n)
    BY <1>3, <1>a, AnswersRead
  <1> QED
    BY <1>1, <1>2, <1>3, ClientReadsOnly

\* Only the type that sendBitmap sends is taken for a bitmap's.
LEMMA BitmapAnnounced ==
    ASSUME NEW s \in Streams, s # << >>, TypeBitmap \in FrontInts(s)
    PROVE  s[1].kind = "int" /\ s[1].num = TypeBitmap /\ FrontInts(s) = {TypeBitmap}
  <1>1. Head(s) = s[1]
    BY DEF Streams
  <1>2. CASE s[1].kind = "int"
    BY <1>1, <1>2 DEF FrontInts
  <1>3. CASE s[1].kind # "int"
    <2>1. FrontInts(s) \in {{TypeReport}, {BitmapWord}, {PixelWord}, {TextWord}, MisreadInts}
      BY <1>1, <1>3 DEF FrontInts
    <2> QED
      BY <2>1, MisreadAssumption, SMT DEF TypeReport, BitmapWord, PixelWord, TextWord, TypeBitmap
  <1> QED
    BY <1>2, <1>3

\* A bitmap that the client fetches is the one whose type it has read.
LEMMA ClientFetches ==
    ASSUME TypeOK, AnswerStream, Fetched, CliNext
    PROVE  Fetched'
  <1>1. PICK s \in Streams : s = s2c
    BY DEF TypeOK, TcpTypes
  <1>a. Spaced(s) /\ Framed(s) /\ 4 \in Nat /\ BitmapLen \in Nat /\ BitmapLen > 0 /\ BitmapLen <= MaxBitmap
    BY <1>1, Lengths DEF AnswerStream
  <1>b. DOMAIN s = 1 .. Len(s) /\ Len(s) \in Nat /\ \A i \in 1 .. Len(s) : s[i].end \in Int
    BY SpacedFacts
  <1>2. PICK t : t = AfterRead(s, 4)
    OBVIOUS
  <1>3. s # << >> /\ s[1].end = 4 =>
           /\ Len(t) = Len(s) - 1 /\ t \in Streams
           /\ \A i \in 1 .. Len(s) - 1 : Same(t[i], s[i + 1]) /\ t[i].end = s[i + 1].end - 4
    BY <1>2, <1>a, ReadAnswers
  <1>4. CASE CliRecvBitmapType
    <2>1. /\ s # << >> /\ s2c' = t
          /\ (main' = "bmpSize" /\ TypeBitmap \in FrontInts(s)) \/ main' \in {"menu", "join"}
      BY <1>1, <1>2, <1>4 DEF CliRecvBitmapType, ClientReads, BackToMenu, Loop
    <2>2. CASE main' = "bmpSize" /\ TypeBitmap \in FrontInts(s)
      <3>1. s[1].kind = "int" /\ s[1].num = TypeBitmap /\ 1 \in DOMAIN s
        BY <1>b, <2>1, <2>2, BitmapAnnounced
      <3>2. /\ s[1].end = 4 /\ 3 \in DOMAIN s /\ s[2].kind = "int" /\ s[2].num = BitmapLen
            /\ s[3].kind = "bitmap" /\ s[3].end = s[2].end + BitmapLen
        <4>1. /\ s[1].end = Start(s, 1) + 4 /\ 1 + 2 \in DOMAIN s /\ s[1 + 1].kind = "int"
              /\ s[1 + 1].num = BitmapLen /\ s[1 + 2].kind = "bitmap"
              /\ s[1 + 2].end = s[1 + 1].end + BitmapLen
          BY <1>a, <3>1 DEF Framed
        <4> QED
          BY <4>1 DEF Start
      <3>3. s[2].end = 8
        <4>1. 2 \in DOMAIN s /\ s[2].end = Start(s, 2) + 4
          BY <1>a, <1>b, <3>2 DEF Framed
        <4> QED
          BY <3>2, <4>1 DEF Start
      <3>4. /\ Same(t[1], s[2]) /\ t[1].end = s[2].end - 4 /\ Same(t[2], s[3])
            /\ t[2].end = s[3].end - 4 /\ 2 \in DOMAIN t
        <4>1. 1 \in 1 .. Len(s) - 1 /\ 2 \in 1 .. Len(s) - 1 /\ s # << >> /\ 1 + 1 = 2 /\ 2 + 1 = 3
          BY <1>b, <3>2
        <4>2. Len(t) = Len(s) - 1 /\ DOMAIN t = 1 .. Len(t)
          BY <1>3, <3>2, <4>1 DEF Streams
        <4> QED
          BY <1>3, <3>2, <4>1, <4>2
      <3>5. /\ t[1].kind = "int" /\ t[1].num = BitmapLen /\ t[1].end = 4
            /\ t[2].kind = "bitmap" /\ t[2].end = 4 + BitmapLen
        BY <1>a, <3>2, <3>3, <3>4 DEF Same
      <3> QED
        BY <2>1, <2>2, <3>4, <3>5 DEF Fetched
    <2>3. CASE main' \in {"menu", "join"}
      BY <2>3 DEF Fetched
    <2> QED
      BY <2>1, <2>2, <2>3
  <1>5. CASE CliRecvBitmapSize
    <2>1. /\ s # << >> /\ s2c' = t /\ main = "bmpSize"
          /\ (main' = "bmpData" /\ need' \in FrontInts(s)) \/ main' \in {"menu", "join"}
      BY <1>1, <1>2, <1>5 DEF CliRecvBitmapSize, ClientReads, BackToMenu, Loop
    <2>2. CASE main' = "bmpData" /\ need' \in FrontInts(s)
      <3>1. /\ 2 \in DOMAIN s /\ s[1].kind = "int" /\ s[1].num = BitmapLen /\ s[1].end = 4
            /\ s[2].kind = "bitmap" /\ s[2].end = 4 + BitmapLen
        BY <1>1, <2>1 DEF Fetched
      <3>2. need' = BitmapLen
        <4>1. Head(s) = s[1]
          BY <2>1 DEF Streams
        <4> QED
          BY <2>2, <3>1, <4>1 DEF FrontInts
      <3>3. Same(t[1], s[2]) /\ t[1].end = s[2].end - 4 /\ 1 \in DOMAIN t
        <4>1. 1 \in 1 .. Len(s) - 1 /\ s # << >> /\ 1 + 1 = 2
          BY <1>b, <3>1
        <4>2. Len(t) = Len(s) - 1 /\ DOMAIN t = 1 .. Len(t)
          BY <1>3, <3>1, <4>1 DEF Streams
        <4> QED
          BY <1>3, <3>1, <4>1, <4>2
      <3>4. t[1].kind = "bitmap" /\ t[1].end = BitmapLen
        BY <1>a, <3>1, <3>3 DEF Same
      <3> QED
        BY <2>1, <2>2, <3>2, <3>3, <3>4 DEF Fetched
    <2>3. CASE main' \in {"menu", "join"}
      BY <2>3 DEF Fetched
    <2> QED
      BY <2>1, <2>2, <2>3
  <1>6. CASE Heartbeat
    <2>1. UNCHANGED <<main, need, s2c>>
      BY <1>6 DEF Heartbeat, HbWake, HbSendLen, HbSendType, HbSend, HbSendFails, HbStop, tcpVars
    <2> QED
      BY <2>1 DEF Fetched
  <1>7. CASE \/ CliLogin \/ CliLoginFails \/ CliChooseReport \/ CliChooseExit \/ CliFillForm
             \/ CliSendFails \/ CliRecvFails \/ CliRecvReply \/ CliRecvLength \/ CliRecvResponse
             \/ CliRecvBitmap \/ CliBitmapFails \/ CliExit
    <2>1. main' \notin {"bmpSize", "bmpData"}
      BY <1>7 DEF CliLogin, CliLoginFails, CliChooseReport, CliChooseExit, CliFillForm, CliSendFails,
         CliRecvFails, CliRecvReply, CliRecvLength, CliRecvResponse, CliRecvBitmap, CliBitmapFails,
         CliExit, Leave, BackToMenu, Loop
    <2> QED
      BY <2>1 DEF Fetched
  <1>8. CASE CliSendHeaderLen \/ CliSendHeader \/ CliSendDescLen \/ CliSendDesc
    <2>1. main' \notin {"bmpSize", "bmpData"}
      BY <1>8 DEF CliSendHeaderLen, CliSendHeader, CliSendDescLen, CliSendDesc, SendStep
    <2> QED
      BY <2>1 DEF Fetched
  <1> QED
    BY <1>4, <1>5, <1>6, <1>7, <1>8 DEF CliNext, Working

\* Where a response is taken for a whole confirmation, it is the answer at the front of the stream.
LEMMA ConfirmationRead ==
    ASSUME TypeOK, AnswerStream, CliRecvResponse, UNCHANGED <<out, ledger>>
    PROVE  \E d \in Displays :
              /\ shown' = Append(shown, d) /\ d.report = Current
              /\ Confirms(d) => /\ \E j \in DOMAIN ledger : /\ ledger[j].id = d.id
                                                            /\ d.status = Assess(ledger[j].severity)
                                /\ \E q \in Nat : /\ q = 2 * d.id /\ Met(q)'
                                                  /\ \A r \in Nat : Met(r) => r < q
  <1>1. /\ s2c # << >> /\ s2c' = AfterRead(s2c, need) /\ need \in Nat /\ s2c \in Streams
        /\ shown' = Append(shown, Displayed(Payload(s2c, need)))
    BY DEF CliRecvResponse, ClientReads, TypeOK, TcpTypes, CliTypes
  <1>2. PICK p : p = Payload(s2c, need)
    OBVIOUS
  <1>3. PICK d : d = Displayed(p)
    OBVIOUS
  <1>4. /\ d.report = Current /\ d.kind = p.kind /\ d.id = p.id /\ d.status = p.tag
        /\ d \in Displays
    <2>1. need \in Int /\ reports \in Seq(0 .. 5)
      BY <1>1 DEF TypeOK, CliTypes
    <2>2. p \in Chunks
      BY <1>1, <1>2, <2>1, PayloadType
    <2>3. Current \in Nat
      BY <2>1 DEF Current
    <2> QED
      BY <1>3, <2>2, <2>3 DEF Displayed, Displays, Chunks
  <1>5. ASSUME Confirms(d)
        PROVE  /\ \E j \in DOMAIN ledger : ledger[j].id = d.id /\ d.status = Assess(ledger[j].severity)
               /\ \E q \in Nat : /\ q = 2 * d.id /\ Met(q)' /\ \A r \in Nat : Met(r) => r < q
    <2>1. p.kind = "text" /\ p.id > 0
      BY <1>4, <1>5 DEF Confirms
    <2>2. p = s2c[1] /\ s2c[1].end = need /\ 1 \in DOMAIN s2c
      <3>1. Head(s2c) = s2c[1] /\ 1 \in DOMAIN s2c
        BY <1>1 DEF Streams
      <3> QED
        BY <1>2, <2>1, <3>1 DEF Payload, Chunk
    <2>3. 1 \in Answers(s2c)
      BY <2>1, <2>2 DEF Answers
    <2>4. PICK q \in Nat : q = Place(s2c[1])
      BY <1>1, <2>3, AnswerPlaces
    <2>5. Known(s2c[1]) /\ Met(q)' /\ \A r \in Nat : Met(r) => r < q
      BY <1>1, <2>2, <2>3, <2>4, AnswerMet
    <2>6. q = 2 * d.id
      BY <1>4, <2>1, <2>2, <2>4 DEF Place
    <2>7. \E j \in DOMAIN ledger : ledger[j].id = d.id /\ d.status = Assess(ledger[j].severity)
      BY <1>4, <2>1, <2>2, <2>5 DEF Known
    <2> QED
      BY <2>5, <2>6, <2>7
  <1> QED
    BY <1>1, <1>2, <1>3, <1>4, <1>5

\* A bitmap that is saved is the answer at the front of the stream.
LEMMA PictureRead ==
    ASSUME TypeOK, AnswerStream, Fetched, CliRecvBitmap, UNCHANGED <<out, ledger>>
    PROVE  \/ pics' = pics
           \/ \E e \in Pictures :
                 /\ pics' = Append(pics, e) /\ e.report = Current
                 /\ e.id > 0 => /\ \E j \in DOMAIN ledger : ledger[j].id = e.id
                                /\ \E q \in Nat : /\ q = 2 * e.id + 1 /\ Met(q)'
                                                  /\ \A r \in Nat : Met(r) => r < q
  <1>1. /\ s2c # << >> /\ s2c' = AfterRead(s2c, need) /\ s2c \in Streams /\ main = "bmpData"
        /\ \/ pics' = Append(pics, [report |-> Current, id |-> Payload(s2c, need).id])
           \/ pics' = pics
    BY DEF CliRecvBitmap, ClientReads, TypeOK, TcpTypes
  <1>2. 1 \in DOMAIN s2c /\ s2c[1].kind = "bitmap" /\ s2c[1].end = need
    BY <1>1 DEF Fetched
  <1>3. Payload(s2c, need) = s2c[1]
    <2>1. Head(s2c) = s2c[1]
      BY <1>1 DEF Streams
    <2> QED
      BY <1>2, <2>1 DEF Payload
  <1>4. PICK e : e = [report |-> Current, id |-> s2c[1].id]
    OBVIOUS
  <1>5. e \in Pictures /\ e.report = Current /\ e.id = s2c[1].id
    <2>1. s2c[1] \in Chunks /\ reports \in Seq(0 .. 5)
      BY <1>1, <1>2 DEF Streams, TypeOK, CliTypes
    <2>2. s2c[1].id \in Nat /\ Current \in Nat
      BY <2>1 DEF Chunks, Current
    <2> QED
      BY <1>4, <2>2 DEF Pictures
  <1>6. ASSUME e.id > 0
        PROVE  /\ \E j \in DOMAIN ledger : ledger[j].id = e.id
               /\ \E q \in Nat : /\ q = 2 * e.id + 1 /\ Met(q)' /\ \A r \in Nat : Met(r) => r < q
    <2>1. 1 \in Answers(s2c)
      BY <1>2, <1>5, <1>6 DEF Answers
    <2>2. PICK q \in Nat : q = Place(s2c[1])
      BY <1>1, <2>1, AnswerPlaces
    <2>3. Known(s2c[1]) /\ Met(q)' /\ \A r \in Nat : Met(r) => r < q
      BY <1>1, <1>2, <2>1, <2>2, AnswerMet
    <2>4. q = 2 * e.id + 1
      BY <1>2, <1>5, <2>2 DEF Place
    <2>5. \E j \in DOMAIN ledger : ledger[j].id = e.id
      BY <1>5, <2>3 DEF Known
    <2> QED
      BY <2>3, <2>4, <2>5
  <1> QED
    BY <1>1, <1>3, <1>4, <1>5, <1>6

-----------------------------------------------------------------------
(* The order of the answers that the client takes.                                                 *)

\* What AnswersInOrder says of a confirmation displayed after the first n, and of a bitmap saved.
Follows(d, n) ==
    Confirms(d) =>
        /\ d.id <= d.report /\ d.status = Assess(reports[d.id])
        /\ \E j \in DOMAIN ledger : ledger[j].id = d.id
        /\ \A k \in 1 .. n : Confirms(shown[k]) => shown[k].id < d.id

Pictured(p, n) ==
    p.id > 0 =>
        /\ p.id <= p.report /\ \E j \in DOMAIN ledger : ledger[j].id = p.id
        /\ \A k \in 1 .. n : pics[k].id < p.id

LEMMA OrderParts ==
    AnswersInOrder <=> /\ \A i \in DOMAIN shown : Follows(shown[i], i - 1)
                       /\ \A i \in DOMAIN pics : Pictured(pics[i], i - 1)
  BY Zenon DEF AnswersInOrder, Follows, Pictured

\* What has been displayed and saved stays in order when only reports are filed or recorded ...
LEMMA AnswersInOrderStays ==
    ASSUME TypeOK, LedgerFaithful, AnswersInOrder, UNCHANGED <<shown, pics>>,
           UNCHANGED reports \/ \E s \in 0 .. 5 : reports' = Append(reports, s),
           UNCHANGED ledger \/ \E e \in Records : ledger' = Append(ledger, e)
    PROVE  AnswersInOrder'
  <1>1. reports \in Seq(0 .. 5) /\ ledger \in Seq(Records) /\ shown \in Seq(Displays)
    BY DEF TypeOK, SrvTypes, CliTypes
  <1>2. \A r \in 1 .. Len(reports) : reports'[r] = reports[r]
    <2>1. CASE UNCHANGED reports
      BY <2>1
    <2>2. CASE \E s \in 0 .. 5 : reports' = Append(reports, s)
      BY <1>1, <2>2
    <2> QED
      BY <2>1, <2>2
  <1>3. \A j \in DOMAIN ledger : j \in DOMAIN ledger' /\ ledger'[j] = ledger[j]
    BY <1>1
  <1>4. ASSUME NEW i \in DOMAIN shown PROVE Follows(shown[i], i - 1)'
    <2> SUFFICES ASSUME Confirms(shown[i])
                 PROVE  /\ shown[i].id <= shown[i].report
                        /\ shown[i].status = Assess(reports'[shown[i].id])
                        /\ \E j \in DOMAIN ledger' : ledger'[j].id = shown[i].id
                        /\ \A k \in 1 .. i - 1 : Confirms(shown[k]) => shown[k].id < shown[i].id
      BY DEF Follows, Confirms
    <2>1. /\ shown[i].id <= shown[i].report
          /\ shown[i].status = Assess(reports[shown[i].id])
          /\ \E j \in DOMAIN ledger : ledger[j].id = shown[i].id
          /\ \A k \in 1 .. i - 1 : Confirms(shown[k]) => shown[k].id < shown[i].id
      BY OrderParts DEF Follows
    <2>2. shown[i].id \in 1 .. Len(reports)
      <3>1. PICK j \in DOMAIN ledger : ledger[j].id = shown[i].id
        BY <2>1
      <3>2. ledger[j].id > 0 => ledger[j].id <= Len(reports)
        BY DEF LedgerFaithful
      <3>3. shown[i].id > 0
        BY DEF Confirms
      <3>4. shown[i].id \in Nat /\ Len(reports) \in Nat
        <4>1. shown[i] \in Displays
          BY <1>1
        <4> QED
          BY <1>1, <4>1 DEF Displays
      <3> QED
        BY <3>1, <3>2, <3>3, <3>4
    <2> QED
      BY <1>2, <1>3, <2>1, <2>2
  <1>5. ASSUME NEW i \in DOMAIN pics PROVE Pictured(pics[i], i - 1)'
    <2>1. Pictured(pics[i], i - 1)
      BY OrderParts
    <2> QED
      BY <1>3, <2>1 DEF Pictured
  <1> QED
    BY <1>4, <1>5 DEF AnswersInOrder, Follows, Pictured, Confirms

\* ... and a confirmation is displayed behind the others, for a report that is not an earlier one.
LEMMA ConfirmationInOrder ==
    ASSUME TypeOK, ReportInHand, LedgerFaithful, AnswerInv, CliRecvResponse, UNCHANGED <<out, ledger>>,
           \A q \in Nat : Met(q) => Met(q)'
    PROVE  AnswersInOrder' /\ \A q \in Seen' : Met(q)'
  <1>1. PICK d \in Displays :
           /\ shown' = Append(shown, d) /\ d.report = Current
           /\ Confirms(d) => /\ \E j \in DOMAIN ledger : /\ ledger[j].id = d.id
                                                         /\ d.status = Assess(ledger[j].severity)
                             /\ \E q \in Nat : /\ q = 2 * d.id /\ Met(q)'
                                               /\ \A r \in Nat : Met(r) => r < q
    BY ConfirmationRead DEF AnswerInv
  <1>2. UNCHANGED <<reports, pics>>
    BY DEF CliRecvResponse
  <1>3. shown \in Seq(Displays) /\ d.id \in Nat /\ reports \in Seq(0 .. 5) /\ Current = Len(reports)
    BY DEF TypeOK, CliTypes, Displays, Current
  <1>4. /\ Len(shown) \in Nat /\ DOMAIN shown = 1 .. Len(shown) /\ DOMAIN shown' = 1 .. Len(shown) + 1
        /\ \A i \in 1 .. Len(shown) : shown'[i] = shown[i]
        /\ shown'[Len(shown) + 1] = d
    BY <1>1, <1>3
  <1>5. \A i \in DOMAIN shown' : i \in DOMAIN shown \/ i = Len(shown) + 1
    BY <1>4
  <1>6. \A i \in DOMAIN shown : Confirms(shown[i]) => shown[i].id \in Nat /\ 2 * shown[i].id \in Seen
    <2> SUFFICES ASSUME NEW i \in DOMAIN shown, Confirms(shown[i])
                 PROVE  shown[i].id \in Nat /\ 2 * shown[i].id \in Seen
      OBVIOUS
    <2>1. shown[i] \in Displays
      BY <1>3
    <2>2. shown[i].id \in Nat
      BY <2>1 DEF Displays
    <2>3. 2 * shown[i].id \in Nat
      BY <2>2
    <2> QED
      BY <2>2, <2>3 DEF Seen
  <1>7. Follows(d, Len(shown))
    <2> SUFFICES ASSUME Confirms(d)
                 PROVE  /\ d.id <= d.report /\ d.status = Assess(reports[d.id])
                        /\ \E j \in DOMAIN ledger : ledger[j].id = d.id
                        /\ \A k \in 1 .. Len(shown) : Confirms(shown[k]) => shown[k].id < d.id
      BY DEF Follows
    <2>1. d.id > 0
      BY DEF Confirms
    <2>2. PICK j \in DOMAIN ledger : ledger[j].id = d.id /\ d.status = Assess(ledger[j].severity)
      BY <1>1
    <2>3. ledger[j].id <= Len(reports) /\ ledger[j].severity = reports[ledger[j].id]
      BY <2>1, <2>2 DEF LedgerFaithful
    <2>4. PICK q \in Nat : q = 2 * d.id /\ \A r \in Nat : Met(r) => r < q
      BY <1>1
    <2>5. ASSUME NEW k \in 1 .. Len(shown), Confirms(shown[k]) PROVE shown[k].id < d.id
      <3>1. shown[k].id \in Nat /\ 2 * shown[k].id \in Seen
        BY <1>4, <1>6, <2>5
      <3>2. PICK r \in Nat : r = 2 * shown[k].id
        BY <3>1
      <3>3. Met(r)
        BY <3>1, <3>2 DEF AnswerInv
      <3>4. r < q
        BY <2>4, <3>3
      <3> QED
        BY <1>3, <2>4, <3>1, <3>2, <3>4
    <2> QED
      BY <1>1, <1>3, <2>2, <2>3, <2>5
  <1>8. AnswersInOrder'
    <2>1. \A i \in DOMAIN shown : Follows(shown[i], i - 1)
      BY OrderParts DEF AnswerInv
    <2>2. ASSUME NEW i \in DOMAIN shown'
          PROVE  Confirms(shown'[i]) =>
                    /\ shown'[i].id <= shown'[i].report /\ shown'[i].status = Assess(reports[shown'[i].id])
                    /\ \E j \in DOMAIN ledger : ledger[j].id = shown'[i].id
                    /\ \A k \in 1 .. i - 1 : Confirms(shown'[k]) => shown'[k].id < shown'[i].id
      <3>1. CASE i \in DOMAIN shown
        <4>1. \A k \in 1 .. i - 1 : shown'[k] = shown[k]
          BY <1>4, <3>1
        <4> QED
          BY <1>4, <2>1, <3>1, <4>1 DEF Follows
      <3>2. CASE i = Len(shown) + 1
        <4>1. shown'[i] = d /\ \A k \in 1 .. i - 1 : k \in 1 .. Len(shown) /\ shown'[k] = shown[k]
          BY <1>4, <3>2
        <4> QED
          BY <1>7, <4>1 DEF Follows
      <3> QED
        BY <1>5, <3>1, <3>2
    <2>3. \A i \in DOMAIN pics : Pictured(pics[i], i - 1)
      BY OrderParts DEF AnswerInv
    <2> QED
      BY <1>2, <2>2, <2>3 DEF AnswersInOrder, Pictured, Confirms
  <1>9. ASSUME NEW q \in Seen' PROVE Met(q)'
    <2>1. q \in Nat /\ (q \in Seen \/ (Confirms(d) /\ q = 2 * d.id))
      BY <1>2, <1>4, <1>5 DEF Seen, Confirms
    <2>2. CASE q \in Seen
      BY <2>1, <2>2 DEF AnswerInv
    <2>3. CASE Confirms(d) /\ q = 2 * d.id
      BY <1>1, <2>3
    <2> QED
      BY <2>1, <2>2, <2>3
  <1> QED
    BY <1>8, <1>9

\* A bitmap is saved likewise.
LEMMA PictureInOrder ==
    ASSUME TypeOK, LedgerFaithful, AnswerInv, CliRecvBitmap, UNCHANGED <<out, ledger, reports, shown>>,
           \A q \in Nat : Met(q) => Met(q)',
           NEW e \in Pictures, pics' = Append(pics, e), e.report = Current,
           e.id > 0 => /\ \E j \in DOMAIN ledger : ledger[j].id = e.id
                       /\ \E q \in Nat : q = 2 * e.id + 1 /\ Met(q)' /\ \A r \in Nat : Met(r) => r < q
    PROVE  AnswersInOrder' /\ \A q \in Seen' : Met(q)'
  <1>3. pics \in Seq(Pictures) /\ e.id \in Nat /\ reports \in Seq(0 .. 5) /\ Current = Len(reports)
    BY DEF TypeOK, CliTypes, Pictures, Current
  <1>4. /\ Len(pics) \in Nat /\ DOMAIN pics = 1 .. Len(pics) /\ DOMAIN pics' = 1 .. Len(pics) + 1
        /\ \A i \in 1 .. Len(pics) : pics'[i] = pics[i]
        /\ pics'[Len(pics) + 1] = e
    BY <1>3
  <1>5. \A i \in DOMAIN pics' : i \in DOMAIN pics \/ i = Len(pics) + 1
    BY <1>4
  <1>6. \A i \in DOMAIN pics : pics[i].id \in Nat /\ (pics[i].id > 0 => 2 * pics[i].id + 1 \in Seen)
    <2> SUFFICES ASSUME NEW i \in DOMAIN pics
                 PROVE  pics[i].id \in Nat /\ (pics[i].id > 0 => 2 * pics[i].id + 1 \in Seen)
      OBVIOUS
    <2>1. pics[i] \in Pictures
      BY <1>3
    <2>2. pics[i].id \in Nat
      BY <2>1 DEF Pictures
    <2>3. 2 * pics[i].id + 1 \in Nat
      BY <2>2
    <2> QED
      BY <2>2, <2>3 DEF Seen
  <1>7. Pictured(e, Len(pics))
    <2> SUFFICES ASSUME e.id > 0
                 PROVE  /\ e.id <= e.report /\ \E j \in DOMAIN ledger : ledger[j].id = e.id
                        /\ \A k \in 1 .. Len(pics) : pics[k].id < e.id
      BY DEF Pictured
    <2>1. PICK j \in DOMAIN ledger : ledger[j].id = e.id
      OBVIOUS
    <2>2. ledger[j].id <= Len(reports)
      BY <2>1 DEF LedgerFaithful
    <2>3. PICK q \in Nat : q = 2 * e.id + 1 /\ \A r \in Nat : Met(r) => r < q
      OBVIOUS
    <2>4. ASSUME NEW k \in 1 .. Len(pics) PROVE pics[k].id < e.id
      <3>1. CASE pics[k].id > 0
        <4>1. pics[k].id \in Nat /\ 2 * pics[k].id + 1 \in Seen
          BY <1>4, <1>6, <3>1
        <4>2. PICK r \in Nat : r = 2 * pics[k].id + 1
          BY <4>1
        <4>3. Met(r)
          BY <4>1, <4>2 DEF AnswerInv
        <4>4. r < q
          BY <2>3, <4>3
        <4> QED
          BY <1>3, <2>3, <4>1, <4>2, <4>4
      <3>2. pics[k].id \in Nat
        BY <1>4, <1>6
      <3> QED
        BY <1>3, <3>1, <3>2
    <2> QED
      BY <1>3, <2>1, <2>2, <2>4
  <1>8. AnswersInOrder'
    <2>1. \A i \in DOMAIN pics : Pictured(pics[i], i - 1)
      BY OrderParts DEF AnswerInv
    <2>2. ASSUME NEW i \in DOMAIN pics'
          PROVE  pics'[i].id > 0 =>
                    /\ pics'[i].id <= pics'[i].report
                    /\ \E j \in DOMAIN ledger : ledger[j].id = pics'[i].id
                    /\ \A k \in 1 .. i - 1 : pics'[k].id < pics'[i].id
      <3>1. CASE i \in DOMAIN pics
        <4>1. \A k \in 1 .. i - 1 : pics'[k] = pics[k]
          BY <1>4, <3>1
        <4> QED
          BY <1>4, <2>1, <3>1, <4>1 DEF Pictured
      <3>2. CASE i = Len(pics) + 1
        <4>1. pics'[i] = e /\ \A k \in 1 .. i - 1 : k \in 1 .. Len(pics) /\ pics'[k] = pics[k]
          BY <1>4, <3>2
        <4> QED
          BY <1>7, <4>1 DEF Pictured
      <3> QED
        BY <1>5, <3>1, <3>2
    <2>3. \A i \in DOMAIN shown : Follows(shown[i], i - 1)
      BY OrderParts DEF AnswerInv
    <2> QED
      BY <2>2, <2>3 DEF AnswersInOrder, Follows, Confirms
  <1>9. ASSUME NEW q \in Seen' PROVE Met(q)'
    <2>1. q \in Nat /\ (q \in Seen \/ (e.id > 0 /\ q = 2 * e.id + 1))
      BY <1>4, <1>5 DEF Seen, Confirms
    <2>2. CASE q \in Seen
      BY <2>1, <2>2 DEF AnswerInv
    <2>3. CASE e.id > 0 /\ q = 2 * e.id + 1
      BY <2>3
    <2> QED
      BY <2>1, <2>2, <2>3
  <1> QED
    BY <1>8, <1>9

\* Where nothing is displayed or saved, what has been is behind the client as before.
LEMMA SeenStays ==
    ASSUME UNCHANGED <<shown, pics>>, \A q \in Seen : Met(q), \A q \in Nat : Met(q) => Met(q)'
    PROVE  \A q \in Seen' : Met(q)'
  <1>1. Seen' = Seen
    BY DEF Seen, Confirms
  <1>2. \A q \in Seen : q \in Nat
    BY DEF Seen
  <1> QED
    BY <1>1, <1>2

LEMMA ClientAnswersInOrder ==
    ASSUME TypeOK, ReportInHand, LedgerFaithful, AnswerInv, CliNext, UNCHANGED srvVars
    PROVE  AnswerInv'
  <1>1. /\ UNCHANGED <<out, ledger>> /\ AnswerStream /\ Fetched /\ AnswersInOrder
        /\ \A q \in Seen : Met(q)
    BY DEF srvVars, AnswerInv
  <1>2. AnswerStream' /\ \A q \in Nat : Met(q) => Met(q)'
    BY <1>1, ClientKeepsAnswers
  <1>3. Fetched'
    BY <1>1, ClientFetches
  <1>4. AnswersInOrder' /\ \A q \in Seen' : Met(q)'
    <2>1. CASE CliFillForm
      <3>1. \A raw \in RawSeverities : Normalized(raw) \in 0 .. 5
        BY DEF Normalized
      <3>2. UNCHANGED <<shown, pics>> /\ \E s \in 0 .. 5 : reports' = Append(reports, s)
        BY <2>1, <3>1 DEF CliFillForm
      <3> QED
        BY <1>1, <1>2, <3>2, AnswersInOrderStays, SeenStays
    <2>2. CASE CliRecvResponse
      BY <1>1, <1>2, <2>2, ConfirmationInOrder
    <2>3. CASE UNCHANGED <<reports, shown>> /\ CliRecvBitmap
      <3>1. CASE pics' = pics
        BY <1>1, <1>2, <2>3, <3>1, AnswersInOrderStays, SeenStays
      <3>2. CASE pics' # pics
        <4>1. PICK e \in Pictures :
                 /\ pics' = Append(pics, e) /\ e.report = Current
                 /\ e.id > 0 => /\ \E j \in DOMAIN ledger : ledger[j].id = e.id
                                /\ \E q \in Nat : /\ q = 2 * e.id + 1 /\ Met(q)'
                                                  /\ \A r \in Nat : Met(r) => r < q
          BY <1>1, <2>3, <3>2, PictureRead
        <4> QED
          BY <1>1, <1>2, <2>3, <4>1, PictureInOrder
      <3> QED
        BY <3>1, <3>2
    <2>4. CASE UNCHANGED <<reports, shown, pics>>
      BY <1>1, <1>2, <2>4, AnswersInOrderStays, SeenStays
    <2> QED
      BY <2>1, <2>2, <2>3, <2>4, ClientTells
  <1> QED
    BY <1>2, <1>3, <1>4, Zenon DEF AnswerInv

LEMMA InitAnswerInv == Init => AnswerInv
  <1> SUFFICES ASSUME Init PROVE AnswerInv
    OBVIOUS
  <1> USE DEF Init, TcpInit, SrvInit, CliInit
  <1>1. AnswerStream
    BY DEF AnswerStream, Spaced, Framed, OutForm, Coming, Answers
  <1>2. Fetched
    BY DEF Fetched
  <1>3. Seen = {} /\ AnswersInOrder
    BY DEF Seen, AnswersInOrder
  <1> QED
    BY <1>1, <1>2, <1>3 DEF AnswerInv

LEMMA AnswerInvStep ==
    ASSUME TypeInv, TypeInv', RunwayStateAgrees', LedgerFaithful, RecordedInOrder', AnswerInv, [Next]_vars
    PROVE  AnswerInv'
  <1>1. /\ TypeOK /\ TypeOK' /\ ReportInHand /\ AnswerStream /\ Fetched /\ AnswersInOrder
        /\ \A q \in Seen : Met(q)
    BY DEF TypeInv, AnswerInv
  <1>2. CASE SrvNext /\ UNCHANGED cliVars
    <2>1. UNCHANGED <<reports, shown, pics>> /\ s2c \in Streams
      BY <1>1, <1>2 DEF cliVars, TypeOK, TcpTypes
    <2>2. /\ AnswerStream' /\ \A q \in Nat : Met(q) => Met(q)'
          /\ s2c' = s2c \/ \E p \in Streams : s2c' = Sent(s2c, p)
          /\ UNCHANGED ledger \/ \E e \in Records : ledger' = Append(ledger, e)
      BY <1>1, <1>2, ServerAnswers
    <2>3. Fetched'
      BY <1>1, <1>2, <2>1, <2>2, FetchedStays
    <2>4. AnswersInOrder'
      BY <1>1, <2>1, <2>2, AnswersInOrderStays
    <2>5. \A q \in Seen' : Met(q)'
      BY <1>1, <2>1, <2>2, SeenStays
    <2> QED
      BY <2>2, <2>3, <2>4, <2>5, Zenon DEF AnswerInv
  <1>3. CASE CliNext /\ UNCHANGED srvVars
    BY <1>1, <1>3, ClientAnswersInOrder
  <1>4. CASE UNCHANGED <<s2c, srvVars, cliVars>>
    <2>1. UNCHANGED <<s2c, out, ledger, main, need, reports, shown, pics>> /\ s2c \in Streams
      BY <1>1, <1>4 DEF srvVars, cliVars, TypeOK, TcpTypes
    <2>2. OutForm' /\ (\A c : Known(c) => Known(c)') /\ \A q \in Nat : Given(q) => Given(q)'
      BY <1>1, <2>1 DEF AnswerStream, OutForm, Known, Given
    <2>3. AnswerStream' /\ \A q \in Nat : Met(q) => Met(q)'
      BY <1>1, <2>1, <2>2, AnswersStay
    <2>4. Fetched'
      BY <1>1, <2>1 DEF Fetched
    <2>5. AnswersInOrder' /\ \A q \in Seen' : Met(q)'
      BY <1>1, <2>1, <2>3, AnswersInOrderStays, SeenStays
    <2> QED
      BY <2>3, <2>4, <2>5, Zenon DEF AnswerInv
  <1>5. LinkLost \/ RetransmitFails => UNCHANGED s2c
    BY DEF LinkLost, RetransmitFails
  <1> QED
    BY <1>2, <1>3, <1>4, <1>5 DEF Next, vars, tcpVars

\* However heartbeats cut into the stream, and whatever faults strike, a whole confirmation that is
\* displayed, like a bitmap that is saved, is that of a recorded report, with its status, never of a
\* report still to come, and never comes twice nor after that of a later report: the answers that an
\* exchange leaves unread may be taken for those of a later one, but the client never goes back.
THEOREM AnswersOrderCorrect == Spec => []AnswersInOrder
  <1>1. Init => AnswerInv
    BY InitAnswerInv
  <1>2. /\ TypeInv /\ TypeInv' /\ RunwayStateAgrees' /\ LedgerFaithful /\ RecordedInOrder'
        /\ AnswerInv /\ [Next]_vars
        => AnswerInv'
    BY AnswerInvStep
  <1>3. AnswerInv => AnswersInOrder
    BY DEF AnswerInv
  <1>4. TypeOK /\ ReportInHand <=> TypeInv
    BY DEF TypeInv
  <1> QED
    BY <1>1, <1>2, <1>3, <1>4, TypeCorrect, RunwayStateCorrect, LedgerCorrect, OrderCorrect, PTL DEF Spec
=======================================================================
