------------------------ MODULE FODSystemLedger -----------------------
(* Proof that the ledger is faithful: a recorded report that bears a number is that report of the  *)
(* client's, with its own description or one that is nobody's, wherever heartbeats cut into the    *)
(* stream, for every number of reports, heartbeats and faults and every length of the packets.     *)
(*                                                                                                *)
(* The server may lose its place in the stream, but it cannot go back.  The headers and            *)
(* descriptions of the reports stand in the stream in the order in which they were sent and none   *)
(* of them is missing between two others, so that after header r the next of them is description   *)
(* r; the one read that comes between the two takes four bytes, too few to swallow a description   *)
(* whole and cut into the next header as well.  For the same reason the ledger is in the order of  *)
(* the reports: what the server reads is behind all that it has recorded.                          *)
EXTENDS FODSystemSafety, SequenceTheorems

-----------------------------------------------------------------------
(* Reading from a stream whose chunks end one after the other.                                     *)

Increasing(s) == \A i, j \in DOMAIN s : i < j => s[i].end < s[j].end

\* Stream t is what is left of s when n bytes, its first k chunks among them, are read: the first
\* chunk left is a remnant if the read cut into it.
Left(s, t, k, n) ==
    /\ k \in 0 .. Len(s) /\ Len(t) = Len(s) - k
    /\ \A i \in 1 .. k : s[i].end <= n
    /\ \A i \in k + 1 .. Len(s) : s[i].end > n
    /\ \A i \in 1 .. Len(t) :
          /\ t[i].end = s[k + i].end - n
          /\ i > 1 \/ ~ Cuts(s, n) => t[i] = [s[k + i] EXCEPT !.end = @ - n]
          /\ i = 1 /\ Cuts(s, n) => /\ t[i].kind = RestOf(s[k + i].kind)
                                    /\ t[i].id = 0 /\ t[i].num = 0 /\ t[i].tag = ""

\* The chunks that a read takes whole are the first ones.
LEMMA WholePrefix ==
    ASSUME NEW s \in Streams, Increasing(s), NEW n \in Int
    PROVE  /\ Whole(s, n) \in 0 .. Len(s)
           /\ \A i \in 1 .. Whole(s, n) : s[i].end <= n
           /\ \A i \in Whole(s, n) + 1 .. Len(s) : s[i].end > n
  <1> DEFINE W == {i \in DOMAIN s : s[i].end <= n}
             k == Whole(s, n)
  <1>1. Len(s) \in Nat /\ DOMAIN s = 1 .. Len(s) /\ \A i \in 1 .. Len(s) : s[i].end \in Int
    <2>1. Len(s) \in Nat /\ DOMAIN s = 1 .. Len(s) /\ \A i \in 1 .. Len(s) : s[i] \in Chunks
      BY DEF Streams
    <2> QED
      BY <2>1, EndType
  <1>2. k \in 0 .. Len(s) /\ k = Cardinality(W)
    BY WholeType DEF Whole
  <1>3. \A i \in W : i \in 1 .. Len(s) /\ 1 .. i \subseteq W
    <2> SUFFICES ASSUME NEW i \in W, NEW j \in 1 .. i PROVE j \in W
      BY <1>1
    <2>1. i \in 1 .. Len(s) /\ j \in 1 .. Len(s) /\ s[i].end <= n
      BY <1>1
    <2>2. j = i \/ s[j].end < s[i].end
      BY <1>1, <2>1 DEF Increasing
    <2>3. s[j].end \in Int /\ s[i].end \in Int
      BY <1>1, <2>1
    <2>4. s[j].end <= n
      BY <2>1, <2>2, <2>3
    <2> QED
      BY <1>1, <2>1, <2>4
  <1>4. \A m \in Nat : IsFiniteSet(1 .. m) /\ Cardinality(1 .. m) = m
    <2> SUFFICES ASSUME NEW m \in Nat PROVE IsFiniteSet(1 .. m) /\ Cardinality(1 .. m) = m
      OBVIOUS
    <2>1. 1 \in Int /\ m \in Int
      OBVIOUS
    <2>2. /\ IsFiniteSet(1 .. m)
          /\ Cardinality(1 .. m) = IF 1 > m THEN 0 ELSE m - 1 + 1
      BY <2>1, FS_Interval
    <2> QED
      BY <2>2
  <1>5. IsFiniteSet(W)
    <2>1. W \subseteq 1 .. Len(s) /\ IsFiniteSet(1 .. Len(s))
      BY <1>1, <1>4
    <2> HIDE DEF W
    <2> QED
      BY <2>1, FS_Subset
  <1> HIDE DEF W, k
  <1>6. W \subseteq 1 .. k
    <2> SUFFICES ASSUME NEW i \in W PROVE i \in 1 .. k
      OBVIOUS
    <2>1. i \in 1 .. Len(s) /\ 1 .. i \subseteq W
      BY <1>3
    <2>2. Cardinality(1 .. i) <= Cardinality(W)
      BY <1>5, <2>1, FS_Subset
    <2>3. Cardinality(1 .. i) = i
      BY <1>4, <2>1
    <2> QED
      BY <1>1, <1>2, <2>1, <2>2, <2>3
  <1>7. W = 1 .. k
    <2>1. IsFiniteSet(1 .. k) /\ Cardinality(1 .. k) = k
      BY <1>2, <1>4
    <2> QED
      BY <1>2, <1>6, <2>1, FS_Subset
  <1>8. \A i \in 1 .. k : s[i].end <= n
    BY <1>7 DEF W
  <1>9. \A i \in k + 1 .. Len(s) : s[i].end > n
    <2> SUFFICES ASSUME NEW i \in k + 1 .. Len(s) PROVE s[i].end > n
      OBVIOUS
    <2>1. i \in 1 .. Len(s) /\ i \notin 1 .. k
      BY <1>1, <1>2
    <2>2. ~ (s[i].end <= n)
      BY <1>1, <1>7, <2>1 DEF W
    <2>3. s[i].end \in Int
      BY <1>1, <2>1
    <2> QED
      BY <2>2, <2>3
  <1> QED
    BY <1>2, <1>8, <1>9 DEF k

\* What a read leaves.
LEMMA ReadLeaves ==
    ASSUME NEW s \in Streams, Increasing(s), NEW n \in Int
    PROVE  Left(s, AfterRead(s, n), Whole(s, n), n) /\ Increasing(AfterRead(s, n))
  <1> DEFINE k == Whole(s, n)
             t == AfterRead(s, n)
             left == [i \in 1 .. Len(s) - k |-> [s[k + i] EXCEPT !.end = @ - n]]
  <1>1. /\ k \in 0 .. Len(s)
        /\ \A i \in 1 .. k : s[i].end <= n
        /\ \A i \in k + 1 .. Len(s) : s[i].end > n
    BY WholePrefix
  <1>2. Len(s) \in Nat /\ DOMAIN s = 1 .. Len(s) /\ \A i \in 1 .. Len(s) : s[i] \in Chunks
    BY DEF Streams
  <1>3. t \in Streams
    BY AfterReadType
  <1>4. t = IF Cuts(s, n) THEN [left EXCEPT ![1] = Remnant(@)] ELSE left
    BY DEF AfterRead
  <1>5. DOMAIN left = 1 .. Len(s) - k /\ DOMAIN t = 1 .. Len(s) - k
    BY <1>4
  <1>6. Len(t) = Len(s) - k
    <2>1. DOMAIN t = 1 .. Len(t) /\ Len(t) \in Nat
      BY <1>3 DEF Streams
    <2> HIDE DEF t, k
    <2> QED
      BY <1>1, <1>2, <1>5, <2>1
  <1> HIDE DEF k
  <1>7. \A i \in 1 .. Len(s) - k :
          /\ k + i \in 1 .. Len(s)
          /\ s[k + i] \in Chunks
          /\ left[i] = [s[k + i] EXCEPT !.end = @ - n]
    BY <1>1, <1>2
  <1>8. \A i \in 1 .. Len(s) - k :
          /\ t[i].end = s[k + i].end - n
          /\ i > 1 \/ ~ Cuts(s, n) => t[i] = left[i]
          /\ i = 1 /\ Cuts(s, n) => t[i] = Remnant(left[i])
    <2> SUFFICES ASSUME NEW i \in 1 .. Len(s) - k
                 PROVE  /\ t[i].end = s[k + i].end - n
                        /\ i > 1 \/ ~ Cuts(s, n) => t[i] = left[i]
                        /\ i = 1 /\ Cuts(s, n) => t[i] = Remnant(left[i])
      OBVIOUS
    <2>1. left[i].end = s[k + i].end - n
      <3>1. s[k + i] \in Chunks
        BY <1>7
      <3> QED
        BY <1>7, <3>1 DEF Chunks
    <2>2. i > 1 \/ ~ Cuts(s, n) => t[i] = left[i]
      BY <1>4
    <2>3. i = 1 /\ Cuts(s, n) => t[i] = Remnant(left[i])
      BY <1>4
    <2>4. Remnant(left[i]).end = left[i].end
      BY DEF Remnant, Chunk
    <2> HIDE DEF t, left
    <2> QED
      BY <2>1, <2>2, <2>3, <2>4
  <1>9. \A c : /\ Remnant(c).kind = RestOf(c.kind)
               /\ Remnant(c).id = 0 /\ Remnant(c).num = 0 /\ Remnant(c).tag = ""
    BY DEF Remnant, Chunk
  <1>10. \A i \in 1 .. Len(s) - k : left[i].kind = s[k + i].kind
    BY <1>7 DEF Chunks
  <1> HIDE DEF t, left
  <1>11. Left(s, t, k, n)
    <2>1. \A i \in 1 .. Len(s) - k : i = 1 /\ Cuts(s, n) =>
              /\ t[i].kind = RestOf(s[k + i].kind)
              /\ t[i].id = 0 /\ t[i].num = 0 /\ t[i].tag = ""
      <3> SUFFICES ASSUME NEW i \in 1 .. Len(s) - k, i = 1 /\ Cuts(s, n)
                   PROVE  /\ t[i].kind = RestOf(s[k + i].kind)
                          /\ t[i].id = 0 /\ t[i].num = 0 /\ t[i].tag = ""
        OBVIOUS
      <3>1. t[i] = Remnant(left[i]) /\ left[i].kind = s[k + i].kind
        BY <1>8, <1>10
      <3> QED
        BY <1>9, <3>1
    <2>2. \A i \in 1 .. Len(s) - k : i > 1 \/ ~ Cuts(s, n) => t[i] = [s[k + i] EXCEPT !.end = @ - n]
      BY <1>7, <1>8
    <2>3. \A i \in 1 .. Len(s) - k : t[i].end = s[k + i].end - n
      BY <1>8
    <2> QED
      BY <1>1, <1>6, <2>1, <2>2, <2>3 DEF Left
  <1>12. Increasing(t)
    <2> SUFFICES ASSUME NEW i \in 1 .. Len(s) - k, NEW j \in 1 .. Len(s) - k, i < j
                 PROVE  t[i].end < t[j].end
      BY <1>5 DEF Increasing, t
    <2>1. k + i \in 1 .. Len(s) /\ k + j \in 1 .. Len(s) /\ k + i < k + j
      BY <1>1, <1>2
    <2>2. s[k + i].end < s[k + j].end /\ s[k + i].end \in Int /\ s[k + j].end \in Int
      BY <1>2, <2>1 DEF Increasing, Chunks
    <2> QED
      BY <1>8, <2>2
  <1> QED
    BY <1>11, <1>12 DEF t, k

-----------------------------------------------------------------------
(* The reports in a stream.                                                                        *)

\* The chunks that are a header or a description, whole.
ReportChunks(s) == {i \in DOMAIN s : s[i].kind \in {"header", "desc"}}

\* Their place in the order in which the client sends them.
Key(c) == IF c.kind = "header" THEN 2 * c.id ELSE 2 * c.id + 1

\* Chunks follow one another, and those of a report are 12 bytes long at least.
Spaced(s) ==
    \A j \in DOMAIN s : LET least == IF j \in ReportChunks(s) THEN 12 ELSE 1 IN
        s[j].end >= least /\ \A i \in 1 .. j - 1 : s[i].end + least <= s[j].end

\* The chunks of reports are those of reports that were filed.
Genuine(s) ==
    \A i \in ReportChunks(s) :
        s[i].id \in 1 .. Len(reports) /\ (s[i].kind = "header" => s[i].num = reports[s[i].id])

\* They are in order, and after each come all those that were sent up to the last one.
InOrder(s, last) ==
    \A i \in ReportChunks(s) :
        /\ Key(s[i]) <= last
        /\ \A j \in ReportChunks(s) : i < j => Key(s[i]) < Key(s[j])
        /\ \A q \in Key(s[i]) + 1 .. last : \E j \in ReportChunks(s) : Key(s[j]) = q

\* The first of them is q, unless that is still to be sent.
StartsWith(s, last, q) ==
    /\ q <= last + 1
    /\ \A i \in ReportChunks(s) : Key(s[i]) >= q
    /\ q <= last => \E i \in ReportChunks(s) : Key(s[i]) = q

\* A chunk's place is a number.
LEMMA KeyType ==
    ASSUME NEW s \in Streams, NEW i \in ReportChunks(s)
    PROVE  i \in 1 .. Len(s) /\ s[i] \in Chunks /\ Key(s[i]) \in Int
  <1>1. i \in 1 .. Len(s) /\ s[i] \in Chunks
    BY DEF Streams, ReportChunks
  <1> QED
    BY <1>1 DEF Key, Chunks

\* Chunks that follow one another end one after the other.
LEMMA SpacedIncreasing == ASSUME NEW s \in Streams, Spaced(s) PROVE Increasing(s)
  <1> SUFFICES ASSUME NEW i \in DOMAIN s, NEW j \in DOMAIN s, i < j PROVE s[i].end < s[j].end
    BY DEF Increasing
  <1>1. i \in 1 .. j - 1 /\ s[i].end \in Int /\ s[j].end \in Int
    <2>1. i \in 1 .. Len(s) /\ j \in 1 .. Len(s) /\ Len(s) \in Nat /\ s[i] \in Chunks /\ s[j] \in Chunks
      BY DEF Streams
    <2> QED
      BY <2>1, EndType
  <1>2. s[i].end + 12 <= s[j].end \/ s[i].end + 1 <= s[j].end
    BY <1>1 DEF Spaced
  <1> QED
    BY <1>1, <1>2

\* The chunks of reports that a read leaves, and those that it takes.
LEMMA ReadReports ==
    ASSUME NEW s \in Streams, Increasing(s), NEW n \in Int,
           NEW t, t = AfterRead(s, n), NEW k, k = Whole(s, n)
    PROVE  /\ t \in Streams /\ k \in 0 .. Len(s)
           /\ \A i \in ReportChunks(t) :
                 /\ k + i \in ReportChunks(s) /\ (i > 1 \/ ~ Cuts(s, n))
                 /\ t[i].kind = s[k + i].kind /\ t[i].id = s[k + i].id /\ t[i].num = s[k + i].num
                 /\ Key(t[i]) = Key(s[k + i])
           /\ \A j \in ReportChunks(s) :
                 j > k /\ (j > k + 1 \/ ~ Cuts(s, n)) => /\ j - k \in ReportChunks(t)
                                                         /\ Key(t[j - k]) = Key(s[j])
  <1>1. /\ Left(s, t, k, n) /\ t \in Streams
        /\ k \in 0 .. Len(s) /\ Len(t) = Len(s) - k
    <2>1. Left(s, t, k, n) /\ t \in Streams
      BY ReadLeaves, AfterReadType
    <2> QED
      BY <2>1, Zenon DEF Left
  <1>2. /\ DOMAIN s = 1 .. Len(s) /\ Len(s) \in Nat /\ DOMAIN t = 1 .. Len(t)
        /\ \A i \in 1 .. Len(s) : s[i] \in Chunks
    BY <1>1 DEF Streams
  <1>3. ASSUME NEW i \in 1 .. Len(t), i > 1 \/ ~ Cuts(s, n)
        PROVE  /\ k + i \in 1 .. Len(s)
               /\ t[i].kind = s[k + i].kind /\ t[i].id = s[k + i].id /\ t[i].num = s[k + i].num
               /\ Key(t[i]) = Key(s[k + i])
    <2>1. k + i \in 1 .. Len(s)
      BY <1>1, <1>2
    <2>2. s[k + i] \in Chunks
      BY <1>2, <2>1
    <2>3. t[i] = [s[k + i] EXCEPT !.end = @ - n]
      BY <1>1, <1>3 DEF Left
    <2>4. t[i].kind = s[k + i].kind /\ t[i].id = s[k + i].id /\ t[i].num = s[k + i].num
      BY <2>2, <2>3 DEF Chunks
    <2> QED
      BY <2>1, <2>4 DEF Key
  <1>4. ASSUME NEW i \in ReportChunks(t) PROVE i \in 1 .. Len(t) /\ (i > 1 \/ ~ Cuts(s, n))
    <2>1. i \in 1 .. Len(t) /\ t[i].kind \in {"header", "desc"}
      BY <1>2 DEF ReportChunks
    <2>2. i = 1 /\ Cuts(s, n) => t[i].kind \in {"rest", "textRest", "bitmapRest"}
      BY <1>1, <2>1 DEF Left, RestOf
    <2>3. i = 1 \/ i > 1
      BY <1>1, <2>1
    <2> QED
      BY <2>1, <2>2, <2>3
  <1>5. ASSUME NEW i \in ReportChunks(t)
        PROVE  /\ k + i \in ReportChunks(s) /\ (i > 1 \/ ~ Cuts(s, n))
               /\ t[i].kind = s[k + i].kind /\ t[i].id = s[k + i].id /\ t[i].num = s[k + i].num
               /\ Key(t[i]) = Key(s[k + i])
    BY <1>2, <1>3, <1>4 DEF ReportChunks
  <1>6. ASSUME NEW j \in ReportChunks(s), j > k, j > k + 1 \/ ~ Cuts(s, n)
        PROVE  j - k \in ReportChunks(t) /\ Key(t[j - k]) = Key(s[j])
    <2>1. j \in 1 .. Len(s) /\ s[j].kind \in {"header", "desc"}
      BY <1>2 DEF ReportChunks
    <2>2. j - k \in 1 .. Len(t) /\ k + (j - k) = j /\ (j - k > 1 \/ ~ Cuts(s, n))
      BY <1>1, <1>2, <1>6, <2>1
    <2>3. t[j - k].kind = s[k + (j - k)].kind /\ Key(t[j - k]) = Key(s[k + (j - k)])
      BY <1>3, <2>2
    <2> QED
      BY <1>2, <2>1, <2>2, <2>3 DEF ReportChunks
  <1> QED
    BY <1>1, <1>5, <1>6

\* A chunk of at least so many bytes.
Least(s, j) == IF j \in ReportChunks(s) THEN 12 ELSE 1

\* What Spaced says of numbers.
LEMMA SpacedFacts ==
    ASSUME NEW s \in Streams
    PROVE  /\ Len(s) \in Nat /\ DOMAIN s = 1 .. Len(s) /\ \A j \in 1 .. Len(s) : s[j].end \in Int
           /\ Spaced(s) <=> \A j \in 1 .. Len(s) :
                                /\ s[j].end >= Least(s, j)
                                /\ \A i \in 1 .. j - 1 : s[i].end + Least(s, j) <= s[j].end
  <1>1. Len(s) \in Nat /\ DOMAIN s = 1 .. Len(s) /\ \A j \in 1 .. Len(s) : s[j] \in Chunks
    BY DEF Streams
  <1>2. \A j \in 1 .. Len(s) : s[j].end \in Int
    BY <1>1, EndType
  <1> QED
    BY <1>1, <1>2 DEF Spaced, Least

\* What a read leaves is still spaced: a chunk that it leaves whole has all its bytes before it.
LEMMA ReadSpaced ==
    ASSUME NEW s \in Streams, Spaced(s), NEW n \in Nat PROVE Spaced(AfterRead(s, n))
  <1> DEFINE t == AfterRead(s, n)
             k == Whole(s, n)
  <1>1. Increasing(s) /\ n \in Int
    BY SpacedIncreasing
  <1>2. /\ t \in Streams /\ k \in 0 .. Len(s) /\ Left(s, t, k, n)
        /\ \A i \in ReportChunks(t) : k + i \in ReportChunks(s) /\ (i > 1 \/ ~ Cuts(s, n))
    BY <1>1, ReadReports, ReadLeaves
  <1> HIDE DEF t, k
  <1>3. /\ Len(t) = Len(s) - k
        /\ \A i \in 1 .. k : s[i].end <= n
        /\ \A i \in k + 1 .. Len(s) : s[i].end > n
        /\ \A i \in 1 .. Len(t) : t[i].end = s[k + i].end - n
    BY <1>2, Zenon DEF Left
  <1>4. Len(s) \in Nat /\ Len(t) \in Nat /\ \A j \in 1 .. Len(s) : s[j].end \in Int
    BY <1>2, SpacedFacts
  <1>5. \A j \in 1 .. Len(s) : /\ s[j].end >= Least(s, j)
                               /\ \A i \in 1 .. j - 1 : s[i].end + Least(s, j) <= s[j].end
    BY SpacedFacts
  <1>6. ASSUME NEW j \in 1 .. Len(t) PROVE k + j \in 1 .. Len(s) /\ Least(t, j) <= Least(s, k + j)
                                           /\ Least(t, j) \in {1, 12}
    <2>1. k + j \in 1 .. Len(s)
      BY <1>2, <1>3, <1>4
    <2> QED
      BY <1>2, <2>1 DEF Least
  <1>7. ASSUME NEW j \in 1 .. Len(t), NEW i \in 1 .. j - 1 PROVE t[i].end + Least(t, j) <= t[j].end
    <2>1. i \in 1 .. Len(t) /\ k + i \in 1 .. (k + j) - 1 /\ k + i \in 1 .. Len(s)
      BY <1>2, <1>3, <1>4
    <2>2. s[k + i].end + Least(s, k + j) <= s[k + j].end
      BY <1>5, <1>6, <2>1
    <2>3. t[i].end = s[k + i].end - n /\ t[j].end = s[k + j].end - n
      BY <1>3, <2>1
    <2>4. Least(s, k + j) \in {1, 12} /\ s[k + i].end \in Int /\ s[k + j].end \in Int
      BY <1>4, <1>6, <2>1 DEF Least
    <2>5. Least(t, j) <= Least(s, k + j) /\ Least(t, j) \in {1, 12}
      BY <1>6
    <2> QED
      BY <2>2, <2>3, <2>4, <2>5
  <1>8. ASSUME NEW j \in 1 .. Len(t) PROVE t[j].end >= Least(t, j)
    <2>1. k + j \in 1 .. Len(s) /\ s[k + j].end > n /\ t[j].end = s[k + j].end - n
          /\ s[k + j].end \in Int
      BY <1>2, <1>3, <1>4
    <2>2. CASE Least(t, j) = 1
      BY <2>1, <2>2
    <2>3. CASE j > 1
      <3>1. 1 \in 1 .. j - 1 /\ 1 \in 1 .. Len(t)
        BY <2>3, <1>4
      <3>2. t[1].end + Least(t, j) <= t[j].end
        BY <1>7, <3>1
      <3>3. t[1].end = s[k + 1].end - n /\ s[k + 1].end > n /\ s[k + 1].end \in Int
        BY <1>2, <1>3, <1>4, <3>1
      <3> QED
        BY <1>6, <2>1, <3>2, <3>3
    <2>4. CASE Least(t, j) = 12 /\ j = 1
      <3>1. j \in ReportChunks(t)
        BY <2>4 DEF Least
      <3>2. ~ Cuts(s, n) /\ Least(s, k + j) = 12
        BY <1>2, <2>4, <3>1 DEF Least
      <3>3. CASE n = 0
        <4>1. s[k + j].end >= 12
          BY <1>5, <2>1, <3>2
        <4> QED
          BY <2>1, <2>4, <3>3, <4>1
      <3>4. CASE \E i \in 1 .. Len(s) : s[i].end = n
        <4>1. PICK i \in 1 .. Len(s) : s[i].end = n
          BY <3>4
        <4>2. i \in 1 .. (k + j) - 1
          <5>1. ~ (i \in k + 1 .. Len(s))
            BY <1>3, <4>1
          <5> QED
            BY <1>2, <1>4, <2>4, <5>1
        <4>3. n + 12 <= s[k + j].end
          BY <1>5, <2>1, <3>2, <4>1, <4>2
        <4> QED
          BY <2>1, <2>4, <4>3
      <3>5. n < Unread(s)
        <4>1. Len(s) \in k + 1 .. Len(s) /\ s # << >>
          BY <1>2, <1>4, <2>1
        <4> QED
          BY <1>3, <4>1 DEF Unread
      <3>6. n = 0 \/ \E i \in 1 .. Len(s) : s[i].end = n
        <4>1. DOMAIN s = 1 .. Len(s)
          BY SpacedFacts
        <4> QED
          BY <3>2, <3>5, <4>1 DEF Cuts
      <3> QED
        BY <3>3, <3>4, <3>6
    <2> QED
      BY <1>4, <1>6, <2>2, <2>3, <2>4
  <1>9. Spaced(t)
    BY <1>2, <1>7, <1>8, SpacedFacts
  <1> QED
    BY <1>9 DEF t

\* A read leaves genuine reports in order, up to the same last one.
LEMMA ReadInOrder ==
    ASSUME NEW s \in Streams, Increasing(s), NEW n \in Int, NEW last \in Int
    PROVE  /\ Genuine(s) => Genuine(AfterRead(s, n))
           /\ InOrder(s, last) => InOrder(AfterRead(s, n), last)
  <1> DEFINE t == AfterRead(s, n)
             k == Whole(s, n)
  <1>1. /\ t \in Streams /\ k \in 0 .. Len(s)
        /\ \A i \in ReportChunks(t) :
              /\ k + i \in ReportChunks(s) /\ (i > 1 \/ ~ Cuts(s, n))
              /\ t[i].kind = s[k + i].kind /\ t[i].id = s[k + i].id /\ t[i].num = s[k + i].num
              /\ Key(t[i]) = Key(s[k + i])
        /\ \A j \in ReportChunks(s) :
              j > k /\ (j > k + 1 \/ ~ Cuts(s, n)) => /\ j - k \in ReportChunks(t)
                                                      /\ Key(t[j - k]) = Key(s[j])
    BY ReadReports
  <1> HIDE DEF t, k
  <1>2. Genuine(s) => Genuine(t)
    BY <1>1 DEF Genuine
  <1>3. ASSUME InOrder(s, last) PROVE InOrder(t, last)
    <2> SUFFICES ASSUME NEW i \in ReportChunks(t)
                 PROVE  /\ Key(t[i]) <= last
                        /\ \A j \in ReportChunks(t) : i < j => Key(t[i]) < Key(t[j])
                        /\ \A q \in Key(t[i]) + 1 .. last : \E j \in ReportChunks(t) : Key(t[j]) = q
      BY DEF InOrder
    <2>1. k + i \in ReportChunks(s) /\ Key(t[i]) = Key(s[k + i]) /\ (i > 1 \/ ~ Cuts(s, n))
      BY <1>1
    <2>2. i \in Nat /\ i >= 1 /\ k \in Nat /\ Key(t[i]) \in Int
      BY <1>1, KeyType
    <2>3. ASSUME NEW j \in ReportChunks(t), i < j PROVE Key(t[i]) < Key(t[j])
      <3>1. k + j \in ReportChunks(s) /\ Key(t[j]) = Key(s[k + j]) /\ j \in Nat
        BY <1>1, KeyType
      <3>2. k + i < k + j
        BY <2>2, <2>3, <3>1
      <3> QED
        BY <1>3, <2>1, <3>1, <3>2 DEF InOrder
    <2>4. ASSUME NEW q \in Key(t[i]) + 1 .. last PROVE \E j \in ReportChunks(t) : Key(t[j]) = q
      <3>1. PICK j \in ReportChunks(s) : Key(s[j]) = q
        BY <1>3, <2>1 DEF InOrder
      <3>2. j \in Nat /\ Key(s[j]) \in Int /\ Key(s[k + i]) < Key(s[j])
        BY <2>1, <2>2, <3>1, KeyType
      <3>3. ~ (j < k + i) /\ j # k + i
        <4>1. j < k + i => Key(s[j]) < Key(s[k + i])
          BY <1>3, <2>1 DEF InOrder
        <4> QED
          BY <2>1, <2>2, <3>2, <4>1
      <3>4. j > k + 1
        BY <2>2, <3>2, <3>3
      <3>5. j - k \in ReportChunks(t) /\ Key(t[j - k]) = Key(s[j])
        BY <1>1, <2>2, <3>2, <3>4
      <3> QED
        BY <3>1, <3>5
    <2> QED
      BY <1>3, <2>1, <2>3, <2>4 DEF InOrder
  <1> QED
    BY <1>2, <1>3 DEF t

\* Reading an integer takes or spoils one chunk of a report at most.
LEMMA ReadLength ==
    ASSUME NEW s \in Streams, Spaced(s), NEW last \in Int, InOrder(s, last), NEW q \in Int,
           StartsWith(s, last, q)
    PROVE  \E next \in {q, q + 1} : StartsWith(AfterRead(s, 4), last, next)
  <1> DEFINE t == AfterRead(s, 4)
             k == Whole(s, 4)
  <1>a. Increasing(s) /\ 4 \in Int
    BY SpacedIncreasing
  <1>1. /\ t \in Streams /\ k \in 0 .. Len(s)
        /\ \A i \in ReportChunks(t) : k + i \in ReportChunks(s) /\ Key(t[i]) = Key(s[k + i])
        /\ \A j \in ReportChunks(s) :
              j > k /\ (j > k + 1 \/ ~ Cuts(s, 4)) => /\ j - k \in ReportChunks(t)
                                                      /\ Key(t[j - k]) = Key(s[j])
    BY <1>a, ReadReports
  <1>2. \A i \in 1 .. k : s[i].end <= 4
    BY <1>a, WholePrefix
  <1> HIDE DEF t, k
  <1>b. \A i \in ReportChunks(s) : i \in Nat /\ Key(s[i]) \in Int
    BY KeyType
  <1>c. \A i \in ReportChunks(t) : Key(t[i]) >= q
    BY <1>1 DEF StartsWith
  \* A report's chunk is not among those taken whole: it has 12 bytes.
  <1>3. \A j \in ReportChunks(s) : j > k
    <2> SUFFICES ASSUME NEW j \in ReportChunks(s) PROVE j > k
      OBVIOUS
    <2>1. j \in 1 .. Len(s) /\ s[j].end \in Int /\ s[j].end >= 12
      <3>1. j \in 1 .. Len(s) /\ s[j].end \in Int
        BY KeyType, EndType
      <3>2. s[j].end >= Least(s, j)
        BY <3>1, SpacedFacts
      <3> QED
        BY <3>1, <3>2 DEF Least
    <2> QED
      BY <1>1, <1>2, <2>1
  <1>4. CASE q > last
    <2>1. StartsWith(t, last, q)
      BY <1>4, <1>c DEF StartsWith
    <2> QED
      BY <2>1 DEF t
  <1>5. CASE q <= last
    <2>1. PICK i \in ReportChunks(s) : Key(s[i]) = q
      BY <1>5 DEF StartsWith
    <2>2. CASE i > k + 1 \/ ~ Cuts(s, 4)
      <3>1. i - k \in ReportChunks(t) /\ Key(t[i - k]) = q
        BY <1>1, <1>3, <2>1, <2>2
      <3>2. StartsWith(t, last, q)
        BY <1>5, <1>c, <3>1 DEF StartsWith
      <3> QED
        BY <3>2 DEF t
    <2>3. CASE i = k + 1 /\ Cuts(s, 4)
      <3>1. \A j \in ReportChunks(t) : Key(t[j]) >= q + 1
        <4> SUFFICES ASSUME NEW j \in ReportChunks(t) PROVE Key(t[j]) >= q + 1
          OBVIOUS
        <4>1. k + j \in ReportChunks(s) /\ Key(t[j]) = Key(s[k + j]) /\ j \in Nat /\ j >= 1
          BY <1>1, KeyType
        <4>2. j > 1
          <5>1. \A m \in ReportChunks(t) : m > 1 \/ ~ Cuts(s, 4)
            BY <1>a, ReadReports DEF t
          <5> QED
            BY <2>3, <5>1
        <4>3. Key(s[i]) < Key(s[k + j])
          BY <2>3, <4>1, <4>2, <1>1 DEF InOrder
        <4>4. Key(s[k + j]) \in Int
          BY <1>b, <4>1
        <4> QED
          BY <2>1, <4>1, <4>3, <4>4
      <3>2. q + 1 <= last => \E j \in ReportChunks(t) : Key(t[j]) = q + 1
        <4> SUFFICES ASSUME q + 1 <= last PROVE \E j \in ReportChunks(t) : Key(t[j]) = q + 1
          OBVIOUS
        <4>1. q + 1 \in Key(s[i]) + 1 .. last
          BY <2>1
        <4>2. PICK j \in ReportChunks(s) : Key(s[j]) = q + 1
          BY <4>1 DEF InOrder
        <4>3. j > k + 1
          <5>1. j > k /\ j # i /\ j \in Nat
            BY <1>3, <1>b, <2>1, <4>2
          <5> QED
            BY <1>1, <2>3, <5>1
        <4>4. j - k \in ReportChunks(t) /\ Key(t[j - k]) = q + 1
          BY <1>1, <1>3, <4>2, <4>3
        <4> QED
          BY <4>4
      <3>3. StartsWith(t, last, q + 1)
        BY <1>5, <3>1, <3>2 DEF StartsWith
      <3> QED
        BY <3>3 DEF t
    <2>4. i > k
      BY <1>3
    <2> QED
      BY <1>1, <1>b, <2>2, <2>3, <2>4
  <1>6. last \in Int /\ q \in Int
    OBVIOUS
  <1> QED
    BY <1>4, <1>5, <1>6

\* Reading exactly the first chunk of a stream, a header, leaves the stream with its description.
LEMMA ReadHeader ==
    ASSUME NEW s \in Streams, s # << >>, Spaced(s), NEW last \in Int, InOrder(s, last),
           Head(s).kind = "header", NEW n \in Int, Head(s).end = n
    PROVE  StartsWith(AfterRead(s, n), last, 2 * Head(s).id + 1)
  <1> DEFINE t == AfterRead(s, n)
             k == Whole(s, n)
  <1>a. Increasing(s)
    BY SpacedIncreasing
  <1>1. /\ t \in Streams /\ k \in 0 .. Len(s)
        /\ \A i \in ReportChunks(t) : k + i \in ReportChunks(s) /\ Key(t[i]) = Key(s[k + i])
        /\ \A j \in ReportChunks(s) :
              j > k /\ (j > k + 1 \/ ~ Cuts(s, n)) => /\ j - k \in ReportChunks(t)
                                                      /\ Key(t[j - k]) = Key(s[j])
    BY <1>a, ReadReports
  <1>2. /\ \A i \in 1 .. k : s[i].end <= n
        /\ \A i \in k + 1 .. Len(s) : s[i].end > n
    BY <1>a, WholePrefix
  <1> HIDE DEF t, k
  <1>3. Len(s) \in Nat \ {0} /\ 1 \in ReportChunks(s) /\ s[1] = Head(s) /\ s[1] \in Chunks
    BY DEF Streams, ReportChunks
  <1>4. Key(s[1]) = 2 * Head(s).id /\ Head(s).id \in Nat
    BY <1>3 DEF Key, Chunks
  <1>5. ~ Cuts(s, n)
    BY <1>3 DEF Cuts, ReportChunks
  <1>6. k = 1
    <2>1. k >= 1
      <3>1. ~ (1 \in k + 1 .. Len(s))
        BY <1>2, <1>3
      <3> QED
        BY <1>1, <1>3, <3>1
    <2>2. ~ (k >= 2)
      <3> SUFFICES ASSUME k >= 2 PROVE FALSE
        OBVIOUS
      <3>1. 2 \in 1 .. k /\ 2 \in 1 .. Len(s)
        BY <1>1, <1>3
      <3>2. s[2].end <= n /\ s[1].end < s[2].end
        BY <1>2, <1>3, <1>a, <3>1, SpacedFacts DEF Increasing
      <3>3. s[1].end \in Int /\ s[2].end \in Int
        BY <1>3, <3>1, SpacedFacts
      <3> QED
        BY <1>3, <3>2, <3>3
    <2> QED
      BY <1>1, <2>1, <2>2
  <1>7. \A j \in ReportChunks(s) : j \in Nat /\ j >= 1 /\ Key(s[j]) \in Int
    BY KeyType
  <1>8. \A i \in ReportChunks(t) : Key(t[i]) >= 2 * Head(s).id + 1
    <2> SUFFICES ASSUME NEW i \in ReportChunks(t) PROVE Key(t[i]) >= 2 * Head(s).id + 1
      OBVIOUS
    <2>1. 1 + i \in ReportChunks(s) /\ Key(t[i]) = Key(s[1 + i]) /\ i \in Nat /\ i >= 1
      BY <1>1, <1>6, KeyType
    <2>2. Key(s[1]) < Key(s[1 + i])
      BY <1>3, <2>1 DEF InOrder
    <2> QED
      BY <1>4, <1>7, <2>1, <2>2
  <1>9. 2 * Head(s).id + 1 <= last => \E i \in ReportChunks(t) : Key(t[i]) = 2 * Head(s).id + 1
    <2> SUFFICES ASSUME 2 * Head(s).id + 1 <= last
                 PROVE  \E i \in ReportChunks(t) : Key(t[i]) = 2 * Head(s).id + 1
      OBVIOUS
    <2>1. 2 * Head(s).id + 1 \in Key(s[1]) + 1 .. last
      BY <1>4
    <2>2. PICK j \in ReportChunks(s) : Key(s[j]) = 2 * Head(s).id + 1
      BY <1>3, <2>1 DEF InOrder
    <2>3. j > 1
      BY <1>4, <1>7, <2>2
    <2>4. j - 1 \in ReportChunks(t) /\ Key(t[j - 1]) = Key(s[j])
      BY <1>1, <1>5, <1>6, <2>3
    <2> QED
      BY <2>2, <2>4
  <1>10. 2 * Head(s).id <= last
    BY <1>3, <1>4 DEF InOrder
  <1>11. StartsWith(t, last, 2 * Head(s).id + 1)
    BY <1>4, <1>8, <1>9, <1>10 DEF StartsWith
  <1> QED
    BY <1>11 DEF t

\* A description read as such, when description q or the chunk after it comes next, is the one of
\* header q \div 2.
LEMMA ReadDescription ==
    ASSUME NEW s \in Streams, s # << >>, NEW last \in Int, InOrder(s, last), NEW id \in Nat,
           NEW q \in {2 * id + 1, 2 * id + 2}, StartsWith(s, last, q), Head(s).kind = "desc"
    PROVE  Head(s).id = id
  <1>1. Len(s) \in Nat \ {0} /\ 1 \in ReportChunks(s) /\ s[1] = Head(s) /\ s[1] \in Chunks
    BY DEF Streams, ReportChunks
  <1>2. Key(s[1]) = 2 * Head(s).id + 1 /\ Head(s).id \in Nat
    BY <1>1 DEF Key, Chunks
  <1>3. Key(s[1]) <= last /\ Key(s[1]) >= q
    BY <1>1 DEF InOrder, StartsWith
  <1>4. PICK j \in ReportChunks(s) : Key(s[j]) = q
    BY <1>2, <1>3 DEF StartsWith
  <1>5. j \in Nat /\ j >= 1
    BY KeyType
  <1>6. j > 1 => Key(s[1]) < Key(s[j])
    BY <1>1, <1>5 DEF InOrder
  <1>7. j = 1
    BY <1>2, <1>3, <1>4, <1>5, <1>6
  <1>8. 2 * Head(s).id + 1 \in {2 * id + 1, 2 * id + 2}
    BY <1>2, <1>4, <1>7
  <1> QED
    BY <1>2, <1>8

-----------------------------------------------------------------------
(* Sending to such a stream.                                                                       *)

\* The chunks of a stream after a packet has been sent.
LEMMA SentChunks ==
    ASSUME NEW s \in Streams, NEW packet \in Streams
    PROVE  /\ Sent(s, packet) \in Streams /\ Len(Sent(s, packet)) = Len(s) + Len(packet)
           /\ \A i \in 1 .. Len(s) : Sent(s, packet)[i] = s[i]
           /\ \A i \in 1 .. Len(packet) :
                 /\ Sent(s, packet)[Len(s) + i].end = Unread(s) + packet[i].end
                 /\ Sent(s, packet)[Len(s) + i].kind = packet[i].kind
                 /\ Sent(s, packet)[Len(s) + i].id = packet[i].id
                 /\ Sent(s, packet)[Len(s) + i].num = packet[i].num
                 /\ Sent(s, packet)[Len(s) + i].tag = packet[i].tag
  <1> DEFINE t == Sent(s, packet)
             p == [i \in DOMAIN packet |-> [packet[i] EXCEPT !.end = Unread(s) + @]]
  <1>1. /\ Len(s) \in Nat /\ Len(packet) \in Nat /\ DOMAIN packet = 1 .. Len(packet)
        /\ \A i \in 1 .. Len(packet) : packet[i] \in Chunks
    BY DEF Streams
  <1>2. Unread(s) \in Int
    BY UnreadType
  <1>3. \A i \in 1 .. Len(packet) : p[i] \in Chunks
    <2> SUFFICES ASSUME NEW i \in 1 .. Len(packet) PROVE p[i] \in Chunks
      OBVIOUS
    <2>1. packet[i] \in Chunks /\ Unread(s) + packet[i].end \in Int
      BY <1>1, <1>2, EndType
    <2>2. [packet[i] EXCEPT !.end = Unread(s) + packet[i].end] \in Chunks
      BY <2>1, MovedType
    <2> QED
      BY <1>1, <2>2
  <1>4. p \in Seq(Chunks) /\ Len(p) = Len(packet)
    <2>1. p \in [1 .. Len(packet) -> Chunks]
      BY <1>1, <1>3
    <2> HIDE DEF p
    <2> QED
      BY <1>1, <2>1
  <1>5. t = s \o p /\ s \in Seq(Chunks)
    BY DEF Sent, Streams
  <1>6. \A i \in 1 .. Len(packet) : p[i] = [packet[i] EXCEPT !.end = Unread(s) + @]
    BY <1>1
  <1> HIDE DEF p, t
  <1>7. t \in Streams /\ Len(t) = Len(s) + Len(packet)
    <2>1. Len(s \o p) = Len(s) + Len(p)
      BY <1>4, <1>5, ConcatProperties, Zenon
    <2> QED
      BY <1>4, <1>5, <2>1, SentType DEF t
  <1>8. \A i \in 1 .. Len(s) : t[i] = s[i]
    BY <1>1, <1>4, <1>5
  <1>9. \A i \in 1 .. Len(packet) : t[Len(s) + i] = p[i]
    BY <1>1, <1>4, <1>5
  <1>10. \A i \in 1 .. Len(packet) :
            /\ t[Len(s) + i].end = Unread(s) + packet[i].end
            /\ t[Len(s) + i].kind = packet[i].kind /\ t[Len(s) + i].id = packet[i].id
            /\ t[Len(s) + i].num = packet[i].num /\ t[Len(s) + i].tag = packet[i].tag
    <2> SUFFICES ASSUME NEW i \in 1 .. Len(packet)
                 PROVE  /\ t[Len(s) + i].end = Unread(s) + packet[i].end
                        /\ t[Len(s) + i].kind = packet[i].kind /\ t[Len(s) + i].id = packet[i].id
                        /\ t[Len(s) + i].num = packet[i].num /\ t[Len(s) + i].tag = packet[i].tag
      OBVIOUS
    <2>1. t[Len(s) + i] = [packet[i] EXCEPT !.end = Unread(s) + packet[i].end] /\ packet[i] \in Chunks
      BY <1>1, <1>6, <1>9
    <2> QED
      BY <2>1 DEF Chunks
  <1> QED
    BY <1>7, <1>8, <1>10 DEF t

\* A packet spaced in itself leaves the stream spaced.
LEMMA SentSpaced ==
    ASSUME NEW s \in Streams, Spaced(s), NEW packet \in Streams, Spaced(packet)
    PROVE  Spaced(Sent(s, packet))
  <1> DEFINE t == Sent(s, packet)
  <1>1. /\ t \in Streams /\ Len(t) = Len(s) + Len(packet)
        /\ \A i \in 1 .. Len(s) : t[i] = s[i]
        /\ \A i \in 1 .. Len(packet) : /\ t[Len(s) + i].end = Unread(s) + packet[i].end
                                       /\ t[Len(s) + i].kind = packet[i].kind
    BY SentChunks
  <1> HIDE DEF t
  <1>2. /\ Len(s) \in Nat /\ Len(packet) \in Nat /\ DOMAIN s = 1 .. Len(s)
        /\ DOMAIN packet = 1 .. Len(packet) /\ DOMAIN t = 1 .. Len(t)
        /\ \A i \in 1 .. Len(s) : s[i].end \in Int
        /\ \A i \in 1 .. Len(packet) : packet[i].end \in Int
    BY <1>1, SpacedFacts
  <1>a. /\ \A i \in 1 .. Len(s) : Least(t, i) = Least(s, i) /\ Least(s, i) \in {1, 12}
        /\ \A i \in 1 .. Len(packet) : /\ Least(t, Len(s) + i) = Least(packet, i)
                                       /\ Least(packet, i) \in {1, 12}
    <2>1. \A i \in 1 .. Len(s) : i \in 1 .. Len(t)
      BY <1>1, <1>2
    <2>2. \A i \in 1 .. Len(packet) : Len(s) + i \in 1 .. Len(t)
      BY <1>1, <1>2
    <2> QED
      BY <1>1, <1>2, <2>1, <2>2 DEF Least, ReportChunks
  <1>3. \A i \in 1 .. Len(s) : /\ t[i] = s[i] /\ Least(t, i) = Least(s, i)
                               /\ s[i].end >= Least(s, i) /\ Least(s, i) \in {1, 12}
                               /\ \A m \in 1 .. i - 1 : s[m].end + Least(s, i) <= s[i].end
    BY <1>1, <1>2, <1>a, SpacedFacts
  <1>4. \A i \in 1 .. Len(packet) :
            /\ Least(t, Len(s) + i) = Least(packet, i) /\ Least(packet, i) \in {1, 12}
            /\ packet[i].end >= Least(packet, i)
            /\ \A m \in 1 .. i - 1 : packet[m].end + Least(packet, i) <= packet[i].end
    BY <1>1, <1>2, <1>a, SpacedFacts
  <1>5. Unread(s) \in Int /\ Unread(s) >= 0 /\ \A i \in 1 .. Len(s) : s[i].end <= Unread(s)
    <2>1. CASE s = << >>
      BY <2>1 DEF Unread
    <2>2. CASE s # << >>
      <3>1. Unread(s) = s[Len(s)].end /\ Len(s) \in 1 .. Len(s)
        BY <1>2, <2>2 DEF Unread
      <3>2. \A i \in 1 .. Len(s) : i = Len(s) \/ i \in 1 .. Len(s) - 1
        <4> SUFFICES ASSUME NEW i \in 1 .. Len(s) PROVE i = Len(s) \/ i \in 1 .. Len(s) - 1
          OBVIOUS
        <4>1. Len(s) \in Nat
          BY <1>2
        <4> QED
          BY <4>1
      <3>3. \A i \in 1 .. Len(s) - 1 : s[i].end + Least(s, Len(s)) <= s[Len(s)].end
        BY <1>3, <3>1
      <3>4. Least(s, Len(s)) \in {1, 12} /\ s[Len(s)].end >= Least(s, Len(s)) /\ s[Len(s)].end \in Int
        BY <1>2, <1>3, <3>1
      <3>5. \A i \in 1 .. Len(s) - 1 : s[i].end \in Int
        BY <1>2
      <3> QED
        BY <3>1, <3>2, <3>3, <3>4, <3>5
    <2> QED
      BY <2>1, <2>2
  <1>6. ASSUME NEW j \in 1 .. Len(t)
        PROVE  /\ t[j].end >= Least(t, j)
               /\ \A i \in 1 .. j - 1 : t[i].end + Least(t, j) <= t[j].end
    <2>1. CASE j \in 1 .. Len(s)
      <3>1. \A i \in 1 .. j - 1 : i \in 1 .. Len(s)
        BY <1>2, <2>1
      <3>2. \A i \in 1 .. j - 1 : t[i].end + Least(t, j) <= t[j].end
        BY <1>3, <2>1, <3>1
      <3> QED
        BY <1>3, <2>1, <3>2
    <2>2. CASE j \notin 1 .. Len(s)
      <3>1. PICK m \in 1 .. Len(packet) : j = Len(s) + m
        <4>1. j - Len(s) \in 1 .. Len(packet) /\ j = Len(s) + (j - Len(s))
          BY <1>1, <1>2, <2>2
        <4> QED
          BY <4>1
      <3>2. /\ t[j].end = Unread(s) + packet[m].end /\ Least(t, j) = Least(packet, m)
            /\ Least(packet, m) \in {1, 12} /\ packet[m].end >= Least(packet, m)
            /\ packet[m].end \in Int
        BY <1>1, <1>2, <1>4, <3>1
      <3>3. ASSUME NEW i \in 1 .. j - 1 PROVE t[i].end + Least(t, j) <= t[j].end
        <4>1. CASE i \in 1 .. Len(s)
          <5>1. t[i].end <= Unread(s) /\ t[i].end \in Int
            BY <1>2, <1>3, <1>5, <4>1
          <5> QED
            BY <1>5, <3>2, <5>1
        <4>2. CASE i \notin 1 .. Len(s)
          <5>1. PICK r \in 1 .. m - 1 : i = Len(s) + r
            <6>1. i - Len(s) \in 1 .. m - 1 /\ i = Len(s) + (i - Len(s))
              BY <1>2, <3>1, <4>2
            <6> QED
              BY <6>1
          <5>2. r \in 1 .. Len(packet)
            BY <1>2
          <5>3. t[i].end = Unread(s) + packet[r].end /\ packet[r].end \in Int
            BY <1>1, <1>2, <5>1, <5>2
          <5>4. packet[r].end + Least(packet, m) <= packet[m].end
            BY <1>4
          <5> QED
            BY <1>5, <3>2, <5>3, <5>4
        <4> QED
          BY <4>1, <4>2
      <3> QED
        BY <1>5, <3>2, <3>3
    <2> QED
      BY <2>1, <2>2
  <1>7. Spaced(t)
    BY <1>1, <1>6, SpacedFacts
  <1> QED
    BY <1>7 DEF t

\* A packet with no chunk of a report in it changes nothing else that was said of the stream.
LEMMA SentOther ==
    ASSUME NEW s \in Streams, NEW packet \in Streams, ReportChunks(packet) = {}, NEW last, NEW q
    PROVE  /\ ReportChunks(Sent(s, packet)) = ReportChunks(s)
           /\ \A i \in ReportChunks(s) : Sent(s, packet)[i] = s[i]
           /\ Genuine(s) => Genuine(Sent(s, packet))
           /\ InOrder(s, last) => InOrder(Sent(s, packet), last)
           /\ StartsWith(s, last, q) => StartsWith(Sent(s, packet), last, q)
  <1> DEFINE t == Sent(s, packet)
  <1>1. /\ t \in Streams /\ Len(t) = Len(s) + Len(packet)
        /\ \A i \in 1 .. Len(s) : t[i] = s[i]
        /\ \A i \in 1 .. Len(packet) : t[Len(s) + i].kind = packet[i].kind
    BY SentChunks
  <1> HIDE DEF t
  <1>2. /\ Len(s) \in Nat /\ Len(packet) \in Nat /\ DOMAIN s = 1 .. Len(s)
        /\ DOMAIN packet = 1 .. Len(packet) /\ DOMAIN t = 1 .. Len(t)
    BY <1>1, SpacedFacts
  <1>3. ReportChunks(t) = ReportChunks(s)
    <2>1. \A i \in 1 .. Len(t) : i \in 1 .. Len(s) \/ i - Len(s) \in 1 .. Len(packet)
      BY <1>1, <1>2
    <2>2. \A i \in 1 .. Len(s) : i \in 1 .. Len(t)
      BY <1>1, <1>2
    <2>3. \A i \in 1 .. Len(t) : i - Len(s) \in 1 .. Len(packet) => t[i].kind \notin {"header", "desc"}
      <3> SUFFICES ASSUME NEW i \in 1 .. Len(t), i - Len(s) \in 1 .. Len(packet)
                   PROVE  t[i].kind \notin {"header", "desc"}
        OBVIOUS
      <3>1. t[Len(s) + (i - Len(s))].kind = packet[i - Len(s)].kind /\ Len(s) + (i - Len(s)) = i
        BY <1>1, <1>2
      <3> QED
        BY <1>2, <3>1 DEF ReportChunks
    <2> QED
      BY <1>1, <1>2, <2>1, <2>2, <2>3 DEF ReportChunks
  <1>4. \A i \in ReportChunks(s) : t[i] = s[i]
    BY <1>1, <1>2 DEF ReportChunks
  <1>5. Genuine(s) => Genuine(t)
    BY <1>3, <1>4 DEF Genuine
  <1>6. InOrder(s, last) => InOrder(t, last)
    BY <1>3, <1>4 DEF InOrder
  <1>7. StartsWith(s, last, q) => StartsWith(t, last, q)
    BY <1>3, <1>4 DEF StartsWith
  <1> QED
    BY <1>3, <1>4, <1>5, <1>6, <1>7 DEF t

\* The next chunk of a report joins those before it.
LEMMA SentReport ==
    ASSUME NEW s \in Streams, NEW c \in Chunks, c.kind \in {"header", "desc"}, Genuine(s),
           c.id \in 1 .. Len(reports), c.kind = "header" => c.num = reports[c.id],
           NEW last \in Int, Key(c) = last + 1, InOrder(s, last)
    PROVE  /\ Genuine(Sent(s, <<c>>)) /\ InOrder(Sent(s, <<c>>), last + 1)
           /\ \A q \in Int : StartsWith(s, last, q) => StartsWith(Sent(s, <<c>>), last + 1, q)
  <1> DEFINE p == <<c>>
             t == Sent(s, p)
             m == Len(s) + 1
  <1>0. p \in Streams /\ Len(p) = 1 /\ p[1] = c /\ 1 \in 1 .. 1
    BY DEF Streams
  <1> HIDE DEF p
  <1>1. /\ t \in Streams /\ Len(t) = m
        /\ \A i \in 1 .. Len(s) : t[i] = s[i]
        /\ t[m].kind = c.kind /\ t[m].id = c.id /\ t[m].num = c.num
    <2>1. /\ t \in Streams /\ Len(t) = Len(s) + Len(p)
          /\ \A i \in 1 .. Len(s) : t[i] = s[i]
          /\ \A i \in 1 .. Len(p) : /\ t[Len(s) + i].end = Unread(s) + p[i].end
                                    /\ t[Len(s) + i].kind = p[i].kind
                                    /\ t[Len(s) + i].id = p[i].id
                                    /\ t[Len(s) + i].num = p[i].num
                                    /\ t[Len(s) + i].tag = p[i].tag
      BY <1>0, SentChunks, Zenon
    <2> HIDE DEF t
    <2> QED
      BY <1>0, <2>1
  <1> HIDE DEF t
  <1>2. Len(s) \in Nat /\ DOMAIN s = 1 .. Len(s) /\ DOMAIN t = 1 .. m /\ m \in Nat
    BY <1>1, SpacedFacts
  <1>3. Key(t[m]) = last + 1
    BY <1>1 DEF Key
  <1> HIDE DEF m
  <1>4. ReportChunks(t) = ReportChunks(s) \union {m}
    BY <1>1, <1>2 DEF ReportChunks, m
  <1>5. \A i \in ReportChunks(s) : /\ t[i] = s[i] /\ i \in Nat /\ i < m
                                   /\ Key(s[i]) \in Int /\ Key(s[i]) <= last
    BY <1>1, <1>2, KeyType DEF ReportChunks, InOrder, m
  <1>6. Genuine(t)
    BY <1>1, <1>4, <1>5 DEF Genuine
  <1>7. InOrder(t, last + 1)
    <2> SUFFICES ASSUME NEW i \in ReportChunks(t)
                 PROVE  /\ Key(t[i]) <= last + 1
                        /\ \A j \in ReportChunks(t) : i < j => Key(t[i]) < Key(t[j])
                        /\ \A q \in Key(t[i]) + 1 .. last + 1 :
                              \E j \in ReportChunks(t) : Key(t[j]) = q
      BY DEF InOrder
    <2>1. CASE i = m
      <3>1. \A j \in ReportChunks(t) : ~ (m < j)
        BY <1>2, <1>4, <1>5
      <3> QED
        BY <1>3, <2>1, <3>1
    <2>2. CASE i \in ReportChunks(s)
      <3>1. Key(t[i]) \in Int /\ Key(t[i]) <= last /\ t[i] = s[i]
        BY <1>5, <2>2
      <3>2. \A j \in ReportChunks(t) : i < j => Key(t[i]) < Key(t[j])
        <4> SUFFICES ASSUME NEW j \in ReportChunks(t), i < j PROVE Key(t[i]) < Key(t[j])
          OBVIOUS
        <4>1. CASE j = m
          BY <1>3, <3>1, <4>1
        <4>2. CASE j \in ReportChunks(s)
          BY <1>5, <2>2, <4>2 DEF InOrder
        <4> QED
          BY <1>4, <4>1, <4>2
      <3>3. \A q \in Key(t[i]) + 1 .. last + 1 : \E j \in ReportChunks(t) : Key(t[j]) = q
        <4> SUFFICES ASSUME NEW q \in Key(t[i]) + 1 .. last + 1
                     PROVE  \E j \in ReportChunks(t) : Key(t[j]) = q
          OBVIOUS
        <4>1. CASE q = last + 1
          BY <1>3, <1>4, <4>1
        <4>2. CASE q # last + 1
          <5>1. q \in Key(s[i]) + 1 .. last
            BY <3>1, <4>2
          <5>2. PICK j \in ReportChunks(s) : Key(s[j]) = q
            BY <2>2, <5>1 DEF InOrder
          <5> QED
            BY <1>4, <1>5, <5>2
        <4> QED
          BY <4>1, <4>2
      <3> QED
        BY <3>1, <3>2, <3>3
    <2> QED
      BY <1>4, <2>1, <2>2
  <1>8. ASSUME NEW q \in Int, StartsWith(s, last, q) PROVE StartsWith(t, last + 1, q)
    <2>1. q <= last + 1
      BY <1>8 DEF StartsWith
    <2>2. \A i \in ReportChunks(t) : Key(t[i]) >= q
      BY <1>3, <1>4, <1>5, <1>8, <2>1 DEF StartsWith
    <2>3. CASE q = last + 1
      BY <1>3, <1>4, <2>2, <2>3 DEF StartsWith
    <2>4. CASE q # last + 1
      <3>1. PICK i \in ReportChunks(s) : Key(s[i]) = q
        BY <1>8, <2>1, <2>4 DEF StartsWith
      <3>2. i \in ReportChunks(t) /\ Key(t[i]) = q
        BY <1>4, <1>5, <3>1
      <3> QED
        BY <2>1, <2>2, <3>2 DEF StartsWith
    <2> QED
      BY <2>3, <2>4
  <1> QED
    BY <1>6, <1>7, <1>8 DEF t, p

-----------------------------------------------------------------------
(* The invariant.                                                                                  *)

\* The last chunk of a report that the client has sent; before its first report, 1.
LastKey == 2 * Current + (CASE main \in {"sendHeaderLen", "sendHeader"} -> -1
                            [] main \in {"sendDescLen", "sendDesc"} -> 0
                            [] OTHER -> 1)

\* The stream in the order of sending and, once a header of the client's is in the server's hand,
\* with its description next: the length before it may be a heartbeat's, read for it.
InStep(last) ==
    /\ main \notin {"join", "exited"} => last = LastKey
    /\ InOrder(c2s, last)
    /\ hdr.id > 0 /\ phase = "descLength" => StartsWith(c2s, last, 2 * hdr.id + 1)
    /\ hdr.id > 0 /\ phase = "desc" =>
          \E q \in {2 * hdr.id + 1, 2 * hdr.id + 2} : StartsWith(c2s, last, q)

StreamInv ==
    phase \notin {"ended", "closed"} =>
        /\ "server" \notin closed
        /\ Spaced(c2s) /\ Genuine(c2s)
        /\ \E last \in 1 .. 2 * Len(reports) + 1 : InStep(last)

\* The header in the server's hand is one that the client filed, or nobody's.
HeaderInHand == hdr.id <= Len(reports) /\ (hdr.id > 0 => hdr.severity = reports[hdr.id])

LedgerInv == StreamInv /\ HeaderInHand /\ LedgerFaithful

\* What the server has in hand and in its ledger outlasts the steps of the client.
LEMMA ClientKeepsLedger ==
    ASSUME TypeOK, HeaderInHand, LedgerFaithful, UNCHANGED <<hdr, ledger>>,
           reports' = reports \/ \E severity \in 0 .. 5 : reports' = Append(reports, severity)
    PROVE  HeaderInHand' /\ LedgerFaithful'
  <1>1. /\ reports \in Seq(0 .. 5) /\ Len(reports) \in Nat /\ Len(reports') \in Nat
        /\ Len(reports) <= Len(reports')
        /\ \A r \in 1 .. Len(reports) : reports'[r] = reports[r]
    <2>1. reports \in Seq(0 .. 5) /\ Len(reports) \in Nat
      BY DEF TypeOK, CliTypes
    <2>2. CASE reports' = reports
      BY <2>1, <2>2
    <2>3. CASE \E severity \in 0 .. 5 : reports' = Append(reports, severity)
      <3>1. PICK severity \in 0 .. 5 : reports' = Append(reports, severity)
        BY <2>3
      <3>2. Len(reports') = Len(reports) + 1 /\ \A r \in 1 .. Len(reports) : reports'[r] = reports[r]
        BY <2>1, <3>1
      <3> QED
        BY <2>1, <3>2
    <2> QED
      BY <2>2, <2>3
  <1>2. hdr \in Headers /\ ledger \in Seq(Records)
    BY DEF TypeOK, SrvTypes
  <1>3. HeaderInHand'
    <2>1. hdr.id \in Nat
      BY <1>2 DEF Headers
    <2> QED
      BY <1>1, <2>1 DEF HeaderInHand
  <1>4. LedgerFaithful'
    <2> SUFFICES ASSUME NEW i \in DOMAIN ledger, ledger[i].id > 0
                 PROVE  /\ ledger[i].id <= Len(reports')
                        /\ ledger[i].severity = reports'[ledger[i].id]
                        /\ ledger[i].desc \in {ledger[i].id, 0}
      BY DEF LedgerFaithful
    <2>1. ledger[i].id \in Nat
      <3>1. ledger[i] \in Records
        BY <1>2
      <3> QED
        BY <3>1 DEF Records
    <2>2. /\ ledger[i].id <= Len(reports) /\ ledger[i].severity = reports[ledger[i].id]
          /\ ledger[i].desc \in {ledger[i].id, 0}
      BY DEF LedgerFaithful
    <2>3. ledger[i].id \in 1 .. Len(reports)
      BY <1>1, <2>1, <2>2
    <2> QED
      BY <1>1, <2>1, <2>2, <2>3
  <1> QED
    BY <1>3, <1>4

\* A read of the server, whatever its length, keeps the order of the stream.
LEMMA ServerReadKeeps ==
    ASSUME TypeOK, StreamInv, phase \notin {"ended", "closed"}, NEW n \in Nat, ServerReads(n),
           UNCHANGED <<closed, cliVars>>
    PROVE  /\ "server" \notin closed' /\ Spaced(c2s') /\ Genuine(c2s)'
           /\ \A last \in 1 .. 2 * Len(reports) + 1 : InStep(last) =>
                 /\ InOrder(c2s', last)
                 /\ main' \notin {"join", "exited"} => last = LastKey'
  <1>1. c2s \in Streams /\ Spaced(c2s) /\ Genuine(c2s) /\ "server" \notin closed
    BY DEF TypeOK, TcpTypes, StreamInv
  <1>2. c2s' = AfterRead(c2s, n) /\ n \in Int
    BY DEF ServerReads
  <1>3. Increasing(c2s) /\ Spaced(c2s')
    BY <1>1, <1>2, SpacedIncreasing, ReadSpaced
  <1>4. Genuine(c2s)'
    <2>1. 1 \in Int
      OBVIOUS
    <2>2. Genuine(AfterRead(c2s, n))
      BY <1>1, <1>2, <1>3, <2>1, ReadInOrder
    <2>3. reports' = reports
      BY DEF cliVars
    <2> QED
      BY <1>2, <2>2, <2>3 DEF Genuine
  <1>5. LastKey' = LastKey /\ main' = main
    BY DEF LastKey, Current, cliVars
  <1>6. \A last \in 1 .. 2 * Len(reports) + 1 : InStep(last) => InOrder(c2s', last)
    <2> SUFFICES ASSUME NEW last \in 1 .. 2 * Len(reports) + 1, InStep(last)
                 PROVE  InOrder(AfterRead(c2s, n), last)
      BY <1>2
    <2>1. last \in Int /\ InOrder(c2s, last)
      BY DEF InStep
    <2> QED
      BY <1>1, <1>2, <1>3, <2>1, ReadInOrder
  <1> QED
    BY <1>1, <1>3, <1>4, <1>5, <1>6 DEF InStep

\* Steps of the server keep the invariant.
LEMMA ServerLedgerStep ==
    ASSUME TypeOK, LedgerInv, SrvNext, UNCHANGED cliVars PROVE LedgerInv'
  <1> USE DEF LedgerInv
  <1>a. /\ c2s \in Streams /\ want \in Nat /\ 4 \in Nat /\ hdr \in Headers /\ ledger \in Seq(Records)
        /\ Len(reports) \in Nat
    BY DEF TypeOK, TcpTypes, SrvTypes, CliTypes
  <1>b. reports' = reports /\ main' = main /\ LastKey' = LastKey
    BY DEF cliVars, LastKey, Current
  <1>c. UNCHANGED <<hdr, ledger>> => HeaderInHand' /\ LedgerFaithful'
    BY <1>b DEF HeaderInHand, LedgerFaithful
  \* The session ends ...
  <1>1. CASE phase' \in {"ended", "closed"} /\ UNCHANGED <<hdr, ledger>>
    BY <1>1, <1>c DEF StreamInv
  \* ... or reads nothing ...
  <1>2. ASSUME phase' \in {"select", "length", "send"}, phase \notin {"ended", "closed"},
               UNCHANGED <<c2s, closed, hdr, ledger>>
        PROVE  LedgerInv'
    <2>1. PICK last \in 1 .. 2 * Len(reports) + 1 : InStep(last)
      BY <1>2 DEF StreamInv
    <2>2. InStep(last)'
      BY <1>2, <1>b, <2>1 DEF InStep
    <2>3. "server" \notin closed' /\ Spaced(c2s)' /\ Genuine(c2s)'
      BY <1>2, <1>b DEF StreamInv, Spaced, ReportChunks, Genuine
    <2>4. StreamInv'
      BY <1>b, <2>2, <2>3 DEF StreamInv
    <2> QED
      BY <1>2, <1>c, <2>4
  \* ... or reads something that is not a description's length.
  <1>3. ASSUME phase' \notin {"descLength", "desc"}, phase \notin {"ended", "closed"},
               NEW n \in Nat, ServerReads(n), UNCHANGED closed
        PROVE  StreamInv'
    <2>1. PICK last \in 1 .. 2 * Len(reports) + 1 : InStep(last)
      BY <1>3 DEF StreamInv
    <2>2. /\ "server" \notin closed' /\ Spaced(c2s)' /\ Genuine(c2s)' /\ InOrder(c2s', last)
          /\ main' \notin {"join", "exited"} => last = LastKey'
      BY <1>3, <2>1, ServerReadKeeps
    <2>3. InStep(last)'
      BY <1>3, <2>2 DEF InStep
    <2> QED
      BY <1>b, <2>2, <2>3 DEF StreamInv
  <1>4. CASE SrvAcceptLogin \/ SrvRejectLogin
    <2>1. CASE SrvRejectLogin
      BY <2>1, <1>1 DEF SrvRejectLogin, Abandon
    <2>2. CASE SrvAcceptLogin
      <3>1. c2s[2].end \in Nat
        <4>1. Len(c2s) >= 2 /\ Spaced(c2s)
          BY <2>2 DEF SrvAcceptLogin, LoginArrived, StreamInv
        <4>2. 2 \in 1 .. Len(c2s)
          BY <1>a, <4>1, SpacedFacts
        <4>3. c2s[2].end \in Int /\ c2s[2].end >= Least(c2s, 2)
          BY <1>a, <4>1, <4>2, SpacedFacts
        <4> QED
          BY <4>3 DEF Least
      <3>2. ServerReads(c2s[2].end) /\ UNCHANGED closed /\ UNCHANGED <<hdr, ledger>>
        BY <2>2 DEF SrvAcceptLogin, LoginArrived, ServerSend
      <3>3. StreamInv'
        BY <1>3, <2>2, <3>1, <3>2 DEF SrvAcceptLogin
      <3> QED
        BY <1>c, <3>2, <3>3
    <2> QED
      BY <1>4, <2>1, <2>2
  <1>5. CASE SrvLoginFails \/ SrvSelectFails \/ SrvRecvFails \/ SrvRecvMalformed
             \/ SrvRecvBadDescription \/ SrvSendFails \/ SrvClose
    BY <1>5, <1>1 DEF SrvLoginFails, SrvSelectFails, SrvRecvFails, SrvRecvMalformed,
       SrvRecvBadDescription, SrvSendFails, SrvClose, Abandon, Disconnect
  <1>6. CASE SrvSelect \/ SrvSendAnswer \/ SrvSendDone
    BY <1>6, <1>2 DEF SrvSelect, SrvSendAnswer, SrvSendDone, ServerSend, tcpVars
  <1>7. CASE SrvRecvLength
    <2>1. CASE phase' = "ended" /\ UNCHANGED <<hdr, ledger>>
      BY <2>1, <1>1
    <2>2. CASE phase = "length" /\ phase' = "payload" /\ UNCHANGED <<hdr, ledger>>
      <3>1. ServerReads(4) /\ UNCHANGED closed
        BY <1>7 DEF SrvRecvLength
      <3> QED
        BY <1>3, <1>a, <1>c, <2>2, <3>1
    <2>3. CASE phase = "descLength" /\ phase' = "desc" /\ UNCHANGED <<hdr, ledger>>
      <3>1. ServerReads(4) /\ UNCHANGED closed /\ c2s' = AfterRead(c2s, 4)
        BY <1>7 DEF SrvRecvLength, ServerReads
      <3>2. PICK last \in 1 .. 2 * Len(reports) + 1 : InStep(last)
        BY <2>3 DEF StreamInv
      <3>3. /\ "server" \notin closed' /\ Spaced(c2s)' /\ Genuine(c2s)' /\ InOrder(c2s', last)
            /\ main' \notin {"join", "exited"} => last = LastKey'
        BY <1>a, <2>3, <3>1, <3>2, ServerReadKeeps
      <3>4. hdr.id > 0 => \E q \in {2 * hdr.id + 1, 2 * hdr.id + 2} : StartsWith(c2s', last, q)
        <4> SUFFICES ASSUME hdr.id > 0
                     PROVE  \E q \in {2 * hdr.id + 1, 2 * hdr.id + 2} : StartsWith(c2s', last, q)
          OBVIOUS
        <4>1. hdr.id \in Nat
          BY <1>a DEF Headers
        <4>2. /\ Spaced(c2s) /\ last \in Int /\ InOrder(c2s, last) /\ 2 * hdr.id + 1 \in Int
              /\ StartsWith(c2s, last, 2 * hdr.id + 1)
          BY <2>3, <3>2, <4>1 DEF StreamInv, InStep
        <4>3. \E q \in {2 * hdr.id + 1, (2 * hdr.id + 1) + 1} : StartsWith(AfterRead(c2s, 4), last, q)
          BY <1>a, <4>2, ReadLength
        <4>4. (2 * hdr.id + 1) + 1 = 2 * hdr.id + 2
          BY <4>1
        <4> QED
          BY <3>1, <4>3, <4>4
      <3>5. InStep(last)'
        BY <2>3, <3>3, <3>4 DEF InStep
      <3>6. StreamInv'
        BY <1>b, <3>3, <3>5 DEF StreamInv
      <3> QED
        BY <1>c, <2>3, <3>6
    <2> QED
      BY <1>7, <2>1, <2>2, <2>3 DEF SrvRecvLength, Disconnect
  <1>8. CASE SrvRecvHeartbeat
    <2>1. ServerReads(want) /\ UNCHANGED closed /\ UNCHANGED <<hdr, ledger>>
      BY <1>8 DEF SrvRecvHeartbeat
    <2>2. StreamInv'
      BY <1>3, <1>8, <1>a, <2>1 DEF SrvRecvHeartbeat
    <2> QED
      BY <1>c, <2>1, <2>2
  <1>9. CASE SrvRecvHeader
    <2>1. /\ ServerReads(want) /\ UNCHANGED closed /\ UNCHANGED ledger /\ phase' = "descLength"
          /\ c2s # << >> /\ c2s' = AfterRead(c2s, want) /\ phase = "payload"
          /\ hdr' \in HeadersIn(Payload(c2s, want))
      BY <1>9 DEF SrvRecvHeader, ServerReads
    <2>2. PICK last \in 1 .. 2 * Len(reports) + 1 : InStep(last)
      BY <2>1 DEF StreamInv
    <2>3. /\ "server" \notin closed' /\ Spaced(c2s)' /\ Genuine(c2s)' /\ InOrder(c2s', last)
          /\ main' \notin {"join", "exited"} => last = LastKey'
      BY <1>a, <2>1, <2>2, ServerReadKeeps
    <2>4. CASE hdr'.id = 0
      <3>1. InStep(last)'
        BY <2>1, <2>3, <2>4 DEF InStep
      <3>2. StreamInv'
        BY <1>b, <2>3, <3>1 DEF StreamInv
      <3>3. HeaderInHand' /\ LedgerFaithful'
        BY <1>a, <1>b, <2>1, <2>4 DEF HeaderInHand, LedgerFaithful
      <3> QED
        BY <3>2, <3>3
    <2>5. CASE hdr'.id # 0
      <3>1. /\ Head(c2s).kind = "header" /\ Head(c2s).end = want
            /\ hdr'.id = Head(c2s).id /\ hdr'.severity = Head(c2s).num
        BY <2>1, <2>5 DEF HeadersIn, GarbledHeaders, Payload, Chunk
      <3>2. Spaced(c2s) /\ Genuine(c2s) /\ last \in Int /\ InOrder(c2s, last)
        BY <2>1, <2>2 DEF StreamInv, InStep
      <3>3. StartsWith(c2s', last, 2 * hdr'.id + 1)
        <4>1. StartsWith(AfterRead(c2s, want), last, 2 * Head(c2s).id + 1)
          BY <1>a, <2>1, <3>1, <3>2, ReadHeader
        <4> QED
          BY <2>1, <3>1, <4>1
      <3>4. InStep(last)'
        BY <2>1, <2>3, <3>3 DEF InStep
      <3>5. StreamInv'
        BY <1>b, <2>3, <3>4 DEF StreamInv
      <3>6. HeaderInHand'
        <4>1. 1 \in ReportChunks(c2s) /\ c2s[1] = Head(c2s)
          BY <1>a, <2>1, <3>1 DEF ReportChunks, Streams
        <4>2. Head(c2s).id \in 1 .. Len(reports) /\ Head(c2s).num = reports[Head(c2s).id]
          BY <3>1, <3>2, <4>1 DEF Genuine
        <4> QED
          BY <1>a, <1>b, <3>1, <4>2 DEF HeaderInHand
      <3>7. LedgerFaithful'
        BY <1>b, <2>1 DEF LedgerFaithful
      <3> QED
        BY <3>5, <3>6, <3>7
    <2> QED
      BY <2>4, <2>5
  <1>10. CASE SrvRecordReport
    <2>1. /\ ServerReads(want) /\ UNCHANGED closed /\ phase' = "send" /\ phase = "desc"
          /\ hdr' = NoHeader /\ c2s # << >>
      BY <1>10 DEF SrvRecordReport, ServerReads
    <2>2. StreamInv'
      BY <1>3, <1>a, <2>1
    <2>3. HeaderInHand'
      BY <1>a, <1>b, <2>1 DEF HeaderInHand, NoHeader
    <2>4. PICK d \in DescriptionsIn(Payload(c2s, want)), saved \in SaveResults :
             ledger' = Append(ledger, [id |-> hdr.id, desc |-> d, severity |-> hdr.severity,
                                       saved |-> saved])
      BY <1>10 DEF SrvRecordReport
    <2>5. hdr.id > 0 => d \in {hdr.id, 0}
      <3> SUFFICES ASSUME hdr.id > 0, d # 0 PROVE d = hdr.id
        OBVIOUS
      <3>1. PICK last \in 1 .. 2 * Len(reports) + 1 : InStep(last)
        BY <2>1 DEF StreamInv
      <3>2. PICK q \in {2 * hdr.id + 1, 2 * hdr.id + 2} : StartsWith(c2s, last, q)
        BY <2>1, <3>1 DEF InStep
      <3>3. Head(c2s).kind = "desc" /\ d = Head(c2s).id
        BY <2>4 DEF DescriptionsIn, Payload, Chunk
      <3>4. hdr.id \in Nat /\ last \in Int /\ InOrder(c2s, last)
        BY <1>a, <3>1 DEF Headers, InStep
      <3>5. Head(c2s).id = hdr.id
        BY <1>a, <2>1, <3>2, <3>3, <3>4, ReadDescription
      <3> QED
        BY <3>3, <3>5
    <2>6. LedgerFaithful'
      <3> DEFINE e == [id |-> hdr.id, desc |-> d, severity |-> hdr.severity, saved |-> saved]
      <3> SUFFICES ASSUME NEW i \in DOMAIN ledger', ledger'[i].id > 0
                   PROVE  /\ ledger'[i].id <= Len(reports)
                          /\ ledger'[i].severity = reports[ledger'[i].id]
                          /\ ledger'[i].desc \in {ledger'[i].id, 0}
        BY <1>b DEF LedgerFaithful
      <3>0. ledger' = Append(ledger, e) /\ e.id = hdr.id /\ e.desc = d /\ e.severity = hdr.severity
        BY <2>4
      <3> HIDE DEF e
      <3>1. CASE i \in DOMAIN ledger
        <4>1. ledger'[i] = ledger[i]
          BY <1>a, <3>0, <3>1
        <4> QED
          BY <3>1, <4>1 DEF LedgerFaithful
      <3>2. CASE i \notin DOMAIN ledger
        <4>1. ledger'[i] = e
          BY <1>a, <3>0, <3>2
        <4> QED
          BY <2>5, <3>0, <4>1 DEF HeaderInHand
      <3> QED
        BY <3>1, <3>2
    <2> QED
      BY <2>2, <2>3, <2>6
  <1> QED
    BY <1>4, <1>5, <1>6, <1>7, <1>8, <1>9, <1>10 DEF SrvNext

\* The packets of the client that carry no chunk of a report are spaced.
LEMMA OtherPackets ==
    /\ \A n \in Int : LET p == <<IntChunk(n)>> IN
          p \in Streams /\ Spaced(p) /\ ReportChunks(p) = {}
    /\ \A cred \in Credentials : LET p == << >> \oplus IntChunk(AuthLen(cred)) \oplus AuthChunk(cred) IN
          p \in Streams /\ Spaced(p) /\ ReportChunks(p) = {}
  <1>1. ASSUME NEW n \in Int
        PROVE  /\ <<IntChunk(n)>> \in Streams /\ Spaced(<<IntChunk(n)>>)
               /\ ReportChunks(<<IntChunk(n)>>) = {}
    <2>1. IntChunk(n) \in Chunks /\ IntChunk(n).kind = "int" /\ IntChunk(n).end = 4
      <3>1. IntChunk(n) \in Chunks
        BY SentChunkTypes, 0 \in Nat DEF Credentials, SrvState
      <3> QED
        BY <3>1 DEF IntChunk, Chunk
    <2> DEFINE p == <<IntChunk(n)>>
    <2>2. p \in Streams /\ Len(p) = 1 /\ p[1].kind = "int" /\ p[1].end = 4 /\ DOMAIN p = 1 .. 1
      BY <2>1 DEF Streams
    <2> HIDE DEF p
    <2>3. ReportChunks(p) = {}
      BY <2>2 DEF ReportChunks
    <2>4. Spaced(p)
      BY <2>2, <2>3 DEF Spaced
    <2> QED
      BY <2>2, <2>3, <2>4 DEF p
  <1>2. ASSUME NEW cred \in Credentials
        PROVE  LET p == << >> \oplus IntChunk(AuthLen(cred)) \oplus AuthChunk(cred) IN
                  p \in Streams /\ Spaced(p) /\ ReportChunks(p) = {}
    <2> DEFINE a == IntChunk(AuthLen(cred))
               b == [AuthChunk(cred) EXCEPT !.end = 4 + @]
               p == << >> \oplus a \oplus AuthChunk(cred)
    <2>1. a \in Chunks /\ a.kind = "int" /\ a.end = 4 /\ [a EXCEPT !.end = 0 + @] = a
      <3>1. a \in Chunks
        BY SentChunkTypes, 0 \in Nat DEF AuthLen, Credentials, SrvState
      <3>2. a.kind = "int" /\ a.end = 4
        BY DEF IntChunk, Chunk
      <3> HIDE DEF a
      <3> QED
        BY <3>1, <3>2 DEF Chunks
    <2>2. b \in Chunks /\ b.kind = "auth" /\ b.end = 4 + AuthLen(cred) /\ AuthLen(cred) \in {14, 300}
      <3>1. AuthChunk(cred) \in Chunks /\ AuthLen(cred) \in {14, 300}
        BY SentChunkTypes, 0 \in Nat DEF AuthLen, Credentials, SrvState
      <3>2. AuthChunk(cred).kind = "auth" /\ AuthChunk(cred).end = AuthLen(cred)
        BY DEF AuthChunk, Chunk
      <3> QED
        BY <3>1, <3>2 DEF Chunks
    <2>3. << >> \oplus a = <<a>>
      BY <2>1 DEF \oplus, Unread
    <2>4. Unread(<<a>>) = 4
      BY <2>1 DEF Unread
    <2>5. p = Append(<<a>>, b)
      <3>1. p = <<a>> \oplus AuthChunk(cred)
        BY <2>3
      <3>2. <<a>> \oplus AuthChunk(cred) = Append(<<a>>, b)
        BY <2>4 DEF \oplus
      <3> HIDE DEF p, a, b
      <3> QED
        BY <3>1, <3>2
    <2> HIDE DEF a, b, p
    <2>6. p \in Streams /\ Len(p) = 2 /\ DOMAIN p = 1 .. 2 /\ p[1] = a /\ p[2] = b
      <3>1. <<a>> \in Seq(Chunks) /\ Len(<<a>>) = 1 /\ <<a>>[1] = a
        BY <2>1
      <3> QED
        BY <2>1, <2>2, <2>5, <3>1 DEF Streams
    <2>7. ReportChunks(p) = {}
      <3>1. \A i \in 1 .. 2 : i = 1 \/ i = 2
        OBVIOUS
      <3> QED
        BY <2>1, <2>2, <2>6, <3>1 DEF ReportChunks
    <2>8. Spaced(p)
      <3>1. \A j \in 1 .. 2 : j = 1 \/ j = 2
        OBVIOUS
      <3>2. \A i \in 1 .. 1 - 1 : FALSE
        OBVIOUS
      <3>3. \A i \in 1 .. 2 - 1 : i = 1
        OBVIOUS
      <3> QED
        BY <2>1, <2>2, <2>6, <2>7, <3>1, <3>2, <3>3 DEF Spaced
    <2> QED
      BY <2>6, <2>7, <2>8 DEF p, a
  <1> QED
    BY <1>1, <1>2

\* A send of the client that carries no chunk of a report.
LEMMA OtherSend ==
    ASSUME TypeOK, StreamInv, NEW packet \in Streams, Spaced(packet), ReportChunks(packet) = {},
           ClientSend(packet), UNCHANGED <<srvVars, reports>>,
           main \notin {"join", "exited"} => main' \notin {"join", "exited"} /\ LastKey' = LastKey,
           main \in {"join", "exited"} => main' \in {"join", "exited"}
    PROVE  StreamInv'
  <1> SUFFICES ASSUME phase \notin {"ended", "closed"}
               PROVE  /\ "server" \notin closed' /\ Spaced(c2s') /\ Genuine(c2s)'
                      /\ \E last \in 1 .. 2 * Len(reports) + 1 : InStep(last)'
    BY DEF StreamInv, srvVars
  <1>1. /\ "server" \notin closed /\ c2s \in Streams /\ Spaced(c2s) /\ Genuine(c2s)
    BY DEF StreamInv, TypeOK, TcpTypes
  <1>2. c2s' = Sent(c2s, packet) /\ closed' = closed
    BY <1>1 DEF ClientSend
  <1>3. PICK last \in 1 .. 2 * Len(reports) + 1 : InStep(last)
    BY DEF StreamInv
  <1>4. Spaced(c2s')
    BY <1>1, <1>2, SentSpaced
  <1>5. Genuine(c2s)'
    <2>1. Genuine(Sent(c2s, packet))
      BY <1>1, SentOther
    <2> QED
      BY <1>2, <2>1 DEF Genuine
  <1>6. InOrder(c2s', last) /\ \A q : StartsWith(c2s, last, q) => StartsWith(c2s', last, q)
    BY <1>1, <1>2, <1>3, SentOther DEF InStep
  <1>7. hdr' = hdr /\ phase' = phase
    BY DEF srvVars
  <1>8. InStep(last)'
    BY <1>3, <1>6, <1>7 DEF InStep
  <1> QED
    BY <1>1, <1>2, <1>4, <1>5, <1>8

\* A send of the client's that is the next chunk of its report.
LEMMA ReportSend ==
    ASSUME TypeOK, StreamInv, NEW c \in Chunks, c.kind \in {"header", "desc"}, c.end >= 12,
           c.id \in 1 .. Len(reports), c.kind = "header" => c.num = reports[c.id],
           Key(c) = LastKey + 1, LastKey' = LastKey + 1, LastKey \in 1 .. 2 * Len(reports),
           main \notin {"join", "exited"}, ClientSend(<<c>>), UNCHANGED <<srvVars, reports>>
    PROVE  StreamInv'
  <1> SUFFICES ASSUME phase \notin {"ended", "closed"}
               PROVE  /\ "server" \notin closed' /\ Spaced(c2s') /\ Genuine(c2s)'
                      /\ \E last \in 1 .. 2 * Len(reports) + 1 : InStep(last)'
    BY DEF StreamInv, srvVars
  <1>1. /\ "server" \notin closed /\ c2s \in Streams /\ Spaced(c2s) /\ Genuine(c2s)
    BY DEF StreamInv, TypeOK, TcpTypes
  <1>2. c2s' = Sent(c2s, <<c>>) /\ closed' = closed
    BY <1>1 DEF ClientSend
  <1>3. PICK last \in 1 .. 2 * Len(reports) + 1 : InStep(last)
    BY DEF StreamInv
  <1>4. last = LastKey /\ last + 1 \in 1 .. 2 * Len(reports) + 1 /\ last \in Int /\ Key(c) = last + 1
    <2>1. Len(reports) \in Nat
      BY DEF TypeOK, CliTypes
    <2> QED
      BY <1>3, <2>1 DEF InStep
  <1>5. Spaced(c2s')
    <2> DEFINE p == <<c>>
    <2>1. p \in Streams /\ Len(p) = 1 /\ p[1] = c
      BY DEF Streams
    <2> HIDE DEF p
    <2>2. Spaced(p)
      <3>1. c.end \in Int /\ \A j \in 1 .. 1 : j = 1
        BY EndType
      <3>2. \A j \in 1 .. 1 : p[j].end >= Least(p, j) /\ \A i \in 1 .. j - 1 : FALSE
        BY <2>1, <3>1 DEF Least
      <3> QED
        BY <2>1, <3>2, SpacedFacts
    <2>3. Spaced(Sent(c2s, p))
      BY <1>1, <2>1, <2>2, SentSpaced
    <2> QED
      BY <1>2, <2>3 DEF p
  <1>6. /\ Genuine(Sent(c2s, <<c>>)) /\ InOrder(Sent(c2s, <<c>>), last + 1)
        /\ \A q \in Int : StartsWith(c2s, last, q) => StartsWith(Sent(c2s, <<c>>), last + 1, q)
    <2>1. InOrder(c2s, last)
      BY <1>3 DEF InStep
    <2> QED
      BY <1>1, <1>4, <2>1, SentReport
  <1>7. Genuine(c2s)'
    BY <1>2, <1>6 DEF Genuine
  <1>8. hdr' = hdr /\ phase' = phase /\ hdr.id \in Nat
    BY DEF srvVars, TypeOK, SrvTypes, Headers
  <1>9. InStep(last + 1)'
    BY <1>2, <1>3, <1>4, <1>6, <1>8 DEF InStep
  <1> QED
    BY <1>1, <1>2, <1>4, <1>5, <1>7, <1>9

\* A step of the client that sends nothing.
LEMMA SilentClient ==
    ASSUME TypeOK, StreamInv, UNCHANGED <<srvVars, c2s>>, "server" \in closed' => "server" \in closed,
           reports' = reports \/ \E severity \in 0 .. 5 : reports' = Append(reports, severity),
           main \notin {"join", "exited"} => main' \in {"join", "exited"} \/ LastKey' = LastKey,
           main \in {"join", "exited"} => main' \in {"join", "exited"}
    PROVE  StreamInv'
  <1> SUFFICES ASSUME phase \notin {"ended", "closed"}
               PROVE  /\ "server" \notin closed' /\ Spaced(c2s') /\ Genuine(c2s)'
                      /\ \E last \in 1 .. 2 * Len(reports') + 1 : InStep(last)'
    BY DEF StreamInv, srvVars
  <1>1. /\ "server" \notin closed /\ c2s \in Streams /\ Spaced(c2s) /\ Genuine(c2s) /\ c2s' = c2s
    BY DEF StreamInv, TypeOK, TcpTypes
  <1>2. PICK last \in 1 .. 2 * Len(reports) + 1 : InStep(last)
    BY DEF StreamInv
  <1>3. /\ Len(reports) \in Nat /\ Len(reports') \in Nat /\ Len(reports) <= Len(reports')
        /\ \A r \in 1 .. Len(reports) : reports'[r] = reports[r]
    <2>1. reports \in Seq(0 .. 5) /\ Len(reports) \in Nat
      BY DEF TypeOK, CliTypes
    <2>2. CASE reports' = reports
      BY <2>1, <2>2
    <2>3. CASE \E severity \in 0 .. 5 : reports' = Append(reports, severity)
      <3>1. PICK severity \in 0 .. 5 : reports' = Append(reports, severity)
        BY <2>3
      <3>2. Len(reports') = Len(reports) + 1 /\ \A r \in 1 .. Len(reports) : reports'[r] = reports[r]
        BY <2>1, <3>1
      <3> QED
        BY <2>1, <3>2
    <2> QED
      BY <2>2, <2>3
  <1>4. Genuine(c2s)'
    <2> SUFFICES ASSUME NEW i \in ReportChunks(c2s)
                 PROVE  /\ c2s[i].id \in 1 .. Len(reports')
                        /\ c2s[i].kind = "header" => c2s[i].num = reports'[c2s[i].id]
      BY <1>1 DEF Genuine
    <2>1. /\ c2s[i].id \in 1 .. Len(reports)
          /\ c2s[i].kind = "header" => c2s[i].num = reports[c2s[i].id]
      BY <1>1 DEF Genuine
    <2> QED
      BY <1>3, <2>1
  <1>5. hdr' = hdr /\ phase' = phase
    BY DEF srvVars
  <1>6. InStep(last)'
    BY <1>1, <1>2, <1>5 DEF InStep
  <1>7. last \in 1 .. 2 * Len(reports') + 1
    BY <1>3
  <1> QED
    BY <1>1, <1>4, <1>6, <1>7

\* What a step of the client does to the stream as far as the reports in it go: it sends nothing ...
SendsNothing ==
    /\ c2s' = c2s /\ ("server" \in closed' => "server" \in closed)
    /\ reports' = reports \/ \E severity \in 0 .. 5 : reports' = Append(reports, severity)
    /\ main \notin {"join", "exited"} => main' \in {"join", "exited"} \/ LastKey' = LastKey
    /\ main \in {"join", "exited"} => main' \in {"join", "exited"}

\* ... or something that is no part of a report ...
SendsOther ==
    /\ \E packet \in Streams : Spaced(packet) /\ ReportChunks(packet) = {} /\ ClientSend(packet)
    /\ reports' = reports
    /\ main \notin {"join", "exited"} => main' \notin {"join", "exited"} /\ LastKey' = LastKey
    /\ main \in {"join", "exited"} => main' \in {"join", "exited"}

\* ... or the next part of its report.
SendsReport ==
    /\ \E c \in Chunks :
          /\ c.kind \in {"header", "desc"} /\ c.end >= 12 /\ c.id \in 1 .. Len(reports)
          /\ c.kind = "header" => c.num = reports[c.id]
          /\ Key(c) = LastKey + 1 /\ ClientSend(<<c>>)
    /\ reports' = reports /\ main \notin {"join", "exited"}
    /\ LastKey' = LastKey + 1 /\ LastKey \in 1 .. 2 * Len(reports)

ClientSends == SendsNothing \/ SendsOther \/ SendsReport

\* Every step of the client is one of these.
LEMMA ClientStepSends == ASSUME TypeOK, ReportInHand, CliNext PROVE ClientSends
  <1> USE DEF ClientSends
  <1>a. /\ Len(reports) \in Nat /\ reports \in Seq(0 .. 5)
        /\ HeaderLen \in Int /\ DescLen \in Int /\ HeaderLen >= 12 /\ DescLen >= 12
    <2>1. HeaderLen \in 36 .. MaxPacket /\ DescLen \in 12 .. MaxPacket
      BY LengthsAssumption
    <2>a. MaxPacket \in Int
      BY DEF MaxPacket
    <2>2. reports \in Seq(0 .. 5)
      BY DEF TypeOK, CliTypes
    <2> QED
      BY <2>1, <2>2, <2>a
  <1>b. main \in Exchange => Len(reports) >= 1 /\ reports[Len(reports)] \in 0 .. 5
    BY <1>a DEF ReportInHand
  <1>d. Leave => main' = "join"
    BY DEF Leave
  <1>e. BackToMenu => main' \in {"menu", "join"}
    BY DEF BackToMenu, Loop
  <1>1. CASE CliLogin
    <2>1. PICK cred \in Credentials :
            ClientSend(<< >> \oplus IntChunk(AuthLen(cred)) \oplus AuthChunk(cred))
      BY <1>1 DEF CliLogin
    <2>2. main = "login" /\ main' = "reply" /\ reports' = reports /\ LastKey' = LastKey
      BY <1>1 DEF CliLogin, LastKey, Current
    <2> QED
      BY <2>1, <2>2, OtherPackets, Zenon DEF SendsOther
  <1>2. CASE CliSendHeaderLen \/ CliSendDescLen
    <2>1. PICK n \in {HeaderLen, DescLen} : ClientSend(<<IntChunk(n)>>)
      BY <1>2 DEF CliSendHeaderLen, CliSendDescLen, SendStep
    <2>2. /\ main \notin {"join", "exited"} /\ main' \notin {"join", "exited"}
          /\ reports' = reports /\ LastKey' = LastKey
      BY <1>2 DEF CliSendHeaderLen, CliSendDescLen, SendStep, LastKey, Current
    <2> QED
      BY <1>a, <2>1, <2>2, OtherPackets DEF SendsOther
  <1>3. CASE CliSendHeader
    <2> DEFINE c == HeaderChunk(Current, reports[Current])
    <2>1. /\ main = "sendHeader" /\ main' = "sendDescLen" /\ reports' = reports
          /\ ClientSend(<<c>>) /\ Len(reports) >= 1
      BY <1>3, <1>b DEF CliSendHeader, SendStep, Exchange, Sending
    <2>2. c \in Chunks
      BY <1>a, <1>b, <2>1, SentChunkTypes DEF Current, Credentials, SrvState, Exchange, Sending
    <2>3. /\ c.kind = "header" /\ c.end = HeaderLen /\ c.id = Len(reports)
          /\ c.num = reports[Len(reports)]
      BY DEF HeaderChunk, Chunk, Current
    <2>4. LastKey = 2 * Len(reports) - 1 /\ LastKey' = 2 * Len(reports)
      BY <1>a, <2>1 DEF LastKey, Current
    <2> HIDE DEF c
    <2>5. Key(c) = 2 * Len(reports)
      BY <2>3 DEF Key
    <2> QED
      BY <1>a, <2>1, <2>2, <2>3, <2>4, <2>5 DEF SendsReport
  <1>4. CASE CliSendDesc
    <2> DEFINE c == DescChunk(Current)
    <2>1. /\ main = "sendDesc" /\ main' = "respLen" /\ reports' = reports
          /\ ClientSend(<<c>>) /\ Len(reports) >= 1
      BY <1>4, <1>b DEF CliSendDesc, SendStep, Exchange, Sending
    <2>2. c \in Chunks
      BY <1>a, 0 \in Int, SentChunkTypes DEF Current, Credentials, SrvState
    <2>3. c.kind = "desc" /\ c.end = DescLen /\ c.id = Len(reports)
      BY DEF DescChunk, Chunk, Current
    <2>4. LastKey = 2 * Len(reports) /\ LastKey' = 2 * Len(reports) + 1
      BY <1>a, <2>1 DEF LastKey, Current
    <2> HIDE DEF c
    <2>5. Key(c) = 2 * Len(reports) + 1
      BY <2>3 DEF Key
    <2> QED
      BY <1>a, <2>1, <2>2, <2>3, <2>4, <2>5 DEF SendsReport
  <1>5. CASE HbSendLen \/ HbSendType
    <2>1. PICK n \in {4, TypeHeartbeat} : ClientSend(<<IntChunk(n)>>)
      BY <1>5 DEF HbSendLen, HbSendType, HbSend
    <2>2. main' = main /\ reports' = reports /\ LastKey' = LastKey /\ n \in Int
      BY <1>5 DEF HbSendLen, HbSendType, HbSend, LastKey, Current, TypeHeartbeat
    <2> QED
      BY <2>1, <2>2, OtherPackets, Zenon DEF SendsOther
  \* The other steps send nothing.
  <1>6. ASSUME UNCHANGED <<c2s, closed, main, reports>> PROVE ClientSends
    <2>1. LastKey' = LastKey
      BY <1>6 DEF LastKey, Current
    <2> QED
      BY <1>6, <2>1 DEF SendsNothing
  <1>7. ASSUME UNCHANGED <<c2s, closed, reports>>, main' \in {"join", "exited"} PROVE ClientSends
    BY <1>7 DEF SendsNothing
  <1>8. ASSUME UNCHANGED <<c2s, closed, reports>>, main \in {"reply", "menu", "respLen"} \union Replying
                          \union Fetching,
               main' \in {"menu", "form", "join"} \union Replying \union Fetching
        PROVE  ClientSends
    <2>1. LastKey' = LastKey
      BY <1>8 DEF LastKey, Current, Replying, Fetching
    <2>2. main \notin {"join", "exited"}
      BY <1>8 DEF Replying, Fetching
    <2> QED
      BY <1>8, <2>1, <2>2 DEF SendsNothing
  <1>9. CASE HbWake \/ HbSendFails \/ HbStop
    BY <1>9, <1>6 DEF HbWake, HbSendFails, HbStop, tcpVars
  <1>10. CASE CliLoginFails \/ CliSendFails \/ CliRecvFails \/ CliChooseExit
    BY <1>10, <1>7 DEF CliLoginFails, CliSendFails, CliRecvFails, CliChooseExit, Leave, tcpVars
  <1>11. CASE CliRecvReply
    <2>1. UNCHANGED <<c2s, closed, reports>> /\ main = "reply" /\ main' \in {"menu", "join"}
      BY <1>11 DEF CliRecvReply, Leave, Loop
    <2> QED
      BY <2>1, <1>8
  <1>12. CASE CliRecvLength
    <2>1. UNCHANGED <<c2s, closed, reports>> /\ main = "respLen" /\ main' \in {"resp", "join"}
      BY <1>12 DEF CliRecvLength, Leave
    <2> QED
      BY <2>1, <1>8 DEF Replying
  <1>13. CASE CliRecvResponse
    <2>1. UNCHANGED <<c2s, closed, reports>> /\ main = "resp" /\ main' = "bmpType"
      BY <1>13 DEF CliRecvResponse
    <2> QED
      BY <2>1, <1>8 DEF Replying, Fetching
  <1>14. CASE CliRecvBitmapType \/ CliRecvBitmapSize \/ CliRecvBitmap \/ CliBitmapFails
    <2>1. /\ UNCHANGED <<c2s, closed, reports>> /\ main \in Fetching
          /\ main' \in {"menu", "join"} \union Fetching
      BY <1>14 DEF CliRecvBitmapType, CliRecvBitmapSize, CliRecvBitmap, CliBitmapFails, BackToMenu,
         Loop, Fetching
    <2> QED
      BY <2>1, <1>8
  <1>15. CASE CliExit
    <2>1. /\ UNCHANGED <<c2s, reports>> /\ ("server" \in closed' => "server" \in closed)
          /\ main' = "exited"
      BY <1>15 DEF CliExit, ClientClose
    <2> QED
      BY <2>1 DEF SendsNothing
  <1>16. CASE CliChooseReport
    BY <1>16, <1>8 DEF CliChooseReport, tcpVars
  <1>17. CASE CliFillForm
    <2>1. PICK raw \in RawSeverities : reports' = Append(reports, Normalized(raw))
      BY <1>17 DEF CliFillForm
    <2>2. Normalized(raw) \in 0 .. 5
      BY DEF Normalized
    <2>3. main = "form" /\ main' = "sendHeaderLen" /\ UNCHANGED <<c2s, closed>>
      BY <1>17 DEF CliFillForm, tcpVars
    <2>4. Len(reports') = Len(reports) + 1
      BY <1>a, <2>1
    <2>5. LastKey' = LastKey
      BY <1>a, <2>3, <2>4 DEF LastKey, Current
    <2> QED
      BY <2>1, <2>2, <2>3, <2>5 DEF SendsNothing
  <1> QED
    BY <1>1, <1>2, <1>3, <1>4, <1>5, <1>9, <1>10, <1>11, <1>12, <1>13, <1>14, <1>15, <1>16, <1>17
       DEF CliNext, Working, Heartbeat

\* Steps of the client keep the invariant.
LEMMA ClientLedgerStep ==
    ASSUME TypeOK, ReportInHand, LedgerInv, CliNext, UNCHANGED srvVars PROVE LedgerInv'
  <1>1. StreamInv /\ ClientSends
    BY ClientStepSends DEF LedgerInv
  <1>2. HeaderInHand' /\ LedgerFaithful'
    <2>1. UNCHANGED <<hdr, ledger>> /\ HeaderInHand /\ LedgerFaithful
      BY DEF srvVars, LedgerInv
    <2>2. reports' = reports \/ \E severity \in 0 .. 5 : reports' = Append(reports, severity)
      BY <1>1 DEF ClientSends, SendsNothing, SendsOther, SendsReport
    <2> QED
      BY <2>1, <2>2, ClientKeepsLedger
  <1>3. CASE SendsNothing
    BY <1>1, <1>2, <1>3, SilentClient DEF SendsNothing, LedgerInv
  <1>4. CASE SendsOther
    <2>1. PICK packet \in Streams : Spaced(packet) /\ ReportChunks(packet) = {} /\ ClientSend(packet)
      BY <1>4 DEF SendsOther
    <2>2. StreamInv'
      BY <1>1, <1>4, <2>1, OtherSend DEF SendsOther
    <2> QED
      BY <1>2, <2>2 DEF LedgerInv
  <1>5. CASE SendsReport
    <2>1. PICK c \in Chunks :
             /\ c.kind \in {"header", "desc"} /\ c.end >= 12 /\ c.id \in 1 .. Len(reports)
             /\ c.kind = "header" => c.num = reports[c.id]
             /\ Key(c) = LastKey + 1 /\ ClientSend(<<c>>)
      BY <1>5 DEF SendsReport
    <2>2. StreamInv'
      BY <1>1, <1>5, <2>1, ReportSend DEF SendsReport
    <2> QED
      BY <1>2, <2>2 DEF LedgerInv
  <1> QED
    BY <1>1, <1>3, <1>4, <1>5 DEF ClientSends

\* The invariant holds initially ...
LEMMA InitLedgerInv == Init => LedgerInv
  <1> SUFFICES ASSUME Init PROVE LedgerInv
    OBVIOUS
  <1>1. /\ c2s = << >> /\ closed = {} /\ hdr = NoHeader /\ ledger = << >> /\ reports = << >>
        /\ main = "login" /\ phase = "auth"
    BY DEF Init, TcpInit, SrvInit, CliInit
  <1>2. InStep(1) /\ 1 \in 1 .. 2 * Len(reports) + 1
    <2>1. LastKey = 1 /\ Len(reports) = 0
      BY <1>1 DEF LastKey, Current
    <2> QED
      BY <1>1, <2>1 DEF InStep, InOrder, ReportChunks
  <1>3. Spaced(c2s) /\ Genuine(c2s)
    BY <1>1 DEF Spaced, Genuine, ReportChunks
  <1>4. HeaderInHand
    BY <1>1 DEF HeaderInHand, NoHeader
  <1> QED
    BY <1>1, <1>2, <1>3, <1>4 DEF LedgerInv, StreamInv, LedgerFaithful

\* ... and every step keeps it.
LEMMA LedgerInvStep == TypeInv /\ LedgerInv /\ [Next]_vars => LedgerInv'
  <1> SUFFICES ASSUME TypeOK, ReportInHand, LedgerInv, [Next]_vars PROVE LedgerInv'
    BY DEF TypeInv
  <1>1. CASE SrvNext /\ UNCHANGED cliVars
    BY <1>1, ServerLedgerStep
  <1>2. CASE CliNext /\ UNCHANGED srvVars
    BY <1>2, ClientLedgerStep
  <1>3. CASE UNCHANGED <<c2s, closed, srvVars, cliVars>>
    <2>1. LastKey' = LastKey /\ UNCHANGED <<hdr, ledger, reports, main>>
      BY <1>3 DEF LastKey, Current, srvVars, cliVars
    <2>2. HeaderInHand' /\ LedgerFaithful'
      BY <2>1 DEF LedgerInv, HeaderInHand, LedgerFaithful
    <2>3. StreamInv'
      BY <1>3, <2>1, SilentClient DEF LedgerInv
    <2> QED
      BY <2>2, <2>3 DEF LedgerInv
  <1>4. CASE (LinkLost \/ RetransmitFails) /\ UNCHANGED <<srvVars, cliVars>>
    BY <1>3, <1>4 DEF LinkLost, RetransmitFails
  <1>5. CASE UNCHANGED vars
    BY <1>3, <1>5 DEF vars, tcpVars
  <1> QED
    BY <1>1, <1>2, <1>4, <1>5 DEF Next

\* A recorded report that bears a number is that report of the client's, with its severity and its
\* own description or one that is nobody's: the server, cut off from the beginnings of packets by a
\* heartbeat, never puts the header of one report and the description of another together.
THEOREM LedgerCorrect == Spec => []LedgerFaithful
  <1>1. Init => TypeInv /\ LedgerInv
    BY InitTypeInv, InitLedgerInv
  <1>2. TypeInv /\ LedgerInv /\ [Next]_vars => TypeInv' /\ LedgerInv'
    BY NextTypeInv, LedgerInvStep
  <1>3. LedgerInv => LedgerFaithful
    BY DEF LedgerInv
  <1> QED
    BY <1>1, <1>2, <1>3, PTL DEF Spec
-----------------------------------------------------------------------
(* The order of the ledger.  A part of a report that the server has read is behind it: whatever is  *)
(* left of the stream, or is sent to it later, is of a later part.                                  *)

\* Every part of a report up to the one at place q has left the stream.
Passed(q) ==
    /\ \A i \in ReportChunks(c2s) : q < Key(c2s[i])
    /\ main \notin {"join", "exited"} => q <= LastKey

\* The places of the parts that the ledger names, and of the header in the server's hand.
Recorded ==
    {q \in Nat : \E i \in DOMAIN ledger : \/ ledger[i].id > 0 /\ q = 2 * ledger[i].id
                                          \/ ledger[i].desc > 0 /\ q = 2 * ledger[i].desc + 1}

InHand == {q \in Nat : hdr.id > 0 /\ q = 2 * hdr.id}

\* They have left the stream, and the header in hand is later than all that is recorded.
OrderInv ==
    /\ RecordedInOrder
    /\ \A q \in Recorded \union InHand : Passed(q)
    /\ \A q \in Recorded, r \in InHand : q < r

\* The numbers in the ledger and in the server's hand are numbers.
LEMMA LedgerNumbers ==
    ASSUME TypeOK
    PROVE  /\ hdr.id \in Nat /\ Len(ledger) \in Nat /\ DOMAIN ledger = 1 .. Len(ledger)
           /\ \A i \in DOMAIN ledger : ledger[i].id \in Nat /\ ledger[i].desc \in Nat
  <1>1. hdr \in Headers /\ ledger \in Seq(Records)
    BY DEF TypeOK, SrvTypes
  <1>2. DOMAIN ledger = 1 .. Len(ledger) /\ Len(ledger) \in Nat /\ hdr.id \in Nat
    BY <1>1 DEF Headers
  <1>3. ASSUME NEW i \in DOMAIN ledger PROVE ledger[i].id \in Nat /\ ledger[i].desc \in Nat
    <2>1. ledger[i] \in Records
      BY <1>1
    <2> QED
      BY <2>1 DEF Records
  <1> QED
    BY <1>2, <1>3

\* The parts that a read leaves were there before it.
LEMMA ReadKeys ==
    ASSUME NEW s \in Streams, Increasing(s), NEW n \in Int
    PROVE  \A i \in ReportChunks(AfterRead(s, n)) :
              Whole(s, n) + i \in ReportChunks(s) /\ Key(AfterRead(s, n)[i]) = Key(s[Whole(s, n) + i])
  <1> DEFINE t == AfterRead(s, n)
             k == Whole(s, n)
  <1>1. \A i \in ReportChunks(t) : k + i \in ReportChunks(s) /\ Key(t[i]) = Key(s[k + i])
    BY ReadReports
  <1> QED
    BY <1>1

\* What has left the stream is not sent again ...
LEMMA ClientKeepsPassed ==
    ASSUME TypeOK, ClientSends, NEW q \in Int, Passed(q) PROVE Passed(q)'
  <1>1. c2s \in Streams /\ Len(reports) \in Nat
    BY DEF TypeOK, TcpTypes, CliTypes
  <1>2. CASE SendsNothing
    BY <1>2 DEF SendsNothing, Passed
  <1>3. CASE c2s' = c2s /\ ~ SendsNothing
    <2>1. CASE SendsOther
      BY <1>3, <2>1 DEF SendsOther, Passed
    <2>2. CASE SendsReport
      <3>1. q <= LastKey /\ LastKey' = LastKey + 1 /\ LastKey \in Int
        BY <2>2 DEF SendsReport, Passed
      <3>2. q <= LastKey'
        BY <3>1
      <3> QED
        BY <1>3, <3>2 DEF Passed
    <2> QED
      BY <1>3, <2>1, <2>2 DEF ClientSends
  <1>4. CASE c2s' # c2s /\ SendsOther
    <2>1. PICK packet \in Streams : ReportChunks(packet) = {} /\ ClientSend(packet)
      BY <1>4 DEF SendsOther
    <2>2. c2s' = Sent(c2s, packet)
      BY <1>4, <2>1 DEF ClientSend
    <2>3. ReportChunks(c2s') = ReportChunks(c2s) /\ \A i \in ReportChunks(c2s) : c2s'[i] = c2s[i]
      BY <1>1, <2>1, <2>2, SentOther
    <2> QED
      BY <1>4, <2>3 DEF SendsOther, Passed
  <1>5. CASE c2s' # c2s /\ SendsReport
    <2>1. PICK c \in Chunks : Key(c) = LastKey + 1 /\ ClientSend(<<c>>)
      BY <1>5 DEF SendsReport
    <2>2. /\ q <= LastKey /\ LastKey' = LastKey + 1 /\ LastKey \in Int
          /\ main \notin {"join", "exited"}
      BY <1>5 DEF SendsReport, Passed
    <2> DEFINE p == <<c>>
    <2>3. p \in Streams /\ Len(p) = 1 /\ p[1] = c /\ c2s' = Sent(c2s, p)
      BY <1>5, <2>1 DEF ClientSend, Streams
    <2> HIDE DEF p
    <2>4. /\ c2s' \in Streams /\ Len(c2s') = Len(c2s) + 1
          /\ \A i \in 1 .. Len(c2s) : c2s'[i] = c2s[i]
          /\ c2s'[Len(c2s) + 1].kind = c.kind /\ c2s'[Len(c2s) + 1].id = c.id
      <3>1. 1 \in 1 .. Len(p)
        BY <2>3
      <3>2. /\ Sent(c2s, p) \in Streams /\ Len(Sent(c2s, p)) = Len(c2s) + Len(p)
            /\ \A i \in 1 .. Len(c2s) : Sent(c2s, p)[i] = c2s[i]
            /\ \A i \in 1 .. Len(p) : /\ Sent(c2s, p)[Len(c2s) + i].kind = p[i].kind
                                      /\ Sent(c2s, p)[Len(c2s) + i].id = p[i].id
        BY <1>1, <2>3, SentChunks
      <3> QED
        BY <2>3, <3>1, <3>2
    <2>5. ASSUME NEW i \in ReportChunks(c2s') PROVE q < Key(c2s'[i])
      <3>1. i \in 1 .. Len(c2s) + 1 /\ Len(c2s) \in Nat /\ DOMAIN c2s = 1 .. Len(c2s)
        BY <1>1, <2>4, KeyType DEF Streams
      <3>2. CASE i \in 1 .. Len(c2s)
        <4>1. c2s'[i] = c2s[i] /\ i \in ReportChunks(c2s)
          BY <2>4, <3>1, <3>2 DEF ReportChunks
        <4> QED
          BY <4>1 DEF Passed
      <3>3. CASE i = Len(c2s) + 1
        <4>1. Key(c2s'[i]) = Key(c)
          BY <2>4, <3>3 DEF Key
        <4> QED
          BY <2>1, <2>2, <4>1
      <3> QED
        BY <3>1, <3>2, <3>3
    <2>6. q <= LastKey'
      BY <2>2
    <2> QED
      BY <2>5, <2>6 DEF Passed
  <1> QED
    BY <1>2, <1>3, <1>4, <1>5 DEF ClientSends

\* ... and does not come back by reading on, or by closing the connection.
LEMMA ServerKeepsPassed ==
    ASSUME TypeOK, StreamInv, SrvNext, UNCHANGED cliVars, NEW q \in Int, Passed(q) PROVE Passed(q)'
  <1>1. c2s \in Streams /\ want \in Nat
    BY DEF TypeOK, TcpTypes, SrvTypes
  <1>2. LastKey' = LastKey /\ main' = main
    BY DEF LastKey, Current, cliVars
  <1>3. CASE c2s' = c2s
    BY <1>2, <1>3 DEF Passed
  <1>4. CASE c2s' = << >>
    BY <1>2, <1>4 DEF Passed, ReportChunks
  <1>5. ASSUME phase \notin {"ended", "closed"}, NEW n \in Int, ServerReads(n) PROVE Passed(q)'
    <2>1. Increasing(c2s)
      BY <1>1, <1>5, SpacedIncreasing DEF StreamInv
    <2>2. c2s' = AfterRead(c2s, n)
      BY <1>5 DEF ServerReads
    <2>3. PICK k : k = Whole(c2s, n)
      OBVIOUS
    <2>4. \A i \in ReportChunks(c2s') : /\ k + i \in ReportChunks(c2s)
                                        /\ Key(c2s'[i]) = Key(c2s[k + i])
      BY <1>1, <2>1, <2>2, <2>3, ReadKeys
    <2>5. \A i \in ReportChunks(c2s') : q < Key(c2s'[i])
      BY <2>4 DEF Passed
    <2> QED
      BY <1>2, <2>5 DEF Passed
  <1>6. CASE SrvAcceptLogin \/ SrvRejectLogin
    <2>1. Len(c2s) >= 2 /\ ServerReads(c2s[2].end) /\ phase = "auth"
      BY <1>6 DEF SrvAcceptLogin, SrvRejectLogin, LoginArrived
    <2>2. c2s[2].end \in Int
      <3>1. 2 \in 1 .. Len(c2s)
        BY <1>1, <2>1, SpacedFacts
      <3> QED
        BY <1>1, <3>1, SpacedFacts
    <2> QED
      BY <1>5, <2>1, <2>2
  <1>7. CASE SrvLoginFails \/ SrvSelect \/ SrvSelectFails \/ SrvRecvFails \/ SrvSendAnswer
             \/ SrvSendDone \/ SrvSendFails \/ SrvClose
    <2>1. c2s' = c2s \/ c2s' = << >> \/ (phase = "auth" /\ ServerReads(4))
      BY <1>7 DEF SrvLoginFails, SrvSelect, SrvSelectFails, SrvRecvFails, SrvSendAnswer,
         SrvSendDone, SrvSendFails, SrvClose, ServerSend, ServerClose, tcpVars
    <2> QED
      BY <1>3, <1>4, <1>5, <2>1
  <1>8. CASE SrvRecvLength \/ SrvRecvHeartbeat \/ SrvRecvMalformed \/ SrvRecvHeader
             \/ SrvRecvBadDescription \/ SrvRecordReport
    <2>1. /\ ServerReads(4) \/ ServerReads(want)
          /\ phase \in {"length", "descLength", "payload", "desc"}
      BY <1>8 DEF SrvRecvLength, SrvRecvHeartbeat, SrvRecvMalformed, SrvRecvHeader,
         SrvRecvBadDescription, SrvRecordReport
    <2> QED
      BY <1>1, <1>5, <2>1
  <1> QED
    BY <1>6, <1>7, <1>8 DEF SrvNext

\* A part of a report that is read whole leaves the stream.
LEMMA ReadPasses ==
    ASSUME TypeOK, StreamInv, phase \notin {"ended", "closed"}, NEW n \in Int, ServerReads(n),
           UNCHANGED cliVars, Head(c2s).kind \in {"header", "desc"}, Head(c2s).end = n,
           NEW q, q = Key(Head(c2s))
    PROVE  /\ Passed(q)' /\ q \in Int /\ Head(c2s).id \in Nat
           /\ \A r : Passed(r) => r < q
  <1>1. c2s \in Streams /\ Spaced(c2s) /\ c2s # << >> /\ c2s' = AfterRead(c2s, n) /\ Increasing(c2s)
    <2>1. c2s \in Streams /\ Spaced(c2s) /\ c2s # << >> /\ c2s' = AfterRead(c2s, n)
      BY DEF TypeOK, TcpTypes, StreamInv, ServerReads
    <2> QED
      BY <2>1, SpacedIncreasing
  <1>2. 1 \in ReportChunks(c2s) /\ Head(c2s) = c2s[1] /\ 1 \in 1 .. Len(c2s)
    BY <1>1 DEF ReportChunks, Streams
  <1>3. Key(Head(c2s)) \in Int /\ Head(c2s) \in Chunks
    BY <1>1, <1>2, KeyType
  <1>4. PICK last \in 1 .. 2 * Len(reports) + 1 : InStep(last)
    BY DEF StreamInv
  <1>5. PICK k : k = Whole(c2s, n)
    OBVIOUS
  <1>6. /\ k \in 0 .. Len(c2s) /\ c2s' \in Streams
        /\ \A i \in ReportChunks(c2s') : /\ k + i \in ReportChunks(c2s)
                                         /\ Key(c2s'[i]) = Key(c2s[k + i])
    <2>1. k \in 0 .. Len(c2s) /\ c2s' \in Streams
      BY <1>1, <1>5, WholeType, AfterReadType
    <2>2. \A i \in ReportChunks(c2s') : /\ k + i \in ReportChunks(c2s)
                                        /\ Key(c2s'[i]) = Key(c2s[k + i])
      BY <1>1, <1>5, ReadKeys
    <2> QED
      BY <2>1, <2>2
  <1>7. k >= 1
    <2>1. \A i \in k + 1 .. Len(c2s) : c2s[i].end > n
      BY <1>1, <1>5, WholePrefix
    <2>2. ~ (c2s[1].end > n)
      BY <1>2
    <2> QED
      BY <1>1, <1>2, <1>6, <2>1, <2>2, SpacedFacts
  <1>8. ASSUME NEW i \in ReportChunks(c2s') PROVE Key(Head(c2s)) < Key(c2s'[i])
    <2>1. i \in Nat /\ i >= 1
      BY <1>6, KeyType
    <2>2. 1 < k + i
      BY <1>6, <1>7, <2>1
    <2> QED
      BY <1>2, <1>4, <1>6, <2>2 DEF InStep, InOrder
  <1>9. main' \notin {"join", "exited"} => Key(Head(c2s)) <= LastKey'
    <2>1. main' = main /\ LastKey' = LastKey
      BY DEF cliVars, LastKey, Current
    <2> QED
      BY <1>2, <1>4, <2>1 DEF InStep, InOrder
  <1>10. \A r : Passed(r) => r < q
    BY <1>2 DEF Passed
  <1>11. Passed(q)'
    <2>1. \A i \in ReportChunks(c2s') : q < Key(c2s'[i])
      BY <1>8
    <2> QED
      BY <1>9, <2>1 DEF Passed
  <1> QED
    BY <1>3, <1>10, <1>11 DEF Chunks

\* Steps that add nothing to the ledger and put nothing in the server's hand keep the order ...
LEMMA OrderKept ==
    ASSUME OrderInv, \A q \in Int : Passed(q) => Passed(q)', UNCHANGED ledger,
           hdr' = hdr \/ hdr'.id = 0
    PROVE  OrderInv'
  <1>1. Recorded' = Recorded /\ InHand' \subseteq InHand
    BY DEF Recorded, InHand
  <1>2. RecordedInOrder'
    BY DEF OrderInv, RecordedInOrder
  <1>3. \A q \in Recorded' \union InHand' : q \in Int /\ q \in Recorded \union InHand
    BY <1>1 DEF Recorded, InHand
  <1>4. \A q \in Recorded' \union InHand' : Passed(q)'
    BY <1>3 DEF OrderInv
  <1>5. \A q \in Recorded', r \in InHand' : q < r
    BY <1>1 DEF OrderInv
  <1> QED
    BY <1>2, <1>4, <1>5 DEF OrderInv

\* ... and so do the two steps that do: a header read as such ...
LEMMA HeaderOrder ==
    ASSUME TypeOK, StreamInv, OrderInv, SrvRecvHeader, UNCHANGED cliVars,
           \A q \in Int : Passed(q) => Passed(q)'
    PROVE  OrderInv'
  <1>1. /\ ServerReads(want) /\ want \in Int /\ phase = "payload" /\ ledger' = ledger
        /\ hdr' \in HeadersIn(Payload(c2s, want))
    BY DEF SrvRecvHeader, TypeOK, SrvTypes
  <1>2. CASE Payload(c2s, want).kind # "header"
    <2>1. hdr'.id = 0
      BY <1>1, <1>2 DEF HeadersIn, GarbledHeaders
    <2> QED
      BY <1>1, <2>1, OrderKept
  <1>3. CASE Payload(c2s, want).kind = "header"
    <2>1. Head(c2s).kind = "header" /\ Head(c2s).end = want /\ hdr'.id = Head(c2s).id
      BY <1>1, <1>3 DEF Payload, Chunk, HeadersIn
    <2>2. PICK h : h = Key(Head(c2s))
      OBVIOUS
    <2>3. /\ Passed(h)' /\ h \in Int /\ Head(c2s).id \in Nat
          /\ \A q : Passed(q) => q < h
      BY <1>1, <2>1, <2>2, ReadPasses
    <2>4. h = 2 * hdr'.id
      BY <2>1, <2>2 DEF Key
    <2>5. Recorded' = Recorded /\ RecordedInOrder' /\ Recorded \subseteq Int
      BY <1>1 DEF OrderInv, RecordedInOrder, Recorded
    <2>6. \A r \in InHand' : r = h
      BY <2>4 DEF InHand
    <2>7. \A q \in Recorded' \union InHand' : Passed(q)'
      BY <2>3, <2>5, <2>6 DEF OrderInv
    <2>8. \A q \in Recorded', r \in InHand' : q < r
      BY <2>3, <2>5, <2>6 DEF OrderInv
    <2> QED
      BY <2>5, <2>7, <2>8 DEF OrderInv
  <1> QED
    BY <1>2, <1>3

\* ... and a report recorded, whose header was later than all that is recorded and whose description,
\* if it is one, is later than that.
LEMMA RecordOrder ==
    ASSUME TypeOK, StreamInv, OrderInv, SrvRecordReport, UNCHANGED cliVars,
           \A q \in Int : Passed(q) => Passed(q)'
    PROVE  OrderInv'
  <1>1. /\ ServerReads(want) /\ want \in Int /\ phase = "desc" /\ hdr'.id = 0
    BY DEF SrvRecordReport, TypeOK, SrvTypes, NoHeader
  <1>2. PICK d \in DescriptionsIn(Payload(c2s, want)), saved \in SaveResults :
           ledger' = Append(ledger, [id |-> hdr.id, desc |-> d, severity |-> hdr.severity,
                                     saved |-> saved])
    BY DEF SrvRecordReport
  <1>3. PICK k : k = 2 * d + 1
    OBVIOUS
  <1>4. d \in Nat /\ (d > 0 => Passed(k)' /\ \A q : Passed(q) => q < k)
    <2>1. CASE Payload(c2s, want).kind = "desc"
      <3>1. Head(c2s).kind = "desc" /\ Head(c2s).end = want /\ d = Head(c2s).id
        BY <1>2, <2>1 DEF Payload, Chunk, DescriptionsIn
      <3>2. k = Key(Head(c2s))
        BY <1>3, <3>1 DEF Key
      <3> QED
        BY <1>1, <3>1, <3>2, ReadPasses
    <2>2. CASE Payload(c2s, want).kind # "desc"
      BY <1>2, <2>2 DEF DescriptionsIn
    <2> QED
      BY <2>1, <2>2
  <1>5. /\ hdr.id \in Nat /\ Len(ledger) \in Nat /\ DOMAIN ledger = 1 .. Len(ledger)
        /\ \A i \in DOMAIN ledger : ledger[i].id \in Nat /\ ledger[i].desc \in Nat
    BY LedgerNumbers
  <1>6. /\ DOMAIN ledger' = 1 .. Len(ledger) + 1
        /\ \A i \in 1 .. Len(ledger) : ledger'[i] = ledger[i]
        /\ ledger'[Len(ledger) + 1].id = hdr.id /\ ledger'[Len(ledger) + 1].desc = d
    <2> DEFINE e == [id |-> hdr.id, desc |-> d, severity |-> hdr.severity, saved |-> saved]
    <2>1. ledger \in Seq(Records) /\ ledger' = Append(ledger, e) /\ e.id = hdr.id /\ e.desc = d
      BY <1>2 DEF TypeOK, SrvTypes
    <2> HIDE DEF e
    <2> QED
      BY <2>1
  <1>7. /\ \A i \in DOMAIN ledger : /\ ledger[i].id > 0 => 2 * ledger[i].id \in Recorded
                                    /\ ledger[i].desc > 0 => 2 * ledger[i].desc + 1 \in Recorded
        /\ hdr.id > 0 => 2 * hdr.id \in InHand
    BY <1>5 DEF Recorded, InHand
  <1>8. /\ \A q \in Recorded : hdr.id > 0 => q < 2 * hdr.id
        /\ \A q \in Recorded \union InHand : d > 0 => q < 2 * d + 1
    <2>1. \A q \in Recorded : hdr.id > 0 => q < 2 * hdr.id
      BY <1>7 DEF OrderInv
    <2>2. \A q \in Recorded \union InHand : d > 0 => q < 2 * d + 1
      BY <1>3, <1>4 DEF OrderInv
    <2> QED
      BY <2>1, <2>2
  <1>9. RecordedInOrder'
    <2> SUFFICES ASSUME NEW i \in DOMAIN ledger', NEW j \in DOMAIN ledger', i < j
                 PROVE  /\ ledger'[j].id > 0 =>
                              ledger'[i].id < ledger'[j].id /\ ledger'[i].desc < ledger'[j].id
                        /\ ledger'[j].desc > 0 =>
                              ledger'[i].id <= ledger'[j].desc /\ ledger'[i].desc < ledger'[j].desc
      BY DEF RecordedInOrder
    <2>1. i \in 1 .. Len(ledger) /\ ledger'[i] = ledger[i] /\ i \in DOMAIN ledger
      BY <1>5, <1>6
    <2>2. CASE j \in 1 .. Len(ledger)
      <3>1. ledger'[j] = ledger[j] /\ j \in DOMAIN ledger
        BY <1>5, <1>6, <2>2
      <3> QED
        BY <2>1, <3>1 DEF OrderInv, RecordedInOrder
    <2>3. CASE j = Len(ledger) + 1
      <3>1. ledger'[j].id = hdr.id /\ ledger'[j].desc = d
        BY <1>6, <2>3
      <3>2. /\ ledger[i].id \in Nat /\ ledger[i].desc \in Nat
            /\ ledger[i].id > 0 => 2 * ledger[i].id \in Recorded
            /\ ledger[i].desc > 0 => 2 * ledger[i].desc + 1 \in Recorded
        BY <1>5, <1>7, <2>1
      <3>3. hdr.id > 0 => ledger[i].id < hdr.id /\ ledger[i].desc < hdr.id
        BY <1>5, <1>8, <3>2
      <3>4. d > 0 => ledger[i].id <= d /\ ledger[i].desc < d
        BY <1>4, <1>8, <3>2
      <3> QED
        BY <2>1, <3>1, <3>3, <3>4
    <2> QED
      BY <1>5, <1>6, <2>2, <2>3
  <1>10. \A q \in Recorded' : q \in Int /\ (q \in Recorded \union InHand \/ (d > 0 /\ q = k))
    <2> SUFFICES ASSUME NEW q \in Recorded'
                 PROVE  q \in Int /\ (q \in Recorded \union InHand \/ (d > 0 /\ q = k))
      OBVIOUS
    <2>1. PICK i \in DOMAIN ledger' : \/ ledger'[i].id > 0 /\ q = 2 * ledger'[i].id
                                      \/ ledger'[i].desc > 0 /\ q = 2 * ledger'[i].desc + 1
      BY DEF Recorded
    <2>2. q \in Int
      BY DEF Recorded
    <2>3. CASE i \in 1 .. Len(ledger)
      BY <1>5, <1>6, <1>7, <2>1, <2>3
    <2>4. CASE i = Len(ledger) + 1
      BY <1>3, <1>6, <1>7, <2>1, <2>2, <2>4
    <2> QED
      BY <1>5, <1>6, <2>2, <2>3, <2>4
  <1>11. InHand' = {}
    BY <1>1 DEF InHand
  <1>12. \A q \in Recorded' \union InHand' : Passed(q)'
    <2>1. \A q \in Recorded \union InHand : Passed(q)
      BY DEF OrderInv
    <2> QED
      BY <1>4, <1>10, <1>11, <2>1
  <1> QED
    BY <1>9, <1>11, <1>12 DEF OrderInv

\* The order holds initially ...
LEMMA InitOrderInv == Init => OrderInv
  <1> SUFFICES ASSUME Init PROVE OrderInv
    OBVIOUS
  <1>1. hdr.id = 0 /\ ledger = << >>
    BY DEF Init, SrvInit, NoHeader
  <1>2. Recorded = {} /\ InHand = {} /\ RecordedInOrder
    BY <1>1 DEF Recorded, InHand, RecordedInOrder
  <1> QED
    BY <1>2 DEF OrderInv

\* ... and every step keeps it.
LEMMA OrderInvStep == TypeInv /\ LedgerInv /\ OrderInv /\ [Next]_vars => OrderInv'
  <1> SUFFICES ASSUME TypeOK, ReportInHand, StreamInv, OrderInv, [Next]_vars PROVE OrderInv'
    BY DEF TypeInv, LedgerInv
  <1>1. CASE SrvNext /\ UNCHANGED cliVars
    <2>1. \A q \in Int : Passed(q) => Passed(q)'
      BY <1>1, ServerKeepsPassed
    <2>2. CASE SrvRecvHeader
      BY <1>1, <2>1, <2>2, HeaderOrder
    <2>3. CASE SrvRecordReport
      BY <1>1, <2>1, <2>3, RecordOrder
    <2>4. CASE ~ SrvRecvHeader /\ ~ SrvRecordReport
      <3>1. UNCHANGED <<hdr, ledger>>
        BY <1>1, <2>4 DEF SrvNext, SrvAcceptLogin, SrvRejectLogin, SrvLoginFails, SrvSelect,
           SrvSelectFails, SrvRecvLength, SrvRecvFails, SrvRecvHeartbeat, SrvRecvMalformed,
           SrvRecvBadDescription, SrvSendAnswer, SrvSendDone, SrvSendFails, SrvClose, Abandon,
           Disconnect
      <3> QED
        BY <2>1, <3>1, OrderKept
    <2> QED
      BY <2>2, <2>3, <2>4
  <1>2. CASE CliNext /\ UNCHANGED srvVars
    <2>1. ClientSends
      BY <1>2, ClientStepSends
    <2>2. \A q \in Int : Passed(q) => Passed(q)'
      BY <2>1, ClientKeepsPassed
    <2> QED
      BY <1>2, <2>2, OrderKept DEF srvVars
  <1>3. CASE UNCHANGED <<c2s, srvVars, cliVars>>
    <2>1. \A q \in Int : Passed(q) => Passed(q)'
      BY <1>3 DEF Passed, LastKey, Current, cliVars
    <2> QED
      BY <1>3, <2>1, OrderKept DEF srvVars
  <1> QED
    BY <1>1, <1>2, <1>3 DEF Next, LinkLost, RetransmitFails, vars, tcpVars

\* The session never goes back in the stream: of two entries of the ledger the later one names a later
\* report, by its number as by its description, so that nothing of a report is recorded twice.
THEOREM OrderCorrect == Spec => []RecordedInOrder
  <1>1. Init => TypeInv /\ LedgerInv /\ OrderInv
    BY InitTypeInv, InitLedgerInv, InitOrderInv
  <1>2. TypeInv /\ LedgerInv /\ OrderInv /\ [Next]_vars => TypeInv' /\ LedgerInv' /\ OrderInv'
    BY NextTypeInv, LedgerInvStep, OrderInvStep
  <1>3. OrderInv => RecordedInOrder
    BY DEF OrderInv
  <1> QED
    BY <1>1, <1>2, <1>3, PTL DEF Spec

=======================================================================
