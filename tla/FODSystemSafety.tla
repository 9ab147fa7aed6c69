------------------------ MODULE FODSystemSafety -----------------------
(* Proofs about FODSystem, for every number of reports, heartbeats and faults, every window and   *)
(* every length of the packets that the assumptions on the constants allow: that every variable   *)
(* keeps holding a value of its kind, then the safety properties that rest on the types alone.    *)
EXTENDS FODSystem, FiniteSetTheorems, TLAPS

-----------------------------------------------------------------------
(* What the operators on streams return. *)

\* The number of unread bytes is a number.
LEMMA UnreadType == ASSUME NEW s \in Streams PROVE Unread(s) \in Int
  <1>1. CASE s = << >>
    BY <1>1 DEF Unread
  <1>2. CASE s # << >>
    <2>1. s[Len(s)] \in Chunks
      BY <1>2 DEF Streams
    <2> QED
      BY <1>2, <2>1 DEF Unread, Chunks
  <1> QED
    BY <1>1, <1>2

\* Chunks are made of what their fields may hold.
LEMMA ChunkType ==
    ASSUME NEW kind \in Kinds, NEW n \in Int, NEW id \in Nat, NEW num \in Int, NEW tag \in Tags
    PROVE  Chunk(kind, n, id, num, tag) \in Chunks
  BY DEF Chunk, Chunks

\* A chunk ends somewhere.
LEMMA EndType == ASSUME NEW c \in Chunks PROVE c.end \in Int
  BY DEF Chunks

\* A chunk that is moved is a chunk.
LEMMA MovedType == ASSUME NEW c \in Chunks, NEW n \in Int PROVE [c EXCEPT !.end = n] \in Chunks
  BY DEF Chunks

\* A chunk put at the end of a stream makes a stream ...
LEMMA PlusType == ASSUME NEW s \in Streams, NEW c \in Chunks PROVE s \oplus c \in Streams
  <1>1. Unread(s) \in Int /\ c.end \in Int
    BY UnreadType, EndType
  <1>2. [c EXCEPT !.end = Unread(s) + @] \in Chunks
    BY <1>1, MovedType
  <1> QED
    BY <1>2 DEF \oplus, Streams

\* ... and so does a packet.
LEMMA SentType == ASSUME NEW s \in Streams, NEW packet \in Streams PROVE Sent(s, packet) \in Streams
  <1>1. [i \in DOMAIN packet |-> [packet[i] EXCEPT !.end = Unread(s) + @]] \in Streams
    <2>1. Unread(s) \in Int /\ Len(packet) \in Nat /\ DOMAIN packet = 1 .. Len(packet)
      BY UnreadType DEF Streams
    <2>2. \A i \in 1 .. Len(packet) : packet[i] \in Chunks
      BY DEF Streams
    <2>3. \A i \in 1 .. Len(packet) : [packet[i] EXCEPT !.end = Unread(s) + @] \in Chunks
      <3> SUFFICES ASSUME NEW i \in 1 .. Len(packet)
                   PROVE  [packet[i] EXCEPT !.end = Unread(s) + @] \in Chunks
        OBVIOUS
      <3>1. packet[i] \in Chunks
        BY <2>2
      <3>2. Unread(s) + packet[i].end \in Int
        BY <2>1, <3>1, EndType
      <3> QED
        BY <3>1, <3>2, MovedType
    <2> QED
      BY <2>1, <2>3 DEF Streams
  <1> QED
    BY <1>1 DEF Sent, Streams

\* No more chunks are read whole than there are.
LEMMA WholeType == ASSUME NEW s \in Streams, NEW n \in Int PROVE Whole(s, n) \in 0 .. Len(s)
  <1> DEFINE W == {i \in DOMAIN s : s[i].end <= n}
  <1>1. W \subseteq 1 .. Len(s) /\ Len(s) \in Nat
    BY DEF Streams
  <1>2. IsFiniteSet(1 .. Len(s)) /\ Cardinality(1 .. Len(s)) = Len(s)
    <2>1. 1 \in Int /\ Len(s) \in Int
      BY <1>1
    <2>2. /\ IsFiniteSet(1 .. Len(s))
          /\ Cardinality(1 .. Len(s)) = IF 1 > Len(s) THEN 0 ELSE Len(s) - 1 + 1
      BY <2>1, FS_Interval
    <2> QED
      BY <1>1, <2>2
  <1>3. Cardinality(W) <= Len(s) /\ Cardinality(W) \in Nat
    BY <1>1, <1>2, FS_Subset, FS_CardinalityType
  <1> QED
    BY <1>1, <1>3 DEF Whole

\* What is left of a chunk is a chunk.
LEMMA RemnantType == ASSUME NEW c \in Chunks PROVE Remnant(c) \in Chunks
  <1> DEFINE kind == RestOf(c.kind)
  <1>1. kind \in Kinds /\ "" \in Tags
    BY DEF Kinds, Tags, RestOf
  <1>a. 0 \in Nat /\ 0 \in Int
    OBVIOUS
  <1> HIDE DEF kind
  <1>2. Chunk(kind, c.end, 0, 0, "") \in Chunks
    BY <1>1, <1>a, EndType, ChunkType, Zenon
  <1> QED
    BY <1>2 DEF Remnant, kind

\* Reading leaves a stream.
LEMMA AfterReadType == ASSUME NEW s \in Streams, NEW n \in Int PROVE AfterRead(s, n) \in Streams
  <1> DEFINE k == Whole(s, n)
             m == Len(s) - k
             left == [i \in 1 .. m |-> [s[k + i] EXCEPT !.end = @ - n]]
  <1>1. m \in Nat /\ k \in Nat /\ Len(s) \in Nat
    BY WholeType DEF Streams
  <1>2. \A i \in 1 .. m : [s[k + i] EXCEPT !.end = @ - n] \in Chunks
    <2> SUFFICES ASSUME NEW i \in 1 .. m PROVE [s[k + i] EXCEPT !.end = @ - n] \in Chunks
      OBVIOUS
    <2>1. k + i \in 1 .. Len(s)
      BY <1>1
    <2>2. s[k + i] \in Chunks
      BY <2>1 DEF Streams
    <2>3. s[k + i].end - n \in Int
      BY <2>2, EndType
    <2> QED
      BY <2>2, <2>3, MovedType
  <1>3. left \in [1 .. m -> Chunks]
    BY <1>2
  <1>4. \A f \in [1 .. m -> Chunks] : f \in Streams
    BY <1>1 DEF Streams
  <1>5. \A c \in Chunks : Remnant(c) \in Chunks
    BY RemnantType
  <1>6. [left EXCEPT ![1] = Remnant(@)] \in [1 .. m -> Chunks]
    BY <1>3, <1>5
  <1>7. left \in Streams /\ [left EXCEPT ![1] = Remnant(@)] \in Streams
    BY <1>3, <1>4, <1>6
  <1> QED
    BY <1>7 DEF AfterRead

\* Whatever bytes are read, they make a chunk.
LEMMA PayloadType == ASSUME NEW s \in Streams, s # << >>, NEW n \in Int PROVE Payload(s, n) \in Chunks
  <1>1. Head(s) \in Chunks
    BY DEF Streams
  <1> QED
    <2>1. "scrambled" \in Kinds /\ "" \in Tags
      BY DEF Kinds, Tags
    <2>a. 0 \in Nat /\ 0 \in Int
      OBVIOUS
    <2>2. Chunk("scrambled", n, 0, 0, "") \in Chunks
      BY <2>1, <2>a, ChunkType, Zenon
    <2> QED
      BY <1>1, <2>2 DEF Payload

\* Whatever four bytes are read as an integer, they make one.
LEMMA FrontIntsType == ASSUME NEW s \in Streams, s # << >> PROVE FrontInts(s) \subseteq Int
  <1>1. Head(s) \in Chunks
    BY DEF Streams
  <1> QED
    <2>1. MisreadInts \subseteq Int
      BY MisreadAssumption
    <2>2. Head(s).num \in Int
      BY <1>1 DEF Chunks
    <2>3. TypeReport \in Int /\ BitmapWord \in Int /\ PixelWord \in Int /\ TextWord \in Int
      BY DEF TypeReport, BitmapWord, PixelWord, TextWord
    <2> QED
      BY <2>1, <2>2, <2>3 DEF FrontInts

-----------------------------------------------------------------------
(* The chunks and packets that the programs send. *)

\* One chunk of each kind is a chunk.
LEMMA SentChunkTypes ==
    ASSUME NEW n \in Int, NEW r \in Nat, NEW cred \in Credentials, NEW status \in SrvState
    PROVE  /\ IntChunk(n) \in Chunks /\ ByteChunk(n) \in Chunks /\ AuthChunk(cred) \in Chunks
           /\ HeaderChunk(r, n) \in Chunks /\ DescChunk(r) \in Chunks
           /\ TextChunk(r, status) \in Chunks /\ BitmapChunk(r) \in Chunks
  <1>1. 0 \in Nat /\ 0 \in Int /\ 1 \in Int /\ 4 \in Int /\ AuthLen(cred) \in Int
    BY DEF AuthLen
  <1>2. HeaderLen \in Int /\ DescLen \in Int /\ TextLen \in Int /\ BitmapLen \in Int
    BY LengthsAssumption
  <1>3. {"int", "byte", "auth", "header", "desc", "text", "bitmap"} \subseteq Kinds
    BY DEF Kinds
  <1>4. "" \in Tags /\ cred \in Tags /\ status \in Tags
    BY DEF Tags
  <1>5. IntChunk(n) \in Chunks /\ ByteChunk(n) \in Chunks
    BY <1>1, <1>3, <1>4, ChunkType, Zenon DEF IntChunk, ByteChunk
  <1>6. AuthChunk(cred) \in Chunks
    BY <1>1, <1>3, <1>4, ChunkType, Zenon DEF AuthChunk
  <1>7. HeaderChunk(r, n) \in Chunks /\ DescChunk(r) \in Chunks
    BY <1>1, <1>2, <1>3, <1>4, ChunkType, Zenon DEF HeaderChunk, DescChunk
  <1>8. TextChunk(r, status) \in Chunks /\ BitmapChunk(r) \in Chunks
    BY <1>1, <1>2, <1>3, <1>4, ChunkType, Zenon DEF TextChunk, BitmapChunk
  <1> QED
    BY <1>5, <1>6, <1>7, <1>8

\* Every answer of the server is a stream.
LEMMA AnswerTypes ==
    ASSUME NEW r \in Nat, NEW status \in SrvState
    PROVE  /\ Response(r, status) \in Streams /\ Bitmap(r) \in Streams /\ HeartbeatAck \in Streams
           /\ << >> \oplus ByteChunk(0) \in Streams /\ << >> \oplus ByteChunk(1) \in Streams
  <1>1. << >> \in Streams
    BY DEF Streams
  <1>2. \A n \in Int : IntChunk(n) \in Chunks /\ ByteChunk(n) \in Chunks
    BY SentChunkTypes DEF Credentials
  <1>3. TextChunk(r, status) \in Chunks /\ BitmapChunk(r) \in Chunks
    BY SentChunkTypes DEF Credentials
  <1>4. TextLen \in Int /\ BitmapLen \in Int /\ 4 \in Int /\ 0 \in Int /\ 1 \in Int
    BY LengthsAssumption
  <1>5. TypeBitmap \in Int /\ TypeHeartbeat \in Int
    BY DEF TypeBitmap, TypeHeartbeat
  <1>6. Response(r, status) \in Streams
    BY <1>1, <1>2, <1>3, <1>4, PlusType, Zenon DEF Response
  <1>7. Bitmap(r) \in Streams
    BY <1>1, <1>2, <1>3, <1>4, <1>5, PlusType, Zenon DEF Bitmap
  <1>8. HeartbeatAck \in Streams
    BY <1>1, <1>2, <1>4, <1>5, PlusType, Zenon DEF HeartbeatAck
  <1>9. << >> \oplus ByteChunk(0) \in Streams /\ << >> \oplus ByteChunk(1) \in Streams
    BY <1>1, <1>2, <1>4, PlusType, Zenon
  <1> QED
    BY <1>6, <1>7, <1>8, <1>9

-----------------------------------------------------------------------
(* What the calls of the two ends do to the connection. *)

\* A send leaves a connection.
LEMMA SendTypes ==
    ASSUME TcpTypes, NEW packet \in Streams
    PROVE  /\ ClientSend(packet) => c2s' \in Streams /\ closed' \subseteq Ends /\ down' \subseteq Ends
           /\ ServerSend(packet) => s2c' \in Streams /\ closed' \subseteq Ends /\ down' \subseteq Ends
  <1>1. Sent(c2s, packet) \in Streams /\ Sent(s2c, packet) \in Streams
    BY SentType DEF TcpTypes
  <1> QED
    BY <1>1 DEF TcpTypes, ClientSend, ServerSend, Ends

\* So does a receive, whatever the number of bytes.
LEMMA ReadTypes ==
    ASSUME TcpTypes, NEW n \in Int
    PROVE  /\ ClientReads(n) => s2c' \in Streams
           /\ ServerReads(n) => c2s' \in Streams
  BY AfterReadType DEF TcpTypes, ClientReads, ServerReads

-----------------------------------------------------------------------
(* Types are preserved by the server ... *)

\* The state machine stays among its states.
LEMMA SrvTransitionType ==
    ASSUME NEW from \in SrvState, NEW to \in SrvState PROVE SrvTransition(from, to) \in SrvState
  BY DEF SrvTransition

\* A step of the server keeps the types of its variables and of the connection's.
LEMMA SrvTypesStep == ASSUME TypeOK, SrvNext PROVE TcpTypes' /\ SrvTypes'
  <1> USE DEF TypeOK
  <1> DEFINE SrvGoal == TcpTypes' /\ SrvTypes'
  <1>a. /\ 4 \in Int /\ want \in Int
        /\ {"DISCONNECTED", "CONNECTED", "INSPECTION", "CLEARED", "HAZARD"} \subseteq SrvState
    BY DEF SrvTypes, SrvState
  <1>b. \A to \in SrvState : SrvTransition(ss, to) \in SrvState
    BY SrvTransitionType DEF SrvTypes
  <1>c. SrvTransition(ss, "DISCONNECTED") \in SrvState /\ SrvTransition(ss, "CONNECTED") \in SrvState
        /\ SrvTransition(ss, "INSPECTION") \in SrvState
        /\ SrvTransition(ss, Assess(hdr.severity)) \in SrvState
    BY <1>a, <1>b, Zenon DEF Assess
  <1>d. LoginArrived => c2s' \in Streams
    <2>1. Len(c2s) >= 2 => c2s[2].end \in Int
      <3>1. Len(c2s) >= 2 => c2s[2] \in Chunks
        BY DEF TcpTypes, Streams
      <3> QED
        BY <3>1, EndType
    <2> QED
      BY <2>1, ReadTypes DEF LoginArrived
  <1>e. ServerReads(4) \/ ServerReads(want) => c2s' \in Streams
    BY <1>a, ReadTypes
  <1>f. \A b \in {0, 1} : ServerSend(<< >> \oplus ByteChunk(b)) =>
            s2c' \in Streams /\ closed' \subseteq Ends /\ down' \subseteq Ends
    BY <1>a, AnswerTypes, SendTypes, 0 \in Nat
  <1>1. CASE SrvAcceptLogin
    BY <1>1, <1>c, <1>d, <1>f DEF SrvAcceptLogin, SrvTypes, TcpTypes, Phases
  <1>2. CASE SrvRejectLogin
    BY <1>2, <1>d, <1>f DEF SrvRejectLogin, Abandon, SrvTypes, TcpTypes, Phases
  <1>3. CASE SrvLoginFails
    BY <1>3, <1>e DEF SrvLoginFails, Abandon, SrvTypes, TcpTypes, Phases
  <1>4. CASE SrvSelect
    BY <1>4 DEF SrvSelect, tcpVars, SrvTypes, TcpTypes, Phases
  <1>5. CASE SrvSelectFails
    BY <1>5, <1>c DEF SrvSelectFails, Disconnect, tcpVars, SrvTypes, TcpTypes, Phases
  <1>6. CASE SrvRecvLength
    <2>1. c2s # << >> /\ c2s' \in Streams
      BY <1>6, <1>e DEF SrvRecvLength, ServerReads
    <2>2. PICK n \in FrontInts(c2s) :
            IF AcceptedLength(n, MaxPacket)
            THEN /\ want' = n /\ phase' = IF phase = "length" THEN "payload" ELSE "desc"
                 /\ UNCHANGED <<ss, hdr, out, ledger>>
            ELSE Disconnect /\ UNCHANGED want
      BY <1>6 DEF SrvRecvLength
    <2>3. n \in Int
      BY <2>1, FrontIntsType DEF TcpTypes
    <2>4. want' \in Nat
      BY <2>2, <2>3 DEF AcceptedLength, SrvTypes
    <2>5. ss' \in SrvState /\ phase' \in Phases /\ UNCHANGED <<hdr, out, ledger>>
      BY <2>2, <1>c DEF Disconnect, SrvTypes, Phases
    <2> QED
      BY <1>6, <2>1, <2>4, <2>5 DEF SrvRecvLength, SrvTypes, TcpTypes
  <1>7. CASE SrvRecvFails
    BY <1>7, <1>c DEF SrvRecvFails, Disconnect, tcpVars, SrvTypes, TcpTypes, Phases
  <1>8. CASE SrvRecvHeartbeat
    <2>1. HeartbeatAck \in Streams
      BY <1>a, AnswerTypes, 0 \in Nat
    <2> QED
      BY <1>8, <1>e, <2>1 DEF SrvRecvHeartbeat, SrvTypes, TcpTypes, Phases
  <1>9. CASE SrvRecvMalformed
    BY <1>9, <1>e DEF SrvRecvMalformed, Abandon, SrvTypes, TcpTypes, Phases
  <1>10. CASE SrvRecvHeader
    <2>1. hdr' \in Headers
      <3>1. Payload(c2s, want) \in Chunks
        BY <1>10, <1>a, PayloadType DEF SrvRecvHeader, ServerReads, TcpTypes
      <3>2. HeadersIn(Payload(c2s, want)) \subseteq Headers
        BY <3>1 DEF HeadersIn, GarbledHeaders, Headers, Chunks
      <3> QED
        BY <1>10, <3>2 DEF SrvRecvHeader
    <2> QED
      BY <1>10, <1>c, <1>e, <2>1 DEF SrvRecvHeader, SrvTypes, TcpTypes, Phases
  <1>11. CASE SrvRecvBadDescription
    BY <1>11, <1>c, <1>e DEF SrvRecvBadDescription, Disconnect, SrvTypes, TcpTypes, Phases
  <1>12. CASE SrvRecordReport
    <2>1. ledger' \in Seq(Records)
      <3>1. Payload(c2s, want) \in Chunks
        BY <1>12, <1>a, PayloadType DEF SrvRecordReport, ServerReads, TcpTypes
      <3>2. DescriptionsIn(Payload(c2s, want)) \subseteq Nat /\ SaveResults \subseteq BOOLEAN
        <4>1. Payload(c2s, want).id \in Nat
          BY <3>1 DEF Chunks
        <4>2. SaveResults \subseteq BOOLEAN
          BY Zenon DEF SaveResults
        <4> QED
          BY <4>1, <4>2 DEF DescriptionsIn
      <3>3. \A d \in Nat, saved \in BOOLEAN :
              [id |-> hdr.id, desc |-> d, severity |-> hdr.severity, saved |-> saved] \in Records
        BY DEF SrvTypes, Headers, Records
      <3> QED
        BY <1>12, <3>2, <3>3 DEF SrvRecordReport, SrvTypes
    <2>2. ss' \in SrvState
      BY <1>12, <1>c DEF SrvRecordReport
    <2>3. out' \in Seq(Streams)
      <3>1. hdr.id \in Nat
        BY DEF SrvTypes, Headers
      <3>2. Response(hdr.id, ss') \in Streams /\ Bitmap(hdr.id) \in Streams
        BY <2>2, <3>1, AnswerTypes
      <3> QED
        BY <1>12, <3>2 DEF SrvRecordReport
    <2>4. NoHeader \in Headers
      BY DEF NoHeader, Headers
    <2> QED
      BY <1>12, <1>e, <2>1, <2>2, <2>3, <2>4 DEF SrvRecordReport, SrvTypes, TcpTypes, Phases
  <1>13. CASE SrvSendAnswer
    <2>1. Head(out) \in Streams /\ Tail(out) \in Seq(Streams)
      BY <1>13 DEF SrvSendAnswer, SrvTypes
    <2>2. s2c' \in Streams /\ closed' \subseteq Ends /\ down' \subseteq Ends
      BY <1>13, <2>1, SendTypes DEF SrvSendAnswer
    <2> QED
      BY <1>13, <2>1, <2>2 DEF SrvSendAnswer, SrvTypes, TcpTypes
  <1>14. CASE SrvSendDone
    BY <1>14 DEF SrvSendDone, tcpVars, SrvTypes, TcpTypes, Phases
  <1>15. CASE SrvSendFails
    BY <1>15, <1>c DEF SrvSendFails, tcpVars, SrvTypes, TcpTypes, Phases
  <1>16. CASE SrvClose
    BY <1>16 DEF SrvClose, ServerClose, SrvTypes, TcpTypes, Phases, Ends, Streams
  <1> QED
    BY <1>1, <1>2, <1>3, <1>4, <1>5, <1>6, <1>7, <1>8, <1>9, <1>10, <1>11, <1>12, <1>13, <1>14,
       <1>15, <1>16 DEF SrvNext

-----------------------------------------------------------------------
(* ... and by the client, which has a report in hand whenever it is exchanging one. *)

ReportInHand == main \in Exchange => reports # << >>

\* The state machine stays among its states.
LEMMA CliTransitionType ==
    ASSUME NEW from \in CliState, NEW to \in CliState PROVE CliTransition(from, to) \in CliState
  BY DEF CliTransition

\* The two ways out of an exchange leave the client with values of their kinds.
LEMMA WaysOut ==
    ASSUME CliTypes
    PROVE  /\ \A to \in CliState : CliTransition(cs, to) \in CliState
           /\ Leave => CliTypes' /\ main' = "join"
           /\ BackToMenu /\ pics' \in Seq(Pictures) => CliTypes' /\ main' \in {"menu", "join"}
  <1>1. \A to \in CliState : CliTransition(cs, to) \in CliState
    BY CliTransitionType DEF CliTypes
  <1>2. CliTransition(cs, "DISCONNECTED") \in CliState /\ CliTransition(cs, "CONNECTED") \in CliState
    BY <1>1 DEF CliState
  <1>3. Leave => CliTypes' /\ main' = "join"
    BY <1>2 DEF Leave, CliTypes, MainPlace
  <1>4. ASSUME BackToMenu, pics' \in Seq(Pictures) PROVE CliTypes' /\ main' \in {"menu", "join"}
    <2>1. cs' \in CliState /\ main' \in {"menu", "join"} /\ CanReport(cs') \in BOOLEAN
      BY <1>2, <1>4 DEF BackToMenu, Loop, CanReport
    <2>2. running' \in BOOLEAN
      BY <1>4, Zenon DEF BackToMenu, CliTypes
    <2> QED
      BY <1>4, <2>1, <2>2 DEF BackToMenu, CliTypes, MainPlace
  <1> QED
    BY <1>1, <1>3, <1>4

\* A send step of the report.
LEMMA SendStepTypes ==
    ASSUME TypeOK, NEW chunk \in Chunks, NEW at, NEW next \in MainPlace,
           SendStep(at, chunk, next), cs' \in CliState
    PROVE  TcpTypes' /\ CliTypes'
  <1>1. <<chunk>> \in Streams
    BY DEF Streams
  <1>2. c2s' \in Streams /\ closed' \subseteq Ends /\ down' \subseteq Ends
    BY <1>1, SendTypes DEF TypeOK, SendStep
  <1> QED
    BY <1>2 DEF TypeOK, SendStep, threadVars, TcpTypes, CliTypes

\* Steps of the main thread, the login among them.
LEMMA WorkingTypesStep ==
    ASSUME TypeOK, ReportInHand, Working \/ CliLogin PROVE TcpTypes' /\ CliTypes'
  <1> USE DEF TypeOK
  <1>a. 1 \in Int /\ 4 \in Int /\ need \in Int /\ Current \in Nat
    BY DEF CliTypes, Current
  <1>b. ClientReads(1) \/ ClientReads(4) \/ ClientReads(need) => s2c # << >> /\ s2c' \in Streams
    <2>1. \A n \in Int : ClientReads(n) => s2c # << >> /\ s2c' \in Streams
      BY ReadTypes DEF ClientReads
    <2> QED
      BY <1>a, <2>1
  <1>c. \A to \in CliState : CliTransition(cs, to) \in CliState
    BY WaysOut
  <1>1. CASE CliLogin
    <2>1. PICK cred \in Credentials :
            ClientSend(<< >> \oplus IntChunk(AuthLen(cred)) \oplus AuthChunk(cred))
      BY <1>1 DEF CliLogin
    <2>2. << >> \oplus IntChunk(AuthLen(cred)) \oplus AuthChunk(cred) \in Streams
      <3>1. << >> \in Streams /\ AuthLen(cred) \in Int
        BY DEF Streams, AuthLen
      <3>2. \A n \in Int : IntChunk(n) \in Chunks /\ AuthChunk(cred) \in Chunks
        BY SentChunkTypes, 0 \in Nat DEF SrvState
      <3> QED
        BY <3>1, <3>2, PlusType, Zenon
    <2>3. c2s' \in Streams /\ closed' \subseteq Ends /\ down' \subseteq Ends
      BY <2>1, <2>2, SendTypes
    <2>4. cs' \in CliState
      <3>1. "CONNECTING" \in CliState /\ "AUTHENTICATING" \in CliState
        BY DEF CliState
      <3>2. CliTransition(cs, "CONNECTING") \in CliState
        BY <1>c, <3>1
      <3> QED
        BY <1>1, <3>1, <3>2, CliTransitionType DEF CliLogin
    <2> QED
      BY <1>1, <2>3, <2>4 DEF CliLogin, threadVars, TcpTypes, CliTypes, MainPlace
  <1>2. CASE CliLoginFails
    <2>1. cs' \in CliState
      BY <1>2, <1>c DEF CliLoginFails, CliState, CliTypes
    <2> QED
      BY <1>2, <2>1 DEF CliLoginFails, threadVars, tcpVars, TcpTypes, CliTypes, MainPlace
  <1>3. CASE CliRecvReply
    <2>1. TcpTypes'
      BY <1>3, <1>b DEF CliRecvReply, TcpTypes
    <2>2. CASE Head(s2c) = ByteChunk(1)
      <3>1. cs' \in CliState
        BY <1>3, <2>2, <1>c DEF CliRecvReply, CliState
      <3>2. main' \in MainPlace
        BY <1>3, <2>2 DEF CliRecvReply, Loop, MainPlace
      <3> QED
        BY <1>3, <2>1, <2>2, <3>1, <3>2 DEF CliRecvReply, CliTypes, HbPlace
    <2>3. CASE Head(s2c) # ByteChunk(1)
      BY <1>3, <2>1, <2>3, WaysOut DEF CliRecvReply
    <2> QED
      BY <2>2, <2>3
  <1>4. CASE CliSendHeaderLen
    <2>1. IntChunk(HeaderLen) \in Chunks
      <3>1. HeaderLen \in Int /\ 0 \in Nat
        BY LengthsAssumption
      <3> QED
        BY <3>1, SentChunkTypes DEF Credentials, SrvState
    <2> QED
      BY <1>4, <2>1, SendStepTypes DEF CliSendHeaderLen, CliTypes, MainPlace, Exchange, Sending
  <1>5. CASE CliSendHeader
    <2>1. HeaderChunk(Current, reports[Current]) \in Chunks
      <3>1. reports # << >>
        BY <1>5 DEF ReportInHand, CliSendHeader, SendStep, Exchange, Sending
      <3>2. reports[Current] \in Int /\ Current \in Nat
        BY <3>1 DEF CliTypes, Current
      <3> QED
        BY <3>2, SentChunkTypes DEF Credentials, SrvState
    <2> QED
      BY <1>5, <2>1, SendStepTypes DEF CliSendHeader, CliTypes, MainPlace, Exchange, Sending
  <1>6. CASE CliSendDescLen
    <2>1. IntChunk(DescLen) \in Chunks
      <3>1. DescLen \in Int /\ 0 \in Nat
        BY LengthsAssumption
      <3> QED
        BY <3>1, SentChunkTypes DEF Credentials, SrvState
    <2> QED
      BY <1>6, <2>1, SendStepTypes DEF CliSendDescLen, CliTypes, MainPlace, Exchange, Sending
  <1>7. CASE CliSendDesc
    <2>1. DescChunk(Current) \in Chunks
      BY <1>a, SentChunkTypes DEF Credentials, SrvState
    <2>2. cs' \in CliState
      BY <1>7, <1>c DEF CliSendDesc, CliState
    <2> QED
      BY <1>7, <2>1, <2>2, SendStepTypes DEF CliSendDesc, MainPlace, Exchange, Replying
  <1>8. CASE CliSendFails
    BY <1>8, WaysOut DEF CliSendFails, tcpVars, TcpTypes
  <1>9. CASE CliRecvLength
    <2>1. TcpTypes' /\ s2c # << >>
      BY <1>9, <1>b DEF CliRecvLength, TcpTypes
    <2>2. PICK n \in FrontInts(s2c) :
            IF AcceptedLength(n, MaxResponse)
            THEN need' = n /\ main' = "resp"
                 /\ UNCHANGED <<cs, paused, threadVars, reports, shown, pics>>
            ELSE Leave
      BY <1>9 DEF CliRecvLength
    <2>3. n \in Int
      BY <2>1, FrontIntsType DEF TcpTypes
    <2>4. CASE AcceptedLength(n, MaxResponse)
      BY <2>1, <2>2, <2>3, <2>4 DEF AcceptedLength, threadVars, CliTypes, MainPlace, Exchange, Replying
    <2>5. CASE ~ AcceptedLength(n, MaxResponse)
      BY <2>1, <2>2, <2>5, WaysOut
    <2> QED
      BY <2>4, <2>5
  <1>10. CASE CliRecvResponse
    <2>1. TcpTypes' /\ s2c # << >>
      BY <1>10, <1>b DEF CliRecvResponse, TcpTypes
    <2>2. Displayed(Payload(s2c, need)) \in Displays
      <3>1. Payload(s2c, need) \in Chunks
        BY <2>1, <1>a, PayloadType DEF TcpTypes
      <3> QED
        BY <3>1, <1>a DEF Displayed, Displays, Chunks
    <2>3. shown' \in Seq(Displays)
      BY <1>10, <2>2 DEF CliRecvResponse, CliTypes
    <2>4. cs' \in CliState
      BY <1>10, <1>c DEF CliRecvResponse, CliState
    <2> QED
      BY <1>10, <2>1, <2>3, <2>4 DEF CliRecvResponse, threadVars, CliTypes, MainPlace, Exchange, Fetching
  <1>11. CASE CliRecvFails
    BY <1>11, WaysOut DEF CliRecvFails, tcpVars, TcpTypes
  <1>12. CASE CliRecvBitmapType
    <2>1. TcpTypes'
      BY <1>12, <1>b DEF CliRecvBitmapType, TcpTypes
    <2>2. CASE BackToMenu
      BY <1>12, <2>1, <2>2, WaysOut DEF CliRecvBitmapType, CliTypes
    <2>3. CASE main' = "bmpSize" /\ UNCHANGED <<cs, need, paused, threadVars, reports, shown>>
      BY <1>12, <2>1, <2>3 DEF CliRecvBitmapType, threadVars, CliTypes, MainPlace, Exchange, Fetching
    <2> QED
      BY <1>12, <2>2, <2>3 DEF CliRecvBitmapType
  <1>13. CASE CliRecvBitmapSize
    <2>1. TcpTypes' /\ s2c # << >>
      BY <1>13, <1>b DEF CliRecvBitmapSize, TcpTypes
    <2>2. PICK n \in FrontInts(s2c) :
            IF AcceptedLength(n, MaxBitmap)
            THEN need' = n /\ main' = "bmpData"
                 /\ UNCHANGED <<cs, paused, threadVars, reports, shown>>
            ELSE BackToMenu
      BY <1>13 DEF CliRecvBitmapSize
    <2>3. n \in Int
      BY <2>1, FrontIntsType DEF TcpTypes
    <2>4. CASE AcceptedLength(n, MaxBitmap)
      BY <1>13, <2>1, <2>2, <2>3, <2>4
         DEF CliRecvBitmapSize, AcceptedLength, threadVars, CliTypes, MainPlace, Exchange, Fetching
    <2>5. CASE ~ AcceptedLength(n, MaxBitmap)
      BY <1>13, <2>1, <2>2, <2>5, WaysOut DEF CliRecvBitmapSize, CliTypes
    <2> QED
      BY <2>4, <2>5
  <1>14. CASE CliRecvBitmap
    <2>1. TcpTypes' /\ s2c # << >>
      BY <1>14, <1>b DEF CliRecvBitmap, TcpTypes
    <2>2. [report |-> Current, id |-> Payload(s2c, need).id] \in Pictures
      <3>1. Payload(s2c, need) \in Chunks
        BY <2>1, <1>a, PayloadType DEF TcpTypes
      <3> QED
        BY <3>1, <1>a DEF Pictures, Chunks
    <2>3. pics' \in Seq(Pictures)
      <3>1. CASE pics' = Append(pics, [report |-> Current, id |-> Payload(s2c, need).id])
        BY <2>2, <3>1 DEF CliTypes
      <3>2. CASE UNCHANGED pics
        BY <3>2 DEF CliTypes
      <3> QED
        BY <1>14, <3>1, <3>2 DEF CliRecvBitmap
    <2> QED
      BY <1>14, <2>1, <2>3, WaysOut DEF CliRecvBitmap
  <1>15. CASE CliBitmapFails
    <2>1. s2c' \in Streams
      <3>1. PICK k \in Partials : s2c' = AfterRead(s2c, k)
        BY <1>15 DEF CliBitmapFails
      <3>2. k \in Int
        BY <3>1, ClientAssumption
      <3> QED
        BY <3>1, <3>2, AfterReadType DEF TcpTypes
    <2> QED
      BY <1>15, <2>1, WaysOut DEF CliBitmapFails, TcpTypes, CliTypes
  <1>16. CASE CliExit
    BY <1>16 DEF CliExit, ClientClose, threadVars, TcpTypes, CliTypes, MainPlace, Ends, Streams
  <1> QED
    BY <1>1, <1>2, <1>3, <1>4, <1>5, <1>6, <1>7, <1>8, <1>9, <1>10, <1>11, <1>12, <1>13, <1>14,
       <1>15, <1>16 DEF Working

\* Steps of the heartbeat thread.
LEMMA HeartbeatTypesStep == ASSUME TypeOK, Heartbeat PROVE TcpTypes' /\ CliTypes'
  <1> USE DEF TypeOK
  <1>1. \A n \in Int : <<IntChunk(n)>> \in Streams
    <2>1. \A n \in Int : IntChunk(n) \in Chunks
      BY SentChunkTypes, 0 \in Nat DEF Credentials, SrvState
    <2> QED
      BY <2>1 DEF Streams
  <1>2. CASE HbWake
    BY <1>2 DEF HbWake, tcpVars, TcpTypes, CliTypes, HbPlace
  <1>3. CASE HbSendLen \/ HbSendType
    <2>1. 4 \in Int /\ TypeHeartbeat \in Int
      BY DEF TypeHeartbeat
    <2>2. c2s' \in Streams /\ closed' \subseteq Ends /\ down' \subseteq Ends
      BY <1>1, <1>3, <2>1, SendTypes DEF HbSendLen, HbSendType, HbSend
    <2> QED
      BY <1>3, <2>2 DEF HbSendLen, HbSendType, HbSend, TcpTypes, CliTypes, HbPlace
  <1>4. CASE HbSendFails \/ HbStop
    BY <1>4 DEF HbSendFails, HbStop, tcpVars, TcpTypes, CliTypes, HbPlace
  <1> QED
    BY <1>2, <1>3, <1>4 DEF Heartbeat

\* Steps of the user: a severity is stored between 0 and 5, whatever is typed.
LEMMA UserTypesStep ==
    ASSUME TypeOK, CliChooseReport \/ CliChooseExit \/ CliFillForm PROVE TcpTypes' /\ CliTypes'
  <1> USE DEF TypeOK
  <1>1. CASE CliChooseReport
    <2>1. cs' \in CliState
      BY <1>1, WaysOut DEF CliChooseReport, CliState
    <2> QED
      BY <1>1, <2>1 DEF CliChooseReport, threadVars, tcpVars, TcpTypes, CliTypes, MainPlace
  <1>2. CASE CliChooseExit
    BY <1>2, WaysOut DEF CliChooseExit, tcpVars, TcpTypes
  <1>3. CASE CliFillForm
    <2>1. \A raw \in RawSeverities : Normalized(raw) \in 0 .. 5
      BY DEF Normalized
    <2>2. reports' \in Seq(0 .. 5)
      BY <1>3, <2>1 DEF CliFillForm, CliTypes
    <2> QED
      BY <1>3, <2>2 DEF CliFillForm, threadVars, tcpVars, TcpTypes, CliTypes, MainPlace, Exchange, Sending
  <1> QED
    BY <1>1, <1>2, <1>3

\* A report is filed before its exchange, and reports are never taken back.
LEMMA ReportInHandStep == ASSUME TypeOK, ReportInHand, CliNext PROVE ReportInHand'
  <1> USE DEF ReportInHand, Exchange, Sending, Replying, Fetching, threadVars
  <1>1. CASE Heartbeat
    BY <1>1 DEF Heartbeat, HbWake, HbSendLen, HbSendType, HbSend, HbSendFails, HbStop
  <1>2. CASE CliFillForm
    BY <1>2 DEF CliFillForm, TypeOK, CliTypes
  <1>3. CASE CliChooseReport \/ CliChooseExit
    BY <1>3 DEF CliChooseReport, CliChooseExit, Leave
  <1>4. CASE CliLogin \/ CliLoginFails \/ CliRecvReply \/ CliExit
    BY <1>4 DEF CliLogin, CliLoginFails, CliRecvReply, CliExit, Leave, Loop
  <1>5. CASE CliSendHeaderLen \/ CliSendHeader \/ CliSendDescLen \/ CliSendDesc \/ CliSendFails
    BY <1>5 DEF CliSendHeaderLen, CliSendHeader, CliSendDescLen, CliSendDesc, SendStep, CliSendFails, Leave
  <1>6. CASE CliRecvLength \/ CliRecvResponse \/ CliRecvFails
    BY <1>6 DEF CliRecvLength, CliRecvResponse, CliRecvFails, Leave
  <1>7. CASE CliRecvBitmapType \/ CliRecvBitmapSize \/ CliRecvBitmap \/ CliBitmapFails
    BY <1>7 DEF CliRecvBitmapType, CliRecvBitmapSize, CliRecvBitmap, CliBitmapFails, BackToMenu, Loop
  <1> QED
    BY <1>1, <1>2, <1>3, <1>4, <1>5, <1>6, <1>7 DEF CliNext, Working

-----------------------------------------------------------------------
(* The type invariant. *)

TypeInv == TypeOK /\ ReportInHand

\* It holds initially ...
LEMMA InitTypeInv == Init => TypeInv
  <1> SUFFICES ASSUME Init PROVE TypeInv
    OBVIOUS
  <1> USE DEF Init, TypeInv
  <1>1. TcpTypes
    BY DEF TcpInit, TcpTypes, Streams, Ends
  <1>2. SrvTypes
    <2>1. phase \in Phases /\ ss \in SrvState /\ authenticated \in BOOLEAN
      BY Zenon DEF SrvInit, Phases, SrvState
    <2>2. want \in Nat /\ hdr \in Headers
      BY DEF SrvInit, NoHeader, Headers
    <2>3. out \in Seq(Streams) /\ ledger \in Seq(Records)
      BY DEF SrvInit
    <2> QED
      BY <2>1, <2>2, <2>3 DEF SrvTypes
  <1>3. CliTypes /\ ReportInHand
    <2>1. main \in MainPlace /\ main \notin Exchange /\ cs \in CliState /\ hb \in HbPlace
      BY DEF CliInit, MainPlace, CliState, HbPlace, Exchange, Sending, Replying, Fetching
    <2>2. running \in BOOLEAN /\ paused \in BOOLEAN
      BY Zenon DEF CliInit
    <2>3. need \in Nat /\ beats \in Nat
      BY DEF CliInit
    <2>4. reports \in Seq(0 .. 5) /\ shown \in Seq(Displays) /\ pics \in Seq(Pictures)
      BY DEF CliInit
    <2> QED
      BY <2>1, <2>2, <2>3, <2>4 DEF CliTypes, ReportInHand
  <1> QED
    BY <1>1, <1>2, <1>3 DEF TypeOK

\* ... and every step keeps it.
LEMMA NextTypeInv == TypeInv /\ [Next]_vars => TypeInv'
  <1> SUFFICES ASSUME TypeOK, ReportInHand, [Next]_vars PROVE TypeOK' /\ ReportInHand'
    BY DEF TypeInv
  <1>a. UNCHANGED cliVars => ReportInHand' /\ CliTypes'
    BY DEF TypeOK, CliTypes, cliVars, ReportInHand
  <1>b. UNCHANGED srvVars => SrvTypes'
    BY DEF TypeOK, SrvTypes, srvVars
  <1>1. CASE SrvNext /\ UNCHANGED cliVars
    BY <1>1, <1>a, SrvTypesStep DEF TypeOK
  <1>2. CASE CliNext /\ UNCHANGED srvVars
    <2>1. TcpTypes' /\ CliTypes'
      BY <1>2, WorkingTypesStep, HeartbeatTypesStep, UserTypesStep DEF CliNext
    <2> QED
      BY <1>2, <1>b, <2>1, ReportInHandStep DEF TypeOK
  <1>3. CASE (LinkLost \/ RetransmitFails) /\ UNCHANGED <<srvVars, cliVars>>
    <2>1. TcpTypes'
      BY <1>3 DEF LinkLost, RetransmitFails, TypeOK, TcpTypes, Ends
    <2> QED
      BY <1>3, <1>a, <1>b, <2>1 DEF TypeOK
  <1>4. CASE UNCHANGED vars
    <2>1. TcpTypes'
      BY <1>4 DEF vars, tcpVars, TypeOK, TcpTypes
    <2> QED
      BY <1>4, <1>a, <1>b, <2>1 DEF TypeOK, vars
  <1> QED
    BY <1>1, <1>2, <1>3, <1>4 DEF Next

\* Every variable of the connection, of the server session and of the client session holds a value
\* of its kind; in particular neither program ever waits for a negative number of bytes.
THEOREM TypeCorrect == Spec => [](TypeOK /\ ReportInHand)
  <1>1. Init => TypeInv
    BY InitTypeInv
  <1>2. TypeInv /\ [Next]_vars => TypeInv'
    BY NextTypeInv
  <1>3. TypeInv => TypeOK /\ ReportInHand
    BY DEF TypeInv
  <1> QED
    BY <1>1, <1>2, <1>3, PTL DEF Spec

-----------------------------------------------------------------------
(* The server's state machine agrees with the place in the code. *)

\* Every transition that the session attempts is legal where it is attempted.
LEMMA SrvLegalTransitions ==
    /\ SrvTransition("DISCONNECTED", "CONNECTED") = "CONNECTED"
    /\ \A s \in {"CONNECTED", "HAZARD", "CLEARED"} : SrvTransition(s, "INSPECTION") = "INSPECTION"
    /\ \A severity : SrvTransition("INSPECTION", Assess(severity)) = Assess(severity)
  BY DEF SrvTransition, SrvEdges, Assess

\* Every step keeps the two in agreement.
LEMMA RunwayStateAgreesStep == TypeOK /\ RunwayStateAgrees /\ [Next]_vars => RunwayStateAgrees'
  <1> SUFFICES ASSUME TypeOK, RunwayStateAgrees, [Next]_vars PROVE RunwayStateAgrees'
    OBVIOUS
  <1> USE DEF RunwayStateAgrees
  <1>a. ledger \in Seq(Records)
    BY DEF TypeOK, SrvTypes
  <1>b. UNCHANGED srvVars => RunwayStateAgrees'
    BY DEF srvVars
  <1>1. CASE SrvAcceptLogin
    BY <1>1, SrvLegalTransitions DEF SrvAcceptLogin
  <1>2. CASE SrvRejectLogin \/ SrvLoginFails
    BY <1>2 DEF SrvRejectLogin, SrvLoginFails, Abandon
  <1>3. CASE SrvSelect
    BY <1>3 DEF SrvSelect
  <1>4. CASE SrvSelectFails \/ SrvRecvFails \/ SrvRecvBadDescription
    BY <1>4 DEF SrvSelectFails, SrvRecvFails, SrvRecvBadDescription, Disconnect
  <1>5. CASE SrvRecvLength
    <2>1. CASE Disconnect
      BY <2>1 DEF Disconnect
    <2>2. CASE /\ phase' = IF phase = "length" THEN "payload" ELSE "desc"
               /\ UNCHANGED <<ss, hdr, out, ledger>>
      BY <1>5, <2>2 DEF SrvRecvLength
    <2> QED
      BY <1>5, <2>1, <2>2 DEF SrvRecvLength
  <1>6. CASE SrvRecvHeartbeat
    BY <1>6 DEF SrvRecvHeartbeat
  <1>7. CASE SrvRecvMalformed
    BY <1>7 DEF SrvRecvMalformed, Abandon
  <1>8. CASE SrvRecvHeader
    <2>1. ss \in {"CONNECTED", "HAZARD", "CLEARED"}
      BY <1>8 DEF SrvRecvHeader, Assess
    <2> QED
      BY <1>8, <2>1, SrvLegalTransitions DEF SrvRecvHeader
  <1>9. CASE SrvRecordReport
    <2>1. ss' = Assess(hdr.severity)
      BY <1>9, SrvLegalTransitions DEF SrvRecordReport
    <2>2. PICK e : ledger' = Append(ledger, e) /\ e.severity = hdr.severity
      BY <1>9 DEF SrvRecordReport
    <2>3. ledger' # << >> /\ ledger'[Len(ledger')] = e
      BY <1>a, <2>2
    <2> QED
      BY <1>9, <2>1, <2>2, <2>3 DEF SrvRecordReport
  <1>10. CASE SrvSendAnswer \/ SrvSendDone
    BY <1>10 DEF SrvSendAnswer, SrvSendDone
  <1>11. CASE SrvSendFails \/ SrvClose
    BY <1>11 DEF SrvSendFails, SrvClose
  <1>12. CASE CliNext /\ UNCHANGED srvVars
    BY <1>12, <1>b
  <1>13. CASE (LinkLost \/ RetransmitFails) /\ UNCHANGED <<srvVars, cliVars>>
    BY <1>13, <1>b
  <1>14. CASE UNCHANGED vars
    BY <1>14, <1>b DEF vars
  <1> QED
    BY <1>1, <1>2, <1>3, <1>4, <1>5, <1>6, <1>7, <1>8, <1>9, <1>10, <1>11, <1>12, <1>13, <1>14
       DEF Next, SrvNext

\* At each blocking call of runServerSession the runway state machine is where that call expects
\* it, and between two reports it shows what the last recorded report called for.
THEOREM RunwayStateCorrect == Spec => []RunwayStateAgrees
  <1>1. Init => RunwayStateAgrees
    BY DEF Init, SrvInit, RunwayStateAgrees
  <1>2. TypeOK /\ RunwayStateAgrees /\ [Next]_vars => RunwayStateAgrees'
    BY RunwayStateAgreesStep
  <1> QED
    BY <1>1, <1>2, TypeCorrect, PTL DEF Spec

-----------------------------------------------------------------------
(* The client's state machine and flags agree with the place in the code. *)

\* Inductive with this: the heartbeat thread is not running before the login is accepted.
HeartbeatAfterLogin == main \in {"login", "reply"} => ~ running

CliInv == ClientStateAgrees /\ HeartbeatAfterLogin

\* Every transition that the session attempts is legal where it is attempted.
LEMMA CliLegalTransitions ==
    /\ CliTransition(CliTransition("DISCONNECTED", "CONNECTING"), "AUTHENTICATING") = "AUTHENTICATING"
    /\ CliTransition("AUTHENTICATING", "CONNECTED") = "CONNECTED"
    /\ CliTransition("CONNECTED", "REPORTING") = "REPORTING"
    /\ CliTransition("REPORTING", "WAITING_RESPONSE") = "WAITING_RESPONSE"
    /\ CliTransition("WAITING_RESPONSE", "RECEIVING_BITMAP") = "RECEIVING_BITMAP"
    /\ CliTransition("RECEIVING_BITMAP", "CONNECTED") = "CONNECTED"
    /\ \A s \in CliState : CliTransition(s, "DISCONNECTED") = "DISCONNECTED"
  BY DEF CliTransition, CliEdges, CliState

\* Every step keeps them in agreement.
LEMMA CliInvStep == TypeOK /\ CliInv /\ [Next]_vars => CliInv'
  <1> SUFFICES ASSUME TypeOK, CliInv, [Next]_vars PROVE CliInv'
    OBVIOUS
  <1> USE DEF CliInv, ClientStateAgrees, HeartbeatAfterLogin, Sending, Replying, Fetching, threadVars
  <1>a. cs \in CliState
    BY DEF TypeOK, CliTypes
  <1>b. UNCHANGED cliVars => CliInv'
    BY DEF cliVars
  <1>c. Leave => CliInv'
    BY <1>a, CliLegalTransitions DEF Leave
  <1>d. main \in Fetching /\ BackToMenu => CliInv'
    BY CliLegalTransitions DEF BackToMenu, Loop, CanReport
  <1>1. CASE CliLogin
    BY <1>1, CliLegalTransitions DEF CliLogin
  <1>2. CASE CliLoginFails
    <2>1. cs' = "DISCONNECTED"
      BY <1>2, <1>a, CliLegalTransitions DEF CliLoginFails
    <2> QED
      BY <1>2, <2>1 DEF CliLoginFails
  <1>3. CASE CliRecvReply
    <2>1. CASE Head(s2c) = ByteChunk(1)
      BY <1>3, <2>1, CliLegalTransitions DEF CliRecvReply, Loop, CanReport
    <2> QED
      BY <1>3, <1>c, <2>1 DEF CliRecvReply
  <1>4. CASE CliSendHeaderLen \/ CliSendHeader \/ CliSendDescLen
    BY <1>4 DEF CliSendHeaderLen, CliSendHeader, CliSendDescLen, SendStep
  <1>5. CASE CliSendDesc
    BY <1>5, CliLegalTransitions DEF CliSendDesc, SendStep
  <1>6. CASE CliSendFails \/ CliRecvFails \/ CliChooseExit
    BY <1>6, <1>c DEF CliSendFails, CliRecvFails, CliChooseExit
  <1>7. CASE CliRecvLength
    <2>1. CASE main' = "resp" /\ UNCHANGED <<cs, paused, threadVars, reports, shown, pics>>
      BY <1>7, <2>1 DEF CliRecvLength
    <2> QED
      BY <1>7, <1>c, <2>1 DEF CliRecvLength
  <1>8. CASE CliRecvResponse
    BY <1>8, CliLegalTransitions DEF CliRecvResponse
  <1>9. CASE CliRecvBitmapType \/ CliRecvBitmapSize
    <2>1. CASE main' \in {"bmpSize", "bmpData"} /\ UNCHANGED <<cs, paused, running>>
      BY <1>9, <2>1 DEF CliRecvBitmapType, CliRecvBitmapSize
    <2> QED
      BY <1>9, <1>d, <2>1 DEF CliRecvBitmapType, CliRecvBitmapSize
  <1>10. CASE CliRecvBitmap \/ CliBitmapFails
    BY <1>10, <1>d DEF CliRecvBitmap, CliBitmapFails
  <1>11. CASE CliExit
    BY <1>11 DEF CliExit
  <1>12. CASE CliChooseReport
    BY <1>12, CliLegalTransitions DEF CliChooseReport
  <1>13. CASE CliFillForm
    BY <1>13 DEF CliFillForm
  <1>14. CASE Heartbeat
    BY <1>14 DEF Heartbeat, HbWake, HbSendLen, HbSendType, HbSend, HbSendFails, HbStop
  <1>15. CASE SrvNext /\ UNCHANGED cliVars
    BY <1>15, <1>b
  <1>16. CASE (LinkLost \/ RetransmitFails) /\ UNCHANGED <<srvVars, cliVars>>
    BY <1>16, <1>b
  <1>17. CASE UNCHANGED vars
    BY <1>17, <1>b DEF vars
  <1> QED
    BY <1>1, <1>2, <1>3, <1>4, <1>5, <1>6, <1>7, <1>8, <1>9, <1>10, <1>11, <1>12, <1>13, <1>14,
       <1>15, <1>16, <1>17 DEF Next, CliNext, Working

\* At each blocking call of runClientSession the state machine and the pause flag are what that
\* place calls for, however the exchange before it went.
THEOREM ClientStateCorrect == Spec => []ClientStateAgrees
  <1>1. Init => CliInv
    BY DEF Init, CliInit, CliInv, ClientStateAgrees, HeartbeatAfterLogin, Sending, Replying, Fetching
  <1>2. TypeOK /\ CliInv /\ [Next]_vars => CliInv'
    BY CliInvStep
  <1>3. CliInv => ClientStateAgrees
    BY DEF CliInv
  <1> QED
    BY <1>1, <1>2, <1>3, TypeCorrect, PTL DEF Spec

-----------------------------------------------------------------------
(* Nothing is filed or recorded without a login. *)

\* Inductive with this: until the login is accepted neither program is past it, and the only answer
\* on its way to the client, if any, is a refusal.
BeforeLogin ==
    /\ phase = "auth" => ~ authenticated /\ s2c = << >>
    /\ ~ authenticated =>
          /\ phase \in {"auth", "ended", "closed"} /\ ledger = << >>
          /\ main \in {"login", "reply", "join", "exited"} /\ reports = << >>
          /\ main \in {"login", "reply"} => s2c \in {<< >>, <<ByteChunk(0)>>}

\* The first chunk of a stream ends after its length.
LEMMA FirstChunk == ASSUME NEW c \in Chunks PROVE [c EXCEPT !.end = Unread(<< >>) + @] = c
  <1>1. c.end \in Int /\ Unread(<< >>) = 0
    BY EndType DEF Unread
  <1>2. Unread(<< >>) + c.end = c.end
    BY <1>1
  <1> QED
    BY <1>2, Zenon DEF Chunks

\* A refusal is not an acceptance, and is all there is in a stream it is put into.
LEMMA Refusal == /\ ByteChunk(0) # ByteChunk(1)
                 /\ Sent(<< >>, << >> \oplus ByteChunk(0)) = <<ByteChunk(0)>>
  <1>1. ByteChunk(0).num # ByteChunk(1).num
    BY DEF ByteChunk, Chunk
  <1>a. [ByteChunk(0) EXCEPT !.end = Unread(<< >>) + @] = ByteChunk(0)
    <2>1. ByteChunk(0) \in Chunks
      BY SentChunkTypes, 0 \in Nat, 0 \in Int DEF Credentials, SrvState
    <2> QED
      BY <2>1, FirstChunk
  <1>2. << >> \oplus ByteChunk(0) = <<ByteChunk(0)>>
    BY <1>a DEF \oplus
  <1>3. Sent(<< >>, <<ByteChunk(0)>>) = <<ByteChunk(0)>>
    <2>2. [i \in DOMAIN <<ByteChunk(0)>> |-> [<<ByteChunk(0)>>[i] EXCEPT !.end = Unread(<< >>) + @]]
            = <<ByteChunk(0)>>
      BY <1>a
    <2> QED
      BY <2>2 DEF Sent
  <1> QED
    BY <1>1, <1>2, <1>3

\* Every step keeps it so.
LEMMA BeforeLoginStep == TypeOK /\ BeforeLogin /\ [Next]_vars => BeforeLogin'
  <1> SUFFICES ASSUME TypeOK, BeforeLogin, [Next]_vars PROVE BeforeLogin'
    OBVIOUS
  <1> USE DEF BeforeLogin
  <1>a. main \in {"login", "reply", "join", "exited"} => main \notin Exchange \union {"menu", "form"}
    BY DEF Exchange, Sending, Replying, Fetching
  <1>1. CASE SrvAcceptLogin /\ UNCHANGED cliVars
    BY <1>1 DEF SrvAcceptLogin
  <1>2. CASE SrvRejectLogin /\ UNCHANGED cliVars
    <2>1. s2c' \in {<< >>, <<ByteChunk(0)>>}
      BY <1>2, Refusal DEF SrvRejectLogin, ServerSend
    <2> QED
      BY <1>2, <2>1 DEF SrvRejectLogin, Abandon, cliVars
  <1>3. CASE SrvLoginFails /\ UNCHANGED cliVars
    BY <1>3 DEF SrvLoginFails, Abandon, cliVars
  <1>4. CASE SrvClose /\ UNCHANGED cliVars
    BY <1>4 DEF SrvClose, ServerClose, cliVars
  <1>5. CASE /\ SrvNext /\ UNCHANGED cliVars
             /\ phase \notin {"auth", "ended", "closed"} /\ phase' # "auth" /\ UNCHANGED authenticated
    BY <1>5
  <1>6. CASE SrvNext /\ UNCHANGED cliVars
    <2>1. \/ SrvAcceptLogin \/ SrvRejectLogin \/ SrvLoginFails \/ SrvClose
          \/ phase \notin {"auth", "ended", "closed"} /\ phase' # "auth" /\ UNCHANGED authenticated
      <3>1. SrvSelect \/ SrvSelectFails \/ SrvRecvFails \/ SrvRecvHeartbeat \/ SrvRecvMalformed =>
              phase \notin {"auth", "ended", "closed"} /\ phase' # "auth" /\ UNCHANGED authenticated
        BY DEF SrvSelect, SrvSelectFails, SrvRecvFails, SrvRecvHeartbeat, SrvRecvMalformed, Disconnect,
               Abandon
      <3>2. SrvRecvLength =>
              phase \notin {"auth", "ended", "closed"} /\ phase' # "auth" /\ UNCHANGED authenticated
        BY DEF SrvRecvLength, Disconnect
      <3>3. SrvRecvHeader \/ SrvRecvBadDescription \/ SrvRecordReport =>
              phase \notin {"auth", "ended", "closed"} /\ phase' # "auth" /\ UNCHANGED authenticated
        BY DEF SrvRecvHeader, SrvRecvBadDescription, SrvRecordReport, Disconnect
      <3>4. SrvSendAnswer \/ SrvSendDone \/ SrvSendFails =>
              phase \notin {"auth", "ended", "closed"} /\ phase' # "auth" /\ UNCHANGED authenticated
        BY DEF SrvSendAnswer, SrvSendDone, SrvSendFails
      <3> QED
        BY <1>6, <3>1, <3>2, <3>3, <3>4 DEF SrvNext
    <2> QED
      BY <1>1, <1>2, <1>3, <1>4, <1>5, <1>6, <2>1
  <1>7. CASE (CliLogin \/ CliLoginFails \/ CliExit \/ Heartbeat) /\ UNCHANGED srvVars
    <2>1. CASE CliLogin
      BY <1>7, <2>1 DEF CliLogin, srvVars
    <2>2. CASE CliLoginFails
      BY <1>7, <2>2 DEF CliLoginFails, tcpVars, srvVars
    <2>3. CASE CliExit
      BY <1>7, <2>3 DEF CliExit, ClientClose, srvVars
    <2>4. CASE Heartbeat
      BY <1>7, <2>4 DEF Heartbeat, HbWake, HbSendLen, HbSendType, HbSend, HbSendFails, HbStop, tcpVars,
                        srvVars
    <2> QED
      BY <1>7, <2>1, <2>2, <2>3, <2>4
  <1>8. CASE CliRecvReply /\ UNCHANGED srvVars
    <2>1. s2c # << >> /\ phase # "auth"
      BY <1>8 DEF CliRecvReply, ClientReads
    <2>2. CASE ~ authenticated
      <3>1. Head(s2c) # ByteChunk(1)
        BY <1>8, <2>1, <2>2, Refusal DEF CliRecvReply
      <3> QED
        BY <1>8, <2>1, <2>2, <3>1 DEF CliRecvReply, Leave, srvVars
    <2>3. CASE authenticated
      BY <1>8, <2>1, <2>3 DEF srvVars
    <2> QED
      BY <2>2, <2>3 DEF TypeOK, SrvTypes
  <1>9. CASE CliNext /\ UNCHANGED srvVars /\ main \in Exchange \union {"menu", "form"}
    BY <1>9, <1>a DEF srvVars
  <1>10. CASE CliNext /\ UNCHANGED srvVars
    <2>1. CliChooseReport \/ CliChooseExit \/ CliFillForm => main \in Exchange \union {"menu", "form"}
      BY DEF CliChooseReport, CliChooseExit, CliFillForm
    <2>2. CliSendHeaderLen \/ CliSendHeader \/ CliSendDescLen \/ CliSendDesc \/ CliSendFails =>
            main \in Exchange
      BY DEF CliSendHeaderLen, CliSendHeader, CliSendDescLen, CliSendDesc, SendStep, CliSendFails,
             Exchange, Sending
    <2>3. CliRecvLength \/ CliRecvResponse \/ CliRecvFails => main \in Exchange
      BY DEF CliRecvLength, CliRecvResponse, CliRecvFails, Exchange, Replying
    <2>4. CliRecvBitmapType \/ CliRecvBitmapSize \/ CliRecvBitmap \/ CliBitmapFails => main \in Exchange
      BY DEF CliRecvBitmapType, CliRecvBitmapSize, CliRecvBitmap, CliBitmapFails, Exchange, Fetching
    <2> QED
      BY <1>7, <1>8, <1>9, <1>10, <2>1, <2>2, <2>3, <2>4 DEF CliNext, Working
  <1>11. CASE (LinkLost \/ RetransmitFails) /\ UNCHANGED <<srvVars, cliVars>>
    BY <1>11 DEF LinkLost, RetransmitFails, srvVars, cliVars
  <1>12. CASE UNCHANGED vars
    BY <1>12 DEF vars, tcpVars, srvVars, cliVars
  <1> QED
    BY <1>6, <1>10, <1>11, <1>12 DEF Next

\* No report is filed by the client or recorded by the server unless the server has found the
\* credentials of the login good.
THEOREM LoginCorrect == Spec => []OnlyAuthenticatedReport
  <1>1. Init => BeforeLogin
    BY DEF Init, TcpInit, SrvInit, CliInit, BeforeLogin
  <1>2. TypeOK /\ BeforeLogin /\ [Next]_vars => BeforeLogin'
    BY BeforeLoginStep
  <1>3. BeforeLogin => OnlyAuthenticatedReport
    BY DEF BeforeLogin, OnlyAuthenticatedReport
  <1> QED
    BY <1>1, <1>2, <1>3, TypeCorrect, PTL DEF Spec

-----------------------------------------------------------------------
(* The two programs keep the session contract that the deployment relies on. *)

\* Nothing reaches the server before the client has sent its credentials.
NothingSent == main = "login" => c2s = << >> /\ hb = "off"

\* Every step keeps it so.
LEMMA NothingSentStep == NothingSent /\ [Next]_vars => NothingSent'
  <1> SUFFICES ASSUME NothingSent, [Next]_vars, main' = "login" PROVE c2s' = << >> /\ hb' = "off"
    BY DEF NothingSent
  <1> USE DEF NothingSent
  <1>1. CASE SrvNext /\ UNCHANGED cliVars
    <2>1. main = "login" /\ c2s = << >> /\ hb' = "off"
      BY <1>1 DEF cliVars
    <2>2. c2s' = << >>
      BY <1>1, <2>1 DEF SrvNext, SrvAcceptLogin, SrvRejectLogin, SrvLoginFails, LoginArrived, SrvSelect,
         SrvSelectFails, SrvRecvLength, SrvRecvFails, SrvRecvHeartbeat, SrvRecvMalformed, SrvRecvHeader,
         SrvRecvBadDescription, SrvRecordReport, SrvSendAnswer, SrvSendDone, SrvSendFails, SrvClose,
         ServerReads, ServerClose, tcpVars
    <2> QED
      BY <2>1, <2>2
  <1>2. CASE CliNext
    <2> USE DEF Sending, Fetching, Leave, BackToMenu, Loop
    <2>1. CASE Heartbeat
      BY <2>1 DEF Heartbeat, HbWake, HbSendLen, HbSendType, HbSend, HbSendFails, HbStop
    <2>2. ~ (CliLogin \/ CliLoginFails)
      BY DEF CliLogin, CliLoginFails
    <2>3. ~ (CliRecvReply \/ CliChooseReport \/ CliChooseExit \/ CliFillForm \/ CliExit)
      BY DEF CliRecvReply, CliChooseReport, CliChooseExit, CliFillForm, CliExit
    <2>4. ~ (CliSendHeaderLen \/ CliSendHeader \/ CliSendDescLen \/ CliSendDesc \/ CliSendFails)
      BY DEF CliSendHeaderLen, CliSendHeader, CliSendDescLen, CliSendDesc, SendStep, CliSendFails
    <2>5. ~ (CliRecvLength \/ CliRecvResponse \/ CliRecvFails)
      BY DEF CliRecvLength, CliRecvResponse, CliRecvFails
    <2>6. ~ (CliRecvBitmapType \/ CliRecvBitmapSize \/ CliRecvBitmap \/ CliBitmapFails)
      BY DEF CliRecvBitmapType, CliRecvBitmapSize, CliRecvBitmap, CliBitmapFails
    <2> QED
      BY <1>2, <2>1, <2>2, <2>3, <2>4, <2>5, <2>6 DEF CliNext, Working
  <1>3. CASE (LinkLost \/ RetransmitFails) /\ UNCHANGED <<srvVars, cliVars>>
    BY <1>3 DEF LinkLost, RetransmitFails, cliVars
  <1>4. CASE UNCHANGED vars
    BY <1>4 DEF vars, tcpVars, cliVars
  <1> QED
    BY <1>1, <1>2, <1>3, <1>4 DEF Next

\* Every step of the two sessions is one of the contract, or does not concern it.
LEMMA ContractStep == TypeOK /\ BeforeLogin /\ NothingSent /\ [Next]_vars => [SC!SCNext]_(SC!scVars)
  <1> SUFFICES ASSUME TypeOK, BeforeLogin, NothingSent, [Next]_vars PROVE [SC!SCNext]_(SC!scVars)
    OBVIOUS
  <1> DEFINE Srv(p) == CASE p = "auth" -> "login" [] p \in {"ended", "closed"} -> "out"
                         [] OTHER -> "serving"
             Cli(m) == CASE m = "login" -> "prompt" [] m \in {"join", "exited"} -> "out"
                         [] m = "reply" -> "reply" [] OTHER -> "in"
  <1>1. \/ UNCHANGED <<Srv(phase), Cli(main), authenticated>>
        \/ /\ Srv(phase) = "login" /\ Cli(main) # "prompt" /\ Srv(phase') = "serving" /\ authenticated'
           /\ UNCHANGED Cli(main)
        \/ Srv(phase) # "out" /\ Srv(phase') = "out" /\ UNCHANGED <<Cli(main), authenticated>>
        \/ Cli(main) = "prompt" /\ Cli(main') = "reply" /\ UNCHANGED <<Srv(phase), authenticated>>
        \/ Cli(main) = "reply" /\ authenticated /\ Cli(main') = "in" /\ UNCHANGED <<Srv(phase), authenticated>>
        \/ Cli(main) # "out" /\ Cli(main') = "out" /\ UNCHANGED <<Srv(phase), authenticated>>
    <2> USE DEF Srv, Cli
    <2>1. ASSUME SrvNext, UNCHANGED cliVars
          PROVE  \/ Srv(phase) = "login" /\ Cli(main) # "prompt" /\ Srv(phase') = "serving" /\ authenticated'
                 \/ /\ UNCHANGED authenticated
                    /\ UNCHANGED Srv(phase) \/ (Srv(phase) # "out" /\ Srv(phase') = "out")
      <3>1. CASE SrvAcceptLogin
        <4>1. main # "login"
          BY <3>1 DEF NothingSent, SrvAcceptLogin, LoginArrived
        <4> QED
          BY <3>1, <4>1 DEF SrvAcceptLogin
      <3>2. CASE SrvRejectLogin \/ SrvLoginFails \/ SrvRecvMalformed
        BY <3>2 DEF SrvRejectLogin, SrvLoginFails, SrvRecvMalformed, Abandon
      <3>3. CASE SrvSelectFails \/ SrvRecvFails \/ SrvRecvBadDescription \/ SrvSendFails
        BY <3>3 DEF SrvSelectFails, SrvRecvFails, SrvRecvBadDescription, SrvSendFails, Disconnect
      <3>4. CASE SrvRecvLength
        BY <3>4 DEF SrvRecvLength, Disconnect
      <3>5. CASE SrvSelect \/ SrvRecvHeartbeat \/ SrvRecvHeader \/ SrvRecordReport
        BY <3>5 DEF SrvSelect, SrvRecvHeartbeat, SrvRecvHeader, SrvRecordReport
      <3>6. CASE SrvSendAnswer \/ SrvSendDone \/ SrvClose
        BY <3>6 DEF SrvSendAnswer, SrvSendDone, SrvClose
      <3> QED
        BY <2>1, <3>1, <3>2, <3>3, <3>4, <3>5, <3>6 DEF SrvNext
    <2>2. ASSUME CliNext, UNCHANGED srvVars
          PROVE  \/ UNCHANGED Cli(main)
                 \/ Cli(main) = "prompt" /\ Cli(main') = "reply"
                 \/ Cli(main) = "reply" /\ authenticated /\ Cli(main') = "in"
                 \/ Cli(main) # "out" /\ Cli(main') = "out"
      <3> USE DEF Sending, Fetching, Leave, BackToMenu, Loop
      <3>1. CASE Heartbeat \/ CliLogin \/ CliLoginFails
        BY <3>1 DEF Heartbeat, HbWake, HbSendLen, HbSendType, HbSend, HbSendFails, HbStop, CliLogin,
                    CliLoginFails
      <3>2. CASE CliRecvReply
        <4>1. s2c # << >>
          BY <3>2 DEF CliRecvReply, ClientReads
        <4>2. ~ authenticated => Head(s2c) # ByteChunk(1)
          BY <3>2, <4>1, Refusal DEF CliRecvReply, BeforeLogin
        <4> QED
          BY <3>2, <4>2 DEF CliRecvReply
      <3>3. CASE CliChooseReport \/ CliChooseExit \/ CliFillForm \/ CliExit
        BY <3>3 DEF CliChooseReport, CliChooseExit, CliFillForm, CliExit
      <3>4. CASE CliSendHeaderLen \/ CliSendHeader \/ CliSendDescLen \/ CliSendDesc \/ CliSendFails
        BY <3>4 DEF CliSendHeaderLen, CliSendHeader, CliSendDescLen, CliSendDesc, SendStep, CliSendFails
      <3>5. CASE CliRecvLength \/ CliRecvResponse \/ CliRecvFails
        BY <3>5 DEF CliRecvLength, CliRecvResponse, CliRecvFails
      <3>6. CASE CliRecvBitmapType \/ CliRecvBitmapSize \/ CliRecvBitmap \/ CliBitmapFails
        BY <3>6 DEF CliRecvBitmapType, CliRecvBitmapSize, CliRecvBitmap, CliBitmapFails
      <3> QED
        BY <2>2, <3>1, <3>2, <3>3, <3>4, <3>5, <3>6 DEF CliNext, Working
    <2>3. UNCHANGED srvVars => UNCHANGED <<Srv(phase), authenticated>>
      BY DEF srvVars
    <2>4. UNCHANGED cliVars => UNCHANGED Cli(main)
      BY DEF cliVars
    <2> HIDE DEF Srv, Cli
    <2> QED
      BY <2>1, <2>2, <2>3, <2>4 DEF Next, vars
  <1> QED
    BY <1>1 DEF SC!SCNext, SC!scVars, SC!SendCredentials, SC!ServerAccepts, SC!ServerLeaves,
                SC!ClientEnters, SC!ClientLeaves

\* The client gets in only if the server accepts it, and whoever has left stays out: every behaviour
\* of the two sessions is one that Deployment allows, but for the promises of what must happen.
THEOREM SessionContractKept == Spec => SC!SCInit /\ [][SC!SCNext]_(SC!scVars)
  <1>1. Init => BeforeLogin /\ NothingSent /\ SC!SCInit
    BY DEF Init, TcpInit, SrvInit, CliInit, BeforeLogin, NothingSent, SC!SCInit
  <1>2. TypeOK /\ BeforeLogin /\ [Next]_vars => BeforeLogin'
    BY BeforeLoginStep
  <1> QED
    BY <1>1, <1>2, NothingSentStep, ContractStep, TypeCorrect, PTL DEF Spec

=======================================================================
