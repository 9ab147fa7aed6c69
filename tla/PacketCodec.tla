-------------------------- MODULE PacketCodec -------------------------
(* Reports as bytes: PacketSerializer.cpp and PacketDeserializer.cpp, and the stream between them,*)
(* into which the client's two threads send (ClientSession.cpp 74-130) and from which the server  *)
(* takes length-prefixed packets (ServerSession.cpp 54-76, 251-344).  ServerSession and           *)
(* ClientSession model the rest of the exchange, where a packet is one value.                     *)
EXTENDS Integers, Sequences, SequencesExt

CONSTANTS
    Reports,     \* reports the user may file: [hazard, zone, severity, officer, text]
    Clock,       \* the eight bytes of a time
    MaxReports,  \* bound: reports filed
    MaxBeats     \* bound: heartbeats sent

Byte == 0 .. 255

\* Names and texts are bytes, which may be 0.
ASSUME ReportsAssumption ==
    /\ \A r \in Reports : /\ r.hazard \in 0 .. 4 /\ r.severity \in 0 .. 5
                          /\ r.zone \in Seq(Byte) /\ r.officer \in Seq(Byte)
                          /\ r.text \in Seq(Byte)
    /\ Clock \in [1 .. 8 -> Byte]

VARIABLES
    filed,    \* the reports filed, in order
    chunk,    \* the main thread: which of the four sends of a report is next, or 0
    beat,     \* the heartbeat thread: 4 when it has sent a length and its type is next, or 0
    beats,    \* heartbeats begun, for the bound
    stream,   \* bytes sent and not yet received
    want,     \* the server receives a "packet" or a "description", or has "ended"
    header,   \* the header received
    records,  \* the reports recorded, in order
    crossed   \* history: a thread has sent between the sends of the other

pcVars == <<filed, chunk, beat, beats, stream, want, header, records, crossed>>

TypeReport    == 3
TypeHeartbeat == 6
MaxPacket     == 65536

-----------------------------------------------------------------------
(* Serializing. *)

AppendInt(n) == <<n % 256, (n \div 256) % 256, (n \div 65536) % 256, (n \div 16777216) % 256>>

\* MUTANT of AppendString: the length that is sent counts a terminating 0.
AppendCString(s) == AppendInt(Len(s) + 1) \o s

AppendString(s) == AppendInt(Len(s)) \o s

\* computeChecksum, on both sides: bytes are unsigned.
Checksum(s) == FoldSeq(LAMBDA b, sum : sum + b, 0, s)

HeaderFields(r) ==
    AppendInt(TypeReport) \o AppendInt(r.hazard) \o AppendString(r.zone)
      \o AppendInt(r.severity) \o AppendString(r.officer) \o Clock \o AppendInt(Len(r.text))

\* The checksum covers all that comes before it.
SerializeHeader(r) == HeaderFields(r) \o AppendInt(Checksum(HeaderFields(r)))

\* A char* ends at its first 0, at the latest at the one put after the text.
CString(s) == LET nul == SelectInSeq(s, LAMBDA b : b = 0)
              IN  IF nul = 0 THEN s ELSE SubSeq(s, 1, nul - 1)

\* The checksum covers the whole text and nothing else; the text is sent up to its first 0.
SerializeDescription(r) ==
    AppendInt(TypeReport) \o AppendInt(Checksum(r.text)) \o AppendString(CString(r.text))

\* What an int holds.
Fits(n) == n \in Nat /\ n <= 2147483647

\* The reports are those whose packets are of lengths that the server takes (recvLengthPrefixed ends
\* the session for a longer one).  No sum of so few bytes, each at most 255, overflows an int.
ASSUME SizesAssumption ==
    \A r \in Reports : /\ Len(SerializeHeader(r)) <= MaxPacket /\ Len(SerializeDescription(r)) <= MaxPacket
                       /\ Fits(Checksum(HeaderFields(r))) /\ Fits(Checksum(r.text))

-----------------------------------------------------------------------
(* Deserializing.  A field is read where the one before it ends; what cannot be read ends past    *)
(* the data, so that nothing after it can be read.                                                *)

\* A signed integer.
IntAt(d, at) == d[at] + 256 * d[at + 1] + 65536 * d[at + 2]
                + 16777216 * (IF d[at + 3] < 128 THEN d[at + 3] ELSE d[at + 3] - 256)

HasInt(d, at) == at + 3 <= Len(d)

AfterString(d, at) == IF HasInt(d, at) /\ IntAt(d, at) \in 0 .. Len(d) - at - 3
                      THEN at + 4 + IntAt(d, at) ELSE Len(d) + 1

\* Where the fields of a header are.
Layout(d) == LET severity == AfterString(d, 9)
                 clock    == AfterString(d, severity + 4)
             IN  [severity |-> severity, officer |-> severity + 4, clock |-> clock, sum |-> clock + 12]

HeaderReadable(d) == HasInt(d, Layout(d).sum)

\* verifyHeaderChecksum compares the field with the sum of all but the last four bytes.
DeserializeHeader(d) ==
    LET at == Layout(d) IN
    [hazard   |-> IntAt(d, 5),
     zone     |-> SubSeq(d, 13, at.severity - 1),
     severity |-> IntAt(d, at.severity),
     officer  |-> SubSeq(d, at.officer + 4, at.clock - 1),
     verified |-> IntAt(d, at.sum) = Checksum(SubSeq(d, 1, Len(d) - 4))]

DescriptionReadable(d) == HasInt(d, 9) /\ IntAt(d, 9) \in 0 .. Len(d) - 12

DeserializeDescription(d) ==
    LET text == CString(SubSeq(d, 13, 12 + IntAt(d, 9)))
    IN  [text |-> text, verified |-> IntAt(d, 5) = Checksum(text)]

-----------------------------------------------------------------------
(* The client: a report's four sends, and a heartbeat's two, in two threads. *)

\* sendLengthPrefixed of the header, then of the description.
Chunks(r) == LET h == SerializeHeader(r)
                 d == SerializeDescription(r)
             IN  <<AppendInt(Len(h)), h, AppendInt(Len(d)), d>>

SameServer == UNCHANGED <<want, header, records>>

File ==
    /\ chunk = 0 /\ Len(filed) < MaxReports
    /\ \E r \in Reports : filed' = Append(filed, r)
    /\ chunk' = 1
    /\ UNCHANGED <<beat, beats, stream, crossed>> /\ SameServer

SendChunk ==
    /\ chunk # 0
    /\ stream' = stream \o Chunks(Last(filed))[chunk]
    /\ chunk' = IF chunk = 4 THEN 0 ELSE chunk + 1
    /\ crossed' = (crossed \/ beat # 0)
    /\ UNCHANGED <<filed, beat, beats>> /\ SameServer

BeatLength ==
    /\ beat = 0 /\ beats < MaxBeats
    /\ beat' = 4 /\ beats' = beats + 1 /\ stream' = stream \o AppendInt(4)
    /\ crossed' = (crossed \/ chunk \in 2 .. 4)
    /\ UNCHANGED <<filed, chunk>> /\ SameServer

BeatType ==
    /\ beat # 0
    /\ beat' = 0 /\ stream' = stream \o AppendInt(TypeHeartbeat)
    /\ UNCHANGED <<filed, chunk, beats, crossed>> /\ SameServer

-----------------------------------------------------------------------
(* The server. *)

SameClient == UNCHANGED <<filed, chunk, beat, beats, crossed>>

\* recvLengthPrefixed: a length out of range ends the session at once, a good one waits for its bytes.
Prefix == IntAt(stream, 1)
Packet == SubSeq(stream, 5, 4 + Prefix)

Ended == want' = "ended" /\ UNCHANGED <<stream, header, records>>

ReceiveLength ==
    /\ want # "ended" /\ HasInt(stream, 1) /\ Prefix \notin 1 .. MaxPacket
    /\ Ended /\ SameClient

\* A packet starts with its type; what is not a heartbeat is parsed as a header.
ReceivePacket ==
    /\ want = "packet" /\ HasInt(stream, 1) /\ Prefix \in 1 .. Len(stream) - 4
    /\ \/ /\ Prefix < 4 \/ (IntAt(Packet, 1) # TypeHeartbeat /\ ~ HeaderReadable(Packet))
          /\ Ended
       \/ /\ Prefix >= 4 /\ IntAt(Packet, 1) = TypeHeartbeat
          /\ stream' = SubSeq(stream, 5 + Prefix, Len(stream))
          /\ UNCHANGED <<want, header, records>>
       \/ /\ Prefix >= 4 /\ IntAt(Packet, 1) # TypeHeartbeat /\ HeaderReadable(Packet)
          /\ header' = DeserializeHeader(Packet) /\ want' = "description"
          /\ stream' = SubSeq(stream, 5 + Prefix, Len(stream))
          /\ UNCHANGED records
    /\ SameClient

\* MUTANT of ReceiveDescription: the next packet is taken for one more description.
ReceiveDescriptionAgain ==
    /\ want = "description" /\ HasInt(stream, 1) /\ Prefix \in 1 .. Len(stream) - 4
    /\ \/ ~ DescriptionReadable(Packet) /\ Ended
       \/ /\ DescriptionReadable(Packet)
          /\ LET description == DeserializeDescription(Packet) IN
             records' = Append(records,
                 [hazard |-> header.hazard, zone |-> header.zone, severity |-> header.severity,
                  officer |-> header.officer, text |-> description.text,
                  verified |-> header.verified /\ description.verified])
          /\ stream' = SubSeq(stream, 5 + Prefix, Len(stream))
          /\ UNCHANGED <<want, header>>
    /\ SameClient

\* The report is recorded whether its checksums were verified or not.
ReceiveDescription ==
    /\ want = "description" /\ HasInt(stream, 1) /\ Prefix \in 1 .. Len(stream) - 4
    /\ \/ ~ DescriptionReadable(Packet) /\ Ended
       \/ /\ DescriptionReadable(Packet)
          /\ LET description == DeserializeDescription(Packet) IN
             records' = Append(records,
                 [hazard |-> header.hazard, zone |-> header.zone, severity |-> header.severity,
                  officer |-> header.officer, text |-> description.text,
                  verified |-> header.verified /\ description.verified])
          /\ want' = "packet" /\ header' = << >>
          /\ stream' = SubSeq(stream, 5 + Prefix, Len(stream))
    /\ SameClient

-----------------------------------------------------------------------
Init == /\ filed = << >> /\ chunk = 0 /\ beat = 0 /\ beats = 0 /\ stream = << >>
        /\ want = "packet" /\ header = << >> /\ records = << >> /\ crossed = FALSE

Next == \/ File \/ SendChunk \/ BeatLength \/ BeatType
        \/ ReceiveLength \/ ReceivePacket \/ ReceiveDescription

Spec == Init /\ [][Next]_pcVars

-----------------------------------------------------------------------
(* Properties. *)

AsRecorded(r) == LET text == CString(r.text) IN
    [hazard |-> r.hazard, zone |-> r.zone, severity |-> r.severity, officer |-> r.officer,
     text |-> text, verified |-> Checksum(text) = Checksum(r.text)]

\* While no thread of the client sends between the sends of the other, whatever bytes the names and
\* the text hold and however heartbeats fall between reports: the server records the reports that
\* were filed, in order and field by field, does not end the session, and has recorded them all when
\* nothing is left to receive.  A name is recorded whole.  A text is recorded up to its first 0, and
\* a report whose text loses bytes other than 0 in this way is not called verified; every other one
\* is (ServerSession.cpp:251-344 undoes PacketSerializer.cpp).
RecordedAsSent ==
    ~ crossed => /\ want # "ended"
                 /\ IsPrefix(records, [i \in DOMAIN filed |-> AsRecorded(filed[i])])
                 /\ chunk = 0 /\ beat = 0 /\ stream = << >> => Len(records) = Len(filed)

\* Heartbeats, whatever they come between, never make the server record more reports than the user
\* filed: what they garble is refused, or takes the place of a report.
NoPhantomReport == Len(records) <= Len(filed)

=======================================================================
