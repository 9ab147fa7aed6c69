--------------------------- MODULE FodPackets -------------------------
(* The packets the two programs exchange, one chunk per sendAll() call:                           *)
(*   client to server   length, "user:pass"              once, to log in                          *)
(*                      length, header, length, description    a report                           *)
(*                      4, 6                             a heartbeat                              *)
(*   server to client   one byte                         the answer to the login                  *)
(*                      length, text, 5, size, bitmap    the answer to a report                   *)
(*                      4, 6                             the answer to a heartbeat                *)
(* A report is known by its number, its place in the order in which the client's user filed it.   *)
(* Of a header the model keeps that number and the severity, of a confirmation text the number    *)
(* and the runway status it names; the other fields are carried through unchanged by the code.    *)
EXTENDS TcpConnection

CONSTANTS
    HeaderLen,   \* bytes of a serialized header: 36 and the zone and officer names
    DescLen,     \* bytes of a serialized description: 12 and the text
    TextLen,     \* bytes of a confirmation text: 60 at most and the zone and officer names
    BitmapLen,   \* bytes of a bitmap
    MisreadInts  \* what four bytes that are no integer may be read as: one value per branch.
                 \* 5, a bitmap's type, is not among them: no byte of a confirmation text or of
                 \* BitmapGenerator's headers and pixels is 5, and where a read straddles an
                 \* integer 5 that byte is not the lowest of the four.

\* The most bytes that each end takes after a length.
MaxLogin    == 256
MaxPacket   == 65536
MaxResponse == 1024
MaxBitmap   == 5 * 1024 * 1024

BitmapHeaderLen == 54   \* before the pixels

ASSUME LengthsAssumption ==
    /\ HeaderLen \in 36 .. MaxPacket /\ DescLen \in 12 .. MaxPacket
    /\ TextLen \in 7 .. MaxPacket + 60
    /\ BitmapLen \in (BitmapHeaderLen + MaxResponse + 8) .. MaxBitmap

ASSUME MisreadAssumption == MisreadInts \subseteq Int \ {5}

TypeReport    == 3   \* any packet type but the heartbeat's is taken for a report
TypeBitmap    == 5
TypeHeartbeat == 6

Credentials == {"good", "bad", "long"}   \* "long": more bytes than the server takes

AuthLen(cred) == IF cred = "long" THEN 300 ELSE 14

IntChunk(n)      == Chunk("int", 4, 0, n, "")
AuthChunk(cred)  == Chunk("auth", AuthLen(cred), 0, 0, cred)
ByteChunk(n)     == Chunk("byte", 1, 0, n, "")
HeaderChunk(r, severity) == Chunk("header", HeaderLen, r, severity, "")
DescChunk(r)     == Chunk("desc", DescLen, r, 0, "")
TextChunk(r, status) == Chunk("text", TextLen, r, 0, status)
BitmapChunk(r)   == Chunk("bitmap", BitmapLen, r, 0, "")

\* "FOD " as a little-endian integer; every other four bytes of a confirmation text are as large.
TextWord == 541347654

\* "BM" and the low half of the file size, which begin a bitmap.
BitmapWord == 2062961986

\* Two pixels.  Their bytes are 40 or more, so that neither four of them nor the last of them with the
\* bytes of an integer behind them are 5, or a length that a client takes for a response's.
PixelWord == 757954605

\* The integers that recvInt may deliver from the front of s: an integer that was sent, the word
\* that begins a packet or a text, or four bytes from anywhere.
FrontInts(s) ==
    CASE Head(s).kind = "int"              -> {Head(s).num}
      [] Head(s).kind \in {"header", "desc"} -> {TypeReport}
      [] Head(s).kind = "bitmap"           -> {BitmapWord}
      [] Head(s).kind = "bitmapRest" /\ Head(s).end <= BitmapLen - BitmapHeaderLen -> {PixelWord}
      [] Head(s).kind \in {"text", "textRest"} /\ Head(s).end >= 4 -> {TextWord}
      [] OTHER                             -> MisreadInts

\* MUTANT of AcceptedLength: a negative length passes.
AcceptedLengthNoLowerBound(n, maxBytes) == n <= maxBytes

\* A length received is taken only in this range.
AcceptedLength(n, maxBytes) == n > 0 /\ n <= maxBytes

=======================================================================
