------------------------- MODULE TcpConnection ------------------------
(* The TCP connection between one client and one server, as the two programs see it through      *)
(* Winsock: two byte streams, blocking send() and recv(), an orderly close, a reset.  Nothing of *)
(* this is in the repository: it models the calls that sendAll and recvAll make.                 *)
(*                                                                                               *)
(* A stream is a sequence of chunks, one per send(), each with the place where it ends, counted   *)
(* in bytes from the reader, so that a reader that asks for a different number of bytes than the *)
(* writer sent is seen to lose its place: it gets scrambled bytes, and what it leaves of a chunk *)
(* is a remnant.  A stream holds everything sent and not yet read, in flight or buffered;        *)
(* nothing says when it arrives.                                                                 *)
EXTENDS Integers, Sequences, FiniteSets

CONSTANTS
    Window,  \* bytes the server can have sent and not yet read by the client before send() blocks
    Faults   \* what may go wrong: "timeout" (a slow network or user), "link" (a connection lost
             \* silently), "db" (the server's database), "file" (the client's bitmap file)

ASSUME TcpAssumption == Window \in Nat /\ Faults \subseteq {"timeout", "link", "db", "file"}

VARIABLES
    c2s,     \* chunks on their way from the client to the server
    s2c,     \* chunks on their way from the server to the client
    closed,  \* the ends whose closesocket() the other end can see
    down     \* the ends that have learnt that the connection is dead: all their calls fail

tcpVars == <<c2s, s2c, closed, down>>

Ends == {"client", "server"}

TcpInit == c2s = << >> /\ s2c = << >> /\ closed = {} /\ down = {}

-----------------------------------------------------------------------
(* Streams of chunks. *)

\* A chunk on its own ends after its length; id, num and tag are what it says, as far as anyone asks.
Chunk(kind, len, id, num, tag) == [kind |-> kind, end |-> len, id |-> id, num |-> num, tag |-> tag]

\* Bytes sent and not yet read.
Unread(s) == IF s = << >> THEN 0 ELSE s[Len(s)].end

\* Stream s with chunk c, whose end is its length, sent after it ...
s \oplus c == Append(s, [c EXCEPT !.end = Unread(s) + @])

\* ... and with all the chunks of a packet.
Sent(s, packet) == s \o [i \in DOMAIN packet |-> [packet[i] EXCEPT !.end = Unread(s) + @]]

\* The number of chunks that the first n bytes of s hold whole.
Whole(s, n) == Cardinality({i \in DOMAIN s : s[i].end <= n})

\* What is left of chunk c when its beginning has been read: bytes that mean nothing on their own.
RestOf(kind) == CASE kind \in {"text", "textRest"}     -> "textRest"
                  [] kind \in {"bitmap", "bitmapRest"} -> "bitmapRest"
                  [] OTHER                            -> "rest"

Remnant(c) == Chunk(RestOf(c.kind), c.end, 0, 0, "")

\* The first n bytes of s end inside a chunk.
Cuts(s, n) == n < Unread(s) /\ n > 0 /\ \A i \in DOMAIN s : s[i].end # n

\* The stream after its first n bytes are read (recvAll of n bytes).
AfterRead(s, n) ==
    LET k    == Whole(s, n)
        left == [i \in 1 .. Len(s) - k |-> [s[k + i] EXCEPT !.end = @ - n]]
    IN  IF Cuts(s, n) THEN [left EXCEPT ![1] = Remnant(@)] ELSE left

\* The n bytes at the front of s: a chunk, or bytes of several.
Payload(s, n) == IF Head(s).end = n THEN Head(s) ELSE Chunk("scrambled", n, 0, 0, "")

-----------------------------------------------------------------------
(* Calls of one end.  send() succeeds on a connection not known to be dead, and bytes sent to an *)
(* end that has closed are lost and answered with a reset.                                       *)

ClientSend(packet) ==
    /\ "client" \notin down
    /\ IF "server" \in closed
       THEN c2s' = c2s /\ down' = down \union {"client"}
       ELSE c2s' = Sent(c2s, packet) /\ down' = down
    /\ UNCHANGED closed

ServerSend(packet) ==
    /\ "server" \notin down
    /\ IF "client" \in closed
       THEN s2c' = s2c /\ down' = down \union {"server"}
       ELSE s2c' = Sent(s2c, packet) /\ down' = down
    /\ UNCHANGED closed

\* The server's last sendAll has returned: no more than a window of it is unread.
SendReturned == Unread(s2c) <= Window

\* recvAll of n bytes, one at least, succeeds once they are there.
ClientReads(n) ==
    /\ "client" \notin down /\ s2c # << >> /\ Unread(s2c) >= n
    /\ s2c' = AfterRead(s2c, n)

ServerReads(n) ==
    /\ "server" \notin down /\ c2s # << >> /\ Unread(c2s) >= n
    /\ c2s' = AfterRead(c2s, n)

\* MUTANT of ClientReadFails: the receive timeout covers the handshake only.
ClientReadFailsNoTimeout(n) ==
    \/ "client" \in down
    \/ "server" \in closed /\ Unread(s2c) < n

\* recv() of the client fails: the connection is dead, or ends before the n bytes, or they are late
\* (SO_RCVTIMEO is set on the client's socket and never reset).
ClientReadFails(n) ==
    \/ "client" \in down
    \/ "server" \in closed /\ Unread(s2c) < n
    \/ "timeout" \in Faults

\* MUTANT of ServerReadFails: a recv() that returns 0 is not taken for the end of the stream.
ServerReadFailsOnlyOnError(n) == "server" \in down

\* recv() of the server has no timeout: it fails only when the connection is dead or ends.
ServerReadFails(n) ==
    \/ "server" \in down
    \/ "client" \in closed /\ Unread(c2s) < n

\* closesocket(): the other end sees it unless the connection is dead here; bytes never read turn
\* the close into a reset.
ClientClose ==
    /\ closed' = IF "client" \in down THEN closed ELSE closed \union {"client"}
    /\ down' = IF "client" \notin down /\ s2c # << >> THEN down \union {"server"} ELSE down
    /\ s2c' = IF "client" \in down THEN s2c ELSE << >>
    /\ UNCHANGED c2s

ServerClose ==
    /\ closed' = IF "server" \in down THEN closed ELSE closed \union {"server"}
    /\ down' = IF "server" \notin down /\ c2s # << >> THEN down \union {"client"} ELSE down
    /\ c2s' = IF "server" \in down THEN c2s ELSE << >>
    /\ UNCHANGED s2c

-----------------------------------------------------------------------
(* What the network does by itself. *)

\* One end learns that the connection is dead; the other does not.
LinkLost ==
    /\ "link" \in Faults
    /\ \E e \in Ends \ down : down' = down \union {e}
    /\ UNCHANGED <<c2s, s2c, closed>>

\* An end whose bytes nobody acknowledges any more gives up retransmitting them.
RetransmitFails ==
    /\ \/ "client" \in down /\ "server" \notin down /\ s2c # << >> /\ down' = down \union {"server"}
       \/ "server" \in down /\ "client" \notin down /\ c2s # << >> /\ down' = down \union {"client"}
    /\ UNCHANGED <<c2s, s2c, closed>>

=======================================================================
