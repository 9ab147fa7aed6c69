------------------------- MODULE ServerSession ------------------------
(* One session of the server: runServerSession (FOD-SERVER/ServerSession.cpp), which logs one     *)
(* client in and then, in one thread, waits for a packet, answers it and waits for the next,      *)
(* and the closesocket() of main() that follows its return.  One action per blocking call, with   *)
(* all that the code does until the next one.                                                     *)
EXTENDS FodPackets, ServerStateMachine

VARIABLES
    phase,   \* the blocking call the session is in
    ss,      \* sm.currentState
    authenticated,  \* what authenticateUser said of the client
    want,    \* the length just received: bytes of the payload to come
    hdr,     \* the header of the report being received
    out,     \* the answers still to send, each a chunk per sendAll() call
    ledger   \* history: the reports alerted to the tower and handed to saveFOD, in order

srvVars == <<phase, ss, authenticated, want, hdr, out, ledger>>

Phases == {"auth", "select", "length", "payload", "descLength", "desc", "send", "ended", "closed"}

NoHeader == [id |-> 0, severity |-> 0]

\* assessRunwayState: the runway status that a report of this severity leads to.
Assess(severity) == IF severity <= 0 THEN "CLEARED" ELSE "HAZARD"

SrvInit == /\ phase = "auth" /\ ss = "DISCONNECTED" /\ authenticated = FALSE
           /\ want = 0 /\ hdr = NoHeader /\ out = << >> /\ ledger = << >>

-----------------------------------------------------------------------
(* Ways to leave the loop. *)

\* Most exits of the loop transition to DISCONNECTED first ...
Disconnect == /\ ss' = SrvTransition(ss, "DISCONNECTED") /\ phase' = "ended"
              /\ UNCHANGED <<hdr, out, ledger>>

\* ... and two, for a packet that cannot be parsed, do not.
Abandon == phase' = "ended" /\ UNCHANGED <<ss, hdr, out, ledger>>

-----------------------------------------------------------------------
(* Logging in.  There is no timeout on this receive. *)

\* The whole login packet is there.
LoginArrived == Len(c2s) >= 2 /\ ServerReads(c2s[2].end)

\* Credentials that authenticateUser finds valid, unless the database cannot be read.
MayAuthenticate(cred) == cred = "good"
MayReject(cred) == cred # "good" \/ "db" \in Faults

\* The result of sending the answer is ignored.
SrvAcceptLogin ==
    /\ phase = "auth" /\ LoginArrived
    /\ AcceptedLength(c2s[1].num, MaxLogin) /\ MayAuthenticate(c2s[2].tag)
    /\ ServerSend(<< >> \oplus ByteChunk(1))
    /\ authenticated' = TRUE /\ ss' = SrvTransition(ss, "CONNECTED") /\ phase' = "select"
    /\ UNCHANGED <<want, hdr, out, ledger>>

SrvRejectLogin ==
    /\ phase = "auth" /\ LoginArrived
    /\ AcceptedLength(c2s[1].num, MaxLogin) /\ MayReject(c2s[2].tag)
    /\ ServerSend(<< >> \oplus ByteChunk(0))
    /\ Abandon /\ UNCHANGED <<authenticated, want>>

\* A login packet that is too long, or that never comes, ends the session with no answer.
SrvLoginFails ==
    /\ phase = "auth"
    /\ \/ ServerReadFails(4) /\ UNCHANGED c2s
       \/ c2s # << >> /\ ServerReads(4) /\ ~ AcceptedLength(c2s[1].num, MaxLogin)
    /\ Abandon /\ UNCHANGED <<authenticated, want, s2c, closed, down>>

-----------------------------------------------------------------------
(* Receiving packets. *)

\* select() finds the socket readable: data, the end of the stream, or an error to be read.
SrvSelect ==
    /\ phase = "select"
    /\ c2s # << >> \/ "client" \in closed \/ "server" \in down
    /\ phase' = "length"
    /\ UNCHANGED <<ss, authenticated, want, hdr, out, ledger, tcpVars>>

\* No data for 90 seconds, or an error of select() itself.
SrvSelectFails ==
    /\ phase = "select"
    /\ "timeout" \in Faults \/ "server" \in down
    /\ Disconnect /\ UNCHANGED <<authenticated, want, tcpVars>>

SrvRecvLength ==
    /\ phase \in {"length", "descLength"} /\ ServerReads(4)
    /\ \E n \in FrontInts(c2s) :
          IF AcceptedLength(n, MaxPacket)
          THEN /\ want' = n /\ phase' = IF phase = "length" THEN "payload" ELSE "desc"
               /\ UNCHANGED <<ss, hdr, out, ledger>>
          ELSE Disconnect /\ UNCHANGED want
    /\ UNCHANGED <<authenticated, s2c, closed, down>>

SrvRecvFails ==
    /\ \/ phase \in {"length", "descLength"} /\ ServerReadFails(4)
       \/ phase \in {"payload", "desc"} /\ ServerReadFails(want)
    /\ Disconnect /\ UNCHANGED <<authenticated, want, tcpVars>>

\* Headers of no report, made of scrambled bytes.
GarbledHeaders(p) == {h \in [id : {0}, severity : {0, 1}] : p.end >= 36}

\* MUTANT of HeadersIn: the severity field is skipped.
HeadersInNoSeverity(p) == IF p.kind = "header" THEN {[id |-> p.id, severity |-> 0]}
                          ELSE GarbledHeaders(p)

\* MUTANT of HeadersIn: a packet of other bytes leaves the last report's header in place.
HeadersInStale(p) == IF p.kind = "header" THEN {[id |-> p.id, severity |-> p.num]}
                     ELSE {[id |-> e.id, severity |-> e.severity] :
                              e \in {ledger[i] : i \in {Len(ledger)} \ {0}}}

\* The headers that deserializeHeader may make of a packet: the one the client sent, or one of no
\* report out of other bytes.  A checksum that does not match is only logged.
HeadersIn(p) == IF p.kind = "header" THEN {[id |-> p.id, severity |-> p.num]}
                ELSE GarbledHeaders(p)

HeartbeatAck == << >> \oplus IntChunk(4) \oplus IntChunk(TypeHeartbeat)

SrvRecvHeartbeat ==
    /\ phase = "payload" /\ ServerReads(want)
    /\ want >= 4 /\ TypeHeartbeat \in FrontInts(c2s)
    /\ out' = <<HeartbeatAck>> /\ phase' = "send" /\ want' = 0
    /\ UNCHANGED <<ss, authenticated, hdr, ledger, s2c, closed, down>>

\* Too short for a type, or no header can be made of it.
SrvRecvMalformed ==
    /\ phase = "payload" /\ ServerReads(want)
    /\ want < 4 \/ (Payload(c2s, want).kind # "header" /\ FrontInts(c2s) # {TypeHeartbeat})
    /\ Abandon /\ want' = 0 /\ UNCHANGED <<authenticated, s2c, closed, down>>

SrvRecvHeader ==
    /\ phase = "payload" /\ ServerReads(want)
    /\ want >= 4 /\ FrontInts(c2s) # {TypeHeartbeat}
    /\ hdr' \in HeadersIn(Payload(c2s, want))
    /\ ss' = SrvTransition(ss, "INSPECTION") /\ phase' = "descLength" /\ want' = 0
    /\ UNCHANGED <<authenticated, out, ledger, s2c, closed, down>>

\* The texts that deserializeDescription may make of a packet: the one of a report, or (0) one of
\* no report out of other bytes, again with a checksum that is only compared for the log.
DescriptionsIn(p) == IF p.kind = "desc" THEN {p.id} ELSE {d \in {0} : p.end >= 12}

\* No text can be made of the packet.
SrvRecvBadDescription ==
    /\ phase = "desc" /\ ServerReads(want)
    /\ Payload(c2s, want).kind # "desc"
    /\ Disconnect /\ want' = 0 /\ UNCHANGED <<authenticated, s2c, closed, down>>

\* MUTANT of Response: the status is taken before the transition.
ResponseStale(id, status) == << >> \oplus IntChunk(TextLen) \oplus TextChunk(id, "INSPECTION")

\* sendResponse: the confirmation names the state that the state machine is in.
Response(id, status) == << >> \oplus IntChunk(TextLen) \oplus TextChunk(id, status)

\* sendBitmap: the bitmap has a packet type of its own, and no length prefix before it.
Bitmap(id) == << >> \oplus IntChunk(TypeBitmap) \oplus IntChunk(BitmapLen) \oplus BitmapChunk(id)

\* saveFOD may fail, which is only logged.
SaveResults == {TRUE} \union {FALSE : f \in Faults \intersect {"db"}}

\* The report is alerted, saved and assessed, and its answer is ready to be sent.
SrvRecordReport ==
    /\ phase = "desc" /\ ServerReads(want)
    /\ \E d \in DescriptionsIn(Payload(c2s, want)), saved \in SaveResults :
          ledger' = Append(ledger, [id |-> hdr.id, desc |-> d, severity |-> hdr.severity,
                                    saved |-> saved])
    /\ ss' = SrvTransition(ss, Assess(hdr.severity))
    /\ out' = <<Response(hdr.id, ss'), Bitmap(hdr.id)>>
    /\ phase' = "send" /\ want' = 0 /\ hdr' = NoHeader
    /\ UNCHANGED <<authenticated, s2c, closed, down>>

-----------------------------------------------------------------------
(* Sending answers.  A sendAll() blocks while the client does not read.  The calls of one answer  *)
(* are one step: no other thread sends on this socket, and only a bitmap exceeds the window.      *)

SrvSendAnswer ==
    /\ phase = "send" /\ out # << >> /\ SendReturned
    /\ ServerSend(Head(out)) /\ out' = Tail(out)
    /\ UNCHANGED <<phase, ss, authenticated, want, hdr, ledger, c2s>>

SrvSendDone ==
    /\ phase = "send" /\ out = << >> /\ SendReturned
    /\ phase' = "select"
    /\ UNCHANGED <<ss, authenticated, want, hdr, out, ledger, tcpVars>>

SrvSendFails ==
    /\ phase = "send" /\ "server" \in down
    /\ out # << >> \/ ~ SendReturned
    /\ ss' = SrvTransition(ss, "DISCONNECTED") /\ phase' = "ended" /\ out' = << >>
    /\ UNCHANGED <<authenticated, want, hdr, ledger, tcpVars>>

\* main() closes the socket when the session returns.
SrvClose ==
    /\ phase = "ended" /\ phase' = "closed" /\ ServerClose
    /\ UNCHANGED <<ss, authenticated, want, hdr, out, ledger>>

SrvNext == \/ SrvAcceptLogin \/ SrvRejectLogin \/ SrvLoginFails
           \/ SrvSelect \/ SrvSelectFails \/ SrvRecvLength \/ SrvRecvFails
           \/ SrvRecvHeartbeat \/ SrvRecvMalformed \/ SrvRecvHeader
           \/ SrvRecvBadDescription \/ SrvRecordReport
           \/ SrvSendAnswer \/ SrvSendDone \/ SrvSendFails \/ SrvClose

=======================================================================
