------------------------- MODULE ClientSession ------------------------
(* One session of the client: runClientSession (FOD-CLIENT/ClientSession.cpp) on the main thread, *)
(* the heartbeat thread it starts after logging in, the two atomic flags they share, and the      *)
(* closesocket() of main() that follows its return.  One action per blocking call of a thread     *)
(* (a prompt, a send, a receive, a sleep, the join), with all that it does until the next one.    *)
(* Automated test mode, which starts the heartbeat and then sleeps for ever, is a client whose    *)
(* user never answers the menu.                                                                   *)
EXTENDS FodPackets, ClientStateMachine

CONSTANTS
    MaxReports,     \* bound: reports the user files
    MaxHeartbeats,  \* bound: heartbeats sent
    RawSeverities,  \* what the user may type as the severity (0 also when it is not a number)
    Partials        \* how many bytes of what it waits for a receive that fails may have consumed

ASSUME ClientAssumption ==
    /\ MaxReports \in Nat /\ MaxHeartbeats \in Nat
    /\ RawSeverities \subseteq Int /\ Partials \subseteq Nat

VARIABLES
    main,     \* the blocking call the main thread is in
    cs,       \* sm.currentState
    need,     \* the length just received: bytes of the response or bitmap to come
    hb,       \* where the heartbeat thread is
    running,  \* heartbeatRunning
    paused,   \* heartbeatPaused
    beats,    \* heartbeats sent so far, for the bound
    reports,  \* history: the severities of the reports filed, in order
    shown,    \* history: the responses displayed, with the report each was displayed for
    pics      \* history: the bitmaps saved, with the report each was saved for

threadVars == <<hb, running, beats>>
cliVars == <<main, cs, need, hb, running, paused, beats, reports, shown, pics>>

Sending   == {"sendHeaderLen", "sendHeader", "sendDescLen", "sendDesc"}
Replying  == {"respLen", "resp"}
Fetching  == {"bmpType", "bmpSize", "bmpData"}
Exchange  == Sending \union Replying \union Fetching
MainPlace == {"login", "reply", "menu", "form", "join", "exited"} \union Exchange
HbPlace   == {"off", "sleep", "sendLen", "sendType", "done"}

CliInit == /\ main = "login" /\ cs = "DISCONNECTED" /\ need = 0
           /\ hb = "off" /\ running = FALSE /\ paused = FALSE /\ beats = 0
           /\ reports = << >> /\ shown = << >> /\ pics = << >>

\* The report being filed or exchanged.
Current == Len(reports)

-----------------------------------------------------------------------
(* Ways to go on. *)

\* The loop ends with the session DISCONNECTED, and the heartbeat thread is told to stop.
Leave == /\ cs' = CliTransition(cs, "DISCONNECTED") /\ main' = "join" /\ running' = FALSE
         /\ UNCHANGED <<need, hb, paused, beats, reports, shown, pics>>

\* The loop's condition: the menu again, if the state machine is back in CONNECTED.
Loop(state) == main' = IF CanReport(state) THEN "menu" ELSE "join"

\* The exchange is over, well or not: heartbeats resume and the menu comes back.
BackToMenu == /\ paused' = FALSE /\ cs' = CliTransition(cs, "CONNECTED") /\ Loop(cs')
              /\ running' = (running /\ CanReport(cs')) /\ need' = 0
              /\ UNCHANGED <<hb, beats, reports, shown>>

-----------------------------------------------------------------------
(* Logging in. *)

CliLogin ==
    /\ main = "login"
    /\ \E cred \in Credentials : ClientSend(<< >> \oplus IntChunk(AuthLen(cred)) \oplus AuthChunk(cred))
    /\ cs' = CliTransition(CliTransition(cs, "CONNECTING"), "AUTHENTICATING") /\ main' = "reply"
    /\ UNCHANGED <<need, paused, threadVars, reports, shown, pics, s2c>>

\* The login could not be sent (the state machine went to AUTHENTICATING and back), or the
\* connection is lost before the answer.
CliLoginFails ==
    /\ \/ main = "login" /\ "client" \in down /\ cs' = cs
       \/ main = "reply" /\ ClientReadFails(1) /\ cs' = CliTransition(cs, "DISCONNECTED")
    /\ main' = "join"
    /\ UNCHANGED <<need, paused, threadVars, reports, shown, pics, tcpVars>>

\* MUTANT of CliRecvReply: any answer is an acceptance.
CliRecvAnyReply ==
    /\ main = "reply" /\ ClientReads(1)
    /\ cs' = CliTransition(cs, "CONNECTED") /\ Loop(cs')
    /\ hb' = "sleep" /\ running' = TRUE /\ paused' = FALSE
    /\ UNCHANGED <<need, beats, reports, shown, pics, c2s, closed, down>>

\* Only the byte 1 is an acceptance; the heartbeat thread starts.
CliRecvReply ==
    /\ main = "reply" /\ ClientReads(1)
    /\ IF Head(s2c) = ByteChunk(1)
       THEN /\ cs' = CliTransition(cs, "CONNECTED") /\ Loop(cs')
            /\ hb' = "sleep" /\ running' = TRUE /\ paused' = FALSE
            /\ UNCHANGED <<need, beats, reports, shown, pics>>
       ELSE Leave
    /\ UNCHANGED <<c2s, closed, down>>

-----------------------------------------------------------------------
(* The menu and the form. *)

CliChooseReport ==
    /\ main = "menu" /\ Len(reports) < MaxReports
    /\ paused' = TRUE /\ cs' = CliTransition(cs, "REPORTING") /\ main' = "form"
    /\ UNCHANGED <<need, threadVars, reports, shown, pics, tcpVars>>

CliChooseExit == main = "menu" /\ Leave /\ UNCHANGED tcpVars

\* A severity outside 0..5 becomes 1.
Normalized(severity) == IF severity \in 0 .. 5 THEN severity ELSE 1

CliFillForm ==
    /\ main = "form"
    /\ \E raw \in RawSeverities : reports' = Append(reports, Normalized(raw))
    /\ main' = "sendHeaderLen"
    /\ UNCHANGED <<cs, need, paused, threadVars, shown, pics, tcpVars>>

-----------------------------------------------------------------------
(* Sending a report: four sends, between which the heartbeat thread may send too. *)

SendStep(at, chunk, next) ==
    /\ main = at /\ ClientSend(<<chunk>>) /\ main' = next
    /\ UNCHANGED <<need, paused, threadVars, reports, shown, pics, s2c>>

CliSendHeaderLen == SendStep("sendHeaderLen", IntChunk(HeaderLen), "sendHeader") /\ UNCHANGED cs

CliSendHeader ==
    /\ SendStep("sendHeader", HeaderChunk(Current, reports[Current]), "sendDescLen")
    /\ UNCHANGED cs

CliSendDescLen == SendStep("sendDescLen", IntChunk(DescLen), "sendDesc") /\ UNCHANGED cs

CliSendDesc ==
    /\ SendStep("sendDesc", DescChunk(Current), "respLen")
    /\ cs' = CliTransition(cs, "WAITING_RESPONSE")

CliSendFails == main \in Sending /\ "client" \in down /\ Leave /\ UNCHANGED tcpVars

-----------------------------------------------------------------------
(* Receiving the answer: a confirmation, then a bitmap. *)

CliRecvLength ==
    /\ main = "respLen" /\ ClientReads(4)
    /\ \E n \in FrontInts(s2c) :
          IF AcceptedLength(n, MaxResponse)
          THEN need' = n /\ main' = "resp"
               /\ UNCHANGED <<cs, paused, threadVars, reports, shown, pics>>
          ELSE Leave
    /\ UNCHANGED <<c2s, closed, down>>

\* MUTANT of Displayed: bytes that are no text leave the last response on the screen.
DisplayedStale(p) == IF p.kind = "text" \/ shown = << >>
                     THEN [report |-> Current, kind |-> p.kind, id |-> p.id, status |-> p.tag]
                     ELSE [shown[Len(shown)] EXCEPT !.report = Current]

\* What is displayed when these bytes are taken for the response to the current report.
Displayed(p) == [report |-> Current, kind |-> p.kind, id |-> p.id, status |-> p.tag]

CliRecvResponse ==
    /\ main = "resp" /\ ClientReads(need)
    /\ shown' = Append(shown, Displayed(Payload(s2c, need)))
    /\ cs' = CliTransition(cs, "RECEIVING_BITMAP") /\ main' = "bmpType" /\ need' = 0
    /\ UNCHANGED <<paused, threadVars, reports, pics, c2s, closed, down>>

\* MUTANT of CliRecvFails: a late response sends the client back to its menu.
CliKeepsGoing ==
    /\ \/ main = "respLen" /\ ClientReadFails(4)
       \/ main = "resp" /\ ClientReadFails(need)
    /\ BackToMenu /\ UNCHANGED <<pics, tcpVars>>

CliRecvFails ==
    /\ \/ main = "respLen" /\ ClientReadFails(4)
       \/ main = "resp" /\ ClientReadFails(need)
    /\ Leave /\ UNCHANGED tcpVars

\* MUTANT of CliRecvBitmapType: the type is not looked at.
CliRecvAnyType ==
    /\ main = "bmpType" /\ ClientReads(4) /\ main' = "bmpSize"
    /\ UNCHANGED <<cs, need, paused, threadVars, reports, shown, pics, c2s, closed, down>>

\* Bytes that are not the bitmap's type are consumed, and the transfer counts as failed.
CliRecvBitmapType ==
    /\ main = "bmpType" /\ ClientReads(4)
    /\ \E n \in FrontInts(s2c) :
          IF n = TypeBitmap
          THEN main' = "bmpSize" /\ UNCHANGED <<cs, need, paused, threadVars, reports, shown>>
          ELSE BackToMenu
    /\ UNCHANGED <<pics, c2s, closed, down>>

CliRecvBitmapSize ==
    /\ main = "bmpSize" /\ ClientReads(4)
    /\ \E n \in FrontInts(s2c) :
          IF AcceptedLength(n, MaxBitmap)
          THEN need' = n /\ main' = "bmpData"
               /\ UNCHANGED <<cs, paused, threadVars, reports, shown>>
          ELSE BackToMenu
    /\ UNCHANGED <<pics, c2s, closed, down>>

\* The bitmap is saved under the current report's zone, if the file can be created.
CliRecvBitmap ==
    /\ main = "bmpData" /\ ClientReads(need)
    /\ \/ pics' = Append(pics, [report |-> Current, id |-> Payload(s2c, need).id])
       \/ "file" \in Faults /\ UNCHANGED pics
    /\ BackToMenu /\ UNCHANGED <<c2s, closed, down>>

\* A failed receive may have consumed part of what it waited for.
CliBitmapFails ==
    /\ main \in Fetching
    /\ LET n == IF main = "bmpData" THEN need ELSE 4 IN
          /\ ClientReadFails(n)
          /\ \E k \in Partials : k < n /\ k <= Unread(s2c) /\ s2c' = AfterRead(s2c, k)
    /\ BackToMenu /\ UNCHANGED <<pics, c2s, closed, down>>

-----------------------------------------------------------------------
(* The end of the session: the heartbeat thread is joined and main() closes the socket. *)

CliExit ==
    /\ main = "join" /\ hb \in {"off", "done"}
    /\ main' = "exited" /\ ClientClose
    /\ UNCHANGED <<cs, need, paused, threadVars, reports, shown, pics>>

-----------------------------------------------------------------------
(* The heartbeat thread.  It looks at the flags once a minute, then sends without looking again. *)

HbWake ==
    /\ hb = "sleep" /\ running /\ ~ paused /\ beats < MaxHeartbeats
    /\ hb' = "sendLen" /\ beats' = beats + 1
    /\ UNCHANGED <<main, cs, need, running, paused, reports, shown, pics, tcpVars>>

HbSend(at, n, next) ==
    /\ hb = at /\ ClientSend(<<IntChunk(n)>>) /\ hb' = next
    /\ UNCHANGED <<main, cs, need, running, paused, beats, reports, shown, pics, s2c>>

HbSendLen  == HbSend("sendLen", 4, "sendType")
HbSendType == HbSend("sendType", TypeHeartbeat, "sleep")

\* A failed send ends the thread; nothing tells the main thread.
HbSendFails ==
    /\ hb \in {"sendLen", "sendType"} /\ "client" \in down
    /\ running' = FALSE /\ hb' = "done"
    /\ UNCHANGED <<main, cs, need, paused, beats, reports, shown, pics, tcpVars>>

\* MUTANT of HbStop: the thread stops looking at the flag once it is paused.
HbStopUnlessPaused ==
    /\ hb = "sleep" /\ ~ running /\ ~ paused /\ hb' = "done"
    /\ UNCHANGED <<main, cs, need, running, paused, beats, reports, shown, pics, tcpVars>>

HbStop ==
    /\ hb = "sleep" /\ ~ running /\ hb' = "done"
    /\ UNCHANGED <<main, cs, need, running, paused, beats, reports, shown, pics, tcpVars>>

Heartbeat == HbWake \/ HbSendLen \/ HbSendType \/ HbSendFails \/ HbStop

\* The calls of the main thread that wait for the program or the network, not for the user.
Working == \/ CliLoginFails \/ CliRecvReply
           \/ CliSendHeaderLen \/ CliSendHeader \/ CliSendDescLen \/ CliSendDesc \/ CliSendFails
           \/ CliRecvLength \/ CliRecvResponse \/ CliRecvFails
           \/ CliRecvBitmapType \/ CliRecvBitmapSize \/ CliRecvBitmap \/ CliBitmapFails
           \/ CliExit

CliNext == Working \/ CliLogin \/ CliChooseReport \/ CliChooseExit \/ CliFillForm \/ Heartbeat

=======================================================================
