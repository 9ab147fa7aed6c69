--------------------------- MODULE FODSystem --------------------------
(* The system: one client session, one server session, and the connection between them.  A        *)
(* state is what both programs and the network hold between two blocking calls.                   *)
EXTENDS ServerSession, ClientSession

vars == <<tcpVars, srvVars, cliVars>>

Init == TcpInit /\ SrvInit /\ CliInit

\* Both programs are done with the connection.
Finished == main = "exited" /\ phase = "closed"

Next == \/ SrvNext /\ UNCHANGED cliVars
        \/ CliNext /\ UNCHANGED srvVars
        \/ (LinkLost \/ RetransmitFails) /\ UNCHANGED <<srvVars, cliVars>>
        \/ Finished /\ UNCHANGED vars

Spec == Init /\ [][Next]_vars

\* Threads that can run do run, and TCP gives up in the end; the user owes the program nothing.
Fairness == /\ WF_vars(SrvNext /\ UNCHANGED cliVars)
            /\ WF_vars(Working /\ UNCHANGED srvVars)
            /\ WF_vars(Heartbeat /\ UNCHANGED srvVars)
            /\ WF_vars(RetransmitFails /\ UNCHANGED <<srvVars, cliVars>>)

FairSpec == Spec /\ Fairness

-----------------------------------------------------------------------
(* Types. *)

Kinds == {"int", "auth", "byte", "header", "desc", "text", "bitmap", "rest", "textRest", "bitmapRest",
          "scrambled"}

Tags == SrvState \union Credentials \union {""}

Chunks == [kind : Kinds, end : Int, id : Nat, num : Int, tag : Tags]

Streams == Seq(Chunks)

Headers  == [id : Nat, severity : Int]
Records  == [id : Nat, desc : Nat, severity : Int, saved : BOOLEAN]
Displays == [report : Nat, kind : Kinds, id : Nat, status : Tags]
Pictures == [report : Nat, id : Nat]

TcpTypes == /\ c2s \in Streams /\ s2c \in Streams
            /\ closed \subseteq Ends /\ down \subseteq Ends

SrvTypes == /\ phase \in Phases /\ ss \in SrvState /\ authenticated \in BOOLEAN
            /\ want \in Nat /\ hdr \in Headers /\ out \in Seq(Streams)
            /\ ledger \in Seq(Records)

CliTypes == /\ main \in MainPlace /\ cs \in CliState /\ need \in Nat
            /\ hb \in HbPlace /\ running \in BOOLEAN /\ paused \in BOOLEAN /\ beats \in Nat
            /\ reports \in Seq(0 .. 5) /\ shown \in Seq(Displays) /\ pics \in Seq(Pictures)

\* Every variable of the connection and of both programs holds a value of its kind: in particular
\* no length that the programs wait for is negative.
TypeOK == TcpTypes /\ SrvTypes /\ CliTypes

-----------------------------------------------------------------------
(* The server. *)

\* At each blocking call of the session the state machine is where that call expects it, so that
\* none of the transitions whose results runServerSession ignores is ever rejected; and between
\* two reports the runway shows what the last recorded report called for.
RunwayStateAgrees ==
    /\ phase = "auth" => ss = "DISCONNECTED" /\ ledger = << >>
    /\ phase \in {"select", "length", "payload", "send"} =>
          ss = IF ledger = << >> THEN "CONNECTED" ELSE Assess(ledger[Len(ledger)].severity)
    /\ phase \in {"descLength", "desc"} => ss = "INSPECTION"

\* Nothing is filed by the client or recorded by the server before the server has checked the
\* credentials and found them good (StateMachineTests.cpp:16-23: no path without a login).
OnlyAuthenticatedReport == reports # << >> \/ ledger # << >> => authenticated

\* A recorded report that bears a number is that report of the client's: same severity, and its
\* own description or, where a heartbeat cut into the stream, bytes that are nobody's.
LedgerFaithful ==
    \A i \in DOMAIN ledger : LET e == ledger[i] IN
        e.id > 0 => /\ e.id <= Len(reports) /\ e.severity = reports[e.id]
                    /\ e.desc \in {e.id, 0}

\* Wherever heartbeats cut into the stream, the session never goes back in it: no part of a report
\* is recorded twice or after a part sent later, so that of two numbered entries the later one is the
\* later report's, and a text that found its way into another entry is never met again.
RecordedInOrder ==
    \A i, j \in DOMAIN ledger : i < j =>
        /\ ledger[j].id > 0   => ledger[i].id < ledger[j].id /\ ledger[i].desc < ledger[j].id
        /\ ledger[j].desc > 0 => ledger[i].id <= ledger[j].desc /\ ledger[i].desc < ledger[j].desc

-----------------------------------------------------------------------
(* The client. *)

\* At each blocking call of the main thread the state machine and the pause flag are what the
\* place in the code calls for: in particular the client comes back to its menu in CONNECTED with
\* heartbeats resumed, however badly the bitmap transfer went, and leaves its loop DISCONNECTED.
ClientStateAgrees ==
    /\ main = "reply" => cs = "AUTHENTICATING"
    /\ main = "menu" => cs = "CONNECTED" /\ ~ paused
    /\ main \in {"form"} \union Sending => cs = "REPORTING" /\ paused
    /\ main \in Replying => cs = "WAITING_RESPONSE" /\ paused
    /\ main \in Fetching => cs = "RECEIVING_BITMAP" /\ paused
    /\ main \in {"login", "join", "exited"} => cs = "DISCONNECTED" /\ ~ running

\* A whole confirmation tells of a report; anything else that is displayed tells of none.
Confirms(d) == d.kind = "text" /\ d.id > 0

\* A whole confirmation that is displayed is the one of the report it is displayed for, with the
\* status that report calls for, and the server has recorded that report: an exchange that times
\* out, or one whose bitmap was lost, never leaves its answer for a later report.
ConfirmationMatchesReport ==
    \A i \in DOMAIN shown : LET d == shown[i] IN
        Confirms(d) =>
            /\ d.id = d.report /\ d.status = Assess(reports[d.report])
            /\ \E j \in DOMAIN ledger : ledger[j].id = d.id

\* A bitmap is saved only for the report it was drawn for.
BitmapMatchesReport == \A i \in DOMAIN pics : pics[i].id = pics[i].report

\* What is left of the last two where there are heartbeats: a whole confirmation may be displayed, and
\* a bitmap saved, for a later report than its own, but never for an earlier one, never twice and
\* never after that of a later report; and it is that of a recorded report, with its status.
AnswersInOrder ==
    /\ \A i \in DOMAIN shown : LET d == shown[i] IN
          Confirms(d) =>
              /\ d.id <= d.report /\ d.status = Assess(reports[d.id])
              /\ \E j \in DOMAIN ledger : ledger[j].id = d.id
              /\ \A k \in 1 .. i - 1 : Confirms(shown[k]) => shown[k].id < d.id
    /\ \A i \in DOMAIN pics : LET p == pics[i] IN
          p.id > 0 =>
              /\ p.id <= p.report
              /\ \E j \in DOMAIN ledger : ledger[j].id = p.id
              /\ \A k \in 1 .. i - 1 : pics[k].id < p.id

-----------------------------------------------------------------------
(* The system implements what ReportDelivery promises.                                            *)

RD == INSTANCE ReportDelivery WITH
        Severities <- 0 .. 5,
        Status <- [s \in 0 .. 5 |-> Assess(s)],
        filed  <- reports,
        logged <- [i \in DOMAIN ledger |->
                     [id |-> ledger[i].id, status |-> Assess(ledger[i].severity)]],
        told   <- [i \in DOMAIN shown |->
                     IF Confirms(shown[i]) THEN [id |-> shown[i].report, status |-> shown[i].status]
                     ELSE [id |-> 0, status |-> ""]]

\* Reports are logged in the order filed, none twice, and the crew is told only of the report just
\* filed, after it is logged.
ImplementsReportDelivery == RD!RDSpec

-----------------------------------------------------------------------
(* Liveness. *)

\* An exchange ends: the receive timeout gets the client out of every wait, and it is back at its
\* menu or out of the program.
ExchangeEnds == main \in Exchange ~> main \in {"menu", "exited"}

\* A client that leaves its loop gets its heartbeat thread joined and exits.
ClientExits == main = "join" ~> main = "exited"

SC == INSTANCE SessionContract WITH
        accepted <- authenticated,
        srv <- CASE phase = "auth" -> "login"
                 [] phase \in {"ended", "closed"} -> "out"
                 [] OTHER -> "serving",
        cli <- CASE main = "login" -> "prompt"
                 [] main \in {"join", "exited"} -> "out"
                 [] main = "reply" -> "reply"
                 [] OTHER -> "in"

\* The two programs keep the contract that Deployment relies on: the client is in only after the
\* server has accepted it, its wait for the answer to its login ends, and when it has left, the
\* server's session ends, wherever it was.
ImplementsSessionContract == SC!SCSpec

\* ServerSession.cpp:226 calls the receive loop one "with heartbeat monitoring": once in the loop,
\* the session of a client that has gone ends, even where the loss of the connection was silent.
LoopEndsAfterClient == main = "exited" /\ authenticated ~> phase = "closed"

\* With no faults and no heartbeat due, every report filed is recorded, confirmed and followed by
\* its bitmap.
EveryReportAnswered ==
    \A r \in 1 .. MaxReports :
        Len(reports) = r ~> /\ Len(pics) >= r /\ pics[r] = [report |-> r, id |-> r]
                            /\ Len(shown) >= r /\ shown[r].id = r
                            /\ shown[r].status = Assess(reports[r])

=======================================================================
