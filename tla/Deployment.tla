-------------------------- MODULE Deployment --------------------------
(* One server process and several clients: connections wait in the kernel's queue while the       *)
(* server runs one session at a time, any process may be terminated (as the tests under FOD-Test  *)
(* do), and the server may be started again.  A session is what SessionContract says of it, which *)
(* FODSystem implements while connections do not fail silently.                                   *)
EXTENDS ServerMain, ClientMain

CONSTANT MaxStarts   \* bound: times the server is started

ASSUME ConnAssumption == NoConn \notin Clients

VARIABLES
    met,       \* history: clients that have had a connection
    sent,      \* clients whose credentials are on their way or have arrived
    accepted,  \* clients that the server has accepted
    starts     \* times the server was started, for the bound

sessionVars == <<met, sent, accepted>>
vars == <<smVars, cmVars, sessionVars, starts>>

Init == SmInit /\ CmInit /\ met = {} /\ sent = {} /\ accepted = {} /\ starts = 0

\* The client's connection waits for the server or is being served.
Connected(c) == serving = c \/ \E i \in DOMAIN queue : queue[i] = c

-----------------------------------------------------------------------
(* The server. *)

Restart == starts < MaxStarts /\ starts' = starts + 1 /\ SmStart /\ UNCHANGED <<cmVars, sessionVars>>

ServerStep == SmWorking /\ UNCHANGED <<cmVars, sessionVars, starts>>

ServerAccepts ==
    /\ pc = "session" /\ srv = "login" /\ serving \in sent
    /\ srv' = "serving" /\ accepted' = accepted \union {serving}
    /\ UNCHANGED <<pc, returnCode, automated, held, queue, serving, served, met, sent, cmVars,
                   starts>>

ServerLeaves ==
    /\ pc = "session" /\ srv # "out" /\ srv' = "out"
    /\ UNCHANGED <<pc, returnCode, automated, held, queue, serving, served, cmVars, sessionVars, starts>>

\* The process is terminated: what it held is gone, and its connections are reset.
ServerKilled ==
    /\ ~ SmOff /\ pc' = "off" /\ held' = {} /\ queue' = << >> /\ serving' = NoConn /\ srv' = "out"
    /\ UNCHANGED <<returnCode, automated, served, cmVars, sessionVars, starts>>

-----------------------------------------------------------------------
(* The clients. *)

ClientStart(c) == CmStart(c) /\ UNCHANGED <<smVars, sessionVars, starts>>

ClientStep(c) == CmWorking(c) /\ UNCHANGED <<smVars, sessionVars, starts>>

\* The kernel establishes the connection, whatever the server is doing.
ClientConnects(c) ==
    /\ Listening /\ Len(queue) < Backlog /\ CmConnect(c) /\ queue' = Append(queue, c)
    /\ met' = met \union {c}
    /\ UNCHANGED <<pc, returnCode, automated, held, serving, srv, served, sent, accepted, starts>>

\* A send succeeds, for all the client sees, also on a connection the server has closed.
SendCredentials(c) ==
    /\ CmSession(c, "prompt", "reply") /\ sent' = sent \union {c}
    /\ UNCHANGED <<smVars, met, accepted, starts>>

\* MUTANT of ClientEnters: any answer to the login will do.
ClientEntersOnAnyReply(c) ==
    /\ Connected(c) /\ CmSession(c, "reply", "in") /\ UNCHANGED <<smVars, sessionVars, starts>>

ClientEnters(c) ==
    /\ c \in accepted /\ CmSession(c, "reply", "in") /\ UNCHANGED <<smVars, sessionVars, starts>>

\* The answer is a rejection, the connection is closed or reset, or the answer is 120 s late:
\* the receive timeout is set before the session, so it also ends a wait in the server's queue.
ClientGivesUp(c) ==
    /\ CmSession(c, "reply", "cleanup") /\ UNCHANGED <<smVars, sessionVars, starts>>

ClientLeaves(c) ==
    /\ \/ CmSession(c, "prompt", "cleanup") /\ ~ Connected(c)
       \/ CmSession(c, "in", "cleanup")
    /\ UNCHANGED <<smVars, sessionVars, starts>>

ClientKilled(c) == CmKilled(c) /\ UNCHANGED <<smVars, sessionVars, starts>>

-----------------------------------------------------------------------

\* Everybody may have stopped for good.
Quiet == /\ SmOff \/ (pc = "select" /\ queue = << >>)
         /\ \A c \in Clients : at[c] = "exited"
         /\ UNCHANGED vars

Next == \/ Restart \/ ServerStep \/ ServerAccepts \/ ServerLeaves \/ ServerKilled
        \/ \E c \in Clients :
              \/ ClientStart(c) \/ ClientStep(c) \/ ClientConnects(c) \/ SendCredentials(c)
              \/ ClientEnters(c) \/ ClientGivesUp(c) \/ ClientLeaves(c) \/ ClientKilled(c)
        \/ Quiet

Spec == Init /\ [][Next]_vars

\* The client of the session being run has left it.
ClientGone == pc = "session" /\ at[serving] \notin InSession

\* Processes that can run do run; the session ends after its client and the wait for the reply ends,
\* as SessionContract promises; accept() does not fail for ever while connections are queued.  Users
\* owe nothing, and nobody need start or terminate a process.
Fairness == /\ WF_vars(ServerStep)
            /\ SF_vars(SmAccept /\ ServerStep)
            /\ WF_vars(ClientGone /\ ServerLeaves)
            /\ \A c \in Clients : /\ WF_vars(ClientStep(c))
                                  /\ WF_vars(ClientEnters(c) \/ ClientGivesUp(c))

FairSpec == Spec /\ Fairness

-----------------------------------------------------------------------
(* Properties. *)

\* Whichever call failed, and however often what it holds was released on the way, a program that
\* exits has released everything it had acquired (FOD-SERVER.cpp:259-262, FOD-CLIENT.cpp:104-141),
\* and a server that listens again has kept nothing of the sessions before.
NothingLeaks == /\ pc = "exited" => held = {}
                /\ pc = "select" => held = {"odbc", "winsock", "ListenSocket"}
                /\ \A c \in Clients : at[c] = "exited" => holds[c] = {} /\ sockets[c] = {}

\* The server's exit code tells whether it has done its work: 0 exactly after one session in manual
\* mode; a server that exits otherwise, in either mode, has served nobody.
ExitCodeTruthful ==
    pc = "exited" => /\ returnCode = 0 => ~ automated /\ served = 1
                     /\ returnCode # 0 => served = 0

SessionOf(c) == INSTANCE SessionContract WITH
        accepted <- c \in accepted,
        srv <- IF serving = c THEN srv
               ELSE IF c \in met /\ ~ Connected(c) THEN "out" ELSE "login",
        cli <- IF at[c] \in {"reply", "in"} THEN at[c]
               ELSE IF at[c] \in {"cleanup", "exited"} THEN "out" ELSE "prompt"

\* Each client gets at most one session, and gets in only in a session whose server has accepted it,
\* across queueing, terminated processes and servers started again.
SessionsKeepContract ==
    [][\A c \in Clients : SessionOf(c)!SCNext \/ UNCHANGED SessionOf(c)!scVars]_vars

\* In automated mode the server that has lost its client listens again (the test
\* RunningServerAcceptsSecondAuthenticatedClientAfterDisconnect, runtime_required_tests.cpp:520).
ServerListensAgain == automated /\ ClientGone ~> pc \in {"select", "off"}

Queued(c) == \E i \in DOMAIN queue : queue[i] = c

\* The queue moves, in both modes, whatever calls fail, whoever dies in the queue or before its
\* server, and however often that is started again: a connection waits for ever for accept() only
\* behind one user who stays for ever at the prompt or in the session (FOD-SERVER.cpp:200-257).
QueueMoves ==
    \A c \in Clients : <>[]Queued(c) => <>[](pc = "session" /\ at[serving] \in {"prompt", "in"})

=======================================================================
