----------------------- MODULE DeploymentSafety -----------------------
(* Proofs of safety properties of Deployment, for any number of clients, addresses, queued        *)
(* connections and restarts: no program exits with anything unreleased, the server's exit code     *)
(* tells what it did, and every session keeps its contract with the queue between its two ends.    *)
EXTENDS Deployment, TLAPS

\* What the server holds at each call: the error paths of FOD-SERVER.cpp release what was acquired
\* before, in part a second time at the clean-up.
HeldAtCalls ==
    /\ pc \in {"off", "exited"} \union SmCalls
    /\ pc \in {"off", "exited", "openConnection"} => held = {}
    /\ pc \in {"authenticateUser", "WSAStartup"} => held = {"odbc"}
    /\ pc = "getaddrinfo" => held = {"odbc", "winsock"}
    /\ pc = "socket" => held = {"odbc", "winsock", "addrinfo"}
    /\ pc = "bind" => held = {"odbc", "winsock", "addrinfo", "ListenSocket"}
    /\ pc \in {"listen", "select", "accept"} => held = {"odbc", "winsock", "ListenSocket"}
    /\ pc = "session" => held = {"odbc", "winsock", "ListenSocket", "ClientSocket"}
    /\ pc = "cleanup" => held \subseteq {"odbc", "winsock", "ListenSocket", "ClientSocket"}

\* What a client holds at each call of FOD-CLIENT.cpp: one socket at most, that of the address in
\* hand.
HoldsAtCalls(c) ==
    /\ at[c] \in CmCalls
    /\ at[c] \in {"off", "WSAStartup", "exited"} => holds[c] = {} /\ sockets[c] = {}
    /\ at[c] = "getaddrinfo" => holds[c] = {"winsock"} /\ sockets[c] = {}
    /\ at[c] = "socket" => holds[c] = {"winsock", "addrinfo"} /\ sockets[c] = {}
    /\ at[c] = "connect" => holds[c] = {"winsock", "addrinfo"} /\ sockets[c] = {left[c]}
    /\ at[c] \in InSession => holds[c] = {"winsock"} /\ sockets[c] = {left[c]}
    /\ at[c] = "cleanup" => holds[c] \subseteq {"winsock"} /\ sockets[c] \subseteq {left[c]}

Functions == /\ at = [c \in Clients |-> at[c]] /\ left = [c \in Clients |-> left[c]]
             /\ holds = [c \in Clients |-> holds[c]] /\ sockets = [c \in Clients |-> sockets[c]]

ReleaseInv == HeldAtCalls /\ Functions /\ \A c \in Clients : HoldsAtCalls(c)

-----------------------------------------------------------------------

\* Every call of the server's main(), whether it succeeds or fails, leads to a call where what is
\* held is known (FOD-SERVER.cpp:70-264).
LEMMA ServerReleases ==
    ASSUME HeldAtCalls, SmStart \/ SmWorking PROVE HeldAtCalls'
<1>. USE DEF HeldAtCalls, SmCalls, Succeed, Fail
<1>1. CASE SmStart
  BY <1>1 DEF SmStart, SmOff
<1>2. CASE SmOpenConnection
  BY <1>2 DEF SmOpenConnection
<1>3. CASE SmAuthenticateUser
  BY <1>3 DEF SmAuthenticateUser
<1>4. CASE SmWSAStartup
  BY <1>4 DEF SmWSAStartup
<1>5. CASE SmGetaddrinfo
  BY <1>5 DEF SmGetaddrinfo
<1>6. CASE SmSocket
  BY <1>6 DEF SmSocket
<1>7. CASE SmBind
  BY <1>7 DEF SmBind
<1>8. CASE SmListen
  BY <1>8 DEF SmListen
<1>9. CASE SmSelect \/ SmSelectFails
  BY <1>9 DEF SmSelect, SmSelectFails
<1>10. CASE SmAccept
  BY <1>10 DEF SmAccept
<1>11. CASE SmAcceptFails
  BY <1>11 DEF SmAcceptFails
<1>12. CASE SmSessionEnds
  BY <1>12 DEF SmSessionEnds
<1>13. CASE SmCleanup
  BY <1>13 DEF SmCleanup
<1>. QED
  BY <1>1, <1>2, <1>3, <1>4, <1>5, <1>6, <1>7, <1>8, <1>9, <1>10, <1>11, <1>12, <1>13 DEF SmWorking

\* The steps of one client's main() and of the session it runs.
ClientMoves(c) ==
    \/ CmStart(c) \/ CmWorking(c) \/ CmConnect(c) \/ CmKilled(c)
    \/ \E here \in InSession, next \in InSession \union {"cleanup"} : CmSession(c, here, next)

\* A step of a client is none of the others'.
LEMMA OthersUntouched ==
    ASSUME Functions, NEW c \in Clients, ClientMoves(c)
    PROVE  Functions' /\ \A d \in Clients \ {c} : HoldsAtCalls(d) => HoldsAtCalls(d)'
<1>1. /\ \A d \in Clients \ {c} : at'[d] = at[d] /\ left'[d] = left[d]
                                  /\ holds'[d] = holds[d] /\ sockets'[d] = sockets[d]
      /\ Functions'
  <2>. USE DEF Functions, CmGo, Acquire, Release, CloseConnectSocket, Exit, NextAddress
  <2>1. CASE CmStart(c)
    BY <2>1 DEF CmStart
  <2>2. CASE CmWSAStartup(c) \/ CmGetaddrinfo(c)
    BY <2>2 DEF CmWSAStartup, CmGetaddrinfo
  <2>3. CASE CmSocket(c) \/ CmConnectFails(c)
    BY <2>3 DEF CmSocket, CmConnectFails
  <2>4. CASE CmNoServer(c) \/ CmCleanup(c)
    BY <2>4 DEF CmNoServer, CmCleanup
  <2>5. CASE CmConnect(c) \/ CmKilled(c)
    BY <2>5 DEF CmConnect, CmKilled
  <2>6. CASE \E here \in InSession, next \in InSession \union {"cleanup"} : CmSession(c, here, next)
    BY <2>6 DEF CmSession
  <2>. QED
    BY <2>1, <2>2, <2>3, <2>4, <2>5, <2>6 DEF ClientMoves, CmWorking
<1>. QED
  BY <1>1 DEF HoldsAtCalls

\* Every call of a client's main(), whether it succeeds or fails, leads to a call where what is held
\* is known (FOD-CLIENT.cpp:56-143).
LEMMA ClientReleases ==
    ASSUME Functions, NEW c \in Clients, HoldsAtCalls(c), ClientMoves(c) PROVE HoldsAtCalls(c)'
<1>. USE DEF HoldsAtCalls, Functions, CmCalls, InSession, CmGo, Acquire, Release,
             CloseConnectSocket, Exit, NextAddress
<1>1. CASE CmStart(c)
  BY <1>1 DEF CmStart
<1>2. CASE CmWSAStartup(c)
  BY <1>2 DEF CmWSAStartup
<1>3. CASE CmGetaddrinfo(c)
  BY <1>3 DEF CmGetaddrinfo
<1>4. CASE CmSocket(c)
  BY <1>4 DEF CmSocket
<1>5. CASE CmConnectFails(c)
  BY <1>5 DEF CmConnectFails
<1>6. CASE CmNoServer(c)
  BY <1>6 DEF CmNoServer
<1>7. CASE CmCleanup(c)
  BY <1>7 DEF CmCleanup
<1>8. CASE CmConnect(c)
  BY <1>8 DEF CmConnect
<1>9. CASE CmKilled(c)
  BY <1>9 DEF CmKilled
<1>10. CASE \E here \in InSession, next \in InSession \union {"cleanup"} : CmSession(c, here, next)
  BY <1>10 DEF CmSession
<1>. QED
  BY <1>1, <1>2, <1>3, <1>4, <1>5, <1>6, <1>7, <1>8, <1>9, <1>10 DEF ClientMoves, CmWorking

-----------------------------------------------------------------------

\* Nobody holds anything before it starts.
LEMMA ReleaseInit == Init => ReleaseInv
  BY DEF Init, SmInit, CmInit, ReleaseInv, HeldAtCalls, Functions, HoldsAtCalls, CmCalls, InSession

\* Every step of the deployment is one of the server's main(), of its session, or of one client.
LEMMA ReleaseStep == ReleaseInv /\ [Next]_vars => ReleaseInv'
<1>. SUFFICES ASSUME ReleaseInv, [Next]_vars PROVE ReleaseInv'
  OBVIOUS
<1>. USE DEF ReleaseInv
<1>a. UNCHANGED cmVars => Functions' /\ \A c \in Clients : HoldsAtCalls(c)'
  BY DEF cmVars, Functions, HoldsAtCalls
<1>b. UNCHANGED <<pc, held>> => HeldAtCalls'
  BY DEF HeldAtCalls
<1>c. ASSUME NEW c \in Clients, ClientMoves(c)
      PROVE  Functions' /\ \A d \in Clients : HoldsAtCalls(d)'
  BY <1>c, OthersUntouched, ClientReleases
<1>1. CASE Restart \/ ServerStep
  BY <1>1, <1>a, ServerReleases DEF Restart, ServerStep
<1>2. CASE ServerAccepts \/ ServerLeaves
  BY <1>2, <1>a, <1>b DEF ServerAccepts, ServerLeaves
<1>3. CASE ServerKilled
  BY <1>3, <1>a DEF ServerKilled, HeldAtCalls, SmCalls
<1>4. ASSUME NEW c \in Clients,
             \/ ClientStart(c) \/ ClientStep(c) \/ ClientConnects(c) \/ SendCredentials(c)
             \/ ClientEnters(c) \/ ClientGivesUp(c) \/ ClientLeaves(c) \/ ClientKilled(c)
      PROVE  ReleaseInv'
  <2>1. ClientMoves(c)
    BY <1>4 DEF ClientStart, ClientStep, ClientConnects, SendCredentials, ClientEnters,
                ClientGivesUp, ClientLeaves, ClientKilled, ClientMoves, InSession
  <2>2. UNCHANGED <<pc, held>>
    BY <1>4 DEF ClientStart, ClientStep, ClientConnects, SendCredentials, ClientEnters,
                ClientGivesUp, ClientLeaves, ClientKilled, smVars
  <2>. QED
    BY <2>1, <2>2, <1>b, <1>c
<1>5. CASE Quiet \/ UNCHANGED vars
  BY <1>5, <1>a, <1>b DEF Quiet, vars, smVars
<1>. QED
  BY <1>1, <1>2, <1>3, <1>4, <1>5 DEF Next

\* However many clients there are, whichever calls fail and whoever is terminated and started again:
\* a program that exits has released all it acquired (FOD-SERVER.cpp:259-262,
\* FOD-CLIENT.cpp:104-141), and a server that listens again holds nothing of earlier sessions.
THEOREM ReleaseCorrect == Spec => []NothingLeaks
<1>1. ReleaseInv => NothingLeaks
  BY DEF ReleaseInv, HeldAtCalls, HoldsAtCalls, NothingLeaks
<1>. QED
  BY <1>1, ReleaseInit, ReleaseStep, PTL DEF Spec

-----------------------------------------------------------------------
(* The exit code. *)

BeforeLoop == {"openConnection", "authenticateUser", "WSAStartup", "getaddrinfo", "socket", "bind",
               "listen"}
InLoop     == {"select", "accept", "session"}

\* Until the loop nothing has been served; manual mode leaves the loop with its first session.
CodeAtCalls ==
    /\ pc \in {"off", "exited", "cleanup"} \union BeforeLoop \union InLoop
    /\ pc \in BeforeLoop => returnCode = 0 /\ served = 0
    /\ pc \in InLoop => returnCode = 0 /\ (~ automated => served = 0)
    /\ pc \in {"cleanup", "exited"} => /\ returnCode = 0 => ~ automated /\ served = 1
                                       /\ returnCode # 0 => served = 0

\* Every step of main() keeps it (FOD-SERVER.cpp:70-264).
LEMMA CodeKept == ASSUME CodeAtCalls, SmStart \/ SmWorking PROVE CodeAtCalls'
<1>. USE DEF CodeAtCalls, BeforeLoop, InLoop, Succeed, Fail, SmUnserved
<1>1. CASE SmStart
  BY <1>1 DEF SmStart, SmOff
<1>2. CASE SmOpenConnection \/ SmAuthenticateUser \/ SmWSAStartup
  BY <1>2 DEF SmOpenConnection, SmAuthenticateUser, SmWSAStartup
<1>3. CASE SmGetaddrinfo \/ SmSocket \/ SmBind \/ SmListen
  BY <1>3 DEF SmGetaddrinfo, SmSocket, SmBind, SmListen
<1>4. CASE SmSelect \/ SmSelectFails \/ SmAccept \/ SmAcceptFails
  BY <1>4 DEF SmSelect, SmSelectFails, SmAccept, SmAcceptFails
<1>5. CASE SmSessionEnds \/ SmCleanup
  BY <1>5 DEF SmSessionEnds, SmCleanup
<1>. QED
  BY <1>1, <1>2, <1>3, <1>4, <1>5 DEF SmWorking

\* However often the server is terminated and started again, its exit code is 0 exactly after the
\* one session of manual mode (FOD-SERVER.cpp:70-264).
THEOREM ExitCodeCorrect == Spec => []ExitCodeTruthful
<1>1. Init => CodeAtCalls
  BY DEF Init, SmInit, CodeAtCalls, BeforeLoop, InLoop
<1>2. CodeAtCalls /\ [Next]_vars => CodeAtCalls'
  <2>. SUFFICES ASSUME CodeAtCalls, [Next]_vars PROVE CodeAtCalls'
    OBVIOUS
  <2>1. CASE Restart \/ ServerStep
    BY <2>1, CodeKept DEF Restart, ServerStep
  <2>2. CASE UNCHANGED <<pc, returnCode, automated, served>>
    BY <2>2 DEF CodeAtCalls
  <2>3. CASE ServerKilled
    BY <2>3 DEF ServerKilled, CodeAtCalls, BeforeLoop, InLoop
  <2>4. \/ Restart \/ ServerStep \/ ServerKilled
        \/ UNCHANGED <<pc, returnCode, automated, served>>
    BY DEF Next, vars, smVars, ServerAccepts, ServerLeaves, ClientStart, ClientStep, ClientConnects,
           SendCredentials, ClientEnters, ClientGivesUp, ClientLeaves, ClientKilled, Quiet
  <2>. QED
    BY <2>1, <2>2, <2>3, <2>4
<1>3. CodeAtCalls => ExitCodeTruthful
  BY DEF CodeAtCalls, ExitCodeTruthful
<1>. QED
  BY <1>1, <1>2, <1>3, PTL DEF Spec

-----------------------------------------------------------------------
(* Sessions keep their contract. *)

\* A client is in the queue once at most, and not while it is served.
QueueInv ==
    /\ queue \in Seq(Clients) /\ serving \in Clients \union {NoConn}
    /\ pc # "session" => serving = NoConn
    /\ \A i \in DOMAIN queue : queue[i] # serving /\ \A j \in DOMAIN queue : queue[i] = queue[j] => i = j

\* A client has a connection once at most, and sends its credentials over it.
SessionInv(c) ==
    /\ Connected(c) => c \in met
    /\ c \in met => at[c] \in InSession \union {"cleanup", "exited"}
    /\ c \in sent => at[c] \in {"reply", "in", "cleanup", "exited"}

ContractInv == Functions /\ QueueInv /\ \A c \in Clients : SessionInv(c)

\* What the server's main(), its session and its end may do to the connections: nobody is added,
\* and who is accepted was first in the queue.
ServerSteps ==
    /\ \/ UNCHANGED <<queue, serving, srv>>
       \/ UNCHANGED <<serving, srv>> /\ queue # << >> /\ queue' = Tail(queue)
       \/ UNCHANGED <<serving, srv>> /\ queue' = << >>
       \/ serving' = NoConn /\ srv' = "out" /\ queue' = << >>
       \/ serving' = NoConn /\ srv = "out" /\ UNCHANGED <<queue, srv>>
       \/ serving = NoConn /\ queue # << >> /\ serving' = Head(queue) /\ queue' = Tail(queue) /\ srv' = "login"
       \/ UNCHANGED <<queue, serving>> /\ srv # "out" /\ srv' = "out"
    /\ pc' # "session" => serving' = NoConn
    /\ UNCHANGED <<cmVars, sessionVars>>

\* A step of the server's process is one of those (FOD-SERVER.cpp:70-264).
LEMMA ServerProcess ==
    ASSUME QueueInv, Restart \/ ServerStep \/ ServerLeaves \/ ServerKilled PROVE ServerSteps
<1>. USE DEF QueueInv, ServerSteps, Succeed, Fail, SmUnserved
<1>1. CASE Restart
  BY <1>1 DEF Restart, SmStart, SmOff
<1>2. CASE ServerLeaves \/ ServerKilled
  BY <1>2 DEF ServerLeaves, ServerKilled
<1>3. CASE ServerStep
  <2>1. UNCHANGED <<cmVars, sessionVars>> /\ SmWorking
    BY <1>3 DEF ServerStep
  <2>2. CASE SmOpenConnection \/ SmAuthenticateUser \/ SmWSAStartup \/ SmGetaddrinfo
    BY <2>1, <2>2 DEF SmOpenConnection, SmAuthenticateUser, SmWSAStartup, SmGetaddrinfo
  <2>3. CASE SmSocket \/ SmBind \/ SmListen \/ SmSelect \/ SmSelectFails
    BY <2>1, <2>3 DEF SmSocket, SmBind, SmListen, SmSelect, SmSelectFails
  <2>4. CASE SmAccept
    BY <2>1, <2>4 DEF SmAccept
  <2>5. CASE SmAcceptFails
    BY <2>1, <2>5 DEF SmAcceptFails
  <2>6. CASE SmSessionEnds \/ SmCleanup
    BY <2>1, <2>6 DEF SmSessionEnds, SmCleanup
  <2>. QED
    BY <2>1, <2>2, <2>3, <2>4, <2>5, <2>6 DEF SmWorking
<1>. QED
  BY <1>1, <1>2, <1>3

\* The contract, client by client.
KeepsContract(c) == SessionOf(c)!SCNext \/ UNCHANGED SessionOf(c)!scVars

\* Whatever the server's process does, every client's session stays within the contract: the server
\* serves only the head of the queue, which it takes up once (FOD-SERVER.cpp:70-264).
LEMMA ServerKeepsContract ==
    ASSUME ContractInv, ServerSteps
    PROVE  ContractInv' /\ \A c \in Clients : KeepsContract(c)
<1>. USE ConnAssumption DEF ContractInv, ServerSteps, QueueInv, cmVars, sessionVars
<1>1. Functions' 
  BY DEF Functions
<1>2. QueueInv'
  <2>. /\ queue \in Seq(Clients) /\ serving \in Clients \union {NoConn}
       /\ \A i, j \in DOMAIN queue : queue[i] # serving /\ (queue[i] = queue[j] => i = j)
    OBVIOUS
  <2>1. CASE UNCHANGED queue
    BY <2>1
  <2>2. CASE queue' = << >>
    BY <2>2
  <2>3. CASE queue # << >> /\ queue' = Tail(queue)
    <3>1. /\ queue' \in Seq(Clients) /\ Head(queue) \in Clients /\ Head(queue) = queue[1]
          /\ \A i \in DOMAIN queue' : i + 1 \in DOMAIN queue /\ i + 1 # 1 /\ i \in Int
                                      /\ queue'[i] = queue[i + 1]
      BY <2>3
    <3>2. /\ serving' \in {serving, NoConn, queue[1]} /\ 1 \in DOMAIN queue
          /\ serving' \in Clients \union {NoConn}
      BY <3>1, <2>3
    <3>3. \A i \in DOMAIN queue' : queue'[i] # serving' /\ queue'[i] # NoConn
      BY <3>1, <3>2
    <3>4. \A i, j \in DOMAIN queue' : queue'[i] = queue'[j] => i = j
      <4>. TAKE i, j \in DOMAIN queue'
      <4>1. queue'[i] = queue'[j] => i + 1 = j + 1
        BY <3>1
      <4>. QED  BY <4>1, <3>1
    <3>. QED  BY <3>1, <3>2, <3>3, <3>4
  <2>. QED  BY <2>1, <2>2, <2>3
<1>3. \A c \in Clients : Connected(c)' => Connected(c)
  BY DEF Connected
<1>4. \A c \in Clients : SessionInv(c)'
  BY <1>3 DEF SessionInv
<1>5. ASSUME NEW c \in Clients PROVE KeepsContract(c)
  BY <1>5 DEF KeepsContract, SessionOf!SCNext, SessionOf!scVars, SessionOf!ServerLeaves, Connected, SessionInv
<1>. QED  BY <1>1, <1>2, <1>4, <1>5

\* The server accepts a client that has sent its credentials.
LEMMA AcceptanceKeepsContract ==
    ASSUME ContractInv, ServerAccepts
    PROVE  ContractInv' /\ \A c \in Clients : KeepsContract(c)
<1>. USE DEF ContractInv, ServerAccepts, cmVars
<1>1. ContractInv'
  BY DEF Functions, QueueInv, SessionInv, Connected
<1>2. ASSUME NEW c \in Clients PROVE KeepsContract(c)
  <2>1. CASE c # serving
    BY <2>1 DEF KeepsContract, SessionOf!SCNext, SessionOf!scVars, Connected
  <2>2. CASE c = serving
    BY <2>2 DEF KeepsContract, SessionOf!SCNext, SessionOf!scVars, SessionOf!ServerAccepts, SessionInv
  <2>. QED  BY <2>1, <2>2
<1>. QED  BY <1>1, <1>2

\* What a client's program may do to its place, its connection and its credentials.
ClientSteps(c) ==
    /\ Functions' /\ \A d \in Clients \ {c} : at'[d] = at[d]
    /\ UNCHANGED <<serving, srv, pc, accepted>>
    /\ \/ /\ at[c] = "connect" /\ at'[c] = "prompt" /\ queue' = Append(queue, c)
          /\ met' = met \union {c} /\ UNCHANGED sent
       \/ /\ at[c] = "prompt" /\ at'[c] = "reply"
          /\ sent' = sent \union {c} /\ UNCHANGED <<queue, met>>
       \/ /\ UNCHANGED <<queue, met, sent>>
          /\ \/ at[c] = "reply" /\ at'[c] = "in" /\ c \in accepted
             \/ at'[c] \in {"cleanup", "exited"}
             \/ {at[c], at'[c]} \intersect (InSession \union {"cleanup", "exited"}) = {}

\* A step of a client's process is one of those (FOD-CLIENT.cpp:56-143).
LEMMA ClientProcess ==
    ASSUME Functions, NEW c \in Clients,
           \/ ClientStart(c) \/ ClientStep(c) \/ ClientConnects(c) \/ SendCredentials(c)
           \/ ClientEnters(c) \/ ClientGivesUp(c) \/ ClientLeaves(c) \/ ClientKilled(c)
    PROVE  ClientSteps(c)
<1>0. ClientMoves(c)
  BY DEF ClientStart, ClientStep, ClientConnects, SendCredentials, ClientEnters, ClientGivesUp,
         ClientLeaves, ClientKilled, ClientMoves, InSession
<1>1. Functions' /\ \A d \in Clients \ {c} : at'[d] = at[d]
  <2>. USE DEF Functions, CmGo, Acquire, Release, CloseConnectSocket, Exit, NextAddress
  <2>1. \A d \in Clients \ {c} : at'[d] = at[d]
    BY <1>0 DEF ClientMoves, CmStart, CmWorking, CmWSAStartup, CmGetaddrinfo, CmSocket, CmConnectFails,
                CmNoServer, CmCleanup, CmConnect, CmKilled, CmSession
  <2>. QED  BY <1>0, <2>1, OthersUntouched
<1>. USE DEF ClientSteps, Functions, CmGo, InSession, smVars, sessionVars
<1>2. CASE ClientStart(c)
  BY <1>1, <1>2 DEF ClientStart, CmStart
<1>3. CASE ClientStep(c)
  <2>1. UNCHANGED <<serving, srv, pc, accepted, queue, met, sent>> /\ CmWorking(c)
    BY <1>3 DEF ClientStep
  <2>. QED
    BY <1>1, <2>1 DEF CmWorking, CmWSAStartup, CmGetaddrinfo, CmSocket, CmConnectFails, CmNoServer,
                      CmCleanup
<1>4. CASE ClientConnects(c)
  BY <1>1, <1>4 DEF ClientConnects, CmConnect
<1>5. CASE SendCredentials(c) \/ ClientEnters(c)
  BY <1>1, <1>5 DEF SendCredentials, ClientEnters, CmSession
<1>6. CASE ClientGivesUp(c) \/ ClientLeaves(c)
  BY <1>1, <1>6 DEF ClientGivesUp, ClientLeaves, CmSession
<1>7. CASE ClientKilled(c)
  BY <1>1, <1>7 DEF ClientKilled, CmKilled
<1>. QED  BY <1>2, <1>3, <1>4, <1>5, <1>6, <1>7

\* Whatever a client's process does, its own session stays within the contract, and those of the
\* others are untouched (FOD-CLIENT.cpp:56-143).
LEMMA ClientKeepsContract ==
    ASSUME ContractInv, NEW c \in Clients, ClientSteps(c)
    PROVE  ContractInv' /\ \A d \in Clients : KeepsContract(d)
<1>. USE ConnAssumption DEF ContractInv, ClientSteps, InSession
<1>1. QueueInv' /\ \A d \in Clients : Connected(d)' <=> Connected(d) \/ (queue' # queue /\ d = c)
  <2>. USE DEF QueueInv, Connected
  <2>1. CASE UNCHANGED queue
    BY <2>1
  <2>2. CASE at[c] = "connect" /\ queue' = Append(queue, c)
    <3>1. serving # c /\ \A i \in DOMAIN queue : queue[i] # c
      BY <2>2 DEF SessionInv
    <3>2. /\ queue' \in Seq(Clients) /\ DOMAIN queue' = DOMAIN queue \union {Len(queue) + 1}
          /\ queue'[Len(queue) + 1] = c /\ Len(queue) + 1 \notin DOMAIN queue
          /\ \A i \in DOMAIN queue : queue'[i] = queue[i]
      BY <2>2
    <3>. QED  BY <3>1, <3>2
  <2>. QED  BY <2>1, <2>2
<1>2. \A d \in Clients : SessionInv(d)'
  BY <1>1 DEF SessionInv
<1>3. ASSUME NEW d \in Clients, d # c PROVE KeepsContract(d)
  BY <1>1, <1>3 DEF KeepsContract, SessionOf!scVars
<1>4. KeepsContract(c)
  <2>. USE DEF KeepsContract, SessionOf!SCNext, SessionOf!scVars, SessionOf!SendCredentials,
               SessionOf!ClientEnters, SessionOf!ClientLeaves
  <2>1. CASE at[c] = "connect" /\ at'[c] = "prompt" /\ queue' = Append(queue, c) /\ met' = met \union {c}
    BY <1>1, <2>1 DEF SessionInv, Connected
  <2>2. CASE UNCHANGED <<queue, met>>
    BY <2>2 DEF Connected
  <2>. QED  BY <2>1, <2>2
<1>. QED  BY <1>1, <1>2, <1>3, <1>4

\* Across the queue, terminated processes and servers started again, every client gets one session
\* at most, and gets in only in a session whose server has accepted it, for any number of clients.
THEOREM ContractCorrect == Spec => SessionsKeepContract
<1>1. Init => ContractInv
  BY ConnAssumption DEF Init, SmInit, CmInit, ContractInv, Functions, QueueInv, SessionInv, Connected, InSession
<1>2. ContractInv /\ [Next]_vars => ContractInv' /\ [\A c \in Clients : KeepsContract(c)]_vars
  <2>. SUFFICES ASSUME ContractInv, [Next]_vars
                PROVE  ContractInv' /\ [\A c \in Clients : KeepsContract(c)]_vars
    OBVIOUS
  <2>1. CASE Restart \/ ServerStep \/ ServerLeaves \/ ServerKilled
    BY <2>1, ServerProcess, ServerKeepsContract DEF ContractInv
  <2>2. CASE ServerAccepts
    BY <2>2, AcceptanceKeepsContract
  <2>3. ASSUME NEW c \in Clients,
               \/ ClientStart(c) \/ ClientStep(c) \/ ClientConnects(c) \/ SendCredentials(c)
               \/ ClientEnters(c) \/ ClientGivesUp(c) \/ ClientLeaves(c) \/ ClientKilled(c)
        PROVE  ContractInv' /\ \A d \in Clients : KeepsContract(d)
    BY <2>3, ClientProcess, ClientKeepsContract DEF ContractInv
  <2>4. CASE UNCHANGED vars
    BY <2>4 DEF vars, smVars, cmVars, sessionVars, ContractInv, Functions, QueueInv, SessionInv, Connected
  <2>. QED  BY <2>1, <2>2, <2>3, <2>4 DEF Next, Quiet
<1>3. (\A c \in Clients : KeepsContract(c)) =>
        \A c \in Clients : SessionOf(c)!SCNext \/ UNCHANGED SessionOf(c)!scVars
  BY DEF KeepsContract
<1>. QED
  BY <1>1, <1>2, <1>3, PTL DEF Spec, SessionsKeepContract

=======================================================================
