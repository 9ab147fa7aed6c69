-------------------------- MODULE ClientMain --------------------------
(* The main() of each client process (FOD-CLIENT.cpp): Winsock, the server's addresses, the first *)
(* of them that can be connected to, one session, the clean-up.  Each client is one run of the    *)
(* program.  One action per call that may fail or wait.                                           *)
EXTENDS Integers

CONSTANTS
    Clients,
    Addresses    \* addresses that getaddrinfo gives for the server's name

ASSUME AddressesAssumption == Addresses \in Nat

VARIABLES
    at,         \* the call each client's main() is in; in runClientSession: at its prompt, waiting
                \* for the reply to its credentials, or in
    left,       \* addresses still to be tried
    exitCode,
    holds,      \* what each client has acquired and not released, but for its sockets
    sockets     \* its open sockets, each by what was left when it was opened for an address

cmVars == <<at, left, exitCode, holds, sockets>>

CmCalls == {"off", "WSAStartup", "getaddrinfo", "socket", "connect", "prompt", "reply", "in",
            "cleanup", "exited"}

\* The places where a client has a connection, and where it is in its session.
InSession == {"prompt", "reply", "in"}

CmInit == /\ at = [c \in Clients |-> "off"] /\ left = [c \in Clients |-> 0]
          /\ exitCode = [c \in Clients |-> 0]
          /\ holds = [c \in Clients |-> {}] /\ sockets = [c \in Clients |-> {}]

CmGo(c, here, next) == at[c] = here /\ at' = [at EXCEPT ![c] = next]

Acquire(c, r) == holds' = [holds EXCEPT ![c] = @ \union r]
Release(c, r) == holds' = [holds EXCEPT ![c] = @ \ r]

\* ConnectSocket is the socket opened last.
CloseConnectSocket(c) == sockets' = [sockets EXCEPT ![c] = @ \ {left[c]}]

Exit(c, code) == exitCode' = [exitCode EXCEPT ![c] = code]

NextAddress(c) == left' = [left EXCEPT ![c] = @ - 1]

-----------------------------------------------------------------------

CmStart(c) == CmGo(c, "off", "WSAStartup") /\ UNCHANGED <<left, exitCode, holds, sockets>>

\* The exit code of a failure is what WSAStartup returns, say WSASYSNOTREADY.
CmWSAStartup(c) ==
    /\ UNCHANGED <<left, sockets>>
    /\ \/ CmGo(c, "WSAStartup", "getaddrinfo") /\ Acquire(c, {"winsock"}) /\ UNCHANGED exitCode
       \/ CmGo(c, "WSAStartup", "cleanup") /\ Exit(c, 10091) /\ UNCHANGED holds

CmGetaddrinfo(c) ==
    /\ UNCHANGED sockets
    /\ \/ /\ CmGo(c, "getaddrinfo", "socket") /\ Acquire(c, {"addrinfo"})
          /\ left' = [left EXCEPT ![c] = Addresses] /\ UNCHANGED exitCode
       \/ CmGo(c, "getaddrinfo", "cleanup") /\ Exit(c, 1) /\ UNCHANGED <<left, holds>>

\* A socket for the next address; where there can be none, on to the address after it.
CmSocket(c) ==
    /\ left[c] > 0 /\ UNCHANGED <<exitCode, holds>>
    /\ \/ /\ CmGo(c, "socket", "connect") /\ sockets' = [sockets EXCEPT ![c] = @ \union {left[c]}]
          /\ UNCHANGED left
       \/ CmGo(c, "socket", "socket") /\ NextAddress(c) /\ UNCHANGED sockets

\* MUTANT of CmConnectFails: the socket is not closed before the next address is tried.
CmConnectFailsAndLeaks(c) ==
    CmGo(c, "connect", "socket") /\ NextAddress(c) /\ UNCHANGED <<exitCode, holds, sockets>>

CmConnectFails(c) ==
    /\ CmGo(c, "connect", "socket") /\ NextAddress(c) /\ CloseConnectSocket(c)
    /\ UNCHANGED <<exitCode, holds>>

CmNoServer(c) ==
    /\ left[c] = 0 /\ CmGo(c, "socket", "cleanup") /\ Exit(c, 1) /\ Release(c, {"addrinfo"})
    /\ UNCHANGED <<left, sockets>>

CmConnect(c) ==
    /\ CmGo(c, "connect", "prompt") /\ Release(c, {"addrinfo"})
    /\ UNCHANGED <<left, exitCode, sockets>>

\* Steps of runClientSession, whose result main() ignores.
CmSession(c, here, next) == CmGo(c, here, next) /\ UNCHANGED <<left, exitCode, holds, sockets>>

CmCleanup(c) ==
    /\ CmGo(c, "cleanup", "exited") /\ CloseConnectSocket(c) /\ Release(c, {"winsock"})
    /\ UNCHANGED <<left, exitCode>>

\* The process is terminated, and the system takes back what it held.
CmKilled(c) ==
    /\ at[c] \notin {"off", "exited"} /\ at' = [at EXCEPT ![c] = "exited"]
    /\ holds' = [holds EXCEPT ![c] = {}] /\ sockets' = [sockets EXCEPT ![c] = {}]
    /\ UNCHANGED <<left, exitCode>>

\* The calls that do not wait for the user.
CmWorking(c) == \/ CmWSAStartup(c) \/ CmGetaddrinfo(c) \/ CmSocket(c) \/ CmConnectFails(c)
                \/ CmNoServer(c) \/ CmCleanup(c)

=======================================================================
