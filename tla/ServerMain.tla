-------------------------- MODULE ServerMain --------------------------
(* The server's main() (FOD-SERVER.cpp): the database, the operator's login, Winsock and the      *)
(* listening socket, then the accept loop.  One action per call that may fail or wait, with all   *)
(* that main() does until the next.  From the first failure on, every later part is skipped but   *)
(* the clean-up at the end.  The clients' connections are those the kernel has put in the queue.  *)
EXTENDS Integers, Sequences

CONSTANT Backlog   \* SOMAXCONN: connections the kernel queues for accept()

ASSUME BacklogAssumption == Backlog \in Nat \ {0}

VARIABLES
    pc,         \* the call main() is in, or "off": no server is running
    returnCode,
    automated,  \* FOD_AUTOMATED_TESTING is set in the server's environment
    held,       \* what main() has acquired and not released
    queue,      \* connections established and not yet accepted
    serving,    \* the connection of the session being run, if any
    srv,        \* that session's side of SessionContract
    served      \* history: sessions run to their end

smVars == <<pc, returnCode, automated, held, queue, serving, srv, served>>

NoConn == "none"

SmCalls == {"openConnection", "authenticateUser", "WSAStartup", "getaddrinfo", "socket", "bind",
            "listen", "select", "accept", "session", "cleanup"}

Resources == {"odbc", "winsock", "addrinfo", "ListenSocket", "ClientSocket"}

\* No server is running.
SmOff == pc \in {"off", "exited"}

\* Clients can connect from listen() until the socket is closed.
Listening == "ListenSocket" \in held /\ pc \notin {"bind", "listen"}

SmInit == /\ pc = "off" /\ returnCode = 0 /\ automated \in BOOLEAN /\ held = {} /\ queue = << >>
          /\ serving = NoConn /\ srv = "out" /\ served = 0

SmUnserved == UNCHANGED <<serving, srv, served>>

\* The call succeeds, and main() goes on to the next ...
Succeed(acquired, released, next) ==
    /\ held' = (held \union acquired) \ released /\ pc' = next
    /\ UNCHANGED <<returnCode, automated, queue>> /\ SmUnserved

\* ... or fails, and after what is released at once only the clean-up is left.  Closing the
\* listening socket resets the connections still queued.
Fail(released) ==
    /\ returnCode' = 1 /\ pc' = "cleanup" /\ held' = held \ released
    /\ queue' = << >> /\ UNCHANGED automated /\ SmUnserved

-----------------------------------------------------------------------
(* Up to the listening socket. *)

SmStart ==
    /\ SmOff
    /\ pc' = "openConnection" /\ returnCode' = 0 /\ served' = 0
    /\ UNCHANGED <<automated, held, queue, serving, srv>>

\* A connection that fails may leave handles allocated.
SmOpenConnection ==
    /\ pc = "openConnection"
    /\ \/ Succeed({"odbc"}, {}, "authenticateUser")
       \/ /\ returnCode' = 1 /\ pc' = "cleanup" /\ held' \in {held, held \union {"odbc"}}
          /\ UNCHANGED <<automated, queue>> /\ SmUnserved

\* The operator's login, in automated mode with the credentials of the environment.
SmAuthenticateUser ==
    /\ pc = "authenticateUser"
    /\ \/ Succeed({}, {}, "WSAStartup")
       \/ ~ automated /\ Fail({})

SmWSAStartup ==
    /\ pc = "WSAStartup"
    /\ Succeed({"winsock"}, {}, "getaddrinfo") \/ Fail({})

SmGetaddrinfo ==
    /\ pc = "getaddrinfo"
    /\ Succeed({"addrinfo"}, {}, "socket") \/ Fail({"winsock"})

SmSocket ==
    /\ pc = "socket"
    /\ Succeed({"ListenSocket"}, {}, "bind") \/ Fail({"addrinfo", "winsock"})

SmBind ==
    /\ pc = "bind"
    /\ \/ Succeed({}, {"addrinfo"}, "listen")
       \/ Fail({"addrinfo", "ListenSocket", "winsock"})

SmListen ==
    /\ pc = "listen"
    /\ Succeed({}, {}, "select") \/ Fail({"ListenSocket", "winsock"})

-----------------------------------------------------------------------
(* The accept loop.  Only automated mode survives a wait in vain or an accept() that fails, and   *)
(* only automated mode listens again after a session.                                             *)

\* MUTANT of SmSelect: the fd_set is filled once, before the loop, and select() has emptied it.
SmSelectOnce ==
    /\ pc = "select" /\ queue # << >> /\ served = 0
    /\ Succeed({}, {}, "accept")

\* The listening socket is readable, or becomes so while automated mode sleeps between two waits.
SmSelect ==
    /\ pc = "select" /\ queue # << >>
    /\ Succeed({}, {}, "accept")

\* MUTANT of SmSelectFails: leaving the loop is not counted as a failure.
SmSelectFailsSilently ==
    /\ pc = "select" /\ ~ automated
    /\ pc' = "cleanup" /\ held' = held \ {"ListenSocket", "winsock"} /\ queue' = << >>
    /\ UNCHANGED <<returnCode, automated>> /\ SmUnserved

\* No connection for 120 seconds, or an error of select().
SmSelectFails == pc = "select" /\ ~ automated /\ Fail({"ListenSocket", "winsock"})

SmAccept ==
    /\ pc = "accept" /\ queue # << >>
    /\ serving' = Head(queue) /\ queue' = Tail(queue) /\ srv' = "login"
    /\ held' = held \union {"ClientSocket"} /\ pc' = "session"
    /\ UNCHANGED <<returnCode, automated, served>>

\* The connection may be reset before it is accepted.
SmAcceptFails ==
    /\ pc = "accept"
    /\ IF automated THEN /\ pc' = "select" /\ queue' \in {queue} \union {Tail(q) : q \in {queue} \ {<< >>}}
                         /\ UNCHANGED <<returnCode, automated, held>> /\ SmUnserved
                    ELSE Fail({"ListenSocket", "winsock"})

\* MUTANT of SmSessionEnds: the loop is left in both modes.
SmSessionEndsAndLeaves ==
    /\ pc = "session" /\ srv = "out"
    /\ held' = held \ {"ClientSocket"} /\ serving' = NoConn /\ served' = served + 1
    /\ pc' = "cleanup" /\ queue' = << >>
    /\ UNCHANGED <<returnCode, automated, srv>>

\* runServerSession has returned, whatever its result.
SmSessionEnds ==
    /\ pc = "session" /\ srv = "out"
    /\ held' = held \ {"ClientSocket"} /\ serving' = NoConn /\ served' = served + 1
    /\ IF automated THEN pc' = "select" /\ UNCHANGED queue ELSE pc' = "cleanup" /\ queue' = queue
    /\ UNCHANGED <<returnCode, automated, srv>>

\* Sockets and Winsock a second time where an error path has released them: those calls fail.
SmCleanup ==
    /\ pc = "cleanup" /\ pc' = "exited"
    /\ held' = held \ {"ClientSocket", "ListenSocket", "winsock", "odbc"} /\ queue' = << >>
    /\ UNCHANGED <<returnCode, automated>> /\ SmUnserved

SmWorking == \/ SmOpenConnection \/ SmAuthenticateUser \/ SmWSAStartup \/ SmGetaddrinfo
             \/ SmSocket \/ SmBind \/ SmListen \/ SmSelect \/ SmSelectFails
             \/ SmAccept \/ SmAcceptFails \/ SmSessionEnds \/ SmCleanup

=======================================================================
