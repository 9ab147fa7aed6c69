------------------------ MODULE HeartbeatTiming -----------------------
(* The heartbeat against the server's watch, in time: the client's thread sends one each Interval,*)
(* unless the main thread has paused it (ClientSession.cpp 104-130, 303-410), and the server gives*)
(* the client up after Watch without a byte (ServerSession.cpp 119-131, 226-249).  A message is   *)
(* whole and arrives within Delay; ClientSession and ServerSession model what is in it, and the   *)
(* heartbeats that fail or fall into an exchange.                                                 *)
EXTENDS Integers

CONSTANTS
    Interval,  \* between two looks of the heartbeat thread: 60 s
    Drift,     \* bound: how much longer its sleeps may take
    Watch,     \* the server's select(): 90 s
    Delay,     \* bound: how long a message, or an exchange that the server answers, takes
    MaxForm    \* bound: the time that a user takes for a form

\* The longest that the server waits for a client whose user does nothing.
Gap == Interval + Drift + 2 * Delay

ASSUME TimingAssumption ==
    /\ Interval \in Nat \ {0} /\ Drift \in Nat /\ Watch \in Nat /\ Delay \in Nat /\ MaxForm \in Nat
    /\ Gap < Watch

VARIABLES
    slept,    \* the heartbeat thread: time since it last looked at the pause flag
    paused,   \* heartbeatPaused
    phase,    \* the main thread: at the "menu", in the "form", the report "sent", "answered"
    taken,    \* time since the form was opened, or since the answer left
    transit,  \* ages of the heartbeats under way
    quiet,    \* time the server has waited for a byte
    alive     \* the server has not given the client up

hbVars == <<slept, paused, phase, taken, transit, quiet, alive>>

TypeOK ==
    /\ slept \in 0 .. Interval + Drift /\ paused \in BOOLEAN
    /\ phase \in {"menu", "form", "sent", "answered"} /\ taken \in 0 .. MaxForm + Delay
    /\ transit \subseteq 0 .. Delay /\ quiet \in 0 .. Watch /\ alive \in BOOLEAN

\* The thread starts when the answer to the login has arrived; the server watches since it left.
Init == /\ slept = 0 /\ paused = FALSE /\ phase = "menu" /\ taken = 0 /\ transit = {}
        /\ quiet \in 0 .. Delay /\ alive = TRUE

-----------------------------------------------------------------------
\* Time passes, unless something is due.
Due == \/ slept = Interval + Drift \/ Delay \in transit \/ quiet = Watch
       \/ phase = "form" /\ taken >= MaxForm
       \/ phase = "sent" /\ taken >= MaxForm + Delay
       \/ phase = "answered" /\ taken >= Delay

Tick ==
    /\ alive /\ ~ Due
    /\ slept' = slept + 1 /\ quiet' = quiet + 1
    /\ taken' = IF phase = "menu" THEN taken ELSE taken + 1
    /\ transit' = {age + 1 : age \in transit}
    /\ UNCHANGED <<paused, phase, alive>>

\* The thread sends, or, when paused, sleeps for another interval.
Look ==
    /\ alive /\ slept >= Interval
    /\ slept' = 0
    /\ transit' = IF paused THEN transit ELSE transit \union {0}
    /\ UNCHANGED <<paused, phase, taken, quiet, alive>>

ReceiveHeartbeat ==
    /\ alive
    /\ \E age \in transit : /\ \A other \in transit : other <= age
                            /\ transit' = transit \ {age}
    /\ quiet' = 0
    /\ UNCHANGED <<slept, paused, phase, taken, alive>>

OpenForm ==
    /\ alive /\ phase = "menu"
    /\ phase' = "form" /\ paused' = TRUE /\ taken' = 0
    /\ UNCHANGED <<slept, transit, quiet, alive>>

Submit ==
    /\ alive /\ phase = "form"
    /\ phase' = "sent"
    /\ UNCHANGED <<slept, paused, taken, transit, quiet, alive>>

\* What was sent before the report arrives before it.
ReceiveReport ==
    /\ alive /\ phase = "sent" /\ transit = {}
    /\ phase' = "answered" /\ taken' = 0 /\ quiet' = 0
    /\ UNCHANGED <<slept, paused, transit, alive>>

\* MUTANT of BackToMenu: heartbeats stay paused.
BackToMenuPaused ==
    /\ alive /\ phase = "answered"
    /\ phase' = "menu" /\ taken' = 0
    /\ UNCHANGED <<slept, paused, transit, quiet, alive>>

BackToMenu ==
    /\ alive /\ phase = "answered"
    /\ phase' = "menu" /\ paused' = FALSE /\ taken' = 0
    /\ UNCHANGED <<slept, transit, quiet, alive>>

GiveUp ==
    /\ alive /\ quiet = Watch
    /\ alive' = FALSE
    /\ UNCHANGED <<slept, paused, phase, taken, transit, quiet>>

Next == \/ Tick \/ Look \/ ReceiveHeartbeat \/ OpenForm \/ Submit \/ ReceiveReport
        \/ BackToMenu \/ GiveUp

Spec == Init /\ [][Next]_hbVars

-----------------------------------------------------------------------
(* Properties. *)

\* The server's watch (ServerSession.cpp:231) ends only a session whose user has had a report form
\* open for at least Watch - Gap: never that of a user who is at the menu, whatever the phase of the
\* heartbeat thread, which loses a whole interval to a pause (ClientSession.cpp:117), in any report
\* before.
OnlySlowFormsGivenUp ==
    ~ alive => phase \in {"form", "sent"} /\ taken >= Watch - Gap

-----------------------------------------------------------------------
(* Why: the parts of an inductive invariant. *)

PauseFollowsForm == paused <=> phase # "menu"

\* At the menu the server has not waited for longer than the thread has slept and an answer takes.
MenuIsWatched ==
    phase = "menu" => IF transit = {} THEN quiet <= slept + Delay
                      ELSE \E age \in transit : quiet <= Gap - Delay + age

\* A form adds the time it is open.
FormIsWatched == phase \in {"form", "sent"} => quiet <= Gap + taken

AnswerIsWatched == phase = "answered" => transit = {} /\ quiet <= taken /\ taken <= Delay

HeartbeatInv == TypeOK /\ PauseFollowsForm /\ MenuIsWatched /\ FormIsWatched /\ AnswerIsWatched

=======================================================================
