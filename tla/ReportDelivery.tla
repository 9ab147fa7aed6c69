------------------------- MODULE ReportDelivery -----------------------
(* What the system promises the two people at its ends, with no packets, threads or connection:   *)
(* the ground crew files reports, the tower logs them in the order in which they were filed, each  *)
(* with the runway status its severity calls for, and the crew is told a status only for the       *)
(* report it has just filed, only after the tower has logged it, and at most once.  A report may   *)
(* be lost, and the crew may be told nothing, or something that names no report.                   *)
EXTENDS Integers, Sequences

CONSTANTS
    Severities,
    Status       \* the runway status each severity calls for

VARIABLES
    filed,   \* the severities of the reports filed, in order
    logged,  \* what the tower has logged: number and status
    told     \* what the crew has been told: number and status

rdVars == <<filed, logged, told>>

RDInit == filed = << >> /\ logged = << >> /\ told = << >>

\* The number of the last entry of a log.
LastId(log) == IF log = << >> THEN 0 ELSE log[Len(log)].id

Entry(r) == [id |-> r, status |-> Status[filed[r]]]

FileReport == \E s \in Severities : filed' = Append(filed, s) /\ UNCHANGED <<logged, told>>

LogReport == \E r \in (LastId(logged) + 1) .. Len(filed) :
                logged' = Append(logged, Entry(r)) /\ UNCHANGED <<filed, told>>

TellCrew == /\ filed # << >> /\ LastId(logged) = Len(filed)
            /\ \A i \in DOMAIN told : told[i].id < Len(filed)
            /\ told' = Append(told, Entry(Len(filed)))
            /\ UNCHANGED <<filed, logged>>

\* What names no report.
Noise == [id |-> 0, status |-> ""]

TellNothing == told' = Append(told, Noise) /\ UNCHANGED <<filed, logged>>

RDNext == FileReport \/ LogReport \/ TellCrew \/ TellNothing

RDSpec == RDInit /\ [][RDNext]_rdVars

=======================================================================
