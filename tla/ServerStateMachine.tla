---------------------- MODULE ServerStateMachine ----------------------
(* The runway state machine of the server (FOD-SERVER/ServerStateMachine.cpp): a table of       *)
(* legal edges, and transition(), which follows an edge of the table and otherwise logs a        *)
(* rejection and stays where it is.  Its callers ignore the result of transition().              *)

SrvState == {"DISCONNECTED", "CONNECTED", "INSPECTION", "HAZARD", "CLEARED"}

\* MUTANT of SrvEdges: a report on a runway already in HAZARD is refused by the table.
SrvEdgesNoReinspection ==
    {<<"DISCONNECTED", "CONNECTED">>}
      \union ({"CONNECTED"}  \X {"INSPECTION", "DISCONNECTED"})
      \union ({"INSPECTION"} \X {"HAZARD", "CLEARED", "DISCONNECTED"})
      \union ({"HAZARD"}     \X {"CLEARED", "DISCONNECTED"})
      \union ({"CLEARED"}    \X {"INSPECTION", "DISCONNECTED"})

\* isValidTransition: every legal edge of the runway state machine.
SrvEdges ==
    {<<"DISCONNECTED", "CONNECTED">>}
      \union ({"CONNECTED"}  \X {"INSPECTION", "DISCONNECTED"})
      \union ({"INSPECTION"} \X {"HAZARD", "CLEARED", "DISCONNECTED"})
      \union ({"HAZARD"}     \X {"CLEARED", "INSPECTION", "DISCONNECTED"})
      \union ({"CLEARED"}    \X {"INSPECTION", "DISCONNECTED"})

\* transition(): the state after an attempt to go from one state to another.
SrvTransition(from, to) == IF <<from, to>> \in SrvEdges THEN to ELSE from

=======================================================================
