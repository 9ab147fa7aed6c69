---------------------- MODULE ClientStateMachine ----------------------
(* The session state machine of the client (FOD-CLIENT/ClientStateMachine.cpp): a table of legal *)
(* edges, and transition(), which follows an edge of the table and otherwise stays where it is.  *)

CliState == {"DISCONNECTED", "CONNECTING", "AUTHENTICATING", "CONNECTED",
             "REPORTING", "WAITING_RESPONSE", "RECEIVING_BITMAP"}

\* MUTANT of CliEdges: no edge leads from the bitmap transfer back to the menu.
CliEdgesStuckInBitmap ==
    {<<"DISCONNECTED", "CONNECTING">>, <<"CONNECTING", "AUTHENTICATING">>,
     <<"AUTHENTICATING", "CONNECTED">>, <<"CONNECTED", "REPORTING">>,
     <<"REPORTING", "WAITING_RESPONSE">>}
      \union ({"WAITING_RESPONSE"} \X {"RECEIVING_BITMAP", "CONNECTED"})
      \union ((CliState \ {"DISCONNECTED"}) \X {"DISCONNECTED"})

\* isValidTransition: every legal edge of the client's state machine.
CliEdges ==
    {<<"DISCONNECTED", "CONNECTING">>, <<"CONNECTING", "AUTHENTICATING">>,
     <<"AUTHENTICATING", "CONNECTED">>, <<"CONNECTED", "REPORTING">>,
     <<"REPORTING", "WAITING_RESPONSE">>}
      \union ({"WAITING_RESPONSE"} \X {"RECEIVING_BITMAP", "CONNECTED"})
      \union {<<"RECEIVING_BITMAP", "CONNECTED">>}
      \union ((CliState \ {"DISCONNECTED"}) \X {"DISCONNECTED"})

\* transition(): the state after an attempt to go from one state to another.
CliTransition(from, to) == IF <<from, to>> \in CliEdges THEN to ELSE from

\* canReport(): the one state in which the client takes a report.
CanReport(state) == state = "CONNECTED"

=======================================================================
