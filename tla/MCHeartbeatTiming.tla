----------------------- MODULE MCHeartbeatTiming ----------------------
(* An instance of HeartbeatTiming for TLC, in seconds.                                             *)
EXTENDS HeartbeatTiming

MCInterval == 60
MCWatch    == 90

=======================================================================
