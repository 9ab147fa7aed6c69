------------------------- MODULE MCDeployment -------------------------
(* An instance of Deployment for TLC.                                                             *)
EXTENDS Deployment

\* One client in the session or at the front of the queue, and one behind it.
MCClients == {"c1", "c2"}

=======================================================================
