------------------------ MODULE SessionContract -----------------------
(* What the rest of the two programs rely on of one session, with no packets: the client gets in  *)
(* only if the server accepts it, either side may leave at any time, a client that has sent its   *)
(* credentials learns in the end what became of them, and when the client has left the session    *)
(* the server's side of it ends too, so that main() can serve somebody else.                      *)

VARIABLES
    srv,      \* the server's side: at the login, serving, out
    cli,      \* the client's side: at its prompt, waiting for the reply, in, out
    accepted  \* the server has accepted the credentials

scVars == <<srv, cli, accepted>>

SCInit == srv = "login" /\ cli = "prompt" /\ accepted = FALSE

SendCredentials == cli = "prompt" /\ cli' = "reply" /\ UNCHANGED <<srv, accepted>>

ServerAccepts == /\ srv = "login" /\ cli # "prompt"
                 /\ srv' = "serving" /\ accepted' = TRUE /\ UNCHANGED cli

ServerLeaves == srv # "out" /\ srv' = "out" /\ UNCHANGED <<cli, accepted>>

ClientEnters == cli = "reply" /\ accepted /\ cli' = "in" /\ UNCHANGED <<srv, accepted>>

ClientLeaves == cli # "out" /\ cli' = "out" /\ UNCHANGED <<srv, accepted>>

SCNext == SendCredentials \/ ServerAccepts \/ ServerLeaves \/ ClientEnters \/ ClientLeaves

\* The reply, or the receive timeout, gets the client out of its wait; nobody promises more of its
\* user.  The server's side ends after the client's.
SCFairness == /\ WF_scVars(cli = "reply" /\ (ClientEnters \/ ClientLeaves))
              /\ WF_scVars(cli = "out" /\ ServerLeaves)

SCSpec == SCInit /\ [][SCNext]_scVars /\ SCFairness

=======================================================================
