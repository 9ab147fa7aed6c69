-------------------------- MODULE MCDatabase --------------------------
(* Instances of Database for TLC: names and passwords with and without colons, a name in the case *)
(* of the table and in another, a hash under which different passwords collide, two users of one  *)
(* name, texts at and beyond the columns' widths.                                                 *)
EXTENDS Database

MCAlphabet == {"a", "A", ":"}

Words == {<< >>, <<"a">>, <<":">>, <<"a", ":">>}
MCCredentials == [user : Words \union {<<"A">>}, pass : Words]
MCTestLogin   == [user |-> <<"a">>, pass |-> << >>]
MCUserTable   == [name : {<<"a">>}, hash : {1, 3}] \union [name : {<<":">>}, hash : {0}]
MCHash(pass)  == Len(pass)

Folded(name) == [i \in DOMAIN name |-> IF name[i] = "A" THEN "a" ELSE name[i]]
MCMatches(name, typed) == Folded(name) = Folded(typed)

\* Texts that all fit, each text too long by one character, and a zone too long for the log as well.
Report(zone, officer, desc) == [zone |-> zone, officer |-> officer, desc |-> desc]
MCReports == {Report(100, 50, 1000), Report(101, 50, 0), Report(100, 51, 0), Report(0, 0, 1001),
              Report(236, 50, 0)}

=======================================================================
