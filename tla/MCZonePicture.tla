------------------------- MODULE MCZonePicture ------------------------
(* Instances of ZonePicture for TLC: lines as a user types them, cells of three pixels, so that   *)
(* the rows of the file need padding.                                                             *)
EXTENDS ZonePicture

FirstChars  == {Letters[i] : i \in DOMAIN Letters} \union {"a", "f", "G", "1"}
SecondChars == {Digits[i] : i \in DOMAIN Digits} \union {"0", "7", "A"}

\* Every cell, letters in lower case, a letter and a digit off the grid; too short, too long.
MCZones == {<<a, b>> : a \in FirstChars, b \in SecondChars}
              \union {<< >>, <<"A">>, <<"A", "1", "2">>, <<" ", "2", "x">>}

MCChars == {Letters[i] : i \in DOMAIN Letters} \union {"a", "f", "G"} \union DOMAIN Digit
              \union {" ", "\t", "-", "+", "x", "\n"}

\* Numbers in and out of the form's range, some with three digits, which no int of this instance can
\* hold; a blank or a sign before one; an empty line, a letter, a sign alone.
MCLines == [menu |-> {<<"1">>, <<"2">>, <<"9">>, <<"x">>, << >>, <<"+", "2">>, <<"1", "0", "0">>},
            hazard |-> {<<"4">>, <<" ", "\t", "9">>, <<"x">>, << >>, <<"-", "1", "0", "1">>},
            zone |-> MCZones,
            severity |-> {<<"0">>, <<"+", "3">>, <<"-", "1">>, <<"-">>, <<"x">>, << >>,
                          <<"1", "0", "0">>},
            officer |-> {<< >>, <<" ", "2", "x">>},
            description |-> {<<"x">>, <<"1">>}]

\* A user whose only slip is at the severity.
SlipLines == [menu |-> {<<"1">>, <<"2">>}, hazard |-> {<<"4">>}, zone |-> {<<"A", "1">>},
              severity |-> {<<"0">>, <<"3">>, <<"x">>}, officer |-> {<< >>},
              description |-> {<<"x">>}]

ASSUME LinesAssumption == NothingAfterNumbers

=======================================================================
