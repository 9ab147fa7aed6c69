-------------------------- MODULE MCFODSystem -------------------------
(* Instances of FODSystem for TLC: the sizes that the programs give a short report, and one value *)
(* for each branch that a misread integer may take.                                               *)
EXTENDS FODSystem

MCWindow    == 65536
MCHeaderLen == 46        \* zone "A3", an officer of eight letters
MCDescLen   == 30
MCTextLen   == 64
MCBitmapLen == 1080054   \* BitmapGenerator: 54 bytes of headers and 600 x 600 pixels

\* Refused as a length; too short for a packet type; a heartbeat's type, and a length too short
\* for a header or a description; a length long enough for both and for a response.
MCMisreadInts == {-1, 3, 6, 40}
MCMisreadFew  == {-1, 40}

\* Nothing; half an integer; a bitmap up to the middle of its header, up to a length, a response of 40
\* bytes and a type before its end, and up to a length before it.
MCPartials    == {0, 2, 28, MCBitmapLen - 48, MCBitmapLen - 4}
MCPartialsFew == {0, MCBitmapLen - 48}

=======================================================================
