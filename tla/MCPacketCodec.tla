------------------------- MODULE MCPacketCodec ------------------------
(* An instance of PacketCodec for TLC.                                                            *)
EXTENDS PacketCodec

Report(hazard, zone, severity, officer, text) ==
    [hazard |-> hazard, zone |-> zone, severity |-> severity, officer |-> officer, text |-> text]

\* Every field empty; bytes above 127, which a char holds as negative, and a 0 in a name; an
\* ordinary report; a text whose checksum has two bytes, read with a heartbeat in front as a shorter
\* one; a text with a 0 in it; a text long enough that its length is taken for one of the header's.
MCReports == {
    Report(0, << >>, 0, << >>, << >>),
    Report(4, <<255, 0>>, 5, <<200, 201>>, <<128, 255, 1>>),
    Report(1, <<65, 51>>, 2, <<79, 110>>, <<102, 111, 100>>),
    Report(3, <<66, 49>>, 3, <<74>>, <<87, 87, 87>>),
    Report(2, <<67>>, 1, <<75>>, <<97, 0, 98>>),
    Report(2, <<70, 54>>, 4, <<74, 111>>, [i \in 1 .. 60 |-> 32 + i])}

\* 2025-01-01.
MCClock == <<128, 133, 116, 103, 0, 0, 0, 0>>

=======================================================================
