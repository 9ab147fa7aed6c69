-------------------------- MODULE ZonePicture -------------------------
(* From the keyboard to the picture: the zone that the client's form takes from its user is the   *)
(* one that the server draws and that the client then saves for its crew.  On its way there it    *)
(* travels as PacketCodec says, and the file comes back as FODSystem says.                        *)
EXTENDS ClientInput, RunwayBitmap

\* The picture of a zone is a file as long as it says, with exactly these cells in red, each of their
\* pixels but for the grid's lines.
Shows(zone, cells) ==
    LET file      == GenerateRunwayBitmap(zone)
        seen      == Seen(file)
        CellAt(p) == <<p[2] \div CellSize, p[1] \div CellSize>>
        red       == {p \in DOMAIN seen : seen[p] = Colors.hazard}
    IN  /\ Int32At(file, 2) = FileSize /\ DOMAIN file = 0 .. FileSize - 1
        /\ {CellAt(p) : p \in red} = cells
        /\ \A p \in DOMAIN seen : CellAt(p) \in cells => seen[p] \in {Colors.hazard, Colors.grid}

\* In the file that the crew gets back exactly the zone it typed is red, and nothing is where what it
\* typed has no letter and digit of the grid (UnitTests.cpp:119).  No document says what a longer name
\* stands for.
TypedZoneIsSeen ==
    LET z == typed["zone"] IN
    place = "sent" /\ Len(z) <= 2 => Shows(fields.zone, IF Len(z) = 2 THEN CellOf(z) ELSE {})

=======================================================================
