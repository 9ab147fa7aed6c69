------------------------- MODULE RunwayBitmap -------------------------
(* The picture of the runway that answers a report (BitmapGenerator.cpp): a grid of cells with    *)
(* the reported zone's highlighted, as a BMP file, whose rows are stored bottom-up and padded to  *)
(* a multiple of four bytes.  A file is a function from offsets to bytes.                         *)
EXTENDS Integers, Sequences

CONSTANT CellSize   \* pixels along the side of a cell: 100

ASSUME CellAssumption == CellSize \in Nat \ {0, 1}

GridRows   == 6
GridCols   == 6
Width      == GridCols * CellSize
Height     == GridRows * CellSize
HeaderSize == 54

\* Bytes of a row: three for each pixel, and the padding.
Stride == Width * 3 + ((4 - ((Width * 3) % 4)) % 4)

\* An int.
FileSize == HeaderSize + Stride * Height

ASSUME SizeAssumption == FileSize <= 2147483647

Colors == [grid |-> <<60, 60, 60>>, hazard |-> <<40, 40, 200>>, clear |-> <<45, 120, 45>>]  \* b, g, r

\* toupper of the letters that count.
Upper(c) == CASE c = "a" -> "A" [] c = "b" -> "B" [] c = "c" -> "C"
              [] c = "d" -> "D" [] c = "e" -> "E" [] c = "f" -> "F" [] OTHER -> c

Letters == <<"A", "B", "C", "D", "E", "F">>
Digits  == <<"1", "2", "3", "4", "5", "6">>

IndexIn(s, c) == IF \E i \in DOMAIN s : s[i] = c THEN (CHOOSE i \in DOMAIN s : s[i] = c) - 1 ELSE -1

\* zoneToGrid: the first two characters count, and each is read on its own.
ZoneToGrid(z) == IF Len(z) >= 2
                 THEN [row |-> IndexIn(Letters, Upper(z[1])), col |-> IndexIn(Digits, z[2])]
                 ELSE [row |-> -1, col |-> -1]

\* MUTANT of GridRow: the file is taken to be top-down.
GridRowTopDown(line) == line \div CellSize

\* The row of the grid that a line of the file belongs to.
GridRow(line) == (Height - 1 - line) \div CellSize

\* The color of a pixel in a line of the file.
ColorAt(hazard, x, line) ==
    IF (x % CellSize) = 0 \/ (line % CellSize) = 0 THEN Colors.grid
    ELSE IF GridRow(line) = hazard.row /\ x \div CellSize = hazard.col THEN Colors.hazard
    ELSE Colors.clear

\* The integers of the file header and the DIB header: offset, bytes, value.
Headers == {<<0, 1, 66>>, <<1, 1, 77>>, <<2, 4, FileSize>>, <<10, 4, HeaderSize>>, <<14, 4, 40>>,
            <<18, 4, Width>>, <<22, 4, Height>>, <<26, 2, 1>>, <<28, 2, 24>>}

Covers(h, i) == i \in h[1] .. h[1] + h[2] - 1

\* Each little-endian, the rest zeros.
HeaderByte(i) ==
    IF \E h \in Headers : Covers(h, i)
    THEN LET h == CHOOSE h \in Headers : Covers(h, i)
         IN  (h[3] \div 256 ^ (i - h[1])) % 256
    ELSE 0

\* A byte of line y: a color of a pixel, or padding.
LineByte(hazard, y, k) == IF k < 3 * Width THEN ColorAt(hazard, k \div 3, y)[(k % 3) + 1] ELSE 0

GenerateRunwayBitmap(zone) ==
    LET hazard == ZoneToGrid(zone)
    IN  [i \in 0 .. FileSize - 1 |->
            IF i < HeaderSize THEN HeaderByte(i)
            ELSE LineByte(hazard, (i - HeaderSize) \div Stride, (i - HeaderSize) % Stride)]

-----------------------------------------------------------------------
(* What a viewer makes of a file, by the BMP format and not by the code that wrote it.            *)

Int32At(file, offset) ==
    file[offset] + 256 * (file[offset + 1] + 256 * (file[offset + 2] + 256 * file[offset + 3]))

\* The color that is seen at each pixel, counted from the left and from the top.
Seen(file) ==
    LET w == Int32At(file, 18)
        h == Int32At(file, 22)
        rowSize == ((24 * w + 31) \div 32) * 4
        At(p) == Int32At(file, 10) + (h - 1 - p[2]) * rowSize + 3 * p[1]
    IN  [p \in (0 .. w - 1) \X (0 .. h - 1) |-> <<file[At(p)], file[At(p) + 1], file[At(p) + 2]>>]

\* Where a zone of one letter and one digit lies on the runway: row and column, from the top left.
CellOf(z) == {<<r - 1, c - 1>> : r \in {i \in 1 .. GridRows : Letters[i] = Upper(z[1])},
                                 c \in {i \in 1 .. GridCols : Digits[i] = z[2]}}

=======================================================================
