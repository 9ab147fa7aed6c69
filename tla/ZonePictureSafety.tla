----------------------- MODULE ZonePictureSafety ----------------------
(* Proofs of safety properties of ZonePicture: what the form takes is what was typed, for any     *)
(* lines, and the picture shows the zone that was typed, for any size of the cells.               *)
EXTENDS ZonePicture, WellFoundedInduction, TLAPS

-----------------------------------------------------------------------
(* The invariant. *)

Strings == Seq(Chars)

InputTypes ==
    /\ place \in Prompts \union {"sent", "left"} /\ failed \in BOOLEAN
    /\ typed \in [Prompts -> Strings] /\ DOMAIN fields = Prompts \ {"menu"}

FormPrompts == Prompts \ {"menu"}

\* The prompts of the form that the program has gone past.
Passed == CASE place = "hazard"      -> {}
            [] place = "zone"        -> {"hazard"}
            [] place = "severity"    -> {"hazard", "zone"}
            [] place = "officer"     -> {"hazard", "zone", "severity"}
            [] place = "description" -> FormPrompts \ {"description"}
            [] OTHER                 -> FormPrompts

\* A field that has been read, or passed over, is what was typed at its prompt.
Faithful(p) ==
    IF p \in Numbers THEN fields[p] = InForm(p, Says(typed[p]))
    ELSE \/ fields[p] = typed[p]
         \/ failed /\ typed[p] = NoLine /\ fields[p] = << >>

\* A field that is still to be read is as it began, and its prompt has not been answered, unless it
\* is the one that waits.
Untouched(p) == fields[p] = NoFields[p] /\ ((p = place /\ ~ failed) \/ typed[p] = NoLine)

FormInv == place \in FormPrompts \union {"sent"} =>
              \A p \in FormPrompts : IF p \in Passed THEN Faithful(p) ELSE Untouched(p)

\* Nothing to read is left over from one prompt to the next, unless it is blank before a number.
NothingLeft == /\ IF place \in Numbers THEN Blanks(input) ELSE input = << >>
               /\ place # "menu" => typed[place] = NoLine

\* The line typed at this prompt, all of it, is what there is to read.
OneLine == \E line \in Lines[place] :
              /\ input = Append(line, "\n") /\ typed[place] = line
              /\ place \in Numbers => ~ Blanks(line)

InputInv == /\ place \in Prompts /\ ~ failed => NothingLeft \/ OneLine
            /\ place = "sent" /\ ~ failed => input = << >>

FieldsInv == InputTypes /\ FormInv /\ InputInv

-----------------------------------------------------------------------
(* Reading a number and a line. *)

\* A set of natural numbers that is not empty has a smallest one.
LEMMA Smallest ==
  ASSUME NEW S \in SUBSET Nat, S # {}
  PROVE  \E k \in S : \A j \in S : k <= j
<1> DEFINE R == OpToRel(<, Nat)
<1>1. \A j, k \in Nat : <<j, k>> \in R <=> j < k
  BY SMT DEF OpToRel
<1>2. IsWellFoundedOn(R, Nat)
  BY NatLessThanWellFounded
<1> HIDE DEF R
<1>3. PICK k \in S : \A j \in S : <<j, k>> \notin R
  BY <1>2, WFMin
<1>4. ASSUME NEW j \in S PROVE k <= j
  <2>1. <<j, k>> \notin R /\ j \in Nat /\ k \in Nat
    BY <1>3
  <2>2. ~ (j < k)
    BY <2>1, <1>1
  <2> QED BY <2>1, <2>2
<1> QED BY <1>4

\* The place that is skipped to is the only one that ends the characters to skip.
LEMMA SkipFromIs ==
  ASSUME NEW s \in Strings, NEW i \in 1 .. Len(s) + 1, NEW cs, NEW k \in i .. Len(s) + 1,
         k > Len(s) \/ s[k] \notin cs,
         \A j \in i .. k - 1 : s[j] \in cs
  PROVE  SkipFrom(s, i, cs) = k
<1> DEFINE Ends(n) == /\ n > Len(s) \/ s[n] \notin cs
                      /\ \A j \in i .. n - 1 : s[j] \in cs
<1>1. Len(s) \in Nat
  BY DEF Strings
<1>2. Ends(k)
  OBVIOUS
<1>3. ASSUME NEW n \in i .. Len(s) + 1, Ends(n) PROVE n = k
  <2>1. ~ (n < k)
    BY <1>1, <1>3
  <2>2. ~ (k < n)
    BY <1>1, <1>3
  <2> QED BY <1>1, <2>1, <2>2
<1>4. SkipFrom(s, i, cs) = CHOOSE n \in i .. Len(s) + 1 : Ends(n)
  BY DEF SkipFrom
<1> HIDE DEF Ends
<1> QED BY <1>2, <1>3, <1>4

\* There is such a place: the end of s at the latest.
LEMMA SkipFromEnds ==
  ASSUME NEW s \in Strings, NEW i \in 1 .. Len(s) + 1, NEW cs
  PROVE  /\ SkipFrom(s, i, cs) \in i .. Len(s) + 1
         /\ SkipFrom(s, i, cs) > Len(s) \/ s[SkipFrom(s, i, cs)] \notin cs
         /\ \A j \in i .. SkipFrom(s, i, cs) - 1 : s[j] \in cs
<1> DEFINE S == {n \in i .. Len(s) + 1 : n > Len(s) \/ s[n] \notin cs}
<1>1. Len(s) \in Nat
  BY DEF Strings
<1>2. S \in SUBSET Nat /\ Len(s) + 1 \in S
  BY <1>1
<1>3. PICK k \in S : \A j \in S : k <= j
  <2> HIDE DEF S
  <2> QED BY <1>2, Smallest
<1>4. \A j \in i .. k - 1 : s[j] \in cs
  BY <1>1, <1>3
<1>5. k \in i .. Len(s) + 1 /\ (k > Len(s) \/ s[k] \notin cs)
  BY <1>3
<1> HIDE DEF S
<1> QED BY <1>4, <1>5, SkipFromIs

\* A numeral of no digits is 0.
LEMMA NoDigits ==
  ASSUME NEW s, NEW n \in Nat
  PROVE  Numeral(s, n, n) = 0
<1> DEFINE Eq(v) == v = [i \in n - 1 .. n - 1 |-> IF i < n THEN 0 ELSE 10 * v[i - 1] + Digit[s[i]]]
<1>1. Eq([i \in n - 1 .. n - 1 |-> 0])
  BY SMT
<1>2. Eq(CHOOSE v : Eq(v))
  <2> HIDE DEF Eq
  <2> QED BY <1>1, Zenon
<1>3. (CHOOSE v : Eq(v))[n - 1] = 0
  BY <1>2, SMT
<1>4. Numeral(s, n, n) = (CHOOSE v : Eq(v))[n - 1]
  BY Zenon DEF Numeral
<1> QED BY <1>3, <1>4

\* A numeral depends on its digits only.
LEMMA SameDigits ==
  ASSUME NEW s, NEW t, NEW f \in Nat, NEW e \in Nat, \A i \in f .. e - 1 : s[i] = t[i]
  PROVE  Numeral(s, f, e) = Numeral(t, f, e)
<1> DEFINE Body(v, u) == [i \in f - 1 .. e - 1 |-> IF i < f THEN 0 ELSE 10 * v[i - 1] + Digit[u[i]]]
<1>1. \A v : Body(v, s) = Body(v, t)
  BY SMT
<1>2. Numeral(s, f, e) = (CHOOSE v : v = Body(v, s))[e - 1]
  BY Zenon DEF Numeral
<1>3. Numeral(t, f, e) = (CHOOSE v : v = Body(v, t))[e - 1]
  BY Zenon DEF Numeral
<1> HIDE DEF Body
<1>4. (CHOOSE v : v = Body(v, s)) = CHOOSE v : v = Body(v, t)
  BY <1>1, Zenon
<1> QED BY <1>2, <1>3, <1>4

Line == Seq(Chars \ {"\n"})

\* A line and its end, character by character.
LEMMA WithEnd ==
  ASSUME NEW line \in Line
  PROVE  /\ line \in Strings /\ Append(line, "\n") \in Strings /\ Len(line) \in Nat
         /\ Len(Append(line, "\n")) = Len(line) + 1
         /\ \A i \in 1 .. Len(line) : Append(line, "\n")[i] = line[i] /\ line[i] # "\n"
         /\ Append(line, "\n")[Len(line) + 1] = "\n"
<1>1. line \in Strings /\ Len(line) \in Nat /\ \A i \in 1 .. Len(line) : line[i] # "\n"
  BY DEF Line, Strings
<1>2. Append(line, "\n") \in Strings
  BY <1>1, InputAssumption DEF Strings
<1>3. Len(Append(line, "\n")) = Len(line) + 1 /\ Append(line, "\n")[Len(line) + 1] = "\n"
  BY <1>1 DEF Strings
<1>4. \A i \in 1 .. Len(line) : Append(line, "\n")[i] = line[i]
  BY <1>1 DEF Strings
<1> QED BY <1>1, <1>2, <1>3, <1>4

\* The line's end is a blank too.
LEMMA BlankWithEnd ==
  ASSUME NEW line \in Line
  PROVE  Blanks(Append(line, "\n")) <=> Blanks(line)
<1> DEFINE s == Append(line, "\n")
<1>1. DOMAIN line = 1 .. Len(line) /\ DOMAIN s = 1 .. Len(line) + 1 /\ Len(line) \in Nat
  BY DEF Line
<1>2. \A i \in 1 .. Len(line) : s[i] = line[i]
  BY WithEnd
<1>3. s[Len(line) + 1] \in Blank
  BY WithEnd DEF Blank
<1> HIDE DEF s
<1>4. Blanks(s) => Blanks(line)
  BY <1>1, <1>2 DEF Blanks
<1>5. Blanks(line) => Blanks(s)
  <2> SUFFICES ASSUME Blanks(line), NEW i \in 1 .. Len(line) + 1 PROVE s[i] \in Blank
    BY <1>1 DEF Blanks
  <2>1. CASE i = Len(line) + 1
    BY <1>3, <2>1
  <2>2. CASE i \in 1 .. Len(line)
    BY <1>1, <1>2, <2>2 DEF Blanks
  <2> QED BY <1>1, <2>1, <2>2
<1> QED BY <1>4, <1>5 DEF s

\* getline() takes the line, and nothing more.
LEMMA GetsTheLine ==
  ASSUME NEW line \in Line
  PROVE  FirstLine(Append(line, "\n")) = line /\ AfterLine(Append(line, "\n")) = << >>
<1> DEFINE s == Append(line, "\n")
           Ends(i) == s[i] = "\n" /\ \A j \in 1 .. i - 1 : s[j] # "\n"
<1>1. DOMAIN s = 1 .. Len(line) + 1 /\ Len(line) \in Nat
  BY DEF Line
<1>2. Ends(Len(line) + 1)
  BY WithEnd
<1>3. ASSUME NEW i \in DOMAIN s, Ends(i) PROVE i = Len(line) + 1
  BY <1>1, <1>3, WithEnd
<1>4. LineEnd(s) = CHOOSE i \in DOMAIN s : Ends(i)
  BY DEF LineEnd
<1>5. LineEnd(s) = Len(line) + 1
  <2> HIDE DEF Ends, s
  <2> QED BY <1>1, <1>2, <1>3, <1>4
<1>6. SubSeq(s, 1, Len(line)) = line
  BY DEF Line
<1>7. SubSeq(s, Len(line) + 2, Len(s)) = << >>
  BY WithEnd
<1> QED BY <1>1, <1>5, <1>6, <1>7 DEF FirstLine, AfterLine

\* The number that a line says is the one that >> reads from it.
LEMMA ReadsWhatItSays ==
  ASSUME NEW line \in Line, ~ Blanks(line)
  PROVE  ReadInt(Append(line, "\n")).value = Says(line)
<1> DEFINE s == Append(line, "\n")
           D == DOMAIN Digit
           start == SkipFrom(line, 1, Blank)
           signed == start <= Len(line) /\ line[start] \in {"-", "+"}
           first == IF signed THEN start + 1 ELSE start
           end == SkipFrom(line, first, D)
<1>1. "\n" \notin D
  BY DEF Digit
<1>2. /\ start \in 1 .. Len(line) + 1
      /\ start > Len(line) \/ line[start] \notin Blank
      /\ \A j \in 1 .. start - 1 : line[j] \in Blank
  BY WithEnd, SkipFromEnds
<1>3. start \in 1 .. Len(line)
  BY <1>2, WithEnd DEF Blanks, Line
<1>4. SkipFrom(s, 1, Blank) = start
  <2> HIDE DEF start
  <2>1. s[start] \notin Blank /\ \A j \in 1 .. start - 1 : s[j] \in Blank
    BY <1>2, <1>3, WithEnd
  <2>2. s \in Strings /\ 1 \in 1 .. Len(s) + 1 /\ start \in 1 .. Len(s) + 1
    BY <1>3, WithEnd
  <2> HIDE DEF s
  <2> QED BY <2>1, <2>2, SkipFromIs
<1>5. first \in 1 .. Len(line) + 1
  <2> HIDE DEF start
  <2> QED BY <1>3
<1>6. /\ end \in first .. Len(line) + 1
      /\ end > Len(line) \/ line[end] \notin D
      /\ \A j \in first .. end - 1 : line[j] \in D
  <2> HIDE DEF first, D
  <2> QED BY <1>5, WithEnd, SkipFromEnds
<1>7. SkipFrom(s, first, D) = end
  <2> HIDE DEF first, end, D
  <2>1. s[end] \notin D /\ \A j \in first .. end - 1 : s[j] \in D
    BY <1>1, <1>5, <1>6, WithEnd
  <2>2. s \in Strings /\ first \in 1 .. Len(s) + 1 /\ end \in first .. Len(s) + 1
    BY <1>5, <1>6, WithEnd
  <2> HIDE DEF s
  <2> QED BY <2>1, <2>2, SkipFromIs
<1>8. s[start] = line[start] /\ start <= Len(s) /\ start <= Len(line)
  <2> HIDE DEF start
  <2> QED BY <1>3, WithEnd
<1>9. Numeral(s, first, end) = Numeral(line, first, end)
  <2> HIDE DEF first, end
  <2>1. \A i \in first .. end - 1 : s[i] = line[i]
    BY <1>5, <1>6, WithEnd
  <2>2. first \in Nat /\ end \in Nat
    BY <1>5, <1>6, WithEnd
  <2> HIDE DEF s
  <2> QED BY <2>1, <2>2, SameDigits
<1> DEFINE number == IF signed /\ line[start] = "-" THEN - Numeral(line, first, end)
                     ELSE Numeral(line, first, end)
<1>10. ReadInt(s).value = Nearest(number)
  BY <1>4, <1>7, <1>8, <1>9 DEF ReadInt
<1>11. Says(line) = Nearest(number)
  BY DEF ReadInt, Says
<1> QED BY <1>10, <1>11

\* What has not been answered says 0.
LEMMA SaysNothing == Says(NoLine) = 0
<1> DEFINE D == DOMAIN Digit
           s == NoLine
<1>1. s \in Strings /\ Len(s) = 1 /\ s[1] \in Blank
  BY InputAssumption DEF Strings, NoLine, Blank
<1> HIDE DEF s, D
<1>2. SkipFrom(s, 1, Blank) = 2
  <2>1. 2 \in 1 .. Len(s) + 1 /\ 1 \in 1 .. Len(s) + 1 /\ 2 > Len(s)
    BY <1>1
  <2>2. \A j \in 1 .. 2 - 1 : s[j] \in Blank
    BY <1>1
  <2> QED BY <1>1, <2>1, <2>2, SkipFromIs
<1>3. SkipFrom(s, 2, D) = 2
  <2>1. 2 \in 2 .. Len(s) + 1 /\ 2 \in 1 .. Len(s) + 1 /\ 2 > Len(s)
    BY <1>1
  <2>2. \A j \in 2 .. 2 - 1 : s[j] \in D
    OBVIOUS
  <2> QED BY <1>1, <2>1, <2>2, SkipFromIs
<1>4. ReadInt(s).value = Nearest(Numeral(s, 2, 2))
  BY <1>1, <1>2, <1>3 DEF ReadInt, D
<1>5. Numeral(s, 2, 2) = 0
  BY NoDigits
<1>6. Nearest(0) = 0
  BY InputAssumption DEF Nearest
<1> QED BY <1>4, <1>5, <1>6 DEF Says, s

-----------------------------------------------------------------------
(* The form. *)

\* Going from one prompt to the next, the program goes past the first.
LEMMA GoesPast ==
  ASSUME NEW p, NEW n, <<p, n>> \in Form, place = p, place' = n
  PROVE  /\ p \in FormPrompts /\ n \in FormPrompts \union {"sent"}
         /\ Passed' = Passed \union {p} /\ p \notin Passed /\ n \notin Passed'
<1>1. CASE p = "hazard" /\ n = "zone"
  BY <1>1 DEF Passed, FormPrompts, Prompts, Numbers, Texts
<1>2. CASE p = "zone" /\ n = "severity"
  BY <1>2 DEF Passed, FormPrompts, Prompts, Numbers, Texts
<1>3. CASE p = "severity" /\ n = "officer"
  BY <1>3 DEF Passed, FormPrompts, Prompts, Numbers, Texts
<1>4. CASE p = "officer" /\ n = "description"
  BY <1>4 DEF Passed, FormPrompts, Prompts, Numbers, Texts
<1>5. CASE p = "description" /\ n = "sent"
  BY <1>5 DEF Passed, FormPrompts, Prompts, Numbers, Texts
<1> QED BY <1>1, <1>2, <1>3, <1>4, <1>5 DEF Form

\* The prompt that the program is at has not been passed, and the ones after it are untouched.
LEMMA AtPrompt ==
  ASSUME FieldsInv, place \in FormPrompts
  PROVE  /\ place \notin Passed
         /\ \A q \in FormPrompts \ Passed : Untouched(q)
         /\ \A q \in Passed : q \in FormPrompts /\ Faithful(q)
<1>1. Passed \subseteq FormPrompts
  BY DEF Passed, FormPrompts, Prompts, Numbers, Texts
<1>2. place \notin Passed
  BY DEF Passed, FormPrompts, Prompts, Numbers, Texts
<1> QED BY <1>1, <1>2 DEF FieldsInv, FormInv

\* What a step from a prompt to the next has to do to keep the invariant: fill the field faithfully,
\* leave the other fields and what was typed as they are, and leave nothing to read.
LEMMA FormStep ==
  ASSUME FieldsInv, NEW p, NEW n, <<p, n>> \in Form, place = p, place' = n,
         failed' \in BOOLEAN, failed => failed', typed' = typed,
         DOMAIN fields' = DOMAIN fields, \A q \in FormPrompts \ {p} : fields'[q] = fields[q],
         Faithful(p)', failed' \/ input' = << >>
  PROVE  FieldsInv'
<1>1. /\ p \in FormPrompts /\ n \in FormPrompts \union {"sent"}
      /\ Passed' = Passed \union {p} /\ p \notin Passed /\ n \notin Passed'
  BY GoesPast
<1>2. /\ \A q \in FormPrompts \ Passed : Untouched(q)
      /\ \A q \in Passed : q \in FormPrompts /\ Faithful(q)
  BY <1>1, AtPrompt
<1>3. InputTypes'
  BY <1>1 DEF FieldsInv, InputTypes, FormPrompts
<1>4. ASSUME NEW q \in FormPrompts PROVE IF q \in Passed' THEN Faithful(q)' ELSE Untouched(q)'
  <2>1. CASE q \in Passed
    <3>1. Faithful(q) /\ q # p
      BY <1>1, <1>2, <2>1
    <3>2. Faithful(q)'
      BY <3>1 DEF Faithful
    <3> QED BY <1>1, <2>1, <3>2
  <2>2. CASE q = p
    BY <1>1, <2>2
  <2>3. CASE q \notin Passed /\ q # p
    <3>1. Untouched(q) /\ typed[q] = NoLine
      BY <1>2, <2>3 DEF Untouched
    <3>2. Untouched(q)'
      BY <2>3, <3>1 DEF Untouched
    <3> QED BY <1>1, <2>3, <3>2
  <2> QED BY <2>1, <2>2, <2>3
<1>5. FormInv'
  BY <1>4 DEF FormInv
<1>6. InputInv'
  <2>1. CASE n \in FormPrompts /\ ~ failed'
    <3>1. typed'[n] = NoLine
      BY <1>1, <1>2, <2>1 DEF Untouched
    <3>2. Blanks(<< >>)
      BY DEF Blanks
    <3>3. NothingLeft'
      BY <2>1, <3>1, <3>2 DEF NothingLeft
    <3> QED BY <2>1, <3>3 DEF InputInv, FormPrompts
  <2>2. CASE n = "sent" \/ failed'
    BY <1>1, <2>2 DEF InputInv, Prompts, Numbers, Texts
  <2> QED BY <1>1, <2>1, <2>2
<1> QED BY <1>3, <1>5, <1>6 DEF FieldsInv

\* Where the program does not wait, there is one line to read.
LEMMA ThereIsALine ==
  ASSUME FieldsInv, place \in Prompts, ~ failed, ~ Waits
  PROVE  \E line \in Line : /\ line \in Lines[place] /\ input = Append(line, "\n")
                            /\ typed[place] = line /\ (place \in Numbers => ~ Blanks(line))
<1>1. OneLine
  BY DEF FieldsInv, InputInv, NothingLeft, Waits
<1>2. Lines[place] \subseteq Line
  BY InputAssumption DEF Line
<1> QED BY <1>1, <1>2 DEF OneLine

\* ignore() drops the line's end.
LEMMA IgnoresTheEnd == Ignored(<<"\n">>) = << >>
  BY DEF Ignored

\* Where the program waits, nothing is left to read.
LEMMA WaitsForALine ==
  ASSUME FieldsInv, Waits
  PROVE  NothingLeft
<1>1. ASSUME OneLine PROVE FALSE
  <2>1. PICK line \in Lines[place] : /\ input = Append(line, "\n")
                                     /\ place \in Numbers => ~ Blanks(line)
    BY <1>1 DEF OneLine
  <2>2. line \in Line
    BY InputAssumption DEF Waits, Line
  <2>3. input # << >>
    BY <2>1, <2>2, WithEnd
  <2> QED BY <2>1, <2>2, <2>3, BlankWithEnd DEF Waits
<1> QED BY <1>1 DEF FieldsInv, InputInv, Waits

\* A number of the form keeps the invariant (ClientSession.cpp:314-316, 323-326).
LEMMA ReadNumberKeeps ==
  ASSUME NothingAfterNumbers, FieldsInv, NEW p, NEW n, <<p, n>> \in Form, p \in Numbers,
         ReadNumber(p, n)
  PROVE  FieldsInv'
<1>1. place = p /\ place' = n /\ ~ failed /\ ~ Waits /\ typed' = typed
  BY DEF ReadNumber
<1>2. PICK line \in Line : /\ line \in Lines[place] /\ input = Append(line, "\n")
                           /\ typed[place] = line /\ (place \in Numbers => ~ Blanks(line))
  BY <1>1, ThereIsALine DEF Prompts
<1> DEFINE r == ReadInt(input)
<1>3. r.value = Says(line)
  BY <1>1, <1>2, ReadsWhatItSays
<1>4. r.ok => r.rest = <<"\n">>
  BY <1>1, <1>2 DEF NothingAfterNumbers
<1>5. p \in {"hazard", "severity"}
  BY DEF Form, Numbers
<1>7. /\ failed' = ~ r.ok /\ input' = IF r.ok THEN Ignored(r.rest) ELSE r.rest
      /\ fields' = [fields EXCEPT ![p] = InForm(p, r.value)]
  BY DEF ReadNumber
<1> HIDE DEF r
<1>8. failed' \/ input' = << >>
  <2>1. CASE r.ok
    BY <1>4, <1>7, <2>1, IgnoresTheEnd
  <2>2. CASE ~ r.ok
    BY <1>7, <2>2
  <2> QED BY <2>1, <2>2
<1>9. p \in DOMAIN fields
  BY <1>5 DEF FieldsInv, InputTypes, Prompts, Numbers
<1>10. fields'[p] = InForm(p, Says(line))
  BY <1>3, <1>7, <1>9
<1>11. Faithful(p)'
  BY <1>1, <1>2, <1>10 DEF Faithful
<1>12. DOMAIN fields' = DOMAIN fields /\ \A q \in FormPrompts \ {p} : fields'[q] = fields[q]
  BY <1>7 DEF FieldsInv, InputTypes, FormPrompts
<1>13. failed' \in BOOLEAN /\ (failed => failed')
  BY <1>1, <1>7
<1> QED BY <1>1, <1>8, <1>11, <1>12, <1>13, FormStep

\* A text of the form keeps the invariant (ClientSession.cpp:321, 329, 332).
LEMMA ReadTextKeeps ==
  ASSUME FieldsInv, NEW p, NEW n, <<p, n>> \in Form, p \in Texts, ReadText(p, n)
  PROVE  FieldsInv'
<1>1. /\ place = p /\ place' = n /\ ~ failed /\ ~ Waits /\ failed' = failed /\ typed' = typed
      /\ fields' = [fields EXCEPT ![p] = FirstLine(input)] /\ input' = AfterLine(input)
  BY DEF ReadText
<1>2. PICK line \in Line : /\ line \in Lines[place] /\ input = Append(line, "\n")
                           /\ typed[place] = line /\ (place \in Numbers => ~ Blanks(line))
  BY <1>1, ThereIsALine DEF Prompts
<1>3. FirstLine(input) = line /\ AfterLine(input) = << >>
  BY <1>2, GetsTheLine
<1>4. p \in DOMAIN fields /\ p \notin Numbers
  BY DEF FieldsInv, InputTypes, Prompts, Numbers, Texts
<1>5. fields'[p] = line
  BY <1>1, <1>3, <1>4
<1>6. Faithful(p)'
  BY <1>1, <1>2, <1>4, <1>5 DEF Faithful
<1>7. DOMAIN fields' = DOMAIN fields /\ \A q \in FormPrompts \ {p} : fields'[q] = fields[q]
  BY <1>1 DEF FieldsInv, InputTypes, FormPrompts
<1>8. failed' \in BOOLEAN /\ (failed => failed')
  BY <1>1 DEF FieldsInv, InputTypes
<1> QED BY <1>1, <1>3, <1>6, <1>7, <1>8, FormStep

\* A prompt that is passed over keeps the invariant: nothing was typed there, and the field is 0 or
\* empty.
LEMMA PassOverKeeps ==
  ASSUME FieldsInv, NEW p, NEW n, <<p, n>> \in Form, PassOver(p, n)
  PROVE  FieldsInv'
<1>1. /\ place = p /\ place' = n /\ failed /\ failed' = failed /\ typed' = typed
      /\ fields' = fields
  BY DEF PassOver
<1>2. p \in FormPrompts /\ Untouched(p)
  BY <1>1, GoesPast, AtPrompt
<1>3. fields[p] = NoFields[p] /\ typed[p] = NoLine
  BY <1>1, <1>2 DEF Untouched
<1>4. Faithful(p)'
  <2>1. CASE p \in {"hazard", "severity"}
    <3>1. InForm(p, 0) = 0 /\ NoFields[p] = 0
      BY <2>1 DEF InForm, NoFields
    <3> QED BY <1>1, <1>3, <2>1, <3>1, SaysNothing DEF Faithful, Numbers
  <2>2. CASE p \in {"zone", "officer", "description"}
    BY <1>1, <1>3, <2>2 DEF Faithful, Numbers, NoFields
  <2> QED BY <1>2, <2>1, <2>2 DEF FormPrompts, Prompts, Numbers, Texts
<1>5. failed' \in BOOLEAN /\ (failed => failed')
  BY <1>1 DEF FieldsInv, InputTypes
<1> QED BY <1>1, <1>4, <1>5, FormStep

\* The answer at the menu keeps the invariant (ClientSession.cpp:293-313).
LEMMA ReadChoiceKeeps ==
  ASSUME NothingAfterNumbers, FieldsInv, ReadChoice
  PROVE  FieldsInv'
<1>1. place = "menu" /\ ~ failed /\ ~ Waits
  BY DEF ReadChoice
<1>2. PICK line \in Line : /\ line \in Lines[place] /\ input = Append(line, "\n")
                           /\ typed[place] = line /\ (place \in Numbers => ~ Blanks(line))
  BY <1>1, ThereIsALine DEF Prompts, Numbers
<1> DEFINE r == ReadInt(input)
<1>3. r.ok => r.rest = <<"\n">>
  BY <1>1, <1>2 DEF NothingAfterNumbers, Numbers
<1>4. failed' = ~ r.ok
  BY DEF ReadChoice
<1>5. \/ /\ r.ok /\ place' = "hazard" /\ input' = Ignored(r.rest) /\ fields' = NoFields
         /\ typed' = [p \in Prompts |-> IF p = "menu" THEN typed[p] ELSE NoLine]
      \/ r.ok /\ place' = "left" /\ fields' = fields /\ typed' = typed
      \/ input' = r.rest /\ place' = "menu" /\ fields' = fields /\ typed' = typed
  BY <1>1 DEF ReadChoice
<1> HIDE DEF r
<1>6. NoLine \in Strings
  BY InputAssumption DEF NoLine, Strings
<1>7. CASE /\ r.ok /\ place' = "hazard" /\ input' = Ignored(r.rest) /\ fields' = NoFields
           /\ typed' = [p \in Prompts |-> IF p = "menu" THEN typed[p] ELSE NoLine]
  <2>1. input' = << >>
    BY <1>3, <1>7, IgnoresTheEnd
  <2>2. \A p \in FormPrompts : typed'[p] = NoLine
    BY <1>7 DEF FormPrompts
  <2>3. DOMAIN fields' = FormPrompts
    BY <1>7 DEF NoFields, FormPrompts, Prompts, Numbers, Texts
  <2>4. InputTypes'
    BY <1>4, <1>6, <1>7, <2>3 DEF FieldsInv, InputTypes, Prompts, Numbers, FormPrompts
  <2>5. Passed' = {}
    BY <1>7 DEF Passed
  <2>6. FormInv'
    BY <1>7, <2>2, <2>5 DEF FormInv, Untouched
  <2>7. Blanks(input')
    BY <2>1 DEF Blanks
  <2>8. NothingLeft'
    BY <1>7, <2>2, <2>7 DEF NothingLeft, FormPrompts, Prompts, Numbers
  <2> QED BY <1>7, <2>4, <2>6, <2>8 DEF FieldsInv, InputInv
<1>8. CASE r.ok /\ place' = "left" /\ fields' = fields /\ typed' = typed
  <2>1. InputTypes'
    BY <1>4, <1>8 DEF FieldsInv, InputTypes
  <2> QED BY <1>8, <2>1 DEF FieldsInv, FormInv, InputInv, FormPrompts, Prompts, Numbers, Texts
<1>9. CASE input' = r.rest /\ place' = "menu" /\ fields' = fields /\ typed' = typed
  <2>1. InputTypes'
    BY <1>4, <1>9 DEF FieldsInv, InputTypes, Prompts, Numbers
  <2>2. FormInv'
    BY <1>9 DEF FormInv, FormPrompts
  <2>3. Blanks(<<"\n">>)
    <3>1. \A i \in DOMAIN NoLine : NoLine[i] = "\n"
      BY DEF NoLine
    <3> QED BY <3>1 DEF Blanks, Blank, NoLine
  <2>4. ~ failed' => NothingLeft'
    BY <1>3, <1>4, <1>9, <2>3 DEF NothingLeft, Numbers
  <2> QED BY <1>9, <2>1, <2>2, <2>4 DEF FieldsInv, InputInv
<1> QED BY <1>5, <1>7, <1>8, <1>9

\* A line typed keeps the invariant: it is all that there is to read, and the answer to the prompt
\* that the program is at.
LEMMA TypeKeeps ==
  ASSUME FieldsInv, Type
  PROVE  FieldsInv'
<1>1. /\ place \in Prompts /\ ~ failed /\ NothingLeft
      /\ place' = place /\ failed' = failed /\ fields' = fields
  BY WaitsForALine DEF Type, Waits
<1>2. PICK line \in Lines[place] :
         /\ input' = Append(line, "\n")
         /\ typed' = IF place \in Numbers /\ Blanks(line) THEN typed ELSE [typed EXCEPT ![place] = line]
  BY DEF Type
<1>3. line \in Line
  BY <1>1, InputAssumption DEF Line
<1>4. InputTypes'
  BY <1>1, <1>2, <1>3, WithEnd DEF FieldsInv, InputTypes
<1>5. \A q \in Prompts \ {place} : typed'[q] = typed[q]
  BY <1>1, <1>2 DEF FieldsInv, InputTypes
<1>6. FormInv'
  <2> SUFFICES ASSUME place \in FormPrompts, NEW q \in FormPrompts
               PROVE  IF q \in Passed' THEN Faithful(q)' ELSE Untouched(q)'
    BY <1>1 DEF FormInv, FormPrompts, Prompts, Numbers, Texts
  <2>1. Passed' = Passed
    BY <1>1 DEF Passed
  <2>2. CASE q \in Passed
    <3>1. Faithful(q) /\ q # place /\ q \in Prompts
      BY <2>2, AtPrompt DEF FormPrompts
    <3>2. Faithful(q)'
      BY <1>1, <1>5, <3>1 DEF Faithful
    <3> QED BY <2>1, <2>2, <3>2
  <2>3. CASE q \notin Passed
    <3>1. Untouched(q) /\ q \in Prompts
      BY <2>3, AtPrompt DEF FormPrompts
    <3>2. Untouched(q)'
      BY <1>1, <1>5, <3>1 DEF Untouched
    <3> QED BY <2>1, <2>3, <3>2
  <2> QED BY <2>2, <2>3
<1>7. NothingLeft' \/ OneLine'
  <2>1. CASE place \in Numbers /\ Blanks(line)
    <3>1. Blanks(input')
      BY <1>2, <1>3, <2>1, BlankWithEnd
    <3> QED BY <1>1, <1>2, <2>1, <3>1 DEF NothingLeft
  <2>2. CASE ~ (place \in Numbers /\ Blanks(line))
    <3>1. typed'[place] = line
      BY <1>1, <1>2, <2>2 DEF FieldsInv, InputTypes
    <3> QED BY <1>1, <1>2, <2>2, <3>1 DEF OneLine
  <2> QED BY <2>1, <2>2
<1> QED BY <1>1, <1>4, <1>6, <1>7 DEF FieldsInv, InputInv, Prompts, Numbers, Texts

\* The other steps leave the form, or are not in it.
LEMMA OthersKeep ==
  ASSUME FieldsInv, Send \/ TypeInVain \/ Left \/ UNCHANGED ciVars
  PROVE  FieldsInv'
<1>1. CASE Send
  <2>1. /\ place = "sent" /\ place' = "menu"
        /\ input' = input /\ failed' = failed /\ fields' = fields /\ typed' = typed
    BY <1>1 DEF Send
  <2>2. Blanks(<< >>)
    BY DEF Blanks
  <2>3. InputTypes' /\ FormInv'
    BY <2>1 DEF FieldsInv, InputTypes, FormInv, FormPrompts, Prompts, Numbers
  <2>4. ~ failed' => NothingLeft'
    BY <2>1, <2>2 DEF FieldsInv, InputInv, NothingLeft, Numbers
  <2> QED BY <2>1, <2>3, <2>4 DEF FieldsInv, InputInv
<1>2. CASE TypeInVain
  <2>1. /\ place = "menu" /\ failed /\ place' = place /\ failed' = failed /\ fields' = fields
        /\ \E line \in Lines["menu"] : typed' = [typed EXCEPT !["menu"] = line]
    BY <1>2 DEF TypeInVain
  <2>2. Lines["menu"] \subseteq Strings
    BY InputAssumption DEF Prompts, Numbers, Strings
  <2>3. InputTypes' /\ FormInv'
    BY <2>1, <2>2 DEF FieldsInv, InputTypes, FormInv, FormPrompts
  <2> QED BY <2>1, <2>3 DEF FieldsInv, InputInv
<1>3. CASE Left \/ UNCHANGED ciVars
  <2>1. UNCHANGED ciVars
    BY <1>3 DEF Left
  <2> QED BY <2>1 DEF ciVars, FieldsInv, InputTypes, FormInv, InputInv, FormPrompts, Passed, Faithful,
             Untouched, NothingLeft, OneLine, Blanks, Says
<1> QED BY <1>1, <1>2, <1>3

\* The invariant holds throughout, whatever the user types, when numbers have nothing after them.
LEMMA FieldsKept == ASSUME NothingAfterNumbers PROVE Spec => []FieldsInv
<1>1. Init => FieldsInv
  <2> SUFFICES ASSUME Init PROVE FieldsInv
    OBVIOUS
  <2>1. NoLine \in Strings
    BY InputAssumption DEF NoLine, Strings
  <2>2. InputTypes
    BY <2>1 DEF Init, InputTypes, NoFields, Prompts, Numbers, Texts
  <2>3. Blanks(<< >>)
    BY DEF Blanks
  <2> QED BY <2>2, <2>3 DEF Init, FieldsInv, FormInv, InputInv, NothingLeft, FormPrompts, Numbers
<1>2. FieldsInv /\ [Next]_ciVars => FieldsInv'
  <2> SUFFICES ASSUME FieldsInv, [Next]_ciVars PROVE FieldsInv'
    OBVIOUS
  <2>1. CASE Type
    BY <2>1, TypeKeeps
  <2>2. CASE ReadChoice
    BY <2>2, ReadChoiceKeeps
  <2>3. CASE \E step \in Form : \/ step[1] \in Numbers /\ ReadNumber(step[1], step[2])
                                \/ step[1] \in Texts /\ ReadText(step[1], step[2])
                                \/ PassOver(step[1], step[2])
    <3>1. PICK step \in Form : \/ step[1] \in Numbers /\ ReadNumber(step[1], step[2])
                               \/ step[1] \in Texts /\ ReadText(step[1], step[2])
                               \/ PassOver(step[1], step[2])
      BY <2>3
    <3>2. <<step[1], step[2]>> \in Form
      BY DEF Form
    <3> QED BY <3>1, <3>2, ReadNumberKeeps, ReadTextKeeps, PassOverKeeps
  <2>4. CASE Send \/ TypeInVain \/ Left \/ UNCHANGED ciVars
    BY <2>4, OthersKeep
  <2> QED BY <2>1, <2>2, <2>3, <2>4 DEF Next, Program
<1> QED BY <1>1, <1>2, PTL DEF Spec

\* Of a report whose numbers were typed with nothing after them, every field is what was typed at its
\* prompt, for any lines: the characters that ignore() skips and the lines that getline() takes
\* keep in step with the prompts, and a cin that fails leaves the fields after it alone.
THEOREM FieldsCorrect == ASSUME NothingAfterNumbers PROVE Spec => []FieldsAsTyped
<1>1. FieldsInv => FieldsAsTyped
  <2> SUFFICES ASSUME FieldsInv, place = "sent" PROVE FieldsAsTyped
    BY DEF FieldsAsTyped
  <2>1. \A p \in FormPrompts : Faithful(p)
    BY DEF FieldsInv, FormInv, Passed
  <2>2. /\ fields["hazard"] = InForm("hazard", Says(typed["hazard"]))
        /\ fields["severity"] = InForm("severity", Says(typed["severity"]))
    BY <2>1 DEF Faithful, FormPrompts, Prompts, Numbers
  <2>3. \A t \in Texts : fields[t] = typed[t] \/ (failed /\ typed[t] = NoLine /\ fields[t] = << >>)
    BY <2>1 DEF Faithful, FormPrompts, Prompts, Numbers, Texts
  <2> QED BY <2>2, <2>3 DEF FieldsAsTyped
<1> QED BY <1>1, FieldsKept, PTL

-----------------------------------------------------------------------
(* The file. *)

\* The sizes of the picture.
LEMMA Sizes ==
  /\ Width \in Nat /\ Height \in Nat /\ Stride \in Nat /\ FileSize \in Nat
  /\ Width = 6 * CellSize /\ Height = 6 * CellSize /\ 3 * Width <= Stride
  /\ Stride = ((24 * Width + 31) \div 32) * 4
  /\ FileSize = 54 + Stride * Height /\ FileSize >= 54
<1>1. Width \in Nat /\ Height \in Nat /\ Width = 6 * CellSize /\ Height = 6 * CellSize
  BY CellAssumption DEF Width, Height, GridRows, GridCols
<1>2. /\ Stride \in Nat /\ 3 * Width <= Stride
      /\ Stride = ((24 * Width + 31) \div 32) * 4
  BY <1>1 DEF Stride
<1>3. Stride * Height \in Nat
  BY <1>1, <1>2
<1> QED BY <1>1, <1>2, <1>3 DEF FileSize, HeaderSize

\* A line's offset and a place in the line are told from their sum.
LEMMA LineAndPlace ==
  ASSUME NEW a \in Nat, NEW b \in Nat, NEW k \in 0 .. b - 1
  PROVE  (a * b + k) \div b = a /\ (a * b + k) % b = k
  OBVIOUS

\* A byte of a line is inside the file.
LEMMA InFile ==
  ASSUME NEW y \in 0 .. Height - 1, NEW k \in 0 .. Stride - 1
  PROVE  y * Stride + k \in Nat /\ HeaderSize + y * Stride + k \in HeaderSize .. FileSize - 1
<1>1. Height \in Nat /\ Stride \in Nat /\ FileSize = 54 + Stride * Height
  BY Sizes
<1>2. y * Stride \in Nat /\ y * Stride <= (Height - 1) * Stride
  BY <1>1
<1>3. (Height - 1) * Stride = Stride * Height - Stride
  BY <1>1
<1>4. Stride * Height \in Nat /\ (Height - 1) * Stride \in Int
  BY <1>1
<1> QED BY <1>1, <1>2, <1>3, <1>4 DEF HeaderSize

\* The bytes of a pixel.
LEMMA PixelBytes ==
  ASSUME NEW zone, NEW x \in 0 .. Width - 1, NEW y \in 0 .. Height - 1, NEW c \in 0 .. 2
  PROVE  GenerateRunwayBitmap(zone)[HeaderSize + y * Stride + (3 * x + c)]
            = ColorAt(ZoneToGrid(zone), x, y)[c + 1]
<1> DEFINE k == 3 * x + c
           i == HeaderSize + y * Stride + k
<1>1. /\ k \in 0 .. 3 * Width - 1 /\ k \in 0 .. Stride - 1 /\ k \div 3 = x /\ k % 3 = c
      /\ y \in Nat /\ Stride \in Nat
  BY Sizes
<1> HIDE DEF k
<1>2. y * Stride + k \in Nat /\ i \in HeaderSize .. FileSize - 1
  BY <1>1, InFile
<1>3. (i - HeaderSize) \div Stride = y /\ (i - HeaderSize) % Stride = k
  <2>1. i - HeaderSize = y * Stride + k
    BY <1>1, <1>2 DEF HeaderSize
  <2> HIDE DEF i
  <2> QED BY <1>1, <2>1, LineAndPlace
<1>4. i \in 0 .. FileSize - 1 /\ ~ (i < HeaderSize)
  BY <1>2, Sizes DEF HeaderSize
<1> HIDE DEF i
<1>5. GenerateRunwayBitmap(zone)[i] = LineByte(ZoneToGrid(zone), y, k)
  BY <1>3, <1>4 DEF GenerateRunwayBitmap
<1>6. LineByte(ZoneToGrid(zone), y, k) = ColorAt(ZoneToGrid(zone), x, y)[c + 1]
  <2>1. k < 3 * Width
    BY <1>1, Sizes
  <2> QED BY <1>1, <2>1, Zenon DEF LineByte
<1> QED BY <1>5, <1>6 DEF i, k

\* An int that is not negative, as the integers of the headers are.
IsInt(n) == n \in Nat /\ n <= 2147483647

\* Four bytes, the lowest first, make the number again.
LEMMA LittleEndian ==
  ASSUME NEW n, IsInt(n)
  PROVE  (n % 256) + 256 * (((n \div 256) % 256) + 256 * (((n \div 65536) % 256)
            + 256 * ((n \div 16777216) % 256))) = n
  BY SMT DEF IsInt

\* The weights of four bytes.
LEMMA Powers == 256 ^ 0 = 1 /\ 256 ^ 1 = 256 /\ 256 ^ 2 = 65536 /\ 256 ^ 3 = 16777216
<1>1. 256 ^ 0 = 1
  BY SMT
<1>2. 256 ^ 1 = 256
  BY SMT
<1>3. 256 ^ 2 = 65536
  BY SMT
<1>4. 256 ^ 3 = 16777216
  BY SMT
<1> QED BY <1>1, <1>2, <1>3, <1>4

\* No two integers of the headers share a byte.
LEMMA HeadersApart ==
  ASSUME NEW h \in Headers, NEW g \in Headers, NEW i \in Nat,
         Covers(h, i), Covers(g, i)
  PROVE  g = h
  BY DEF Headers, Covers

\* The four bytes of an integer of the headers are that integer.
LEMMA HeaderInt ==
  ASSUME NEW zone, NEW at \in {2, 10, 18, 22}, NEW n, IsInt(n), <<at, 4, n>> \in Headers
  PROVE  Int32At(GenerateRunwayBitmap(zone), at) = n
<1> DEFINE file == GenerateRunwayBitmap(zone)
           h == <<at, 4, n>>
<1>1. ASSUME NEW k \in 0 .. 3 PROVE file[at + k] = (n \div 256 ^ k) % 256
  <2> DEFINE i == at + k
  <2>1. Covers(h, i) /\ i \in Nat /\ h[1] = at /\ h[3] = n /\ h \in Headers
    BY DEF Covers
  <2>2. i - at = k
    OBVIOUS
  <2>3. i \in 0 .. FileSize - 1 /\ i < HeaderSize
    BY Sizes DEF HeaderSize
  <2> HIDE DEF h, i
  <2>4. \A g \in Headers : Covers(g, i) => g = h
    BY <2>1, HeadersApart
  <2>5. (CHOOSE g \in Headers : Covers(g, i)) = h
    BY <2>1, <2>4, Zenon
  <2>6. HeaderByte(i) = (h[3] \div 256 ^ (i - h[1])) % 256
    BY <2>1, <2>5, Zenon DEF HeaderByte
  <2>7. file[i] = HeaderByte(i)
    BY <2>3 DEF GenerateRunwayBitmap
  <2> QED BY <2>1, <2>2, <2>6, <2>7, Zenon DEF i
<1>2. /\ file[at] = n % 256 /\ file[at + 1] = (n \div 256) % 256
      /\ file[at + 2] = (n \div 65536) % 256 /\ file[at + 3] = (n \div 16777216) % 256
  <2> HIDE DEF file
  <2>1. file[at + 0] = (n \div 256 ^ 0) % 256 /\ file[at + 1] = (n \div 256 ^ 1) % 256
    BY <1>1
  <2>2. file[at + 2] = (n \div 256 ^ 2) % 256 /\ file[at + 3] = (n \div 256 ^ 3) % 256
    BY <1>1
  <2>3. at + 0 = at /\ n \div 1 = n
    BY SMT DEF IsInt
  <2> QED BY <2>1, <2>2, <2>3, Powers, SMT
<1> HIDE DEF file
<1>3. Int32At(file, at) = n
  <2>1. (n % 256) + 256 * (((n \div 256) % 256) + 256 * (((n \div 65536) % 256)
            + 256 * ((n \div 16777216) % 256))) = n
    BY LittleEndian
  <2> QED BY <1>2, <2>1, SMT DEF Int32At
<1> QED BY <1>3 DEF file

-----------------------------------------------------------------------
(* The picture. *)

\* The color of each pixel, as a viewer sees it: the bytes of the file are taken apart as they were
\* put together.
LEMMA SeenPicture ==
  ASSUME NEW zone
  PROVE  Seen(GenerateRunwayBitmap(zone))
            = [p \in (0 .. Width - 1) \X (0 .. Height - 1) |->
                  ColorAt(ZoneToGrid(zone), p[1], Height - 1 - p[2])]
<1> DEFINE file == GenerateRunwayBitmap(zone)
           hazard == ZoneToGrid(zone)
           At(p) == HeaderSize + (Height - 1 - p[2]) * Stride + 3 * p[1]
<1>1. IsInt(Width) /\ IsInt(Height) /\ IsInt(HeaderSize)
  <2>1. Height >= 1 /\ Height \in Nat /\ Stride \in Nat
    BY Sizes, CellAssumption
  <2>2. Stride * Height >= Stride /\ Stride * Height \in Nat
    BY <2>1
  <2> QED BY <2>1, <2>2, Sizes, SizeAssumption, SMT DEF IsInt, HeaderSize
<1>2. Int32At(file, 10) = HeaderSize
  <2>1. <<10, 4, HeaderSize>> \in Headers
    BY DEF Headers
  <2> QED BY <1>1, <2>1, HeaderInt
<1>3. Int32At(file, 18) = Width
  <2>1. <<18, 4, Width>> \in Headers
    BY DEF Headers
  <2> QED BY <1>1, <2>1, HeaderInt
<1>4. Int32At(file, 22) = Height
  <2>1. <<22, 4, Height>> \in Headers
    BY DEF Headers
  <2> QED BY <1>1, <2>1, HeaderInt
<1>5. Seen(file) = [p \in (0 .. Width - 1) \X (0 .. Height - 1) |->
                       <<file[At(p)], file[At(p) + 1], file[At(p) + 2]>>]
  <2> HIDE DEF file
  <2>1. ((24 * Width + 31) \div 32) * 4 = Stride
    BY Sizes
  <2> QED BY <1>2, <1>3, <1>4, <2>1, Zenon DEF Seen
<1>6. ASSUME NEW p \in (0 .. Width - 1) \X (0 .. Height - 1)
      PROVE  <<file[At(p)], file[At(p) + 1], file[At(p) + 2]>>
                = ColorAt(hazard, p[1], Height - 1 - p[2])
  <2> DEFINE x == p[1]
             y == Height - 1 - p[2]
             color == ColorAt(hazard, x, y)
  <2>1. x \in 0 .. Width - 1 /\ y \in 0 .. Height - 1 /\ x \in Nat /\ y \in Nat
    BY Sizes
  <2>2. y * Stride \in Nat
    BY <2>1, Sizes
  <2> HIDE DEF x, y, file
  <2>3. /\ HeaderSize + y * Stride + 3 * x = HeaderSize + y * Stride + (3 * x + 0)
        /\ (HeaderSize + y * Stride + 3 * x) + 1 = HeaderSize + y * Stride + (3 * x + 1)
        /\ (HeaderSize + y * Stride + 3 * x) + 2 = HeaderSize + y * Stride + (3 * x + 2)
    BY <2>1, <2>2 DEF HeaderSize
  <2>4. \A c \in 0 .. 2 : file[HeaderSize + y * Stride + (3 * x + c)] = color[c + 1]
    BY <2>1, PixelBytes DEF file
  <2> DEFINE at == HeaderSize + y * Stride + 3 * x
  <2>5. file[at] = color[1] /\ file[at + 1] = color[2] /\ file[at + 2] = color[3]
    <3> DEFINE F(c) == file[HeaderSize + y * Stride + (3 * x + c)]
    <3>1. F(0) = color[0 + 1] /\ F(1) = color[1 + 1] /\ F(2) = color[2 + 1]
      BY <2>4
    <3>2. file[at] = F(0) /\ file[at + 1] = F(1) /\ file[at + 2] = F(2)
      BY <2>3
    <3> HIDE DEF F, color, at
    <3> QED BY <3>1, <3>2
  <2>6. color \in {Colors.grid, Colors.hazard, Colors.clear}
    BY DEF ColorAt
  <2>7. color = <<color[1], color[2], color[3]>>
    <3> HIDE DEF color
    <3> QED BY <2>6 DEF Colors
  <2> HIDE DEF color, at
  <2>8. <<file[at], file[at + 1], file[at + 2]>> = color
    BY <2>5, <2>7
  <2> QED BY <2>8 DEF color, at, x, y
<1> HIDE DEF file, At, hazard
<1>7. [p \in (0 .. Width - 1) \X (0 .. Height - 1) |->
                       <<file[At(p)], file[At(p) + 1], file[At(p) + 2]>>]
      = [p \in (0 .. Width - 1) \X (0 .. Height - 1) |-> ColorAt(hazard, p[1], Height - 1 - p[2])]
  BY <1>6
<1> QED BY <1>5, <1>7 DEF file, hazard

\* A pixel is red just where its cell is the hazard's and it is not on a line of the grid.
LEMMA PixelColor ==
  ASSUME NEW hazard, NEW x \in 0 .. Width - 1, NEW y \in 0 .. Height - 1
  PROVE  /\ ColorAt(hazard, x, Height - 1 - y) = Colors.hazard
               <=> /\ x % CellSize # 0 /\ (Height - 1 - y) % CellSize # 0
                   /\ y \div CellSize = hazard.row /\ x \div CellSize = hazard.col
         /\ y \div CellSize = hazard.row /\ x \div CellSize = hazard.col
               => ColorAt(hazard, x, Height - 1 - y) \in {Colors.hazard, Colors.grid}
<1>1. Height - 1 - (Height - 1 - y) = y
  BY Sizes
<1>2. GridRow(Height - 1 - y) = y \div CellSize
  BY <1>1 DEF GridRow
<1>3. Colors.hazard # Colors.grid /\ Colors.hazard # Colors.clear
  BY DEF Colors
<1> QED BY <1>2, <1>3, Zenon DEF ColorAt

\* Every cell of the grid has a pixel off its lines.
LEMMA PixelInCell ==
  ASSUME NEW r \in 0 .. 5, NEW c \in 0 .. 5
  PROVE  \E x \in 0 .. Width - 1, y \in 0 .. Height - 1 :
            /\ x % CellSize # 0 /\ (Height - 1 - y) % CellSize # 0
            /\ y \div CellSize = r /\ x \div CellSize = c
<1>1. CellSize \in Nat /\ CellSize >= 2 /\ Width = 6 * CellSize /\ Height = 6 * CellSize
  BY CellAssumption, Sizes
<1> DEFINE x == c * CellSize + 1
           y == r * CellSize + 0
           l == (5 - r) * CellSize + (CellSize - 1)
<1>2. x \in 0 .. Width - 1 /\ y \in 0 .. Height - 1 /\ l = Height - 1 - y
  <2>1. \A n \in 0 .. 5 : n \in {0, 1, 2, 3, 4, 5}
    OBVIOUS
  <2>2. c * CellSize \in 0 .. 5 * CellSize
    BY <1>1, <2>1
  <2>3. r * CellSize \in 0 .. 5 * CellSize /\ (5 - r) * CellSize = 5 * CellSize - r * CellSize
    BY <1>1, <2>1
  <2> QED BY <1>1, <2>2, <2>3
<1>3. x \div CellSize = c /\ x % CellSize = 1
  <2>1. 1 \in 0 .. CellSize - 1 /\ c \in Nat
    BY <1>1
  <2> QED BY <1>1, <2>1, LineAndPlace
<1>4. y \div CellSize = r
  <2>1. 0 \in 0 .. CellSize - 1 /\ r \in Nat
    BY <1>1
  <2> QED BY <1>1, <2>1, LineAndPlace
<1>5. l % CellSize = CellSize - 1
  <2>1. CellSize - 1 \in 0 .. CellSize - 1 /\ 5 - r \in Nat
    BY <1>1
  <2> QED BY <1>1, <2>1, LineAndPlace
<1> HIDE DEF x, y, l
<1>6. x % CellSize # 0 /\ (Height - 1 - y) % CellSize # 0
  BY <1>1, <1>2, <1>3, <1>5
<1> QED BY <1>2, <1>3, <1>4, <1>6

\* A picture shows the cell of its zone's row and column, if it has both.
LEMMA PictureShows ==
  ASSUME NEW zone, NEW cells, NEW r \in -1 .. 5, NEW c \in -1 .. 5,
         ZoneToGrid(zone) = [row |-> r, col |-> c],
         cells = IF r # -1 /\ c # -1 THEN {<<r, c>>} ELSE {}
  PROVE  Shows(zone, cells)
<1> DEFINE file == GenerateRunwayBitmap(zone)
           seen == Seen(file)
           pixels == (0 .. Width - 1) \X (0 .. Height - 1)
           CellAt(p) == <<p[2] \div CellSize, p[1] \div CellSize>>
           red == {p \in DOMAIN seen : seen[p] = Colors.hazard}
           hazard == ZoneToGrid(zone)
<1>1. Int32At(file, 2) = FileSize
  <2>1. <<2, 4, FileSize>> \in Headers /\ IsInt(FileSize)
    BY Sizes, SizeAssumption, SMT DEF Headers, IsInt
  <2> QED BY <2>1, HeaderInt
<1>2. DOMAIN file = 0 .. FileSize - 1
  BY DEF GenerateRunwayBitmap
<1>3. seen = [p \in pixels |-> ColorAt(hazard, p[1], Height - 1 - p[2])]
  BY SeenPicture
<1>4. DOMAIN seen = pixels /\ \A p \in pixels : seen[p] = ColorAt(hazard, p[1], Height - 1 - p[2])
  <2> HIDE DEF seen
  <2> QED BY <1>3
<1> HIDE DEF seen
<1>5. hazard.row = r /\ hazard.col = c
  OBVIOUS
<1> HIDE DEF hazard
<1>6. \A p \in pixels : seen[p] = Colors.hazard
        <=> /\ p[1] % CellSize # 0 /\ (Height - 1 - p[2]) % CellSize # 0
            /\ p[2] \div CellSize = r /\ p[1] \div CellSize = c
  <2> TAKE p \in pixels
  <2>1. p[1] \in 0 .. Width - 1 /\ p[2] \in 0 .. Height - 1
    OBVIOUS
  <2> QED BY <1>4, <1>5, <2>1, PixelColor
<1>7. \A p \in pixels : p[2] \div CellSize = r /\ p[1] \div CellSize = c
        => seen[p] \in {Colors.hazard, Colors.grid}
  <2> TAKE p \in pixels
  <2>1. p[1] \in 0 .. Width - 1 /\ p[2] \in 0 .. Height - 1
    OBVIOUS
  <2> QED BY <1>4, <1>5, <2>1, PixelColor
<1>8. {CellAt(p) : p \in red} \subseteq cells
  <2> SUFFICES ASSUME NEW p \in red PROVE CellAt(p) \in cells
    OBVIOUS
  <2>1. p \in pixels /\ p[2] \div CellSize = r /\ p[1] \div CellSize = c
    BY <1>4, <1>6
  <2>2. r # -1 /\ c # -1
    <3>1. p[2] \div CellSize >= 0 /\ p[1] \div CellSize >= 0
      BY <2>1, CellAssumption, Sizes
    <3> QED BY <2>1, <3>1
  <2> QED BY <2>1, <2>2
<1>9. cells \subseteq {CellAt(p) : p \in red}
  <2> SUFFICES ASSUME r # -1, c # -1 PROVE \E p \in red : CellAt(p) = <<r, c>>
    BY Zenon
  <2>1. PICK x \in 0 .. Width - 1, y \in 0 .. Height - 1 :
            /\ x % CellSize # 0 /\ (Height - 1 - y) % CellSize # 0
            /\ y \div CellSize = r /\ x \div CellSize = c
    BY PixelInCell
  <2> DEFINE p == <<x, y>>
  <2>2. p \in pixels /\ p[1] = x /\ p[2] = y
    OBVIOUS
  <2> HIDE DEF p
  <2>3. p \in red /\ CellAt(p) = <<r, c>>
    BY <1>4, <1>6, <2>1, <2>2
  <2> QED BY <2>3
<1>10. \A p \in DOMAIN seen : CellAt(p) \in cells => seen[p] \in {Colors.hazard, Colors.grid}
  <2> SUFFICES ASSUME NEW p \in pixels, CellAt(p) \in cells
               PROVE  seen[p] \in {Colors.hazard, Colors.grid}
    BY <1>4
  <2>1. CellAt(p) = <<r, c>>
    BY Zenon
  <2>2. p[2] \div CellSize = r /\ p[1] \div CellSize = c
    BY <2>1
  <2> QED BY <1>7, <2>2
<1>11. {CellAt(p) : p \in red} = cells
  BY <1>8, <1>9
<1> QED BY <1>1, <1>2, <1>10, <1>11, Zenon DEF Shows, seen

-----------------------------------------------------------------------
(* The zone. *)

\* A letter or a digit of the grid is found where it is, and no other character is.
LEMMA IndexFinds ==
  ASSUME NEW s \in {Letters, Digits}, NEW c
  PROVE  /\ IndexIn(s, c) \in -1 .. 5
         /\ \A i \in 1 .. 6 : s[i] = c <=> i = IndexIn(s, c) + 1
<1>1. DOMAIN s = 1 .. 6
  BY DEF Letters, Digits
<1>2. \A i, j \in 1 .. 6 : s[i] = s[j] => i = j
  BY DEF Letters, Digits
<1>3. CASE \E i \in 1 .. 6 : s[i] = c
  <2>1. PICK i \in 1 .. 6 : s[i] = c
    BY <1>3
  <2>2. (CHOOSE j \in DOMAIN s : s[j] = c) = i
    BY <1>1, <1>2, <2>1
  <2>3. IndexIn(s, c) = i - 1
    BY <1>1, <2>1, <2>2 DEF IndexIn
  <2> QED BY <1>2, <2>1, <2>3
<1>4. CASE ~ \E i \in 1 .. 6 : s[i] = c
  <2>1. IndexIn(s, c) = -1
    BY <1>1, <1>4 DEF IndexIn
  <2> QED BY <1>4, <2>1
<1> QED BY <1>3, <1>4

\* The row and the column that the code draws are the cell that the zone names.
LEMMA CellIsDrawn ==
  ASSUME NEW z, Len(z) = 2
  PROVE  LET r == ZoneToGrid(z).row
             c == ZoneToGrid(z).col
         IN  /\ ZoneToGrid(z) = [row |-> r, col |-> c] /\ r \in -1 .. 5 /\ c \in -1 .. 5
             /\ CellOf(z) = IF r # -1 /\ c # -1 THEN {<<r, c>>} ELSE {}
<1> DEFINE u == Upper(z[1])
           d == z[2]
           r == IndexIn(Letters, u)
           c == IndexIn(Digits, d)
<1>1. ZoneToGrid(z) = [row |-> r, col |-> c]
  BY DEF ZoneToGrid
<1>2. r \in -1 .. 5 /\ \A i \in 1 .. 6 : Letters[i] = u <=> i = r + 1
  <2> HIDE DEF u
  <2> QED BY IndexFinds
<1>3. c \in -1 .. 5 /\ \A i \in 1 .. 6 : Digits[i] = d <=> i = c + 1
  <2> HIDE DEF d
  <2> QED BY IndexFinds
<1>4. CellOf(z) = {<<i - 1, j - 1>> : i \in {i \in 1 .. 6 : Letters[i] = u},
                                      j \in {j \in 1 .. 6 : Digits[j] = d}}
  BY DEF CellOf, GridRows, GridCols
<1> HIDE DEF r, c, u, d
<1>5. CellOf(z) = IF r # -1 /\ c # -1 THEN {<<r, c>>} ELSE {}
  <2>1. CASE r # -1 /\ c # -1
    <3>1. {i \in 1 .. 6 : Letters[i] = u} = {r + 1} /\ {j \in 1 .. 6 : Digits[j] = d} = {c + 1}
      BY <1>2, <1>3, <2>1
    <3>2. CellOf(z) = {<<i - 1, j - 1>> : i \in {r + 1}, j \in {c + 1}}
      BY <1>4, <3>1
    <3>3. r + 1 - 1 = r /\ c + 1 - 1 = c
      BY <1>2, <1>3
    <3>4. <<r, c>> \in CellOf(z)
      BY <1>2, <1>3, <3>2, <3>3
    <3>5. ASSUME NEW e \in CellOf(z) PROVE e = <<r, c>>
      <4>1. PICK i \in {r + 1}, j \in {c + 1} : e = <<i - 1, j - 1>>
        BY <3>2
      <4>2. i - 1 = r /\ j - 1 = c
        BY <1>2, <1>3
      <4> QED BY <4>1, <4>2
    <3>6. CellOf(z) = {<<r, c>>}
      BY <3>4, <3>5
    <3> QED BY <2>1, <3>6
  <2>2. CASE r = -1
    <3>1. {i \in 1 .. 6 : Letters[i] = u} = {}
      BY <1>2, <2>2
    <3> QED BY <1>4, <2>2, <3>1
  <2>3. CASE c = -1
    <3>1. {j \in 1 .. 6 : Digits[j] = d} = {}
      BY <1>3, <2>3
    <3> QED BY <1>4, <2>3, <3>1
  <2> QED BY <2>1, <2>2, <2>3
<1> QED BY <1>1, <1>2, <1>3, <1>5

\* The crew gets back the zone it typed, for any lines whose numbers have nothing after them, and for
\* any size of the cells that makes a file whose size is an int: the picture that
\* BitmapGenerator.cpp draws, read by the BMP format, has that cell in red and no other.
THEOREM ZoneCorrect == ASSUME NothingAfterNumbers PROVE Spec => []TypedZoneIsSeen
<1>1. FieldsInv => TypedZoneIsSeen
  <2> DEFINE z == typed["zone"]
             w == fields.zone
             cells == IF Len(z) = 2 THEN CellOf(z) ELSE {}
  <2> SUFFICES ASSUME FieldsInv, place = "sent", Len(z) <= 2 PROVE Shows(w, cells)
    BY DEF TypedZoneIsSeen
  <2>1. Len(z) \in 0 .. 2
    <3>1. Len(z) \in Nat
      BY DEF FieldsInv, InputTypes, Prompts, Texts, Strings
    <3>2. \A n \in Nat : n <= 2 => n \in 0 .. 2
      OBVIOUS
    <3> QED BY <3>1, <3>2, Zenon
  <2>2. w = z \/ (z = NoLine /\ w = << >>)
    <3>1. Faithful("zone")
      BY DEF FieldsInv, FormInv, Passed, FormPrompts, Prompts, Numbers, Texts
    <3> QED BY <3>1 DEF Faithful, Numbers
  <2>3. Len(NoLine) = 1
    BY DEF NoLine
  <2> HIDE DEF z, w
  <2>4. CASE Len(z) = 2
    <3>1. w = z
      BY <2>2, <2>3, <2>4
    <3> QED BY <2>4, <3>1, CellIsDrawn, PictureShows
  <2>5. CASE Len(z) # 2
    <3>1. w = z => Len(w) \in 0 .. 1
      <4>1. PICK m \in 0 .. 2 : m = Len(z)
        BY <2>1
      <4>2. m # 2
        BY <2>5, <4>1, Zenon
      <4>3. m \in 0 .. 1
        BY <4>2
      <4> QED BY <4>1, <4>3, Zenon
    <3>4. w = << >> => Len(w) \in 0 .. 1
      <4>1. Len(<< >>) \in 0 .. 1
        OBVIOUS
      <4> QED BY <4>1
    <3>5. PICK n \in 0 .. 1 : Len(w) = n
      BY <2>2, <3>1, <3>4
    <3>6. ~ (n >= 2)
      OBVIOUS
    <3>2. ZoneToGrid(w) = [row |-> -1, col |-> -1]
      BY <3>5, <3>6, Zenon DEF ZoneToGrid
    <3>3. -1 \in -1 .. 5
      OBVIOUS
    <3> QED BY <2>5, <3>2, <3>3, PictureShows
  <2> QED BY <2>4, <2>5
<1> QED BY <1>1, FieldsKept, PTL

=======================================================================
