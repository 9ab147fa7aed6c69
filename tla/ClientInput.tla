-------------------------- MODULE ClientInput -------------------------
(* What the client makes of its user's typing: the menu and the report form of runClientSession   *)
(* (ClientSession.cpp), read with >>, ignore() and getline() from one std::cin.  The console      *)
(* hands over whole lines.  A number that is none, or none an int can hold, leaves cin failed:    *)
(* from then on every read returns at once and leaves its variable as it was.  The exchange that  *)
(* follows the form is one step here; ClientSession models it.                                    *)
EXTENDS Integers, Sequences

CONSTANTS
    Chars,      \* characters
    Lines,      \* lines the user may type at each prompt: sequences of characters
    MaxInt,     \* INT_MAX
    MaxReports  \* bound: reports filed

VARIABLES
    place,    \* the prompt that the program is at, "sent" when a form is filled, or "left"
    input,    \* characters typed and not yet read
    failed,   \* cin's failbit
    fields,   \* the variables of the form
    typed,    \* history: the last line typed at each prompt, blank lines at a number apart
    filed     \* reports filed, for the bound

ciVars == <<place, input, failed, fields, typed, filed>>

Numbers == {"menu", "hazard", "severity"}
Texts   == {"zone", "officer", "description"}
Prompts == Numbers \union Texts

\* A line has no line's end in it.
ASSUME InputAssumption ==
    /\ MaxReports \in Nat /\ MaxInt \in Nat
    /\ "\n" \in Chars /\ \A p \in Prompts : Lines[p] \subseteq Seq(Chars \ {"\n"})

Blank  == {" ", "\t", "\n"}
Digit  == [c \in {"0", "1", "2", "3", "4", "5", "6", "7", "8", "9"} |->
             CHOOSE n \in 0 .. 9 : <<"0", "1", "2", "3", "4", "5", "6", "7", "8", "9">>[n + 1] = c]

\* What was typed at a prompt that the user has not answered.
NoLine == <<"\n">>

NoFields == [hazard |-> 0, zone |-> << >>, severity |-> 0, officer |-> << >>, description |-> << >>]

Init == /\ place = "menu" /\ input = << >> /\ failed = FALSE /\ fields = NoFields
        /\ typed = [p \in Prompts |-> NoLine] /\ filed = 0

-----------------------------------------------------------------------
(* std::cin. *)

\* The first place of s from i on where a character is not in cs.
SkipFrom(s, i, cs) == CHOOSE k \in i .. Len(s) + 1 :
                         /\ k > Len(s) \/ s[k] \notin cs
                         /\ \A j \in i .. k - 1 : s[j] \in cs

Blanks(s) == \A i \in DOMAIN s : s[i] \in Blank

\* The number that the digits of s from first to end - 1 write.
Numeral(s, first, end) ==
    LET value[i \in first - 1 .. end - 1] == IF i < first THEN 0 ELSE 10 * value[i - 1] + Digit[s[i]]
    IN  value[end - 1]

\* The int nearest to n.
Nearest(n) == IF n > MaxInt THEN MaxInt ELSE IF n < - MaxInt - 1 THEN - MaxInt - 1 ELSE n

\* What >> makes of the front of s, what it leaves, and whether cin stays good: blanks are skipped
\* and a sign may come before the digits.  Without digits the variable becomes 0, and the int nearest
\* to a number that no int can hold.
ReadInt(s) ==
    LET start  == SkipFrom(s, 1, Blank)
        signed == start <= Len(s) /\ s[start] \in {"-", "+"}
        first  == IF signed THEN start + 1 ELSE start
        end    == SkipFrom(s, first, DOMAIN Digit)
        n      == Numeral(s, first, end)
        number == IF signed /\ s[start] = "-" THEN - n ELSE n
    IN  [ok    |-> end > first /\ Nearest(number) = number,
         value |-> Nearest(number), rest |-> SubSeq(s, end, Len(s))]

\* ignore() drops one character, which is there: the newline at least.
Ignored(s) == Tail(s)

LineEnd(s) == CHOOSE i \in DOMAIN s : s[i] = "\n" /\ \A j \in 1 .. i - 1 : s[j] # "\n"
FirstLine(s) == SubSeq(s, 1, LineEnd(s) - 1)
AfterLine(s) == SubSeq(s, LineEnd(s) + 1, Len(s))

\* The program waits: there is nothing to read for what it is about to read.
Waits == place \in Prompts /\ ~ failed /\ IF place \in Numbers THEN Blanks(input) ELSE input = << >>

-----------------------------------------------------------------------
(* The user. *)

\* The user answers the prompt; blanks before a number have been skipped by the time it comes.
Type ==
    /\ Waits
    /\ \E line \in Lines[place] :
          /\ input' = Append(line, "\n")
          /\ typed' = IF place \in Numbers /\ Blanks(line) THEN typed ELSE [typed EXCEPT ![place] = line]
    /\ UNCHANGED <<place, failed, fields, filed>>

-----------------------------------------------------------------------
(* The program. *)

\* A severity outside 0..5 becomes 1, a hazard type outside 0..4 becomes 0.
InForm(field, n) == CASE field = "severity" -> IF n \in 0 .. 5 THEN n ELSE 1
                      [] field = "hazard"   -> IF n \in 0 .. 4 THEN n ELSE 0

\* MUTANT of ReadChoice: 2 is one more answer that files no report.
ReadChoiceOfReports ==
    /\ place = "menu" /\ ~ failed /\ ~ Waits
    /\ LET r == ReadInt(input) IN
       /\ failed' = ~ r.ok /\ input' = r.rest
       /\ place' = IF r.ok /\ r.value = 1 /\ filed < MaxReports THEN "hazard" ELSE "menu"
    /\ UNCHANGED <<fields, typed, filed>>

\* The menu when cin is good: 1 files a report and skips the newline, 2 leaves.
ReadChoice ==
    /\ place = "menu" /\ ~ failed /\ ~ Waits
    /\ LET r == ReadInt(input) IN
       /\ failed' = ~ r.ok
       /\ CASE r.ok /\ r.value = 1 /\ filed < MaxReports ->
                  /\ place' = "hazard" /\ input' = Ignored(r.rest) /\ fields' = NoFields
                  /\ typed' = [p \in Prompts |-> IF p = "menu" THEN typed[p] ELSE NoLine]
            [] r.ok /\ r.value = 2 -> place' = "left" /\ input' = r.rest /\ UNCHANGED <<fields, typed>>
            [] OTHER -> input' = r.rest /\ UNCHANGED <<place, fields, typed>>
    /\ UNCHANGED filed

\* MUTANT of ReadNumber: the newline is not skipped.
ReadNumberOnly(field, next) ==
    /\ place = field /\ ~ failed /\ ~ Waits
    /\ LET r == ReadInt(input) IN
       /\ failed' = ~ r.ok /\ input' = r.rest
       /\ fields' = [fields EXCEPT ![field] = InForm(field, r.value)]
    /\ place' = next /\ UNCHANGED <<typed, filed>>

\* A number of the form, and one character after it, skipped if cin is still good.
ReadNumber(field, next) ==
    /\ place = field /\ ~ failed /\ ~ Waits
    /\ LET r == ReadInt(input) IN
       /\ failed' = ~ r.ok /\ input' = IF r.ok THEN Ignored(r.rest) ELSE r.rest
       /\ fields' = [fields EXCEPT ![field] = InForm(field, r.value)]
    /\ place' = next /\ UNCHANGED <<typed, filed>>

ReadText(field, next) ==
    /\ place = field /\ ~ failed /\ ~ Waits
    /\ fields' = [fields EXCEPT ![field] = FirstLine(input)] /\ input' = AfterLine(input)
    /\ place' = next /\ UNCHANGED <<failed, typed, filed>>

\* With cin failed a prompt of the form is passed over at once; the menu comes back for ever.
PassOver(field, next) ==
    /\ place = field /\ failed /\ place' = next
    /\ UNCHANGED <<input, failed, fields, typed, filed>>

\* The report is sent and answered.
Send == place = "sent" /\ place' = "menu" /\ filed' = filed + 1
        /\ UNCHANGED <<input, failed, fields, typed>>

Form == {<<"hazard", "zone">>, <<"zone", "severity">>, <<"severity", "officer">>,
         <<"officer", "description">>, <<"description", "sent">>}

Program == \/ ReadChoice \/ Send
           \/ \E step \in Form : \/ step[1] \in Numbers /\ ReadNumber(step[1], step[2])
                                 \/ step[1] \in Texts /\ ReadText(step[1], step[2])
                                 \/ PassOver(step[1], step[2])

\* The user types on at a menu that does not read.
TypeInVain ==
    /\ place = "menu" /\ failed
    /\ \E line \in Lines["menu"] : typed' = [typed EXCEPT !["menu"] = line]
    /\ UNCHANGED <<place, input, failed, fields, filed>>

Left == place = "left" /\ UNCHANGED ciVars

Next == Type \/ TypeInVain \/ Program \/ Left

Spec == Init /\ [][Next]_ciVars

FairSpec == Spec /\ WF_ciVars(Program)

-----------------------------------------------------------------------
(* Properties. *)

\* No number is followed by anything on its line: the one character that ignore() skips after a
\* number is then the line's end.  With more, the next text would be the rest of that line.
NothingAfterNumbers ==
    \A p \in Numbers : \A line \in Lines[p] :
        ReadInt(Append(line, "\n")).ok => ReadInt(Append(line, "\n")).rest = <<"\n">>

\* The number that a line says, to the user, within what an int can hold: 0 when it says none.
Says(line) == ReadInt(line).value

\* What goes into a report is what was typed at each of its prompts: no field gets the answer to
\* another, and none is filled before the user has answered, however >>, ignore() and getline()
\* share the line ends between them; only a cin that has failed leaves texts empty.
FieldsAsTyped ==
    place = "sent" =>
        /\ \A t \in Texts : \/ fields[t] = typed[t]
                            \/ failed /\ typed[t] = NoLine /\ fields[t] = << >>
        /\ fields.hazard = InForm("hazard", Says(typed["hazard"]))
        /\ fields.severity = InForm("severity", Says(typed["severity"]))

\* The menu's "2=Exit" (ClientSession.cpp:290-291): a user who types 2 there gets out, if every
\* number asked for before was answered with one.
ExitLeaves == typed["menu"] = <<"2">> /\ ~ failed ~> place = "left"

\* The severity's prompt, "1-5, or 0 for no debris" (ClientSession.cpp:323): a report that says that
\* there is no debris, and clears the runway, is one whose user typed 0.
ZeroMeansNoDebris ==
    place = "sent" /\ fields.severity = 0 => typed["severity"] = <<"0">>

=======================================================================
