------------------------ MODULE DatabaseSafety ------------------------
(* That ODBC handles are freed and that the log tells the truth, for every table, hash function,  *)
(* report and order of failures.                                                                  *)
EXTENDS Database, SequenceTheorems, TLAPS

\* Where a statement is allocated: between the allocation that the three functions begin with and
\* the one call that frees it, whichever of their nested checks fails.
Querying == {"prepare", "execute", "free"}

Steps == {"start", "failed", "operator", "idle", "alloc", "return", "closed"} \union Querying

HandlesInv ==
    /\ step \in Steps /\ handles \subseteq {"env", "dbc", "stmt"}
    /\ "stmt" \in handles => step \in Querying
    /\ step \in {"start", "closed"} => handles = {}

-----------------------------------------------------------------------

\* Each ODBC call, and each decision of the session, keeps HandlesInv (DBHelper.cpp, User.cpp, Logger.cpp).
LEMMA HandlesKept ==
    ASSUME HandlesInv, DbNext PROVE HandlesInv'
<1>. USE DEF HandlesInv, Steps, Querying
<1>1. CASE OpenConnection
  BY <1>1 DEF OpenConnection
<1>2. CASE CloseConnection
  BY <1>2 DEF CloseConnection
<1>3. CASE LinkChanges
  BY <1>3 DEF LinkChanges
<1>4. CASE OperatorLogin
  BY <1>4 DEF OperatorLogin
<1>5. CASE ClientLogin
  BY <1>5 DEF ClientLogin
<1>6. CASE ClientReport
  BY <1>6 DEF ClientReport
<1>7. CASE CallNext
  BY <1>7 DEF CallNext
<1>8. CASE AllocStatement
  BY <1>8 DEF AllocStatement, Goto
<1>9. CASE Prepare
  BY <1>9 DEF Prepare, Goto
<1>10. CASE ExecuteInsert
  BY <1>10 DEF ExecuteInsert
<1>11. CASE ExecuteInsertLog
  BY <1>11 DEF ExecuteInsertLog
<1>12. CASE ExecuteSelect
  BY <1>12 DEF ExecuteSelect
<1>13. CASE FreeStatement
  BY <1>13 DEF FreeStatement
<1>14. CASE Return
  <2>1. step' \in {"idle", "failed"} /\ UNCHANGED handles
    BY <1>14 DEF Return
  <2>. QED  BY <2>1, <1>14 DEF Return
<1>15. CASE DbClosed
  BY <1>15 DEF DbClosed, dbVars
<1>. QED
  BY <1>1, <1>2, <1>3, <1>4, <1>5, <1>6, <1>7, <1>8, <1>9, <1>10, <1>11, <1>12, <1>13, <1>14, <1>15
     DEF DbNext

\* No statement outlives its function, and a closed database has no handle left (DBHelper.cpp:86-105).
THEOREM HandlesCorrect == DbSpec => []HandlesFreed
<1>1. DbInit => HandlesInv
  BY DEF DbInit, HandlesInv, Steps, Querying
<1>2. HandlesInv /\ [DbNext]_dbVars => HandlesInv'
  <2>1. CASE UNCHANGED dbVars
    BY <2>1 DEF dbVars, HandlesInv
  <2>. QED  BY <2>1, HandlesKept
<1>3. HandlesInv => HandlesFreed
  BY DEF HandlesInv, HandlesFreed, Querying
<1>. QED  BY <1>1, <1>2, <1>3, PTL DEF DbSpec

-----------------------------------------------------------------------
(* The log. *)

Saved(id) == \E row \in records : row.id = id /\ Fits(row)

Accepts(cred) == \/ Automated /\ cred = TestLogin
                 \/ \E row \in UserTable : Matches(row.name, cred.user) /\ row.hash = Hash(cred.pass)

\* What an entry claims is so.
Claims(l) == /\ l.what = "saved" => Saved(l.subject)
             /\ l.what = "accepted" /\ (\A i \in DOMAIN l.subject.user : l.subject.user[i] # ":")
                   => Accepts(l.subject)

\* What is called claims nothing false, and a client's login is the packet it typed, split.
Honest(f) ==
    /\ f.name = "saveLog" => Claims(f)
    /\ f.name = "authenticateUser" /\ f.who # "operator" =>
          f.typed \in Credentials /\ f.cred = Split(Payload(f.typed))

\* A success that is going to be reported is one.
Result == ok => /\ op.name = "authenticateUser" => Accepts(op.cred)
                /\ op.name = "saveFOD" => Saved(op.id)

IsSequence(s) == \E S : s \in Seq(S)

LogInv == /\ IsSequence(todo)
          /\ ok \in BOOLEAN /\ Honest(op) /\ Result
          /\ \A l \in logs : Claims(l)
          /\ \A i \in DOMAIN todo : Honest(todo[i])

\* Where the parts of a packet are.
LEMMA Parts ==
    ASSUME NEW S, NEW u \in Seq(S), NEW w \in Seq(S), NEW x \in S,
           NEW p, p = u \o <<x>> \o w, NEW n, n = Len(u) + 1
    PROVE  /\ p \in Seq(S) /\ Len(p) = n + Len(w) /\ n \in Nat /\ DOMAIN p = 1 .. Len(p)
           /\ \A i \in 1 .. Len(u) : p[i] = u[i]
           /\ p[n] = x
           /\ \A i \in 1 .. Len(w) : p[n + i] = w[i]
<1>. DEFINE v == u \o <<x>>
<1>1. <<x>> \in Seq(S) /\ Len(<<x>>) = 1 /\ <<x>>[1] = x
  OBVIOUS
<1>2. v \in Seq(S) /\ Len(v) = n /\ v[n] = x /\ \A i \in 1 .. Len(u) : v[i] = u[i]
  BY <1>1
<1>. HIDE DEF v
<1>3. p = v \o w
  BY DEF v
<1>. QED  BY <1>2, <1>3

\* A user name without a colon survives the trip as "user:password" (ServerSession.cpp:191-202).
LEMMA SplitPayload ==
    ASSUME NEW c \in [user : Seq(Alphabet), pass : Seq(Alphabet)], \A i \in DOMAIN c.user : c.user[i] # ":"
    PROVE  Split(Payload(c)) = c
<1>. DEFINE u == c.user
            w == c.pass
            p == Payload(c)
            n == Len(u) + 1
            First(i) == p[i] = ":" /\ \A j \in 1 .. i - 1 : p[j] # ":"
<1>1. u \in Seq(Alphabet) /\ w \in Seq(Alphabet) /\ c = [user |-> u, pass |-> w]
  OBVIOUS
<1>2. p = u \o <<":">> \o w
  BY DEF Payload
<1>3. \A i \in 1 .. Len(u) : u[i] # ":"
  BY <1>1
<1>. SUFFICES [user |-> SubSeq(p, 1, (CHOOSE i \in DOMAIN p : First(i)) - 1),
               pass |-> SubSeq(p, (CHOOSE i \in DOMAIN p : First(i)) + 1, Len(p))]
              = [user |-> u, pass |-> w]
  BY <1>1 DEF Split
<1>. HIDE DEF u, w, p
<1>4. /\ p \in Seq(Alphabet) /\ Len(p) = n + Len(w) /\ n \in Nat /\ DOMAIN p = 1 .. Len(p)
      /\ \A i \in 1 .. Len(u) : p[i] = u[i]
      /\ p[n] = ":"
      /\ \A i \in 1 .. Len(w) : p[n + i] = w[i]
  <2>1. ":" \in Alphabet
    BY DatabaseAssumption
  <2>2. n = Len(u) + 1
    OBVIOUS
  <2>. HIDE DEF n
  <2>. QED  BY <1>1, <1>2, <2>1, <2>2, Parts
<1>5. Len(u) \in Nat /\ Len(w) \in Nat /\ n = Len(u) + 1
  BY <1>1
<1>. HIDE DEF n
<1>6. n \in DOMAIN p /\ First(n)
  <2>1. n \in DOMAIN p
    BY <1>4, <1>5
  <2>2. \A j \in 1 .. n - 1 : p[j] = u[j] /\ u[j] # ":"
    BY <1>3, <1>4, <1>5
  <2>. QED  BY <2>1, <2>2, <1>4
<1>7. \A i \in DOMAIN p : First(i) => i = n
  <2>1. SUFFICES ASSUME NEW i \in DOMAIN p, First(i), i # n PROVE FALSE
    OBVIOUS
  <2>2. i \in Nat /\ i >= 1
    BY <1>4
  <2>3. CASE i < n
    <3>1. i \in 1 .. Len(u)
      BY <2>2, <2>3, <1>5
    <3>2. p[i] = u[i] /\ u[i] # ":"
      BY <3>1, <1>3, <1>4
    <3>. QED  BY <2>1, <3>2
  <2>4. CASE i > n
    <3>1. n \in 1 .. i - 1
      BY <2>2, <2>4, <1>5
    <3>. QED  BY <2>1, <3>1, <1>4
  <2>. QED  BY <2>1, <2>2, <2>3, <2>4, <1>5
<1>8. n = CHOOSE i \in DOMAIN p : First(i)
  <2>. HIDE DEF First
  <2>. QED  BY <1>6, <1>7
<1>9. SubSeq(p, 1, n - 1) = u
  <2>1. n - 1 = Len(u) /\ n - 1 <= Len(p)
    BY <1>4, <1>5
  <2>2. SubSeq(p, 1, n - 1) \in Seq(Alphabet) /\ Len(SubSeq(p, 1, n - 1)) = Len(u)
    BY <2>1, <1>4, <1>5
  <2>3. \A i \in 1 .. Len(u) : SubSeq(p, 1, n - 1)[i] = u[i]
    BY <2>1, <1>4, <1>5
  <2>. QED  BY <2>2, <2>3, <1>1, SeqEqual
<1>10. SubSeq(p, n + 1, Len(p)) = w
  <2>1. SubSeq(p, n + 1, Len(p)) \in Seq(Alphabet) /\ Len(SubSeq(p, n + 1, Len(p))) = Len(w)
    BY <1>4, <1>5
  <2>2. \A i \in 1 .. Len(w) : SubSeq(p, n + 1, Len(p))[i] = w[i]
    BY <1>4, <1>5
  <2>. QED  BY <2>1, <2>2, <1>1, SeqEqual
<1>. QED  BY <1>8, <1>9, <1>10

\* What a packet is split into is accepted only if what was typed is.
LEMMA AcceptsTyped ==
    ASSUME NEW c \in Credentials, \A i \in DOMAIN c.user : c.user[i] # ":",
           Accepts(Split(Payload(c)))
    PROVE  Accepts(c)
<1>1. Split(Payload(c)) = c
  BY SplitPayload, DatabaseAssumption
<1>. QED  BY <1>1

\* Rows are never deleted, so that what was true of the table stays true.
LEMMA SavedStays ==
    ASSUME records \subseteq records', NEW id, Saved(id) PROVE Saved(id)'
BY DEF Saved, Fits, MaxZone, MaxOfficer, MaxDescription

\* Nor does what is called become dishonest while rows are added.
LEMMA HonestStays ==
    ASSUME records \subseteq records', NEW f, Honest(f) PROVE Honest(f)'
<1>1. Claims(f) => Claims(f)'
  BY SavedStays DEF Claims, Accepts
<1>. QED  BY <1>1 DEF Honest

\* LogInv holds after a step that deletes no row, if what is called next, and what is logged, was
\* honest before it.
LEMMA LogStep ==
    ASSUME LogInv, records \subseteq records',
           IsSequence(todo'), \A i \in DOMAIN todo' : Honest(todo'[i]),
           Honest(op'), ok' \in BOOLEAN, Result',
           \A l \in logs' : Claims(l)
    PROVE  LogInv'
<1>1. \A f : Honest(f) => Honest(f)'
  BY HonestStays
<1>2. \A l : Claims(l) => Claims(l)'
  BY SavedStays DEF Claims, Accepts
<1>3. (\A i \in DOMAIN todo : Honest(todo[i]))'
  BY <1>1 DEF Honest, Claims, Saved, Fits, Accepts
<1>4. Honest(op)'
  BY <1>1 DEF Honest, Claims, Saved, Fits, Accepts
<1>5. (\A l \in logs : Claims(l))'
  BY <1>2
<1>. QED  BY <1>3, <1>4, <1>5 DEF LogInv, IsSequence

\* A success stays one.
LEMMA ResultStays ==
    ASSUME LogInv, records \subseteq records', UNCHANGED <<op, ok>> PROVE Result'
BY SavedStays DEF LogInv, Result, Accepts

-----------------------------------------------------------------------

\* Each ODBC call, and each thing the session logs of its result, keeps LogInv (DBHelper.cpp:107-214,
\* User.cpp:42-112, Logger.cpp:39-112, ServerSession.cpp:184-223 and 296-372).
LEMMA LogKept ==
    ASSUME LogInv, DbNext PROVE LogInv'
<1>0. /\ IsSequence(todo) /\ ok \in BOOLEAN /\ Honest(op) /\ \A l \in logs : Claims(l)
      /\ \A i \in DOMAIN todo : Honest(todo[i])
  BY DEF LogInv
<1>1. CASE UNCHANGED <<op, ok, todo, records, logs>>
  BY <1>0, <1>1, LogStep, ResultStays
<1>2. CASE OpenConnection \/ CloseConnection \/ LinkChanges \/ AllocStatement \/ Prepare
             \/ FreeStatement \/ DbClosed
  BY <1>1, <1>2 DEF OpenConnection, CloseConnection, LinkChanges, AllocStatement, Prepare, Goto,
                    FreeStatement, DbClosed, dbVars
<1>3. ASSUME NEW a, NEW b, NEW c, Honest(a), Honest(b), Honest(c),
             todo' \in {<<a>>, <<a, b>>, <<a, b, c>>}
      PROVE  IsSequence(todo') /\ \A i \in DOMAIN todo' : Honest(todo'[i])
  <2>1. \A s \in {<<a>>, <<a, b>>, <<a, b, c>>} : IsSequence(s)
    <3>1. <<a>> \in Seq({a, b, c}) /\ <<a, b>> \in Seq({a, b, c}) /\ <<a, b, c>> \in Seq({a, b, c})
      OBVIOUS
    <3>. QED  BY <3>1 DEF IsSequence
  <2>2. \A s \in {<<a>>, <<a, b>>, <<a, b, c>>} : \A i \in DOMAIN s : s[i] \in {a, b, c}
    OBVIOUS
  <2>3. IsSequence(todo') /\ \A i \in DOMAIN todo' : todo'[i] \in {a, b, c}
    BY <1>3, <2>1, <2>2
  <2>. QED  BY <1>3, <2>3
<1>4. CASE OperatorLogin
  <2>1. PICK typed : todo' = <<Authenticate("operator", typed, typed)>>
    BY <1>4 DEF OperatorLogin
  <2>2. Honest(Authenticate("operator", typed, typed))
    BY DEF Honest, Authenticate
  <2>3. UNCHANGED <<op, ok, records, logs>>
    BY <1>4 DEF OperatorLogin
  <2>4. IsSequence(todo') /\ \A i \in DOMAIN todo' : Honest(todo'[i])
    BY <1>3, <2>1, <2>2
  <2>. QED  BY <1>0, <2>3, <2>4, LogStep, ResultStays
<1>5. CASE ClientLogin
  <2>1. PICK typed \in Credentials :
           todo' = <<Log("attempt", typed, 23 + Len(Split(Payload(typed)).user)),
                     Authenticate("client", typed, Split(Payload(typed)))>>
    BY <1>5 DEF ClientLogin
  <2>2. Honest(Authenticate("client", typed, Split(Payload(typed))))
    BY DEF Honest, Authenticate
  <2>3. Honest(Log("attempt", typed, 23 + Len(Split(Payload(typed)).user)))
    BY DEF Honest, Log, Claims
  <2>4. UNCHANGED <<op, ok, records, logs>>
    BY <1>5 DEF ClientLogin
  <2>5. IsSequence(todo') /\ \A i \in DOMAIN todo' : Honest(todo'[i])
    BY <1>3, <2>1, <2>2, <2>3
  <2>. QED  BY <1>0, <2>4, <2>5, LogStep, ResultStays
<1>6. CASE ClientReport
  <2>. DEFINE k == Log("corrupt", calls', 22)
  <2>1. PICK r \in Reports :
        \E corrupt \in {<< >>, <<k>>} :
        \E text \in {Log("corrupt", calls', 27), Log("description", calls', 30 + r.desc)} :
           LET header == Append(corrupt, Log("header", calls', 45 + r.zone + r.officer)) IN
           todo' \in {header, header \o <<text, [name |-> "saveFOD", id |-> calls', report |-> r]>>}
    BY <1>6 DEF ClientReport
  <2>. DEFINE h == Log("header", calls', 45 + r.zone + r.officer)
              f == [name |-> "saveFOD", id |-> calls', report |-> r]
  <2>6. PICK corrupt \in {<< >>, <<k>>},
             text \in {Log("corrupt", calls', 27), Log("description", calls', 30 + r.desc)} :
           todo' \in {Append(corrupt, h), Append(corrupt, h) \o <<text, f>>}
    BY <2>1
  <2>2. Honest(k) /\ Honest(h) /\ Honest(text) /\ Honest(f)
    BY <2>6 DEF Honest, Log, Claims
  <2>. DEFINE S == {k, h, text, f}
  <2>5. todo' \in Seq(S)
    <3>. HIDE DEF k, h, f
    <3>1. << >> \in Seq(S) /\ <<k>> \in Seq(S)
      OBVIOUS
    <3>2. <<text, f>> \in Seq(S) /\ h \in S
      OBVIOUS
    <3>. HIDE DEF S
    <3>. QED  BY <2>6, <3>1, <3>2
  <2>3. UNCHANGED <<op, ok, records, logs>>
    BY <1>6 DEF ClientReport
  <2>. HIDE DEF k, h, f
  <2>4. IsSequence(todo') /\ \A i \in DOMAIN todo' : Honest(todo'[i])
    <3>1. IsSequence(todo')
      BY <2>5 DEF IsSequence
    <3>2. \A i \in DOMAIN todo' : todo'[i] \in S
      BY <2>5
    <3>. QED  BY <2>2, <3>1, <3>2
  <2>. QED  BY <1>0, <2>3, <2>4, LogStep, ResultStays
<1>7. CASE CallNext
  <2>1. /\ todo # << >> /\ op' = Head(todo) /\ todo' = Tail(todo) /\ ok' = KnownLogin(op')
        /\ UNCHANGED <<records, logs>>
    BY <1>7 DEF CallNext
  <2>2. PICK S : todo \in Seq(S)
    BY <1>0 DEF IsSequence
  <2>3. Honest(op')
    BY <1>0, <2>1, <2>2
  <2>4. todo' \in Seq(S) /\ \A i \in DOMAIN todo' : i + 1 \in DOMAIN todo /\ todo'[i] = todo[i + 1]
    BY <2>1, <2>2
  <2>5. IsSequence(todo') /\ \A i \in DOMAIN todo' : Honest(todo'[i])
    BY <1>0, <2>4 DEF IsSequence
  <2>6. ok' \in BOOLEAN /\ Result'
    BY <2>1 DEF Result, KnownLogin, Accepts
  <2>. QED  BY <1>0, <2>1, <2>3, <2>5, <2>6, LogStep
<1>8. CASE ExecuteInsert
  <2>1. op.name = "saveFOD" /\ UNCHANGED <<op, todo, logs>> /\ ok' \in BOOLEAN
    BY <1>8 DEF ExecuteInsert
  <2>2. records \subseteq records' /\ (ok' => Row(op) \in records' /\ Fits(Row(op)))
    BY <1>8 DEF ExecuteInsert
  <2>3. Row(op).id = op.id
    BY DEF Row
  <2>4. Result'
    BY <2>1, <2>2, <2>3 DEF Result, Saved, Fits, MaxZone, MaxOfficer, MaxDescription
  <2>. QED  BY <1>0, <2>1, <2>2, <2>4, LogStep
<1>9. CASE ExecuteInsertLog
  <2>1. /\ op.name = "saveLog" /\ UNCHANGED <<op, todo, records>> /\ ok' \in BOOLEAN
        /\ logs' \subseteq logs \union {Entry(op)}
    BY <1>9 DEF ExecuteInsertLog
  <2>2. \A l \in logs' : Claims(l)
    <3>1. Claims(Entry(op))
      BY <1>0, <2>1 DEF Honest, Claims, Entry
    <3>. QED  BY <1>0, <2>1, <3>1
  <2>3. Result'
    BY <2>1 DEF Result
  <2>. QED  BY <1>0, <2>1, <2>2, <2>3, LogStep
<1>10. CASE ExecuteSelect
  <2>1. /\ op.name = "authenticateUser" /\ UNCHANGED <<op, todo, records, logs>>
        /\ \/ \E row \in UserTable : Matches(row.name, op.cred.user) /\ ok' = (row.hash = Hash(op.cred.pass))
           \/ ok' = FALSE
    BY <1>10 DEF ExecuteSelect
  <2>2. ok' \in BOOLEAN /\ (ok' => Accepts(op.cred))
    BY <2>1 DEF Accepts
  <2>3. Result'
    BY <2>1, <2>2 DEF Result, Accepts
  <2>. QED  BY <1>0, <2>1, <2>2, <2>3, LogStep
<1>11. CASE Return
  <2>1. op' = Idle /\ ok' = FALSE /\ UNCHANGED <<records, logs>>
    BY <1>11 DEF Return
  <2>2. Honest(op') /\ Result'
    BY <2>1 DEF Honest, Idle, Result
  <2>3. CASE UNCHANGED todo
    BY <1>0, <2>1, <2>2, <2>3, LogStep
  <2>4. CASE op.name = "authenticateUser" /\ op.who # "operator"
    <3>1. todo' = <<Log(IF ok THEN "accepted" ELSE "rejected", op.typed, 23 + Len(op.cred.user))>>
      BY <1>11, <2>4 DEF Return, Outcomes
    <3>2. op.typed \in Credentials /\ op.cred = Split(Payload(op.typed))
      BY <1>0, <2>4 DEF Honest
    <3>3. ok => Accepts(op.cred)
      BY <2>4 DEF LogInv, Result
    <3>4. ok /\ (\A i \in DOMAIN op.typed.user : op.typed.user[i] # ":") => Accepts(op.typed)
      BY <3>2, <3>3, AcceptsTyped
    <3>5. Honest(Log(IF ok THEN "accepted" ELSE "rejected", op.typed, 23 + Len(op.cred.user)))
      BY <1>0, <3>4 DEF Honest, Log, Claims
    <3>6. IsSequence(todo') /\ \A i \in DOMAIN todo' : Honest(todo'[i])
      BY <1>3, <3>1, <3>5
    <3>. QED  BY <1>0, <2>1, <2>2, <3>6, LogStep
  <2>5. CASE op.name = "saveFOD"
    <3>. DEFINE saved == IF ok THEN Log("saved", op.id, 15 + op.report.zone)
                               ELSE Log("failed", op.id, 20 + op.report.zone)
    <3>1. PICK answered, bitmap : /\ todo' \in {<<saved>>, <<saved, answered, bitmap>>}
                                  /\ Honest(answered) /\ Honest(bitmap)
      <4>. DEFINE Answer(status) == Log("answered", op.id, 65 + status + op.report.zone + op.report.officer)
                  Bitmaps == {Log("bitmap", op.id, 18), Log("bitmap", op.id, 17 + op.report.zone)}
      <4>1. todo' \in {<<saved>>} \union {<<saved, Answer(status), bitmap>> :
                          status \in {Len("HAZARD"), Len("CLEARED")}, bitmap \in Bitmaps}
        BY <1>11, <2>5 DEF Return, Outcomes
      <4>2. \A status : Honest(Answer(status))
        BY DEF Honest, Log, Claims
      <4>3. \A bitmap \in Bitmaps : Honest(bitmap)
        BY DEF Honest, Log, Claims
      <4>. HIDE DEF saved, Answer, Bitmaps
      <4>4. CASE todo' = <<saved>>
        BY <4>2, <4>4
      <4>5. CASE \E status, bitmap : bitmap \in Bitmaps /\ todo' = <<saved, Answer(status), bitmap>>
        BY <4>2, <4>3, <4>5
      <4>. QED  BY <4>1, <4>4, <4>5
    <3>2. ok => Saved(op.id)
      BY <2>5 DEF LogInv, Result
    <3>3. Honest(saved)
      BY <1>0, <3>2 DEF Honest, Log, Claims
    <3>. HIDE DEF saved
    <3>4. IsSequence(todo') /\ \A i \in DOMAIN todo' : Honest(todo'[i])
      BY <1>3, <3>1, <3>3
    <3>. QED  BY <1>0, <2>1, <2>2, <3>4, LogStep
  <2>6. CASE op.name \notin {"authenticateUser", "saveFOD"}
    BY <1>11, <2>3, <2>6 DEF Return, Outcomes
  <2>. QED  BY <1>11, <2>3, <2>4, <2>5, <2>6 DEF Return
<1>. QED
  BY <1>2, <1>4, <1>5, <1>6, <1>7, <1>8, <1>9, <1>10, <1>11 DEF DbNext

\* A report logged as saved is in FODRecords, whole, and a login logged as accepted was a good one,
\* in whatever order calls fail and answers are lost (ServerSession.cpp:204-223, 336-366).
THEOREM LogCorrect == DbSpec => []LogTellsTruth
<1>1. DbInit => LogInv
  <2>. SUFFICES ASSUME DbInit PROVE LogInv
    OBVIOUS
  <2>1. << >> \in Seq({}) /\ DOMAIN << >> = {}
    OBVIOUS
  <2>2. IsSequence(todo) /\ \A i \in DOMAIN todo : Honest(todo[i])
    BY <2>1 DEF DbInit, IsSequence
  <2>3. Honest(op) /\ ok = FALSE /\ logs = {}
    BY DEF DbInit, Honest, Idle
  <2>. QED  BY <2>2, <2>3 DEF LogInv, Result
<1>2. LogInv /\ [DbNext]_dbVars => LogInv'
  <2>1. CASE UNCHANGED dbVars
    BY <2>1 DEF dbVars, LogInv, IsSequence, Honest, Claims, Accepts, Saved, Result
  <2>. QED  BY <2>1, LogKept
<1>3. LogInv => LogTellsTruth
  BY DEF LogInv, LogTellsTruth, Claims, Saved, Accepts
<1>. QED  BY <1>1, <1>2, <1>3, PTL DEF DbSpec

=======================================================================
