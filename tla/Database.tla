--------------------------- MODULE Database ---------------------------
(* The server and SQL Server: DBHelper, User::authenticateUser and Logger::saveLog, call by call  *)
(* of ODBC, each of which may fail, and the order in which main() and a session make use of them. *)
(* One statement handle is allocated for each query and freed at its end.  Texts are kept by      *)
(* their length, as the tables have narrower columns than the packets have fields; the login      *)
(* packet is a sequence of characters, as it is split at the first colon.                         *)
EXTENDS Integers, Sequences

CONSTANTS
    Automated,   \* FOD_AUTOMATED_TESTING is set
    Alphabet,    \* the characters that may be typed, among them the colon
    Credentials, \* what may be typed: a user and a password, each a sequence of characters
    TestLogin,   \* the credentials in the environment of automated mode
    UserTable,   \* the rows of [User]: a name and the hash of a password as a number in text
    Matches(_, _), \* SQL Server's comparison of two names, which may differ in case
    Hash(_),     \* std::hash of a password, in text; two passwords may have the same
    Reports,     \* reports as a session receives them: the lengths of their texts
    MaxCalls     \* bound: logins and reports in a run

ASSUME DatabaseAssumption ==
    /\ Automated \in BOOLEAN /\ TestLogin \in Credentials /\ MaxCalls \in Nat
    /\ ":" \in Alphabet /\ Credentials \subseteq [user : Seq(Alphabet), pass : Seq(Alphabet)]
    /\ \A r \in Reports : r.zone \in Nat /\ r.officer \in Nat /\ r.desc \in Nat

VARIABLES
    handles,     \* ODBC handles allocated and not freed: "env", "dbc" and statements
    linked,      \* SQLDriverConnect has succeeded, and SQLDisconnect has not been called
    up,          \* SQL Server can be reached over the connection
    op,          \* the function being executed, and its argument
    step,        \* the ODBC call it is about to make
    ok,          \* what it will return
    todo,        \* the functions that main() or the session is going to call
    records,     \* the rows of FODRecords, each with the number of the call that inserted it
    logs,        \* the rows of LogTable
    calls        \* logins and reports so far

dbVars == <<handles, linked, up, op, step, ok, todo, records, logs, calls>>

Idle == [name |-> "none"]

\* What the columns take: FODTable.sql and LogTable.sql.
MaxZone == 100
MaxOfficer == 50
MaxDescription == 1000
MaxMessage == 255

DbInit == /\ handles = {} /\ linked = FALSE /\ up = TRUE /\ op = Idle /\ step = "start"
          /\ ok = FALSE /\ todo = << >> /\ records = {} /\ logs = {} /\ calls = 0

-----------------------------------------------------------------------
(* Opening and closing. *)

\* A failure leaves the handles allocated so far.
OpenConnection ==
    /\ step = "start"
    /\ \/ /\ linked' = TRUE /\ handles' = {"env", "dbc"} /\ step' = "operator"
       \/ /\ UNCHANGED linked /\ handles' \in {{}, {"env"}, {"env", "dbc"}} /\ step' = "failed"
    /\ UNCHANGED <<up, op, ok, todo, records, logs, calls>>

\* MUTANT of CloseConnection: handles of a connection that was never made are not freed.
CloseConnectionIfLinked ==
    /\ step \in {"idle", "failed"} /\ todo = << >> /\ step' = "closed"
    /\ linked' = FALSE /\ handles' = IF linked THEN handles \ {"env", "dbc"} ELSE handles
    /\ UNCHANGED <<up, op, ok, todo, records, logs, calls>>

\* closeConnection, at the end of main() whatever became of openConnection.
CloseConnection ==
    /\ step \in {"idle", "failed"} /\ todo = << >> /\ step' = "closed"
    /\ linked' = FALSE /\ handles' = handles \ {"env", "dbc"}
    /\ UNCHANGED <<up, op, ok, todo, records, logs, calls>>

\* What getDbc returns is not null.
HasDbc == "dbc" \in handles

\* The connection is lost, or the driver restores it.
LinkChanges == up' = ~ up /\ UNCHANGED <<handles, linked, op, step, ok, todo, records, logs, calls>>

-----------------------------------------------------------------------
(* The three functions that query, called by main() and by the session. *)

\* The login packet "user:password" is split at its first colon.
Payload(cred) == cred.user \o <<":">> \o cred.pass

Split(payload) ==
    LET colon == CHOOSE i \in DOMAIN payload :
                    payload[i] = ":" /\ \A j \in 1 .. i - 1 : payload[j] # ":"
    IN  [user |-> SubSeq(payload, 1, colon - 1), pass |-> SubSeq(payload, colon + 1, Len(payload))]

Authenticate(who, typed, cred) ==
    [name |-> "authenticateUser", who |-> who, typed |-> typed, cred |-> cred]

Log(what, subject, len) == [name |-> "saveLog", what |-> what, subject |-> subject, len |-> len]

\* In automated mode main() uses the credentials of the environment.
OperatorLogin ==
    /\ step = "operator" /\ step' = "idle"
    /\ \E typed \in IF Automated THEN {TestLogin} ELSE Credentials :
          todo' = <<Authenticate("operator", typed, typed)>>
    /\ UNCHANGED <<handles, linked, up, op, ok, records, logs, calls>>

\* A session has received a login.
ClientLogin ==
    /\ step = "idle" /\ todo = << >> /\ calls < MaxCalls /\ calls' = calls + 1
    /\ \E typed \in Credentials :
          LET cred == Split(Payload(typed)) IN
          todo' = <<Log("attempt", typed, 23 + Len(cred.user)), Authenticate("client", typed, cred)>>
    /\ UNCHANGED <<handles, linked, up, op, step, ok, records, logs>>

\* A session has received a report, or its header only.  Where a checksum does not agree an entry
\* says so, before the header's or instead of the description's.
ClientReport ==
    /\ step = "idle" /\ todo = << >> /\ calls < MaxCalls /\ calls' = calls + 1
    /\ \E r \in Reports :
       \E corrupt \in {<< >>, <<Log("corrupt", calls', 22)>>} :
       \E text \in {Log("corrupt", calls', 27), Log("description", calls', 30 + r.desc)} :
          LET header == Append(corrupt, Log("header", calls', 45 + r.zone + r.officer)) IN
          todo' \in {header, header \o <<text, [name |-> "saveFOD", id |-> calls', report |-> r]>>}
    /\ UNCHANGED <<handles, linked, up, op, step, ok, records, logs>>

\* The credentials of automated mode are good without a look at the database.
KnownLogin(f) == f.name = "authenticateUser" /\ Automated /\ f.cred = TestLogin

CallNext ==
    /\ step = "idle" /\ todo # << >>
    /\ op' = Head(todo) /\ todo' = Tail(todo)
    /\ ok' = KnownLogin(op') /\ step' = IF ok' THEN "return" ELSE "alloc"
    /\ UNCHANGED <<handles, linked, up, records, logs, calls>>

-----------------------------------------------------------------------
(* Their ODBC calls. *)

Goto(s) == step' = s /\ UNCHANGED <<handles, linked, up, op, ok, todo, records, logs, calls>>

\* Without a connection handle, or a connection, there is no statement.
AllocStatement ==
    /\ step = "alloc"
    /\ \/ /\ HasDbc /\ linked /\ handles' = handles \union {"stmt"} /\ step' = "prepare"
          /\ UNCHANGED <<linked, up, op, ok, todo, records, logs, calls>>
       \/ Goto("return")

\* The statement is prepared, and its parameters are bound.
Prepare == step = "prepare" /\ (Goto("execute") \/ Goto("free"))

\* The row that saveFOD inserts; a description that has been received is never null.
Row(f) == [id |-> f.id, zone |-> f.report.zone, officer |-> f.report.officer, desc |-> f.report.desc]

\* The columns take the row: a text that is too long is refused, not cut.
Fits(row) == row.zone <= MaxZone /\ row.officer <= MaxOfficer /\ row.desc <= MaxDescription

\* MUTANT of ExecuteInsert: the result of SQLExecute is not looked at.
ExecuteInsertUnchecked ==
    /\ step = "execute" /\ op.name = "saveFOD" /\ step' = "free" /\ ok' = TRUE
    /\ \/ up /\ Fits(Row(op)) /\ records' = records \union {Row(op)}
       \/ records' = records
    /\ UNCHANGED <<handles, linked, up, op, todo, logs, calls>>

\* The row is inserted and that is reported; or it is not; or it is, and the answer is lost.
ExecuteInsert ==
    /\ step = "execute" /\ op.name = "saveFOD" /\ step' = "free"
    /\ \/ up /\ Fits(Row(op)) /\ records' = records \union {Row(op)} /\ ok' \in BOOLEAN
       \/ records' = records /\ ok' = FALSE
    /\ UNCHANGED <<handles, linked, up, op, todo, logs, calls>>

\* The row that saveLog inserts.
Entry(f) == [what |-> f.what, subject |-> f.subject]

ExecuteInsertLog ==
    /\ step = "execute" /\ op.name = "saveLog" /\ step' = "free"
    /\ \/ up /\ op.len <= MaxMessage /\ logs' = logs \union {Entry(op)} /\ ok' \in BOOLEAN
       \/ logs' = logs /\ ok' = FALSE
    /\ UNCHANGED <<handles, linked, up, op, todo, records, calls>>

\* MUTANT of ExecuteSelect: any row of the table is compared with.
ExecuteSelectAny ==
    /\ step = "execute" /\ op.name = "authenticateUser" /\ step' = "free"
    /\ \/ up /\ \E row \in UserTable : ok' = (row.hash = Hash(op.cred.pass))
       \/ ok' = FALSE
    /\ UNCHANGED <<handles, linked, up, op, todo, records, logs, calls>>

\* SELECT, fetch of one row of that name, the hash of the password compared with the row's.  Without
\* a row, or when a call fails, the login is refused.
ExecuteSelect ==
    /\ step = "execute" /\ op.name = "authenticateUser" /\ step' = "free"
    /\ \/ up /\ \E row \in UserTable :
                Matches(row.name, op.cred.user) /\ ok' = (row.hash = Hash(op.cred.pass))
       \/ ok' = FALSE
    /\ UNCHANGED <<handles, linked, up, op, todo, records, logs, calls>>

FreeStatement ==
    /\ step = "free" /\ handles' = handles \ {"stmt"} /\ step' = "return"
    /\ UNCHANGED <<linked, up, op, ok, todo, records, logs, calls>>

\* What a session logs next: what became of the login, or of the report and, unless the connection
\* to the client fails, of its answer, which tells the runway's status, and of its bitmap.
Outcomes(f, result) ==
    CASE f.name = "authenticateUser" ->
            {<<Log(IF result THEN "accepted" ELSE "rejected", f.typed, 23 + Len(f.cred.user))>>}
      [] f.name = "saveFOD" ->
            LET saved == IF result THEN Log("saved", f.id, 15 + f.report.zone)
                                   ELSE Log("failed", f.id, 20 + f.report.zone)
            IN  {<<saved>>} \union
                {<<saved, Log("answered", f.id, 65 + status + f.report.zone + f.report.officer),
                   bitmap>> :
                     status \in {Len("HAZARD"), Len("CLEARED")},
                     bitmap \in {Log("bitmap", f.id, 18), Log("bitmap", f.id, 17 + f.report.zone)}}
      [] OTHER -> {todo}

Return ==
    /\ step = "return" /\ op' = Idle /\ ok' = FALSE
    /\ IF op.name = "authenticateUser" /\ op.who = "operator"
       THEN step' = (IF ok THEN "idle" ELSE "failed") /\ UNCHANGED todo
       ELSE step' = "idle" /\ todo' \in Outcomes(op, ok)
    /\ UNCHANGED <<handles, linked, up, records, logs, calls>>

DbClosed == step = "closed" /\ UNCHANGED dbVars

DbNext == \/ OpenConnection \/ CloseConnection \/ LinkChanges
          \/ OperatorLogin \/ ClientLogin \/ ClientReport \/ CallNext
          \/ AllocStatement \/ Prepare \/ ExecuteInsert \/ ExecuteInsertLog \/ ExecuteSelect
          \/ FreeStatement \/ Return \/ DbClosed

DbSpec == DbInit /\ [][DbNext]_dbVars

-----------------------------------------------------------------------
(* Properties. *)

\* No statement survives the function that allocated it, however that function ended, so that none
\* is left when the connection is freed; and closing frees also what a failed opening has left.
HandlesFreed == /\ step \in {"idle", "failed", "closed"} => "stmt" \notin handles
                /\ step = "closed" => handles = {}

\* The log never claims too much: a report logged as saved is in FODRecords with all its texts
\* whole, and a login logged as accepted was one of automated mode or one whose user, but for its
\* case, is in the table with the hash of the password typed (if no colon was typed in the name).
LogTellsTruth ==
    \A l \in logs : LET s == l.subject IN
        /\ l.what = "saved" => \E row \in records : row.id = s /\ Fits(row)
        /\ l.what = "accepted" /\ (\A i \in DOMAIN s.user : s.user[i] # ":") =>
              \/ Automated /\ s = TestLogin
              \/ \E row \in UserTable : Matches(row.name, s.user) /\ row.hash = Hash(s.pass)

=======================================================================
