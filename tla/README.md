# FOD reporting: a TLA+ verification project

Ground crews report foreign object debris (FOD) on a runway with a console client. The client
sends each report to a console server in the tower, which alerts the operator, records the report
in SQL Server, sets the runway status, and answers with a confirmation text and a bitmap of the
runway. This directory holds TLA+ modules that model the two programs and the connection between
them, the TLC configurations that check them, and theorems that TLAPS proves about them.

`PROJECT.json` lists the components, the runs, the mutants that show each property can fail, the
source lines each definition stands for, the findings, the hazards and the theorems. Paths below
are relative to `src/`.

## 1. The system

| Component | Code | State | Operations |
| --- | --- | --- | --- |
| Server session | `FOD-SERVER/ServerSession.cpp` | its place in `runServerSession`, the header of the report in hand, the answers left to send | log a client in; wait 90 s for a packet; receive a length, a packet, a description; acknowledge a heartbeat; record and answer a report |
| Server runway state machine | `FOD-SERVER/ServerStateMachine.cpp` | `currentState`, local to a session | `transition`, `canAcceptReport`, `getState` (the last two are never called by the server) |
| Client session | `FOD-CLIENT/ClientSession.cpp` | its place in `runClientSession`, `heartbeatRunning`, `heartbeatPaused` | log in; menu; form; send a report; receive the confirmation, then the bitmap |
| Heartbeat thread | `ClientSession.cpp:104-132` | its place, the same two flags | wake once a minute, look at the flags, send a heartbeat |
| Client state machine | `FOD-CLIENT/ClientStateMachine.cpp` | `currentState` | `transition`, `canReport` |
| Connection | Winsock, not in the repository | two byte streams, closed ends, dead ends | `send`, `recv`, `select`, `closesocket`; loss, reset, giving up |
| Packets | `PacketSerializer.cpp`, `PacketDeserializer.cpp`, the headers beside them | none | write and read fields, a checksum of a header and of a description |
| Authentication | `FOD-SERVER/User.cpp` | none | split the credentials, hash, look up `UserTable` |
| Database helper | `FOD-SERVER/DBHelper.cpp`, the widths of the tables in `FODDatabase/` | an ODBC connection and its handles | open, query, `saveFOD`, close |
| Server logger | `FOD-SERVER/Logger.cpp` | rows of `LogTable` | `saveLog`; `log` writes to the console |
| Bitmap generator | `FOD-SERVER/BitmapGenerator.cpp` | none | draw the grid with one highlighted cell |
| Server process | `FOD-SERVER.cpp` | sockets, return code | operator's login, listen, accept with a 120 s wait, one session (any number when automated) |
| Client process | `FOD-CLIENT.cpp` | socket, exit code | connect, set the receive timeout, one session |
| Client's input | `ClientSession.cpp:83-100, 289-356` | `std::cin` and its failbit, the fields of the form | menu, numbers with `>>`, texts with `getline` |
| Client logger, console utilities, tests | `FOD-CLIENT/Logger.cpp`, `utils.cpp`, `UnitTests/`, `FOD-Test/` | files, the console | output only |

**How they interact.** The server runs one session in one thread: every answer is sent before the
next packet is looked at. The client runs two threads on *one* socket with no lock. The main thread
sends a report in four `send` calls (length, header, length, description) and then reads; the
heartbeat thread sends in two (length 4, type 6) and *never reads*, so the server's
acknowledgement of a heartbeat (4, 6) stays in the client's receive buffer. The threads share two
atomic flags, checked by the heartbeat thread once before it sends.
No packet carries a report number, so both programs rely on the order of bytes alone.
Around the sessions, one server process accepts the connections of any number of client processes
from the kernel's queue, one at a time: what a session owes to both `main()` functions is written down in
`SessionContract`. The session, the login and the logger share one database connection.

**What is hard here.**

- A heartbeat that passed its check of the pause flag before the main thread set it goes out
  between the sends of a report. The server then reads bytes that are not what it takes them for.
- An acknowledgement that nobody reads is taken for the next response. Every later read is shifted.
- Receives time out on the client (`SO_RCVTIMEO`, set for the handshake at `FOD-CLIENT.cpp:113` and
  never reset), after which the answer may still come; a failed bitmap is only a warning.
- The server waits 90 s for the first byte of a packet but for ever for the rest of it, and for
  ever for the login.
- The results of all calls of `transition` are ignored.
- Each program can end or lose the connection while the other is in any call.
- Each `main()` may leave after the failure of any of its calls, with releases of its own before the common ones.
- The answer to an `INSERT` can be lost with the connection, so the server's idea of what is saved
  can differ from the table's.
- The heartbeat thread sleeps a whole interval more when it finds the pause flag set, so how long a form may
  stay open depends on the phase of that thread.
- `>>`, `ignore()` and `getline()` share the line ends of one input, whose failure nobody tests.

**What makes each part right.** *Server session*: nothing is recorded before a login; what it
records is what the client filed; it ends when the client goes. *Runway state machine*: no
transition the code asks for is refused, and the status shown is that of the last report.
*Client session*: a confirmation or bitmap is taken for a report only if it is that report's;
exchanges end; the pause flag is off whenever the menu is shown. *Heartbeat thread*: it stops
when the loop ends, so the join returns. *Connection*: nothing to prove; it is the environment.
*Packets*: what is parsed is what was built, and no length makes a read out of bounds.
*Accept loop*: a session that ends leaves the server listening or stopped, as the mode says, and a connection waits for ever behind a user only.
*Both processes*: whatever fails, all that was acquired is released, and the exit code is true. *Database*:
no handle outlives its use, and the log claims nothing that is not in the tables. *Bitmap*: a viewer
sees the reported cell. *Client's input*: a field is what was typed at its prompt, and 2 leaves.
*Heartbeat*: the server gives up no client whose user does nothing.

## 2. The modules

| Module | Models | Uses |
| --- | --- | --- |
| `TcpConnection` | the byte streams and every way a socket call can end (external) | |
| `FodPackets` | the packets, the limits on lengths, what misplaced bytes may be read as | `TcpConnection` |
| `ServerStateMachine`, `ClientStateMachine` | edge tables, `transition`, `canReport` | |
| `ServerSession` | `runServerSession` and the close after it, one action per blocking call | `FodPackets`, `ServerStateMachine` |
| `ClientSession` | `runClientSession`, the heartbeat thread, the close after it | `FodPackets`, `ClientStateMachine` |
| `ReportDelivery` | the abstract promise: file, log in order, tell the crew of the report just filed, or of none | |
| `FODSystem` | composition of both sessions, fairness, properties, the two refinements | both sessions, `ReportDelivery`, `SessionContract` |
| `FODSystemSafety` | proofs of the types, of three invariants and of the steps of the session contract; lemmas on streams and packets | `FODSystem`, `TLAPS` |
| `FODSystemLedger` | proofs that the ledger is faithful and in order | `FODSystemSafety` |
| `FODSystemDelivery` | proofs that `ReportDelivery` is kept in a session without heartbeats, and that answers come in order in every session | `FODSystemSafety`, `FODSystemLedger` |
| `SessionContract` | the abstract promise of one session to the rest of the two programs | |
| `ServerMain`, `ClientMain` | both `main()` functions, one action per call that may fail or wait | |
| `Deployment` | one server, several clients, queue, termination and restart; sessions as `SessionContract` allows | `ServerMain`, `ClientMain`, `SessionContract` |
| `DeploymentSafety` | proofs of two invariants and of the sessions' contract | `Deployment`, `TLAPS` |
| `PacketCodec` | reports as bytes: serializers, deserializers, the stream, two sending threads | |
| `PacketCodecSafety` | proof that the deserializers undo the serializers, over the stream | `PacketCodec`, `SequenceTheorems`, `TLAPS` |
| `HeartbeatTiming` | the heartbeat against the server's watch, in discrete time | |
| `HeartbeatTimingProofs` | proof that only slow forms lose a session | `HeartbeatTiming`, `TLAPS` |
| `Database` | `DBHelper`, `authenticateUser`, `saveLog`, ODBC call by ODBC call, as `main()` and a session use them | |
| `DatabaseSafety` | proofs of two invariants | `Database`, `SequenceTheorems`, `TLAPS` |
| `ClientInput` | the menu and the form, as `std::cin` reads them | |
| `RunwayBitmap` | `zoneToGrid` and the BMP file as functions, and what a viewer makes of a file | |
| `ZonePicture` | composition of the two: from what is typed to the picture that the crew gets back | `ClientInput`, `RunwayBitmap` |
| `ZonePictureSafety` | proofs of its two invariants | `ZonePicture`, `WellFoundedInduction`, `TLAPS` |
| `MC...` | constants for TLC | the module of that name |

A session is modelled at four depths that do not overlap. `FODSystem` has all its control, with packets as values.
`PacketCodec` has the bytes of the packets and little else. `HeartbeatTiming` has the clock. `SessionContract`
has only what `main()` sees, and `FODSystem` is shown to implement it.

**Grain.** An action is one blocking call of one thread and everything the code does until its next
blocking call, `transition` calls, flags and early returns included. Between two actions any other
thread may run, so a heartbeat can fall between any two sends of a report.

**Streams.** In `FODSystem` a stream is a sequence of *chunks*, one per `send`, each with a kind, the byte offset
at which it ends, and the few values anybody asks about: the report it belongs to, an integer, a
credential or status. Reads ask for a number of *bytes*. A read of exactly one chunk gets that
chunk. Any other read gets `scrambled` bytes, and a chunk read in part leaves a remnant. So the
model knows when a reader has lost its place, without spelling out bytes. Four scrambled bytes
read as an integer may be any member of `MisreadInts`. Four bytes at the front of a known chunk
read as what they are (the `FOD ` of a confirmation, the `BM` of a bitmap, the type of a header).

**State and code of the sessions.**

| Variable | In the code |
| --- | --- |
| `phase` | the call `runServerSession` is in: login receive (`auth`), `select`, length, payload, description's length, description, `sendAll`; then `ended` (returned) and `closed` (`closesocket` in `main`) |
| `ss`, `cs` | `sm.currentState` of the server and the client |
| `want`, `need` | the length just received, the size of the next receive |
| `hdr`, `out` | the parsed header; the answers left to send |
| `main`, `hb` | the calls of the client's main thread and of its heartbeat thread |
| `running`, `paused` | `heartbeatRunning`, `heartbeatPaused` |
| `authenticated` | the result of `authenticateUser` |
| `ledger`, `reports`, `shown`, `pics` | histories: recorded, filed, displayed, saved. No guard of the code's model reads them but for the bound on reports and the number of the current one |
| `c2s`, `s2c`, `closed`, `down` | bytes under way, closes the peer can see, ends whose calls all fail |

**Abstractions to know of.**

- The several sends of one answer (response; bitmap; acknowledgement) are one step: no other thread
  sends on the server's socket. The answer may exceed the window, and then `SrvSendDone` waits
  until the client has read enough.
- The client's sends never block: what it sends before it waits for an answer is far smaller than
  a socket buffer.
- `HbWake` reads both flags in one step, and leaving the loop and clearing
  `heartbeatRunning` are one step: the two loads are in consecutive expressions and
  the order of a store and loads a minute apart changes nothing that is sent.
- A receive of the bitmap or of its type or size that fails may have consumed any number of bytes short of what it waited for; which
  numbers is the constant `Partials`. `recvAll` counts them and forgets the count. In the other receives a failure ends
  the session, so that what it consumed is not looked at again.
- What is left of a bitmap keeps its kind, so that an integer that begins among the pixels is the one value `PixelWord`, which like
  all others that the pixels make is refused as a length and is no type.
- `MisreadInts` never contains 5, a bitmap's type: no byte of a confirmation or of a
  bitmap is 5, and where a read straddles an integer 5 the byte is not the lowest of four
  (`FodPackets` gives the argument).
- A header whose bytes are scrambled is parsed into a header of no report (id 0) with severity 0
  or 1, or not at all when too short. The checksum is only logged by the code, so it restricts
  nothing.
- In automated mode the client sleeps after starting its heartbeat: a user who never
  answers the menu.
- An operator's console and the wording of texts are left out.

**The other modules: state, code, and what they leave out.**

- *`ServerMain`*: `pc` is the call `main()` is in, `held` what it has acquired and not released,
  `queue` the kernel's queue behind the listening socket, `serving` and `srv` the session being run.
  After a failure the remaining parts are skipped, as `main()` does with its `returnCode`. The releases of the error paths
  and those at the end overlap in the code; a second release of a socket fails and changes nothing.
- *`ClientMain`*: functions over the clients; `left` counts the addresses still to be tried. A socket is named by what was
  left when it was opened, so that closing the wrong one would show.
- *`Deployment`*: each client has at most one connection, hence one session, in its life: the program
  makes no second. Termination of a process (`ServerKilled`, `ClientKilled`) may come between any
  two calls, and gives back what the process held. A server started again has the same mode.
  The server may leave a session at any time, as `SessionContract` says, and a client's login may be sent all the same.
- *`PacketCodec`*: `stream` is a sequence of bytes, `chunk` the next of the main thread's four sends, `beat` the
  place of the heartbeat thread between its two. The answers are `FODSystem`'s concern, so the client
  may file its next report at once and a heartbeat may come at any moment, more orders than the programs
  have. Left out: sums of an offset and
  a length that would wrap at 32 bits, as a length is compared with the rest of the packet before. The reports are those whose
  packets are at most 65536 bytes long (`SizesAssumption`): the client sends longer ones too, and the server ends the session at their length.
- *`HeartbeatTiming`*: one tick is a unit of time (a second in the run). A message is whole, and arrives
  within `Delay`; the thread's sleep takes up to `Drift` longer than asked; a user takes up to
  `MaxForm` for a form. What is in a message, and a heartbeat that is sent during an exchange, are `FODSystem`'s and `PacketCodec`'s concern.
- *`Database`*: `step` is the ODBC call about to be made within the function `op`, `todo` the functions
  that the session calls next. Texts are their lengths, against the widths of the columns in `FODTable.sql` and
  `LogTable.sql`, as nothing else of a text decides whether a row is taken. SQL Server refuses a text that does not fit.
  The connection may come and go (`LinkChanges`), and each call may fail for no visible reason.
  The login packet is a sequence of characters, as it is split at its first colon. Names are compared as SQL Server does
  by default, whatever their case: `Matches` is a constant. Hashes may collide, as `std::hash` may.
- *`RunwayBitmap`*: no state; a file is a function from offsets to bytes. The property reads it by the BMP format
  (rows from the bottom, padded to four bytes), in definitions that share no formula with those that write it.
- *`ZonePicture`*: the server draws the zone that the client has in its form; `PacketCodec` shows that
  it travels unchanged.
- *`ClientInput`*: `input` is what has been typed and not read; the console hands over whole lines.
  The exchange after the form is one step. The program's own reads are its only fair actions.

## 3. The runs

`MCFODSystem` gives the sizes the programs themselves use for a short report (header 46, description
30, text 64, bitmap 1080054 bytes, window 65536). All runs use them; only the counts differ. The
misread integers have one value for each branch that a length or a type can take: refused (-1), too
short for a type (3), a heartbeat's type and too short for a header (6), long enough (40). A failed receive has consumed nothing,
half an integer, a bitmap up to the middle of its header, or all but 48 or all but 4 of its bytes: what is left then begins in its header,
among its pixels with room for a length, a response of 40 bytes and a type, or with room for a length alone.

| Run | Bounds | Shows |
| --- | --- | --- |
| `Reliable` | 3 reports, severities 0, 3, 9, no faults, no heartbeat | every report filed is recorded, confirmed with its status and followed by its bitmap |
| `Faulty` | 3 reports, all faults, no heartbeat | `ConfirmationMatchesReport`, `BitmapMatchesReport`, and the system implements `ReportDelivery` |
| `Heartbeats` | 2 reports, 2 heartbeats, all faults | `TypeOK`, `RunwayStateAgrees`, `OnlyAuthenticatedReport`, `LedgerFaithful`, `RecordedInOrder`, `AnswersInOrder`, `ClientStateAgrees` |
| `Progress` | 2 reports, 1 heartbeat, timeouts | `ExchangeEnds`, `ClientExits`, and the system implements `SessionContract`, fairness included |
| `Service` | 2 clients, 2 addresses, a queue of 2, 2 starts, both modes; every call fails at will, every process may be terminated | `NothingLeaks`, `ExitCodeTruthful`, `SessionsKeepContract`, `ServerListensAgain`, `QueueMoves` |
| `DatabaseUse` | 2 logins or reports, automated mode, 20 credentials, a name in the case of the table and in another, texts at and beyond the columns' widths | `HandlesFreed`, `LogTellsTruth` |
| `Codec` | 2 of 6 kinds of report, 2 heartbeats at any moment | `RecordedAsSent`, `NoPhantomReport` |
| `Timing` | in seconds: 60, 90, drift and delay of 3, forms of up to 120 | `OnlySlowFormsGivenUp` |
| `Typing` | 2 reports; numbers in and out of range, some beyond what an `int` of at most 99 holds, with both signs; blank lines, a letter, a sign alone; all zones of two characters in and next to the grid, both cases, lengths 0 to 3; cells of 3 pixels | `FieldsAsTyped`, `TypedZoneIsSeen`, `ExitLeaves` |
| `WrongConfirmation`, `SilentLoss` | at most 2 reports and 1 heartbeat | the findings below |
| `LetterClears` | 2 reports; a letter is typed at the severity and nowhere else | the finding below |

**Why the bounds are enough.** *Sessions*: a confusion needs one report to leave something behind and a later
one to find it. Two reports make that happen, and a third lets an answer be off by two or find the
session recovered. Each misplaced read comes from one heartbeat; two let one shift the server
and one the client, or both shift the same report. Severities 0 and 9 reach both statuses, 9
through the normalisation to 1. The faults are not counted: each may strike at any step.
*Processes*: one client in the session and one in the queue, or both in the queue, of whom the first may die there (a full queue does no more than make `connect` fail, which it may at any time);
a second start finds the clients of the first. `ServerListensAgain` and `QueueMoves` need one client in the way of another.
*Database*: a second call finds what the first left. *Picture*: 3 is the smallest side of a cell with more inside than one pixel,
and 18 pixels, unlike the 600 of the program, make rows that need padding. *Codec*: the reports have empty
fields, bytes above 127, a 0 in a name and in a text, and lengths that a shifted server takes for others. *Input*: `MaxInt` is 99, so that
100 and -101 are what 2147483648 and -2147483649 are to the program. *Timing*:
the units are those of the program, and a drift and delay of 3 s let a heartbeat be late in each way and come at each phase of a form;
`HeartbeatTimingProofs` covers all other numbers.

Deadlock is checked in every run but `Codec` and `Timing`, whose models really stop: all reports are sent
and received or the server has ended; the session has been given up. In the others only what has
finished may stop, in an action of its own.

**Fairness** (`FairSpec`, used by the liveness properties only). In `FODSystem`: weak fairness of the server's
thread, of those calls of the client's main thread that do not wait for its user, of the heartbeat
thread, and of TCP's giving up retransmission. A thread that can run does run, which is what the
operating system gives. The user owes nothing: `CliLogin`, `CliChooseReport`, `CliChooseExit` and
`CliFillForm` are not fair, so nothing is claimed of a session whose user has walked away. Timeouts are
alternatives of fair actions and not required to fire while the data is there.
`ExchangeEnds` needs the client's receive timeout, which is there only because the handshake's is
never reset. Its mutant removes it, and then the two programs wait for each other for ever.

In `Deployment`: the server's and the clients' own calls, and what `SessionContract` promises, namely that a client's
wait for the answer to its login ends and that the server's side ends when the client has left. The
second holds because `FODSystem` implements the contract with its fairness (`Progress`), and it holds
only while no connection is lost silently (`SilentLoss`). And `accept` does not fail for ever while connections are queued: strong
fairness, as `select` lets the server try it again and again; without it `QueueMoves` is refuted by a server that logs "accept failed" for ever. Nobody need start or terminate a process, and no
user need leave. In `ClientInput`: the program's reads, never the user's typing.

## 4. What disagrees with the code's own words

| Run | What the code says | What it does |
| --- | --- | --- |
| `WrongConfirmation` | the heartbeat is paused before the form so that no ACK lands in the receive buffer (`ClientSession.cpp:305-306`), then "Receive server confirmation" (`:373`) | the ACK of a heartbeat sent just before the pause is displayed as the answer to report 1, and report 2 is shown report 1's confirmation and status |
| `SilentLoss` | the receive loop is one "with heartbeat monitoring" (`ServerSession.cpp:226`) | a client lost silently after its header leaves the session in `recv` for ever |
| `LetterClears` | severity "1-5, or 0 for no debris" (`ClientSession.cpp:323`) | a letter typed there files a report of no debris, which clears the runway |

`ConfirmationMatchesReport` therefore passes without heartbeats (`Faulty`) and fails with one
(`WrongConfirmation`). `LedgerFaithful` passes with both: a report that bears a number
is recorded with its own severity; what heartbeats can do is replace its
description by scrambled bytes, or the whole record by one of no report. Nor does either end ever go back:
nothing of a report is recorded twice or after a later report (`RecordedInOrder`), and the confirmations displayed
and the bitmaps saved, if late, are those of recorded reports, each at most once and in order (`AnswersInOrder`). So the finding
has a limit, which a test of one exchange cannot show: an answer may be shown for a later report than its own, never
for an earlier one. `PacketCodec` says the
same in bytes: without a heartbeat between the sends of a report everything arrives as it was filed
(`RecordedAsSent`), and with one there is never a record too many (`NoPhantomReport`).

Some facts of the code bear what the passing runs and the theorems claim:

- A bitmap that was given up stays in the client's receive buffer, and the next exchange begins in what is left of it. What keeps
  that from being taken for answers is only the colours that `BitmapGenerator` draws. No byte of a pixel is below 40, so four of them, or the last
  of them with the bytes of a length behind them, are never a length from 1 to 1024, and the session ends there. With one other colour, say black, it
  would not: without `PixelWord`, with any integer read among the pixels, TLC finds in `Faulty` a session in which a later report is
  shown another report's confirmation (`ConfirmationMatchesReport` fails after 45 steps). The 54 bytes before the
  pixels do hold small integers (0 and 40, for instance), and the model lets any be read there.
- `ExitLeaves` is claimed while every number asked for was answered with one. After a letter `std::cin` has failed,
  the menu reads nothing any more, and a 2 typed there does not leave.
- `EveryReportAnswered` is checked with the sizes of a short report. `runClientSession` takes a confirmation of at most 1024
  bytes: with `HeaderLen` 1018 and `TextLen` 1037, an officer's name of 980 letters, it fails.
- `FieldsAsTyped` and `TypedZoneIsSeen` are claimed for users who type nothing after a number on its line, not even a blank (`NothingAfterNumbers`,
  a hypothesis of their theorems, which TLC evaluates for the lines of `MCZonePicture`). With "4 " as the hazard type, `ignore()` drops the
  blank, and the zone is read at once as the empty rest of that line.
- `HandlesFreed` says that a handle left by a failed `SQLDriverConnect` is freed in the end. Until then `getDbc()` returns it,
  although two tests are named for, or assert, the contrary (`UnitTests.cpp:463`, `:481`).

## 5. What is proved

**The sessions.** The theorems hold for every number of reports and heartbeats, every set of severities, lengths,
windows and faults, and every set of misread integers without 5, under the named assumptions
of the modules (`TcpAssumption`, `LengthsAssumption`, `MisreadAssumption`, `ClientAssumption`).
TLC evaluates the assumptions of a module in each of its runs.

- **`TypeCorrect`**: `Spec => [](TypeOK /\ ReportInHand)`. `TypeOK` contains `want \in Nat` and
  `need \in Nat`, which need the guard of `AcceptedLength`, as the streams may deliver any
  integer. It also types `reports` as sequences over 0..5, which needs the
  normalisation. It is not inductive by itself: `HeaderChunk(Current, reports[Current])` is typed only
  if there *is* a current report. `ReportInHand` adds that: from the form's end to the end of the
  exchange, `reports` is not empty. The lemmas about streams (what a send and a read of any number of
  bytes leave, and what a packet is read as) carry most of the work.
- **`RunwayStateCorrect`**: `Spec => []RunwayStateAgrees`. Inductive together with the types. It
  rests on a lemma that every transition the session asks for is legal where it asks. The step
  that takes an argument is `SrvRecordReport`, which changes the last entry of the ledger and the
  state together.
- **`ClientStateCorrect`**: `Spec => []ClientStateAgrees`. Its strengthening `HeartbeatAfterLogin`
  says that a main thread that has not logged in has no heartbeat thread, without which
  `running` could be true at the login.
- **`LoginCorrect`**: `Spec => []OnlyAuthenticatedReport`. Its strengthening `BeforeLogin` says that
  while the server has not accepted anybody, its answers to the client hold no byte 1, so that the
  client cannot have come past its login. Both directions of the connection are in the argument.

- **`SessionContractKept`**: `Spec => SC!SCInit /\ [][SC!SCNext]_(SC!scVars)`. The two session programs implement the safety part of
  `SessionContract`, step by step. The step that matters is the client's entry: it needs `BeforeLogin`, so that the byte 1 it reads
  comes from a server that has accepted it, and `NothingSent`, so that the server cannot accept who has sent nothing.
- **`LedgerCorrect`** (`FODSystemLedger`): `Spec => []LedgerFaithful`, wherever heartbeats cut into the stream. Headers and descriptions stand in the stream
  in the order sent, with none missing between two others (`StreamInv`): header *r* is followed by description *r*. `InStep` relates
  that order to the server's place: with the header of *r* in hand, the next of them is description *r*, or header *r + 1* once the
  description has been read. The read between the two takes 4 bytes, while a description that is cut into leaves a remnant
  of no report, so a description of another report never comes whole into the hand that holds *r*.
  `HeaderInHand` is the claim for the header before it is recorded. The lemmas say what any read leaves of a stream whose chunks end one
  after the other.
- **`OrderCorrect`** (`FODSystemLedger`): `Spec => []RecordedInOrder`, under the same conditions. `OrderInv` adds where the server is: whatever of a
  report has been recorded or is in its hand has left the stream, and what is left or still to be sent is of a later part (`Passed`). It
  uses `StreamInv`, as the client must send its parts in order for that to stay so, and says of the header in
  hand that it is later than all that is recorded, since the ledger learns of it only two reads later.

**Answers without heartbeats** (`FODSystemDelivery`). `NoHeartbeat` is `beats = 0`: no heartbeat has been sent so far, which
`WrongConfirmation` shows to be needed. No fault is excluded, no number of reports, no length and no partial receive. `LengthsAssumption` has
`BitmapLen >= 1086`: a header, then pixels enough for a response and two integers.

- **`AnswersCorrect`**: `Spec => [](NoHeartbeat => ConfirmationMatchesReport /\ BitmapMatchesReport)`, and
  **`DeliveryKept`**: `Spec => RD!RDInit /\ [][NoHeartbeat' => RD!RDNext]_(RD!rdVars)`. With
  `MaxHeartbeats = 0`, as in `Faulty`, they give `[]ConfirmationMatchesReport`
  (**`ConfirmationsCorrect`**), `[]BitmapMatchesReport` (**`BitmapsCorrect`**) and `ImplementsReportDelivery` (**`DeliveryImplemented`**).
- The invariant `DeliveryInv` has two halves. *Upstream* the server never loses its place: the bytes on their way to it are the parts of reports in
  order, from the part it has come to up to the one that the client has come to, hence `LedgerExact` (entry *i* is report *i*) and `Outbox` (what it
  sends is the answer to the report just recorded). *Downstream* there are seven cases, and the proof is that every step leads from one to another:
  the client is not logged in yet or has left (`Gone`); nothing is under way and it is at its menu (`Idle`) or filing (`Filing`); it is reading
  the answer to its current report part by part (`Answering`); the bitmap that it gave up is not sent yet (`Unsent`);
  or the rest of one lies in front of it, between two exchanges (`Behind`) or in the middle of one that took it for an answer (`Deep`).
- `Mired(s, floor, m)` says what that is: before anything else in the stream but integers stands a bitmap, whole, or the rest of one of `floor` bytes at
  least, and no integer before it is a bitmap's type, but for its own at the front. An exchange that is deep in it began among the header's bytes (`MiredFront`)
  and reads a length, 1024 bytes and a type at most, so it ends among the pixels; the next one is refused there. That is the argument by which a failed bitmap, "only a
  warning" in the code, and an exchange that timed out do no harm.
- `ReportDelivery` lets the crew be told of the report just filed, after it is logged and at most once (`TellCrew`), or something that
  names no report (`TellNothing`): scrambled bytes that are displayed are the latter.

**Answers with heartbeats** (`FODSystemDelivery`). Here the upstream half of `DeliveryInv` is false, and both ends may be lost in their streams.

- **`AnswersOrderCorrect`**: `Spec => []AnswersInOrder`, for every number of heartbeats, wherever they cut in, and all faults. An answer has a place in
  the order in which the server sends them (`Place`: the confirmation of a report, then its bitmap). `AnswerInv` follows it from
  the ledger to the user. What the server has still to send answers a heartbeat or the last record (`OutForm`); since the ledger is in order
  (`RecordedInOrder`, from `OrderCorrect`), it is later than all that was sent. The answers under way are those of recorded reports, with
  their status, and in order (`Coming`; the status is `RunwayStateCorrect`'s). What the client has displayed or
  saved is behind it (`Seen`, `Met`). And the client saves a whole bitmap only where its type and its size stood before it (`Framed`,
  `Fetched`), as a remnant has no number and an integer read among pixels is never a bitmap's type. That an answer is never early is
  `LedgerCorrect`: the server records no number beyond what the client has filed.

**The processes** (`DeploymentSafety`), for every number of clients, addresses, queued connections and starts.

- **`ReleaseCorrect`**: `Spec => []NothingLeaks`. What is released on an error path depends on how far `main()` had come, so the
  invariant must say at *each* call what is held: `HeldAtCalls` for the server, `HoldsAtCalls` for a client,
  with equalities up to the common clean-up, and a bound there, since the paths into it differ. The
  client's sockets are at most the one of the address in hand.
- **`ExitCodeCorrect`**: `Spec => []ExitCodeTruthful`. `CodeAtCalls` adds what the code is at each
  call, and that a server that has served in manual mode is at its clean-up or has exited.
- **`ContractCorrect`**: `Spec => SessionsKeepContract`: whatever fails and whoever is terminated, what the queue, the server and
  the clients do to each pair of sessions is what `SessionContract` allows. `QueueInv` says that a client is in the queue at most
  once and never while it is served; `SessionInv` that it has one connection at most in its life, and credentials only over that one.
  Without the first a client could be accepted twice, without the second a client that left could be in a session again.

**The heartbeat** (`HeartbeatTimingProofs`), for every interval, drift, watch, delay and length of a form, given
`TimingAssumption`: `Gap = Interval + Drift + 2 * Delay < Watch`. With the program's 60 s and 90 s this leaves 30 s for late
sleeps and slow messages.

- **`IdleClientsKept`**: `Spec => []OnlySlowFormsGivenUp`. `HeartbeatInv` bounds what the server has waited, phase by phase:
  at the menu by what the thread has slept, or by the age of a heartbeat under way (`MenuIsWatched`); in a form by `Gap` and the time the form has been
  open (`FormIsWatched`), which is why the pause costs a whole interval; after an answer by the answer's age (`AnswerIsWatched`).
  The hard step is the return to the menu, where the thread may have slept any part of an
  interval and the server's wait starts from the report.

**The packets** (`PacketCodecSafety`), for every number of reports and heartbeats and all reports, whatever bytes
are in their names and texts, given `ReportsAssumption` (what the fields are) and `SizesAssumption` (packets of at most 65536 bytes, whose sums fit an `int`).

- **`CodecCorrect`**: `Spec => []RecordedAsSent`. Two lemmas are about the code of one packet. `HeaderRead` and `DescriptionRead` say that the
  deserializer finds each field where the serializer put it, whatever the lengths of the fields before it: `Holds` is that a string of bytes
  stands at a place in another, and it survives all that is appended. An `int` is four bytes and is read back (`IntBytes`).
  The sum that is compared with a header's checksum is over the very bytes of which the checksum was made, so nothing need be known of how a sum is computed.
- A text is a `char*` on both sides. The client sends it up to its first 0 (`strlen`), with the sum of all of it, so the theorem says that it is recorded
  up to there, and called verified unless bytes other than 0 are lost with the rest. The lemma `SentText` is that what is sent holds no other 0 to stop at.
- The rest is about the stream. `CodecInv` says that what has not been received is a way (`Way`): whole packets, then the length of the next, if that
  has been sent, and nothing else. The places on the way count the headers and descriptions, from the one that
  the server has come to (`Received`) up to the one that the client has come to (`Sent`). A packet leads to the next place, or is a heartbeat and leads nowhere,
  which happens at even places only, between two reports. The client's sends lengthen a way (`Lengthen`) or complete its last packet (`Complete`), the
  server takes the first packet off (`Take`), and a length alone makes it wait (`Waiting`). `crossed` is needed: a heartbeat's
  length between the sends of a report makes packets of no report.

**The database** (`DatabaseSafety`), for every alphabet with a colon, all credentials over it, every user table, hash function, set
of reports and number of calls, given `DatabaseAssumption`.

- **`HandlesCorrect`**: `DbSpec => []HandlesFreed`. `HandlesInv` says where a statement may be held: at preparing,
  executing and freeing only, so that no early return of the three functions leaves one.
- **`LogCorrect`**: `DbSpec => []LogTellsTruth`. An entry is written three calls or more after what it speaks of was decided, so `LogInv`
  follows the claim: what is in `todo` or in execution claims nothing false (`Honest`), a success about to be
  returned is one (`Result`), and what is claimed stays true as rows are only added. The lemma `SplitPayload` shows
  that a name without a colon survives the trip as "user:password", whatever the password. `LogInv` contains that `todo`
  is *some* sequence (`IsSequence`), which TLC cannot evaluate; the prover needs it for heads and tails.

**The form and the picture** (`ZonePictureSafety`), for every set of characters, of lines and any number of reports, given
`InputAssumption` (a line has no line's end in it) and `NothingAfterNumbers`; the picture for every size of a cell from 2 on that makes a
file whose size is an `int` (`CellAssumption`, `SizeAssumption`; the program's is 100).

- **`FieldsCorrect`**: `Spec => []FieldsAsTyped`. `FieldsInv` says what the three ways to read from `std::cin` leave to each other. At a prompt
  there is either nothing to read (blanks, before a number) or exactly the line typed there, with its end (`NothingLeft`, `OneLine`), unless
  `cin` has failed; a field that was passed is faithful, and one still to come is untouched, with nothing typed at its prompt. The
  lemmas say what `>>` reads from a line and its end: the number that the line says to the user, and 0 where it says none (`ReadsWhatItSays`).
  The recursion that a numeral is made of needs no induction there, as both sides read the same digits.
- **`ZoneCorrect`**: `Spec => []TypedZoneIsSeen`. The file is read by the BMP format and not by the formulas that wrote it: `HeaderInt`
  (the little-endian integers of the headers, none of which share a byte), `PixelBytes` (a line and a place in it, told from an offset by the stride),
  and `SeenPicture` (the pixels as seen, from the top). `PixelInCell` gives each cell a pixel off the grid's lines, for
  which a cell must have two pixels a side; `CellIsDrawn` ties the characters of the zone to its row and column.

**Only model-checked.** All liveness properties, the fairness they rest on and the liveness part of `SessionContract`, in `FODSystem` and in
`Deployment` (liveness and `ENABLED` are out of the prover's reach). One invariant,
`NoPhantomReport` of `PacketCodec`, is not proved. It says that at most one header comes
out of four sends, whatever two heartbeats do to them. That is a claim about the five kinds of report of the run: a server that has lost its place
reads its lengths and types from the middle of zones and names, so that what it takes for a packet depends on their bytes, and it is not
claimed for all reports. What a checksum is, as a number, is not proved either: a fold over bytes needs induction over data,
which the provers do not have. `CodecCorrect` does without it. `CodecInv` speaks of some way of some length, which TLC cannot
search for; the run checks what it implies. `DeliveryInv` and `AnswerInv` were checked by TLC before
they were proved, the first with bitmaps of 1086 bytes, the shortest that the assumption
allows, receives that fail around the header's end, and a misread length of 1024, the second with the constants of `Heartbeats`.

## 6. What is not modelled

- The client's logger and `log()` of the server's: lines on a console or in a file, whose failures nobody sees.
- Console utilities and password masking. `utils.cpp` reads keys of a Windows console; nothing else depends on how.
- SQL Server itself, beyond what it does with a row that does not fit.
- `DatabaseConnection.cpp`: a trial program that is not part of the server.
- `parseClientLogin`: nothing calls it, and `runServerSession` splits the login by itself.
- The tests, read only for what they promise. Their own client and server are other programs.
- That a sum of bytes finds every change of a packet: it does not, and no text says it would.

## 7. Plan

Done, in this order: connection and packets; state machines; server session; client session
with its heartbeat thread; composition, `ReportDelivery` and the refinement; types and three
invariants proved; session contract; both processes and their composition, with two proofs; database, with two; bitmap;
client's input; packets as bytes; the heartbeat in time, with its proof; the ledger; the contract on both sides; the
delivery of answers without heartbeats; the form and the picture; the order of the ledger and of the answers with heartbeats;
the packets, with their proof.
Left, most important first:

1. The upstream half of `ReportDelivery` with heartbeats, as an abstract specification of its own: a report may be
   lost or scrambled, and `RecordedInOrder` with `AnswersInOrder` is what is left of the promise.
