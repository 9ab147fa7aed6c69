--------------------- MODULE HeartbeatTimingProofs --------------------
(* That the server gives no idle client up, for every interval, watch and delay that fit.         *)
EXTENDS HeartbeatTiming, TLAPS

\* Every step of the clock, of either thread and of the server keeps the inductive invariant
\* (ClientSession.cpp 104-130, 303-410, ServerSession.cpp 226-249).
LEMMA TimingStep == HeartbeatInv /\ [Next]_hbVars => HeartbeatInv'
<1>. SUFFICES ASSUME HeartbeatInv, [Next]_hbVars PROVE HeartbeatInv'
  OBVIOUS
<1>. USE TimingAssumption DEF HeartbeatInv, TypeOK, PauseFollowsForm, MenuIsWatched, FormIsWatched,
                             AnswerIsWatched, Gap
<1>1. CASE Tick
  <2>1. /\ alive /\ slept' = slept + 1 /\ quiet' = quiet + 1 /\ slept' \in 0 .. Interval + Drift
        /\ quiet' \in 0 .. Watch
        /\ transit' = {age + 1 : age \in transit} /\ Delay \notin transit
        /\ UNCHANGED <<paused, phase, alive>>
    BY <1>1 DEF Tick, Due
  <2>2. transit' \subseteq 0 .. Delay /\ (transit = {} <=> transit' = {})
    BY <2>1
  <2>3. taken' = (IF phase = "menu" THEN taken ELSE taken + 1) /\ taken' \in 0 .. MaxForm + Delay
    BY <1>1 DEF Tick, Due
  <2>4. MenuIsWatched'
    <3>1. CASE transit = {}
      BY <3>1, <2>1, <2>2
    <3>2. CASE transit # {} /\ phase = "menu"
      <4>1. PICK age \in transit : quiet <= Gap - Delay + age
        BY <3>2
      <4>2. age + 1 \in transit' /\ quiet' <= Gap - Delay + (age + 1)
        BY <4>1, <2>1
      <4>. QED
        BY <4>2, <2>1, <2>2, <3>2
    <3>3. CASE phase # "menu"
      BY <3>3, <2>1
    <3>. QED
      BY <3>1, <3>2, <3>3
  <2>5. FormIsWatched' /\ PauseFollowsForm'
    BY <2>1, <2>3
  <2>6. AnswerIsWatched'
    BY <1>1, <2>1, <2>2, <2>3 DEF Tick, Due
  <2>. QED
    BY <2>1, <2>2, <2>3, <2>4, <2>5, <2>6
<1>2. CASE Look
  <2>1. CASE paused
    BY <1>2, <2>1 DEF Look
  <2>2. CASE ~ paused
    <3>1. phase = "menu" /\ 0 \in transit' /\ transit' = transit \union {0}
      BY <1>2, <2>2 DEF Look
    <3>2. \E age \in transit' : quiet' <= Gap - Delay + age
      <4>1. CASE transit = {}
        BY <4>1, <3>1, <1>2 DEF Look
      <4>2. CASE transit # {}
        BY <4>2, <3>1, <1>2 DEF Look
      <4>. QED
        BY <4>1, <4>2
    <3>. QED
      BY <3>1, <3>2, <1>2, <2>2 DEF Look
  <2>. QED
    BY <2>1, <2>2
<1>3. CASE ReceiveHeartbeat
  <2>1. transit' \subseteq transit /\ transit # {} /\ quiet' = 0
        /\ UNCHANGED <<slept, paused, phase, taken, alive>>
    BY <1>3 DEF ReceiveHeartbeat
  <2>2. MenuIsWatched'
    BY <2>1
  <2>. QED
    BY <2>1, <2>2
<1>4. CASE OpenForm
  <2>1. CASE transit = {}
    BY <1>4, <2>1 DEF OpenForm
  <2>2. CASE transit # {}
    <3>1. PICK age \in transit : quiet <= Gap - Delay + age
      BY <1>4, <2>2 DEF OpenForm
    <3>2. age \in 0 .. Delay
      BY <3>1
    <3>. QED
      BY <1>4, <3>1, <3>2 DEF OpenForm
  <2>. QED
    BY <2>1, <2>2
<1>5. CASE Submit
  BY <1>5 DEF Submit
<1>6. CASE ReceiveReport
  BY <1>6 DEF ReceiveReport
<1>7. CASE BackToMenu
  <2>1. /\ phase = "answered" /\ phase' = "menu" /\ paused' = FALSE /\ taken' = 0
        /\ UNCHANGED <<slept, transit, quiet, alive>>
    BY <1>7 DEF BackToMenu
  <2>2. MenuIsWatched'
    BY <2>1
  <2>3. TypeOK'
    <3>1. phase' \in {"menu", "form", "sent", "answered"} /\ paused' \in BOOLEAN
      BY <2>1, Zenon
    <3>2. taken' \in 0 .. MaxForm + Delay
      BY <2>1
    <3>. QED
      BY <2>1, <3>1, <3>2
  <2>5. PauseFollowsForm'
    BY <2>1, Zenon
  <2>4. FormIsWatched' /\ AnswerIsWatched'
    BY <2>1, Zenon
  <2>. QED
    BY <2>2, <2>3, <2>4, <2>5
<1>8. CASE GiveUp
  BY <1>8 DEF GiveUp
<1>9. CASE UNCHANGED hbVars
  BY <1>9 DEF hbVars
<1>. QED
  BY <1>1, <1>2, <1>3, <1>4, <1>5, <1>6, <1>7, <1>8, <1>9 DEF Next

\* The server starts its watch when it answers the login (ServerSession.cpp:219-231).
LEMMA TimingInit == Init => HeartbeatInv
<1>. SUFFICES ASSUME Init PROVE HeartbeatInv
  OBVIOUS
<1>1. phase \in {"menu", "form", "sent", "answered"} /\ paused \in BOOLEAN /\ alive \in BOOLEAN
  BY Zenon DEF Init
<1>2. slept = 0 /\ taken = 0 /\ transit = {} /\ quiet \in 0 .. Delay
  BY DEF Init
<1>3. TypeOK
  BY <1>1, <1>2, TimingAssumption DEF TypeOK, Gap
<1>4. MenuIsWatched
  BY <1>2, TimingAssumption DEF MenuIsWatched
<1>5. PauseFollowsForm /\ FormIsWatched /\ AnswerIsWatched
  BY Zenon DEF Init, PauseFollowsForm, FormIsWatched, AnswerIsWatched
<1>. QED
  BY <1>3, <1>4, <1>5 DEF HeartbeatInv

\* The state of the two programs in which the server has given up (ServerSession.cpp:242-249).
GivenUpSlowly == HeartbeatInv /\ OnlySlowFormsGivenUp

\* What the server ends, it ends at the full watch, which only a form can reach: the time of a form
\* stands still once the session is over.
LEMMA GivenUpStep == GivenUpSlowly /\ [Next]_hbVars => GivenUpSlowly'
<1>. SUFFICES ASSUME GivenUpSlowly, [Next]_hbVars PROVE OnlySlowFormsGivenUp'
  BY TimingStep DEF GivenUpSlowly
<1>1. CASE GiveUp
  <2>1. quiet = Watch /\ UNCHANGED <<phase, taken>>
    BY <1>1 DEF GiveUp
  <2>2. phase # "menu"
    <3>. SUFFICES ASSUME phase = "menu" PROVE FALSE
      OBVIOUS
    <3>1. CASE transit = {}
      BY <3>1, <2>1, TimingAssumption DEF GivenUpSlowly, HeartbeatInv, TypeOK, MenuIsWatched, Gap
    <3>2. CASE transit # {}
      BY <3>2, <2>1, TimingAssumption DEF GivenUpSlowly, HeartbeatInv, TypeOK, MenuIsWatched, Gap
    <3>. QED
      BY <3>1, <3>2
  <2>3. phase # "answered"
    BY <2>1, TimingAssumption DEF GivenUpSlowly, HeartbeatInv, TypeOK, AnswerIsWatched, Gap
  <2>4. phase \in {"form", "sent"}
    BY <2>2, <2>3 DEF GivenUpSlowly, HeartbeatInv, TypeOK
  <2>. QED
    BY <2>1, <2>4, TimingAssumption
       DEF GivenUpSlowly, HeartbeatInv, TypeOK, FormIsWatched, OnlySlowFormsGivenUp, Gap
<1>2. CASE ~ GiveUp
  BY <1>2 DEF GivenUpSlowly, OnlySlowFormsGivenUp, Next, Tick, Look, ReceiveHeartbeat, OpenForm,
              Submit, ReceiveReport, BackToMenu, hbVars
<1>. QED
  BY <1>1, <1>2

\* For every interval, drift, watch and delay with Interval + Drift + 2 Delay < Watch: the server
\* gives up only a client whose user has had a form open for Watch - Gap
\* (ClientSession.cpp:104-130 against ServerSession.cpp:226-249).
THEOREM IdleClientsKept == Spec => []OnlySlowFormsGivenUp
<1>1. Init => GivenUpSlowly
  BY TimingInit DEF GivenUpSlowly, OnlySlowFormsGivenUp, Init
<1>2. GivenUpSlowly => OnlySlowFormsGivenUp
  BY DEF GivenUpSlowly
<1>. QED
  BY <1>1, <1>2, GivenUpStep, PTL DEF Spec

=======================================================================
