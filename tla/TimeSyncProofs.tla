--------------------------- MODULE TimeSyncProofs ----------------------------
(***************************************************************************)
(* The clock of TimeSync is true, for every timeout, every life of an      *)
(* answer and any number of boots.                                         *)
(***************************************************************************)
EXTENDS TimeSync, TLAPS

LEMMA Constants ==
    /\ Timeout \in Nat /\ Life \in Nat /\ Day \in Nat /\ Plausible \in Nat
    /\ Year2000 \in Nat /\ Start \in Nat /\ MaxTime \in Nat
    /\ 0 < Year2000 /\ Year2000 < Start /\ Start <= MaxTime
    BY TimeSyncAssumption DEF TimeSyncAssumption

LEMMA InitIInv == Init => IInv
<1> SUFFICES ASSUME Init PROVE IInv
    OBVIOUS
<1> USE Constants
<1>1. TypeOK
  <2>1. /\ given \in BOOLEAN /\ status \in BOOLEAN
        /\ asked \in BOOLEAN /\ stray \in BOOLEAN
      BY Zenon DEF Init
  <2>2. /\ readTime \in Times /\ served \in Times /\ answers = {}
        /\ now \in Start .. MaxTime /\ clock \in 0 .. MaxTime /\ uptime \in 0 .. MaxTime
        /\ pc = "join" /\ waited \in 0 .. Timeout /\ synced = Never
      BY DEF Init, Times
  <2>3. QED
      BY <2>1, <2>2 DEF TypeOK
<1>2. Bounded /\ AnswersFresh /\ GivenFresh /\ ClockTrue
    BY DEF Init, Bounded, AnswersFresh, GivenFresh, ClockTrue
<1>3. QED
    BY <1>1, <1>2 DEF IInv

-----------------------------------------------------------------------------
\* A boot: nothing of the wait is left, the clock is kept or starts at 1970.
LEMMA BootKeeps ==
    ASSUME IInv, NEW powerLost \in BOOLEAN, Boot(powerLost)
    PROVE  IInv'
<1> USE Constants DEF IInv, Boot, air
<1>1. TypeOK'
  <2>1. /\ given' \in BOOLEAN /\ status' \in BOOLEAN
        /\ asked' \in BOOLEAN /\ stray' \in BOOLEAN
      BY Zenon DEF TypeOK
  <2>2. QED
      BY <2>1 DEF TypeOK, Times, Never
<1>2. Bounded'
    BY DEF TypeOK, Bounded
<1>3. AnswersFresh'
    BY DEF AnswersFresh
<1>4. GivenFresh'
    BY DEF GivenFresh
<1>5. ClockTrue'
    BY DEF ClockTrue, Never
<1>6. QED
    BY <1>1, <1>2, <1>3, <1>4, <1>5

\* app_main before it has an answer.
LEMMA AskingKeeps ==
    ASSUME IInv, Connect \/ FetchSkips \/ FetchAsks \/ GiveUp
    PROVE  IInv'
<1> USE Constants
    DEF IInv, Connect, FetchSkips, FetchAsks, GiveUp, TimedOut, clocks, reply, attributes, air
<1>1. TypeOK'
  <2>1. /\ given' \in BOOLEAN /\ status' \in BOOLEAN
        /\ asked' \in BOOLEAN /\ stray' \in BOOLEAN
      BY Zenon DEF TypeOK
  <2>2. QED
      BY <2>1 DEF TypeOK, Times
<1>2. Bounded'
    BY DEF TypeOK, Bounded
<1>3. AnswersFresh'
    BY DEF AnswersFresh
<1>4. GivenFresh'
    BY DEF GivenFresh
<1>5. ClockTrue'
    BY DEF ClockTrue
<1>6. QED
    BY <1>1, <1>2, <1>3, <1>4, <1>5

\* The semaphore is taken: the answer it stands for is fresh, or strayed.
LEMMA TakeKeeps ==
    ASSUME IInv, Take
    PROVE  IInv'
<1> USE DEF IInv, Take, clocks, attributes, air
<1>1. TypeOK' /\ Bounded' /\ AnswersFresh' /\ ClockTrue'
    BY DEF TypeOK, Bounded, AnswersFresh, ClockTrue
<1>2. GivenFresh'
    BY DEF GivenFresh
<1>3. QED
    BY <1>1, <1>2

\* The clock is set: it is as old as that answer.
LEMMA SetClockKeeps ==
    ASSUME IInv, SetClock
    PROVE  IInv'
<1> USE Constants DEF IInv, SetClock, SetTo, reply, air
<1>1. TypeOK' /\ Bounded'
  <2>1. /\ given' \in BOOLEAN /\ status' \in BOOLEAN
        /\ asked' \in BOOLEAN /\ stray' \in BOOLEAN
      BY Zenon DEF TypeOK
  <2>2. clock' = Year2000 + readTime /\ served' = readTime
      BY DEF TypeOK, Times
  <2>3. clock' \in 0 .. MaxTime /\ served' \in Times /\ clock' <= now'
      BY <2>2 DEF TypeOK, Times, Bounded
  <2>4. synced' \in {Never} \cup Start .. MaxTime
      BY DEF TypeOK
  <2>5. QED
      BY <2>1, <2>3, <2>4 DEF TypeOK, Bounded
<1>2. AnswersFresh' /\ GivenFresh'
    BY DEF AnswersFresh, GivenFresh
<1>3. ClockTrue'
    BY DEF ClockTrue, GivenFresh, Bounded, TypeOK
<1>4. QED
    BY <1>1, <1>2, <1>3

-----------------------------------------------------------------------------
\* The network: a new answer has the time of now, a delivered one is fresh.
LEMMA NetworkKeeps ==
    ASSUME IInv,
           \/ Answer \/ LoseRequest
           \/ \E a \in answers : LoseAnswer(a) \/ AttributeResponse(a)
    PROVE  IInv'
<1> USE Constants DEF IInv
<1>1. CASE Answer
  <2> USE DEF Answer, clocks, reply, attributes
  <2>1. now - Year2000 \in Times
      BY <1>1 DEF TypeOK, Times
  <2>2. TypeOK' /\ Bounded'
    <3>1. asked' \in BOOLEAN
        BY <1>1, Zenon
    <3>2. answers' \subseteq [time : Times, ok : BOOLEAN]
        BY <1>1, <2>1 DEF TypeOK
    <3>3. QED
        BY <1>1, <3>1, <3>2 DEF TypeOK, Bounded
  <2>3. AnswersFresh'
      BY <1>1, <2>1 DEF TypeOK, AnswersFresh, Times
  <2>4. GivenFresh' /\ ClockTrue'
      BY <1>1 DEF GivenFresh, ClockTrue
  <2>5. QED
      BY <2>2, <2>3, <2>4
<1>2. CASE LoseRequest
    BY <1>2 DEF LoseRequest, TypeOK, Bounded, AnswersFresh, GivenFresh, ClockTrue,
                clocks, reply, attributes
<1>3. ASSUME NEW a \in answers, LoseAnswer(a) PROVE IInv'
    BY <1>3 DEF LoseAnswer, TypeOK, Bounded, AnswersFresh, GivenFresh, ClockTrue,
                clocks, reply, attributes
<1>4. ASSUME NEW a \in answers, AttributeResponse(a) PROVE IInv'
  <2> USE DEF AttributeResponse, clocks, attributes
  <2>1. a.time \in Times /\ a.ok \in BOOLEAN
      BY DEF TypeOK
  <2>2. TypeOK'
      BY <1>4, <2>1 DEF TypeOK
  <2>3. Bounded' /\ AnswersFresh'
      BY <1>4 DEF TypeOK, Bounded, AnswersFresh
  <2>4. GivenFresh'
      BY <1>4, <2>1 DEF TypeOK, GivenFresh, AnswersFresh
  <2>5. ClockTrue'
      BY <1>4, <2>1 DEF TypeOK, ClockTrue
  <2>6. QED
      BY <2>2, <2>3, <2>4, <2>5
<1>5. QED
    BY <1>1, <1>2, <1>3, <1>4

\* Time passes for the clock as well, and for no answer that is at its end.
LEMMA TickKeeps ==
    ASSUME IInv, Tick
    PROVE  IInv'
<1> USE Constants DEF IInv, Tick, reply, attributes, air
<1>1. TypeOK'
    BY DEF TypeOK, Bounded
<1>2. Bounded'
    BY DEF TypeOK, Times, Bounded
<1>3. AnswersFresh'
    BY DEF TypeOK, Times, AnswersFresh
<1>4. GivenFresh'
    BY DEF GivenFresh
<1>5. ClockTrue'
    BY DEF TypeOK, ClockTrue
<1>6. QED
    BY <1>1, <1>2, <1>3, <1>4, <1>5

-----------------------------------------------------------------------------
LEMMA StepIInv == IInv /\ [Next]_vars => IInv'
<1> SUFFICES ASSUME IInv, [Next]_vars PROVE IInv'
    OBVIOUS
<1>1. CASE UNCHANGED vars
    BY <1>1 DEF vars, IInv, TypeOK, Bounded, AnswersFresh, GivenFresh, ClockTrue
<1>2. QED
    BY <1>1, BootKeeps, AskingKeeps, TakeKeeps, SetClockKeeps, NetworkKeeps, TickKeeps
    DEF Next

(***************************************************************************)
(* getTime and zbReadTimeCluster against lost, late and old answers, and   *)
(* restarts between any two steps: the clock that was set is true.         *)
(***************************************************************************)
THEOREM ClockCorrect == Spec => []ClockTrue
<1>1. IInv => ClockTrue
    BY DEF IInv
<1>2. QED
    BY InitIInv, StepIInv, <1>1, PTL DEF Spec

\* The types of the clock, of getTime's variables and of the network.
THEOREM TypeCorrect == Spec => []TypeOK
<1>1. IInv => TypeOK
    BY DEF IInv
<1>2. QED
    BY InitIInv, StepIInv, <1>1, PTL DEF Spec
==============================================================================
