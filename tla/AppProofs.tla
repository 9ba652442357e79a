------------------------------ MODULE AppProofs ------------------------------
(***************************************************************************)
(* Three properties of main.cpp for every length of the queue and every    *)
(* interval, schedule and width of the counter: no press is left lying,    *)
(* the stack has one commissioning in hand, the schedule survives the      *)
(* wrap of the counter.                                                    *)
(***************************************************************************)
EXTENDS App, TLAPS

LEMMA Constants ==
    /\ QueueSize \in Nat \ {0} /\ Interval \in Nat \ {0} /\ Hour \in Nat \ {0}
    /\ SixHours \in Nat \ {0} /\ CounterWord \in Nat \ {0} /\ HoldPolls \in Nat \ {0}
    BY AppAssumption DEF AppAssumption

-----------------------------------------------------------------------------
\* What is left of a division, and that it is the only number of its kind.
LEMMA Division ==
    ASSUME NEW n \in Nat, NEW m \in Nat \ {0}
    PROVE  /\ n \div m \in Nat /\ n % m \in 0 .. (m - 1)
           /\ n = (n \div m) * m + (n % m)
    OBVIOUS

LEMMA RemainderUnique ==
    ASSUME NEW m \in Nat \ {0}, NEW p \in Nat, NEW q \in Nat,
           NEW r \in 0 .. (m - 1), NEW s \in 0 .. (m - 1),
           p * m + r = q * m + s
    PROVE  r = s
<1>1. CASE p < q
  <2>1. (p + 1) * m <= q * m
      BY <1>1
  <2>2. QED
      BY <2>1
<1>2. CASE q < p
  <2>1. (q + 1) * m <= p * m
      BY <1>2
  <2>2. QED
      BY <2>1
<1>3. QED
    BY <1>1, <1>2

\* The counter modulo a period goes up by one or starts again.
LEMMA NextModulo ==
    ASSUME NEW n \in Nat, NEW m \in Nat \ {0}
    PROVE  (n + 1) % m = IF (n % m) + 1 = m THEN 0 ELSE (n % m) + 1
<1> DEFINE p == (n + 1) \div m
           q == n \div m
<1>1. /\ p \in Nat /\ q \in Nat
      /\ n % m \in 0 .. (m - 1) /\ (n + 1) % m \in 0 .. (m - 1)
      /\ n + 1 = p * m + ((n + 1) % m)
      /\ n = q * m + (n % m)
    BY Division
<1> HIDE DEF p, q
<1>2. CASE (n % m) + 1 = m
  <2>1. p * m + ((n + 1) % m) = (q + 1) * m + 0 /\ 0 \in 0 .. (m - 1)
      BY <1>1, <1>2
  <2>2. (n + 1) % m = 0
      BY <1>1, <2>1, RemainderUnique
  <2>3. QED
      BY <1>2, <2>2
<1>3. CASE (n % m) + 1 # m
  <2>1. p * m + ((n + 1) % m) = q * m + ((n % m) + 1) /\ (n % m) + 1 \in 0 .. (m - 1)
      BY <1>1, <1>3
  <2>2. QED
      BY <1>1, <1>3, <2>1, RemainderUnique
<1>4. QED
    BY <1>2, <1>3

LEMMA Zero == ASSUME NEW period \in Nat \ {0} PROVE 0 % period = 0
    OBVIOUS
LEMMA Small == ASSUME NEW m \in Nat \ {0}, NEW n \in 0 .. (m - 1) PROVE n % m = n
    OBVIOUS

\* One more heartbeat: what is left of the counter is the number of heartbeats
\* without a reading (a render), after the counter goes up ...
LEMMA SinceNext ==
    ASSUME NEW c \in 0 .. (CounterWord - 1), NEW period \in Nat \ {0}
    PROVE  Since(c % period, (c + 1) % CounterWord, period)
<1> USE Constants
<1>1. c \in Nat /\ c % period \in 0 .. (period - 1)
    BY Division
<1>2. (c + 1) % CounterWord # 0 => (c + 1) % CounterWord = c + 1
  <2>1. c % CounterWord = c
      BY Small
  <2>2. (c + 1) % CounterWord
            = IF (c % CounterWord) + 1 = CounterWord THEN 0 ELSE (c % CounterWord) + 1
      BY <1>1, NextModulo
  <2>3. QED
      BY <2>1, <2>2
<1>3. (c + 1) % CounterWord # 0 => ((c + 1) % CounterWord) - 1 = c
    BY <1>1, <1>2
<1>4. QED
    BY <1>1, <1>3 DEF Since

\* ... as it was before, when the heartbeat itself has been counted.
LEMMA BeatCounted ==
    ASSUME NEW n \in Nat, NEW c \in 0 .. (CounterWord - 1), NEW period \in Nat \ {0},
           Since(n, c, period)
    PROVE  (IF c % period = 0 THEN 0 ELSE n + 1) = c % period
<1> USE Constants
<1>1. CASE c = 0
    BY <1>1, Zero
<1>2. CASE c # 0
  <2>1. c - 1 \in Nat /\ n = (c - 1) % period
      BY <1>2 DEF Since
  <2>2. ((c - 1) + 1) % period
            = IF ((c - 1) % period) + 1 = period THEN 0 ELSE ((c - 1) % period) + 1
      BY <2>1, NextModulo
  <2>3. (c - 1) + 1 = c
      BY <2>1
  <2>4. c % period = IF n + 1 = period THEN 0 ELSE n + 1
      BY <2>1, <2>2, <2>3
  <2>5. QED
      BY <2>4
<1>3. QED
    BY <1>1, <1>2

-----------------------------------------------------------------------------
LEMMA InitIInv == Init => IInv
<1> SUFFICES ASSUME Init PROVE IInv
    OBVIOUS
<1> USE Constants
<1>1. TypeOK
  <2>1. /\ factoryNew \in BOOLEAN /\ connected \in BOOLEAN /\ stuck \in BOOLEAN
        /\ pressed \in BOOLEAN /\ down \in BOOLEAN
      BY Zenon DEF Init
  <2>2. QED
      BY <2>1 DEF Init, TypeOK
<1>2. PressWakes /\ BeatsCounted /\ BegunOnce /\ HoldEnds
    BY DEF Init, PressWakes, BeatsCounted, Since, BegunOnce, HoldEnds
<1>3. QED
    BY <1>1, <1>2 DEF IInv

\* A reboot: the device begins as it did when it was powered.
LEMMA RebootKeeps ==
    ASSUME IInv, NEW new \in BOOLEAN, Reboot(new)
    PROVE  IInv'
<1> USE Constants DEF IInv, Reboot
<1>1. TypeOK'
  <2>1. /\ factoryNew' \in BOOLEAN /\ connected' \in BOOLEAN /\ stuck' \in BOOLEAN
        /\ pressed' \in BOOLEAN /\ down' \in BOOLEAN
      BY Zenon DEF TypeOK
  <2>2. QED
      BY <2>1 DEF TypeOK
<1>2. PressWakes' /\ BeatsCounted' /\ BegunOnce' /\ HoldEnds'
    BY DEF PressWakes, BeatsCounted, Since, BegunOnce, HoldEnds
<1>3. QED
    BY <1>1, <1>2

\* A step that changes nothing.
LEMMA StutterKeeps ==
    ASSUME IInv, UNCHANGED vars
    PROVE  IInv'
    BY DEF IInv, TypeOK, PressWakes, BeatsCounted, Since, BegunOnce, HoldEnds, vars

\* app_main: it begins once, and the Main task comes after the connection.
LEMMA AppMainKeeps ==
    ASSUME IInv, AppMain
    PROVE  IInv'
<1> USE Constants DEF IInv, AppMain, Begin, Joined, Spawn, StartZigbee, zigbee, button, beats
<1>1. TypeOK'
    BY DEF TypeOK
<1>2. PressWakes'
    BY DEF BegunOnce, PressWakes
<1>3. BeatsCounted'
    BY DEF TypeOK, BegunOnce, BeatsCounted, Since
<1>4. BegunOnce'
    BY DEF TypeOK, BegunOnce
<1>5. HoldEnds'
    BY DEF BegunOnce, HoldEnds
<1>6. QED
    BY <1>1, <1>2, <1>3, <1>4, <1>5

\* The stack and the alarm: one of them has the commissioning, neither once
\* the device is connected.
LEMMA CommissioningKeeps ==
    ASSUME IInv, Stack \/ Alarm
    PROVE  IInv'
<1> USE Constants DEF IInv, Stack, SkipStartup, Initialised, Steered, CommissioningFails,
        Alarm, Commission, button, beats
<1>1. TypeOK'
  <2>1. /\ factoryNew' \in BOOLEAN /\ connected' \in BOOLEAN /\ stuck' \in BOOLEAN
        /\ pressed' \in BOOLEAN /\ down' \in BOOLEAN
      BY Zenon DEF TypeOK
  <2>2. QED
      BY <2>1 DEF TypeOK
<1>2. PressWakes'
    BY DEF PressWakes
<1>3. BeatsCounted'
    BY DEF BeatsCounted, Since
<1>4. BegunOnce'
    BY DEF TypeOK, BegunOnce
<1>5. HoldEnds'
    BY DEF BegunOnce, HoldEnds
<1>6. QED
    BY <1>1, <1>2, <1>3, <1>4, <1>5

\* What comes from outside: a full queue has an item in it all the same.
LEMMA OutsideKeeps ==
    ASSUME IInv, CanSleep \/ Tick \/ \E seen \in BOOLEAN : Edge(seen)
    PROVE  IInv'
<1> USE Constants DEF IInv, CanSleep, Tick, Edge, Wake, zigbee, button, beats
<1>1. TypeOK'
  <2>1. pressed' \in BOOLEAN /\ down' \in BOOLEAN
      BY Zenon DEF TypeOK
  <2>2. QED
      BY <2>1 DEF TypeOK
<1>2. PressWakes'
  <2>1. queue' >= queue /\ main' = main
      BY DEF TypeOK
  <2>2. CASE pressed' = pressed
      BY <2>1, <2>2 DEF TypeOK, PressWakes
  <2>3. CASE \E seen \in BOOLEAN : Edge(seen) /\ seen
      BY <2>3 DEF TypeOK, PressWakes
  <2>4. QED
      BY <2>2, <2>3, Zenon
<1>3. BeatsCounted'
    BY DEF BeatsCounted, Since
<1>4. BegunOnce'
    BY DEF BegunOnce
<1>5. HoldEnds'
    BY DEF HoldEnds
<1>6. QED
    BY <1>1, <1>2, <1>3, <1>4, <1>5

-----------------------------------------------------------------------------
\* The Main task between two renders.
LEMMA AwakeKeeps ==
    ASSUME IInv, Receive \/ TooEarly \/ NotPressed \/ Pressed \/ Holding \/ Released
    PROVE  IInv'
<1> USE Constants DEF IInv, Receive, TooEarly, NotPressed, Pressed, Holding, Released,
        MainStep, zigbee, beats
<1>1. TypeOK'
  <2>1. pressed' \in BOOLEAN /\ down' \in BOOLEAN
      BY Zenon DEF TypeOK, button
  <2>2. held' \in 0 .. (HoldPolls + 1) /\ queue' \in 0 .. QueueSize
      BY DEF TypeOK, HoldEnds, button
  <2>3. QED
      BY <2>1, <2>2 DEF TypeOK
<1>2. PressWakes'
    BY DEF TypeOK, PressWakes, button
<1>3. BeatsCounted'
    BY DEF BeatsCounted, Since, button
<1>4. BegunOnce'
    BY DEF BegunOnce, button
<1>5. HoldEnds'
    BY DEF TypeOK, HoldEnds, button
<1>6. QED
    BY <1>1, <1>2, <1>3, <1>4, <1>5

\* handleHeartbeat up to the render: the battery is read on the full hour.
LEMMA HeartbeatKeeps ==
    ASSUME IInv, Heartbeat
    PROVE  IInv'
<1> USE Constants DEF IInv, Heartbeat, MainStep, zigbee, button
<1>1. beatsNoRead' = counter % Hour
    BY BeatCounted DEF TypeOK, BeatsCounted
<1>2. counter % Hour \in Nat
    BY Division DEF TypeOK
<1>3. TypeOK'
    BY <1>1, <1>2 DEF TypeOK
<1>4. PressWakes' /\ BegunOnce' /\ HoldEnds'
    BY DEF PressWakes, BegunOnce, HoldEnds
<1>5. BeatsCounted'
    BY <1>1 DEF BeatsCounted, Since
<1>6. QED
    BY <1>3, <1>4, <1>5

\* handleHeartbeat from the render: the counter goes up or around.
LEMMA RenderedKeeps ==
    ASSUME IInv, Rendered
    PROVE  IInv'
<1> USE Constants DEF IInv, Rendered, Count, MainStep, button
<1>1. connected /\ starts' = starts /\ job' = job
    BY DEF BegunOnce
<1>2. counter' \in 0 .. (CounterWord - 1)
    BY Division DEF TypeOK
<1>3. beatsNoDraw' = counter % SixHours
    BY BeatCounted DEF TypeOK, BeatsCounted
<1>4. Since(beatsNoDraw', counter', SixHours) /\ Since(beatsNoRead', counter', Hour)
    BY <1>3, SinceNext DEF TypeOK, BeatsCounted
<1>5. TypeOK'
  <2>1. counter % SixHours \in Nat
      BY Division DEF TypeOK
  <2>2. QED
      BY <1>1, <1>2, <1>3, <2>1 DEF TypeOK
<1>6. PressWakes' /\ BegunOnce' /\ HoldEnds'
    BY <1>1 DEF PressWakes, BegunOnce, HoldEnds
<1>7. BeatsCounted'
    BY <1>4 DEF BeatsCounted
<1>8. QED
    BY <1>5, <1>6, <1>7

-----------------------------------------------------------------------------
LEMMA NextKeeps == IInv /\ [Next]_vars => IInv'
<1> SUFFICES ASSUME IInv, [Next]_vars PROVE IInv'
    OBVIOUS
<1>1. CASE UNCHANGED vars
    BY <1>1, StutterKeeps
<1>2. CASE AppMain
    BY <1>2, AppMainKeeps
<1>3. CASE Stack \/ Alarm
    BY <1>3, CommissioningKeeps
<1>4. CASE CanSleep \/ Tick \/ \E seen \in BOOLEAN : Edge(seen)
    BY <1>4, OutsideKeeps
<1>5. CASE Receive \/ TooEarly \/ NotPressed \/ Pressed \/ Holding \/ Released
    BY <1>5, AwakeKeeps
<1>6. CASE Heartbeat
    BY <1>6, HeartbeatKeeps
<1>7. CASE Rendered
    BY <1>7, RenderedKeeps
<1>8. CASE Leave \/ FactoryReset
  <2>1. \E new \in BOOLEAN : Reboot(new)
      BY <1>8, Zenon DEF Leave, FactoryReset, IInv, TypeOK
  <2>2. QED
      BY <2>1, RebootKeeps
<1>9. QED
    BY <1>1, <1>2, <1>3, <1>4, <1>5, <1>6, <1>7, <1>8, Zenon DEF Next, AppMain, Stack

\* The battery's schedule at every moment: a remainder is below its divisor.
LEMMA IInvImplies == IInv => NoLostPress /\ OnSchedule /\ OneCommissioning
<1> SUFFICES ASSUME IInv PROVE NoLostPress /\ OnSchedule /\ OneCommissioning
    OBVIOUS
<1> USE DEF IInv
<1>1. NoLostPress
    BY DEF PressWakes, NoLostPress
<1>2. OnSchedule
  <2>1. counter % Hour < Hour
      BY Constants, Division DEF TypeOK
  <2>2. QED
      BY <2>1 DEF BeatsCounted, Since, OnSchedule
<1>3. OneCommissioning
    BY DEF BegunOnce, OneCommissioning
<1>4. QED
    BY <1>1, <1>2, <1>3

LEMMA Invariance == Spec => []IInv
<1>1. QED
    BY InitIInv, NextKeeps, PTL DEF Spec

\* app_main, the stack, the interrupt and the Main task keep the types of their
\* state, whatever the length of the queue.
THEOREM TypeCorrect == Spec => []TypeOK
<1>1. IInv => TypeOK
    BY DEF IInv
<1>2. QED
    BY <1>1, Invariance, PTL

\* buttonISR and main_task: whatever the length of the queue and however often
\* it was full, a press that was seen finds the Main task awake or wakes it.
THEOREM PressNotLost == Spec => []NoLostPress
<1>1. QED
    BY IInvImplies, Invariance, PTL

\* handleHeartbeat: the battery is read and the panel drawn in time for every
\* period and every width of the counter, whether or not one divides the other.
THEOREM ScheduleKept == Spec => []OnSchedule
<1>1. QED
    BY IInvImplies, Invariance, PTL

\* ZigbeeCore: the stack is started once, has one commissioning in hand, and
\* none once the device is connected.
THEOREM OneInHand == Spec => []OneCommissioning
<1>1. QED
    BY IInvImplies, Invariance, PTL
==============================================================================
