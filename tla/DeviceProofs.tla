---------------------------- MODULE DeviceProofs -----------------------------
(***************************************************************************)
(* The composition of the sensor and the screen, for every payload, every  *)
(* number of commands and every word size.                                 *)
(***************************************************************************)
EXTENDS Device, BinTimesProofs

\* Every step of the device is one of the sensor's or none.
LEMMA StepIsSensors == [DeviceNext]_everything => [Next]_vars
BY DEF DeviceNext, everything, Next, Start, Handle, Put, ShowTimes, Stop, Render

\* Every step of the device is one of the screen's or none.
LEMMA StepIsScreens == [DeviceNext]_everything => [Glass!Next]_<<latest, seen, intact>>
BY DEF DeviceNext, everything, glass, Start, Handle, Put, ShowTimes, Stop, Render, Give,
       Glass!Next

\* The device is a sensor, and what is on its glass is a screen's doing.
THEOREM ImplementsParts == DeviceSpec => Spec /\ Glass!Spec
<1>1. DeviceInit => Init /\ Glass!Init
    BY DEF DeviceInit
<1>2. QED
    BY <1>1, StepIsSensors, StepIsScreens, PTL DEF DeviceSpec, Spec, Glass!Spec

LEMMA SensorInv == IInv /\ [DeviceNext]_everything => IInv'
BY StepIsSensors, StepType, StepHandling, StepRows, StepDurable, StepOrder DEF IInv

-----------------------------------------------------------------------------
\* The history grows at its end.
LEMMA GiveAppends ==
    ASSUME Numbered, NEW commands \in [Bins -> Nat], Give(commands)
    PROVE  /\ latest' = latest + 1 /\ UNCHANGED <<seen, intact>>
           /\ origin' \in Seq([Bins -> Nat]) /\ Len(origin') = latest'
           /\ \A n \in 1 .. latest : origin'[n] = origin[n]
           /\ origin'[latest'] = commands
BY AppendProperties DEF Numbered, Give, Glass!NewTimes

LEMMA StampType ==
    ASSUME TypeOK
    PROVE  /\ Len(received) \in Nat
           /\ stamp \in [Bins -> Nat] /\ \A b \in Bins : stamp[b] <= Len(received)
BY LenProperties DEF TypeOK

\* What a boot and a shown command add to the history.
LEMMA StartGives ==
    ASSUME TypeOK, NEW open \in BOOLEAN, Start(open)
    PROVE  \E commands \in [Bins -> Nat] :
               /\ Give(commands)
               /\ \A b \in Bins : commands[b] = IF open THEN stamp[b] ELSE 0
<1> DEFINE commands == [b \in Bins |-> IF open THEN stamp[b] ELSE 0]
<1>1. commands \in [Bins -> Nat] /\ \A b \in Bins : commands[b] = IF open THEN stamp[b] ELSE 0
    BY StampType
<1>2. Give(commands)
    BY DEF Start
<1>3. QED
    BY <1>1, <1>2

LEMMA ShowGives ==
    ASSUME TypeOK, ShowTimes
    PROVE  \E commands \in [Bins -> Nat] :
               Give(commands) /\ \A b \in Bins : commands[b] = Len(received)
<1> DEFINE commands == [b \in Bins |-> Len(received)]
<1>1. commands \in [Bins -> Nat] /\ \A b \in Bins : commands[b] = Len(received)
    BY StampType
<1>2. Give(commands)
    BY DEF ShowTimes
<1>3. QED
    BY <1>1, <1>2

LEMMA GiveNumbers ==
    ASSUME Numbered, NEW commands \in [Bins -> Nat], Give(commands),
           \A b \in Bins : commands[b] <= Len(received),
           received' = received, opened' \in BOOLEAN
    PROVE  Numbered'
<1>1. ASSUME NEW n \in 1 .. latest', NEW b \in Bins PROVE origin'[n][b] <= Len(received)
  <2>1. CASE n \in 1 .. latest
      BY <2>1, GiveAppends DEF Numbered
  <2>2. CASE n = latest'
      BY <2>2, GiveAppends
  <2>3. latest \in Nat /\ latest' = latest + 1
      BY GiveAppends DEF Numbered
  <2>4. QED
      BY <2>1, <2>2, <2>3
<1>2. intact' \in BOOLEAN
    BY GiveAppends DEF Numbered
<1>3. QED
    BY <1>1, <1>2, GiveAppends DEF Numbered

LEMMA NumberedKept == IInv /\ Numbered /\ [DeviceNext]_everything => Numbered'
<1> SUFFICES ASSUME IInv, Numbered, [DeviceNext]_everything PROVE Numbered'
    OBVIOUS
<1>0. TypeOK /\ Len(received) \in Nat /\ \A b \in Bins : stamp[b] \in 0 .. Len(received)
    BY LenProperties DEF IInv, TypeOK
<1>1. ASSUME NEW open \in BOOLEAN, Start(open) PROVE Numbered'
  <2>1. received' = received
      BY <1>1 DEF Start, Boot
  <2>2. opened' \in BOOLEAN
      BY <1>1, Zenon DEF Start, Numbered
  <2>3. PICK commands \in [Bins -> Nat] :
            Give(commands) /\ \A b \in Bins : commands[b] = IF open THEN stamp[b] ELSE 0
      BY <1>0, <1>1, StartGives
  <2>4. QED
      BY <1>0, <2>1, <2>2, <2>3, GiveNumbers
<1>2. ASSUME NEW payload \in Payloads, Handle(payload) PROVE Numbered'
  <2>1. Len(received') = Len(received) + 1
      BY <1>0, <1>2, AppendKeeps DEF Handle, Receive, TypeOK
  <2>2. \A n \in 1 .. latest, b \in Bins : origin[n][b] \in Nat
      BY ElementOfSeq DEF Numbered
  <2>3. QED
      BY <1>0, <1>2, <2>1, <2>2 DEF Handle, Numbered, glass, history
<1>3. CASE Put
    BY <1>3 DEF Put, PutSucceeds, PutFails, Numbered, glass, history
<1>4. CASE ShowTimes
  <2>1. received' = received /\ opened' = opened
      BY <1>4 DEF ShowTimes, Show
  <2>2. PICK commands \in [Bins -> Nat] :
            Give(commands) /\ \A b \in Bins : commands[b] = Len(received)
      BY <1>0, <1>4, ShowGives
  <2>3. QED
      BY <1>0, <2>1, <2>2, GiveNumbers DEF Numbered
<1>5. CASE Stop
    BY <1>5 DEF Stop, Crash, Numbered, glass, history, Glass!Disturb
<1>6. CASE Render
  <2>1. UNCHANGED <<latest, origin, opened, received>> /\ seen' \in 0 .. latest
      BY <1>6 DEF Render, Numbered, vars, history, Glass!Refresh, Glass!Disturb
  <2>2. intact' \in BOOLEAN
      BY <1>6, Zenon DEF Render, Glass!Refresh, Glass!Disturb
  <2>3. QED
      BY <2>1, <2>2 DEF Numbered
<1>7. CASE UNCHANGED everything
    BY <1>7 DEF everything, vars, glass, history, Numbered
<1>8. QED
    BY <1>1, <1>2, <1>3, <1>4, <1>5, <1>6, <1>7 DEF DeviceNext

-----------------------------------------------------------------------------
\* A key is only ever written by a newer command; all three are by the time
\* the command is shown.
LEMMA StampsGrow ==
    ASSUME IInv, [Next]_vars
    PROVE  \A b \in Bins : stamp'[b] >= stamp[b]
<1>0. TypeOK /\ Handling /\ Len(received) \in Nat /\ \A b \in Bins : stamp[b] \in 0 .. Len(received)
    BY LenProperties DEF IInv, TypeOK
<1>1. CASE UNCHANGED stamp
    BY <1>0, <1>1
<1>2. ASSUME uptime > 0, Write PROVE \A b \in Bins : stamp'[b] >= stamp[b]
  <2> SUFFICES ASSUME NEW b \in Bins PROVE stamp'[b] >= stamp[b]
      OBVIOUS
  <2>1. CASE b = PutOrder[next]
      BY <1>0, <1>2, <2>1, WriteStamps
  <2>2. CASE b # PutOrder[next]
      BY <1>0, <1>2, <2>2, WriteStamps
  <2>3. QED
      BY <2>1, <2>2
<1>3. CASE PutSucceeds
    BY <1>0, <1>2, <1>3 DEF PutSucceeds, Handling
<1>4. CASE PutFails
    BY <1>0, <1>1, <1>2, <1>4 DEF PutFails, Handling
<1>5. CASE Crash
    BY <1>0, <1>1, <1>2, <1>5 DEF Crash, Handling
<1>6. QED
    BY <1>1, <1>3, <1>4, <1>5 DEF Next, Boot, Receive, Show, vars

LEMMA AllStamped ==
    ASSUME IInv, PutSucceeds, good, pc' = "show"
    PROVE  \A b \in Bins : stamp'[b] = Len(received)
<1>1. TypeOK /\ uptime > 0 /\ Write /\ next = 3
    BY DEF IInv, TypeOK, Handling, PutSucceeds, NextPut, PutOrder
<1>2. stamp[PutOrder[1]] = Len(received) /\ stamp[PutOrder[2]] = Len(received)
    BY <1>1 DEF IInv, Handling, PutSucceeds
<1>3. stamp'[PutOrder[3]] = Len(received)
    BY <1>1, WriteStamps
<1>4. stamp'[PutOrder[1]] = Len(received) /\ stamp'[PutOrder[2]] = Len(received)
    BY <1>1, <1>2, WriteStamps DEF PutOrder, Bins
<1>5. QED
    BY <1>3, <1>4 DEF PutOrder, Bins

LEMMA StoredKept ==
    IInv /\ Numbered /\ OriginStored /\ [DeviceNext]_everything => OriginStored'
<1> SUFFICES ASSUME IInv, Numbered, OriginStored, [DeviceNext]_everything, ~faulty'
             PROVE  /\ \A n \in 1 .. latest', b \in Bins : origin'[n][b] <= stamp'[b]
                    /\ pc' = "show" => \A b \in Bins : stamp'[b] = Len(received')
    BY DEF OriginStored
<1>0. TypeOK /\ [Next]_vars /\ Len(received) \in Nat /\ \A b \in Bins : stamp[b] \in 0 .. Len(received)
    BY StepIsSensors, LenProperties DEF IInv, TypeOK
<1>1. ~faulty /\ good
    BY <1>0 DEF Next, Boot, Receive, PutSucceeds, PutFails, Show, Crash, vars, IInv, Handling
<1>2. /\ \A n \in 1 .. latest, b \in Bins : origin[n][b] <= stamp[b]
      /\ pc = "show" => \A b \in Bins : stamp[b] = Len(received)
    BY <1>1 DEF OriginStored
<1>3. \A n \in 1 .. latest, b \in Bins : origin[n][b] \in Nat
    BY ElementOfSeq DEF Numbered
<1>4. \A b \in Bins : stamp'[b] \in Nat /\ stamp'[b] >= stamp[b]
  <2>1. TypeOK'
      BY SensorInv DEF IInv
  <2>2. \A b \in Bins : stamp'[b] \in 0 .. Len(received') /\ Len(received') \in Nat
      BY <2>1, LenProperties DEF TypeOK
  <2>3. QED
      BY <1>0, <2>2, StampsGrow
<1>5. ASSUME UNCHANGED <<latest, origin>>
      PROVE  \A n \in 1 .. latest', b \in Bins : origin'[n][b] <= stamp'[b]
  <2> SUFFICES ASSUME NEW n \in 1 .. latest, NEW b \in Bins PROVE origin[n][b] <= stamp'[b]
      BY <1>5
  <2>1. origin[n][b] \in Nat /\ origin[n][b] <= stamp[b]
      BY <1>2, <1>3
  <2>2. QED
      BY <1>0, <1>4, <2>1
<1>6. ASSUME NEW commands \in [Bins -> Nat], Give(commands), stamp' = stamp,
             \A b \in Bins : commands[b] <= stamp[b]
      PROVE  \A n \in 1 .. latest', b \in Bins : origin'[n][b] <= stamp'[b]
  <2> SUFFICES ASSUME NEW n \in 1 .. latest', NEW b \in Bins PROVE origin'[n][b] <= stamp'[b]
      OBVIOUS
  <2>1. CASE n \in 1 .. latest
      BY <1>2, <1>6, <2>1, GiveAppends
  <2>2. CASE n = latest'
      BY <1>6, <2>2, GiveAppends
  <2>3. latest \in Nat /\ latest' = latest + 1
      BY <1>6, GiveAppends DEF Numbered
  <2>4. QED
      BY <2>1, <2>2, <2>3
<1>7. ASSUME NEW open \in BOOLEAN, Start(open)
      PROVE  /\ \A n \in 1 .. latest', b \in Bins : origin'[n][b] <= stamp'[b]
             /\ pc' # "show"
  <2>1. stamp' = stamp /\ pc' = "idle"
      BY <1>7 DEF Start, Boot
  <2>2. PICK commands \in [Bins -> Nat] :
            Give(commands) /\ \A b \in Bins : commands[b] = IF open THEN stamp[b] ELSE 0
      BY <1>0, <1>7, StartGives
  <2>3. QED
      BY <1>0, <1>6, <2>1, <2>2
<1>8. ASSUME NEW payload \in Payloads, Handle(payload)
      PROVE  UNCHANGED <<latest, origin>> /\ pc' # "show"
    BY <1>8 DEF Handle, Receive, glass, history
<1>9. CASE Put
  <2>1. PutSucceeds /\ UNCHANGED <<latest, origin>> /\ received' = received
      BY <1>9 DEF Put, PutSucceeds, PutFails, glass, history
  <2>2. pc' = "show" => \A b \in Bins : stamp'[b] = Len(received)
      BY <1>1, <2>1, AllStamped
  <2>3. QED
      BY <1>5, <2>1, <2>2
<1>10. CASE ShowTimes
  <2>1. stamp' = stamp /\ pc' = "idle" /\ pc = "show"
      BY <1>10 DEF ShowTimes, Show
  <2>2. PICK commands \in [Bins -> Nat] :
            Give(commands) /\ \A b \in Bins : commands[b] = Len(received)
      BY <1>0, <1>10, ShowGives
  <2>3. QED
      BY <1>0, <1>2, <1>6, <2>1, <2>2
<1>11. CASE Stop
  <2>1. UNCHANGED <<latest, origin>> /\ pc' # "show"
      BY <1>11 DEF Stop, Crash, glass, history, Glass!Disturb
  <2>2. QED
      BY <1>5, <2>1
<1>12. CASE Render \/ UNCHANGED everything
  <2>1. UNCHANGED <<latest, origin, vars>>
      BY <1>12 DEF Render, everything, glass, history, Glass!Refresh, Glass!Disturb
  <2>2. QED
      BY <1>2, <1>5, <2>1 DEF vars
<1>13. QED
    BY <1>5, <1>7, <1>8, <1>9, <1>10, <1>11, <1>12 DEF DeviceNext

-----------------------------------------------------------------------------
LEMMA GrowsKept ==
    IInv /\ Numbered /\ OriginStored /\ OriginGrows /\ [DeviceNext]_everything => OriginGrows'
<1> SUFFICES ASSUME IInv, Numbered, OriginStored, OriginGrows, [DeviceNext]_everything,
                    ~faulty', opened',
                    NEW m \in 1 .. latest', NEW n \in 1 .. latest', NEW b \in Bins, m <= n
             PROVE  origin'[m][b] <= origin'[n][b]
    BY DEF OriginGrows
<1>0. TypeOK /\ [Next]_vars /\ Len(received) \in Nat /\ \A c \in Bins : stamp[c] \in 0 .. Len(received)
    BY StepIsSensors, LenProperties DEF IInv, TypeOK
<1>1. ~faulty /\ good
    BY <1>0 DEF Next, Boot, Receive, PutSucceeds, PutFails, Show, Crash, vars, IInv, Handling
<1>2. opened
    BY DEF DeviceNext, everything, Start, Handle, Put, ShowTimes, Stop, Render, history
<1>3. /\ \A i \in 1 .. latest : origin[i][b] <= stamp[b]
      /\ \A i, j \in 1 .. latest : i <= j => origin[i][b] <= origin[j][b]
      /\ pc = "show" => stamp[b] = Len(received)
    BY <1>1, <1>2 DEF OriginStored, OriginGrows
<1>4. CASE UNCHANGED <<latest, origin>>
    BY <1>3, <1>4
<1>5. ASSUME NEW commands \in [Bins -> Nat], Give(commands), commands[b] = stamp[b]
      PROVE  origin'[m][b] <= origin'[n][b]
  <2>1. latest \in Nat /\ latest' = latest + 1
      BY <1>5, GiveAppends DEF Numbered
  <2>2. origin'[latest'] = commands /\ \A k \in 1 .. latest : origin'[k] = origin[k]
      BY <1>5, GiveAppends
  <2>3. CASE n \in 1 .. latest
    <3>1. m \in 1 .. latest
        BY <2>1, <2>3
    <3>2. QED
        BY <1>3, <2>2, <2>3, <3>1
  <2>4. CASE n = latest' /\ m \in 1 .. latest
      BY <1>3, <1>5, <2>2, <2>4
  <2>5. CASE n = latest' /\ m = latest'
      BY <1>5, <2>2, <2>5
  <2>6. QED
      BY <2>1, <2>3, <2>4, <2>5
<1>6. ASSUME NEW open \in BOOLEAN, Start(open) PROVE origin'[m][b] <= origin'[n][b]
  <2>1. open
      BY <1>6 DEF Start
  <2>2. QED
      BY <1>0, <1>5, <1>6, <2>1, StartGives
<1>7. CASE ShowTimes
  <2>1. pc = "show"
      BY <1>7 DEF ShowTimes, Show
  <2>2. QED
      BY <1>0, <1>3, <1>5, <1>7, <2>1, ShowGives
<1>8. QED
    BY <1>4, <1>6, <1>7
    DEF DeviceNext, everything, Handle, Put, Stop, Render, glass, history,
        Glass!Refresh, Glass!Disturb

-----------------------------------------------------------------------------
\* Flash, the last command and what was never set are what origin makes of them.
LEMMA RowsOfWords ==
    ASSUME NEW words \in [Bins -> Words], latest' > 0,
           rows' = UpdateTimes(Decoded(words)),
           \A b \in Bins : words[b] = Given(b)'
    PROVE  RowsFromOrigin'
<1>1. Decoded(words) = Decoded([b \in Bins |-> Given(b)'])
    BY DEF Decoded
<1>2. QED
    BY <1>1, DecodedType DEF RowsFromOrigin, Decoded

LEMMA RowsKept ==
    IInv /\ Numbered /\ RowsFromOrigin /\ [DeviceNext]_everything => RowsFromOrigin'
<1> SUFFICES ASSUME IInv, Numbered, RowsFromOrigin, [DeviceNext]_everything
             PROVE  RowsFromOrigin'
    OBVIOUS
<1>0. TypeOK /\ Len(received) \in Nat /\ \A b \in Bins : stamp[b] \in 0 .. Len(received)
    BY LenProperties DEF IInv, TypeOK
<1>1. ASSUME NEW open \in BOOLEAN, Start(open) PROVE RowsFromOrigin'
  <2>1. PICK commands \in [Bins -> Nat] :
            Give(commands) /\ \A b \in Bins : commands[b] = IF open THEN stamp[b] ELSE 0
      BY <1>0, <1>1, StartGives
  <2>2. /\ received' = received /\ rows' = UpdateTimes(Decoded(Stored(open)))
        /\ Stored(open) \in [Bins -> Words]
      BY <1>0, <1>1, StoredType DEF Start, Boot
  <2>3. latest' > 0 /\ origin'[latest'] = commands
      BY <2>1, GiveAppends DEF Numbered
  <2>4. ASSUME NEW b \in Bins PROVE Stored(open)[b] = Given(b)'
    <3>1. nvs[b] = IF stamp[b] = 0 THEN Unset ELSE received[stamp[b]][b]
        BY DEF IInv, NeverOlderThanDurable
    <3>2. From(latest, b)' = IF open THEN stamp[b] ELSE 0
        BY <2>1, <2>3 DEF From
    <3>3. stamp[b] # 0 => nvs[b] # Unset
      <4>1. stamp[b] # 0 => received[stamp[b]] \in [Bins -> Words]
          BY <1>0, ElementOfSeq, BinTimesAssumption DEF TypeOK, BinTimesAssumption
      <4>2. QED
          BY <3>1, <4>1, BinRowsAssumption DEF Unset, Words
    <3>4. QED
        BY <2>2, <3>1, <3>2, <3>3 DEF Given, Stored, GetUInt
  <2>5. QED
      BY <2>2, <2>3, <2>4, RowsOfWords
<1>2. CASE ShowTimes
  <2>1. PICK commands \in [Bins -> Nat] :
            Give(commands) /\ \A b \in Bins : commands[b] = Len(received)
      BY <1>0, <1>2, ShowGives
  <2>2. /\ received' = received /\ rows' = UpdateTimes(Decoded(Payload))
        /\ Payload \in [Bins -> Words] /\ Len(received) # 0
      BY <1>0, <1>2, PayloadType DEF ShowTimes, Show, IInv, Handling
  <2>3. latest' > 0 /\ origin'[latest'] = commands
      BY <2>1, GiveAppends DEF Numbered
  <2>4. ASSUME NEW b \in Bins PROVE Payload[b] = Given(b)'
      BY <2>1, <2>2, <2>3 DEF Given, From, Payload
  <2>5. QED
      BY <2>2, <2>3, <2>4, RowsOfWords
<1>3. ASSUME NEW payload \in Payloads, Handle(payload) PROVE RowsFromOrigin'
  <2>1. UNCHANGED <<latest, origin, rows>>
      BY <1>3 DEF Handle, Receive, glass, history
  <2>2. \A n \in 1 .. Len(received) : received'[n] = received[n]
      BY <1>0, <1>3, AppendKeeps DEF Handle, Receive, TypeOK
  <2>3. latest > 0 => \A b \in Bins : origin[latest][b] \in 0 .. Len(received)
      BY <1>0, ElementOfSeq DEF Numbered
  <2>4. latest > 0 => \A b \in Bins : Given(b)' = Given(b)
      BY <2>1, <2>2, <2>3 DEF Given, From
  <2>5. latest > 0 => Decoded([b \in Bins |-> Given(b)]) = Decoded([b \in Bins |-> Given(b)'])
      BY <2>4 DEF Decoded
  <2>6. QED
      BY <2>1, <2>5 DEF RowsFromOrigin, Decoded
<1>4. CASE UNCHANGED <<latest, origin, rows, received>>
    BY <1>4 DEF RowsFromOrigin, Decoded, Given, From
<1>5. CASE Put
    BY <1>4, <1>5 DEF Put, PutSucceeds, PutFails, glass, history
<1>6. CASE Stop
    BY <1>4, <1>6 DEF Stop, Crash, glass, history, Glass!Disturb
<1>7. CASE Render \/ UNCHANGED everything
    BY <1>4, <1>7 DEF Render, everything, vars, glass, history, Glass!Refresh, Glass!Disturb
<1>8. QED
    BY <1>1, <1>2, <1>3, <1>5, <1>6, <1>7 DEF DeviceNext

-----------------------------------------------------------------------------
LEMMA InitDeviceInv == DeviceInit => DeviceInv
<1> SUFFICES ASSUME DeviceInit PROVE DeviceInv
    OBVIOUS
<1>1. IInv
    BY InitIInv DEF DeviceInit
<1>2. latest = 0 /\ seen = 0 /\ intact = TRUE /\ origin = << >> /\ opened = TRUE
    BY DEF DeviceInit, Glass!Init
<1>3. Numbered
  <2>1. intact \in BOOLEAN /\ opened \in BOOLEAN
      BY <1>2, Zenon
  <2>2. QED
      BY <1>2, <2>1, EmptySeq DEF Numbered
<1>4. OriginStored /\ OriginGrows /\ RowsFromOrigin
    BY <1>2 DEF OriginStored, OriginGrows, RowsFromOrigin, DeviceInit, Init
<1>5. QED
    BY <1>1, <1>3, <1>4 DEF DeviceInv

\* The sensor's invariant and the history of what the display was given.
THEOREM DeviceInductive == DeviceSpec => []DeviceInv
<1>1. DeviceInv /\ [DeviceNext]_everything => DeviceInv'
    BY SensorInv, NumberedKept, StoredKept, GrowsKept, RowsKept DEF DeviceInv
<1>2. QED
    BY InitDeviceInv, <1>1, PTL DEF DeviceSpec

(***************************************************************************)
(* zbCustomCommand stores before it shows: without a fault nothing is on   *)
(* the glass that is not in flash.                                         *)
(***************************************************************************)
THEOREM SeenInFlash == DeviceSpec => []SeenIsStored
<1>1. DeviceInv => SeenIsStored
  <2> SUFFICES ASSUME DeviceInv, ~faulty, NEW b \in Bins PROVE Seen(b) <= stamp[b]
      BY DEF SeenIsStored
  <2>1. seen \in 0 .. latest /\ latest \in Nat /\ stamp[b] \in Nat
      BY StampType DEF DeviceInv, Numbered, IInv
  <2>2. \A n \in 1 .. latest : origin[n][b] <= stamp[b]
      BY DEF DeviceInv, OriginStored
  <2>3. QED
      BY <2>1, <2>2 DEF Seen, From
<1>2. QED
    BY DeviceInductive, <1>1, PTL

(***************************************************************************)
(* The display's rows over updateTimes, the reads of init and the          *)
(* mixtures that crashes leave: each bin has the date origin says.         *)
(***************************************************************************)
THEOREM RowsHaveOrigin == DeviceSpec => []RowsFromOrigin
<1>1. DeviceInv => RowsFromOrigin
    BY DEF DeviceInv
<1>2. QED
    BY DeviceInductive, <1>1, PTL

(***************************************************************************)
(* Without a fault the glass never goes back to an earlier command's date, *)
(* over any number of restarts and commands cut off.                       *)
(***************************************************************************)
THEOREM SeenGoesForward == DeviceSpec => SeenNeverBack
<1>1. DeviceInv /\ DeviceInv' /\ [DeviceNext]_everything
          => [~faulty' /\ opened' => \A b \in Bins : Seen(b)' >= Seen(b)]_everything
  <2> SUFFICES ASSUME DeviceInv, DeviceInv', [DeviceNext]_everything, ~faulty', opened',
                      NEW b \in Bins
               PROVE  Seen(b)' >= Seen(b)
      OBVIOUS
  <2>1. /\ latest \in Nat /\ latest' \in Nat
        /\ seen \in 0 .. latest /\ seen' \in 0 .. latest'
        /\ \A n \in 1 .. latest' : origin'[n][b] \in Nat
      BY ElementOfSeq DEF DeviceInv, Numbered
  <2>2. \A m, n \in 1 .. latest' : m <= n => origin'[m][b] <= origin'[n][b]
      BY DEF DeviceInv, OriginGrows
  <2>3. latest' >= latest /\ seen' >= seen /\ \A n \in 1 .. latest : origin'[n] = origin[n]
    <3>1. ASSUME NEW open \in BOOLEAN, Start(open)
          PROVE  latest' >= latest /\ seen' >= seen /\ \A n \in 1 .. latest : origin'[n] = origin[n]
        BY <2>1, <3>1, StartGives, GiveAppends DEF DeviceInv, IInv
    <3>2. CASE ShowTimes
        BY <2>1, <3>2, ShowGives, GiveAppends DEF DeviceInv, IInv
    <3>3. ASSUME latest' = latest, seen' >= seen, origin' = origin
          PROVE  latest' >= latest /\ seen' >= seen /\ \A n \in 1 .. latest : origin'[n] = origin[n]
        BY <2>1, <3>3
    <3>4. ASSUME NEW payload \in Payloads, Handle(payload)
          PROVE  latest' = latest /\ seen' >= seen /\ origin' = origin
        BY <2>1, <3>4 DEF Handle, glass, history
    <3>5. CASE Put \/ Stop \/ UNCHANGED everything
      <4>1. latest' = latest /\ seen' = seen /\ origin' = origin
          BY <3>5 DEF Put, Stop, everything, glass, history, Glass!Disturb
      <4>2. QED
          BY <2>1, <3>3, <4>1
    <3>6. CASE Render
      <4>1. latest' = latest /\ seen' >= seen /\ origin' = origin
          BY <2>1, <3>6 DEF Render, history, Glass!Refresh, Glass!Disturb
      <4>2. QED
          BY <3>3, <4>1
    <3>7. QED
        BY <3>1, <3>2, <3>3, <3>4, <3>5, <3>6 DEF DeviceNext
  <2>4. QED
      BY <2>1, <2>2, <2>3 DEF Seen, From
<1>2. QED
    BY DeviceInductive, <1>1, PTL DEF DeviceSpec, SeenNeverBack

(***************************************************************************)
(* bin.mjs, zbCustomCommand, updateTimes and updateUi together: the number *)
(* in a row is that of the days to the date the hub was given.             *)
(***************************************************************************)
THEOREM DaysCounted == DeviceSpec => []PanelCountsDays
<1>1. DeviceInv => PanelCountsDays
  <2> SUFFICES ASSUME DeviceInv, NEW i \in 1 .. 3, NEW now \in Words
               PROVE  LET date == Epoch + Given(rows[i].bin)
                          days == DayCount(rows[i].time, now)
                      IN  /\ latest > 0
                          /\ date < Word
                          /\ 0 <= date - now /\ date - now < (HalfWord - 1) * Day
                          => (days - 1) * Day <= date - now /\ date - now < days * Day
      BY DEF PanelCountsDays
  <2> DEFINE b == rows[i].bin
             date == Epoch + Given(b)
             days == DayCount(rows[i].time, now)
  <2> SUFFICES ASSUME latest > 0, date < Word, 0 <= date - now, date - now < (HalfWord - 1) * Day
               PROVE  (days - 1) * Day <= date - now /\ date - now < days * Day
      BY Zenon
  <2>1. b \in Bins
      BY DEF DeviceInv, IInv, TypeOK, Row
  <2>2. Given(b) \in Words
    <3>1. From(latest, b) \in 0 .. Len(received)
        BY <2>1, ElementOfSeq DEF DeviceInv, Numbered, From
    <3>2. From(latest, b) # 0 => received[From(latest, b)] \in [Bins -> Words]
        BY <3>1, LenProperties, ElementOfSeq, BinTimesAssumption
        DEF BinTimesAssumption, DeviceInv, IInv, TypeOK
    <3>3. QED
        BY <2>1, <3>2, BinRowsAssumption DEF Given, Words
  <2>3. rows[i].time = Decode(Given(b))
    <3>1. Pairs(rows, Decoded([c \in Bins |-> Given(c)]))
        BY DEF DeviceInv, RowsFromOrigin
    <3>2. Decoded([c \in Bins |-> Given(c)])[b] = Decode(Given(b))
        BY <2>1 DEF Decoded
    <3>3. PICK j \in 1 .. 3 :
              /\ rows[j] = [bin |-> b, time |-> Decode(Given(b))]
              /\ \A k \in 1 .. 3 : rows[k].bin = b => k = j
        BY <2>1, <3>1, <3>2, Zenon DEF Pairs
    <3>4. i = j
        BY <3>3
    <3>5. rows[i] = [bin |-> b, time |-> Decode(Given(b))]
        BY <3>3, <3>4
    <3>6. QED
        BY <3>5
  <2>4. /\ Word \in Nat \ {0} /\ Epoch \in Nat /\ Day \in Nat \ {0}
        /\ now \in Int /\ Given(b) \in Nat
      BY <2>2, BinRowsAssumption DEF Words
  <2>5. rows[i].time = date
    <3>1. date \in 0 .. (Word - 1) /\ Given(b) + Epoch = date
        BY <2>4
    <3>2. QED
        BY <2>3, <2>4, <3>1, ModuloInRange DEF Decode
  <2> HIDE DEF b, date, days
  <2>6. /\ date \in Int /\ date >= now
        /\ date - now > -Day /\ date - now < (HalfWord - 1) * Day
      BY <2>4 DEF b, date
  <2>7. (DayCount(date, now) - 1) * Day <= date - now /\ date - now < DayCount(date, now) * Day
      BY <2>4, <2>6, DayCountExact
  <2>8. QED
      BY <2>5, <2>7 DEF days
<1>2. QED
    BY DeviceInductive, <1>1, PTL
==============================================================================
