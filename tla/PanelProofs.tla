----------------------------- MODULE PanelProofs ------------------------------
(***************************************************************************)
(* For any number of commands, heartbeats, boots and losses of power: no   *)
(* torn frame is seen, the panel's power is not left on, and the glass     *)
(* shows complete sets of times that never go back.                        *)
(***************************************************************************)
EXTENDS Panel, TLAPS

\* What TypeOK says of labels and images.
LEMMA FrameTypes ==
    /\ Labels = [day : 0 .. MaxVersion, date : 0 .. MaxVersion]
    /\ \A d, w \in 0 .. MaxVersion : Label(d, w) \in Labels
    /\ Blank \in Frames /\ Untorn(Blank) /\ Blank[1].date = 0
    /\ \A f \in Frames, ok \in BOOLEAN : Image(f, ok) \in Images
<1>1. 0 \in 0 .. MaxVersion
    BY PanelAssumption DEF PanelAssumption
<1>2. \A d, w \in 0 .. MaxVersion : Label(d, w) \in Labels
    BY DEF Label, Labels
<1>3. Blank \in Frames /\ Untorn(Blank) /\ Blank[1].date = 0
    BY <1>1, <1>2 DEF Blank, Frames, Untorn, RowNumbers, Label
<1>4. QED
    BY <1>2, <1>3 DEF Image, Images, Labels

LEMMA RowType ==
    /\ 1 \in RowNumbers
    /\ \A i \in RowNumbers : i \in Nat /\ (i < 3 => i + 1 \in RowNumbers) /\ (i # 3 => i < 3)
BY DEF RowNumbers

LEMMA InitInv == Init => IInv
<1> SUFFICES ASSUME Init PROVE IInv
    OBVIOUS
<1>1. TypeOK
  <2>1. 0 \in 0 .. MaxVersion
      BY PanelAssumption DEF PanelAssumption
  <2>2. ram \in Images /\ pending \in Images /\ glass \in Images /\ labels \in Frames /\ frame \in Frames
      BY FrameTypes DEF Init
  <2>3. QED
      BY <2>1, <2>2, RowType DEF Init, TypeOK, States
<1>2. Started
    BY PanelAssumption DEF Init, Started, PanelAssumption
<1>3. Locked
    BY DEF Init, Locked, Locking, Labelling, Refreshing, Tasks, Nobody
<1>4. PowerKept
    BY DEF Init, PowerKept
<1>5. Drawn
    BY DEF Init, Drawn
<1>6. LabelsKept
    BY FrameTypes DEF Init, LabelsKept, Labelling, Tasks
<1>7. NoTornFrame /\ Untorn(pending.frame)
    BY FrameTypes DEF Init, NoTornFrame, Image
<1>8. Floors
    BY FrameTypes DEF Init, Floors, Floor, Newest, Image, Labelled, Powered, Labelling
<1>9. Forward
    BY FrameTypes DEF Init, Forward, Newest, Image, Powered
<1>10. QED
    BY <1>1, <1>2, <1>3, <1>4, <1>5, <1>6, <1>7, <1>8, <1>9 DEF IInv

-----------------------------------------------------------------------------
(* Types, who holds the lock, and who will switch the power off.           *)

LEMMA TypeStep == IInv /\ [Next]_vars => TypeOK'
<1> SUFFICES ASSUME IInv, [Next]_vars PROVE TypeOK'
    OBVIOUS
<1>0. TypeOK /\ Started
    BY DEF IInv
<1>1. CASE UNCHANGED vars
    BY <1>0, <1>1 DEF TypeOK, vars
<1>2. CASE Crash
  <2>1. 0 \in 0 .. MaxVersion
      BY PanelAssumption DEF PanelAssumption
  <2>2. ram' \in Images /\ pending' \in Images /\ labels' \in Frames /\ frame' \in Frames
      BY <1>2, FrameTypes DEF Crash
  <2>3. glass' \in Images
      BY <1>0, <1>2 DEF Crash, TypeOK, Images
  <2>4. QED
      BY <1>0, <1>2, <2>1, <2>2, <2>3, RowType DEF Crash, TypeOK, States
<1>3. CASE Boot
  <2>1. version + 1 \in 0 .. MaxVersion
      BY <1>0, <1>3, PanelAssumption DEF TypeOK, Started, Boot, Tasks, PanelAssumption
  <2>2. QED
      BY <1>0, <1>3, <2>1 DEF TypeOK, Boot, States, panel
<1>4. CASE UpdateTimes \/ Heartbeat
  <2>1. version' \in 0 .. MaxVersion
      BY <1>0, <1>4, PanelAssumption DEF TypeOK, UpdateTimes, Heartbeat, PanelAssumption
  <2>2. pc' \in [Tasks -> States]
      BY <1>0, <1>4 DEF TypeOK, UpdateTimes, Heartbeat, Goto, States
  <2>3. QED
      BY <1>0, <1>4, <2>1, <2>2 DEF TypeOK, UpdateTimes, Heartbeat, panel
<1>5. CASE PanelDone
    BY <1>0, <1>5 DEF TypeOK, PanelDone, driver
<1>6. ASSUME NEW t \in Tasks,
             Wake(t) \/ ReadRow(t) \/ LockUi(t) \/ LockUiTimeout(t) \/ LockRefr(t) \/ LockRefrTimeout(t)
      PROVE  TypeOK'
    BY <1>0, <1>6, RowType DEF TypeOK, Wake, ReadRow, LockUi, LockUiTimeout, LockRefr, LockRefrTimeout,
       Goto, States, panel
<1>7. ASSUME NEW t \in Tasks, LabelRow(t) PROVE TypeOK'
  <2>1. labels' \in Frames
      BY <1>0, <1>7, FrameTypes DEF TypeOK, LabelRow, Frames
  <2>2. row' \in [Tasks -> RowNumbers] /\ mutex' \in Tasks \cup {Nobody}
      BY <1>0, <1>7, RowType DEF TypeOK, LabelRow
  <2>3. QED
      BY <1>0, <1>7, <2>1, <2>2 DEF TypeOK, LabelRow, Goto, States, panel
<1>8. ASSUME NEW t \in Tasks, Draw(t) PROVE TypeOK'
  <2>1. frame' \in Frames
      BY <1>0, <1>8 DEF TypeOK, Draw, Frames
  <2>2. row' \in [Tasks -> RowNumbers] /\ asleep' \subseteq Tasks
      BY <1>0, <1>8, RowType DEF TypeOK, Draw, Delay
  <2>3. QED
      BY <1>0, <1>8, <2>1, <2>2 DEF TypeOK, Draw, Goto, States, panel
<1>9. ASSUME NEW t \in Tasks, PowerOn(t) \/ Reset(t) \/ Settings(t) \/ PowerDown(t) \/ Release(t)
      PROVE  TypeOK'
    BY <1>0, <1>9 DEF TypeOK, PowerOn, Reset, Settings, PowerDown, Release, Goto, Delay, panel, Images, States
<1>10. ASSUME NEW t \in Tasks, Write(t) \/ PanelUpdate(t) PROVE TypeOK'
  <2>1. ram' \in Images /\ pending' \in Images
    <3>1. CASE Write(t)
        BY <1>0, <3>1, FrameTypes DEF TypeOK, Write
    <3>2. CASE PanelUpdate(t)
        BY <1>0, <3>2 DEF TypeOK, PanelUpdate, Images
    <3>3. QED
        BY <1>10, <3>1, <3>2
  <2>2. pc' \in [Tasks -> States] /\ asleep' \subseteq Tasks
      BY <1>0, <1>10 DEF TypeOK, Write, PanelUpdate, Goto, Delay, States
  <2>3. QED
      BY <1>0, <1>10, <2>1, <2>2 DEF TypeOK, Write, PanelUpdate
<1>11. QED
    BY <1>1, <1>2, <1>3, <1>4, <1>5, <1>6, <1>7, <1>8, <1>9, <1>10 DEF Next, Step

LEMMA StartedStep == IInv /\ [Next]_vars => Started'
<1> SUFFICES ASSUME IInv, [Next]_vars PROVE Started'
    OBVIOUS
<1>0. TypeOK /\ Started
    BY DEF IInv
<1>1. CASE UNCHANGED vars
    BY <1>0, <1>1 DEF Started, vars
<1>2. CASE Crash
    BY <1>0, <1>2 DEF Started, Crash
<1>3. CASE Boot
    BY <1>0, <1>3 DEF Started, Boot
<1>4. CASE UpdateTimes \/ Heartbeat
    BY <1>0, <1>4 DEF Started, UpdateTimes, Heartbeat, Goto, TypeOK, Tasks
<1>5. CASE PanelDone
    BY <1>0, <1>5 DEF Started, PanelDone, driver
<1>6. ASSUME NEW t \in Tasks, Step(t) PROVE Started'
  <2>1. CASE Wake(t)
      BY <1>0, <2>1 DEF Started, Wake
  <2>2. CASE ~Wake(t)
    <3>1. PICK from, to \in States : Goto(t, from, to) /\ from # "off" /\ to # "off" /\ version' = version
        BY <1>6, <2>2 DEF Step, LockUi, LockUiTimeout, ReadRow, LabelRow, PowerOn, Reset, Settings,
           LockRefr, LockRefrTimeout, Draw, Write, PanelUpdate, PowerDown, Release, Goto, States
    <3>2. QED
        BY <1>0, <3>1 DEF Started, Goto, TypeOK, Tasks
  <2>3. QED
      BY <2>1, <2>2
<1>7. QED
    BY <1>1, <1>2, <1>3, <1>4, <1>5, <1>6 DEF Next

LEMMA LockedStep == IInv /\ [Next]_vars => Locked'
<1> SUFFICES ASSUME IInv, [Next]_vars PROVE Locked'
    OBVIOUS
<1>0. TypeOK /\ Locked
    BY DEF IInv
<1> USE DEF Locking, Labelling, Refreshing
<1>1. CASE UNCHANGED vars
    BY <1>0, <1>1 DEF Locked, vars
<1>2. CASE Crash
    BY <1>2 DEF Locked, Crash, Tasks, Nobody
<1>3. CASE Boot
    BY <1>0, <1>3 DEF Locked, Boot, TypeOK
<1>4. CASE UpdateTimes \/ Heartbeat
    BY <1>0, <1>4 DEF Locked, UpdateTimes, Heartbeat, Goto, Scheduled, TypeOK, Tasks
<1>5. CASE PanelDone
    BY <1>0, <1>5 DEF Locked, PanelDone, driver
<1>6. ASSUME NEW t \in Tasks, Wake(t) PROVE Locked'
    BY <1>0, <1>6 DEF Locked, Wake
<1>7. ASSUME NEW t \in Tasks, LockUi(t) \/ LockRefr(t) PROVE Locked'
    BY <1>0, <1>7 DEF Locked, LockUi, LockRefr, Goto, Scheduled, TypeOK, Tasks, Nobody
<1>8. ASSUME NEW t \in Tasks, LockUiTimeout(t) \/ LockRefrTimeout(t) PROVE Locked'
    BY <1>0, <1>8 DEF Locked, LockUiTimeout, LockRefrTimeout, Goto, Scheduled, TypeOK, Tasks
<1>9. ASSUME NEW t \in Tasks, ReadRow(t) \/ Release(t) PROVE Locked'
    BY <1>0, <1>9 DEF Locked, ReadRow, Release, Goto, Scheduled, TypeOK, Tasks, Nobody
<1>10. ASSUME NEW t \in Tasks, LabelRow(t) PROVE Locked'
    BY <1>0, <1>10 DEF Locked, LabelRow, Goto, Scheduled, TypeOK, Tasks, Nobody
<1>11. ASSUME NEW t \in Tasks, PowerOn(t) \/ Reset(t) \/ Settings(t) PROVE Locked'
    BY <1>0, <1>11 DEF Locked, PowerOn, Reset, Settings, Goto, Scheduled, Delay, TypeOK, Tasks
<1>12. ASSUME NEW t \in Tasks, Draw(t) \/ Write(t) \/ PanelUpdate(t) \/ PowerDown(t) PROVE Locked'
    BY <1>0, <1>12 DEF Locked, Draw, Write, PanelUpdate, PowerDown, Goto, Scheduled, Delay, TypeOK, Tasks
<1>13. QED
    BY <1>1, <1>2, <1>3, <1>4, <1>5, <1>6, <1>7, <1>8, <1>9, <1>10, <1>11, <1>12 DEF Next, Step

LEMMA PowerStep == IInv /\ [Next]_vars => PowerKept'
<1> SUFFICES ASSUME IInv, [Next]_vars PROVE PowerKept'
    OBVIOUS
<1>0. TypeOK /\ Locked /\ PowerKept
    BY DEF IInv
<1> USE DEF Powered
<1>1. CASE UNCHANGED vars
    BY <1>0, <1>1 DEF PowerKept, vars
<1>2. CASE Crash
    BY <1>2 DEF PowerKept, Crash
<1>3. CASE Boot
    BY <1>0, <1>3 DEF PowerKept, Boot, panel
<1>4. CASE UpdateTimes \/ Heartbeat
    BY <1>0, <1>4 DEF PowerKept, UpdateTimes, Heartbeat, Goto, TypeOK, Tasks, panel
<1>5. CASE PanelDone
    BY <1>0, <1>5 DEF PowerKept, PanelDone, driver
<1>6. ASSUME NEW t \in Tasks, Wake(t) PROVE PowerKept'
    BY <1>0, <1>6 DEF PowerKept, Wake, panel
<1>7. ASSUME NEW t \in Tasks, LockUi(t) \/ LockUiTimeout(t) \/ LockRefr(t) \/ ReadRow(t) \/ LabelRow(t) \/ Release(t)
      PROVE  PowerKept'
    BY <1>0, <1>7 DEF PowerKept, LockUi, LockUiTimeout, LockRefr, ReadRow, LabelRow, Release,
       Goto, TypeOK, Tasks, panel
<1>8. ASSUME NEW t \in Tasks, LockRefrTimeout(t) PROVE PowerKept'
    BY <1>0, <1>8 DEF PowerKept, LockRefrTimeout, Refreshing, Goto, TypeOK, Tasks, panel
<1>9. ASSUME NEW t \in Tasks, PowerOn(t) \/ Reset(t) \/ Settings(t) PROVE PowerKept'
  <2>1. pc'[t] \in Powered /\ \A u \in Tasks : pc[u] = "powerDown" => pc'[u] = "powerDown"
      BY <1>0, <1>9 DEF PowerOn, Reset, Settings, Goto, TypeOK
  <2>2. hv' = pwrState' /\ (hv' <=> mode' # "unpowered") /\ (mode' = "busy" => mode = "busy")
    <3>0. (hv <=> mode # "unpowered") /\ hv = pwrState /\ hv \in BOOLEAN
        BY <1>0 DEF PowerKept, TypeOK
    <3>1. CASE PowerOn(t)
      <4>1. hv' = TRUE /\ pwrState' = TRUE
          BY <3>0, <3>1 DEF PowerOn
      <4>2. mode' # "unpowered" /\ (mode' = "busy" => mode = "busy")
          BY <3>0, <3>1 DEF PowerOn
      <4>3. QED
          BY <4>1, <4>2
    <3>2. CASE Reset(t)
        BY <3>0, <3>2 DEF Reset
    <3>3. CASE Settings(t)
        BY <3>0, <3>3 DEF Settings
    <3>4. QED
        BY <1>9, <3>1, <3>2, <3>3
  <2>3. QED
      BY <1>0, <2>1, <2>2 DEF PowerKept
<1>10. ASSUME NEW t \in Tasks, Draw(t) \/ Write(t) PROVE PowerKept'
  <2>1. pc'[t] \in Powered /\ \A u \in Tasks : pc[u] = "powerDown" => pc'[u] = "powerDown"
      BY <1>0, <1>10 DEF Draw, Write, Goto, TypeOK
  <2>2. UNCHANGED <<hv, pwrState, mode>>
      BY <1>10 DEF Draw, Write, panel
  <2>3. QED
      BY <1>0, <2>1, <2>2 DEF PowerKept
<1>11. ASSUME NEW t \in Tasks, PanelUpdate(t) PROVE PowerKept'
  <2>1. pc'[t] = "powerDown"
      BY <1>0, <1>11 DEF PanelUpdate, Goto, TypeOK
  <2>2. UNCHANGED <<hv, pwrState>> /\ (mode' = "unpowered" <=> mode = "unpowered")
      BY <1>11 DEF PanelUpdate
  <2>3. QED
      BY <1>0, <2>1, <2>2 DEF PowerKept
<1>12. ASSUME NEW t \in Tasks, PowerDown(t) PROVE PowerKept'
    BY <1>12 DEF PowerKept, PowerDown
<1>13. QED
    BY <1>1, <1>2, <1>3, <1>4, <1>5, <1>6, <1>7, <1>8, <1>9, <1>10, <1>11, <1>12 DEF Next, Step

-----------------------------------------------------------------------------
(* The labels.                                                             *)

\* Where a task is that does not hold the lock, and what only its holder does.
LEMMA Holder ==
    ASSUME IInv, NEW t \in Tasks, pc[t] \in Locking
    PROVE  mutex = t /\ \A u \in Tasks \ {t} : pc[u] \notin Locking
BY DEF IInv, Locked

\* The Main task takes a free lock only when the Zigbee task does not want it.
LEMMA ZigbeeFirst ==
    ASSUME IInv, NEW t \in Tasks, LockRefr(t)
    PROVE  pc["Zigbee"] # "lockUi" /\ \A u \in Tasks : pc[u] \notin Locking
<1>1. \A u \in Tasks : pc[u] \notin Locking
    BY DEF IInv, Locked, LockRefr, Tasks, Nobody
<1>2. CASE t = "Zigbee"
    BY <1>1, <1>2 DEF LockRefr, Goto
<1>3. CASE t = "Main"
    BY <1>1, <1>3 DEF IInv, Locked, LockRefr, Goto, Scheduled, Runnable, Tasks
<1>4. QED
    BY <1>1, <1>2, <1>3 DEF Tasks

\* A task whose labelling was not disturbed ends it with one set of times.
LEMMA LabelRowEnds ==
    ASSUME IInv, NEW t \in Tasks, LabelRow(t), pc["Zigbee"] # "lockUi"
    PROVE  /\ \A i \in RowNumbers : i <= row[t] => labels'[i] = Label(version, version)
           /\ row[t] = 3 => Untorn(labels') /\ labels'[1].date <= version
<1>1. /\ labels \in [RowNumbers -> Labels] /\ row[t] \in RowNumbers /\ version \in 0 .. MaxVersion
      /\ \A i \in RowNumbers : i < row[t] => labels[i] = Label(version, version)
      /\ count[t] = version
    BY DEF IInv, TypeOK, LabelsKept, LabelRow, Goto, Labelling, Frames
<1>2. labels' = [labels EXCEPT ![row[t]] = Label(version, version)]
    BY <1>1 DEF LabelRow
<1>3. \A i \in RowNumbers : i <= row[t] => labels'[i] = Label(version, version)
    BY <1>1, <1>2 DEF RowNumbers
<1>4. row[t] = 3 => \A i \in RowNumbers : labels'[i] = Label(version, version)
    BY <1>3 DEF RowNumbers
<1>5. Label(version, version).date <= version
    BY <1>1 DEF Label
<1>6. QED
    BY <1>1, <1>3, <1>4, <1>5, RowType DEF Untorn

Whole == Untorn(labels) /\ labels[1].date <= version

\* The steps that hold no times and leave the labels and whoever writes them alone.
LEMMA LabelsAside ==
    ASSUME IInv, UNCHANGED <<version, labels, count>>,
           NEW t \in Tasks, pc[t] \notin Labelling, pc'[t] \notin Labelling, pc'[t] # "lockUi",
           \A u \in Tasks \ {t} : pc'[u] = pc[u] /\ row'[u] = row[u],
           pc'[t] \in Locking => Whole,
           pc[t] = "lockUi" => Whole /\ \A u \in Tasks : pc[u] \notin Labelling
    PROVE  LabelsKept'
<1>1. LabelsKept /\ TypeOK
    BY DEF IInv
<1>2. Whole' <=> Whole
    BY DEF Whole, Untorn
<1>3. CASE Whole /\ \A u \in Tasks : pc[u] \notin Labelling
    BY <1>2, <1>3 DEF LabelsKept, Whole, Labelling
<1>4. CASE pc[t] # "lockUi"
  <2>1. \/ \E u \in Tasks : pc'[u] \in Labelling
        \/ pc'["Zigbee"] = "lockUi" /\ pc'["Main"] \notin Locking
        \/ Whole'
      BY <1>1, <1>2, <1>4 DEF LabelsKept, Whole, Tasks
  <2>2. ASSUME pc'["Zigbee"] # "lockUi", NEW u \in Tasks, pc'[u] \in Labelling
        PROVE  /\ \A i \in RowNumbers : i < row'[u] => labels'[i] = Label(version', version')
               /\ pc'[u] = "label" => count'[u] = version'
    <3>1. u # t /\ pc[u] \in Labelling /\ row'[u] = row[u] /\ pc["Zigbee"] # "lockUi"
        BY <1>4, <2>2 DEF Tasks
    <3>2. QED
        BY <1>1, <3>1, <2>2 DEF LabelsKept
  <2>3. QED
      BY <2>1, <2>2 DEF LabelsKept, Whole, Labelling
<1>5. QED
    BY <1>3, <1>4

\* A refresh draws labels of one set of times.
LEMMA RefreshesWhole ==
    ASSUME IInv, NEW t \in Tasks, pc[t] \in Refreshing \cup {"release"}
    PROVE  Whole /\ \A u \in Tasks : pc[u] \notin Labelling
<1>1. pc[t] \in Locking /\ pc[t] \notin Labelling /\ pc[t] # "lockUi"
    BY DEF Locking, Labelling, Refreshing
<1>2. \A u \in Tasks : pc[u] \notin Labelling
    BY <1>1, Holder DEF Locking
<1>3. ~(pc["Zigbee"] = "lockUi" /\ pc["Main"] \notin Locking)
    BY <1>1 DEF Tasks
<1>4. QED
    BY <1>2, <1>3 DEF IInv, LabelsKept, Whole

LEMMA LabelsStep == IInv /\ [Next]_vars => LabelsKept'
<1> SUFFICES ASSUME IInv, [Next]_vars PROVE LabelsKept'
    OBVIOUS
<1>0. TypeOK /\ LabelsKept
    BY DEF IInv
<1>1. CASE UNCHANGED vars
    BY <1>0, <1>1 DEF LabelsKept, vars, Untorn
<1>2. CASE Crash
  <2>1. \A t \in Tasks : pc'[t] = "off"
      BY <1>2 DEF Crash
  <2>2. Untorn(labels') /\ labels'[1].date <= version'
      BY <1>0, <1>2, FrameTypes DEF Crash, TypeOK, Untorn
  <2>3. QED
      BY <2>1, <2>2 DEF LabelsKept, Labelling
<1>3. CASE Boot
  <2>1. \A t \in Tasks : pc[t] = "off" /\ pc'[t] = "idle"
      BY <1>3 DEF Boot
  <2>2. Whole /\ labels' = labels /\ version' = version + 1 /\ version \in Nat
      BY <1>0, <1>3, <2>1 DEF LabelsKept, Boot, Labelling, Whole, TypeOK, Tasks
  <2>3. labels[1].date \in Nat
      BY <1>0 DEF TypeOK, Frames, Labels, RowNumbers
  <2>4. Untorn(labels') /\ labels'[1].date <= version'
      BY <2>2, <2>3 DEF Whole, Untorn
  <2>5. QED
      BY <2>1, <2>4 DEF LabelsKept, Labelling
<1>4. CASE UpdateTimes
  <2>1. /\ pc["Zigbee"] = "idle" /\ pc'["Zigbee"] = "lockUi" /\ pc'["Main"] = pc["Main"]
        /\ labels' = labels /\ version' = version + 1 /\ version \in Nat
      BY <1>0, <1>4 DEF UpdateTimes, Goto, TypeOK, Tasks
  <2>2. labels[1].date \in Nat
      BY <1>0 DEF TypeOK, Frames, Labels, RowNumbers
  <2>3. pc["Main"] \in Labelling \/ (Untorn(labels') /\ labels'[1].date <= version')
      BY <1>0, <2>1, <2>2 DEF LabelsKept, Tasks, Labelling, Untorn
  <2>4. QED
      BY <2>1, <2>3 DEF LabelsKept, Tasks
<1>5. CASE Heartbeat
  <2>1. /\ pc["Main"] = "idle" /\ pc'["Main"] = "lockUi" /\ pc'["Zigbee"] = pc["Zigbee"]
        /\ UNCHANGED <<labels, version, row, count>>
      BY <1>0, <1>5 DEF Heartbeat, Goto, TypeOK, Tasks
  <2>2. QED
      BY <1>0, <2>1 DEF LabelsKept, Tasks, Labelling, Locking, Refreshing, Untorn
<1>6. CASE PanelDone
    BY <1>0, <1>6 DEF LabelsKept, PanelDone, driver, Untorn
<1>7. ASSUME NEW t \in Tasks, Wake(t) PROVE LabelsKept'
    BY <1>0, <1>7 DEF LabelsKept, Wake, Untorn
<1>8. ASSUME NEW t \in Tasks, LockUi(t) PROVE LabelsKept'
  <2>1. \A u \in Tasks : pc[u] \notin Labelling
      BY <1>8 DEF IInv, Locked, LockUi, Locking, Tasks, Nobody
  <2>2. /\ pc'[t] = "read" /\ row'[t] = 1
        /\ \A u \in Tasks \ {t} : pc'[u] = pc[u]
      BY <1>0, <1>8 DEF LockUi, Goto, TypeOK
  <2>3. QED
      BY <2>1, <2>2 DEF LabelsKept, Labelling, RowNumbers
<1>9. ASSUME NEW t \in Tasks, LockUiTimeout(t) PROVE LabelsKept'
  <2>1. Whole /\ \A u \in Tasks : pc[u] \notin Labelling
      BY <1>9, RefreshesWhole DEF LockUiTimeout
  <2>2. /\ pc[t] = "lockUi" /\ pc'[t] = "powerOn" /\ UNCHANGED <<version, labels, count, row>>
        /\ \A u \in Tasks \ {t} : pc'[u] = pc[u]
      BY <1>0, <1>9 DEF LockUiTimeout, Goto, TypeOK
  <2>3. QED
      BY <2>1, <2>2, LabelsAside DEF Labelling, Locking, Refreshing
<1>10. ASSUME NEW t \in Tasks, ReadRow(t) PROVE LabelsKept'
  <2>1. /\ pc[t] = "read" /\ pc'[t] = "label" /\ UNCHANGED <<version, labels, row>>
        /\ count'[t] = version /\ \A u \in Tasks \ {t} : pc'[u] = pc[u] /\ count'[u] = count[u]
      BY <1>0, <1>10 DEF ReadRow, Goto, TypeOK
  <2>2. pc'["Zigbee"] = "lockUi" <=> pc["Zigbee"] = "lockUi"
      BY <2>1 DEF Tasks
  <2>3. \E u \in Tasks : pc'[u] \in Labelling
      BY <2>1 DEF Labelling
  <2>4. QED
      BY <1>0, <2>1, <2>2, <2>3 DEF LabelsKept, Labelling
<1>11. ASSUME NEW t \in Tasks, LabelRow(t) PROVE LabelsKept'
  <2>1. /\ pc[t] = "label" /\ pc[t] \in Labelling /\ pc[t] \in Locking
        /\ UNCHANGED <<version, count>> /\ row[t] \in RowNumbers
        /\ \A u \in Tasks \ {t} : pc'[u] = pc[u]
      BY <1>0, <1>11 DEF LabelRow, Goto, TypeOK, Labelling, Locking
  <2>2. \A u \in Tasks \ {t} : pc'[u] \notin Labelling
      BY <2>1, Holder DEF Locking
  <2>3. CASE row[t] < 3
    <3>1. pc'[t] = "read" /\ row'[t] = row[t] + 1
        BY <1>0, <1>11, <2>3 DEF LabelRow, Goto, TypeOK
    <3>2. pc'["Zigbee"] # "lockUi" => pc["Zigbee"] # "lockUi"
        BY <2>1, <3>1 DEF Tasks
    <3>3. pc'["Zigbee"] # "lockUi" =>
             \A i \in RowNumbers : i < row'[t] => labels'[i] = Label(version, version)
        BY <1>11, <2>1, <3>1, <3>2, LabelRowEnds DEF RowNumbers
    <3>4. QED
        BY <2>1, <2>2, <3>1, <3>3 DEF LabelsKept, Labelling
  <2>4. CASE row[t] = 3
    <3>1. pc'[t] = "powerOn"
        BY <1>0, <1>11, <2>4 DEF LabelRow, Goto, TypeOK
    <3>2. pc["Zigbee"] = "lockUi" => pc'["Zigbee"] = "lockUi" /\ pc'["Main"] \notin Locking
        BY <2>1, <3>1 DEF Tasks, Locking, Labelling, Refreshing
    <3>3. pc["Zigbee"] # "lockUi" => Untorn(labels') /\ labels'[1].date <= version'
        BY <1>11, <2>1, <2>4, LabelRowEnds
    <3>4. QED
        BY <2>2, <3>1, <3>2, <3>3 DEF LabelsKept, Labelling
  <2>5. QED
      BY <2>1, <2>3, <2>4, RowType
<1>12. ASSUME NEW t \in Tasks, PowerOn(t) \/ Reset(t) \/ Settings(t) \/ LockRefrTimeout(t) PROVE LabelsKept'
  <2>1. /\ pc[t] \in {"powerOn", "reset", "settings", "lockRefr"}
        /\ pc'[t] \in {"reset", "settings", "lockRefr", "idle"}
        /\ UNCHANGED <<version, labels, count, row>>
        /\ \A u \in Tasks \ {t} : pc'[u] = pc[u]
      BY <1>0, <1>12 DEF PowerOn, Reset, Settings, LockRefrTimeout, Goto, TypeOK
  <2>2. QED
      BY <2>1, LabelsAside DEF Labelling, Locking, Refreshing
<1>13. ASSUME NEW t \in Tasks, LockRefr(t) PROVE LabelsKept'
  <2>1. pc["Zigbee"] # "lockUi" /\ \A u \in Tasks : pc[u] \notin Locking
      BY <1>13, ZigbeeFirst
  <2>2. Whole
      BY <1>0, <2>1 DEF LabelsKept, Whole, Locking
  <2>3. /\ pc[t] = "lockRefr" /\ pc'[t] = "draw" /\ UNCHANGED <<version, labels, count>>
        /\ \A u \in Tasks \ {t} : pc'[u] = pc[u] /\ row'[u] = row[u]
      BY <1>0, <1>13 DEF LockRefr, Goto, TypeOK
  <2>4. QED
      BY <2>2, <2>3, LabelsAside DEF Labelling
<1>14. ASSUME NEW t \in Tasks, Draw(t) \/ Write(t) \/ PanelUpdate(t) \/ PowerDown(t) \/ Release(t)
       PROVE  LabelsKept'
  <2>1. /\ pc[t] \in Refreshing \cup {"release"}
        /\ pc'[t] \in {"draw", "write", "auto", "powerDown", "release", "idle"}
        /\ UNCHANGED <<version, labels, count>>
        /\ \A u \in Tasks \ {t} : pc'[u] = pc[u] /\ row'[u] = row[u]
      BY <1>0, <1>14 DEF Draw, Write, PanelUpdate, PowerDown, Release, Goto, TypeOK, Refreshing
  <2>2. Whole
      BY <2>1, RefreshesWhole
  <2>3. QED
      BY <2>1, <2>2, LabelsAside DEF Labelling, Refreshing
<1>15. QED
    BY <1>1, <1>2, <1>3, <1>4, <1>5, <1>6, <1>7, <1>8, <1>9, <1>10, <1>11, <1>12, <1>13, <1>14 DEF Next, Step

-----------------------------------------------------------------------------
(* What is drawn and sent to the panel.                                    *)

LEMMA DrawnStep == IInv /\ [Next]_vars => Drawn'
<1> SUFFICES ASSUME IInv, [Next]_vars PROVE Drawn'
    OBVIOUS
<1>0. TypeOK /\ Drawn
    BY DEF IInv
<1>1. CASE UNCHANGED vars \/ PanelDone
    BY <1>0, <1>1 DEF Drawn, vars, PanelDone, driver
<1>2. CASE Crash \/ Boot
    BY <1>2 DEF Drawn, Crash, Boot
<1>3. CASE UpdateTimes \/ Heartbeat
    BY <1>0, <1>3 DEF Drawn, UpdateTimes, Heartbeat, Goto, TypeOK
<1>4. ASSUME NEW t \in Tasks,
             \/ Wake(t) \/ LockUi(t) \/ LockUiTimeout(t) \/ ReadRow(t) \/ PowerOn(t) \/ Reset(t)
             \/ Settings(t) \/ LockRefrTimeout(t) \/ Write(t) \/ PanelUpdate(t) \/ PowerDown(t) \/ Release(t)
      PROVE  Drawn'
  <2>1. /\ UNCHANGED <<labels, frame>>
        /\ \A u \in Tasks : pc'[u] \in {"draw", "write"} => pc'[u] = pc[u] /\ row'[u] = row[u]
      BY <1>0, <1>4 DEF Wake, LockUi, LockUiTimeout, ReadRow, PowerOn, Reset, Settings, LockRefrTimeout,
         Write, PanelUpdate, PowerDown, Release, Goto, TypeOK
  <2>2. QED
      BY <1>0, <2>1 DEF Drawn
<1>5. ASSUME NEW t \in Tasks, LabelRow(t) PROVE Drawn'
  <2>1. pc[t] \in Locking /\ \A u \in Tasks \ {t} : pc'[u] = pc[u]
      BY <1>0, <1>5 DEF LabelRow, Goto, TypeOK, Locking, Labelling
  <2>2. pc'[t] \in {"read", "powerOn"}
      BY <1>0, <1>5 DEF LabelRow, Goto, TypeOK
  <2>3. \A u \in Tasks : pc'[u] \notin {"draw", "write"}
      BY <2>1, <2>2, Holder DEF Locking, Refreshing
  <2>4. QED
      BY <2>3 DEF Drawn
<1>6. ASSUME NEW t \in Tasks, LockRefr(t) PROVE Drawn'
  <2>1. \A u \in Tasks : pc[u] \notin Locking
      BY <1>6, ZigbeeFirst
  <2>2. /\ pc'[t] = "draw" /\ row'[t] = 1
        /\ \A u \in Tasks \ {t} : pc'[u] = pc[u]
      BY <1>0, <1>6 DEF LockRefr, Goto, TypeOK
  <2>3. QED
      BY <2>1, <2>2 DEF Drawn, Locking, Refreshing, RowNumbers
<1>7. ASSUME NEW t \in Tasks, Draw(t) PROVE Drawn'
  <2>1. /\ pc[t] = "draw" /\ pc[t] \in Locking /\ \A u \in Tasks \ {t} : pc'[u] = pc[u]
        /\ labels' = labels /\ row[t] \in RowNumbers
        /\ frame' = [frame EXCEPT ![row[t]] = labels[row[t]]]
        /\ frame \in [RowNumbers -> Labels]
      BY <1>0, <1>7 DEF Draw, Goto, TypeOK, Locking, Refreshing, Frames
  <2>2. \A u \in Tasks \ {t} : pc'[u] \notin {"draw", "write"}
      BY <2>1, Holder DEF Locking, Refreshing
  <2>3. \A i \in RowNumbers : i <= row[t] => frame'[i] = labels'[i]
      BY <1>0, <2>1 DEF Drawn, RowNumbers
  <2>4. \/ row[t] < 3 /\ pc'[t] = "draw" /\ row'[t] = row[t] + 1
        \/ row[t] = 3 /\ pc'[t] = "write"
      BY <1>0, <1>7 DEF Draw, Goto, TypeOK
  <2>5. ASSUME NEW i \in RowNumbers, pc'[t] = "write" \/ (pc'[t] = "draw" /\ i < row'[t])
        PROVE  i <= row[t]
      BY <2>1, <2>4, <2>5 DEF RowNumbers
  <2>6. QED
      BY <2>2, <2>3, <2>5 DEF Drawn
<1>8. QED
    BY <1>1, <1>2, <1>3, <1>4, <1>5, <1>6, <1>7 DEF Next, Step

\* The images the controller is sent are the labels.
LEMMA WriteSends ==
    ASSUME IInv, NEW t \in Tasks, Write(t), mode \in {"unset", "ready"}
    PROVE  /\ ram' = Image(frame, TRUE) /\ Untorn(ram'.frame)
           /\ \A i \in RowNumbers : ram'.frame[i] = labels[i]
           /\ Newest(ram') <= version
           /\ \A i \in RowNumbers : labels[i] = Label(Newest(ram'), Newest(ram'))
<1>1. pc[t] = "write" /\ ram' = Image(frame, TRUE)
    BY DEF Write, Goto
<1>2. Whole
    BY <1>1, RefreshesWhole DEF Refreshing
<1>3. \A i \in RowNumbers : frame[i] = labels[i]
    BY <1>1 DEF IInv, Drawn
<1>4. ram'.frame = frame
    BY <1>1 DEF Image
<1>5. PICK v \in 0 .. MaxVersion : \A i \in RowNumbers : labels[i] = Label(v, v)
    BY <1>2 DEF Whole, Untorn
<1>6. ram'.frame[1] = Label(v, v) /\ Newest(ram') = v
    BY <1>3, <1>4, <1>5, RowType DEF Newest, Label
<1>7. v <= version
    BY <1>2, <1>5, RowType DEF Whole, Label
<1>8. QED
    BY <1>1, <1>3, <1>4, <1>5, <1>6, <1>7 DEF Untorn

LEMMA TornStep == IInv /\ [Next]_vars => (NoTornFrame /\ Untorn(pending.frame))'
<1> SUFFICES ASSUME IInv, [Next]_vars PROVE (NoTornFrame /\ Untorn(pending.frame))'
    OBVIOUS
<1>0. Untorn(ram.frame) /\ Untorn(glass.frame) /\ Untorn(pending.frame) /\ TypeOK
    BY DEF IInv, NoTornFrame
<1>1. CASE UNCHANGED <<ram.frame, pending.frame, glass.frame>>
    BY <1>0, <1>1 DEF NoTornFrame, Untorn
<1>2. CASE Crash
  <2>1. ram'.frame = Blank /\ pending'.frame = Blank /\ glass'.frame = glass.frame
      BY <1>0, <1>2 DEF Crash, Image, TypeOK, Images
  <2>2. QED
      BY <1>0, <2>1, FrameTypes DEF NoTornFrame, Untorn
<1>3. CASE PanelDone
    BY <1>0, <1>3 DEF NoTornFrame, Untorn, PanelDone
<1>4. ASSUME NEW t \in Tasks, Write(t), mode \in {"unset", "ready"}
      PROVE  (NoTornFrame /\ Untorn(pending.frame))'
    BY <1>0, <1>4, WriteSends DEF NoTornFrame, Untorn, Write
<1>5. ASSUME NEW t \in Tasks, PanelUpdate(t) PROVE (NoTornFrame /\ Untorn(pending.frame))'
  <2>1. ram' = ram /\ glass' = glass /\ pending'.frame \in {ram.frame, pending.frame}
      BY <1>0, <1>5 DEF PanelUpdate, TypeOK, Images
  <2>2. QED
      BY <1>0, <2>1 DEF NoTornFrame, Untorn
<1>6. CASE UNCHANGED vars \/ Boot \/ UpdateTimes \/ Heartbeat
    BY <1>1, <1>6 DEF vars, Boot, UpdateTimes, Heartbeat, panel
<1>7. ASSUME NEW t \in Tasks,
             \/ Wake(t) \/ LockUi(t) \/ LockUiTimeout(t) \/ ReadRow(t) \/ LabelRow(t) \/ LockRefr(t)
             \/ LockRefrTimeout(t) \/ Draw(t) \/ Release(t) \/ PowerOn(t) \/ Settings(t)
      PROVE  (NoTornFrame /\ Untorn(pending.frame))'
    BY <1>1, <1>7 DEF Wake, LockUi, LockUiTimeout, ReadRow, LabelRow, LockRefr, LockRefrTimeout, Draw, Release,
       PowerOn, Settings, panel
<1>8. ASSUME NEW t \in Tasks, Reset(t) \/ PowerDown(t) PROVE (NoTornFrame /\ Untorn(pending.frame))'
  <2>1. ram'.frame = ram.frame /\ glass'.frame = glass.frame /\ pending' = pending
      BY <1>0, <1>8 DEF Reset, PowerDown, TypeOK, Images
  <2>2. QED
      BY <1>1, <2>1
<1>9. ASSUME NEW t \in Tasks, Write(t), mode \notin {"unset", "ready"}
      PROVE  (NoTornFrame /\ Untorn(pending.frame))'
    BY <1>1, <1>9 DEF Write
<1>10. QED
    BY <1>2, <1>3, <1>4, <1>5, <1>6, <1>7, <1>8, <1>9 DEF Next, Step

-----------------------------------------------------------------------------
(* Times never go back.                                                    *)

LEMMA NewestType ==
    TypeOK => /\ {Newest(ram), Newest(pending), Newest(glass)} \subseteq 0 .. MaxVersion
              /\ \A t \in Tasks : count[t] \in Nat /\ row[t] \in RowNumbers
              /\ \A i \in RowNumbers : labels[i].day \in Nat /\ labels[i].date \in Nat
              /\ version \in Nat
BY RowType DEF TypeOK, Newest, Images, Frames, Labels

LEMMA FloorDown ==
    ASSUME TypeOK, NEW v \in Nat, NEW w \in Nat, w <= v, Floor(v)
    PROVE  Floor(w)
BY NewestType DEF Floor, AtLeast

\* Labels that are in use are only replaced by newer ones.
LEMMA FloorHolds ==
    ASSUME IInv, NEW v \in Nat, Floor(v), [Next]_vars
    PROVE  Floor(v)'
<1>0. TypeOK /\ version \in Nat
    BY NewestType DEF IInv
<1> USE DEF Floor, AtLeast
<1>1. CASE UNCHANGED vars \/ PanelDone
    BY <1>1 DEF vars, PanelDone, driver
<1>2. CASE Crash
    BY <1>2 DEF Crash, Labelled, Powered, Labelling
<1>3. CASE Boot
    BY <1>0, <1>3 DEF Boot, Labelled, Powered, Labelling
<1>4. CASE UpdateTimes \/ Heartbeat
  <2>1. /\ version' >= version /\ UNCHANGED <<labels, count, row>>
        /\ \A t \in Tasks : pc'[t] = pc[t] \/ pc'[t] = "lockUi"
      BY <1>0, <1>4 DEF UpdateTimes, Heartbeat, Goto, TypeOK
  <2>2. v <= version'
      BY <1>0, <1>4 DEF UpdateTimes, Heartbeat
  <2>3. QED
      BY <2>1, <2>2 DEF Labelled, Powered, Labelling
<1>5. ASSUME NEW t \in Tasks,
             \/ Wake(t) \/ PowerOn(t) \/ Reset(t) \/ Settings(t) \/ LockRefr(t) \/ LockRefrTimeout(t) \/ Draw(t)
             \/ Write(t) \/ PanelUpdate(t) \/ PowerDown(t) \/ Release(t)
      PROVE  Floor(v)'
  <2>1. /\ UNCHANGED <<version, labels, count>>
        /\ \A u \in Tasks : \/ pc'[u] = pc[u] /\ row'[u] = row[u]
                            \/ pc[u] \in Labelled /\ pc'[u] \notin Labelling
      BY <1>0, <1>5 DEF Wake, PowerOn, Reset, Settings, LockRefr, LockRefrTimeout, Draw, Write, PanelUpdate,
         PowerDown, Release, Goto, TypeOK, Labelled, Powered, Labelling
  <2>2. QED
      BY <2>1 DEF Labelling
<1>6. ASSUME NEW t \in Tasks, LockUi(t) PROVE Floor(v)'
  <2>1. /\ UNCHANGED <<version, labels, count>> /\ pc'[t] = "read" /\ row'[t] = 1
        /\ \A u \in Tasks \ {t} : pc'[u] = pc[u] /\ row'[u] = row[u]
      BY <1>0, <1>6 DEF LockUi, Goto, TypeOK
  <2>2. QED
      BY <2>1 DEF Labelled, Powered, RowNumbers
<1>7. ASSUME NEW t \in Tasks, LockUiTimeout(t) PROVE Floor(v)'
  <2>1. /\ UNCHANGED <<version, labels, count, row>> /\ pc'[t] = "powerOn"
        /\ \A u \in Tasks \ {t} : pc'[u] = pc[u]
      BY <1>0, <1>7 DEF LockUiTimeout, Goto, TypeOK
  <2>2. mutex \in Tasks /\ pc[mutex] \in Labelled
      BY <1>7 DEF LockUiTimeout, Labelled, Powered, Refreshing
  <2>3. \A i \in RowNumbers : AtLeast(labels[i], v)
      BY <2>2
  <2>4. QED
      BY <2>1, <2>3
<1>8. ASSUME NEW t \in Tasks, ReadRow(t) PROVE Floor(v)'
  <2>1. /\ UNCHANGED <<version, labels, row>> /\ pc[t] = "read" /\ pc'[t] = "label" /\ count'[t] = version
        /\ \A u \in Tasks \ {t} : pc'[u] = pc[u] /\ count'[u] = count[u]
      BY <1>0, <1>8 DEF ReadRow, Goto, TypeOK
  <2>2. QED
      BY <2>1 DEF Labelled, Powered, Labelling
<1>9. ASSUME NEW t \in Tasks, LabelRow(t) PROVE Floor(v)'
  <2>1. /\ UNCHANGED <<version, count>> /\ pc[t] = "label" /\ row[t] \in RowNumbers
        /\ labels' = [labels EXCEPT ![row[t]] = Label(count[t], version)]
        /\ labels \in [RowNumbers -> Labels]
        /\ \A u \in Tasks \ {t} : pc'[u] = pc[u] /\ row'[u] = row[u]
      BY <1>0, <1>9 DEF LabelRow, Goto, TypeOK, Frames
  <2>2. AtLeast(Label(count[t], version), v)
      BY <2>1 DEF Label
  <2>3. \A i \in RowNumbers : i = row[t] \/ AtLeast(labels[i], v) => AtLeast(labels'[i], v)
      BY <2>1, <2>2
  <2>4. \A i \in RowNumbers : i <= row[t] => AtLeast(labels'[i], v)
    <3>1. \A i \in RowNumbers : i < row[t] => AtLeast(labels[i], v)
        BY <2>1 DEF Labelling
    <3>2. QED
        BY <2>1, <2>3, <3>1 DEF RowNumbers
  <2>5. \/ row[t] < 3 /\ pc'[t] = "read" /\ row'[t] = row[t] + 1
        \/ row[t] = 3 /\ pc'[t] = "powerOn"
      BY <1>0, <1>9 DEF LabelRow, Goto, TypeOK
  <2>6. \A i \in RowNumbers : pc'[t] \in Labelled \/ i < row'[t] => i <= row[t]
      BY <2>1, <2>5 DEF RowNumbers, Labelled, Powered
  <2>7. ASSUME NEW u \in Tasks, NEW i \in RowNumbers,
               pc'[u] \in Labelled \/ (pc'[u] \in Labelling /\ i < row'[u])
        PROVE  AtLeast(labels'[i], v)
    <3>1. CASE u = t
        BY <2>4, <2>6, <2>7, <3>1
    <3>2. CASE u # t
        BY <2>1, <2>3, <2>7, <3>2
    <3>3. QED
        BY <3>1, <3>2
  <2>8. \A u \in Tasks : pc'[u] = "label" => count'[u] >= v
      BY <2>1, <2>5
  <2>9. QED
      BY <2>1, <2>7, <2>8
<1>10. QED
    BY <1>1, <1>2, <1>3, <1>4, <1>5, <1>6, <1>7, <1>8, <1>9 DEF Next, Step

\* Which steps change the times of an image, and to what.
LEMMA ImageSteps ==
    ASSUME IInv, [Next]_vars
    PROVE  \/ Newest(ram') = Newest(ram) /\ Newest(pending') = Newest(pending) /\ Newest(glass') = Newest(glass)
           \/ Crash /\ Newest(ram') = 0 /\ Newest(pending') = 0 /\ Newest(glass') = Newest(glass)
           \/ PanelDone
           \/ \E t \in Tasks : Write(t) /\ mode \in {"unset", "ready"}
           \/ \E t \in Tasks : PanelUpdate(t)
<1>0. TypeOK
    BY DEF IInv
<1>1. CASE UNCHANGED vars \/ Boot \/ UpdateTimes \/ Heartbeat
    BY <1>1 DEF vars, Boot, UpdateTimes, Heartbeat, panel
<1>2. CASE Crash
    BY <1>0, <1>2, FrameTypes DEF Crash, Image, Newest, TypeOK, Images
<1>3. ASSUME NEW t \in Tasks,
             \/ Wake(t) \/ LockUi(t) \/ LockUiTimeout(t) \/ ReadRow(t) \/ LabelRow(t) \/ LockRefr(t)
             \/ LockRefrTimeout(t) \/ Draw(t) \/ Release(t) \/ PowerOn(t) \/ Settings(t)
      PROVE  UNCHANGED <<ram, pending, glass>>
    BY <1>3 DEF Wake, LockUi, LockUiTimeout, ReadRow, LabelRow, LockRefr, LockRefrTimeout, Draw, Release,
       PowerOn, Settings, panel
<1>4. ASSUME NEW t \in Tasks, Reset(t) \/ PowerDown(t)
      PROVE  Newest(ram') = Newest(ram) /\ Newest(glass') = Newest(glass) /\ pending' = pending
    BY <1>0, <1>4 DEF Reset, PowerDown, TypeOK, Images, Newest
<1>5. ASSUME NEW t \in Tasks, Write(t), mode \notin {"unset", "ready"}
      PROVE  UNCHANGED <<ram, pending, glass>>
    BY <1>5 DEF Write
<1>6. QED
    BY <1>1, <1>2, <1>3, <1>4, <1>5 DEF Next, Step

LEMMA FloorsStep == IInv /\ [Next]_vars => Floors'
<1> SUFFICES ASSUME IInv, [Next]_vars PROVE Floors'
    OBVIOUS
<1>0. TypeOK /\ Floors /\ Newest(pending) <= Newest(ram)
      /\ Newest(ram) \in Nat /\ Newest(pending) \in Nat /\ Newest(glass) \in Nat
    BY NewestType DEF IInv, Forward
<1>1. Floor(Newest(ram)) /\ Floor(Newest(glass)) /\ Floor(Newest(pending)) /\ Floor(0)
    BY <1>0, FloorDown DEF Floors
<1>2. ASSUME NEW v \in Nat, Floor(v), Newest(ram') = v PROVE Floor(Newest(ram))'
  <2>1. Floor(v)'
      BY <1>2, FloorHolds
  <2>2. QED
      BY <1>2, <2>1 DEF Floor
<1>3. ASSUME NEW v \in Nat, Floor(v), Newest(glass') = v PROVE Floor(Newest(glass))'
  <2>1. Floor(v)'
      BY <1>3, FloorHolds
  <2>2. QED
      BY <1>3, <2>1 DEF Floor
<1>4. CASE Newest(ram') \in {Newest(ram), 0} /\ Newest(glass') = Newest(glass)
    BY <1>0, <1>1, <1>2, <1>3, <1>4 DEF Floors
<1>5. CASE PanelDone
    BY <1>0, <1>1, <1>2, <1>3, <1>5 DEF Floors, PanelDone
<1>6. ASSUME NEW t \in Tasks, PanelUpdate(t) PROVE Floors'
  <2>1. ram' = ram /\ glass' = glass
      BY <1>6 DEF PanelUpdate
  <2>2. QED
      BY <1>4, <2>1
<1>7. ASSUME NEW t \in Tasks, Write(t), mode \in {"unset", "ready"} PROVE Floors'
  <2>1. /\ Newest(ram') <= version
        /\ \A i \in RowNumbers : labels[i] = Label(Newest(ram'), Newest(ram'))
      BY <1>7, WriteSends
  <2>2. pc[t] \in Locking /\ pc[t] \notin Labelling /\ pc'[t] = "auto"
        /\ (\A u \in Tasks \ {t} : pc'[u] = pc[u]) /\ UNCHANGED <<version, labels, glass>>
      BY <1>0, <1>7 DEF Write, Goto, TypeOK, Locking, Refreshing, Labelling
  <2>3. \A u \in Tasks : pc'[u] \notin Labelling
      BY <2>2, Holder DEF Locking, Labelling
  <2>4. labels[1].date = Newest(ram') /\ Newest(ram') \in Nat
      BY <1>0, <2>1, RowType, NewestType DEF Label
  <2>5. \A i \in RowNumbers : AtLeast(labels'[i], Newest(ram'))
      BY <2>1, <2>2, <2>4 DEF AtLeast, Label
  <2>6. Floor(Newest(ram))'
      BY <2>1, <2>2, <2>3, <2>5 DEF Floor, Labelling
  <2>7. Floor(Newest(glass))'
      BY <1>0, <1>1, <1>3, <2>2
  <2>8. QED
      BY <2>6, <2>7 DEF Floors
<1>8. QED
    BY <1>4, <1>5, <1>6, <1>7, ImageSteps

LEMMA ForwardStep == IInv /\ [Next]_vars => Forward'
<1> SUFFICES ASSUME IInv, [Next]_vars PROVE Forward'
    OBVIOUS
<1>0. /\ TypeOK /\ Forward /\ PowerKept /\ Floors
      /\ Newest(ram) \in Nat /\ Newest(pending) \in Nat /\ Newest(glass) \in Nat
    BY NewestType DEF IInv
<1>1. CASE UNCHANGED vars \/ UpdateTimes \/ Heartbeat
  <2>1. /\ UNCHANGED <<ram, pending, glass, mode, hv>>
        /\ \A t \in Tasks : pc'[t] = pc[t] \/ pc'[t] = "lockUi"
      BY <1>0, <1>1 DEF vars, UpdateTimes, Heartbeat, Goto, TypeOK, panel
  <2>2. QED
      BY <1>0, <2>1 DEF Forward, Powered
<1>2. CASE Crash
  <2>1. /\ Newest(pending') = 0 /\ Newest(ram') = 0 /\ mode' = "unpowered"
        /\ \A t \in Tasks : pc'[t] = "off"
      BY <1>2, FrameTypes DEF Crash, Image, Newest
  <2>2. QED
      BY <2>1 DEF Forward, Powered
<1>3. CASE Boot
  <2>1. UNCHANGED <<ram, pending, glass, mode>> /\ \A t \in Tasks : pc'[t] = "idle"
      BY <1>3 DEF Boot, panel
  <2>2. QED
      BY <1>0, <2>1 DEF Forward, Powered
<1>4. CASE PanelDone
    BY <1>0, <1>4 DEF Forward, PanelDone
<1>5. ASSUME NEW t \in Tasks,
             \/ Wake(t) \/ LockUi(t) \/ LockUiTimeout(t) \/ ReadRow(t) \/ LabelRow(t) \/ LockRefr(t)
             \/ LockRefrTimeout(t) \/ Draw(t) \/ Release(t) \/ Settings(t) \/ Reset(t)
      PROVE  Forward'
  <2>1. Newest(ram') = Newest(ram) /\ pending' = pending /\ Newest(glass') = Newest(glass)
    <3>1. CASE Reset(t)
        BY <1>0, <3>1 DEF Reset, TypeOK, Images, Newest
    <3>2. CASE ~Reset(t)
        BY <1>5, <3>2 DEF Wake, LockUi, LockUiTimeout, ReadRow, LabelRow, LockRefr, LockRefrTimeout, Draw,
           Release, Settings, panel
    <3>3. QED
        BY <3>1, <3>2
  <2>2. hv' = hv /\ (mode' = "busy" => mode = "busy")
      BY <1>0, <1>5 DEF Wake, LockUi, LockUiTimeout, ReadRow, LabelRow, LockRefr, LockRefrTimeout, Draw,
         Release, Settings, Reset, panel
  <2>3. \A u \in Tasks : /\ pc'[u] \in {"auto", "powerDown"} => pc'[u] = pc[u]
                         /\ pc'[u] \in Powered => pc[u] \in Powered
      BY <1>0, <1>5 DEF Wake, LockUi, LockUiTimeout, ReadRow, LabelRow, LockRefr, LockRefrTimeout, Draw,
         Release, Settings, Reset, Goto, TypeOK, Powered
  <2>4. QED
      BY <1>0, <2>1, <2>2, <2>3 DEF Forward
<1>6. ASSUME NEW t \in Tasks, PowerOn(t) PROVE Forward'
  <2>1. UNCHANGED <<ram, pending, glass>> /\ (mode' = "busy" => mode = "busy")
      BY <1>6 DEF PowerOn
  <2>2. hv' = TRUE
      BY <1>0, <1>6 DEF PowerOn, PowerKept, TypeOK
  <2>3. \A u \in Tasks : pc'[u] \in {"auto", "powerDown"} => pc'[u] = pc[u]
      BY <1>0, <1>6 DEF PowerOn, Goto, TypeOK
  <2>4. QED
      BY <1>0, <2>1, <2>2, <2>3 DEF Forward
<1>7. ASSUME NEW t \in Tasks, Write(t) PROVE Forward'
  <2>1. /\ pc[t] = "write" /\ UNCHANGED <<pending, glass, mode, hv>>
      BY <1>7 DEF Write, Goto
  <2>2. CASE mode \in {"unset", "ready"}
    <3>1. \A i \in RowNumbers : labels[i] = Label(Newest(ram'), Newest(ram'))
        BY <1>7, <2>2, WriteSends
    <3>2. labels[1].date = Newest(ram') /\ Newest(ram') \in Nat
        BY <1>0, <3>1, RowType, NewestType DEF Label
    <3>3. Newest(ram) <= Newest(ram') /\ Newest(glass) <= Newest(ram')
        BY <1>0, <2>1, <3>2, RowType DEF Floors, Floor, AtLeast, Labelled, Powered
    <3>4. QED
        BY <1>0, <2>1, <3>2, <3>3 DEF Forward
  <2>3. CASE mode \notin {"unset", "ready"}
    <3>1. mode = "unpowered" \/ mode = "busy"
        BY <1>0, <2>3 DEF TypeOK
    <3>2. Newest(glass) <= Newest(ram)
        BY <1>0, <2>1, <3>1 DEF Forward, PowerKept, Powered
    <3>3. ram' = ram
        BY <1>7, <2>3 DEF Write
    <3>4. QED
        BY <1>0, <2>1, <3>2, <3>3 DEF Forward
  <2>4. QED
      BY <2>2, <2>3
<1>8. ASSUME NEW t \in Tasks, PanelUpdate(t) PROVE Forward'
  <2>1. pc[t] = "auto" /\ UNCHANGED <<ram, glass, hv>>
      BY <1>8 DEF PanelUpdate, Goto
  <2>2. Newest(glass) <= Newest(ram)
      BY <1>0, <2>1 DEF Forward
  <2>3. \/ Newest(pending') = Newest(ram)
        \/ UNCHANGED <<pending, mode>>
      BY <1>0, <1>8 DEF PanelUpdate, Newest, TypeOK, Images
  <2>4. QED
      BY <1>0, <2>1, <2>2, <2>3 DEF Forward
<1>9. ASSUME NEW t \in Tasks, PowerDown(t) PROVE Forward'
  <2>1. /\ pc[t] = "powerDown" /\ UNCHANGED <<pending, glass>> /\ mode' = "unpowered"
        /\ Newest(ram') = Newest(ram)
      BY <1>0, <1>9 DEF PowerDown, Goto, TypeOK, Images, Newest
  <2>2. Newest(glass) <= Newest(ram)
      BY <1>0, <2>1 DEF Forward
  <2>3. QED
      BY <1>0, <2>1, <2>2 DEF Forward
<1>10. QED
    BY <1>1, <1>2, <1>3, <1>4, <1>5, <1>6, <1>7, <1>8, <1>9 DEF Next, Step

-----------------------------------------------------------------------------
(* The theorems.                                                           *)

\* The invariants together with what each task has in hand are inductive.
THEOREM Inductive == Init /\ [][Next]_vars => []IInv
<1>1. IInv /\ [Next]_vars => IInv'
    BY TypeStep, StartedStep, LockedStep, PowerStep, LabelsStep, DrawnStep, TornStep, FloorsStep,
       ForwardStep DEF IInv
<1>2. QED
    BY <1>1, InitInv, PTL

\* The types of what the tasks share, of the driver and of the panel.
THEOREM TypeCorrect == Spec => []TypeOK
<1>1. IInv => TypeOK
    BY DEF IInv
<1>2. QED
    BY <1>1, Inductive, PTL DEF Spec

\* Labels torn between two sets of times are never sent to the panel.
THEOREM FramesWhole == Spec => []NoTornFrame
<1>1. IInv => NoTornFrame
    BY DEF IInv
<1>2. QED
    BY <1>1, Inductive, PTL DEF Spec

\* The task that leaves render last has switched the high voltage off.
THEOREM PowerOffWhenIdle == Spec => []IdlePowerOff
<1>1. IInv => IdlePowerOff
    BY DEF IInv, PowerKept, IdlePowerOff, Powered
<1>2. QED
    BY <1>1, Inductive, PTL DEF Spec

-----------------------------------------------------------------------------
(* The panel implements Screen.                                            *)

Seen == IF Untorn(glass.frame) THEN glass.frame[1].date ELSE MaxVersion + 1

LEMMA SeenIsNewest == IInv => Seen = Newest(glass) /\ Newest(glass) \in Nat /\ Newest(glass) <= version
BY NewestType DEF IInv, NoTornFrame, Seen, Newest, Floors, Floor

\* Only a finished refresh changes the times on the glass.
LEMMA GlassSteps ==
    ASSUME IInv, [Next]_vars
    PROVE  \/ PanelDone
           \/ Newest(glass') = Newest(glass) /\ glass'.intact \in {glass.intact, FALSE}
<1>0. TypeOK
    BY DEF IInv
<1>1. CASE UNCHANGED vars \/ Boot \/ UpdateTimes \/ Heartbeat
    BY <1>1 DEF vars, Boot, UpdateTimes, Heartbeat, panel
<1>2. CASE Crash
    BY <1>0, <1>2 DEF Crash, TypeOK, Images, Newest
<1>3. ASSUME NEW t \in Tasks, Reset(t)
      PROVE  Newest(glass') = Newest(glass) /\ glass'.intact \in {glass.intact, FALSE}
    BY <1>0, <1>3 DEF Reset, TypeOK, Images, Newest
<1>4. ASSUME NEW t \in Tasks, Step(t), ~Reset(t) PROVE glass' = glass
    BY <1>4 DEF Step, Wake, LockUi, LockUiTimeout, ReadRow, LabelRow, LockRefr, LockRefrTimeout, Draw, Release,
       PowerOn, Settings, Write, PanelUpdate, PowerDown, panel
<1>5. QED
    BY <1>1, <1>2, <1>3, <1>4 DEF Next

LEMMA VersionSteps ==
    ASSUME IInv, [Next]_vars
    PROVE  version' = version \/ (version' = version + 1 /\ glass' = glass)
<1>1. ASSUME NEW t \in Tasks, Step(t) PROVE version' = version
    BY <1>1 DEF Step, Wake, LockUi, LockUiTimeout, ReadRow, LabelRow, LockRefr, LockRefrTimeout, Draw, Release,
       PowerOn, Settings, Reset, Write, PanelUpdate, PowerDown
<1>2. CASE ~\E t \in Tasks : Step(t)
    BY <1>2 DEF Next, vars, Crash, Boot, UpdateTimes, Heartbeat, PanelDone, driver, panel
<1>3. QED
    BY <1>1, <1>2

\* The steps of Screen, in the terms of Panel.
ScreenStep ==
    \/ version' = version + 1 /\ UNCHANGED <<Seen, glass.intact>>
    \/ Seen' \in Seen .. version /\ glass'.intact \in BOOLEAN /\ version' = version
    \/ glass'.intact = FALSE /\ UNCHANGED <<version, Seen>>
    \/ UNCHANGED <<version, Seen, glass.intact>>

LEMMA StepsAreScreens == IInv /\ IInv' /\ [Next]_vars => ScreenStep
<1> SUFFICES ASSUME IInv, IInv', [Next]_vars PROVE ScreenStep
    OBVIOUS
<1>0. /\ Seen = Newest(glass) /\ Newest(glass) \in Nat /\ Newest(glass) <= version
      /\ Seen' = Newest(glass') /\ Newest(glass') \in Nat /\ Newest(glass') <= version'
      /\ glass'.intact \in BOOLEAN /\ version \in Nat
  <2>1. (Seen = Newest(glass) /\ Newest(glass) \in Nat /\ Newest(glass) <= version)'
      BY SeenIsNewest, PTL
  <2>2. Newest(glass)' = Newest(glass')
      BY DEF Newest
  <2>3. QED
      BY <2>1, <2>2, SeenIsNewest DEF IInv, TypeOK, Images
<1>1. CASE PanelDone
  <2>1. Newest(glass) <= Newest(glass') /\ version' = version
      BY <1>1 DEF IInv, Forward, PanelDone, driver
  <2>2. QED
      BY <1>0, <2>1 DEF ScreenStep
<1>2. CASE version' = version + 1 /\ glass' = glass
    BY <1>0, <1>2 DEF ScreenStep
<1>3. CASE version' = version /\ Newest(glass') = Newest(glass) /\ glass'.intact \in {glass.intact, FALSE}
    BY <1>0, <1>3 DEF ScreenStep
<1>4. QED
    BY <1>1, <1>2, <1>3, GlassSteps, VersionSteps

LEMMA InitIsScreens == Init => TheScreen!Init
<1> SUFFICES ASSUME Init PROVE TheScreen!Init
    OBVIOUS
<1>1. Seen = 0
    BY FrameTypes DEF Init, Seen, Image
<1>2. QED
    BY <1>1 DEF Init, TheScreen!Init, Seen, Image

\* Whatever the tasks do to each other's refresh: one set of times at a time is
\* seen, one the display was given, and never an older one than before.
THEOREM PanelIsScreen == Spec => ImplementsScreen
<1>1. ScreenStep => [TheScreen!Next]_<<version, Seen, glass.intact>>
    BY DEF ScreenStep, Seen, TheScreen!Next, TheScreen!NewTimes, TheScreen!Refresh, TheScreen!Disturb
<1>2. QED
    BY <1>1, Inductive, StepsAreScreens, InitIsScreens, PTL
       DEF Spec, ImplementsScreen, TheScreen!Spec, Seen
==============================================================================
