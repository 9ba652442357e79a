-------------------------------- MODULE Panel --------------------------------
(***************************************************************************)
(* DisplayDriver::render and the e-paper driver under it, run by two tasks *)
(* of one core: the Zigbee task, when the hub has sent new times, and the  *)
(* Main task, on every sixth hour's heartbeat.  They share the two arrays  *)
(* of times (no lock), LVGL's labels and the refresh (lvgl_mux), and the   *)
(* power and the reset line of the panel (no lock).                        *)
(*                                                                         *)
(* A set of times is known here by its number: each updateTimes adds one,  *)
(* that of a boot too.  A label holds the number of the times it was       *)
(* computed from.  The device may stop anywhere; the glass keeps what it   *)
(* shows without power.                                                    *)
(***************************************************************************)
EXTENDS Naturals

CONSTANT MaxVersion   \* bound: sets of times in one behaviour

ASSUME PanelAssumption == MaxVersion \in Nat \ {0}

Tasks == {"Zigbee", "Main"}
Nobody == "nobody"
RowNumbers == 1 .. 3

\* A row as drawn: its day count and its date, two labels written one by one.
Label(d, w) == [day |-> d, date |-> w]
Labels == [day : 0 .. MaxVersion, date : 0 .. MaxVersion]
Frames == [RowNumbers -> Labels]
Blank == [i \in RowNumbers |-> Label(0, 0)]

VARIABLES
    version,   \* DisplayDriver::bins[] and times[]
    pc,        \* where each task is in render()
    asleep,    \* the tasks inside a vTaskDelay
    count,     \* updateUi's local dayCount, per task
    row,       \* updateUi's loop variable, and the line a refresh has reached
    mutex,     \* holder of lvgl_mux
    labels,    \* LVGL's labels
    frame,     \* the e-paper driver's buffers
    hv,        \* HV_CTL_PIN
    pwrState,  \* BDEpaper::pwrState
    mode,      \* the panel's controller
    ram,       \* the image in the controller, and whether it is intact
    pending,   \* the image being put on the glass
    glass      \* what can be seen

driver == <<version, pc, asleep, count, row, mutex, labels, frame, hv, pwrState>>
panel  == <<mode, ram, pending, glass>>
vars   == <<version, pc, asleep, count, row, mutex, labels, frame, hv,
            pwrState, mode, ram, pending, glass>>

Image(f, ok) == [frame |-> f, intact |-> ok]
Images == [frame : Frames, intact : BOOLEAN]

-----------------------------------------------------------------------------
Init ==
    /\ version = 0
    /\ pc = [t \in Tasks |-> "off"]
    /\ asleep = {}
    /\ count = [t \in Tasks |-> 0]
    /\ row = [t \in Tasks |-> 1]
    /\ mutex = Nobody
    /\ labels = Blank
    /\ frame = Blank
    /\ hv = FALSE
    /\ pwrState = FALSE
    /\ mode = "unpowered"
    /\ ram = Image(Blank, FALSE)
    /\ pending = Image(Blank, FALSE)
    /\ glass = Image(Blank, TRUE)

-----------------------------------------------------------------------------
\* The part of the refresh that takes long enough for a lock to time out.
Refreshing == {"draw", "write", "auto", "powerDown"}

\* A task that is neither delayed nor waiting for an event or for the mutex.
Runnable(t) ==
    /\ t \notin asleep
    /\ pc[t] \notin {"off", "idle"}
    /\ pc[t] \in {"lockUi", "lockRefr"} => mutex \in {Nobody, t}

\* One core, and Zigbee (priority 5) preempts Main (priority 4) at any step.
Scheduled(t) == t \notin asleep /\ (t = "Main" => ~Runnable("Zigbee"))

Goto(t, from, to) ==
    /\ pc[t] = from
    /\ Scheduled(t)
    /\ pc' = [pc EXCEPT ![t] = to]

Delay(t) == asleep' = asleep \cup {t}

(***************************************************************************)
(* A delay ends; a task in BDEpaper::wait sleeps on while BUSY is low.     *)
(***************************************************************************)
Wake(t) ==
    /\ t \in asleep
    /\ pc[t] \in {"settings", "powerDown"} => mode # "busy"
    /\ asleep' = asleep \ {t}
    /\ UNCHANGED <<version, pc, count, row, mutex, labels, frame, hv, pwrState, panel>>

-----------------------------------------------------------------------------
\* Power is lost or esp_restart is called: only the glass is left, scrambled if
\* the panel was refreshing it.  The bound is on the boots that follow.
Crash ==
    /\ version < MaxVersion
    /\ \A t \in Tasks : pc[t] # "off"
    /\ pc' = [t \in Tasks |-> "off"]
    /\ asleep' = {}
    /\ count' = [t \in Tasks |-> 0]
    /\ row' = [t \in Tasks |-> 1]
    /\ mutex' = Nobody
    /\ labels' = Blank
    /\ frame' = Blank
    /\ hv' = FALSE
    /\ pwrState' = FALSE
    /\ mode' = "unpowered"
    /\ ram' = Image(Blank, FALSE)
    /\ pending' = Image(Blank, FALSE)
    /\ glass' = [glass EXCEPT !.intact = @ /\ mode # "busy"]
    /\ UNCHANGED version

\* binUpdate with boot = true: the stored times, which wait for a heartbeat.
Boot ==
    /\ \A t \in Tasks : pc[t] = "off"
    /\ pc' = [t \in Tasks |-> "idle"]
    /\ version' = version + 1
    /\ UNCHANGED <<asleep, count, row, mutex, labels, frame, hv, pwrState, panel>>

\* binUpdate in the Zigbee task: updateTimes, then render.
UpdateTimes ==
    /\ version < MaxVersion
    /\ Goto("Zigbee", "idle", "lockUi")
    /\ version' = version + 1
    /\ UNCHANGED <<asleep, count, row, mutex, labels, frame, hv, pwrState, panel>>

\* handleHeartbeat in the Main task: render.
Heartbeat ==
    /\ Goto("Main", "idle", "lockUi")
    /\ UNCHANGED <<version, asleep, count, row, mutex, labels, frame, hv, pwrState, panel>>

\* A variant whose loop starts before the first row.
LockUiFromZero(t) ==
    /\ mutex = Nobody
    /\ Goto(t, "lockUi", "read")
    /\ mutex' = t
    /\ row' = [row EXCEPT ![t] = 0]
    /\ UNCHANGED <<version, asleep, count, labels, frame, hv, pwrState, panel>>

\* updateUi: lock(1000) succeeds.
LockUi(t) ==
    /\ mutex = Nobody
    /\ Goto(t, "lockUi", "read")
    /\ mutex' = t
    /\ row' = [row EXCEPT ![t] = 1]
    /\ UNCHANGED <<version, asleep, count, labels, frame, hv, pwrState, panel>>

\* A variant with lock(0): it gives up whatever the holder is doing.
LockUiAtOnce(t) ==
    /\ mutex \in Tasks \ {t}
    /\ Goto(t, "lockUi", "powerOn")
    /\ UNCHANGED <<version, asleep, count, row, mutex, labels, frame, hv, pwrState, panel>>

\* updateUi: lock(1000) times out, the labels stay as they are.
LockUiTimeout(t) ==
    /\ mutex \in Tasks \ {t} /\ pc[mutex] \in Refreshing
    /\ Goto(t, "lockUi", "powerOn")
    /\ UNCHANGED <<version, asleep, count, row, mutex, labels, frame, hv, pwrState, panel>>

\* updateUi: the day count is computed from times[i] ...
ReadRow(t) ==
    /\ Goto(t, "read", "label")
    /\ count' = [count EXCEPT ![t] = version]
    /\ UNCHANGED <<version, asleep, row, mutex, labels, frame, hv, pwrState, panel>>

\* ... and printed with the date, for which times[i] is read again.
LabelRow(t) ==
    /\ labels' = [labels EXCEPT ![row[t]] = Label(count[t], version)]
    /\ \/ row[t] < 3 /\ Goto(t, "label", "read")
          /\ row' = [row EXCEPT ![t] = @ + 1]
          /\ UNCHANGED mutex
       \/ row[t] = 3 /\ Goto(t, "label", "powerOn")
          /\ mutex' = Nobody
          /\ UNCHANGED row
    /\ UNCHANGED <<version, asleep, count, frame, hv, pwrState, panel>>

-----------------------------------------------------------------------------
\* powerOn, at the head of panelInit, and the delay after it.
PowerOn(t) ==
    /\ Goto(t, "powerOn", "reset")
    /\ hv' = (hv \/ ~pwrState)
    /\ pwrState' = TRUE
    /\ mode' = IF ~pwrState /\ mode = "unpowered" THEN "unset" ELSE mode
    /\ Delay(t)
    /\ UNCHANGED <<version, count, row, mutex, labels, frame, ram, pending, glass>>

\* spiR: the controller starts afresh, whatever it was doing.
Reset(t) ==
    /\ Goto(t, "reset", "settings")
    /\ mode' = IF hv THEN "unset" ELSE "unpowered"
    /\ ram' = [ram EXCEPT !.intact = FALSE]
    /\ glass' = [glass EXCEPT !.intact = @ /\ mode # "busy"]
    /\ Delay(t)
    /\ UNCHANGED <<version, count, row, mutex, labels, frame, hv, pwrState, pending>>

\* The panel settings, which only a powered and awake controller takes.
Settings(t) ==
    /\ Goto(t, "settings", "lockRefr")
    /\ mode' = IF mode = "unset" THEN "ready" ELSE mode
    /\ UNCHANGED <<version, asleep, count, row, mutex, labels, frame, hv, pwrState,
                   ram, pending, glass>>

-----------------------------------------------------------------------------
\* A variant that refreshes without the lock.
LockRefrWithoutMutex(t) ==
    /\ Goto(t, "lockRefr", "draw")
    /\ row' = [row EXCEPT ![t] = 1]
    /\ UNCHANGED <<version, asleep, count, mutex, labels, frame, hv, pwrState, panel>>

\* render: lock(100) succeeds.
LockRefr(t) ==
    /\ mutex = Nobody
    /\ Goto(t, "lockRefr", "draw")
    /\ mutex' = t
    /\ row' = [row EXCEPT ![t] = 1]
    /\ UNCHANGED <<version, asleep, count, labels, frame, hv, pwrState, panel>>

\* render: lock(100) times out, nothing is refreshed.
LockRefrTimeout(t) ==
    /\ mutex \in Tasks \ {t} /\ pc[mutex] \in Refreshing
    /\ Goto(t, "lockRefr", "idle")
    /\ UNCHANGED <<version, asleep, count, row, mutex, labels, frame, hv, pwrState, panel>>

\* lv_refr_now and flush: the chunks of a row, with a delay every 50 lines.
Draw(t) ==
    /\ frame' = [frame EXCEPT ![row[t]] = labels[row[t]]]
    /\ \/ row[t] < 3 /\ Goto(t, "draw", "draw")
          /\ row' = [row EXCEPT ![t] = @ + 1]
          /\ Delay(t)
       \/ row[t] = 3 /\ Goto(t, "draw", "write")
          /\ UNCHANGED <<row, asleep>>
    /\ UNCHANGED <<version, count, mutex, labels, hv, pwrState, panel>>

\* panelWrite: both transfers of the framebuffer.
Write(t) ==
    /\ Goto(t, "write", "auto")
    /\ ram' = IF mode \in {"unset", "ready"} THEN Image(frame, TRUE) ELSE ram
    /\ UNCHANGED <<version, asleep, count, row, mutex, labels, frame, hv, pwrState,
                   mode, pending, glass>>

\* panelUpdate: the refresh starts, the task waits for BUSY.
PanelUpdate(t) ==
    /\ Goto(t, "auto", "powerDown")
    /\ IF mode \in {"unset", "ready"}
         THEN /\ mode' = "busy"
              /\ pending' = [ram EXCEPT !.intact = @ /\ mode = "ready"]
         ELSE UNCHANGED <<mode, pending>>
    /\ Delay(t)
    /\ UNCHANGED <<version, count, row, mutex, labels, frame, hv, pwrState, ram, glass>>

\* The controller finishes a refresh.
PanelDone ==
    /\ mode = "busy"
    /\ mode' = "ready"
    /\ glass' = pending
    /\ UNCHANGED <<driver, ram, pending>>

\* Variants that forget one half of power(false).
PowerDownKeepsHv(t) ==
    /\ Goto(t, "powerDown", "release")
    /\ pwrState' = FALSE
    /\ mode' = "unset"
    /\ ram' = [ram EXCEPT !.intact = FALSE]
    /\ UNCHANGED <<version, asleep, count, row, mutex, labels, frame, hv, pending, glass>>

PowerDownKeepsState(t) ==
    /\ Goto(t, "powerDown", "release")
    /\ hv' = FALSE
    /\ mode' = "unpowered"
    /\ ram' = [ram EXCEPT !.intact = FALSE]
    /\ UNCHANGED <<version, asleep, count, row, mutex, labels, frame, pwrState, pending, glass>>

\* panelUpdate: deep sleep, HV off.
PowerDown(t) ==
    /\ Goto(t, "powerDown", "release")
    /\ hv' = FALSE
    /\ pwrState' = FALSE
    /\ mode' = "unpowered"
    /\ ram' = [ram EXCEPT !.intact = FALSE]
    /\ UNCHANGED <<version, asleep, count, row, mutex, labels, frame, pending, glass>>

\* render: unlock.
Release(t) ==
    /\ Goto(t, "release", "idle")
    /\ mutex' = Nobody
    /\ UNCHANGED <<version, asleep, count, row, labels, frame, hv, pwrState, panel>>

-----------------------------------------------------------------------------
Step(t) ==
    \/ Wake(t)
    \/ LockUi(t)
    \/ LockUiTimeout(t)
    \/ ReadRow(t)
    \/ LabelRow(t)
    \/ PowerOn(t)
    \/ Reset(t)
    \/ Settings(t)
    \/ LockRefr(t)
    \/ LockRefrTimeout(t)
    \/ Draw(t)
    \/ Write(t)
    \/ PanelUpdate(t)
    \/ PowerDown(t)
    \/ Release(t)

Next ==
    \/ Crash
    \/ Boot
    \/ UpdateTimes
    \/ Heartbeat
    \/ PanelDone
    \/ \E t \in Tasks : Step(t)

(***************************************************************************)
(* Every task that can run gets to run, delays end, the panel finishes     *)
(* what it does (wait() has no timeout), and heartbeats keep coming: the   *)
(* stack signals CAN_SLEEP again and again, each one wakes the Main task.  *)
(***************************************************************************)
Spec ==
    /\ Init /\ [][Next]_vars
    /\ \A t \in Tasks : WF_vars(Step(t))
    /\ WF_vars(Boot)
    /\ WF_vars(Heartbeat)
    /\ WF_vars(PanelDone)

-----------------------------------------------------------------------------
States == {"off", "idle", "lockUi", "read", "label", "powerOn", "reset", "settings",
           "lockRefr", "draw", "write", "auto", "powerDown", "release"}

TypeOK ==
    /\ version \in 0 .. MaxVersion
    /\ pc \in [Tasks -> States]
    /\ asleep \subseteq Tasks
    /\ count \in [Tasks -> 0 .. MaxVersion]
    /\ row \in [Tasks -> RowNumbers]
    /\ mutex \in Tasks \cup {Nobody}
    /\ labels \in Frames
    /\ frame \in Frames
    /\ hv \in BOOLEAN /\ pwrState \in BOOLEAN
    /\ mode \in {"unpowered", "unset", "ready", "busy"}
    /\ ram \in Images /\ pending \in Images /\ glass \in Images

\* A frame computed from one set of times.
Untorn(f) == \E v \in 0 .. MaxVersion : \A i \in RowNumbers : f[i] = Label(v, v)

(***************************************************************************)
(* updateTimes changes the arrays without the lock and may do so in the    *)
(* middle of the other task's updateUi, which then leaves labels of two    *)
(* sets of times.  Such labels are never sent to the panel: by priority    *)
(* the Zigbee task writes all of them again before a refresh begins.       *)
(***************************************************************************)
NoTornFrame == Untorn(ram.frame) /\ Untorn(glass.frame)

(***************************************************************************)
(* The high voltage is never left on: power() switches it on outside the   *)
(* lock and a render that finds the lock taken gives up without switching  *)
(* it off, yet when neither task is rendering the panel has no power.      *)
(***************************************************************************)
IdlePowerOff == (\A t \in Tasks : pc[t] \in {"off", "idle"}) => ~hv

\* The abstract view of the glass; torn times are none of those it allows.
TheScreen == INSTANCE Screen WITH
    latest <- version,
    seen   <- IF Untorn(glass.frame) THEN glass.frame[1].date ELSE MaxVersion + 1,
    intact <- glass.intact

(***************************************************************************)
(* Whatever the two tasks do to each other's refresh, they implement the   *)
(* abstract screen: one complete set of times at a time, never one that    *)
(* the display was not given, and never from newer times back to older.    *)
(***************************************************************************)
ImplementsScreen == TheScreen!Spec

(***************************************************************************)
(* A set of times that could not be shown when it arrived (the lock timed  *)
(* out, or the other task reset the panel) is not lost: these times or     *)
(* newer ones are eventually seen, intact.                                 *)
(***************************************************************************)
EventuallyShown ==
    \A v \in 1 .. MaxVersion :
        version = v ~> /\ glass.intact
                       /\ \A i \in RowNumbers : glass.frame[i].date >= v

(***************************************************************************)
(* What makes these invariants of the steps.  "Newest" of an image is the  *)
(* number of its times.                                                    *)
(***************************************************************************)
Labelling == {"read", "label"}
Powered   == {"reset", "settings", "lockRefr", "draw", "write", "auto", "powerDown"}
Locking   == Labelling \cup Refreshing \cup {"release"}
Labelled  == Powered \cup {"powerOn", "release"}

Newest(image)   == image.frame[1].date
AtLeast(lbl, v) == lbl.day >= v /\ lbl.date >= v

\* Both tasks start together, with room for the boot's times.
Started == \A t \in Tasks : pc[t] = "off" => version < MaxVersion /\ \A u \in Tasks : pc[u] = "off"

Locked ==
    /\ \A t \in Tasks : pc[t] \in Locking <=> mutex = t
    /\ \A t \in asleep : pc[t] \in {"reset", "settings", "draw", "powerDown"}

\* Who leaves the panel with power on leaves a task behind that will switch it off.
PowerKept ==
    /\ hv = pwrState
    /\ hv <=> mode # "unpowered"
    /\ hv => \E t \in Tasks : pc[t] \in Powered
    /\ mode = "busy" => \E t \in Tasks : pc[t] = "powerDown"

\* Labels are torn only while a task writes them or the Zigbee task waits to.
LabelsKept ==
    /\ \/ \E t \in Tasks : pc[t] \in Labelling
       \/ pc["Zigbee"] = "lockUi" /\ pc["Main"] \notin Locking
       \/ Untorn(labels) /\ labels[1].date <= version
    /\ pc["Zigbee"] # "lockUi" =>
           \A t \in Tasks :
               /\ pc[t] \in Labelling =>
                      \A i \in RowNumbers : i < row[t] => labels[i] = Label(version, version)
               /\ pc[t] = "label" => count[t] = version

Drawn ==
    \A t \in Tasks, i \in RowNumbers :
        pc[t] = "write" \/ (pc[t] = "draw" /\ i < row[t]) => frame[i] = labels[i]

\* No label in use is older than what the controller or the glass has.
Floor(v) ==
    /\ v <= version
    /\ \A t \in Tasks :
           /\ pc[t] = "label" => count[t] >= v
           /\ \A i \in RowNumbers :
                  pc[t] \in Labelled \/ (pc[t] \in Labelling /\ i < row[t]) => AtLeast(labels[i], v)

Floors == Floor(Newest(ram)) /\ Floor(Newest(glass))

\* A refresh that comes too late for the power finds nothing older to show.
Forward ==
    /\ Newest(pending) <= Newest(ram)
    /\ mode = "busy" => Newest(glass) <= Newest(pending)
    /\ (\E t \in Tasks : pc[t] \in {"auto", "powerDown"} \/ (~hv /\ pc[t] \in Powered)) =>
           Newest(glass) <= Newest(ram)

IInv ==
    /\ TypeOK /\ Started /\ Locked /\ PowerKept /\ LabelsKept /\ Drawn
    /\ NoTornFrame /\ Untorn(pending.frame) /\ Floors /\ Forward
==============================================================================
