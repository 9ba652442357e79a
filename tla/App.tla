--------------------------------- MODULE App ---------------------------------
(***************************************************************************)
(* main.cpp: how the device starts, joins the network, and then lives from *)
(* wake-up to wake-up.  Four parties act on the shared state: app_main,    *)
(* which sets up and ends; the Zigbee task, which handles the signals of   *)
(* the stack; the interrupt of the button; and the Main task, which app_   *)
(* main creates once the device is connected.  Main waits for main_task_   *)
(* queue; the items mean nothing, only that there is one.                  *)
(***************************************************************************)
EXTENDS Naturals

CONSTANTS
    QueueSize,      \* the length of main_task_queue (4)
    Interval,       \* HEARTBEAT_INTERVAL in ticks of the model's clock
    Hour,           \* heartbeats between two battery readings (60)
    SixHours,       \* heartbeats between two renders (360)
    CounterWord,    \* the values of heartbeatCounter, a uint16_t (65536)
    HoldPolls       \* polls of the pressed button in three seconds (60)

ASSUME AppAssumption ==
    {QueueSize, Interval, Hour, SixHours, CounterWord, HoldPolls} \subseteq Nat \ {0}

VARIABLES
    setup,        \* where app_main is: "begin", "join", "time" or "end"
    main,         \* where the Main task is
    job,          \* what the stack is doing: "none", "startup", "init" or "steer"
    alarm,        \* the commissioning the scheduler will start, or "none"
    factoryNew,   \* esp_zb_bdb_is_factory_new
    connected,    \* zigbeeCore.connected
    starts,       \* calls of zigbeeCore.start since the boot
    queue,        \* items in main_task_queue
    pressed,      \* button_pressed
    down,         \* the button's level is low
    held,         \* polls since pressStart
    elapsed,      \* ticks since lastHeartbeat, up to one more than Interval
    counter,      \* heartbeatCounter
    beatsNoRead,  \* auxiliary: heartbeats since the last battery reading
    beatsNoDraw,  \* auxiliary: heartbeats since the last render
    stuck         \* auxiliary: the stack has refused to start a commissioning

zigbee == <<job, alarm, factoryNew, connected, starts, stuck>>
button == <<pressed, down, held>>
beats  == <<elapsed, counter, beatsNoRead, beatsNoDraw>>
vars   == <<setup, main, job, alarm, factoryNew, connected, starts, queue, pressed, down,
            held, elapsed, counter, beatsNoRead, beatsNoDraw, stuck>>

-----------------------------------------------------------------------------
Init ==
    /\ setup = "begin"
    /\ main = "none"
    /\ job = "none"
    /\ alarm = "none"
    /\ factoryNew \in BOOLEAN
    /\ connected = FALSE
    /\ starts = 0
    /\ queue = 0
    /\ pressed = FALSE
    /\ down = FALSE
    /\ held = 0
    /\ elapsed = 0
    /\ counter = 0
    /\ beatsNoRead = 0
    /\ beatsNoDraw = 0
    /\ stuck = FALSE

\* esp_restart or esp_zb_factory_reset: everything but the stack's storage is new.
Reboot(new) ==
    /\ setup' = "begin"
    /\ main' = "none"
    /\ job' = "none"
    /\ alarm' = "none"
    /\ factoryNew' = new
    /\ connected' = FALSE
    /\ starts' = 0
    /\ queue' = 0
    /\ pressed' = FALSE
    /\ held' = 0
    /\ elapsed' = 0
    /\ counter' = 0
    /\ beatsNoRead' = 0
    /\ beatsNoDraw' = 0
    /\ stuck' = FALSE
    /\ UNCHANGED down

-----------------------------------------------------------------------------
\* zigbeeCore.start: creates the task in which the stack signals SKIP_STARTUP.
StartZigbee ==
    /\ starts' = starts + 1
    /\ job' = "startup"

\* app_main up to zigbeeCore.start.
Begin ==
    /\ setup = "begin"
    /\ setup' = "join"
    /\ StartZigbee
    /\ UNCHANGED <<main, alarm, factoryNew, connected, stuck, queue, button, beats>>

\* A variant that does not wait, and app_main: while (!connected) has ended.
JoinedEarly ==
    /\ setup = "join"
    /\ setup' = "time"
    /\ UNCHANGED <<main, zigbee, queue, button, beats>>
Joined ==
    /\ setup = "join"
    /\ connected
    /\ setup' = "time"
    /\ UNCHANGED <<main, zigbee, queue, button, beats>>

\* app_main: the time has come or has not, the Main task is created.
Spawn ==
    /\ setup = "time"
    /\ setup' = "end"
    /\ main' = "receive"
    /\ UNCHANGED <<zigbee, queue, button, beats>>

-----------------------------------------------------------------------------
(***************************************************************************)
(* esp_zb_bdb_start_top_level_commissioning; nobody looks at an error,     *)
(* apart from a line in the log.                                           *)
(***************************************************************************)
Commission(mode) ==
    \/ job' = mode /\ UNCHANGED stuck
    \/ job' = "none" /\ stuck' = TRUE

\* SKIP_STARTUP.
SkipStartup ==
    /\ job = "startup"
    /\ Commission("init")
    /\ UNCHANGED <<setup, main, alarm, factoryNew, connected, starts, queue, button, beats>>

\* DEVICE_FIRST_START or DEVICE_REBOOT with ESP_OK.
Initialised ==
    /\ job = "init"
    /\ \/ factoryNew /\ Commission("steer") /\ UNCHANGED connected
       \/ ~factoryNew /\ connected' = TRUE /\ job' = "none" /\ UNCHANGED stuck
    /\ UNCHANGED <<setup, main, alarm, factoryNew, starts, queue, button, beats>>

\* STEERING with ESP_OK: the device has joined a network.
Steered ==
    /\ job = "steer"
    /\ job' = "none"
    /\ connected' = TRUE
    /\ factoryNew' = FALSE
    /\ UNCHANGED <<setup, main, alarm, starts, stuck, queue, button, beats>>

\* Either of them with an error: the same again in 500 or 1000 ms.  A variant
\* repeats the initialisation only.
InitFailsOnly ==
    /\ job \in {"init", "steer"}
    /\ job' = "none"
    /\ alarm' = IF job = "init" THEN "init" ELSE "none"
    /\ UNCHANGED <<setup, main, factoryNew, connected, starts, stuck, queue, button, beats>>
CommissioningFails ==
    /\ job \in {"init", "steer"}
    /\ job' = "none"
    /\ alarm' = job
    /\ UNCHANGED <<setup, main, factoryNew, connected, starts, stuck, queue, button, beats>>

\* bdb_start_top_level_commissioning_cb.
Alarm ==
    /\ alarm # "none"
    /\ alarm' = "none"
    /\ Commission(alarm)
    /\ UNCHANGED <<setup, main, factoryNew, connected, starts, queue, button, beats>>

\* xQueueSend with no time to wait, also from the interrupt: dropped when full.
Wake == queue' = IF queue < QueueSize THEN queue + 1 ELSE queue

\* CAN_SLEEP: the stack has slept, and wakes the Main task; a variant only sleeps.
CanSleepOnly ==
    /\ starts > 0
    /\ UNCHANGED vars
CanSleep ==
    /\ starts > 0
    /\ Wake
    /\ UNCHANGED <<setup, main, zigbee, button, beats>>

\* LEAVE: a factory reset, or a reboot when the device shall join again.
Leave ==
    /\ connected
    /\ Reboot(TRUE) \/ Reboot(factoryNew)

-----------------------------------------------------------------------------
\* buttonISR, on either edge; an edge while the chip sleeps may go unnoticed.
\* A variant sets the flag and sends nothing.
EdgeSilent(seen) ==
    /\ setup # "begin"
    /\ down' = ~down
    /\ pressed' = (pressed \/ seen)
    /\ UNCHANGED <<setup, main, zigbee, queue, held, beats>>
Edge(seen) ==
    /\ setup # "begin"
    /\ down' = ~down
    /\ IF seen THEN Wake /\ pressed' = TRUE ELSE UNCHANGED <<queue, pressed>>
    /\ UNCHANGED <<setup, main, zigbee, held, beats>>

\* esp_timer_get_time() moves on.
Tick ==
    /\ elapsed <= Interval
    /\ elapsed' = elapsed + 1
    /\ UNCHANGED <<setup, main, zigbee, queue, button, counter, beatsNoRead, beatsNoDraw>>

-----------------------------------------------------------------------------
MainStep(from, to) ==
    /\ main = from
    /\ main' = to
    /\ UNCHANGED setup

\* main_task: xQueueReceive.
Receive ==
    /\ queue > 0
    /\ queue' = queue - 1
    /\ MainStep("receive", "heartbeat")
    /\ UNCHANGED <<zigbee, button, beats>>

\* handleHeartbeat: less than a minute has passed.
TooEarly ==
    /\ elapsed <= Interval
    /\ MainStep("heartbeat", "button")
    /\ UNCHANGED <<zigbee, queue, button, beats>>

\* handleHeartbeat up to the render; the battery is read on the full hour.
Heartbeat ==
    /\ elapsed > Interval
    /\ elapsed' = 0
    /\ beatsNoRead' = IF counter % Hour = 0 THEN 0 ELSE beatsNoRead + 1
    /\ MainStep("heartbeat", "render")
    /\ UNCHANGED <<zigbee, queue, button, counter, beatsNoDraw>>

\* heartbeatCounter++, and variants: a wider counter, and one that saturates.
CountWide == counter' = counter + 1
CountSaturating == counter' = IF counter + 1 < CounterWord THEN counter + 1 ELSE counter
Count == counter' = (counter + 1) % CounterWord

\* handleHeartbeat from the render, which takes long, to its end.
Rendered ==
    /\ beatsNoDraw' = IF counter % SixHours = 0 THEN 0 ELSE beatsNoDraw + 1
    /\ Count
    /\ IF connected THEN UNCHANGED <<starts, job>> ELSE StartZigbee
    /\ MainStep("render", "button")
    /\ UNCHANGED <<alarm, factoryNew, connected, stuck, queue, button, elapsed, beatsNoRead>>

\* handleResetButton: nothing was pressed.
NotPressed ==
    /\ ~pressed
    /\ MainStep("button", "receive")
    /\ UNCHANGED <<zigbee, queue, button, beats>>

\* handleResetButton: the flag is taken and the time of the press is now.  A
\* variant leaves the flag.
PressedKeepsFlag ==
    /\ pressed
    /\ held' = 0
    /\ MainStep("button", "hold")
    /\ UNCHANGED <<zigbee, queue, pressed, down, beats>>
Pressed ==
    /\ pressed
    /\ pressed' = FALSE
    /\ held' = 0
    /\ MainStep("button", "hold")
    /\ UNCHANGED <<zigbee, queue, down, beats>>

\* handleResetButton: 50 ms later the button is still down ...
Holding ==
    /\ down
    /\ held' = held + 1
    /\ MainStep("hold", IF held' > HoldPolls THEN "reset" ELSE "hold")
    /\ UNCHANGED <<zigbee, queue, pressed, down, beats>>

\* ... or it was released.
Released ==
    /\ ~down
    /\ held' = 0
    /\ MainStep("hold", "receive")
    /\ UNCHANGED <<zigbee, queue, pressed, down, beats>>

\* handleResetButton: one second later, whatever the button does.
FactoryReset ==
    /\ main = "reset"
    /\ Reboot(TRUE)

-----------------------------------------------------------------------------
AppMain == Begin \/ Joined \/ Spawn
MainTask ==
    \/ Receive \/ TooEarly \/ Heartbeat \/ Rendered
    \/ NotPressed \/ Pressed \/ Holding \/ Released \/ FactoryReset
Stack == SkipStartup \/ Initialised \/ Steered \/ CommissioningFails

Next ==
    \/ Begin
    \/ Joined
    \/ Spawn
    \/ SkipStartup
    \/ Initialised
    \/ Steered
    \/ CommissioningFails
    \/ Alarm
    \/ CanSleep
    \/ Leave
    \/ \E seen \in BOOLEAN : Edge(seen)
    \/ Tick
    \/ Receive
    \/ TooEarly
    \/ Heartbeat
    \/ Rendered
    \/ NotPressed
    \/ Pressed
    \/ Holding
    \/ Released
    \/ FactoryReset

(***************************************************************************)
(* The tasks run, time passes, the stack ends what it starts and goes to   *)
(* sleep again and again; a network that is tried again and again lets the *)
(* device in some time.                                                    *)
(***************************************************************************)
Spec ==
    /\ Init /\ [][Next]_vars
    /\ WF_vars(AppMain)
    /\ WF_vars(MainTask)
    /\ WF_vars(Stack)
    /\ WF_vars(Alarm)
    /\ WF_vars(CanSleep)
    /\ WF_vars(Tick)
    /\ SF_vars(Initialised)
    /\ SF_vars(Steered)

-----------------------------------------------------------------------------
TypeOK ==
    /\ setup \in {"begin", "join", "time", "end"}
    /\ main \in {"none", "receive", "heartbeat", "render", "button", "hold", "reset"}
    /\ job \in {"none", "startup", "init", "steer"}
    /\ alarm \in {"none", "init", "steer"}
    /\ factoryNew \in BOOLEAN /\ connected \in BOOLEAN /\ stuck \in BOOLEAN
    /\ pressed \in BOOLEAN /\ down \in BOOLEAN
    /\ starts \in Nat
    /\ queue \in 0 .. QueueSize
    /\ held \in 0 .. (HoldPolls + 1)
    /\ elapsed \in 0 .. (Interval + 1)
    /\ counter \in 0 .. (CounterWord - 1)
    /\ beatsNoRead \in Nat /\ beatsNoDraw \in Nat

(***************************************************************************)
(* Items are dropped when the queue is full, and the button is looked at   *)
(* only after an item; yet a press is never left lying: when the Main task *)
(* waits and the button's flag is set, there is an item to wake it.        *)
(***************************************************************************)
NoLostPress == pressed /\ main \in {"none", "receive"} => queue > 0

(***************************************************************************)
(* The battery is read every hour and the panel drawn every six hours,     *)
(* also when the 16-bit counter wraps around at a number that is not a     *)
(* multiple of six hours (every 45 days).                                  *)
(***************************************************************************)
OnSchedule == beatsNoRead < Hour /\ beatsNoDraw < SixHours

(***************************************************************************)
(* The stack is started once only (a second time would end in an           *)
(* ESP_ERROR_CHECK) and has one commissioning in hand at a time: the one   *)
(* it works on or the one an alarm will repeat.                            *)
(***************************************************************************)
OneCommissioning ==
    /\ starts <= 1
    /\ job # "none" => alarm = "none" /\ ~connected

(***************************************************************************)
(* What makes these three inductive.  A press may also come while the      *)
(* last one is looked at.  The heartbeats without a reading or a render    *)
(* are the counter's distance from the last multiple of the period; during *)
(* a render the counter is one behind.  app_main has begun once, and the   *)
(* polls of a held button stop at the limit.                               *)
(***************************************************************************)
PressWakes == pressed /\ main \in {"none", "receive", "hold"} => queue > 0

Since(n, next, period) ==
    /\ n < period
    /\ next # 0 => n = (next - 1) % period

BeatsCounted ==
    /\ Since(beatsNoDraw, counter, SixHours)
    /\ IF main = "render" THEN beatsNoRead = counter % Hour
                          ELSE Since(beatsNoRead, counter, Hour)

BegunOnce ==
    /\ starts = IF setup = "begin" THEN 0 ELSE 1
    /\ setup = "begin" => job = "none" /\ alarm = "none" /\ ~connected
    /\ job # "none" => alarm = "none" /\ ~connected
    /\ alarm # "none" => ~connected
    /\ setup \in {"time", "end"} => connected
    /\ main # "none" => setup = "end"

HoldEnds == main = "hold" => held <= HoldPolls

IInv == TypeOK /\ PressWakes /\ BeatsCounted /\ BegunOnce /\ HoldEnds

\* However often initialisation and steering fail, they are repeated until the
\* device is connected, unless the stack refused to start one.
Connects == setup = "join" ~> connected \/ stuck

\* A press is looked at, however busy the Main task is, once it exists.
PressHandled == pressed /\ main # "none" ~> ~pressed

\* When a minute has passed there is a heartbeat: the Main task is always woken
\* again, and no button that is held down keeps it for ever.
HeartbeatComes ==
    main # "none" /\ elapsed > Interval ~> elapsed = 0
==============================================================================
