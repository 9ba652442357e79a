------------------------------ MODULE TimeSync -------------------------------
(***************************************************************************)
(* ZigbeeSensor::fetchTime and ZigbeeDevice::getTime: app_main asks the    *)
(* coordinator for the time, once after every boot, and waits for the      *)
(* answer on the semaphore that zbReadTimeCluster gives in the Zigbee      *)
(* task.  The clock goes on over a restart (it is kept by the RTC timer)   *)
(* and begins at 1970 when there was no power; _read_time, the semaphore   *)
(* and the uptime begin anew with every boot.                              *)
(*                                                                         *)
(* Times are in ticks since 1970, in answers since 2000 as the Time        *)
(* attribute has it.  It is external that the coordinator knows the time,  *)
(* that it answers at once or not at all, that an answer is in the network *)
(* for a limited time, and that app_main gets to run within a tick.        *)
(***************************************************************************)
EXTENDS Naturals

CONSTANTS
    Timeout,      \* ZB_CMD_TIMEOUT
    Life,         \* how long an answer can be in the network
    Day,          \* 86400000000 microseconds of uptime
    Plausible,    \* 86400 * 30, "large enough to be correct"
    Year2000,     \* OneJanuary2000
    Start,        \* the true time at which a behaviour begins
    MaxTime       \* bound: the true time at which it ends

ASSUME TimeSyncAssumption ==
    /\ {Timeout, Life, Day, Plausible, Year2000, Start, MaxTime} \subseteq Nat \ {0}
    /\ Timeout < Day /\ Day < Plausible /\ Plausible < Year2000
    /\ Year2000 < Start /\ Start <= MaxTime

VARIABLES
    now,       \* the true time
    clock,     \* what time() gives
    uptime,    \* what esp_timer_get_time() gives
    pc,        \* app_main: "join", "fetch", "wait", "set" or "done"
    waited,    \* ticks spent in xSemaphoreTake
    readTime,  \* _read_time
    given,     \* the binary semaphore lock
    served,    \* the Time attribute of the device's own Time cluster
    status,    \* bit 1 of its Time Status attribute, _time_status
    asked,     \* requests on their way to the coordinator
    answers,   \* answers on their way back
    synced,    \* auxiliary: when the clock was set, or Never
    stray      \* auxiliary: an answer came before its boot had asked

vars == <<now, clock, uptime, pc, waited, readTime, given, served, status, asked, answers,
          synced, stray>>

clocks     == <<now, clock, uptime, synced>>
reply      == <<readTime, given, stray>>
attributes == <<served, status>>
air        == <<asked, answers>>

Never == 0

-----------------------------------------------------------------------------
\* The device gets power for the first time.
Init ==
    /\ now = Start
    /\ clock = 0
    /\ uptime = 0
    /\ pc = "join"
    /\ waited = 0
    /\ readTime = 0
    /\ given = FALSE
    /\ served = 0
    /\ status = FALSE
    /\ asked = FALSE
    /\ answers = {}
    /\ synced = Never
    /\ stray = FALSE

\* Power was lost, or (external) something has called esp_restart.
Boot(powerLost) ==
    /\ clock' = IF powerLost THEN 0 ELSE clock
    /\ synced' = IF powerLost THEN Never ELSE synced
    /\ stray' = (stray /\ ~powerLost)
    /\ uptime' = 0
    /\ pc' = "join"
    /\ waited' = 0
    /\ readTime' = 0
    /\ given' = FALSE
    /\ served' = 0
    /\ status' = FALSE
    /\ UNCHANGED <<now, air>>

\* app_main: the device is connected, fetchTime is called.
Connect ==
    /\ pc = "join"
    /\ pc' = "fetch"
    /\ UNCHANGED <<waited, clocks, reply, attributes, air>>

\* fetchTime's condition; lastTime is 0 and never assigned.
Trusted == clock > Plausible /\ uptime <= Day

\* fetchTime: the clock is returned as it is.
FetchSkips ==
    /\ pc = "fetch"
    /\ Trusted
    /\ pc' = "done"
    /\ UNCHANGED <<waited, clocks, reply, attributes, air>>

\* getTime up to xSemaphoreTake.
FetchAsks ==
    /\ pc = "fetch"
    /\ ~Trusted
    /\ pc' = "wait"
    /\ waited' = 0
    /\ readTime' = 0
    /\ asked' = TRUE
    /\ UNCHANGED <<given, answers, stray, clocks, attributes>>

\* getTime: the semaphore is taken ...
Take ==
    /\ pc = "wait"
    /\ given
    /\ given' = FALSE
    /\ pc' = "set"
    /\ UNCHANGED <<waited, readTime, stray, clocks, attributes, air>>

\* ... or not in time, and nothing is set.  Variants: the result is not looked
\* at, and there is no end to the wait (portMAX_DELAY).
TimedOut(to) ==
    /\ pc = "wait"
    /\ ~given
    /\ waited >= Timeout
    /\ pc' = to
    /\ UNCHANGED <<waited, clocks, reply, attributes, air>>
GiveUpAndSet == TimedOut("set")
GiveUpNever == FALSE /\ TimedOut("done")
GiveUp == TimedOut("done")

\* getTime: settimeofday, setTime, and the status attribute; a variant serves
\* the time of day where the attribute is since 2000.
SetTo(t) ==
    /\ pc = "set"
    /\ pc' = "done"
    /\ clock' = Year2000 + readTime
    /\ served' = t
    /\ status' = TRUE
    /\ synced' = now
    /\ UNCHANGED <<now, uptime, waited, reply, air>>
ServeUnixTime == SetTo(Year2000 + readTime)
SetClock == SetTo(readTime)

-----------------------------------------------------------------------------
\* The coordinator answers a request, without the time if it does not offer it.
Answer ==
    /\ asked
    /\ asked' = FALSE
    /\ \E ok \in BOOLEAN : answers' = answers \cup {[time |-> now - Year2000, ok |-> ok]}
    /\ UNCHANGED <<pc, waited, clocks, reply, attributes>>

\* The network loses a request or an answer.
LoseRequest ==
    /\ asked
    /\ asked' = FALSE
    /\ UNCHANGED <<pc, waited, answers, clocks, reply, attributes>>
LoseAnswer(a) ==
    /\ answers' = answers \ {a}
    /\ UNCHANGED <<pc, waited, asked, clocks, reply, attributes>>

\* attributeResponse and zbReadTimeCluster: an answer to this boot's request or
\* to one of an earlier boot; without a time it is ignored.
AttributeResponse(a) ==
    /\ pc # "join"
    /\ answers' = answers \ {a}
    /\ readTime' = IF a.ok THEN a.time ELSE readTime
    /\ given' = (given \/ a.ok)
    /\ stray' = (stray \/ (a.ok /\ pc = "fetch"))
    /\ UNCHANGED <<pc, waited, asked, clocks, attributes>>

\* Time passes; an answer that is too old is not in the network any more.
Tick ==
    /\ now < MaxTime
    /\ pc \notin {"fetch", "set"} /\ ~(pc = "wait" /\ given)
    /\ ~(pc = "wait" /\ waited >= Timeout)
    /\ ~asked
    /\ \A a \in answers : now < Year2000 + a.time + Life
    /\ now' = now + 1
    /\ clock' = clock + 1
    /\ uptime' = uptime + 1
    /\ waited' = IF pc = "wait" THEN waited + 1 ELSE waited
    /\ UNCHANGED <<pc, synced, reply, attributes, air>>

AppMain == Connect \/ FetchSkips \/ FetchAsks \/ Take \/ GiveUp \/ SetClock
Network == Answer \/ LoseRequest \/ \E a \in answers : LoseAnswer(a) \/ AttributeResponse(a)

Next ==
    \/ \E powerLost \in BOOLEAN : Boot(powerLost)
    \/ Connect
    \/ FetchSkips
    \/ FetchAsks
    \/ Take
    \/ GiveUp
    \/ SetClock
    \/ Answer
    \/ LoseRequest
    \/ \E a \in answers : LoseAnswer(a)
    \/ \E a \in answers : AttributeResponse(a)
    \/ Tick

\* app_main runs, the network loses or delivers, time passes.
Spec ==
    /\ Init /\ [][Next]_vars
    /\ WF_vars(AppMain)
    /\ WF_vars(Network)
    /\ WF_vars(Tick)

-----------------------------------------------------------------------------
Times == 0 .. (MaxTime - Year2000)

TypeOK ==
    /\ now \in Start .. MaxTime
    /\ clock \in 0 .. MaxTime /\ uptime \in 0 .. MaxTime
    /\ pc \in {"join", "fetch", "wait", "set", "done"}
    /\ waited \in 0 .. Timeout
    /\ readTime \in Times /\ served \in Times
    /\ given \in BOOLEAN /\ status \in BOOLEAN
    /\ asked \in BOOLEAN /\ stray \in BOOLEAN
    /\ answers \subseteq [time : Times, ok : BOOLEAN]
    /\ synced \in {Never} \cup Start .. MaxTime

(***************************************************************************)
(* A clock that was set is right: never ahead, and behind by no more than  *)
(* an answer can have been in the network, though answers are lost, come   *)
(* after getTime gave up, or belong to a request of an earlier boot.  The  *)
(* exception is an answer of an earlier boot that comes between the join   *)
(* and the request: nobody takes the semaphore back before the request, so *)
(* getTime does not wait and sets the clock to the reset _read_time, 2000. *)
(***************************************************************************)
ClockTrue == synced # Never /\ ~stray => clock <= now /\ now - clock <= Life

\* app_main, which starts the Main task after fetchTime, is never kept waiting
\* for good by an answer that does not come.
FetchEnds == pc = "wait" ~> pc \in {"join", "done"} \/ now = MaxTime

(***************************************************************************)
(* sensor.cpp:257 "Unix time is large enough to be correct and has been    *)
(* updated in the last day": a clock that is trusted was set within a day. *)
(***************************************************************************)
UpdatedInLastDay == [][FetchSkips => synced # Never /\ now - synced <= Day]_vars

(***************************************************************************)
(* What makes ClockTrue inductive: no time is of the future, an answer in  *)
(* the network is fresh, and so is the one that the semaphore stands for,  *)
(* unless it was given before the request.                                 *)
(***************************************************************************)
Bounded == clock <= now /\ uptime <= now /\ Year2000 + readTime <= now
AnswersFresh ==
    \A a \in answers : Year2000 + a.time <= now /\ now - (Year2000 + a.time) <= Life
GivenFresh ==
    /\ pc = "join" => ~given
    /\ pc = "fetch" /\ given => stray
    /\ ~stray /\ (pc = "set" \/ (pc = "wait" /\ given)) => now - (Year2000 + readTime) <= Life

IInv == TypeOK /\ Bounded /\ AnswersFresh /\ GivenFresh /\ ClockTrue
==============================================================================
