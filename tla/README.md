# BinStatus in TLA+

BinStatus is the firmware of a battery-powered Zigbee end device (ESP32, one core) with an
e-paper panel. A home hub sends the next collection dates of three bins; the device stores them
in flash, counts the days, and draws them when they arrive and every six hours. It also joins
the network, follows its binding table, fetches the time, reports its battery, and updates its
own firmware over Zigbee, by whole images or by patches.

These modules model the parts in which the order of events matters, check them with TLC on small
instances, and prove the most important results with TLAPS for every value of the constants.
Every definition follows the C++ source; `PROJECT.json` names the lines for each.

## Inventory

Three tasks share one core: app_main (priority 1, ends after start-up), **Main** (4) and
**Zigbee** (5), and one interrupt (button). Everything the stack has to say is a callback in
the Zigbee task.

| Component | State it keeps | Operations | What must hold |
| --- | --- | --- | --- |
| Bin times (`sensor.cpp`, `prefs.cpp`) | three keys in NVS flash | `zbCustomCommand` (three separate puts, then show), `init` | rows follow the last command; flash is never older than what was stored completely |
| Preferences (`prefs.cpp`) | `_started`, `_readOnly`, the handle; the NVS namespace | begin, end, put, remove, clear, get | what is reported as stored is what reads and restarts find |
| Rows (`display.cpp` `updateTimes`, `updateUi`) | `bins[]`, `times[]` | sort, day count | sorted, every bin with its own date, right number of days |
| Rendering (`display.cpp`, `epaper.cpp`) | labels, framebuffer, LVGL mutex, HV pin, power flag, controller | `render` from two tasks, lock timeouts of 1 s and 0.1 s | no torn frame, power off when idle, new times eventually seen |
| OTA (`handlers.cpp`) | statics of `upgradeStatus` and `otaData`, two slots, boot slot | START, RECEIVE, CHECK, APPLY, FINISH, other statuses | always a bootable image, and only an approved one; a good file is not refused |
| Delta OTA (`esp_delta_ota_ops.cpp`) | context, engine, `patch_buf`, `patch_len` | begin, write, end, header checks, write callback | the patch reaches the engine completely, whatever the block size |
| Bindings (`core.cpp`, `endpoint.cpp`) | `_bound_devices`, static `all_records` and `found_devices` | `searchBindings`, `bindingTableCb`, `removeBoundDevice` | the list follows the table |
| Time (`sensor.cpp`, `endpoint.cpp`, `handlers.cpp`) | RTC, `_read_time`, semaphore, Time cluster | `fetchTime`, `getTime`, `zbReadTimeCluster` | a clock that was set is right; start-up is not blocked |
| Application (`main.cpp`) | queue of wake-ups, button flag, heartbeat counter, `connected` | start-up, signal handler, interrupt, heartbeat, button, leave, reset | joins in the end, no press forgotten, battery and panel on schedule |
| Battery (`adc.cpp`, `setBattery`) | two attributes | `getValue`, `setBattery` | the attributes say what was measured |
| Hub converter (`bin.mjs`) | none | `convertSet` | inverse of the device's decoding |
| Dispatch, clusters, helpers, tools, images, configuration | none, or fixed at start-up | | see "Not modelled" |

Interactions: the custom command (Zigbee task) writes flash, then the rows, then renders; the
heartbeat (Main task) renders the same rows; `render` shares the LVGL mutex but not the power
and reset lines; a bind request starts a search whose callbacks may interleave with those of
another search; `app_main` waits for `connected`, which the signal handler sets, and for the time,
which the Zigbee task gives through a semaphore; the interrupt and the stack both fill
the queue Main waits on; OTA FINISH and LEAVE restart everything.

The hard behaviours are listed line by line under "hazards" in `PROJECT.json`: a crash between
two commits, an unlocked write during a drawing, locks that time out, statics that survive an
aborted upgrade, overlapping searches over a changing table, lost and late answers, full queues,
and counters and casts that wrap.

## Modules

| Module | Models | Notes |
| --- | --- | --- |
| `BinRows` | the hub's encoding, the device's 32-bit decoding, `updateTimes`, the 16-bit day count | pure operators over a parametric word; an instance in every run that draws |
| `BinTimes` | the command, the three puts, `init`, crashes | one action per put, because flash is what survives between two of them |
| `Screen` | abstract: the panel shows complete sets of times, never going back | what rendering promises |
| `Panel` | both tasks in `render`, the driver, the controller, the loss of power and the boot | refines `Screen`; one action per stretch of code between two points where another task can run |
| `Device` (`MCDevice`) | `BinTimes` composed with `Screen`: from the hub's command to the glass | the composition uses what `Panel` is shown to implement instead of `Panel` itself |
| `Preferences` (`MCPreferences`) | the class, over a store in which every call may fail or be cut off | a put is a set and a commit, two steps; a get is an operator on the state |
| `Firmware` | abstract: one bootable image, replaced by the approved one in one step | what an upgrade promises |
| `DeltaOta` | the patch receiver as operators over a record of its statics | used by `OtaUpgrade` |
| `OtaUpgrade` (`MCOtaUpgrade`) | `upgradeStatus` and `otaData`, several attempts, restarts | refines `Firmware`; one action per callback |
| `Bindings` (`MCBindings`) | searches, chunks, the pass over the last chunk | one action per callback |
| `TimeSync` | `fetchTime` and `getTime`, the network and the coordinator | the clock survives restarts, everything else does not |
| `App` | `main.cpp` | all parties of the start-up and of the main loop |
| `Battery` (`MCBattery`) | `getValue` and `setBattery` | arithmetic as the compiler sees it |
| `BinTimesProofs` (with `BinRows`), `DeviceProofs`, `PanelProofs`, `OtaUpgradeProofs`, `PreferencesProofs`, `BindingsProofs`, `TimeSyncProofs`, `AppProofs` | | theorems |

Abstractions. In `Panel` a set of times is a number, a label the number it was computed from, and
a drawing has three lines; a chip that sleeps in deep sleep is unpowered. In `Device` the same numbers
index a history, `origin`, that says for each bin of each set which command its date is from; the
rows themselves are `BinTimes`'s, so that the digits drawn can be compared with what the hub sent.
In `Preferences` a value is a number, a string its length, bytes count in fours; NVS's own
caches are the difference between what it answers (`cache`) and what a restart would find (`flash`). In `OtaUpgrade` a file
is a short sequence of units (tag, patch header, image header, body) so that blocks of one, two
or more units cut it everywhere a block boundary can fall, and byte counters count units;
`patch_len` wraps at a small number as the `uint8_t` does at 256. The flash may fail at any write, which leaves the
statics of the patch receiver as they are after it, and memory may run out while a patch header is collected, which
leaves `patch_len` without a buffer (`NoMemory`). The next block is then copied past the end of its own buffer
(`Left`): the model has the units that the header check finds, not what the copy overwrites. A message whose
`info.status` is not SUCCESS is only logged and has no action. In `Bindings` an address is a number, and
reading a freed device is a free choice of the result. In `App` a minute is two ticks, an hour
three heartbeats and the counter wraps at 16, which like 65536 is no multiple of six hours (6).
In `TimeSync` a tick stands for part of a minute when an answer is on its way and for days when the clock's age is meant; the
constants say which, and their order, which `TimeSyncAssumption` fixes as the code has it (100 seconds of waiting, a day,
thirty days, the year 2000), is what matters; `app_main` reads and sets the clock within a tick. Where a definition has a second, slightly
wrong form above it ("a variant ..."), that form stands for a plausible bug that the property
named in `PROJECT.json` detects.

## What is checked

| Run | Properties | What it shows |
| --- | --- | --- |
| `device` | TypeOK, RowsShowLatest, NeverOlderThanDurable, MixtureIsOrdered, RowsFromOrigin, PanelCountsDays, SeenIsStored, SeenNeverBack, DurableIsShown | two commands (reversed with a tie; one that wraps), every put failing or crashing, renders of any set at any time: from the hub's date to the day count on the glass |
| `prefs` | TypeOK, HandleMode, PutSurvives, ReadsBack | every kind of put on one key, another key beside it, every NVS call failing or cut off |
| `panel` | TypeOK, NoTornFrame, IdlePowerOff, ImplementsScreen, EventuallyShown | four sets of times, renders of two tasks interleaved in every way priority allows, power lost and back at any step |
| `ota` | TypeOK, CheckedIsComplete, NoFalseRefusal, ImplementsFirmware | attempts with sound, defective, whole and patch files in three block sizes, aborted and cut off anywhere |
| `ota_end` | EndFreesEngine (violated) | an engine that is left behind |
| `bindings` | TypeOK, NoDangling, NoGhost, NoneLost, OnlyThoseRemoved, SearchesEnd | IEEE addresses only: three overlapping searches, three records, one per chunk |
| `bindings_add` | NewDevicesAdded (violated) | a device that is not in the list is looked up in one just freed |
| `bindings_groups` | OnlyThoseRemoved (violated) | the wrong group is removed |
| `app` | TypeOK, NoLostPress, OnSchedule, OneCommissioning, Connects, PressHandled, HeartbeatComes | start-up, main loop and reboots without end |
| `time` | TypeOK, ClockTrue, FetchEnds | seven ticks, any number of boots, requests and answers lost or late |
| `time_stale` | UpdatedInLastDay (violated) | a clock that was never set is trusted after thirty days and a restart without a network |
| `battery` | VoltageRounded (violated) | 3.5 V reported as 0.2 V |

The five violated properties state what a comment of the code says; `PROJECT.json` quotes it under
"findings".

Some properties hold with a condition that is worth knowing. **NoFalseRefusal**: `offset`,
`s_tagid_received` and `patch_buf` are not reset by START, so after an attempt was cut off a sound
file can be refused; until something went wrong, none is. **CheckedIsComplete**: CHECK compares counters of bytes
received, so after such an attempt a patch can pass it of which a `patch_len` that wrapped has lost a block; FINISH
refuses that one, because the engine was not fed enough. **ClockTrue**: `getTime`
does not take the semaphore back before it asks, so an answer to a request of an earlier boot
that arrives between the join and the request ends the wait at once, and the clock is set to
the year 2000; in every other case the clock is right. **EventuallyShown**, not "shown when `render` returns": both
locks of `render` may time out while the Main task refreshes, and new times then wait for the
next heartbeat render, up to six hours; after a boot they always do (`binUpdate` does not render).
**SeenNeverBack** and **SeenIsStored** hold until a put or the opening of the namespace fails: the handler
ignores what the puts return, and shows what it could not store. **PutSurvives** speaks of what a
call reported as done; after a failed commit reads give the new value and a restart finds
either, and an empty string is stored although `putString` returns 0.

### Bounds, and why they are enough

* `device`: two commands and four sets of times (`MaxSets`): two for a boot and a command, two more for a
  restart and another command, or two restarts. The invariants relate the last complete command,
  the one in progress and what was seen before; the proofs hold for any number. The word (8), the epoch (3), the day (2) and the
  half word (3) are small enough that every wrap happens, and `PanelCountsDays` is evaluated for
  every time of day. The system may rest at the bound only with the chip running, and renders go on, so deadlock is checked.
* `prefs`: one key with two values of each kind and bytes of none to three units, so that a `double`
  (two units) meets shorter, equal and longer ones; the second key shows that operations on one
  leave the other alone.
* `panel`: four sets of times, so that a boot can follow two commands, or two boots one. A set can be
  on the glass, in a drawing, and in the arrays at the same time; each task is in at most one
  render. `MaxVersion` bounds commands and boots; heartbeats are not bounded.
* `ota`: three attempts (`MaxAttempts`). One leaves statics behind, one is spoiled by them, and a
  sound one ends it. Blocks of two, three and five units put boundaries before, in and after the
  headers; that of five makes `patch_len` (six values) wrap as in the code, where a block has up to
  223 bytes: in one attempt alone never, on top of what an aborted attempt left. `ota_end` needs two attempts and one size only.
* `bindings`: two changes, three searches, three records read one by one, so that there are a first,
  a middle and a last chunk. The system rests when no change is left, so deadlock is
  not checked there; `SearchesEnd` says that it rests with nothing outstanding.
  In `bindings` memory may also run out at every new device (`MemoryFails`); the other two leave this out, so that what they
  show has no such cause. `bindings_groups` has two groups, chunks of two and one change, `bindings_add` IEEE addresses
  only and two changes.
* `app`: no bound; the clock and the poll counter saturate where nothing depends on more.
* `time`: seven ticks of true time, more than a timeout (2), an answer's life (3), a day (4) and
  thirty days (5), so that an answer of one boot can meet the next one, and a clock that was never set can
  become plausible.
* `battery`: every reading of a usable battery.

### Fairness

* `device`: weak fairness of the boot, of the handler's steps (nothing in it blocks) and of a render that
  shows the newest times undisturbed. The last is `Panel`'s `EventuallyShown` in the terms of `Screen`, and rests on
  the fairness of that run.
* `panel`: weak fairness of the boot, of each task's steps (FreeRTOS runs the highest task that can run; the
  guards `Scheduled` state the priorities), of `Heartbeat` (the stack signals CAN_SLEEP again and
  again, which `app` shows to lead to heartbeats) and of `PanelDone` (`wait()` has no timeout: a panel that
  stays busy for ever stops the device, and this is the assumption that it does not).
* `bindings`: the stack answers every request, well or with an error, and delivers the answer.
* `app`: weak fairness of the tasks, the stack, the alarm, the clock and CAN_SLEEP; strong fairness of
  `Initialised` and `Steered`, that is, a network that is tried again and again lets the
  device in some time. `Connects` excepts the case in which the stack refuses to start a
  commissioning, after which the code indeed never tries again.
* `time`: weak fairness of app_main, of the network (which may lose everything) and of time.
* Safety runs (`prefs`, `ota`) assume none.

## What is proved

`BinTimesProofs`, on the operators of `BinRows`: `UpdateTimesCorrect` (two nested loops of exchanges sort three dates and keep
every bin with its date; the lemma is that an exchange keeps the pairs), `DateRoundTrip` (hub's encoding and
device's decoding, modulo the word, are inverse for all dates the word can hold) and
`DayCountExact` (truncating division and 16 bits give the right count for dates fewer days ahead than
the half word less one and at most one day past: on the day after the collection the panel still says 1).

`BinTimesProofs`, on `BinTimes`: type correctness and the three safety invariants of `BinTimes`, for all
payloads and any number of commands. `RowsShowLatest` and the others are not inductive alone:
while a command is being handled nothing says that it was received after the boot, that a failed
put is remembered, or that the keys behind the current put are its own. `Handling` adds this, and
`IInv` is its conjunction with the invariants; one lemma per conjunct, one step per action.
`NeverOlderThanDurable` needs the case that the third put succeeds: `good` and `Handling` give
that the first two keys are this command's.

`DeviceProofs`: `ImplementsParts` (every behaviour of `Device` is one of `BinTimes` and one of
`Screen`, so that the theorems above hold in it), and its four safety properties. `DeviceInv` is `BinTimes`'s
`IInv` with four statements about the history: it has an entry per set of times, of commands received
(`Numbered`); without a fault no entry is newer than flash, and all keys are the command's own when it
is shown (`OriginStored`); entries only grow (`OriginGrows`); the rows are those of the last entry
(`RowsFromOrigin`). A boot preserves the last because `NeverOlderThanDurable` says what each key holds, and the
third because of the second: what flash holds is at least what was ever handed over.
`DaysCounted` joins this with `DayCountExact`: the hub's date, less the
epoch, stored, possibly mixed with another command's by a crash, added up again in 32 bits, sorted, and divided
in `updateUi`, gives the number of days.

`PanelProofs`: type correctness, `NoTornFrame`, `IdlePowerOff` and `ImplementsScreen`, for any number of sets of times.
`IInv` states what each task can rely on at each place in `render`. Who is between the switching on and the
switching off of the power will switch it off, or times out while the holder of the lock is on its way to do so
(`PowerKept`). Labels are of one set of times unless a task is writing them or the Zigbee task waits to write them
(`LabelsKept`); they may be torn when the Main task has just released the lock, and it is the priority of the
Zigbee task (`ZigbeeFirst`) that keeps the Main task from locking again before they are written anew. What has been
drawn agrees with the labels (`Drawn`), since those change only under the lock. For the refinement, no label in
use is older than what the controller or the glass holds (`Floors`: a lock timeout inherits this from the holder),
and a refresh that was robbed of its power by the other task's `panelUpdate`, so that its framebuffer is not taken,
finds in the controller's memory an image at least as new as the glass (`Forward`).

`OtaUpgradeProofs`: type correctness (with `Released`: what was collected of a patch header, and its length, is gone once it
is verified, although `patch_len` can outlive a buffer before), `ImplementsFirmware`, `CheckedIsComplete` and `NoFalseRefusal`, for any images, headers, files and block
sizes, any width of `patch_len` (but for the last) and any number of attempts. The inductive invariant is `IInv`: the running slot
is the one to boot and holds an image (`Booting`); once `ota_started` is set, what is written goes to the other slot
(`Attempt`), and from `START` on consists of units of this attempt's file (`OwnAttempt`). The last needs
an argument about the statics, because `patch_buf` and `patch_len` do come over from earlier attempts: what an
aborted attempt left in `patch_buf` is at most a patch header (`Attempt`), and a patch header is what
`esp_delta_ota_write` takes off before it feeds the engine (`OnlyDataFed`), so that nothing of it gets to the flash;
the image header that the callback held back is forgotten by `esp_delta_ota_begin` (`DeltaBeginOwn`). What
`FINISH` boots then begins with an image header of this file, so its version is the one approved
(`BootableOwn`). That an image of which all units are this version's is complete is `esp_ota_end`'s to check
(`Bootable`, external). `CheckedIsComplete` needs `Written` beside it. An image: the slot has all that was sent
but the tag, by concatenation of adjacent pieces of the file; a stale `s_tagid_received` would leave the tag in
it, but a slot that begins with a tag is refused (`WritesAppend`). A patch: the slot and the image header held back
have no more units than the engine consumed (`WriteCbCounts` up to `WritesCount`), so that when the engine
consumed an image's worth and `esp_ota_end` finds an image, nothing is before or after it.

`NoRefusal` (`NoFalseRefusal`) is of the other direction: what is sound gets through. Its hypothesis `BlocksFit` relates the three
sizes: the first block has data behind its tag, and a block not longer than what can be in `patch_buf` before the header is
complete does not wrap `patch_len` with it. With a header of 64 bytes and eight bits every block size fits; TLC evaluates it
for the sizes of the runs. `Undisturbed` is inductive with `IInv` and `Written`. Outside of an attempt the statics that
`START` leaves alone are as after a boot (`Clean`). In one, the counter is what was sent (`Received`), and a patch is in one of two states (`Progress`): its units so
far are in `patch_buf` alone, or its header was taken off and the engine's output, an image header held back or
the slot, is the image's first units (`Rebuilt`). A block continues the file where the last one ended
(`NextData`), the engine turns the body's next units into the image's (`FeedRebuilds`), and no step of `RECEIVE`, `CHECK` or `FINISH` has a
reason of its own to refuse (`BlockReceived`, `CheckUndisturbed`, `FinishFailsUndisturbed`).

`PreferencesProofs`: type correctness, `HandleMode`, `PutSurvives` and `ReadsBack`, for any set of keys and
puts. `InFlight` is what `PutSurvives` needs: nothing is promised of the keys of the operation
under way, and what waits for its commit is what NVS answers, so that a commit, which writes all
that is not yet in flash, changes no promised key. `ReadsBack` is a fact about the tables of types and
lengths, for every item that the invariant allows in the store.

`BindingsProofs`: type correctness for all tables and, when every target is an IEEE address (`OnlyIeee`), `NoDangling`, `NoGhost`,
`NoneLost` and `OnlyThoseRemoved`, for any records, every size of chunks and any number of searches. The hypothesis is the
code's: with groups `OnlyThoseRemoved` is what the run `bindings_groups` refutes. Three things carry the proof.
*The pass*: with IEEE targets an entry that looks like a device to be removed is itself to be removed (`MatchingGo`), so
that what the loop of first matches erases are exactly the positions to remove (`ErasedAreGone`); the copy without them and with a
device for each new record has the addresses of `all_records` (`UpdatedList`, `ProcessFollows`).
*The phases*: `all_records` may hold records of several tables while older searches run, and no property of it is inductive. `Newest` says
where the newest search is: its request is queued (`Asked`), its first answer is on the way (`Answered`), it collects (`Collecting`), or
it failed (`NotAnswered`). Requests and answers keep their order, so everything behind its first answer was read from the table as it is, and
nothing behind it begins again: from that chunk on `all_records` has records of this table only and, for the newest search,
those of all chunks it had (`Cover`). Any change of the table starts a search and with it a new `Asked`. *The recursions*: `At` and
`Erased` are recursive functions over positions; that they exist and what they select is proved from least
elements (`Least`, `Recursion`, `AtSelects`), since the library's induction takes an operator. `Sizes` and `Newest` hold in the instance of the run
`bindings` as invariants, too.

`TimeSyncProofs`: type correctness and `ClockTrue`, for every timeout, life of an answer and
number of boots. `IInv` adds that no time is of the future (`Bounded`), that answers
in the network are fresh, and that the semaphore, once given while `getTime` waits, stands for a fresh
answer unless one strayed in before (`GivenFresh`); one lemma per group of actions.

`AppProofs`: type correctness and the three safety invariants of `App`, for every length of the
queue, every interval and period and every width of the counter. `NoLostPress` needs `PressWakes`: an
edge may also come while the last press is looked at, and the task then goes back to its queue. `OnSchedule`
needs `BeatsCounted`: the heartbeats since the last reading are the counter's distance from the
last multiple of the period, except after a wrap, where the counter is 0 and the next
heartbeat does both. `NextModulo` (a remainder goes up by one or starts again) is the arithmetic
under it. `OneCommissioning` needs `BegunOnce`: `starts` follows `app_main`, and the Main task, which
starts the stack again when it is not connected, exists only after the connection. `HoldEnds` bounds the
polls of a held button.

The assumptions are those on the constants named in the modules (`BinRowsAssumption`,
`BinTimesAssumption`, `PanelAssumption`, `DeltaOtaAssumption`, `OtaAssumption`, `BindingsAssumption`, `DeviceAssumption`, `PreferencesAssumption`, `TimeSyncAssumption`, `AppAssumption`), which TLC evaluates in the runs.

Only model-checked: all liveness (`EventuallyShown`, `DurableIsShown`, `SearchesEnd`, `Connects`, `PressHandled`,
`HeartbeatComes`, `FetchEnds`), since the prover has no ENABLED. Every safety property of a passing run is
proved, those of `Bindings` and `NoFalseRefusal` under a hypothesis that the instance of the run satisfies (`OnlyIeee`, `BlocksFit`).

## Not modelled

* Dispatch of messages to endpoints (`handle`, `customCommand`, `attributeUpdate`, `reporting`): no
  state; the last two end in empty virtual functions.
* The creation of clusters, endpoints and the LVGL widgets: fixed lists of calls before there is
  concurrency.
* `Preferences::freeEntries`, which returns a number of NVS's.
* Dithering, SPI transport, bitmaps: no state that outlives the call.
* The tools: they run on a workstation. The layouts they write are in `DeltaOta` and `OtaUpgrade`.
* Reports and OTA queries (`report`, `requestOTA`): one message each, nothing kept. Light sleep itself.
* Calls into the Zigbee stack without its lock: what they do to it is not visible in this code.

## Plan

1. *Done*: `BinRows`, `BinTimes`, `Preferences`, `Device`, `Panel`, `OtaUpgrade` with `DeltaOta`, `App`, `Bindings` and
   `TimeSync` with their proofs; `Battery`.
2. *Proofs*: every safety property of a passing run is proved. Left are the operators of the modules in 3, and
   `OnlyThoseRemoved` for a `removeBoundDevice` that compares the kind of the address, should the code change.
3. *Modules*: dithering's error diffusion as operators (every pixel ends in a palette colour, buffers
   never indexed outside); `fill_zcl_string` at its boundary.
4. *Composition*: `Device` with `TimeSync`, so that the day on the glass is related to the clock.
