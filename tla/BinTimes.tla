------------------------------ MODULE BinTimes -------------------------------
(***************************************************************************)
(* The path of the collection times: the custom Zigbee command, the three  *)
(* writes to flash it causes, the rows handed to the display, and the      *)
(* power failure or restart that can cut this path anywhere.               *)
(*                                                                         *)
(* ZigbeeSensor::zbCustomCommand runs in the Zigbee task from its first to *)
(* its last line; each prefs.putUInt is a step of its own here because the *)
(* flash is what survives a crash between two of them.  Updating the rows  *)
(* is one step: the Zigbee task is the highest task that reads or writes   *)
(* them and does not block in updateTimes.  (What a lower task that is in  *)
(* the middle of drawing sees of it is the subject of Panel.)              *)
(***************************************************************************)
EXTENDS BinRows, Sequences

CONSTANTS
    Payloads,     \* the contents of the commands the hub sends
    MaxCommands   \* bound: commands accepted in one behaviour

ASSUME BinTimesAssumption ==
    /\ Payloads \subseteq [Bins -> Words]
    /\ MaxCommands \in Nat

\* Variants of the order: a key forgotten, and the keys the other way round.
PutOrderGreenTwice == <<"BLACK", "GREEN", "GREEN">>
PutOrderReversed == <<"BROWN", "GREEN", "BLACK">>

\* The order of the three putUInt calls.
PutOrder == <<"BLACK", "GREEN", "BROWN">>

Unset == -1   \* a key that was never written

VARIABLES
    nvs,       \* the three keys of the "config" namespace in flash
    started,   \* Preferences::_started, set by begin()
    pc,        \* "off", "idle", "put" or "show"
    next,      \* index in PutOrder of the next putUInt
    rows,      \* DisplayDriver's bins[] and times[]
    received,  \* auxiliary: the payloads accepted so far, oldest first
    uptime,    \* auxiliary: how many of them since the last boot
    stamp,     \* auxiliary: which command wrote each key (0: none)
    good,      \* auxiliary: this command's puts have all succeeded so far
    durable,   \* auxiliary: the last command of which all puts succeeded
    faulty     \* auxiliary: some put has failed, ever

device == <<nvs, started, pc, next, rows>>
aux    == <<received, uptime, stamp, good, durable, faulty>>
vars   == <<nvs, started, pc, next, rows, received, uptime, stamp, good,
            durable, faulty>>

-----------------------------------------------------------------------------
\* The message that sets the times; every other one returns at line 131.
Payload == received[Len(received)]

\* Preferences::getUInt(key, 0), which gives the default when begin() failed.
GetUInt(b, open) == IF open /\ nvs[b] # Unset THEN nvs[b] ELSE 0

Decoded(words) == [b \in Bins |-> Decode(words[b])]

\* A variant of the boot that reads one key twice.
StoredBlackTwice(open) == [b \in Bins |-> GetUInt(IF b = "GREEN" THEN "BLACK" ELSE b, open)]

\* What the boot's three reads give.
Stored(open) == [b \in Bins |-> GetUInt(b, open)]

-----------------------------------------------------------------------------
\* A device that was never configured and has no power yet.
Init ==
    /\ nvs = [b \in Bins |-> Unset]
    /\ started = FALSE
    /\ pc = "off"
    /\ next = 1
    /\ rows = UpdateTimes([b \in Bins |-> 0])
    /\ received = << >>
    /\ uptime = 0
    /\ stamp = [b \in Bins |-> 0]
    /\ good = TRUE
    /\ durable = 0
    /\ faulty = FALSE

(***************************************************************************)
(* ZigbeeSensor::init: open the namespace, which may fail, read the keys,  *)
(* hand the rows to the display with boot = true (no render).              *)
(***************************************************************************)
Boot(open) ==
    /\ pc = "off"
    /\ pc' = "idle"
    /\ started' = open
    /\ rows' = UpdateTimes(Decoded(Stored(open)))
    /\ uptime' = 0
    /\ UNCHANGED <<nvs, next, received, stamp, good, durable, faulty>>

\* zbCustomCommand: a well-formed CMD_SET_DISPLAY_TIMES arrives.
Receive(payload) ==
    /\ pc = "idle"
    /\ Len(received) < MaxCommands
    /\ pc' = "put"
    /\ next' = 1
    /\ received' = Append(received, payload)
    /\ uptime' = uptime + 1
    /\ good' = TRUE
    /\ UNCHANGED <<nvs, started, rows, stamp, durable, faulty>>

\* A variant with one put too many.
NextPutTooMany ==
    IF next <= Len(PutOrder)
      THEN next' = next + 1 /\ pc' = "put"
      ELSE next' = 1 /\ pc' = "show"

\* zbCustomCommand goes on to the next put whatever the last one returned.
NextPut ==
    IF next < Len(PutOrder)
      THEN next' = next + 1 /\ pc' = "put"
      ELSE next' = 1 /\ pc' = "show"

\* Flash holds the new value of the key being put.
Write ==
    LET b == PutOrder[next]
    IN  /\ nvs' = [nvs EXCEPT ![b] = Payload[b]]
        /\ stamp' = [stamp EXCEPT ![b] = Len(received)]

\* Preferences::putUInt returns 4: the value is set and committed.
PutSucceeds ==
    /\ pc = "put"
    /\ started
    /\ Write
    /\ NextPut
    /\ durable' = IF good /\ next = Len(PutOrder) THEN Len(received) ELSE durable
    /\ UNCHANGED <<started, rows, received, uptime, good, faulty>>

(***************************************************************************)
(* Preferences::putUInt returns 0, which the caller ignores: begin() had   *)
(* failed, nvs_set_u32 failed, or nvs_commit failed after the value was    *)
(* set, in which case flash may hold either value.                         *)
(***************************************************************************)
PutFails ==
    /\ pc = "put"
    /\ \/ UNCHANGED <<nvs, stamp>>
       \/ started /\ Write
    /\ NextPut
    /\ good' = FALSE
    /\ faulty' = TRUE
    /\ UNCHANGED <<started, rows, received, uptime, durable>>

\* _on_bin_update(false, ...): the rows show the command, stored or not.
Show ==
    /\ pc = "show"
    /\ pc' = "idle"
    /\ rows' = UpdateTimes(Decoded(Payload))
    /\ UNCHANGED <<nvs, started, next, received, uptime, stamp, good, durable, faulty>>

(***************************************************************************)
(* Power is lost, or something calls esp_restart.  A put that was being    *)
(* executed may or may not have reached the flash.                         *)
(***************************************************************************)
Crash ==
    /\ pc # "off"
    /\ \/ UNCHANGED <<nvs, stamp>>
       \/ pc = "put" /\ started /\ Write
    /\ pc' = "off"
    /\ started' = FALSE
    /\ next' = 1
    /\ UNCHANGED <<rows, received, uptime, good, durable, faulty>>

Next ==
    \/ \E open \in BOOLEAN : Boot(open)
    \/ \E payload \in Payloads : Receive(payload)
    \/ PutSucceeds
    \/ PutFails
    \/ Show
    \/ Crash

Spec == Init /\ [][Next]_vars

-----------------------------------------------------------------------------
TypeOK ==
    /\ nvs \in [Bins -> Words \cup {Unset}]
    /\ started \in BOOLEAN
    /\ pc \in {"off", "idle", "put", "show"}
    /\ next \in 1 .. 3
    /\ rows \in [1 .. 3 -> Row]
    /\ received \in Seq(Payloads)
    /\ uptime \in 0 .. Len(received)
    /\ stamp \in [Bins -> 0 .. Len(received)]
    /\ good \in BOOLEAN
    /\ durable \in 0 .. Len(received)
    /\ faulty \in BOOLEAN

(***************************************************************************)
(* While the device runs and no command is being handled, the three rows   *)
(* are in date order and pair every bin with its own date: that of the     *)
(* last command since boot, whether or not it could be stored, and before  *)
(* the first one that of the flash.                                        *)
(***************************************************************************)
RowsShowLatest ==
    pc = "idle" =>
        /\ Ascending(rows)
        /\ Pairs(rows, Decoded(IF uptime > 0 THEN Payload ELSE Stored(started)))

(***************************************************************************)
(* A restart never loses a command that was stored completely: every key   *)
(* in flash was written by the last such command or by a later one, and    *)
(* holds what that command said of its bin.                                *)
(***************************************************************************)
NeverOlderThanDurable ==
    \A b \in Bins :
        /\ stamp[b] >= durable
        /\ nvs[b] = IF stamp[b] = 0 THEN Unset ELSE received[stamp[b]][b]

(***************************************************************************)
(* The keys are committed one by one, so a crash leaves a mixture of two   *)
(* or more commands in flash.  As long as no put fails the mixture is      *)
(* always ordered: black is never older than green, nor green than brown.  *)
(***************************************************************************)
MixtureIsOrdered ==
    ~faulty => /\ stamp["BLACK"] >= stamp["GREEN"]
               /\ stamp["GREEN"] >= stamp["BROWN"]

(***************************************************************************)
(* What makes the invariants inductive: a command is being handled only    *)
(* after it was received, a failed put is remembered, and as long as this  *)
(* command's puts succeed the keys behind us are its own.                  *)
(***************************************************************************)
Handling ==
    /\ pc \in {"put", "show"} => uptime > 0
    /\ ~good => faulty
    /\ pc = "put" /\ good => \A i \in 1 .. 3 : i < next => stamp[PutOrder[i]] = Len(received)

IInv == TypeOK /\ Handling /\ RowsShowLatest /\ NeverOlderThanDurable /\ MixtureIsOrdered
==============================================================================
