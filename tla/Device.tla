-------------------------------- MODULE Device --------------------------------
(***************************************************************************)
(* From the hub's command to the glass, over crashes: BinTimes, which      *)
(* stores a command key by key and hands the rows to the display, together *)
(* with Screen, which is all that Panel promises of the drawing of them.   *)
(* Screen knows a set of times by its number; origin says which command    *)
(* each date of a set came from.                                           *)
(***************************************************************************)
EXTENDS BinTimes

CONSTANT MaxSets   \* bound: sets of times the display is given

ASSUME DeviceAssumption == MaxSets \in Nat

VARIABLES
    latest, seen, intact,   \* those of Screen
    origin,   \* auxiliary: for each set of times and bin, the command it is from
    opened    \* auxiliary: every boot so far could open the namespace

Glass == INSTANCE Screen

glass      == <<latest, seen, intact>>
history    == <<origin, opened>>
everything == <<vars, glass, history>>

-----------------------------------------------------------------------------
DeviceInit ==
    /\ Init
    /\ Glass!Init
    /\ origin = << >>
    /\ opened = TRUE

\* A set of times goes to the display; commands says where each date is from.
Give(commands) ==
    /\ latest < MaxSets
    /\ Glass!NewTimes
    /\ origin' = Append(origin, commands)

\* A variant whose binUpdate does nothing at boot.
StartWithoutTimes(open) ==
    /\ Boot(open)
    /\ opened' = (opened /\ open)
    /\ UNCHANGED <<glass, origin>>

\* A variant in which init shows the times before it has opened the namespace.
StartBeforeOpen(open) ==
    /\ pc = "off" /\ pc' = "idle"
    /\ started' = open
    /\ rows' = UpdateTimes(Decoded(Stored(FALSE)))
    /\ uptime' = 0
    /\ UNCHANGED <<nvs, next, received, stamp, good, durable, faulty>>
    /\ Give([b \in Bins |-> 0])
    /\ opened' = (opened /\ open)

\* ZigbeeSensor::init: binUpdate(true, ...) hands over what was stored.
Start(open) ==
    /\ Boot(open)
    /\ Give([b \in Bins |-> IF open THEN stamp[b] ELSE 0])
    /\ opened' = (opened /\ open)

\* A variant that shows the times first and stores them after that.
HandleShowsFirst(payload) ==
    /\ latest + 1 < MaxSets
    /\ Receive(payload)
    /\ Give([b \in Bins |-> Len(received) + 1])
    /\ UNCHANGED opened

\* The command arrives; the task may also be asked to draw what it had.
Handle(payload) ==
    /\ latest < MaxSets
    /\ Receive(payload)
    /\ UNCHANGED <<glass, history>>

\* One of the three puts.
Put ==
    /\ PutSucceeds \/ PutFails
    /\ UNCHANGED <<glass, history>>

\* binUpdate(false, ...): updateTimes; the render is a Refresh, now or later.
ShowTimes ==
    /\ Show
    /\ Give([b \in Bins |-> Len(received)])
    /\ UNCHANGED opened

\* Power is lost or the chip restarts, maybe in the middle of a refresh.
Stop ==
    /\ Crash
    /\ latest < MaxSets
    /\ Glass!Disturb \/ UNCHANGED glass
    /\ UNCHANGED history

\* Either task renders, whatever the handler is doing: a write to flash yields.
Render ==
    /\ pc # "off"
    /\ Glass!Refresh \/ Glass!Disturb
    /\ UNCHANGED <<vars, history>>

DeviceNext ==
    \/ \E open \in BOOLEAN : Start(open)
    \/ \E payload \in Payloads : Handle(payload)
    \/ Put
    \/ ShowTimes
    \/ Stop
    \/ Render

(***************************************************************************)
(* The handler runs to its end, the chip boots, and, as long as it runs,   *)
(* the newest times are drawn undisturbed in the end, which is what        *)
(* Panel's EventuallyShown says of the tasks and the panel.                *)
(***************************************************************************)
DeviceSpec ==
    /\ DeviceInit /\ [][DeviceNext]_everything
    /\ WF_everything(\E open \in BOOLEAN : Start(open))
    /\ WF_everything(Put)
    /\ WF_everything(ShowTimes)
    /\ WF_everything(Render /\ seen' = latest /\ intact')

-----------------------------------------------------------------------------
\* The command that the date of b in set n is from; 0 if from none.
From(n, b) == IF n = 0 THEN 0 ELSE origin[n][b]

Seen(b) == From(seen, b)

\* What the hub said of b in the times the display was given last.
Given(b) == LET n == From(latest, b) IN IF n = 0 THEN 0 ELSE received[n][b]

(***************************************************************************)
(* The rows the display holds are, at any time and not only between two    *)
(* commands, the dates of the commands that origin names: a mixture that a *)
(* crash left in flash is drawn bin by bin as it was stored.               *)
(***************************************************************************)
RowsFromOrigin ==
    latest > 0 => Ascending(rows) /\ Pairs(rows, Decoded([b \in Bins |-> Given(b)]))

(***************************************************************************)
(* From the hub to the digits on the panel: whenever a row is drawn, its   *)
(* number is that of the days, today included, until the date the hub was  *)
(* given for that bin, if 32 bits hold this date and 16 bits the number.   *)
(***************************************************************************)
PanelCountsDays ==
    \A i \in 1 .. 3, now \in Words :
        LET date == Epoch + Given(rows[i].bin)
            days == DayCount(rows[i].time, now)
        IN  /\ latest > 0
            /\ date < Word
            /\ 0 <= date - now /\ date - now < (HalfWord - 1) * Day
            => (days - 1) * Day <= date - now /\ date - now < days * Day

(***************************************************************************)
(* The display is given what it draws only after it is in flash: as long   *)
(* as no put has failed, no date can be seen that a restart would take     *)
(* back, not even when the handler is cut off between two keys.            *)
(***************************************************************************)
SeenIsStored == ~faulty => \A b \in Bins : Seen(b) <= stamp[b]

(***************************************************************************)
(* As long as no put and no begin has failed, no bin's date on the glass   *)
(* goes back to an earlier command's: restarts included, which draw what   *)
(* is in flash, and a command cut off, of which only a part is drawn.      *)
(***************************************************************************)
SeenNeverBack ==
    [][~faulty' /\ opened' => \A b \in Bins : Seen(b)' >= Seen(b)]_everything

(***************************************************************************)
(* A command of which all keys were stored is on the glass in the end, or  *)
(* a later one is, bin by bin: also when the handler was cut off before    *)
(* it could show it.  (Not if a boot could not open the namespace.)        *)
(***************************************************************************)
DurableIsShown ==
    \A n \in 1 .. MaxCommands :
        durable = n ~> \/ intact /\ \A b \in Bins : Seen(b) >= n
                       \/ ~opened

(***************************************************************************)
(* What makes the safety properties inductive: origin has an entry for     *)
(* every set of times, of commands that were received; without a fault the *)
(* entries only grow, never beyond what flash holds, which is all of a     *)
(* command by the time it is shown.                                        *)
(***************************************************************************)
Numbered ==
    /\ latest \in Nat /\ seen \in 0 .. latest /\ intact \in BOOLEAN
    /\ origin \in Seq([Bins -> Nat]) /\ Len(origin) = latest
    /\ opened \in BOOLEAN
    /\ \A n \in 1 .. latest, b \in Bins : origin[n][b] <= Len(received)

OriginStored ==
    ~faulty => /\ \A n \in 1 .. latest, b \in Bins : origin[n][b] <= stamp[b]
               /\ pc = "show" => \A b \in Bins : stamp[b] = Len(received)

OriginGrows ==
    ~faulty /\ opened =>
        \A m, n \in 1 .. latest, b \in Bins : m <= n => origin[m][b] <= origin[n][b]

DeviceInv == IInv /\ Numbered /\ OriginStored /\ OriginGrows /\ RowsFromOrigin
==============================================================================
