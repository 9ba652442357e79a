------------------------------- MODULE Screen --------------------------------
(***************************************************************************)
(* What the display promises, without tasks, locks or power: at any time   *)
(* the glass shows one complete set of times, possibly scrambled by a      *)
(* reset of the panel, and it only ever moves on to newer times.           *)
(***************************************************************************)
EXTENDS Naturals

VARIABLES
    latest,   \* the number of the newest times the display was given
    seen,     \* the number of the times on the glass
    intact    \* whether the last refresh ran to its end undisturbed

Init == latest = 0 /\ seen = 0 /\ intact = TRUE

NewTimes ==
    /\ latest' = latest + 1
    /\ UNCHANGED <<seen, intact>>

Refresh ==
    /\ seen' \in seen .. latest
    /\ intact' \in BOOLEAN
    /\ UNCHANGED latest

Disturb ==
    /\ intact' = FALSE
    /\ UNCHANGED <<latest, seen>>

Next == NewTimes \/ Refresh \/ Disturb

Spec == Init /\ [][Next]_<<latest, seen, intact>>
==============================================================================
