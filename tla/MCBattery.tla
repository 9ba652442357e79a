------------------------------ MODULE MCBattery ------------------------------
(* Batteries between 3.5 V and 4.2 V behind a divider by three.            *)
EXTENDS Battery
MCReadings == 1167 .. 1400
==============================================================================
