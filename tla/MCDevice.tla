------------------------------- MODULE MCDevice -------------------------------
(* Device with the dates of a small calendar: a word has 8 values, the      *)
(* epoch is 3, so a payload of 5 or more wraps around when it is decoded.   *)
EXTENDS Device

Triple(black, green, brown) ==
    [b \in Bins |-> CASE b = "BLACK" -> black
                      [] b = "GREEN" -> green
                      [] b = "BROWN" -> brown]

\* Reversed with a tie, and with a date that wraps around.
MCPayloads == {Triple(3, 3, 1), Triple(0, 7, 4)}
==============================================================================
