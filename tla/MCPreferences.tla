---------------------------- MODULE MCPreferences ----------------------------
(* Preferences with a key that is put in every way, two values each, and a  *)
(* second one that is only put as the program does it, by putUInt.          *)
EXTENDS Preferences

A(kind, value) == [key |-> "a", kind |-> kind, value |-> value]
MCPuts ==
    {A(kind, value) : kind \in Kinds, value \in 0 .. 1}
        \cup {A("Bytes", 2), A("Bytes", 3), [key |-> "b", kind |-> "UInt", value |-> 1]}
==============================================================================
