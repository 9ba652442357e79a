------------------------------- MODULE BinRows -------------------------------
(***************************************************************************)
(* The arithmetic and the ordering behind what the panel says: how the hub *)
(* encodes a collection date, how the device decodes it, how the three     *)
(* dates become three ordered rows and how a row becomes a count of days.  *)
(* There is no state here: BinTimes and Device are built on these          *)
(* operators and BinTimesProofs proves facts about them.                    *)
(***************************************************************************)
EXTENDS Integers

CONSTANTS
    Epoch,    \* OneJanuary2000, seconds from 1970 to 2000 (946684800)
    Word,     \* the number of values of a uint32_t (2^32)
    Day,      \* seconds in a day (86400)
    HalfWord  \* the number of values of a uint16_t (2^16)

ASSUME BinRowsAssumption ==
    /\ Word \in Nat \ {0}
    /\ Epoch \in 1 .. (Word - 1)
    /\ Day \in Nat \ {0}
    /\ HalfWord \in Nat \ {0}

Bins == {"BLACK", "GREEN", "BROWN"}

\* What a set_display_times_cmd_t can hold, and a uint32_t anywhere else.
Words == 0 .. (Word - 1)

Row == [bin : Bins, time : Int]

(***************************************************************************)
(* The hub's converter (bin.mjs) turns a Unix time into seconds since 2000 *)
(* and sends 0 for everything that is not after 2000.  The device adds the *)
(* offset back in uint32_t arithmetic before it widens to time_t.          *)
(***************************************************************************)
Encode(unix) == IF unix > Epoch THEN unix - Epoch ELSE 0

Decode(seconds) == (seconds + Epoch) % Word

\* A variant with one of the two swaps forgotten.
ExchangeTimesOnly(rows, i, j) ==
    IF rows[i].time > rows[j].time
      THEN [rows EXCEPT ![i].time = rows[j].time, ![j].time = rows[i].time]
      ELSE rows

(***************************************************************************)
(* DisplayDriver::updateTimes: the parallel arrays bins[] and times[] are  *)
(* one sequence of rows here; the two std::swap calls exchange two rows.   *)
(***************************************************************************)
Exchange(rows, i, j) ==
    IF rows[i].time > rows[j].time
      THEN [rows EXCEPT ![i] = rows[j], ![j] = rows[i]]
      ELSE rows

Unordered(when) ==
    << [bin |-> "BLACK", time |-> when["BLACK"]],
       [bin |-> "GREEN", time |-> when["GREEN"]],
       [bin |-> "BROWN", time |-> when["BROWN"]] >>

UpdateTimes(when) ==
    Exchange(Exchange(Exchange(Unordered(when), 1, 2), 1, 3), 2, 3)

(***************************************************************************)
(* DisplayDriver::updateUi: the count printed in a row.  C's division      *)
(* truncates towards zero and the sum is stored in a uint16_t.             *)
(***************************************************************************)
Truncate(a, b) == IF a >= 0 THEN a \div b ELSE -((-a) \div b)

\* A variant that narrows the seconds before it divides them.
DayCountNarrowFirst(when, now) == Truncate((when - now) % HalfWord, Day) + 1

DayCount(when, now) == (Truncate(when - now, Day) + 1) % HalfWord

(***************************************************************************)
(* Reference definitions, which say what the rows should be and not how    *)
(* they are computed.                                                      *)
(***************************************************************************)
Ascending(rows) == \A i, j \in 1 .. 3 : i < j => rows[i].time <= rows[j].time

\* Each bin has one row, with its own time and no other bin's.
Pairs(rows, when) ==
    \A b \in Bins :
        \E i \in 1 .. 3 :
            /\ rows[i] = [bin |-> b, time |-> when[b]]
            /\ \A j \in 1 .. 3 : rows[j].bin = b => j = i
==============================================================================
