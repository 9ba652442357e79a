--------------------------- MODULE BinTimesProofs ----------------------------
(***************************************************************************)
(* BinTimes for every payload, every number of commands and every word     *)
(* size: what the operators of BinRows compute, and the proof that the     *)
(* invariants hold in all reachable states.                                *)
(***************************************************************************)
EXTENDS BinTimes, SequenceTheorems, TLAPS

-----------------------------------------------------------------------------
(* Facts about the pure operators of BinRows, for every input.              *)

Index == 1 .. 3

(***************************************************************************)
(* The two std::swap calls of updateTimes (display.cpp): exchanging two    *)
(* rows keeps every bin in exactly one row, with its own time.             *)
(***************************************************************************)
LEMMA ExchangeKeepsPairs ==
    ASSUME NEW when \in [Bins -> Int],
           NEW table \in [Index -> Row], Pairs(table, when),
           NEW i \in Index, NEW j \in Index, i # j
    PROVE  /\ Exchange(table, i, j) \in [Index -> Row]
           /\ Pairs(Exchange(table, i, j), when)
<1> DEFINE r == Exchange(table, i, j)
<1>1. CASE table[i].time > table[j].time
  <2>1. r = [table EXCEPT ![i] = table[j], ![j] = table[i]]
      BY <1>1 DEF Exchange
  <2>2. r \in [Index -> Row] /\ r[i] = table[j] /\ r[j] = table[i]
      BY <2>1
  <2>3. \A l \in Index \ {i, j} : r[l] = table[l]
      BY <2>1
  <2>4. ASSUME NEW b \in Bins
        PROVE  \E m \in Index : /\ r[m] = [bin |-> b, time |-> when[b]]
                                /\ \A l \in Index : r[l].bin = b => l = m
    <3> HIDE DEF r
    <3>1. PICK p \in Index : /\ table[p] = [bin |-> b, time |-> when[b]]
                             /\ \A l \in Index : table[l].bin = b => l = p
        BY DEF Pairs, Index
    <3>2. CASE p = i
        BY <2>2, <2>3, <3>1, <3>2
    <3>3. CASE p = j
        BY <2>2, <2>3, <3>1, <3>3
    <3>4. CASE p \notin {i, j}
        BY <2>2, <2>3, <3>1, <3>4
    <3>5. QED
        BY <3>2, <3>3, <3>4
  <2>5. QED
      BY <2>2, <2>4 DEF Pairs, Index
<1>2. CASE ~(table[i].time > table[j].time)
    BY <1>2 DEF Exchange
<1>3. QED
    BY <1>1, <1>2

(***************************************************************************)
(* updateTimes (display.cpp): the parallel arrays bins[] and times[] never *)
(* get out of step.  For all times the rows end in date order, every bin   *)
(* has exactly one row, and that row has the bin's own time.               *)
(***************************************************************************)
THEOREM UpdateTimesCorrect ==
    ASSUME NEW when \in [Bins -> Int]
    PROVE  /\ UpdateTimes(when) \in [1 .. 3 -> Row]
           /\ Ascending(UpdateTimes(when))
           /\ Pairs(UpdateTimes(when), when)
<1> DEFINE r0 == Unordered(when)
           r1 == Exchange(r0, 1, 2)
           r2 == Exchange(r1, 1, 3)
           r3 == Exchange(r2, 2, 3)
<1>1. r0 \in [Index -> Row] /\ Pairs(r0, when)
    BY DEF Unordered, Pairs, Bins, Row, Index
<1> HIDE DEF r0
<1>2. r1 \in [Index -> Row] /\ Pairs(r1, when)
    BY <1>1, ExchangeKeepsPairs DEF Index
<1>3. r1[1].time <= r1[2].time
    BY <1>1 DEF Exchange, Row, Index
<1> HIDE DEF r1
<1>4. r2 \in [Index -> Row] /\ Pairs(r2, when)
    BY <1>2, ExchangeKeepsPairs DEF Index
<1>5. r2[1].time <= r2[2].time /\ r2[1].time <= r2[3].time
    BY <1>2, <1>3 DEF Exchange, Row, Index
<1> HIDE DEF r2
<1>6. r3 \in [Index -> Row] /\ Pairs(r3, when)
    BY <1>4, ExchangeKeepsPairs DEF Index
<1>7. r3[1].time <= r3[2].time /\ r3[2].time <= r3[3].time
    BY <1>4, <1>5 DEF Exchange, Row, Index
<1>8. UpdateTimes(when) = r3
    BY DEF UpdateTimes, r0, r1, r2
<1> HIDE DEF r3
<1>9. Ascending(r3)
    BY <1>6, <1>7 DEF Ascending, Row, Index
<1>10. QED
    BY <1>6, <1>8, <1>9 DEF Index

-----------------------------------------------------------------------------
\* Arithmetic in the range of a word loses nothing.
LEMMA ModuloInRange ==
    ASSUME NEW m \in Nat \ {0}, NEW n \in 0 .. (m - 1)
    PROVE  n % m = n
    OBVIOUS

LEMMA ModuloIsWord ==
    ASSUME NEW m \in Nat \ {0}, NEW n \in Int
    PROVE  n % m \in 0 .. (m - 1)
    OBVIOUS

(***************************************************************************)
(* bin.mjs and zbCustomCommand (sensor.cpp): a date after the epoch that   *)
(* fits a uint32_t is decoded to exactly the date the hub was given; every *)
(* earlier date, and an absent one, comes out as the epoch itself.         *)
(***************************************************************************)
THEOREM DateRoundTrip ==
    ASSUME NEW unix \in Int, unix < Word
    PROVE  /\ Encode(unix) \in Words
           /\ Decode(Encode(unix)) = IF unix > Epoch THEN unix ELSE Epoch
<1>1. Word \in Nat \ {0} /\ Epoch \in 1 .. (Word - 1)
    BY BinRowsAssumption
<1>2. CASE unix > Epoch
  <2>1. Encode(unix) = unix - Epoch /\ unix \in 0 .. (Word - 1)
      BY <1>1, <1>2 DEF Encode
  <2>2. Decode(Encode(unix)) = unix % Word
      BY <1>1, <2>1 DEF Decode
  <2>3. QED
      BY <1>1, <1>2, <2>1, <2>2, ModuloInRange DEF Words
<1>3. CASE ~(unix > Epoch)
  <2>1. Encode(unix) = 0
      BY <1>3 DEF Encode
  <2>2. Decode(Encode(unix)) = Epoch % Word
      BY <1>1, <2>1 DEF Decode
  <2>3. QED
      BY <1>1, <1>3, <2>1, <2>2, ModuloInRange DEF Words
<1>4. QED
    BY <1>2, <1>3

\* Whatever a command or the flash holds, the decoded date is a word.
LEMMA DecodeIsWord ==
    ASSUME NEW seconds \in Words
    PROVE  Decode(seconds) \in Words
    BY BinRowsAssumption, ModuloIsWord DEF Decode, Words

-----------------------------------------------------------------------------
\* The two bounds that define the quotient of a division.
LEMMA Quotient ==
    ASSUME NEW b \in Nat \ {0}, NEW a \in Nat
    PROVE  /\ a \div b \in Nat
           /\ (a \div b) * b <= a
           /\ a < ((a \div b) + 1) * b
    OBVIOUS

(***************************************************************************)
(* updateUi (display.cpp): for a collection that is still to come, and not *)
(* further away than a uint16_t counts, the number printed is the number   *)
(* of begun days that remain: 1 during the last day, 2 on the day before.  *)
(* Through the whole first day after the collection it still prints 1.     *)
(***************************************************************************)
THEOREM DayCountExact ==
    ASSUME NEW when \in Int, NEW now \in Int,
           when - now > -Day, when - now < (HalfWord - 1) * Day
    PROVE  /\ when >= now =>
                /\ (DayCount(when, now) - 1) * Day <= when - now
                /\ when - now < DayCount(when, now) * Day
           /\ when < now => DayCount(when, now) = 1 % HalfWord
<1>1. Day \in Nat \ {0} /\ HalfWord \in Nat \ {0}
    BY BinRowsAssumption
<1>2. CASE when >= now
  <2> DEFINE q == (when - now) \div Day
  <2>1. q \in Nat /\ q * Day <= when - now /\ when - now < (q + 1) * Day
      BY <1>1, <1>2, Quotient
  <2>2. Truncate(when - now, Day) = q
      BY <1>2 DEF Truncate
  <2> HIDE DEF q
  <2>3. q * Day < (HalfWord - 1) * Day
      BY <1>1, <2>1
  <2>4. q < HalfWord - 1
      BY <1>1, <2>1, <2>3
  <2>5. DayCount(when, now) = q + 1
      BY <1>1, <2>1, <2>2, <2>4, ModuloInRange DEF DayCount
  <2>6. QED
      BY <1>2, <2>1, <2>5
<1>3. CASE when < now
  <2>1. now - when \in Nat /\ now - when < Day
      BY <1>1, <1>3
  <2>2. (now - when) \div Day = 0
      BY <1>1, <2>1, Quotient
  <2>3. Truncate(when - now, Day) = 0
      BY <1>3, <2>1, <2>2 DEF Truncate
  <2>4. QED
      BY <1>3, <2>3 DEF DayCount
<1>4. QED
    BY <1>2, <1>3

-----------------------------------------------------------------------------
(* The invariants of BinTimes.                                             *)

\* The history grows at its end: what is in it stays where it is.
LEMMA AppendKeeps ==
    ASSUME NEW payload \in Payloads, received \in Seq(Payloads)
    PROVE  LET r == Append(received, payload)
           IN  /\ r \in Seq(Payloads)
               /\ Len(r) = Len(received) + 1
               /\ \A n \in 1 .. Len(received) : r[n] = received[n]
    BY AppendProperties

\* The last accepted payload exists once one was accepted, and holds words.
LEMMA PayloadType ==
    ASSUME TypeOK, uptime > 0
    PROVE  /\ Len(received) \in Nat \ {0}
           /\ Payload \in [Bins -> Words]
<1>1. received \in Seq(Payloads) /\ uptime \in 0 .. Len(received)
    BY DEF TypeOK
<1>2. Len(received) \in Nat
    BY <1>1, LenProperties
<1>3. Len(received) \in 1 .. Len(received)
    BY <1>1, <1>2
<1>4. Payload \in Payloads
    BY <1>1, <1>3, ElementOfSeq DEF Payload
<1>5. QED
    BY <1>2, <1>3, <1>4, BinTimesAssumption

\* The keys read back, and what the display is given, are of the right type.
LEMMA DecodedType ==
    ASSUME NEW words \in [Bins -> Words]
    PROVE  /\ Decoded(words) \in [Bins -> Int]
           /\ UpdateTimes(Decoded(words)) \in [1 .. 3 -> Row]
           /\ Ascending(UpdateTimes(Decoded(words)))
           /\ Pairs(UpdateTimes(Decoded(words)), Decoded(words))
<1>1. Decoded(words) \in [Bins -> Int]
    BY DecodeIsWord DEF Decoded, Words
<1>2. QED
    BY <1>1, UpdateTimesCorrect

LEMMA StoredType ==
    ASSUME TypeOK, NEW open \in BOOLEAN
    PROVE  Stored(open) \in [Bins -> Words]
<1>1. 0 \in Words
    BY BinRowsAssumption DEF Words
<1>2. QED
    BY <1>1 DEF Stored, GetUInt, TypeOK

LEMMA OrderType == \A i \in 1 .. 3 : PutOrder[i] \in Bins
    BY DEF PutOrder, Bins

-----------------------------------------------------------------------------
\* One putUInt, whichever way it ends, keeps the types of flash and stamps.
LEMMA WriteType ==
    ASSUME TypeOK, uptime > 0, Write
    PROVE  /\ nvs' \in [Bins -> Words \cup {Unset}]
           /\ stamp' \in [Bins -> 0 .. Len(received)]
<1>1. PutOrder[next] \in Bins
    BY OrderType DEF TypeOK
<1>2. Payload[PutOrder[next]] \in Words /\ Len(received) \in 0 .. Len(received)
    BY <1>1, PayloadType
<1>3. QED
    BY <1>1, <1>2 DEF Write, TypeOK

LEMMA NextPutType ==
    ASSUME TypeOK, NextPut
    PROVE  next' \in 1 .. 3 /\ pc' \in {"put", "show"}
    BY DEF TypeOK, NextPut, PutOrder

LEMMA InitType == Init => TypeOK
<1> SUFFICES ASSUME Init PROVE TypeOK
    OBVIOUS
<1>1. received \in Seq(Payloads) /\ Len(received) = 0
    BY EmptySeq DEF Init
<1>2. rows \in [1 .. 3 -> Row]
  <2>1. [b \in Bins |-> 0] \in [Bins -> Int]
      OBVIOUS
  <2>2. QED
      BY <2>1, UpdateTimesCorrect DEF Init
<1>3. started \in BOOLEAN /\ good \in BOOLEAN /\ faulty \in BOOLEAN
    BY Zenon DEF Init
<1>4. /\ nvs \in [Bins -> Words \cup {Unset}]
      /\ stamp \in [Bins -> 0 .. Len(received)]
      /\ uptime \in 0 .. Len(received)
      /\ durable \in 0 .. Len(received)
      /\ next \in 1 .. 3
    BY <1>1 DEF Init
<1>5. pc \in {"off", "idle", "put", "show"}
    BY DEF Init
<1>6. QED
    BY <1>1, <1>2, <1>3, <1>4, <1>5 DEF TypeOK

LEMMA StepType == TypeOK /\ Handling /\ [Next]_vars => TypeOK'
<1> SUFFICES ASSUME TypeOK, Handling, [Next]_vars PROVE TypeOK'
    OBVIOUS
<1>0. Len(received) \in Nat
    BY LenProperties DEF TypeOK
<1>1. ASSUME NEW open \in BOOLEAN, Boot(open) PROVE TypeOK'
    BY <1>0, <1>1, StoredType, DecodedType DEF Boot, TypeOK
<1>2. ASSUME NEW payload \in Payloads, Receive(payload) PROVE TypeOK'
    BY <1>0, <1>2, AppendKeeps DEF Receive, TypeOK
<1>3. CASE PutSucceeds
    BY <1>0, <1>3, WriteType, NextPutType DEF PutSucceeds, Handling, TypeOK
<1>4. CASE PutFails
    BY <1>0, <1>4, WriteType, NextPutType DEF PutFails, Handling, TypeOK
<1>5. CASE Show
    BY <1>0, <1>5, PayloadType, DecodedType DEF Show, Handling, TypeOK
<1>6. CASE Crash
  <2>1. nvs' \in [Bins -> Words \cup {Unset}] /\ stamp' \in [Bins -> 0 .. Len(received)]
      BY <1>6, WriteType DEF Crash, Handling, TypeOK
  <2>2. started' \in BOOLEAN /\ good' \in BOOLEAN /\ faulty' \in BOOLEAN
      BY <1>6, Zenon DEF Crash, TypeOK
  <2>3. QED
      BY <1>6, <2>1, <2>2 DEF Crash, TypeOK
<1>7. CASE UNCHANGED vars
    BY <1>7 DEF vars, TypeOK
<1>8. QED
    BY <1>1, <1>2, <1>3, <1>4, <1>5, <1>6, <1>7 DEF Next

-----------------------------------------------------------------------------
\* A putUInt by a handled command stamps its key with that command.
LEMMA WriteStamps ==
    ASSUME TypeOK, uptime > 0, Write
    PROVE  /\ stamp'[PutOrder[next]] = Len(received)
           /\ nvs'[PutOrder[next]] = received[Len(received)][PutOrder[next]]
           /\ \A b \in Bins \ {PutOrder[next]} : stamp'[b] = stamp[b] /\ nvs'[b] = nvs[b]
    BY OrderType DEF Write, TypeOK, Payload

LEMMA StepHandling == TypeOK /\ Handling /\ [Next]_vars => Handling'
<1> SUFFICES ASSUME TypeOK, Handling, [Next]_vars PROVE Handling'
    OBVIOUS
<1>0. Len(received) \in Nat /\ uptime \in Nat
    BY LenProperties DEF TypeOK
<1>1. ASSUME NEW open \in BOOLEAN, Boot(open) PROVE Handling'
    BY <1>1 DEF Boot, Handling
<1>2. ASSUME NEW payload \in Payloads, Receive(payload) PROVE Handling'
    BY <1>0, <1>2 DEF Receive, Handling
<1>3. CASE PutSucceeds
  <2>1. pc' = "put" /\ good' => \A i \in 1 .. 3 : i < next' => stamp'[PutOrder[i]] = Len(received)
    <3> SUFFICES ASSUME pc' = "put", good, NEW i \in 1 .. 3, i < next'
                 PROVE  stamp'[PutOrder[i]] = Len(received)
        BY <1>3 DEF PutSucceeds
    <3>1. next \in 1 .. 3 /\ next' = next + 1
        BY <1>3 DEF PutSucceeds, NextPut, TypeOK, PutOrder
    <3>2. PutOrder[i] = PutOrder[next] => stamp'[PutOrder[i]] = Len(received)
        BY <1>3, WriteStamps DEF PutSucceeds, Handling
    <3>3. PutOrder[i] # PutOrder[next] =>
            /\ i < next
            /\ stamp'[PutOrder[i]] = stamp[PutOrder[i]]
        BY <1>3, <3>1, WriteStamps, OrderType DEF PutSucceeds, Handling
    <3>4. QED
        BY <1>3, <3>2, <3>3 DEF PutSucceeds, Handling
  <2>2. QED
      BY <1>3, <2>1 DEF PutSucceeds, Handling
<1>4. CASE PutFails
    BY <1>4 DEF PutFails, Handling
<1>5. CASE Show
    BY <1>5 DEF Show, Handling
<1>6. CASE Crash
    BY <1>6 DEF Crash, Handling
<1>7. CASE UNCHANGED vars
    BY <1>7 DEF vars, Handling
<1>8. QED
    BY <1>1, <1>2, <1>3, <1>4, <1>5, <1>6, <1>7 DEF Next

LEMMA StepRows == TypeOK /\ Handling /\ RowsShowLatest /\ [Next]_vars => RowsShowLatest'
<1> SUFFICES ASSUME TypeOK, Handling, RowsShowLatest, [Next]_vars PROVE RowsShowLatest'
    OBVIOUS
<1>1. ASSUME NEW open \in BOOLEAN, Boot(open) PROVE RowsShowLatest'
  <2>1. Stored(open) \in [Bins -> Words]
      BY StoredType
  <2>2. rows' = UpdateTimes(Decoded(Stored(open))) /\ uptime' = 0
      BY <1>1 DEF Boot
  <2>3. Stored(started)' = Stored(open)
      BY <1>1 DEF Boot, Stored, GetUInt
  <2>4. Decoded(Stored(started))' = Decoded(Stored(open))
      BY <2>3 DEF Decoded
  <2>5. QED
      BY <2>1, <2>2, <2>4, DecodedType DEF RowsShowLatest, Decoded
<1>2. ASSUME NEW payload \in Payloads, Receive(payload) PROVE RowsShowLatest'
    BY <1>2 DEF Receive, RowsShowLatest
<1>3. CASE PutSucceeds \/ PutFails
    BY <1>3, NextPutType DEF PutSucceeds, PutFails, RowsShowLatest
<1>4. CASE Show
  <2>1. uptime > 0 /\ Payload \in [Bins -> Words]
      BY <1>4, PayloadType DEF Show, Handling
  <2>2. rows' = UpdateTimes(Decoded(Payload)) /\ uptime' = uptime /\ received' = received
      BY <1>4 DEF Show
  <2>3. QED
      BY <2>1, <2>2, DecodedType DEF RowsShowLatest, Decoded, Payload
<1>5. CASE Crash
    BY <1>5 DEF Crash, RowsShowLatest
<1>6. CASE UNCHANGED vars
    BY <1>6 DEF vars, RowsShowLatest, Decoded, Payload, Stored, GetUInt
<1>7. QED
    BY <1>1, <1>2, <1>3, <1>4, <1>5, <1>6 DEF Next

\* One put, complete or not, never loses a command that was stored completely.
LEMMA WriteKeepsDurable ==
    ASSUME TypeOK, NeverOlderThanDurable, uptime > 0, Write, received' = received,
           durable' \in {durable, Len(received)},
           durable' # durable => \A b \in Bins \ {PutOrder[next]} : stamp[b] = Len(received)
    PROVE  NeverOlderThanDurable'
<1>1. Len(received) \in Nat \ {0} /\ durable \in 0 .. Len(received)
    BY PayloadType DEF TypeOK
<1>2. ASSUME NEW b \in Bins
      PROVE  /\ stamp'[b] >= durable'
             /\ nvs'[b] = IF stamp'[b] = 0 THEN Unset ELSE received[stamp'[b]][b]
  <2>1. CASE b = PutOrder[next]
      BY <1>1, <2>1, WriteStamps
  <2>2. CASE b # PutOrder[next]
      BY <1>1, <2>2, WriteStamps DEF NeverOlderThanDurable
  <2>3. QED
      BY <2>1, <2>2
<1>3. QED
    BY <1>2 DEF NeverOlderThanDurable

LEMMA StepDurable ==
    TypeOK /\ Handling /\ NeverOlderThanDurable /\ [Next]_vars => NeverOlderThanDurable'
<1> SUFFICES ASSUME TypeOK, Handling, NeverOlderThanDurable, [Next]_vars
             PROVE  NeverOlderThanDurable'
    OBVIOUS
<1>1. ASSUME NEW open \in BOOLEAN, Boot(open) PROVE NeverOlderThanDurable'
    BY <1>1 DEF Boot, NeverOlderThanDurable
<1>2. ASSUME NEW payload \in Payloads, Receive(payload) PROVE NeverOlderThanDurable'
  <2>1. \A n \in 1 .. Len(received) : received'[n] = received[n]
      BY <1>2, AppendKeeps DEF Receive, TypeOK
  <2>2. \A b \in Bins : stamp[b] = 0 \/ stamp[b] \in 1 .. Len(received)
      BY LenProperties DEF TypeOK
  <2>3. QED
      BY <1>2, <2>1, <2>2 DEF Receive, NeverOlderThanDurable
<1>3. CASE PutSucceeds
  <2>1. uptime > 0 /\ Write /\ received' = received /\ durable' \in {durable, Len(received)}
      BY <1>3 DEF PutSucceeds, Handling
  <2>2. ASSUME durable' # durable, NEW b \in Bins \ {PutOrder[next]}
        PROVE  stamp[b] = Len(received)
    <3>1. good /\ next = 3
        BY <1>3, <2>2 DEF PutSucceeds, PutOrder
    <3>2. stamp[PutOrder[1]] = Len(received) /\ stamp[PutOrder[2]] = Len(received)
        BY <1>3, <3>1 DEF PutSucceeds, Handling
    <3>3. b = PutOrder[1] \/ b = PutOrder[2]
        BY <2>2, <3>1 DEF Bins, PutOrder
    <3>4. QED
        BY <3>2, <3>3
  <2>3. QED
      BY <2>1, <2>2, WriteKeepsDurable
<1>4. CASE PutFails
  <2>1. CASE UNCHANGED <<nvs, stamp>>
      BY <1>4, <2>1 DEF PutFails, NeverOlderThanDurable
  <2>2. CASE Write
      BY <1>4, <2>2, WriteKeepsDurable DEF PutFails, Handling
  <2>3. QED
      BY <1>4, <2>1, <2>2 DEF PutFails
<1>5. CASE Show
    BY <1>5 DEF Show, NeverOlderThanDurable
<1>6. CASE Crash
  <2>1. CASE UNCHANGED <<nvs, stamp>>
      BY <1>6, <2>1 DEF Crash, NeverOlderThanDurable
  <2>2. CASE pc = "put" /\ Write
      BY <1>6, <2>2, WriteKeepsDurable DEF Crash, Handling
  <2>3. QED
      BY <1>6, <2>1, <2>2 DEF Crash
<1>7. CASE UNCHANGED vars
    BY <1>7 DEF vars, NeverOlderThanDurable
<1>8. QED
    BY <1>1, <1>2, <1>3, <1>4, <1>5, <1>6, <1>7 DEF Next

-----------------------------------------------------------------------------
\* Writing the next key in order, all earlier ones written, keeps the order.
LEMMA WriteKeepsOrder ==
    ASSUME TypeOK, Handling, pc = "put", good, Write,
           stamp["BLACK"] >= stamp["GREEN"], stamp["GREEN"] >= stamp["BROWN"]
    PROVE  /\ stamp'["BLACK"] >= stamp'["GREEN"]
           /\ stamp'["GREEN"] >= stamp'["BROWN"]
<1>1. Len(received) \in Nat /\ \A b \in Bins : stamp[b] \in 0 .. Len(received)
    BY LenProperties DEF TypeOK
<1>2. uptime > 0 /\ \A i \in 1 .. 3 : i < next => stamp[PutOrder[i]] = Len(received)
    BY DEF Handling
<1>3. CASE next = 1
    BY <1>1, <1>2, <1>3, WriteStamps DEF PutOrder, Bins
<1>4. CASE next = 2
    BY <1>1, <1>2, <1>4, WriteStamps DEF PutOrder, Bins
<1>5. CASE next = 3
    BY <1>1, <1>2, <1>5, WriteStamps DEF PutOrder, Bins
<1>6. QED
    BY <1>3, <1>4, <1>5 DEF TypeOK

LEMMA StepOrder ==
    TypeOK /\ Handling /\ MixtureIsOrdered /\ [Next]_vars => MixtureIsOrdered'
<1> SUFFICES ASSUME TypeOK, Handling, MixtureIsOrdered, [Next]_vars, ~faulty'
             PROVE  stamp'["BLACK"] >= stamp'["GREEN"] /\ stamp'["GREEN"] >= stamp'["BROWN"]
    BY DEF MixtureIsOrdered
<1>1. ~faulty /\ good
    BY DEF Next, Boot, Receive, PutSucceeds, PutFails, Show, Crash, vars, Handling
<1>2. stamp["BLACK"] >= stamp["GREEN"] /\ stamp["GREEN"] >= stamp["BROWN"]
    BY <1>1 DEF MixtureIsOrdered
<1>3. CASE PutSucceeds
    BY <1>1, <1>2, <1>3, WriteKeepsOrder DEF PutSucceeds
<1>4. CASE Crash
    BY <1>1, <1>2, <1>4, WriteKeepsOrder DEF Crash
<1>5. CASE UNCHANGED stamp
    BY <1>2, <1>5
<1>6. QED
    BY <1>3, <1>4, <1>5 DEF Next, Boot, Receive, PutFails, Show, vars

-----------------------------------------------------------------------------
LEMMA InitIInv == Init => IInv
<1> SUFFICES ASSUME Init PROVE IInv
    OBVIOUS
<1>1. TypeOK
    BY InitType
<1>2. Handling /\ RowsShowLatest /\ NeverOlderThanDurable /\ MixtureIsOrdered
    BY DEF Init, Handling, RowsShowLatest, NeverOlderThanDurable, MixtureIsOrdered, Bins
<1>3. QED
    BY <1>1, <1>2 DEF IInv

\* The conjunction of the invariants is inductive.
THEOREM Inductive == Spec => []IInv
<1>1. IInv /\ [Next]_vars => IInv'
    BY StepType, StepHandling, StepRows, StepDurable, StepOrder DEF IInv
<1>2. QED
    BY InitIInv, <1>1, PTL DEF Spec

(***************************************************************************)
(* The types of the state of the sensor, its flash and the display's rows. *)
(***************************************************************************)
THEOREM TypeCorrect == Spec => []TypeOK
<1>1. IInv => TypeOK
    BY DEF IInv
<1>2. QED
    BY Inductive, <1>1, PTL

(***************************************************************************)
(* zbCustomCommand, ZigbeeSensor::init and updateTimes together: between   *)
(* two commands the rows are in order and are those of the last command,   *)
(* or after a restart those of the flash.                                  *)
(***************************************************************************)
THEOREM RowsCorrect == Spec => []RowsShowLatest
<1>1. IInv => RowsShowLatest
    BY DEF IInv
<1>2. QED
    BY Inductive, <1>1, PTL

(***************************************************************************)
(* The three putUInt calls of zbCustomCommand against crashes and failing  *)
(* writes: what was once stored completely is never superseded by less.    *)
(***************************************************************************)
THEOREM FlashKeepsLastCompleteCommand == Spec => []NeverOlderThanDurable
<1>1. IInv => NeverOlderThanDurable
    BY DEF IInv
<1>2. QED
    BY Inductive, <1>1, PTL

(***************************************************************************)
(* The order of the putUInt calls: crashes alone leave only mixtures in    *)
(* which black is the newest and brown the oldest.                         *)
(***************************************************************************)
THEOREM CrashMixturesAreOrdered == Spec => []MixtureIsOrdered
<1>1. IInv => MixtureIsOrdered
    BY DEF IInv
<1>2. QED
    BY Inductive, <1>1, PTL
==============================================================================
