-------------------------- MODULE PreferencesProofs --------------------------
(***************************************************************************)
(* The promises of Preferences for all keys and puts: what was reported as *)
(* stored survives, and the get with the put's name reads it back.         *)
(***************************************************************************)
EXTENDS Preferences, TLAPS

\* An operation leaves a store of the same type, however far it got.
LEMMA StoreTypes ==
    ASSUME TypeOK, NEW store \in [Keys -> Stored], NEW S \in SUBSET Keys
    PROVE  Changed(store, S) \in [Keys -> Stored]
BY DEF TypeOK, Changed

LEMMA InitIInv == Init => IInv
<1> SUFFICES ASSUME Init PROVE IInv
    OBVIOUS
<1> USE DEF Init, NoCall
<1>1. TypeOK
    BY DEF TypeOK, Stored
<1>2. HandleMode /\ PutSurvives
    BY DEF HandleMode, PutSurvives
<1>3. InFlight
    BY DEF InFlight, NotEmpty, Missing
<1>4. QED
    BY <1>1, <1>2, <1>3 DEF IInv

-----------------------------------------------------------------------------
LEMMA TypeKept == TypeOK /\ [Next]_vars => TypeOK'
<1> SUFFICES ASSUME TypeOK, [Next]_vars PROVE TypeOK'
    OBVIOUS
<1> USE DEF TypeOK
<1>1. ASSUME NEW ro \in BOOLEAN, Begin(ro) PROVE TypeOK'
    BY <1>1 DEF Begin
<1>2. CASE End
    BY <1>2 DEF End
<1>3. ASSUME NEW op \in {"put", "remove", "clear"}, NEW keys \in SUBSET Keys,
             NEW put \in Stored, Enter(op, keys, put)
      PROVE  TypeOK'
  <2>1. call' \in [op : {"none", "put", "remove", "clear"}, keys : SUBSET Keys, put : Stored]
      BY <1>3 DEF Enter
  <2>2. promised' \in [Keys -> Stored \cup {Unknown}]
      BY <1>3 DEF Enter
  <2>3. QED
      BY <1>3, <2>1, <2>2 DEF Enter
<1>4. ASSUME NEW put \in Puts, Put(put) PROVE TypeOK'
    BY <1>3, <1>4, PreferencesAssumption DEF Put, Stored, PreferencesAssumption
<1>5. ASSUME NEW key \in Keys, Remove(key) PROVE TypeOK'
    BY <1>3, <1>5 DEF Remove, Stored
<1>6. CASE Clear
    BY <1>3, <1>6 DEF Clear, Stored
<1>7. NoCall \in [op : {"none", "put", "remove", "clear"}, keys : SUBSET Keys, put : Stored]
    BY DEF NoCall, Stored
<1>8. CASE SetDone
    BY <1>8, StoreTypes DEF SetDone
<1>9. CASE SetFails
    BY <1>7, <1>9, StoreTypes DEF SetFails
<1>10. CASE CommitDone
    BY <1>7, <1>10 DEF CommitDone, Told
<1>11. CASE CommitFails
    BY <1>7, <1>11, StoreTypes DEF CommitFails
<1>12. CASE Restart
  <2>1. flash' \in [Keys -> Stored]
      BY <1>12, StoreTypes DEF Restart
  <2>2. cache' = flash'
      BY <1>12 DEF Restart
  <2>3. QED
      BY <1>7, <1>12, <2>1, <2>2 DEF Restart
<1>13. CASE UNCHANGED vars
    BY <1>13 DEF vars
<1>14. QED
    BY <1>1, <1>2, <1>4, <1>5, <1>6, <1>8, <1>9, <1>10, <1>11, <1>12, <1>13 DEF Next

LEMMA HandleKept == HandleMode /\ [Next]_vars => HandleMode'
BY DEF HandleMode, Next, vars, Begin, End, Put, Remove, Clear, Enter, SetDone, SetFails,
       CommitDone, CommitFails, Restart

-----------------------------------------------------------------------------
LEMMA PromiseKept == IInv /\ [Next]_vars => PutSurvives'
<1> SUFFICES ASSUME IInv, [Next]_vars, NEW k \in Keys, promised'[k] # Unknown
             PROVE  cache'[k] = promised'[k] /\ flash'[k] = promised'[k]
    BY DEF PutSurvives
<1> USE DEF IInv, TypeOK, PutSurvives, InFlight
<1>1. ASSUME UNCHANGED <<cache, flash, promised>>
      PROVE  cache'[k] = promised'[k] /\ flash'[k] = promised'[k]
    BY <1>1
<1>2. ASSUME NEW op, NEW keys, NEW put, Enter(op, keys, put)
      PROVE  cache'[k] = promised'[k] /\ flash'[k] = promised'[k]
    BY <1>2 DEF Enter
<1>3. CASE SetDone
    BY <1>3 DEF SetDone, Changed
<1>4. CASE SetFails
    BY <1>4 DEF SetFails, Changed
<1>5. CASE CommitDone
    BY <1>5 DEF CommitDone, Told
<1>6. CASE CommitFails
    BY <1>6 DEF CommitFails, Changed
<1>7. CASE Restart
    BY <1>7 DEF Restart, Changed
<1>8. QED
    BY <1>1, <1>2, <1>3, <1>4, <1>5, <1>6, <1>7
    DEF Next, vars, Begin, End, Put, Remove, Clear

LEMMA InFlightKept == IInv /\ [Next]_vars => InFlight'
<1> SUFFICES ASSUME IInv, [Next]_vars PROVE InFlight'
    OBVIOUS
<1> USE DEF IInv, TypeOK, InFlight
<1>1. NotEmpty(Missing) /\ NotEmpty(NoCall.put)
    BY DEF NotEmpty, Missing, NoCall
<1>2. ASSUME NEW ro \in BOOLEAN, Begin(ro) PROVE InFlight'
    BY <1>2 DEF Begin, NotEmpty
<1>3. CASE End
    BY <1>3 DEF End, NotEmpty
<1>4. ASSUME NEW op, NEW keys \in SUBSET Keys, NEW put, NotEmpty(put), Enter(op, keys, put)
      PROVE  InFlight'
    BY <1>4 DEF Enter, NotEmpty
<1>5. ASSUME NEW put \in Puts, Put(put) PROVE InFlight'
    BY <1>4, <1>5, PreferencesAssumption DEF Put, NotEmpty, PreferencesAssumption
<1>6. ASSUME NEW key \in Keys, Remove(key) PROVE InFlight'
    BY <1>1, <1>4, <1>6 DEF Remove
<1>7. CASE Clear
    BY <1>1, <1>4, <1>7 DEF Clear
<1>8. ASSUME NEW store, NEW S \in SUBSET Keys, \A k \in Keys : NotEmpty(store[k])
      PROVE  \A k \in Keys : NotEmpty(Changed(store, S)[k])
    BY <1>8 DEF Changed, NotEmpty
<1>9. CASE SetDone
  <2>1. stage' = "commit" /\ UNCHANGED <<call, promised>> /\ cache' = Changed(cache, call.keys)
      BY <1>9 DEF SetDone
  <2>2. \A k \in Keys : NotEmpty(cache'[k])
      BY <1>8, <2>1
  <2>3. \A k \in Keys : NotEmpty(flash'[k])
      BY <1>8, <1>9 DEF SetDone
  <2>4. \A k \in call.keys : cache'[k] = call.put
      BY <2>1 DEF Changed
  <2>5. NotEmpty(call'.put)
      BY <2>1
  <2>6. QED
      BY <2>1, <2>2, <2>3, <2>4, <2>5
<1>10. ASSUME stage' = "idle", call' = NoCall,
              \A k \in Keys : NotEmpty(cache[k])' /\ NotEmpty(flash[k])'
       PROVE  InFlight'
    BY <1>1, <1>10 DEF NoCall
<1>11. CASE SetFails
    BY <1>8, <1>10, <1>11 DEF SetFails, NotEmpty
<1>12. CASE CommitDone
    BY <1>10, <1>12 DEF CommitDone, NotEmpty
<1>13. CASE CommitFails
    BY <1>8, <1>10, <1>13 DEF CommitFails, NotEmpty
<1>14. CASE Restart
    BY <1>8, <1>10, <1>14 DEF Restart, NotEmpty
<1>15. CASE UNCHANGED vars
    BY <1>15 DEF vars, NotEmpty
<1>16. QED
    BY <1>2, <1>3, <1>5, <1>6, <1>7, <1>9, <1>11, <1>12, <1>13, <1>14, <1>15 DEF Next

\* The invariant with what it rests on is inductive, for all keys and puts.
THEOREM Inductive == Spec => []IInv
<1>1. IInv /\ [Next]_vars => IInv'
    BY TypeKept, HandleKept, PromiseKept, InFlightKept DEF IInv
<1>2. QED
    BY InitIInv, <1>1, PTL DEF Spec

\* The types of the class, of its calls and of the two stores.
THEOREM TypeCorrect == Spec => []TypeOK
<1>1. IInv => TypeOK
    BY DEF IInv
<1>2. QED
    BY Inductive, <1>1, PTL

\* begin, end and restarts keep the flags in step with the handle.
THEOREM HandleAgrees == Spec => []HandleMode
<1>1. IInv => HandleMode
    BY DEF IInv
<1>2. QED
    BY Inductive, <1>1, PTL

\* A put, a remove or a clear that was reported as done survives everything
\* but the next operation on its key.
THEOREM ReportedIsStored == Spec => []PutSurvives
<1>1. IInv => PutSurvives
    BY DEF IInv
<1>2. QED
    BY Inductive, <1>1, PTL

-----------------------------------------------------------------------------
\* The get with the name of the put reads it back, whatever its kind.
THEOREM GetsReadBack == Spec => []ReadsBack
<1>1. ASSUME IInv PROVE ReadsBack
  <2> SUFFICES ASSUME NEW k \in Keys PROVE
        IF ~started \/ cache[k] = Missing THEN ~IsKey(k)
        ELSE LET put == cache[k]
             IN  /\ IsKey(k)
                 /\ put.kind \in Scalars \ {"Bool"} =>
                        \A d \in {0, 1} : GetScalar(put.kind, k, d) = put.value
                 /\ put.kind = "Bool" => \A d \in BOOLEAN : GetBool(k, d) = (put.value = 1)
                 /\ put.kind = "String" =>
                        GetString(k, Returns(put)) = 0 /\ GetString(k, Returns(put) + 1) > 0
                 /\ put.kind = "Bytes" => GetBytes(k, Returns(put)) = Returns(put)
                 /\ put.kind \in Reals => GetReal(put.kind, k) = Size[put.kind]
                 /\ GetReal("Float", k) \in {0, 4}
                 /\ GetReal("Double", k) \notin {0, 8} =>
                        put.kind \in {"Float", "Bytes"} /\ GetReal("Double", k) = 4
      BY DEF ReadsBack
  <2>1. CASE ~started \/ cache[k] = Missing
      BY <2>1 DEF IsKey, GetType, Has
  <2>2. CASE started /\ cache[k] # Missing
    <3> DEFINE put == cache[k]
    <3>1. put \in Puts /\ put.kind \in Kinds /\ put.value \in Nat
        BY <1>1, <2>2, PreferencesAssumption DEF IInv, TypeOK, Stored, PreferencesAssumption
    <3>2. put.kind = "Bytes" => put.value > 0
        BY <1>1 DEF IInv, InFlight, NotEmpty
    <3>3. \A type : Has(k, type) <=> NvsType[put.kind] = type
        BY <2>2 DEF Has
    <3>4. NvsType[put.kind] \in Types
        BY <3>1 DEF Types, NvsType, Kinds, Scalars, Reals
    <3>5. IsKey(k)
      <4>1. GetType(k) \in Types
          BY <3>3, <3>4 DEF GetType
      <4>2. QED
          BY <4>1 DEF IsKey, Types
    <3>6. put.kind \in Scalars \ {"Bool"} => \A d \in {0, 1} : GetScalar(put.kind, k, d) = put.value
        BY <3>3 DEF GetScalar
    <3>7. put.kind = "Bool" => \A d \in BOOLEAN : GetBool(k, d) = (put.value = 1)
        BY <3>3 DEF GetScalar, GetBool, NvsType
    <3>8. put.kind = "String" => GetString(k, Returns(put)) = 0 /\ GetString(k, Returns(put) + 1) > 0
        BY <3>1, <3>3 DEF GetString, Returns, Length, NvsType, Scalars, Reals
    <3>9. put.kind = "Bytes" => GetBytes(k, Returns(put)) = Returns(put)
        BY <3>1, <3>2, <3>3 DEF GetBytes, GetBytesLength, Returns, Length, NvsType, Scalars, Reals
    <3>10. put.kind \in Reals => GetReal(put.kind, k) = Size[put.kind]
        BY <3>1, <3>3 DEF GetReal, GetBytes, GetBytesLength, Length, NvsType, Size, Scalars, Reals
    <3>11. /\ GetReal("Float", k) \in {0, 4}
           /\ GetReal("Double", k) \notin {0, 8} =>
                  put.kind \in {"Float", "Bytes"} /\ GetReal("Double", k) = 4
      <4>1. GetBytesLength(k) # 0 => put.kind \in {"Float", "Double", "Bytes"}
          BY <3>1, <3>3 DEF GetBytesLength, NvsType, Kinds, Scalars, Reals
      <4>2. CASE GetBytesLength(k) = 0
          BY <4>2 DEF GetReal, GetBytes, Size
      <4>3. CASE put.kind = "Float" \/ put.kind = "Double"
          BY <4>3, <3>3 DEF GetReal, GetBytes, GetBytesLength, Length, NvsType, Size, Scalars, Reals
      <4>4. CASE put.kind = "Bytes"
        <5>1. GetBytesLength(k) = 4 * put.value
            BY <4>4, <3>3 DEF GetBytesLength, Length, NvsType, Scalars, Reals
        <5>2. QED
            BY <4>4, <5>1, <3>1, <3>2 DEF GetReal, GetBytes, Size
      <4>5. QED
          BY <4>1, <4>2, <4>3, <4>4
    <3>12. QED
        BY <2>2, <3>5, <3>6, <3>7, <3>8, <3>9, <3>10, <3>11
  <2>3. QED
      BY <2>1, <2>2
<1>2. QED
    BY Inductive, <1>1, PTL
==============================================================================
