----------------------------- MODULE Preferences -----------------------------
(***************************************************************************)
(* The class Preferences over a namespace of the NVS flash: begin and end, *)
(* every put (an nvs_set and an nvs_commit), remove, clear, and what every *)
(* get answers.  Flash writes and commits may fail, and the power may fail *)
(* between and during them.                                                *)
(*                                                                         *)
(* A call that is refused by the checks at its head changes nothing and is *)
(* no step.  A value is a small number: 1 and 0 also stand for true and    *)
(* false, a string is known by its length, and bytes by how many floats    *)
(* they could hold.  A key is in the store with the put it is from, of     *)
(* which NVS itself keeps the type, the length and the value only.  A new  *)
(* item replaces the one of its key, also one of another type (the option  *)
(* NVS_LEGACY_DUP_KEYS_COMPATIBILITY is off).                              *)
(***************************************************************************)
EXTENDS Naturals

CONSTANTS
    Keys,   \* the keys in use
    Puts    \* the puts of the program

\* The accessors, by what follows put and get in their names.
Scalars == {"Char", "UChar", "Short", "UShort", "Int", "UInt", "Long", "ULong",
            "Long64", "ULong64", "Bool"}
Reals   == {"Float", "Double"}
Kinds   == Scalars \cup Reals \cup {"String", "Bytes"}

ASSUME PreferencesAssumption ==
    Puts \subseteq [key : Keys, kind : Kinds, value : Nat]

\* The type of the item that a put leaves in NVS, and that a get asks for.
NvsType == [Char |-> "i8", UChar |-> "u8", Short |-> "i16", UShort |-> "u16",
            Int |-> "i32", UInt |-> "u32", Long |-> "i32", ULong |-> "u32",
            Long64 |-> "i64", ULong64 |-> "u64", Bool |-> "u8",
            Float |-> "blob", Double |-> "blob", String |-> "str", Bytes |-> "blob"]

\* The bytes of a value of fixed size.
Size == [Char |-> 1, UChar |-> 1, Short |-> 2, UShort |-> 2, Int |-> 4, UInt |-> 4,
         Long |-> 4, ULong |-> 4, Long64 |-> 8, ULong64 |-> 8, Bool |-> 1,
         Float |-> 4, Double |-> 8]

\* The bytes of a put's value in NVS; a string has one more, its end.
Length(put) ==
    IF put.kind = "String" THEN put.value + 1
    ELSE IF put.kind = "Bytes" THEN 4 * put.value
    ELSE Size[put.kind]

\* What a put returns when all goes well.
Returns(put) == IF put.kind = "String" THEN Length(put) - 1 ELSE Length(put)

Missing == [kind |-> "none"]      \* no such key
Unknown == [kind |-> "unknown"]   \* the last operation on the key has failed

VARIABLES
    started, readOnly,   \* _started and _readOnly
    handle,     \* how the namespace is open in NVS: "closed", "ro" or "rw"
    stage,      \* "idle", or the NVS call a put, remove or clear waits for
    call,       \* that operation, its keys and what they are to hold
    cache,      \* what NVS answers
    flash,      \* what a restart would find
    promised    \* auxiliary: what a key holds as its last caller was told

vars == <<started, readOnly, handle, stage, call, cache, flash, promised>>

NoCall == [op |-> "none", keys |-> {}, put |-> Missing]

-----------------------------------------------------------------------------
\* The constructor, over an empty namespace.
Init ==
    /\ started = FALSE
    /\ readOnly = FALSE
    /\ handle = "closed"
    /\ stage = "idle"
    /\ call = NoCall
    /\ cache = [k \in Keys |-> Missing]
    /\ flash = [k \in Keys |-> Missing]
    /\ promised = [k \in Keys |-> Missing]

\* A variant that takes over readOnly before it looks at _started.
BeginTakesReadOnlyFirst(ro) ==
    /\ stage = "idle"
    /\ readOnly' = ro
    /\ IF started
         THEN UNCHANGED <<started, handle>>
         ELSE /\ started' \in BOOLEAN
              /\ handle' = IF started' THEN (IF ro THEN "ro" ELSE "rw") ELSE handle
    /\ UNCHANGED <<stage, call, cache, flash, promised>>

\* begin: the partition's initialisation or the opening may fail.
Begin(ro) ==
    /\ stage = "idle"
    /\ ~started
    /\ readOnly' = ro
    /\ started' \in BOOLEAN
    /\ handle' = IF started' THEN (IF ro THEN "ro" ELSE "rw") ELSE handle
    /\ UNCHANGED <<stage, call, cache, flash, promised>>

\* end, and the destructor.
End ==
    /\ stage = "idle"
    /\ started
    /\ started' = FALSE
    /\ handle' = "closed"
    /\ UNCHANGED <<readOnly, stage, call, cache, flash, promised>>

\* The checks at the head of put, remove and clear let the operation through.
Enter(op, keys, put) ==
    /\ stage = "idle"
    /\ started
    /\ ~readOnly
    /\ stage' = "set"
    /\ call' = [op |-> op, keys |-> keys, put |-> put]
    /\ promised' = [k \in Keys |-> IF k \in keys THEN Unknown ELSE promised[k]]
    /\ UNCHANGED <<started, readOnly, handle, cache, flash>>

\* Bytes of length 0 are refused, a string of length 0 is not.
Put(put) ==
    /\ put.kind = "Bytes" => put.value > 0
    /\ Enter("put", {put.key}, put)

\* A variant that overwrites the key with empty bytes.
RemoveEmpties(key) == Enter("remove", {key}, [key |-> key, kind |-> "Bytes", value |-> 0])

Remove(key) == Enter("remove", {key}, Missing)

Clear == Enter("clear", Keys, Missing)

-----------------------------------------------------------------------------
\* A store in which the operation has reached the keys in S.
Changed(store, S) == [k \in Keys |-> IF k \in S THEN call.put ELSE store[k]]

\* nvs_set_..., nvs_erase_key or nvs_erase_all succeeds; what is not committed
\* may be in flash or not.
SetDone ==
    /\ stage = "set"
    /\ handle = "rw"
    /\ call.op = "remove" => \A k \in call.keys : cache[k] # Missing
    /\ cache' = Changed(cache, call.keys)
    /\ \E S \in SUBSET call.keys : flash' = Changed(flash, S)
    /\ stage' = "commit"
    /\ UNCHANGED <<started, readOnly, handle, call, promised>>

\* It fails and the operation returns 0; erasing all may have erased some keys.
SetFails ==
    /\ stage = "set"
    /\ \E S \in SUBSET (IF call.op = "clear" THEN call.keys ELSE {}) :
           /\ cache' = Changed(cache, S)
           /\ flash' = Changed(flash, S)
    /\ stage' = "idle"
    /\ call' = NoCall
    /\ UNCHANGED <<started, readOnly, handle, promised>>

\* The caller is told of success, unless it put an empty string.
Told == [k \in Keys |-> IF k \in call.keys /\ (call.op = "put" => Returns(call.put) > 0)
                          THEN call.put ELSE promised[k]]

\* A variant that returns without having committed.
CommitForgotten ==
    /\ stage = "commit"
    /\ promised' = Told
    /\ stage' = "idle"
    /\ call' = NoCall
    /\ UNCHANGED <<started, readOnly, handle, cache, flash>>

\* nvs_commit succeeds.
CommitDone ==
    /\ stage = "commit"
    /\ flash' = cache
    /\ promised' = Told
    /\ stage' = "idle"
    /\ call' = NoCall
    /\ UNCHANGED <<started, readOnly, handle, cache>>

\* It fails, and the operation returns 0.
CommitFails ==
    /\ stage = "commit"
    /\ \E S \in SUBSET call.keys : flash' = Changed(flash, S)
    /\ stage' = "idle"
    /\ call' = NoCall
    /\ UNCHANGED <<started, readOnly, handle, cache, promised>>

(***************************************************************************)
(* Power is lost or the chip restarts: NVS answers again what is in flash. *)
(* This is also what may become of a call that fails with a code for which *)
(* nvs_errors has no name, when nvs_error reads behind its end.            *)
(***************************************************************************)
Restart ==
    /\ \E S \in SUBSET call.keys : flash' = Changed(flash, S)
    /\ cache' = flash'
    /\ started' = FALSE
    /\ readOnly' = FALSE
    /\ handle' = "closed"
    /\ stage' = "idle"
    /\ call' = NoCall
    /\ UNCHANGED promised

Next ==
    \/ \E ro \in BOOLEAN : Begin(ro)
    \/ End
    \/ \E put \in Puts : Put(put)
    \/ \E key \in Keys : Remove(key)
    \/ Clear
    \/ SetDone
    \/ SetFails
    \/ CommitDone
    \/ CommitFails
    \/ Restart

Spec == Init /\ [][Next]_vars

-----------------------------------------------------------------------------
\* NVS finds the key with an item of this type.
Has(key, type) == started /\ cache[key] # Missing /\ NvsType[cache[key].kind] = type

\* The ten types getType asks for; an item has one of them.
Types == {"i8", "u8", "i16", "u16", "i32", "u32", "i64", "u64", "str", "blob"}

GetType(key) ==
    IF \E type \in Types : Has(key, type)
      THEN CHOOSE type \in Types : Has(key, type)
      ELSE "invalid"

IsKey(key) == GetType(key) # "invalid"

\* getChar to getULong64.
GetScalar(kind, key, default) ==
    IF Has(key, NvsType[kind]) THEN cache[key].value ELSE default

GetBool(key, default) == GetScalar("UChar", key, IF default THEN 1 ELSE 0) = 1

\* getString into room bytes: what it returns.
GetString(key, room) ==
    IF room > 0 /\ Has(key, "str") /\ Length(cache[key]) <= room
      THEN Length(cache[key]) ELSE 0

GetBytesLength(key) == IF Has(key, "blob") THEN Length(cache[key]) ELSE 0

\* A variant that reads however many bytes there are.
GetBytesUnbounded(key, room) == GetBytesLength(key)

\* getBytes into room bytes: what it returns.
GetBytes(key, room) ==
    IF GetBytesLength(key) <= room \/ room = 0 THEN GetBytesLength(key) ELSE 0

\* getFloat and getDouble: how many bytes of the default are overwritten.
GetReal(kind, key) == GetBytes(key, Size[kind])

-----------------------------------------------------------------------------
Stored == {Missing} \cup Puts

TypeOK ==
    /\ started \in BOOLEAN /\ readOnly \in BOOLEAN
    /\ handle \in {"closed", "ro", "rw"}
    /\ stage \in {"idle", "set", "commit"}
    /\ call \in [op : {"none", "put", "remove", "clear"}, keys : SUBSET Keys, put : Stored]
    /\ cache \in [Keys -> Stored]
    /\ flash \in [Keys -> Stored]
    /\ promised \in [Keys -> Stored \cup {Unknown}]

(***************************************************************************)
(* The two flags and the handle in NVS agree through any sequence of       *)
(* begin, failed begin, begin while open, end and restart, so that no      *)
(* operation is under way on a handle that cannot write.                   *)
(***************************************************************************)
HandleMode ==
    /\ handle = IF ~started THEN "closed" ELSE IF readOnly THEN "ro" ELSE "rw"
    /\ stage # "idle" => handle = "rw"

(***************************************************************************)
(* What a put, a remove or a clear reported as done holds, for reads and   *)
(* after any restart, until the next operation on that key: whatever fails *)
(* or is cut off in operations on other keys.                              *)
(***************************************************************************)
PutSurvives ==
    \A k \in Keys : promised[k] # Unknown => cache[k] = promised[k] /\ flash[k] = promised[k]

(***************************************************************************)
(* The get with the name of the put gives back its value, whatever the     *)
(* key held before; a string needs one byte more than putString returned;  *)
(* and no float or double is made of a part of other bytes, save a double  *)
(* of four bytes that were put as a float or as bytes.                     *)
(***************************************************************************)
ReadsBack ==
    \A k \in Keys :
        IF ~started \/ cache[k] = Missing THEN ~IsKey(k)
        ELSE LET put == cache[k]
             IN  /\ IsKey(k)
                 /\ put.kind \in Scalars \ {"Bool"} =>
                        \A d \in {0, 1} : GetScalar(put.kind, k, d) = put.value
                 /\ put.kind = "Bool" => \A d \in BOOLEAN : GetBool(k, d) = (put.value = 1)
                 /\ put.kind = "String" =>
                        GetString(k, Returns(put)) = 0 /\ GetString(k, Returns(put) + 1) > 0
                 /\ put.kind = "Bytes" => GetBytes(k, Returns(put)) = Returns(put)
                 /\ put.kind \in Reals => GetReal(put.kind, k) = Size[put.kind]
                 /\ GetReal("Float", k) \in {0, 4}
                 /\ GetReal("Double", k) \notin {0, 8} =>
                        put.kind \in {"Float", "Bytes"} /\ GetReal("Double", k) = 4

(***************************************************************************)
(* What makes the invariants inductive: nothing is promised of the keys of *)
(* the operation under way, what waits for its commit is what NVS answers, *)
(* and no empty bytes get past the check in putBytes.                      *)
(***************************************************************************)
NotEmpty(put) == put.kind = "Bytes" => put.value > 0

InFlight ==
    /\ stage = "idle" => call = NoCall
    /\ \A k \in call.keys : promised[k] = Unknown
    /\ stage = "commit" => \A k \in call.keys : cache[k] = call.put
    /\ NotEmpty(call.put)
    /\ \A k \in Keys : NotEmpty(cache[k]) /\ NotEmpty(flash[k])

IInv == TypeOK /\ HandleMode /\ PutSurvives /\ InFlight
==============================================================================
