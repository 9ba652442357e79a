------------------------------ MODULE Bindings -------------------------------
(***************************************************************************)
(* ZigbeeCore::searchBindings and bindingTableCb: the list of bound        *)
(* devices is refreshed by reading the stack's binding table in chunks     *)
(* after every bind or unbind request.  Searches may overlap; all of them  *)
(* collect into the same static vector.                                    *)
(*                                                                         *)
(* The device has one endpoint.  A record of the table (one per cluster)   *)
(* has a target: an IEEE address, or the 16-bit address of a group, and an *)
(* endpoint there.  found_devices is not a variable: at the only place     *)
(* where it is read it holds the targets of all_records.                   *)
(*                                                                         *)
(* External: the stack applies a request before it answers the search the  *)
(* request caused, and answers and delivers in order.                      *)
(***************************************************************************)
EXTENDS Naturals, FiniteSets, Sequences, SequencesExt

CONSTANTS
    Records,      \* the records that can be in the table
    ChunkSize,    \* the records the stack puts in one answer
    MaxChanges,   \* bound: bind and unbind requests in one behaviour
    MemoryFails   \* whether calloc may find no memory

TargetType == [kind : {"ieee", "group"}, addr : Nat, endp : Nat]

ASSUME BindingsAssumption ==
    /\ Records # {} /\ IsFiniteSet(Records)
    /\ Records \subseteq [cluster : Nat, target : TargetType]
    /\ ChunkSize \in Nat \ {0}
    /\ MaxChanges \in Nat
    /\ MemoryFails \in BOOLEAN

VARIABLES
    table,      \* the stack's binding table
    requests,   \* searches whose next chunk was requested: [search, index]
    answers,    \* chunks on their way to bindingTableCb
    all,        \* the static all_records
    bound,      \* _bound_devices
    dangling,   \* an entry of it has been freed
    changes,    \* how often the table changed
    searches,   \* auxiliary: how many searches were started
    done,       \* auxiliary: the last search that ended with all its chunks
    missed      \* auxiliary: why the last pass left out records, if it did

vars == <<table, requests, answers, all, bound, dangling, changes, searches, done, missed>>

NoShort == 65535
NoIeee == 0

\* A zb_device_params_t made from a record.
Device(r) ==
    [endp  |-> r.target.endp,
     short |-> IF r.target.kind = "group" THEN r.target.addr ELSE NoShort,
     ieee  |-> IF r.target.kind = "ieee" THEN r.target.addr ELSE NoIeee]

-----------------------------------------------------------------------------
\* searchBindings.
Search(n) == [search |-> n, index |-> 0]

\* A reboot: the table was kept by the stack, the list starts empty.
Init ==
    /\ \E s \in SUBSET Records : table = SetToSeq(s)
    /\ requests = <<Search(1)>>
    /\ answers = << >>
    /\ all = << >>
    /\ bound = << >>
    /\ dangling = FALSE
    /\ changes = 0
    /\ searches = 1
    /\ done = 0
    /\ missed = "nothing"

\* zb_apsde_data_indication_handler: a request to bind or to unbind.
Indication ==
    /\ changes < MaxChanges
    /\ changes' = changes + 1
    /\ searches' = searches + 1
    /\ requests' = Append(requests, Search(searches + 1))
    /\ UNCHANGED <<answers, all, bound, dangling, done, missed>>

Bind(r) ==
    /\ Indication
    /\ table' = IF Contains(table, r) THEN table ELSE Append(table, r)

Unbind(i) ==
    /\ Indication
    /\ table' = RemoveAt(table, i)

\* The stack answers the oldest request from the table as it is now ...
Min2(a, b) == IF a < b THEN a ELSE b
Answer ==
    /\ requests # << >>
    /\ requests' = Tail(requests)
    /\ LET q == Head(requests)
           chunk == SubSeq(table, q.index + 1, Min2(q.index + ChunkSize, Len(table)))
       IN  answers' = Append(answers, [search |-> q.search, index |-> q.index,
                                       total |-> Len(table), records |-> chunk, ok |-> TRUE])
    /\ UNCHANGED <<table, all, bound, dangling, changes, searches, done, missed>>

\* ... or with an error.
AnswerFails ==
    /\ requests # << >>
    /\ requests' = Tail(requests)
    /\ answers' = Append(answers, [search |-> Head(requests).search, index |-> 0, total |-> 0,
                                   records |-> << >>, ok |-> FALSE])
    /\ UNCHANGED <<table, all, bound, dangling, changes, searches, done, missed>>

-----------------------------------------------------------------------------
\* bindingTableCb is called with the oldest answer.
Info == Head(answers)
Called == answers # << >> /\ answers' = Tail(answers)

\* A variant that never clears, and all_records with this chunk, which does so
\* when it is the first.
CollectedForEver == all \o Info.records
Collected == (IF Info.index = 0 THEN << >> ELSE all) \o Info.records

\* The request failed: it is freed and not repeated.
Failed ==
    /\ Called
    /\ ~Info.ok
    /\ UNCHANGED <<table, requests, all, bound, dangling, changes, searches, done, missed>>

\* The table is empty: so is the list.
Cleared ==
    /\ Called
    /\ Info.ok
    /\ Info.total = 0
    /\ bound' = << >>
    /\ dangling' = FALSE
    /\ done' = Info.search
    /\ missed' = "nothing"
    /\ UNCHANGED <<table, requests, all, changes, searches>>

\* There are more records: the next chunk is requested.
NextIndex == Info.index + Len(Info.records)

\* Variants: one request too many, and the same chunk again.
MoreAtEnd ==
    /\ Called
    /\ Info.ok
    /\ NextIndex <= Info.total
    /\ all' = Collected
    /\ requests' = Append(requests, [search |-> Info.search, index |-> NextIndex])
    /\ UNCHANGED <<table, bound, dangling, changes, searches, done, missed>>
MoreOfTheSame ==
    /\ Called
    /\ Info.ok
    /\ NextIndex < Info.total
    /\ all' = Collected
    /\ requests' = Append(requests, [search |-> Info.search, index |-> Info.index])
    /\ UNCHANGED <<table, bound, dangling, changes, searches, done, missed>>

More ==
    /\ Called
    /\ Info.ok
    /\ NextIndex < Info.total
    /\ all' = Collected
    /\ requests' = Append(requests, [search |-> Info.search, index |-> NextIndex])
    /\ UNCHANGED <<table, bound, dangling, changes, searches, done, missed>>

\* The lookups in found_devices: by short address, then by IEEE address.
IsFound(d, records) ==
    \E i \in 1 .. Len(records) :
        LET f == Device(records[i])
        IN  \/ d.short # NoShort /\ records[i].target.kind = "group" /\ f.short = d.short
            \/ records[i].target.kind = "ieee" /\ f.ieee = d.ieee

\* devices_to_remove, as positions in the list.
ToRemove(records) == {i \in 1 .. Len(bound) : ~IsFound(bound[i], records)}

\* removeBoundDevice(device) takes entry e for the device d; a variant looks at
\* the endpoint only.
MatchesEndpoint(e, d) == e.endp = d.endp
Matches(e, d) ==
    /\ e.endp = d.endp
    /\ \/ d.short # NoShort /\ e.short = d.short
       \/ e.ieee = d.ieee

\* The positions erased when the first n devices were removed one by one: each
\* call erases the first entry of the list that matches.
Erased(records) ==
    LET erase[n \in 0 .. Len(bound)] ==
          IF n = 0 THEN {}
          ELSE LET before == erase[n - 1]
                   match == {i \in 1 .. Len(bound) : i \notin before /\ Matches(bound[i], bound[n])}
               IN  IF n \notin ToRemove(records) \/ match = {} THEN before
                   ELSE before \cup {CHOOSE i \in match : \A j \in match : i <= j}
    IN  erase[Len(bound)]

\* "Check if device already exists", in an entry of the copy of the list; a
\* variant compares the endpoints.
SameEndpoint(r, e) == e.endp = r.target.endp
SameAddress(r, e) ==
    IF r.target.kind = "ieee" THEN e.ieee = Device(r).ieee ELSE e.short = Device(r).short

\* The elements of s at the positions in p.
At(s, p) ==
    LET at[n \in 0 .. Len(s)] ==
          IF n = 0 THEN << >>
          ELSE IF n \in p THEN Append(at[n - 1], s[n]) ELSE at[n - 1]
    IN  at[Len(s)]

\* The positions of records without a device in the copy of the list, of which
\* those in "gone" were freed.
New(records, gone) ==
    {i \in 1 .. Len(records) :
        \A j \in (1 .. Len(bound)) \ gone : ~SameAddress(records[i], bound[j])}

\* The list with some positions erased and devices for some records added.
Updated(erased, records, added) ==
    LET new == At(records, added)
    IN  At(bound, (1 .. Len(bound)) \ erased) \o [i \in 1 .. Len(new) |-> Device(new[i])]

(***************************************************************************)
(* The last chunk: devices that are not in the table are removed and freed *)
(* and records without a device are added.  Whether a device exists is     *)
(* looked up in the copy made before the removal, that is, also in the     *)
(* devices just freed: what is read there is undefined, and the record may *)
(* be taken for one that exists.  It is also left out when calloc fails.   *)
(* (The model stops at a list that has freed devices in it.)               *)
(***************************************************************************)
Process ==
    /\ Called
    /\ Info.ok
    /\ Info.total > 0
    /\ NextIndex >= Info.total
    /\ ~dangling
    /\ all' = Collected
    /\ LET gone == ToRemove(all')
           erased == Erased(all')
       IN  \E skipped \in SUBSET New(all', gone), noMemory \in {FALSE, MemoryFails} :
             /\ skipped # {} => gone # {} \/ noMemory
             /\ bound' = Updated(erased, all', New(all', gone) \ skipped)
             /\ dangling' = ~(gone \subseteq erased)
             /\ missed' = IF skipped = {} THEN "nothing"
                          ELSE IF noMemory THEN "memory" ELSE "freed"
    /\ done' = Info.search
    /\ UNCHANGED <<table, requests, changes, searches>>

-----------------------------------------------------------------------------
Callback == Failed \/ Cleared \/ More \/ Process

Next ==
    \/ \E r \in Records : Bind(r)
    \/ \E i \in 1 .. Len(table) : Unbind(i)
    \/ Answer
    \/ AnswerFails
    \/ Failed
    \/ Cleared
    \/ More
    \/ Process

\* The stack answers every request and delivers every answer.
Spec ==
    /\ Init /\ [][Next]_vars
    /\ WF_vars(Answer \/ AnswerFails)
    /\ WF_vars(Callback)

-----------------------------------------------------------------------------
DeviceType == [endp : Nat, short : Nat, ieee : Nat]

\* A chunk that is asked for begins inside of the largest table.
Indices == 0 .. (Cardinality(Records) - 1)

TypeOK ==
    /\ table \in Seq(Records)
    /\ requests \in Seq([search : 1 .. searches, index : Indices])
    /\ answers \in Seq([search : 1 .. searches, index : Indices, total : Nat,
                        records : Seq(Records), ok : BOOLEAN])
    /\ all \in Seq(Records)
    /\ bound \in Seq(DeviceType)
    /\ dangling \in BOOLEAN
    /\ changes \in 0 .. MaxChanges
    /\ searches \in 1 .. (MaxChanges + 1)
    /\ done \in 0 .. searches
    /\ missed \in {"nothing", "freed", "memory"}

BoundDevices == ToSet(bound)
TableDevices == {Device(table[i]) : i \in 1 .. Len(table)}

\* The newest search has ended, with all its chunks and before any later change.
Settled == done = searches

(***************************************************************************)
(* removeBoundDevice erases the first entry that looks like the device and *)
(* the caller frees the device: as long as all targets are IEEE addresses  *)
(* the two are the same, and nothing in the list is ever freed memory.     *)
(***************************************************************************)
NoDangling == ~dangling

(***************************************************************************)
(* However searches overlap and the table changes between their chunks:    *)
(* once the newest search has ended, no address is in the list that is not *)
(* in the table.                                                           *)
(***************************************************************************)
NoGhost == Settled => \A d \in BoundDevices : \E e \in TableDevices : e.ieee = d.ieee

(***************************************************************************)
(* Nor is a record without its device, unless the last pass read devices   *)
(* it had freed or had no memory.  A search that mixes chunks of two       *)
(* tables loses devices, but only until the search after it.               *)
(***************************************************************************)
NoneLost ==
    Settled /\ missed = "nothing" =>
        \A e \in TableDevices : \E d \in BoundDevices : e.ieee = d.ieee

\* A search ends: it never asks for the same chunk for ever (core.cpp:177-180).
SearchesEnd == (requests # << >> \/ answers # << >>) ~> (requests = << >> /\ answers = << >>)

(***************************************************************************)
(* core.cpp:246 "Now add new devices from the binding table": after the    *)
(* newest search, and as long as there is memory, the list has a device    *)
(* for every record.                                                       *)
(***************************************************************************)
NewDevicesAdded ==
    Settled /\ missed # "memory" =>
        \A e \in TableDevices : \E d \in BoundDevices : d.ieee = e.ieee

(***************************************************************************)
(* core.cpp:240 "Remove devices that are no longer in the binding table":  *)
(* and only those; a device that still is in the table stays.              *)
(***************************************************************************)
OnlyThoseRemoved ==
    [][\A i \in 1 .. Len(bound) :
         Process /\ ~(\E j \in 1 .. Len(bound') : bound'[j] = bound[i]) => i \in ToRemove(all')]_vars

(***************************************************************************)
(* What makes NoDangling, NoGhost and NoneLost invariants of the steps.    *)
(* Sizes: the table has no record twice, so a chunk that is asked for      *)
(* begins inside of it; an answer that begins inside has a record.         *)
(***************************************************************************)
Whole(a) ==
    a.ok => a.total <= Cardinality(Records) /\ (a.index < a.total => a.records # << >>)

Listed == \A i \in 1 .. Len(bound) : \E r \in Records : bound[i] = Device(r)

Sizes ==
    /\ searches = changes + 1
    /\ IsInjective(table)
    /\ \A j \in 1 .. Len(answers) : Whole(answers[j])
    /\ Listed

(***************************************************************************)
(* The newest search is asked, then answered and then collects.  Requests  *)
(* and answers come in order, so what follows its first answer was read    *)
(* from the table as it is, also by older searches, and none of these      *)
(* begins again; from its first chunk on all_records has records of this   *)
(* table only, and those of the chunks this search has had.                *)
(***************************************************************************)
ReadFrom(t, a) ==
    a.ok => /\ a.total = Len(t)
            /\ a.records = SubSeq(t, a.index + 1, Min2(a.index + ChunkSize, Len(t)))

Asked ==
    \E p \in 1 .. Len(requests) :
        /\ requests[p] = Search(searches)
        /\ \A j \in 1 .. Len(requests) : j # p => requests[j].search # searches
        /\ \A j \in 1 .. Len(requests) : j > p => requests[j].index # 0
        /\ \A j \in 1 .. Len(answers) : answers[j].search # searches
        /\ done # searches

Answered ==
    \E p \in 1 .. Len(answers) :
        /\ answers[p].search = searches /\ answers[p].ok /\ answers[p].index = 0
        /\ \A j \in 1 .. Len(answers) : j # p => answers[j].search # searches
        /\ \A j \in 1 .. Len(answers) : j >= p => ReadFrom(table, answers[j])
        /\ \A j \in 1 .. Len(answers) : j > p /\ answers[j].ok => answers[j].index # 0
        /\ \A j \in 1 .. Len(requests) : requests[j].search # searches /\ requests[j].index # 0
        /\ done # searches

\* The records have the first n of table t; table t has the records.
Cover(records, t, n) ==
    \A i \in 1 .. Len(t) : i <= n => \E k \in 1 .. Len(records) : records[k] = t[i]
OnlyFrom(t, records) == \A k \in 1 .. Len(records) : \E i \in 1 .. Len(t) : records[k] = t[i]

Follows ==
    /\ \A i \in 1 .. Len(bound) : \E j \in 1 .. Len(table) : Device(table[j]).ieee = bound[i].ieee
    /\ missed = "nothing" =>
          \A j \in 1 .. Len(table) : \E i \in 1 .. Len(bound) : Device(table[j]).ieee = bound[i].ieee

Collecting ==
    /\ \A j \in 1 .. Len(answers) :
          /\ ReadFrom(table, answers[j])
          /\ answers[j].ok => answers[j].index # 0
          /\ answers[j].ok /\ answers[j].search = searches => Cover(all, table, answers[j].index)
    /\ \A j \in 1 .. Len(requests) :
          /\ requests[j].index # 0
          /\ requests[j].search = searches => Cover(all, table, requests[j].index)
    /\ table # << >> => OnlyFrom(table, all)
    /\ done = searches => Follows

\* Its first request failed.
NotAnswered ==
    /\ \A j \in 1 .. Len(requests) : requests[j].search # searches
    /\ \A j \in 1 .. Len(answers) : answers[j].ok => answers[j].search # searches
    /\ done # searches

Newest == Asked \/ Answered \/ Collecting \/ NotAnswered
==============================================================================
