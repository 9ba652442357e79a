--------------------------- MODULE BindingsProofs ----------------------------
(***************************************************************************)
(* For every table of records with IEEE targets, every size of chunks and  *)
(* any number of overlapping searches, whatever fails: the list of bound   *)
(* devices has no freed device, and after the newest search it is that of  *)
(* the table.                                                              *)
(***************************************************************************)
EXTENDS Bindings, SequenceTheorems, FiniteSetTheorems, WellFoundedInduction, TLAPS

-----------------------------------------------------------------------------
(* Induction up to a number, over a set, and functions defined by it.      *)

LEMMA Least ==
    ASSUME NEW T, T \subseteq Nat, T # {}
    PROVE  \E m \in T : \A k \in T : m <= k
<1> DEFINE R == OpToRel(<, Nat)
<1>1. IsWellFoundedOn(R, Nat)
    BY NatLessThanWellFounded
<1> HIDE DEF R
<1>2. PICK m \in T : \A k \in T : <<k, m>> \notin R
    BY <1>1, WFMin
<1>3. ASSUME NEW k \in T PROVE m <= k
  <2>1. k \in Nat /\ m \in Nat /\ <<k, m>> \notin R
      BY <1>2
  <2>2. ~(k < m)
      BY <2>1 DEF R, OpToRel
  <2>3. QED
      BY <2>1, <2>2
<1>4. QED
    BY <1>3

LEMMA Induction ==
    ASSUME NEW N \in Nat, NEW T, 0 \in T, \A n \in 1 .. N : n - 1 \in T => n \in T
    PROVE  \A n \in 0 .. N : n \in T
<1> DEFINE bad == {n \in 0 .. N : n \notin T}
<1> SUFFICES ASSUME bad # {} PROVE FALSE
    OBVIOUS
<1>1. PICK m \in bad : \A k \in bad : m <= k
  <2>1. bad \subseteq Nat
      OBVIOUS
  <2> HIDE DEF bad
  <2>2. QED
      BY <2>1, Least
<1>2. m \in 1 .. N /\ m - 1 \in 0 .. N /\ ~(m <= m - 1)
    BY <1>1
<1>3. m - 1 \in T
    BY <1>1, <1>2
<1>4. QED
    BY <1>1, <1>2, <1>3

Steps(step, N, S) == step \in [S \X (1 .. N) -> S]
Follow(f, step, base, N, S) ==
    /\ f \in [0 .. N -> S]
    /\ f[0] = base
    /\ \A n \in 1 .. N : f[n] = step[<<f[n - 1], n>>]

LEMMA Recursion ==
    ASSUME NEW N \in Nat, NEW S, NEW base \in S, NEW step, Steps(step, N, S)
    PROVE  \E f : Follow(f, step, base, N, S)
<1> USE DEF Steps
<1> DEFINE upTo(m) == \E f \in [0 .. m -> S] :
                          f[0] = base /\ \A n \in 1 .. m : f[n] = step[<<f[n - 1], n>>]
           T == {m \in 0 .. N : upTo(m)}
<1>1. 0 \in T
  <2> DEFINE g == [n \in 0 .. 0 |-> base]
  <2>1. g \in [0 .. 0 -> S] /\ g[0] = base
      OBVIOUS
  <2>2. \A n \in 1 .. 0 : g[n] = step[<<g[n - 1], n>>]
      OBVIOUS
  <2> HIDE DEF g
  <2>3. upTo(0)
      BY <2>1, <2>2
  <2>4. QED
      BY <2>3
<1>2. ASSUME NEW m \in 1 .. N, m - 1 \in T PROVE m \in T
  <2>1. PICK f \in [0 .. (m - 1) -> S] :
            f[0] = base /\ \A n \in 1 .. (m - 1) : f[n] = step[<<f[n - 1], n>>]
      BY <1>2
  <2> DEFINE last == step[<<f[m - 1], m>>]
             g == [n \in 0 .. m |-> IF n = m THEN last ELSE f[n]]
  <2>2. last \in S
      BY <1>2
  <2> HIDE DEF last
  <2>3. \A n \in 0 .. m : n # m => n \in 0 .. (m - 1)
      BY <1>2
  <2>4. g \in [0 .. m -> S] /\ g[0] = base
      BY <1>2, <2>1, <2>2, <2>3
  <2>5. ASSUME NEW n \in 1 .. m PROVE g[n] = step[<<g[n - 1], n>>]
    <3>1. n - 1 \in 0 .. m /\ n - 1 # m
        BY <1>2
    <3>2. g[n - 1] = f[n - 1]
        BY <3>1
    <3>3. CASE n = m
        BY <3>2, <3>3 DEF last
    <3>4. CASE n # m
      <4>1. n \in 1 .. (m - 1)
          BY <1>2, <3>4
      <4>2. QED
          BY <2>1, <3>2, <3>4, <4>1
    <3>5. QED
        BY <3>3, <3>4
  <2> HIDE DEF g
  <2>6. upTo(m)
      BY <2>4, <2>5
  <2>7. QED
      BY <1>2, <2>6
<1>3. \A n \in 0 .. N : n \in T
  <2> HIDE DEF T
  <2>1. QED
      BY <1>1, <1>2, Induction
<1>4. N \in T
    BY <1>3
<1>5. QED
    BY <1>4 DEF Follow

-----------------------------------------------------------------------------
(* Selecting positions of a sequence.                                      *)

LEMMA AtSteps ==
    ASSUME NEW A, NEW s \in Seq(A), NEW p
    PROVE  \E at : /\ At(s, p) = at[Len(s)]
                   /\ at[0] = << >>
                   /\ \A n \in 1 .. Len(s) :
                        at[n] = IF n \in p THEN Append(at[n - 1], s[n]) ELSE at[n - 1]
<1> DEFINE N == Len(s)
           Eq(g) == g = [n \in 0 .. N |-> IF n = 0 THEN << >>
                                          ELSE IF n \in p THEN Append(g[n - 1], s[n]) ELSE g[n - 1]]
           at == CHOOSE g : Eq(g)
           step == [x \in Seq(A) \X (1 .. N) |-> IF x[2] \in p THEN Append(x[1], s[x[2]]) ELSE x[1]]
<1>1. N \in Nat /\ \A n \in 1 .. N : s[n] \in A
    BY LenProperties, ElementOfSeq
<1>2. step \in [Seq(A) \X (1 .. N) -> Seq(A)]
    BY <1>1, AppendProperties
<1>3. << >> \in Seq(A)
    BY EmptySeq
<1>4. \E g : Eq(g)
  <2>1. PICK f \in [0 .. N -> Seq(A)] :
            f[0] = << >> /\ \A n \in 1 .. N : f[n] = step[<<f[n - 1], n>>]
    <3> DEFINE S == Seq(A)
               base == << >>
    <3>1. N \in Nat /\ base \in S /\ Steps(step, N, S)
        BY <1>1, <1>2, <1>3 DEF Steps
    <3> HIDE DEF step, N, S, base
    <3>2. PICK f : Follow(f, step, base, N, S)
        BY <3>1, Recursion
    <3>3. QED
        BY <3>2 DEF S, base, Follow
  <2>2. ASSUME NEW n \in 1 .. N
        PROVE  f[n] = IF n \in p THEN Append(f[n - 1], s[n]) ELSE f[n - 1]
    <3>1. n - 1 \in 0 .. N
        BY <1>1
    <3>2. <<f[n - 1], n>> \in Seq(A) \X (1 .. N)
        BY <3>1
    <3>3. QED
        BY <2>1, <3>2
  <2>3. Eq(f)
    <3>1. \A n \in 0 .. N : n = 0 \/ n \in 1 .. N
        BY <1>1
    <3>2. f = [n \in 0 .. N |-> f[n]]
        OBVIOUS
    <3>3. QED
        BY <2>1, <2>2, <3>1, <3>2
  <2>4. QED
      BY <2>3
<1>5. Eq(at)
    BY <1>4
<1>6. At(s, p) = at[N]
    BY DEF At
<1>7. at[0] = << >>
  <2>1. 0 \in 0 .. N
      BY <1>1
  <2>2. QED
      BY <1>5, <2>1
<1>8. ASSUME NEW n \in 1 .. N PROVE at[n] = IF n \in p THEN Append(at[n - 1], s[n]) ELSE at[n - 1]
  <2>1. n \in 0 .. N /\ n # 0
      BY <1>1
  <2>2. QED
      BY <1>5, <2>1
<1>9. QED
    BY <1>6, <1>7, <1>8

\* t has exactly the elements of s at the positions in p up to n.
Selects(t, s, p, n) ==
    /\ \A k \in 1 .. Len(t) : \E i \in 1 .. n : i \in p /\ t[k] = s[i]
    /\ \A i \in 1 .. n : i \in p => \E k \in 1 .. Len(t) : t[k] = s[i]

LEMMA AtSelects ==
    ASSUME NEW A, NEW s \in Seq(A), NEW p
    PROVE  At(s, p) \in Seq(A) /\ Selects(At(s, p), s, p, Len(s))
<1>1. PICK at : /\ At(s, p) = at[Len(s)]
                /\ at[0] = << >>
                /\ \A n \in 1 .. Len(s) :
                     at[n] = IF n \in p THEN Append(at[n - 1], s[n]) ELSE at[n - 1]
    BY AtSteps
<1> DEFINE N == Len(s)
           T == {n \in 0 .. N : at[n] \in Seq(A) /\ Selects(at[n], s, p, n)}
<1>2. N \in Nat
    BY LenProperties
<1>3. 0 \in T
  <2>1. << >> \in Seq(A) /\ Len(<< >>) = 0 /\ 1 .. 0 = {} /\ 0 \in 0 .. N
      BY <1>2, EmptySeq
  <2>2. Selects(<< >>, s, p, 0)
      BY <2>1 DEF Selects
  <2>3. QED
      BY <1>1, <2>1, <2>2
<1>4. ASSUME NEW n \in 1 .. N, n - 1 \in T PROVE n \in T
  <2> DEFINE before == at[n - 1]
  <2>1. before \in Seq(A) /\ Len(before) \in Nat /\ s[n] \in A /\ n - 1 \in Nat
      BY <1>4, ElementOfSeq, LenProperties
  <2>2. Selects(before, s, p, n - 1)
      BY <1>4
  <2>3. \A i \in 1 .. n : i \in 1 .. (n - 1) \/ i = n
      BY <2>1
  <2>4. \A i \in 1 .. (n - 1) : i \in 1 .. n
      BY <2>1
  <2>5. CASE n \notin p
    <3>1. at[n] = before
        BY <1>1, <2>5
    <3> HIDE DEF before
    <3>2. Selects(before, s, p, n)
        BY <2>2, <2>3, <2>4, <2>5 DEF Selects
    <3>3. QED
        BY <2>1, <3>1, <3>2
  <2>6. CASE n \in p
    <3> DEFINE after == Append(before, s[n])
    <3>1. at[n] = after
        BY <1>1, <2>6
    <3> HIDE DEF before
    <3>2. /\ after \in Seq(A) /\ Len(after) = Len(before) + 1
          /\ \A k \in 1 .. Len(before) : after[k] = before[k]
          /\ after[Len(before) + 1] = s[n]
        BY <2>1, AppendProperties
    <3> HIDE DEF after
    <3>3. ASSUME NEW k \in 1 .. Len(after) PROVE \E i \in 1 .. n : i \in p /\ after[k] = s[i]
      <4>1. CASE k \in 1 .. Len(before)
          BY <2>2, <2>4, <3>2, <4>1 DEF Selects
      <4>2. CASE k = Len(before) + 1
          BY <2>6, <3>2, <4>2
      <4>3. QED
          BY <2>1, <3>2, <4>1, <4>2
    <3>4. ASSUME NEW i \in 1 .. n, i \in p PROVE \E k \in 1 .. Len(after) : after[k] = s[i]
      <4>1. CASE i = n
          BY <2>1, <3>2, <4>1
      <4>2. CASE i \in 1 .. (n - 1)
        <5>1. PICK k \in 1 .. Len(before) : before[k] = s[i]
            BY <2>2, <3>4, <4>2 DEF Selects
        <5>2. k \in 1 .. Len(after) /\ after[k] = s[i]
            BY <2>1, <3>2, <5>1
        <5>3. QED
            BY <5>2
      <4>3. QED
          BY <2>3, <4>1, <4>2
    <3>5. Selects(after, s, p, n)
        BY <3>3, <3>4 DEF Selects
    <3>6. QED
        BY <3>1, <3>2, <3>5
  <2>7. QED
      BY <2>5, <2>6
<1>5. N \in T
  <2> HIDE DEF T
  <2>1. \A n \in 0 .. N : n \in T
      BY <1>2, <1>3, <1>4, Induction
  <2>2. QED
      BY <1>2, <2>1
<1>6. QED
    BY <1>1, <1>5

-----------------------------------------------------------------------------
(* Removing devices one by one.                                            *)

\* One call of removeBoundDevice: what is erased after it.
EraseNext(before, n, gone) ==
    LET match == {i \in 1 .. Len(bound) : i \notin before /\ Matches(bound[i], bound[n])}
    IN  IF n \notin gone \/ match = {} THEN before
        ELSE before \cup {CHOOSE i \in match : \A j \in match : i <= j}

LEMMA ErasedSteps ==
    ASSUME NEW records, Len(bound) \in Nat
    PROVE  \E erase : /\ Erased(records) = erase[Len(bound)]
                      /\ erase[0] = {}
                      /\ \A n \in 1 .. Len(bound) :
                           erase[n] = EraseNext(erase[n - 1], n, ToRemove(records))
<1> DEFINE N == Len(bound)
           gone == ToRemove(records)
           Eq(g) == g = [n \in 0 .. N |-> IF n = 0 THEN {} ELSE EraseNext(g[n - 1], n, gone)]
           erase == CHOOSE g : Eq(g)
           step == [x \in (SUBSET (1 .. N)) \X (1 .. N) |-> EraseNext(x[1], x[2], gone)]
           S == SUBSET (1 .. N)
<1>1. ASSUME NEW before \in S, NEW n \in 1 .. N
      PROVE  EraseNext(before, n, gone) \in S
  <2> DEFINE match == {i \in 1 .. Len(bound) : i \notin before /\ Matches(bound[i], bound[n])}
             first == CHOOSE i \in match : \A j \in match : i <= j
  <2>1. match \subseteq Nat
      OBVIOUS
  <2>2. CASE match # {}
    <3>1. first \in match
      <4> HIDE DEF match
      <4>1. \E i \in match : \A j \in match : i <= j
          BY <2>1, <2>2, Least
      <4>2. QED
          BY <4>1
    <3>2. first \in 1 .. N
        BY <3>1
    <3> HIDE DEF first
    <3>3. EraseNext(before, n, gone) \in {before, before \cup {first}}
        BY DEF EraseNext, first
    <3>4. QED
        BY <3>2, <3>3
  <2>3. CASE match = {}
      BY <2>3 DEF EraseNext
  <2>4. QED
      BY <2>2, <2>3
<1>2. \E g : Eq(g)
  <2>1. {} \in S /\ N \in Nat
      OBVIOUS
  <2>2. Steps(step, N, S)
    <3> HIDE DEF gone, N
    <3>1. QED
        BY <1>1 DEF Steps
  <2>3. PICK f : Follow(f, step, {}, N, S)
    <3> HIDE DEF step, N, S
    <3>1. QED
        BY <2>1, <2>2, Recursion
  <2>4. ASSUME NEW n \in 1 .. N PROVE f[n] = EraseNext(f[n - 1], n, gone)
    <3>1. n - 1 \in 0 .. N
        BY <2>1
    <3>2. f[n - 1] \in S
        BY <2>3, <3>1 DEF Follow
    <3> HIDE DEF gone, N
    <3>3. step[<<f[n - 1], n>>] = EraseNext(f[n - 1], n, gone)
        BY <3>2
    <3>4. QED
        BY <2>3, <3>3 DEF Follow
  <2>5. Eq(f)
    <3>1. \A n \in 0 .. N : n = 0 \/ n \in 1 .. N
        BY <2>1
    <3>2. f = [n \in 0 .. N |-> f[n]] /\ f[0] = {}
        BY <2>3 DEF Follow
    <3> HIDE DEF gone
    <3>3. QED
        BY <2>4, <3>1, <3>2
  <2>6. QED
      BY <2>5
<1>3. Eq(erase)
    BY <1>2
<1>4. Erased(records) = erase[N]
    BY DEF Erased, EraseNext
<1> HIDE DEF erase
<1>5. erase[0] = {}
  <2>1. 0 \in 0 .. N
      OBVIOUS
  <2>2. QED
      BY <1>3, <2>1
<1>6. ASSUME NEW n \in 1 .. N PROVE erase[n] = EraseNext(erase[n - 1], n, gone)
  <2>1. n \in 0 .. N /\ n # 0
      OBVIOUS
  <2> HIDE DEF gone
  <2>2. QED
      BY <1>3, <2>1
<1>7. QED
    BY <1>4, <1>5, <1>6

-----------------------------------------------------------------------------
(* When all targets are IEEE addresses, the entries erased are those freed. *)

OnlyIeee == \A r \in Records : r.target.kind = "ieee"

LEMMA RecordType ==
    ASSUME NEW r \in Records
    PROVE  /\ r.target.kind \in {"ieee", "group"} /\ r.target.addr \in Nat /\ r.target.endp \in Nat
           /\ Device(r) \in DeviceType
           /\ Device(r).endp = r.target.endp
           /\ r.target.kind = "ieee" => Device(r).ieee = r.target.addr /\ Device(r).short = NoShort
<1>1. r.target \in TargetType
    BY BindingsAssumption DEF BindingsAssumption
<1>2. QED
    BY <1>1 DEF TargetType, Device, DeviceType, NoShort, NoIeee

\* With IEEE addresses, devices are found and matched by these.
LEMMA IeeeFound ==
    ASSUME OnlyIeee, NEW d, d.short = NoShort, NEW records \in Seq(Records)
    PROVE  IsFound(d, records) <=> \E i \in 1 .. Len(records) : Device(records[i]).ieee = d.ieee
<1>1. \A i \in 1 .. Len(records) : records[i].target.kind = "ieee"
    BY ElementOfSeq DEF OnlyIeee
<1>2. QED
    BY <1>1 DEF IsFound

LEMMA IeeeListed ==
    ASSUME OnlyIeee, Listed, NEW i \in 1 .. Len(bound)
    PROVE  bound[i].short = NoShort
BY RecordType DEF OnlyIeee, Listed

LEMMA MatchingGo ==
    ASSUME OnlyIeee, Listed, NEW records \in Seq(Records), NEW i \in 1 .. Len(bound),
           NEW n \in ToRemove(records), Matches(bound[i], bound[n])
    PROVE  i \in ToRemove(records)
<1>1. n \in 1 .. Len(bound) /\ ~IsFound(bound[n], records)
    BY DEF ToRemove
<1>2. bound[i].short = NoShort /\ bound[n].short = NoShort
    BY <1>1, IeeeListed
<1>3. bound[i].ieee = bound[n].ieee
    BY <1>2 DEF Matches
<1>4. QED
    BY <1>1, <1>2, <1>3, IeeeFound DEF ToRemove

LEMMA ErasedAreGone ==
    ASSUME OnlyIeee, Listed, Len(bound) \in Nat, NEW records \in Seq(Records)
    PROVE  Erased(records) = ToRemove(records)
<1> DEFINE N == Len(bound)
           gone == ToRemove(records)
<1>1. PICK erase : /\ Erased(records) = erase[N]
                   /\ erase[0] = {}
                   /\ \A n \in 1 .. N : erase[n] = EraseNext(erase[n - 1], n, gone)
    BY ErasedSteps
<1> DEFINE T == {n \in 0 .. N : erase[n] = {i \in gone : i <= n}}
<1>2. gone \subseteq 1 .. N
    BY DEF ToRemove
<1>3. 0 \in T
  <2>1. {i \in gone : i <= 0} = {}
      BY <1>2
  <2>2. QED
      BY <1>1, <2>1
<1>4. ASSUME NEW n \in 1 .. N, n - 1 \in T PROVE n \in T
  <2> DEFINE before == {i \in gone : i <= n - 1}
             match == {i \in 1 .. N : i \notin before /\ Matches(bound[i], bound[n])}
             first == CHOOSE i \in match : \A j \in match : i <= j
  <2>1. erase[n] = EraseNext(before, n, gone)
      BY <1>1, <1>4
  <2>2. CASE n \notin gone
    <3>1. before = {i \in gone : i <= n}
        BY <1>2, <2>2
    <3>2. EraseNext(before, n, gone) = before
        BY <2>2 DEF EraseNext
    <3>3. QED
        BY <2>1, <3>1, <3>2
  <2>3. CASE n \in gone
    <3>1. n \in match
        BY DEF Matches
    <3>2. ASSUME NEW j \in match PROVE n <= j
      <4>1. j \in gone
          BY <2>3, MatchingGo
      <4>2. QED
          BY <1>2, <4>1
    <3>3. first = n
        BY <3>1, <3>2
    <3>4. EraseNext(before, n, gone) = before \cup {n}
        BY <2>3, <3>1, <3>3 DEF EraseNext
    <3>5. before \cup {n} = {i \in gone : i <= n}
        BY <1>2, <2>3
    <3>6. QED
        BY <2>1, <3>4, <3>5
  <2>4. QED
      BY <2>2, <2>3
<1>5. N \in T
  <2> HIDE DEF T
  <2>1. \A n \in 0 .. N : n \in T
      BY <1>3, <1>4, Induction
  <2>2. QED
      BY <2>1
<1>6. {i \in gone : i <= N} = gone
    BY <1>2
<1>7. QED
    BY <1>1, <1>5, <1>6

-----------------------------------------------------------------------------
(* The table: a sequence of records, each once.                            *)

LEMMA Listing ==
    ASSUME NEW S \in SUBSET Records
    PROVE  SetToSeq(S) \in Seq(Records) /\ IsInjective(SetToSeq(S))
<1>1. IsFiniteSet(S)
    BY BindingsAssumption, FS_Subset DEF BindingsAssumption
<1> DEFINE N == Cardinality(S)
<1>2. N \in Nat /\ ExistsBijection(1 .. N, S)
    BY <1>1, FS_CardinalityType
<1>3. PICK f \in Bijection(1 .. N, S) : TRUE
    BY <1>2 DEF ExistsBijection
<1>4. f \in [1 .. N -> S] /\ IsInjective(f)
    BY <1>3 DEF Bijection, Injection
<1>5. SetToSeq(S) \in [1 .. N -> S] /\ IsInjective(SetToSeq(S))
    BY <1>4 DEF SetToSeq
<1>6. SetToSeq(S) \in [1 .. N -> Records]
    BY <1>5
<1>7. QED
    BY <1>2, <1>5, <1>6, SeqDef

LEMMA NoLonger ==
    ASSUME NEW s \in Seq(Records), IsInjective(s)
    PROVE  Len(s) <= Cardinality(Records)
<1>1. Len(s) \in Nat /\ s \in [1 .. Len(s) -> Records]
    BY LenProperties
<1>2. s \in Injection(1 .. Len(s), Records)
    BY <1>1 DEF Injection
<1>3. Cardinality(1 .. Len(s)) <= Cardinality(Records)
    BY <1>2, BindingsAssumption, FS_Injection DEF BindingsAssumption
<1>4. Cardinality(1 .. Len(s)) = Len(s)
    BY <1>1, FS_Interval
<1>5. QED
    BY <1>3, <1>4

LEMMA Size == Cardinality(Records) \in Nat /\ Cardinality(Records) > 0
<1>1. IsFiniteSet(Records) /\ Records # {}
    BY BindingsAssumption DEF BindingsAssumption
<1>2. QED
    BY <1>1, FS_CardinalityType, FS_EmptySet

LEMMA AppendOnce ==
    ASSUME NEW s \in Seq(Records), IsInjective(s), NEW r \in Records, ~Contains(s, r)
    PROVE  IsInjective(Append(s, r))
<1> DEFINE t == Append(s, r)
           N == Len(s)
<1>1. /\ N \in Nat /\ DOMAIN s = 1 .. N /\ DOMAIN t = 1 .. (N + 1)
      /\ \A i \in 1 .. N : t[i] = s[i]
      /\ t[N + 1] = r
    BY LenProperties, AppendProperties
<1>2. \A i \in 1 .. N : s[i] # r
    BY DEF Contains
<1>3. \A i \in 1 .. N + 1 : i \in 1 .. N \/ i = N + 1
    BY <1>1
<1> HIDE DEF t
<1>4. QED
    BY <1>1, <1>2, <1>3 DEF IsInjective

LEMMA Joined ==
    ASSUME NEW A, NEW s \in Seq(A), NEW t \in Seq(A), NEW m, Len(t) = m
    PROVE  /\ s \o t \in Seq(A) /\ Len(s \o t) = Len(s) + m
           /\ \A k \in 1 .. Len(s) + m :
                 (s \o t)[k] = IF k <= Len(s) THEN s[k] ELSE t[k - Len(s)]
<1>1. /\ s \o t \in Seq(A) /\ Len(s \o t) = Len(s) + Len(t)
      /\ \A k \in 1 .. Len(s) + Len(t) :
            (s \o t)[k] = IF k <= Len(s) THEN s[k] ELSE t[k - Len(s)]
    BY ConcatProperties
<1>2. QED
    BY <1>1

LEMMA RemoveOne ==
    ASSUME NEW s \in Seq(Records), IsInjective(s), NEW i \in 1 .. Len(s)
    PROVE  RemoveAt(s, i) \in Seq(Records) /\ IsInjective(RemoveAt(s, i))
<1> DEFINE N == Len(s)
           before == SubSeq(s, 1, i - 1)
           after == SubSeq(s, i + 1, N)
           t == before \o after
<1>1. N \in Nat /\ DOMAIN s = 1 .. N /\ i \in Nat /\ i >= 1 /\ i <= N
    BY LenProperties
<1>2. \A k \in 1 .. N : s[k] \in Records
    BY ElementOfSeq
<1>3. /\ before \in Seq(Records) /\ Len(before) = i - 1
      /\ \A k \in 1 .. i - 1 : before[k] = s[k]
    BY <1>1, <1>2, SubSeqProperties
<1>4. /\ after \in Seq(Records) /\ Len(after) = N - i
      /\ \A k \in 1 .. N - i : after[k] = s[i + k]
  <2>1. i + 1 \in Int /\ N \in Int /\ \A k \in i + 1 .. N : s[k] \in Records
      BY <1>1, <1>2
  <2>2. /\ after \in Seq(Records) /\ Len(after) = IF i + 1 <= N THEN N - (i + 1) + 1 ELSE 0
        /\ \A k \in 1 .. N - (i + 1) + 1 : after[k] = s[(i + 1) + k - 1]
      BY <2>1, SubSeqProperties
  <2>3. N - (i + 1) + 1 = N - i /\ \A k \in 1 .. N - i : (i + 1) + k - 1 = i + k
      BY <1>1
  <2> HIDE DEF after, N
  <2>4. Len(after) = N - i
      BY <1>1, <2>2, <2>3
  <2>5. QED
      BY <2>2, <2>3, <2>4
<1> HIDE DEF before, after, N
<1>5. /\ t \in Seq(Records) /\ Len(t) = N - 1
      /\ \A k \in 1 .. N - 1 : t[k] = IF k <= i - 1 THEN before[k] ELSE after[k - (i - 1)]
  <2>1. N - 1 = Len(before) + (N - i)
      BY <1>1, <1>3
  <2>2. /\ t \in Seq(Records) /\ Len(t) = Len(before) + (N - i)
        /\ \A k \in 1 .. Len(before) + (N - i) :
              t[k] = IF k <= Len(before) THEN before[k] ELSE after[k - Len(before)]
      BY <1>3, <1>4, Joined
  <2> HIDE DEF t
  <2>3. QED
      BY <1>3, <2>1, <2>2
<1>6. DOMAIN t = 1 .. N - 1
    BY <1>5, LenProperties
<1> HIDE DEF t
<1>7. \A k \in 1 .. N - 1 : t[k] = s[IF k < i THEN k ELSE k + 1]
  <2> TAKE k \in 1 .. N - 1
  <2>1. CASE k < i
    <3>1. k <= i - 1 /\ k \in 1 .. i - 1
        BY <1>1, <2>1
    <3>2. QED
        BY <1>3, <1>5, <2>1, <3>1
  <2>2. CASE ~(k < i)
    <3>1. ~(k <= i - 1) /\ k - (i - 1) \in 1 .. N - i /\ i + (k - (i - 1)) = k + 1
        BY <1>1, <2>2
    <3>2. t[k] = after[k - (i - 1)]
        BY <1>5, <3>1
    <3>3. after[k - (i - 1)] = s[k + 1]
        BY <1>4, <3>1
    <3>4. QED
        BY <2>2, <3>2, <3>3
  <2>3. QED
      BY <2>1, <2>2
<1>8. IsInjective(t)
  <2> SUFFICES ASSUME NEW a \in 1 .. N - 1, NEW b \in 1 .. N - 1, t[a] = t[b] PROVE a = b
      BY <1>6 DEF IsInjective
  <2> DEFINE place(k) == IF k < i THEN k ELSE k + 1
  <2>1. place(a) \in 1 .. N /\ place(b) \in 1 .. N
      BY <1>1
  <2>2. s[place(a)] = s[place(b)]
      BY <1>7
  <2>3. place(a) = place(b)
    <3> HIDE DEF place
    <3>1. QED
        BY <1>1, <2>1, <2>2 DEF IsInjective
  <2>4. QED
      BY <1>1, <2>3
<1>9. RemoveAt(s, i) = t
    BY DEF RemoveAt, t, before, after, N
<1>10. QED
    BY <1>5, <1>8, <1>9

\* The records the stack answers, for the one asked for as the first.
Chunk(index) == SubSeq(table, index + 1, Min2(index + ChunkSize, Len(table)))

LEMMA ChunkRecords ==
    ASSUME table \in Seq(Records), NEW index \in Nat
    PROVE  /\ Chunk(index) \in Seq(Records)
           /\ index < Len(table) => Chunk(index) # << >>
           /\ Len(Chunk(index)) \in Nat
           /\ \A i \in 1 .. Len(Chunk(index)) : index + i \in 1 .. Len(table) /\ Chunk(index)[i] = table[index + i]
           /\ index <= Len(table) => index + Len(Chunk(index)) <= Len(table)
<1> DEFINE N == Len(table)
           last == Min2(index + ChunkSize, N)
           chunk == SubSeq(table, index + 1, last)
<1>1. N \in Nat /\ ChunkSize \in Nat /\ ChunkSize >= 1 /\ \A i \in 1 .. N : table[i] \in Records
    BY BindingsAssumption, LenProperties, ElementOfSeq DEF BindingsAssumption
<1>2. /\ last \in Nat /\ last <= N
      /\ index < N => index + 1 <= last
    BY <1>1 DEF Min2
<1> HIDE DEF last
<1>3. index + 1 \in Int /\ last \in Int /\ \A i \in index + 1 .. last : table[i] \in Records
    BY <1>1, <1>2
<1>4. /\ chunk \in Seq(Records)
      /\ Len(chunk) = IF index + 1 <= last THEN last - (index + 1) + 1 ELSE 0
      /\ \A i \in 1 .. last - (index + 1) + 1 : chunk[i] = table[(index + 1) + i - 1]
    BY <1>3, SubSeqProperties
<1>5. Chunk(index) = chunk
    BY DEF Chunk, last
<1> HIDE DEF chunk, N
<1>6. \A i \in 1 .. Len(chunk) : index + i \in 1 .. N /\ chunk[i] = table[index + i]
  <2> TAKE i \in 1 .. Len(chunk)
  <2>1. /\ i \in 1 .. last - (index + 1) + 1
        /\ (index + 1) + i - 1 = index + i
        /\ index + i \in 1 .. N
      BY <1>1, <1>2, <1>4
  <2>2. QED
      BY <1>4, <2>1
<1>7. index < N => Len(chunk) # 0
    BY <1>1, <1>2, <1>4
<1>8. Len(chunk) \in Nat /\ (index <= N => index + Len(chunk) <= N)
    BY <1>1, <1>2, <1>4
<1>9. QED
    BY <1>4, <1>5, <1>6, <1>7, <1>8, EmptySeq DEF N

-----------------------------------------------------------------------------
(* The list after a pass.                                                  *)

LEMMA UpdatedList ==
    ASSUME bound \in Seq(DeviceType), NEW records \in Seq(Records), NEW erased, NEW added
    PROVE  LET list == Updated(erased, records, added)
           IN  /\ list \in Seq(DeviceType)
               /\ \A k \in 1 .. Len(list) :
                     \/ \E i \in 1 .. Len(bound) : i \notin erased /\ list[k] = bound[i]
                     \/ \E i \in 1 .. Len(records) : i \in added /\ list[k] = Device(records[i])
               /\ \A i \in 1 .. Len(bound) :
                     i \notin erased => \E k \in 1 .. Len(list) : list[k] = bound[i]
               /\ \A i \in 1 .. Len(records) :
                     i \in added => \E k \in 1 .. Len(list) : list[k] = Device(records[i])
<1> DEFINE kept == (1 .. Len(bound)) \ erased
           old == At(bound, kept)
           new == At(records, added)
           devices == [i \in 1 .. Len(new) |-> Device(new[i])]
           list == old \o devices
<1>1. old \in Seq(DeviceType) /\ Selects(old, bound, kept, Len(bound))
    BY AtSelects
<1>2. new \in Seq(Records) /\ Selects(new, records, added, Len(records))
    BY AtSelects
<1> HIDE DEF old, new
<1>3. Len(old) \in Nat /\ Len(new) \in Nat
    BY <1>1, <1>2, LenProperties
<1>4. \A i \in 1 .. Len(new) : Device(new[i]) \in DeviceType
    BY <1>2, ElementOfSeq, RecordType
<1>5. devices \in Seq(DeviceType) /\ Len(devices) = Len(new)
  <2>1. devices \in [1 .. Len(new) -> DeviceType]
      BY <1>4
  <2>2. devices \in Seq(DeviceType)
      BY <1>3, <2>1, SeqDef
  <2>3. DOMAIN devices = 1 .. Len(new) /\ DOMAIN devices = 1 .. Len(devices) /\ Len(devices) \in Nat
      BY <2>1, <2>2, LenProperties
  <2> HIDE DEF devices
  <2>4. QED
      BY <1>3, <2>2, <2>3
<1>6. \A i \in 1 .. Len(new) : devices[i] = Device(new[i])
    OBVIOUS
<1> HIDE DEF devices
<1>7. /\ list \in Seq(DeviceType)
      /\ Len(list) = Len(old) + Len(new)
      /\ \A k \in 1 .. Len(old) + Len(new) :
            list[k] = IF k <= Len(old) THEN old[k] ELSE devices[k - Len(old)]
  <2>1. /\ old \o devices \in Seq(DeviceType)
        /\ Len(old \o devices) = Len(old) + Len(devices)
        /\ \A k \in 1 .. Len(old) + Len(devices) :
              (old \o devices)[k] = IF k <= Len(old) THEN old[k] ELSE devices[k - Len(old)]
      BY <1>1, <1>5, ConcatProperties
  <2>2. list = old \o devices
      OBVIOUS
  <2> HIDE DEF list
  <2>3. QED
      BY <1>5, <2>1, <2>2
<1> HIDE DEF list
<1>8. ASSUME NEW k \in 1 .. Len(list)
      PROVE  \/ \E i \in 1 .. Len(bound) : i \notin erased /\ list[k] = bound[i]
             \/ \E i \in 1 .. Len(records) : i \in added /\ list[k] = Device(records[i])
  <2>1. CASE k <= Len(old)
    <3>1. k \in 1 .. Len(old) /\ list[k] = old[k]
        BY <1>3, <1>7, <2>1
    <3>2. QED
        BY <1>1, <3>1 DEF Selects
  <2>2. CASE ~(k <= Len(old))
    <3>1. k - Len(old) \in 1 .. Len(new) /\ list[k] = devices[k - Len(old)]
        BY <1>3, <1>7, <2>2
    <3>2. list[k] = Device(new[k - Len(old)])
        BY <1>6, <3>1
    <3>3. QED
        BY <1>2, <3>1, <3>2 DEF Selects
  <2>3. QED
      BY <2>1, <2>2
<1>9. ASSUME NEW i \in 1 .. Len(bound), i \notin erased
      PROVE  \E k \in 1 .. Len(list) : list[k] = bound[i]
  <2>1. PICK k \in 1 .. Len(old) : old[k] = bound[i]
      BY <1>1, <1>9 DEF Selects
  <2>2. k \in 1 .. Len(list) /\ list[k] = old[k]
      BY <1>3, <1>7
  <2>3. QED
      BY <2>1, <2>2
<1>10. ASSUME NEW i \in 1 .. Len(records), i \in added
       PROVE  \E k \in 1 .. Len(list) : list[k] = Device(records[i])
  <2>1. PICK j \in 1 .. Len(new) : new[j] = records[i]
      BY <1>2, <1>10 DEF Selects
  <2>2. Len(old) + j \in 1 .. Len(list) /\ list[Len(old) + j] = devices[j]
    <3>1. /\ Len(old) + j \in 1 .. Len(old) + Len(new)
          /\ ~(Len(old) + j <= Len(old))
          /\ (Len(old) + j) - Len(old) = j
        BY <1>3
    <3>2. QED
        BY <1>7, <3>1
  <2>3. QED
      BY <1>6, <2>1, <2>2
<1>11. Updated(erased, records, added) = list
    BY DEF Updated, list, old, devices, new
<1>12. QED
    BY <1>7, <1>8, <1>9, <1>10, <1>11

-----------------------------------------------------------------------------
(* Requests and answers are queues.                                        *)

LEMMA Queued ==
    ASSUME NEW A, NEW q \in Seq(A), NEW e \in A
    PROVE  /\ Append(q, e) \in Seq(A) /\ Len(q) \in Nat /\ Len(Append(q, e)) = Len(q) + 1
           /\ \A j \in 1 .. Len(q) : j \in 1 .. Len(Append(q, e)) /\ Append(q, e)[j] = q[j]
           /\ \A j \in 1 .. Len(Append(q, e)) :
                 \/ j \in 1 .. Len(q) /\ Append(q, e)[j] = q[j]
                 \/ j = Len(q) + 1 /\ Append(q, e)[j] = e
<1> DEFINE t == Append(q, e)
<1>1. /\ t \in Seq(A) /\ Len(q) \in Nat /\ Len(t) = Len(q) + 1
      /\ \A j \in 1 .. Len(q) : t[j] = q[j]
      /\ t[Len(q) + 1] = e
    BY AppendProperties, LenProperties
<1> HIDE DEF t
<1>2. \A j \in 1 .. Len(t) : j \in 1 .. Len(q) \/ j = Len(q) + 1
    BY <1>1
<1>3. \A j \in 1 .. Len(q) : j \in 1 .. Len(t)
    BY <1>1
<1>4. QED
    BY <1>1, <1>2, <1>3 DEF t

LEMMA Taken ==
    ASSUME NEW A, NEW q \in Seq(A), q # << >>
    PROVE  /\ Len(q) \in Nat /\ 1 \in 1 .. Len(q) /\ Head(q) = q[1] /\ Head(q) \in A
           /\ Tail(q) \in Seq(A) /\ Len(Tail(q)) = Len(q) - 1
           /\ \A j \in 1 .. Len(Tail(q)) : j + 1 \in 1 .. Len(q) /\ Tail(q)[j] = q[j + 1]
           /\ \A j \in 1 .. Len(q) : j # 1 => j - 1 \in 1 .. Len(Tail(q)) /\ Tail(q)[j - 1] = q[j]
<1> DEFINE t == Tail(q)
<1>1. /\ Len(q) \in Nat /\ Len(q) # 0 /\ Head(q) \in A /\ t \in Seq(A) /\ Len(t) = Len(q) - 1
      /\ \A j \in 1 .. Len(t) : t[j] = q[j + 1]
    BY HeadTailProperties, LenProperties, EmptySeq
<1>2. Head(q) = q[1]
    BY <1>1
<1> HIDE DEF t
<1>3. 1 \in 1 .. Len(q) /\ \A j \in 1 .. Len(t) : j + 1 \in 1 .. Len(q)
    BY <1>1
<1>4. ASSUME NEW j \in 1 .. Len(q), j # 1 PROVE j - 1 \in 1 .. Len(t) /\ t[j - 1] = q[j]
  <2>1. j - 1 \in 1 .. Len(t) /\ (j - 1) + 1 = j
      BY <1>1, <1>4
  <2>2. QED
      BY <1>1, <2>1
<1>5. QED
    BY <1>1, <1>2, <1>3, <1>4 DEF t

-----------------------------------------------------------------------------
(* The types, and that the table has no record twice.                      *)

RequestType(n) == [search : 1 .. n, index : Indices]
AnswerType(n) == [search : 1 .. n, index : Indices, total : Nat, records : Seq(Records), ok : BOOLEAN]

\* What is read of the answer that bindingTableCb is called with.
LEMMA Callee ==
    ASSUME TypeOK, Sizes, answers # << >>
    PROVE  /\ Info \in AnswerType(searches) /\ Info = answers[1] /\ Whole(Info)
           /\ Tail(answers) \in Seq(AnswerType(searches))
           /\ \A j \in 1 .. Len(Tail(answers)) : Whole(Tail(answers)[j])
           /\ NextIndex \in Nat
           /\ (IF Info.index = 0 THEN << >> ELSE all) \o Info.records \in Seq(Records)
<1>1. answers \in Seq(AnswerType(searches))
    BY DEF TypeOK, AnswerType
<1> DEFINE A == AnswerType(searches)
<1> HIDE DEF A
<1>2. /\ 1 \in 1 .. Len(answers) /\ Info = answers[1] /\ Info \in A
      /\ Tail(answers) \in Seq(A)
      /\ \A j \in 1 .. Len(Tail(answers)) : j + 1 \in 1 .. Len(answers) /\ Tail(answers)[j] = answers[j + 1]
    BY <1>1, Taken DEF Info, A
<1>3. Whole(Info) /\ \A j \in 1 .. Len(Tail(answers)) : Whole(Tail(answers)[j])
    BY <1>2 DEF Sizes
<1>4. Info.records \in Seq(Records) /\ Info.index \in Nat
    BY <1>2, Size DEF A, AnswerType, Indices
<1>5. NextIndex \in Nat
    BY <1>4, LenProperties DEF NextIndex
<1>6. << >> \in Seq(Records) /\ all \in Seq(Records)
    BY EmptySeq DEF TypeOK
<1>7. (IF Info.index = 0 THEN << >> ELSE all) \o Info.records \in Seq(Records)
    BY <1>4, <1>6, ConcatProperties
<1>8. QED
    BY <1>2, <1>3, <1>5, <1>7 DEF A

LEMMA IndicationTypes ==
    ASSUME TypeOK, Sizes, Indication, table' \in Seq(Records), IsInjective(table')
    PROVE  TypeOK' /\ Sizes'
<1>1. /\ changes' = changes + 1 /\ searches' = searches + 1
      /\ requests' = Append(requests, Search(searches + 1))
      /\ UNCHANGED <<answers, all, bound, dangling, done, missed>>
      /\ changes < MaxChanges
    BY DEF Indication
<1>2. /\ changes \in 0 .. MaxChanges /\ searches = changes + 1 /\ done \in 0 .. searches
      /\ MaxChanges \in Nat
    BY BindingsAssumption DEF TypeOK, Sizes, BindingsAssumption
<1>3. /\ changes' \in 0 .. MaxChanges /\ searches' \in 1 .. MaxChanges + 1 /\ done' \in 0 .. searches'
      /\ searches' = changes' + 1
    BY <1>1, <1>2
<1>4. 1 .. searches \subseteq 1 .. searches'
    BY <1>1, <1>2
<1>5. requests' \in Seq(RequestType(searches'))
  <2>1. requests \in Seq(RequestType(searches))
      BY DEF TypeOK, RequestType
  <2>2. RequestType(searches) \subseteq RequestType(searches')
      BY <1>4 DEF RequestType
  <2>3. requests \in Seq(RequestType(searches'))
      BY <2>1, <2>2, SeqMonotonic
  <2>4. Search(searches + 1) \in RequestType(searches')
    <3>1. 0 \in Indices /\ searches + 1 \in 1 .. searches'
        BY <1>1, <1>2, Size DEF Indices
    <3>2. QED
        BY <3>1 DEF Search, RequestType
  <2>5. QED
      BY <1>1, <2>3, <2>4, AppendProperties
<1>6. answers' \in Seq(AnswerType(searches'))
  <2>1. answers \in Seq(AnswerType(searches))
      BY DEF TypeOK, AnswerType
  <2>2. AnswerType(searches) \subseteq AnswerType(searches')
      BY <1>4 DEF AnswerType
  <2>3. QED
      BY <1>1, <2>1, <2>2, SeqMonotonic
<1>7. TypeOK'
    BY <1>1, <1>3, <1>5, <1>6 DEF TypeOK, RequestType, AnswerType
<1>8. Sizes'
    BY <1>1, <1>3 DEF Sizes, Whole, Listed
<1>9. QED
    BY <1>7, <1>8

LEMMA BindTypes ==
    ASSUME TypeOK, Sizes, NEW r \in Records, Bind(r)
    PROVE  TypeOK' /\ Sizes'
<1>1. table \in Seq(Records) /\ IsInjective(table)
    BY DEF TypeOK, Sizes
<1>2. table' \in Seq(Records) /\ IsInjective(table')
  <2>1. CASE Contains(table, r)
      BY <1>1, <2>1 DEF Bind
  <2>2. CASE ~Contains(table, r)
      BY <1>1, <2>2, AppendOnce, AppendProperties DEF Bind
  <2>3. QED
      BY <2>1, <2>2
<1>3. QED
    BY <1>2, IndicationTypes DEF Bind

LEMMA UnbindTypes ==
    ASSUME TypeOK, Sizes, NEW i \in 1 .. Len(table), Unbind(i)
    PROVE  TypeOK' /\ Sizes'
<1>1. table \in Seq(Records) /\ IsInjective(table)
    BY DEF TypeOK, Sizes
<1>2. table' \in Seq(Records) /\ IsInjective(table')
    BY <1>1, RemoveOne DEF Unbind
<1>3. QED
    BY <1>2, IndicationTypes DEF Unbind

\* Steps of the stack: what they append to the answers has to be whole.
LEMMA AnswerTypes ==
    ASSUME TypeOK, Sizes, requests # << >>, NEW a \in AnswerType(searches), Whole(a),
           requests' = Tail(requests), answers' = Append(answers, a),
           UNCHANGED <<table, all, bound, dangling, changes, searches, done, missed>>
    PROVE  TypeOK' /\ Sizes'
<1>1. requests \in Seq(RequestType(searches)) /\ answers \in Seq(AnswerType(searches))
    BY DEF TypeOK, RequestType, AnswerType
<1>2. requests' \in Seq(RequestType(searches))
    BY <1>1, HeadTailProperties
<1>3. answers' \in Seq(AnswerType(searches)) /\ \A j \in 1 .. Len(answers') : Whole(answers'[j])
  <2> DEFINE A == AnswerType(searches)
  <2>1. answers \in Seq(A) /\ a \in A
      BY <1>1
  <2> HIDE DEF A
  <2>2. /\ answers' \in Seq(A)
        /\ \A j \in 1 .. Len(answers') :
              \/ j \in 1 .. Len(answers) /\ answers'[j] = answers[j]
              \/ answers'[j] = a
      BY <2>1, Queued
  <2>3. QED
      BY <2>2 DEF Sizes, A
<1>4. TypeOK'
    BY <1>2, <1>3 DEF TypeOK, RequestType, AnswerType
<1>5. Sizes'
    BY <1>3 DEF Sizes, Whole, Listed
<1>6. QED
    BY <1>4, <1>5

\* The oldest request.
LEMMA Oldest ==
    ASSUME TypeOK, requests # << >>
    PROVE  /\ Head(requests) \in RequestType(searches) /\ Head(requests) = requests[1]
           /\ Head(requests).search \in 1 .. searches
           /\ Head(requests).index \in Indices /\ Head(requests).index \in Nat
<1>1. requests \in Seq(RequestType(searches))
    BY DEF TypeOK, RequestType
<1>2. Head(requests) \in RequestType(searches) /\ Head(requests) = requests[1]
    BY <1>1, Taken
<1>3. QED
    BY <1>2, Size DEF RequestType, Indices

\* What Answer and AnswerFails append.
Given(q) == [search |-> q.search, index |-> q.index, total |-> Len(table),
             records |-> Chunk(q.index), ok |-> TRUE]
NotGiven(q) == [search |-> q.search, index |-> 0, total |-> 0, records |-> << >>, ok |-> FALSE]

LEMMA AnswerIs ==
    ASSUME Answer
    PROVE  requests # << >> /\ answers' = Append(answers, Given(Head(requests)))
BY DEF Answer, Given, Chunk

LEMMA AnswerFailsIs ==
    ASSUME AnswerFails
    PROVE  requests # << >> /\ answers' = Append(answers, NotGiven(Head(requests)))
BY DEF AnswerFails, NotGiven

LEMMA GivenType ==
    ASSUME TypeOK, Sizes, requests # << >>
    PROVE  /\ Given(Head(requests)) \in AnswerType(searches) /\ Whole(Given(Head(requests)))
           /\ NotGiven(Head(requests)) \in AnswerType(searches) /\ Whole(NotGiven(Head(requests)))
<1> DEFINE q == Head(requests)
<1>1. q.search \in 1 .. searches /\ q.index \in Indices /\ q.index \in Nat
    BY Oldest
<1> HIDE DEF q
<1>2. table \in Seq(Records) /\ IsInjective(table)
    BY DEF TypeOK, Sizes
<1>3. Chunk(q.index) \in Seq(Records) /\ (q.index < Len(table) => Chunk(q.index) # << >>)
    BY <1>1, <1>2, ChunkRecords
<1>4. Len(table) \in Nat /\ Len(table) <= Cardinality(Records)
    BY <1>2, LenProperties, NoLonger
<1>5. 0 \in Indices /\ << >> \in Seq(Records) /\ 0 <= Cardinality(Records)
    BY Size, EmptySeq DEF Indices
<1>6. Given(q) \in AnswerType(searches) /\ Whole(Given(q))
    BY <1>1, <1>3, <1>4 DEF Given, AnswerType, Whole
<1>7. NotGiven(q) \in AnswerType(searches) /\ Whole(NotGiven(q))
    BY <1>1, <1>5 DEF NotGiven, AnswerType, Whole
<1>8. QED
    BY <1>6, <1>7 DEF q

LEMMA FailedTypes ==
    ASSUME TypeOK, Sizes, Failed
    PROVE  TypeOK' /\ Sizes'
<1>1. /\ answers' \in Seq(AnswerType(searches)) /\ \A j \in 1 .. Len(answers') : Whole(answers'[j])
    BY Callee DEF Failed, Called
<1>2. UNCHANGED <<table, requests, all, bound, dangling, changes, searches, done, missed>>
    BY DEF Failed
<1>3. TypeOK'
    BY <1>1, <1>2 DEF TypeOK, AnswerType
<1>4. Sizes'
    BY <1>1, <1>2 DEF Sizes, Whole, Listed
<1>5. QED
    BY <1>3, <1>4

LEMMA ClearedTypes ==
    ASSUME TypeOK, Sizes, Cleared
    PROVE  TypeOK' /\ Sizes'
<1>1. /\ Info \in AnswerType(searches)
      /\ answers' \in Seq(AnswerType(searches)) /\ \A j \in 1 .. Len(answers') : Whole(answers'[j])
    BY Callee DEF Cleared, Called
<1>2. /\ bound' = << >> /\ dangling' = FALSE /\ done' = Info.search /\ missed' = "nothing"
      /\ UNCHANGED <<table, requests, all, changes, searches>>
    BY DEF Cleared
<1>3. /\ bound' \in Seq(DeviceType) /\ Len(bound') = 0
      /\ done' \in 0 .. searches
  <2>1. Info.search \in 1 .. searches /\ searches \in Nat
      BY <1>1 DEF AnswerType, TypeOK
  <2>2. QED
      BY <1>2, <2>1, EmptySeq
<1>4. TypeOK'
    BY <1>1, <1>2, <1>3 DEF TypeOK, AnswerType
<1>5. Sizes'
    BY <1>1, <1>2, <1>3 DEF Sizes, Whole, Listed
<1>6. QED
    BY <1>4, <1>5

LEMMA MoreTypes ==
    ASSUME TypeOK, Sizes, More
    PROVE  TypeOK' /\ Sizes'
<1>1. /\ Info \in AnswerType(searches) /\ Whole(Info) /\ NextIndex \in Nat
      /\ answers' \in Seq(AnswerType(searches)) /\ \A j \in 1 .. Len(answers') : Whole(answers'[j])
      /\ Collected \in Seq(Records)
    BY Callee DEF More, Called, Collected
<1>2. /\ Info.ok /\ NextIndex < Info.total /\ all' = Collected
      /\ requests' = Append(requests, [search |-> Info.search, index |-> NextIndex])
      /\ UNCHANGED <<table, bound, dangling, changes, searches, done, missed>>
    BY DEF More
<1>3. requests' \in Seq(RequestType(searches))
  <2>1. requests \in Seq(RequestType(searches))
      BY DEF TypeOK, RequestType
  <2>2. Info.total \in Nat /\ Info.total <= Cardinality(Records) /\ Info.search \in 1 .. searches
      BY <1>1, <1>2 DEF Whole, AnswerType
  <2>3. NextIndex \in Indices
      BY <1>1, <1>2, <2>2, Size DEF Indices
  <2>4. [search |-> Info.search, index |-> NextIndex] \in RequestType(searches)
      BY <2>2, <2>3 DEF RequestType
  <2>5. QED
      BY <1>2, <2>1, <2>4, AppendProperties
<1>4. TypeOK'
    BY <1>1, <1>2, <1>3 DEF TypeOK, RequestType, AnswerType
<1>5. Sizes'
    BY <1>1, <1>2 DEF Sizes, Whole, Listed
<1>6. QED
    BY <1>4, <1>5

LEMMA ProcessTypes ==
    ASSUME TypeOK, Sizes, Process
    PROVE  TypeOK' /\ Sizes'
<1>1. /\ Info \in AnswerType(searches)
      /\ answers' \in Seq(AnswerType(searches)) /\ \A j \in 1 .. Len(answers') : Whole(answers'[j])
      /\ Collected \in Seq(Records)
    BY Callee DEF Process, Called, Collected
<1>2. /\ all' = Collected /\ done' = Info.search
      /\ UNCHANGED <<table, requests, changes, searches>>
    BY DEF Process
<1>3. PICK skipped, noMemory :
         /\ bound' = Updated(Erased(all'), all', New(all', ToRemove(all')) \ skipped)
         /\ dangling' = ~(ToRemove(all') \subseteq Erased(all'))
         /\ missed' = IF skipped = {} THEN "nothing" ELSE IF noMemory THEN "memory" ELSE "freed"
    BY DEF Process
<1>4. bound' \in Seq(DeviceType) /\ \A i \in 1 .. Len(bound') : \E r \in Records : bound'[i] = Device(r)
  <2>1. bound \in Seq(DeviceType) /\ Listed /\ all' \in Seq(Records)
      BY <1>1, <1>2 DEF TypeOK, Sizes, Listed
  <2> DEFINE records == all'
             added == New(all', ToRemove(all')) \ skipped
             erased == Erased(all')
  <2>2. /\ bound' = Updated(erased, records, added) /\ records \in Seq(Records)
      BY <1>3, <2>1
  <2> HIDE DEF records, added, erased
  <2>3. /\ bound' \in Seq(DeviceType)
        /\ \A k \in 1 .. Len(bound') :
              \/ \E i \in 1 .. Len(bound) : bound'[k] = bound[i]
              \/ \E i \in 1 .. Len(records) : bound'[k] = Device(records[i])
      BY <2>1, <2>2, UpdatedList
  <2>4. \A i \in 1 .. Len(records) : records[i] \in Records
      BY <2>2, ElementOfSeq
  <2>5. QED
      BY <2>1, <2>3, <2>4 DEF Listed
<1>5. done' \in 0 .. searches
  <2>1. Info.search \in 1 .. searches /\ searches \in Nat
      BY <1>1 DEF AnswerType, TypeOK
  <2>2. QED
      BY <1>2, <2>1
<1>6. dangling' \in BOOLEAN /\ missed' \in {"nothing", "freed", "memory"}
    BY <1>3
<1>7. TypeOK'
    BY <1>1, <1>2, <1>4, <1>5, <1>6 DEF TypeOK, AnswerType
<1>8. Sizes'
    BY <1>1, <1>2, <1>4 DEF Sizes, Whole, Listed
<1>9. QED
    BY <1>7, <1>8

LEMMA InitTypes == Init => TypeOK /\ Sizes
<1> SUFFICES ASSUME Init PROVE TypeOK /\ Sizes
    OBVIOUS
<1>1. table \in Seq(Records) /\ IsInjective(table)
    BY Listing DEF Init
<1>2. requests \in Seq(RequestType(searches))
  <2>1. Search(1) \in RequestType(1)
    <3>1. 0 \in Indices /\ 1 \in 1 .. 1
        BY Size DEF Indices
    <3>2. QED
        BY <3>1 DEF Search, RequestType
  <2>2. QED
      BY <2>1 DEF Init
<1>3. answers \in Seq(AnswerType(searches)) /\ all \in Seq(Records) /\ bound \in Seq(DeviceType)
    BY EmptySeq DEF Init
<1>4. changes \in 0 .. MaxChanges /\ searches \in 1 .. MaxChanges + 1 /\ done \in 0 .. searches
  <2>1. MaxChanges \in Nat
      BY BindingsAssumption DEF BindingsAssumption
  <2>2. changes = 0 /\ searches = 1 /\ done = 0
      BY DEF Init
  <2>3. QED
      BY <2>1, <2>2
<1>5. dangling \in BOOLEAN /\ missed \in {"nothing", "freed", "memory"}
    BY DEF Init
<1>6. TypeOK
    BY <1>1, <1>2, <1>3, <1>4, <1>5 DEF TypeOK, RequestType, AnswerType
<1>7. Sizes
    BY <1>1 DEF Init, Sizes, Listed
<1>8. QED
    BY <1>6, <1>7

LEMMA NextTypes == TypeOK /\ Sizes /\ [Next]_vars => TypeOK' /\ Sizes'
<1> SUFFICES ASSUME TypeOK, Sizes, [Next]_vars PROVE TypeOK' /\ Sizes'
    OBVIOUS
<1>1. CASE \E r \in Records : Bind(r)
    BY <1>1, BindTypes
<1>2. CASE \E i \in 1 .. Len(table) : Unbind(i)
    BY <1>2, UnbindTypes
<1>3. CASE Answer
    BY <1>3, AnswerIs, GivenType, AnswerTypes DEF Answer
<1>4. CASE AnswerFails
    BY <1>4, AnswerFailsIs, GivenType, AnswerTypes DEF AnswerFails
<1>5. CASE Failed
    BY <1>5, FailedTypes
<1>6. CASE Cleared
    BY <1>6, ClearedTypes
<1>7. CASE More
    BY <1>7, MoreTypes
<1>8. CASE Process
    BY <1>8, ProcessTypes
<1>9. CASE UNCHANGED vars
  <2>1. TypeOK'
      BY <1>9 DEF vars, TypeOK
  <2>2. Sizes'
      BY <1>9 DEF vars, Sizes, Whole, Listed
  <2>3. QED
      BY <2>1, <2>2
<1>10. QED
    BY <1>1, <1>2, <1>3, <1>4, <1>5, <1>6, <1>7, <1>8, <1>9 DEF Next

LEMMA Types == Spec => [](TypeOK /\ Sizes)
<1>1. TypeOK /\ Sizes /\ [Next]_vars => (TypeOK /\ Sizes)'
    BY NextTypes
<1>2. QED
    BY InitTypes, <1>1, PTL DEF Spec

-----------------------------------------------------------------------------
(* The phases of the newest search: the steps of the stack.                *)

LEMMA Queues ==
    ASSUME TypeOK
    PROVE  /\ \A j \in 1 .. Len(requests) : requests[j].search \in 1 .. searches /\ requests[j].index \in Nat
           /\ \A j \in 1 .. Len(answers) : answers[j].search \in 1 .. searches /\ answers[j].index \in Nat
                                           /\ answers[j].ok \in BOOLEAN
           /\ searches \in Nat /\ done \in 0 .. searches
<1>1. requests \in Seq(RequestType(searches)) /\ answers \in Seq(AnswerType(searches))
    BY DEF TypeOK, RequestType, AnswerType
<1>2. \A j \in 1 .. Len(requests) : requests[j] \in RequestType(searches)
    BY <1>1, ElementOfSeq
<1>3. \A j \in 1 .. Len(answers) : answers[j] \in AnswerType(searches)
    BY <1>1, ElementOfSeq
<1>4. Indices \subseteq Nat
    BY Size DEF Indices
<1>5. \A j \in 1 .. Len(requests) : requests[j].search \in 1 .. searches /\ requests[j].index \in Nat
    BY <1>2, <1>4 DEF RequestType
<1>6. \A j \in 1 .. Len(answers) : answers[j].search \in 1 .. searches /\ answers[j].index \in Nat
                                   /\ answers[j].ok \in BOOLEAN
    BY <1>3, <1>4 DEF AnswerType
<1>7. searches \in Nat /\ done \in 0 .. searches
    BY DEF TypeOK
<1>8. QED
    BY <1>5, <1>6, <1>7

LEMMA IndicationAsks ==
    ASSUME TypeOK, Indication
    PROVE  Asked'
<1> DEFINE q == Search(searches + 1)
           A == RequestType(searches + 1)
           p == Len(requests) + 1
<1>1. /\ searches' = searches + 1 /\ requests' = Append(requests, q)
      /\ answers' = answers /\ done' = done
    BY DEF Indication
<1>2. searches \in Nat /\ done # searches' /\ \A m \in 1 .. searches : m # searches'
    BY <1>1, Queues
<1>3. requests \in Seq(A) /\ q \in A
  <2>1. 1 .. searches \subseteq 1 .. searches + 1 /\ searches + 1 \in 1 .. searches + 1
      BY <1>2
  <2>2. RequestType(searches) \subseteq A
      BY <2>1 DEF RequestType
  <2>3. requests \in Seq(RequestType(searches))
      BY DEF TypeOK, RequestType
  <2>4. q \in A
      BY <2>1, Size DEF RequestType, Search, Indices
  <2> HIDE DEF A, q
  <2>5. QED
      BY <2>2, <2>3, <2>4, SeqMonotonic
<1>4. q = Search(searches')
    BY <1>1
<1> HIDE DEF A, q
<1>5. /\ Len(requests) \in Nat /\ Len(requests') = p
      /\ \A j \in 1 .. p : \/ j \in 1 .. Len(requests) /\ requests'[j] = requests[j]
                           \/ j = p /\ requests'[j] = q
  <2>1. /\ Len(requests) \in Nat /\ Len(requests') = Len(requests) + 1
        /\ \A j \in 1 .. Len(requests') :
              \/ j \in 1 .. Len(requests) /\ requests'[j] = requests[j]
              \/ j = Len(requests) + 1 /\ requests'[j] = q
      BY <1>1, <1>3, Queued
  <2>2. QED
      BY <2>1
<1>6. p \in 1 .. Len(requests') /\ ~(p \in 1 .. Len(requests))
      /\ \A j \in 1 .. Len(requests') : ~(j > p)
    BY <1>5
<1>7. requests'[p] = Search(searches')
    BY <1>4, <1>5, <1>6
<1>8. \A j \in 1 .. Len(requests') : j # p => requests'[j].search # searches'
  <2>1. \A j \in 1 .. Len(requests) : requests[j].search # searches'
      BY <1>2, Queues
  <2>2. QED
      BY <1>5, <2>1
<1>9. \A j \in 1 .. Len(answers') : answers'[j].search # searches'
    BY <1>1, <1>2, Queues
<1> HIDE DEF p
<1>10. QED
    BY <1>1, <1>2, <1>6, <1>7, <1>8, <1>9 DEF Asked

\* What a stack's answer a to the oldest request is.
Fits(a) ==
    /\ a.search = Head(requests).search
    /\ a.ok => a.index = Head(requests).index
    /\ a.ok \in BOOLEAN
    /\ ReadFrom(table, a)

LEMMA StackFits ==
    ASSUME TypeOK, requests # << >>
    PROVE  Fits(Given(Head(requests))) /\ Fits(NotGiven(Head(requests)))
BY DEF Fits, Given, NotGiven, ReadFrom, Chunk

\* The queues after an answer.
LEMMA StackQueues ==
    ASSUME TypeOK, requests # << >>, NEW a \in AnswerType(searches),
           requests' = Tail(requests), answers' = Append(answers, a)
    PROVE  /\ 1 \in 1 .. Len(requests) /\ Head(requests) = requests[1]
           /\ \A j \in 1 .. Len(requests') : j + 1 \in 1 .. Len(requests) /\ requests'[j] = requests[j + 1]
           /\ \A j \in 1 .. Len(requests) :
                 j # 1 => j - 1 \in 1 .. Len(requests') /\ requests'[j - 1] = requests[j]
           /\ Len(answers) \in Nat /\ Len(answers') = Len(answers) + 1
           /\ \A j \in 1 .. Len(answers) : j \in 1 .. Len(answers') /\ answers'[j] = answers[j]
           /\ \A j \in 1 .. Len(answers') :
                 \/ j \in 1 .. Len(answers) /\ answers'[j] = answers[j]
                 \/ j = Len(answers) + 1 /\ answers'[j] = a
<1> DEFINE A == AnswerType(searches)
           R == RequestType(searches)
<1>1. requests \in Seq(R) /\ answers \in Seq(A) /\ a \in A
    BY DEF TypeOK, RequestType, AnswerType
<1> HIDE DEF A, R
<1>2. /\ 1 \in 1 .. Len(requests) /\ Head(requests) = requests[1]
      /\ \A j \in 1 .. Len(requests') : j + 1 \in 1 .. Len(requests) /\ requests'[j] = requests[j + 1]
      /\ \A j \in 1 .. Len(requests) :
            j # 1 => j - 1 \in 1 .. Len(requests') /\ requests'[j - 1] = requests[j]
    BY <1>1, Taken
<1>3. /\ Len(answers) \in Nat /\ Len(answers') = Len(answers) + 1
      /\ \A j \in 1 .. Len(answers) : j \in 1 .. Len(answers') /\ answers'[j] = answers[j]
      /\ \A j \in 1 .. Len(answers') :
            \/ j \in 1 .. Len(answers) /\ answers'[j] = answers[j]
            \/ j = Len(answers) + 1 /\ answers'[j] = a
    BY <1>1, Queued
<1>4. QED
    BY <1>2, <1>3

LEMMA StackKeeps ==
    ASSUME TypeOK, Newest, requests # << >>, NEW a \in AnswerType(searches), Fits(a),
           requests' = Tail(requests), answers' = Append(answers, a),
           UNCHANGED <<table, all, bound, dangling, changes, searches, done, missed>>
    PROVE  Newest'
<1> DEFINE last == Len(answers) + 1
<1>1. /\ 1 \in 1 .. Len(requests) /\ Head(requests) = requests[1]
      /\ \A j \in 1 .. Len(requests') : j + 1 \in 1 .. Len(requests) /\ requests'[j] = requests[j + 1]
      /\ \A j \in 1 .. Len(requests) :
            j # 1 => j - 1 \in 1 .. Len(requests') /\ requests'[j - 1] = requests[j]
    BY StackQueues
<1>2. /\ Len(answers) \in Nat /\ last \in 1 .. Len(answers') /\ answers'[last] = a
      /\ \A j \in 1 .. Len(answers) : j \in 1 .. Len(answers') /\ answers'[j] = answers[j] /\ j # last
      /\ \A j \in 1 .. Len(answers') :
            \/ j \in 1 .. Len(answers) /\ answers'[j] = answers[j]
            \/ j = last /\ answers'[j] = a
      /\ \A j \in 1 .. Len(answers') : j >= last => j = last
  <2>1. /\ Len(answers) \in Nat /\ Len(answers') = last
        /\ \A j \in 1 .. Len(answers) : j \in 1 .. Len(answers') /\ answers'[j] = answers[j]
        /\ \A j \in 1 .. Len(answers') :
              \/ j \in 1 .. Len(answers) /\ answers'[j] = answers[j]
              \/ j = last /\ answers'[j] = a
      BY StackQueues
  <2>2. last \in 1 .. last /\ \A j \in 1 .. Len(answers) : j # last
      BY <2>1
  <2>3. \A j \in 1 .. last : j >= last => j = last
      BY <2>1
  <2> HIDE DEF last
  <2>4. QED
      BY <2>1, <2>2, <2>3
<1>3. /\ a.search = requests[1].search /\ (a.ok => a.index = requests[1].index) /\ a.ok \in BOOLEAN
      /\ ReadFrom(table, a)
    BY <1>1 DEF Fits
<1> HIDE DEF last
<1>4. table' = table /\ all' = all
    OBVIOUS
<1>5. \A j \in 1 .. Len(requests) : j \in Nat
    OBVIOUS
<1>6. CASE Asked
  <2>1. PICK p \in 1 .. Len(requests) :
            /\ requests[p] = Search(searches)
            /\ \A j \in 1 .. Len(requests) : j # p => requests[j].search # searches
            /\ \A j \in 1 .. Len(requests) : j > p => requests[j].index # 0
            /\ \A j \in 1 .. Len(answers) : answers[j].search # searches
            /\ done # searches
      BY <1>6 DEF Asked
  <2>2. CASE p # 1
    <3>1. p - 1 \in 1 .. Len(requests') /\ requests'[p - 1] = requests[p]
        BY <1>1, <2>2
    <3>2. ASSUME NEW j \in 1 .. Len(requests')
          PROVE  /\ j # p - 1 => requests'[j].search # searches
                 /\ j > p - 1 => requests'[j].index # 0
      <4>1. j + 1 \in 1 .. Len(requests) /\ requests'[j] = requests[j + 1]
          BY <1>1
      <4>2. (j # p - 1 => j + 1 # p) /\ (j > p - 1 => j + 1 > p)
          BY <1>5, <4>1
      <4>3. QED
          BY <2>1, <4>1, <4>2
    <3>3. \A j \in 1 .. Len(answers') : answers'[j].search # searches
        BY <1>1, <1>2, <1>3, <2>1, <2>2
    <3>4. Asked'
        BY <2>1, <3>1, <3>2, <3>3 DEF Asked, Search
    <3>5. QED
        BY <3>4 DEF Newest
  <2>3. CASE p = 1
    <3>1. \A j \in 1 .. Len(requests') : requests'[j].search # searches /\ requests'[j].index # 0
      <4> TAKE j \in 1 .. Len(requests')
      <4>1. j + 1 \in 1 .. Len(requests) /\ requests'[j] = requests[j + 1] /\ j + 1 # 1 /\ j + 1 > 1
          BY <1>1
      <4>2. QED
          BY <2>1, <2>3, <4>1
    <3>2. a.search = searches /\ (a.ok => a.index = 0)
        BY <1>3, <2>1, <2>3 DEF Search
    <3>3. CASE a.ok
      <4>1. answers'[last].search = searches /\ answers'[last].ok /\ answers'[last].index = 0
          BY <1>2, <3>2, <3>3
      <4>2. \A j \in 1 .. Len(answers') : j # last => answers'[j].search # searches
          BY <1>2, <2>1
      <4>3. \A j \in 1 .. Len(answers') : j >= last => ReadFrom(table', answers'[j])
          BY <1>2, <1>3, <1>4
      <4>4. \A j \in 1 .. Len(answers') : ~(j > last)
        <5>1. \A j \in 1 .. Len(answers') : j >= last => j = last
            BY <1>2
        <5>2. last \in Nat
            BY <1>2 DEF last
        <5>3. QED
            BY <5>1, <5>2
      <4>5. Answered'
          BY <1>2, <2>1, <3>1, <4>1, <4>2, <4>3, <4>4 DEF Answered
      <4>6. QED
          BY <4>5 DEF Newest
    <3>4. CASE ~a.ok
      <4>1. \A j \in 1 .. Len(answers') : answers'[j].ok => answers'[j].search # searches
          BY <1>2, <2>1, <3>4
      <4>2. NotAnswered'
          BY <2>1, <3>1, <4>1 DEF NotAnswered
      <4>3. QED
          BY <4>2 DEF Newest
    <3>5. QED
        BY <3>3, <3>4
  <2>4. QED
      BY <2>2, <2>3
<1>7. CASE Answered
  <2>1. PICK p \in 1 .. Len(answers) :
            /\ answers[p].search = searches /\ answers[p].ok /\ answers[p].index = 0
            /\ \A j \in 1 .. Len(answers) : j # p => answers[j].search # searches
            /\ \A j \in 1 .. Len(answers) : j >= p => ReadFrom(table, answers[j])
            /\ \A j \in 1 .. Len(answers) : j > p /\ answers[j].ok => answers[j].index # 0
            /\ \A j \in 1 .. Len(requests) : requests[j].search # searches /\ requests[j].index # 0
            /\ done # searches
      BY <1>7 DEF Answered
  <2>2. p \in 1 .. Len(answers') /\ answers'[p] = answers[p]
      BY <1>2
  <2>3. \A j \in 1 .. Len(answers') : j # p => answers'[j].search # searches
      BY <1>1, <1>2, <1>3, <2>1
  <2>4. \A j \in 1 .. Len(answers') : j >= p => ReadFrom(table', answers'[j])
      BY <1>2, <1>3, <1>4, <2>1
  <2>5. \A j \in 1 .. Len(answers') : j > p /\ answers'[j].ok => answers'[j].index # 0
    <3>1. a.ok => a.index # 0
        BY <1>1, <1>3, <2>1
    <3>2. QED
        BY <1>2, <2>1, <3>1
  <2>6. \A j \in 1 .. Len(requests') : requests'[j].search # searches /\ requests'[j].index # 0
      BY <1>1, <2>1
  <2>7. Answered'
      BY <2>1, <2>2, <2>3, <2>4, <2>5, <2>6 DEF Answered
  <2>8. QED
      BY <2>7 DEF Newest
<1>8. CASE Collecting
  <2>2. /\ ReadFrom(table, a)
        /\ a.ok => a.index # 0
        /\ a.ok /\ a.search = searches => Cover(all, table, a.index)
      BY <1>1, <1>3, <1>8 DEF Collecting
  <2>3. \A j \in 1 .. Len(answers') :
          /\ ReadFrom(table', answers'[j])
          /\ answers'[j].ok => answers'[j].index # 0
          /\ answers'[j].ok /\ answers'[j].search = searches => Cover(all', table', answers'[j].index)
    <3> TAKE j \in 1 .. Len(answers')
    <3>1. CASE answers'[j] = a
        BY <1>4, <2>2, <3>1
    <3>2. CASE j \in 1 .. Len(answers) /\ answers'[j] = answers[j]
        BY <1>4, <1>8, <3>2 DEF Collecting
    <3>3. QED
        BY <1>2, <3>1, <3>2
  <2>4. \A j \in 1 .. Len(requests') :
          /\ requests'[j].index # 0
          /\ requests'[j].search = searches => Cover(all', table', requests'[j].index)
      BY <1>1, <1>4, <1>8 DEF Collecting
  <2>5. table' # << >> => OnlyFrom(table', all')
      BY <1>8 DEF Collecting
  <2>6. done' = searches' => Follows'
      BY <1>8 DEF Collecting, Follows
  <2>7. Collecting'
      BY <2>3, <2>4, <2>5, <2>6 DEF Collecting
  <2>8. QED
      BY <2>7 DEF Newest
<1>9. CASE NotAnswered
  <2>1. \A j \in 1 .. Len(requests') : requests'[j].search # searches
      BY <1>1, <1>9 DEF NotAnswered
  <2>2. \A j \in 1 .. Len(answers') : answers'[j].ok => answers'[j].search # searches
      BY <1>1, <1>2, <1>3, <1>9 DEF NotAnswered
  <2>3. NotAnswered'
      BY <1>9, <2>1, <2>2 DEF NotAnswered
  <2>4. QED
      BY <2>3 DEF Newest
<1>10. QED
    BY <1>6, <1>7, <1>8, <1>9 DEF Newest

-----------------------------------------------------------------------------
(* The phases of the newest search: the callbacks.                         *)

\* What the four callbacks have in common: the oldest answer is taken, the next
\* chunk may be requested and a search may end, both for an answer without error.
Following == [search |-> Info.search, index |-> NextIndex]
Handled ==
    /\ answers # << >>
    /\ answers' = Tail(answers)
    /\ UNCHANGED <<table, searches>>
    /\ requests' = requests \/ (Info.ok /\ NextIndex # 0 /\ requests' = Append(requests, Following))
    /\ done' = done \/ (Info.ok /\ done' = Info.search)

LEMMA NextIndexLater ==
    ASSUME TypeOK, Sizes, answers # << >>, Info.ok, NextIndex < Info.total
    PROVE  NextIndex # 0
<1>1. Info.records \in Seq(Records) /\ Info.index \in Nat /\ Info.total \in Nat /\ Whole(Info)
    BY Callee, Size DEF AnswerType, Indices
<1>2. Len(Info.records) \in Nat
    BY <1>1, LenProperties
<1>3. Info.index < Info.total
    BY <1>1, <1>2 DEF NextIndex
<1>4. Len(Info.records) # 0
    BY <1>1, <1>3, EmptySeq DEF Whole
<1>5. QED
    BY <1>1, <1>2, <1>4 DEF NextIndex

LEMMA CallbackHandles ==
    ASSUME TypeOK, Sizes, Failed \/ Cleared \/ More \/ Process
    PROVE  Handled
<1>1. CASE Failed
    BY <1>1 DEF Failed, Called, Handled
<1>2. CASE Cleared
    BY <1>2 DEF Cleared, Called, Handled
<1>3. CASE More
    BY <1>3, NextIndexLater DEF More, Called, Handled, Following
<1>4. CASE Process
    BY <1>4 DEF Process, Called, Handled
<1>5. QED
    BY <1>1, <1>2, <1>3, <1>4

\* The queues after a callback.
LEMMA HandledQueues ==
    ASSUME TypeOK, Sizes, Handled
    PROVE  /\ 1 \in 1 .. Len(answers) /\ Info = answers[1]
           /\ \A j \in 1 .. Len(answers') : j + 1 \in 1 .. Len(answers) /\ answers'[j] = answers[j + 1]
           /\ \A j \in 1 .. Len(answers) :
                 j # 1 => j - 1 \in 1 .. Len(answers') /\ answers'[j - 1] = answers[j]
           /\ \A j \in 1 .. Len(requests) :
                 j \in 1 .. Len(requests') /\ requests'[j] = requests[j]
           /\ \A j \in 1 .. Len(requests') :
                 \/ j \in 1 .. Len(requests) /\ requests'[j] = requests[j]
                 \/ Info.ok /\ NextIndex # 0 /\ requests'[j] = Following
<1> DEFINE A == AnswerType(searches)
           R == RequestType(searches)
<1>1. requests \in Seq(R) /\ answers \in Seq(A)
    BY DEF TypeOK, RequestType, AnswerType
<1> HIDE DEF A
<1>2. /\ 1 \in 1 .. Len(answers) /\ Info = answers[1]
      /\ \A j \in 1 .. Len(answers') : j + 1 \in 1 .. Len(answers) /\ answers'[j] = answers[j + 1]
      /\ \A j \in 1 .. Len(answers) :
            j # 1 => j - 1 \in 1 .. Len(answers') /\ answers'[j - 1] = answers[j]
    BY <1>1, Taken DEF Info, Handled
<1>3. CASE requests' = requests
    BY <1>2, <1>3
<1>4. CASE Info.ok /\ NextIndex # 0 /\ requests' = Append(requests, Following)
  <2> DEFINE S == R \cup {Following}
  <2>1. requests \in Seq(S) /\ Following \in S
    <3>1. R \subseteq S /\ Following \in S
        OBVIOUS
    <3> HIDE DEF R, S
    <3>2. QED
        BY <1>1, <3>1, SeqMonotonic
  <2> HIDE DEF S, R
  <2>2. /\ \A j \in 1 .. Len(requests) :
              j \in 1 .. Len(requests') /\ requests'[j] = requests[j]
        /\ \A j \in 1 .. Len(requests') :
              \/ j \in 1 .. Len(requests) /\ requests'[j] = requests[j]
              \/ j = Len(requests) + 1 /\ requests'[j] = Following
      BY <1>4, <2>1, Queued
  <2>3. QED
      BY <1>2, <1>4, <2>2
<1>5. QED
    BY <1>3, <1>4 DEF Handled

LEMMA HandledAsked ==
    ASSUME TypeOK, Sizes, Handled, Asked
    PROVE  Asked'
<1>1. PICK p \in 1 .. Len(requests) :
          /\ requests[p] = Search(searches)
          /\ \A j \in 1 .. Len(requests) : j # p => requests[j].search # searches
          /\ \A j \in 1 .. Len(requests) : j > p => requests[j].index # 0
          /\ \A j \in 1 .. Len(answers) : answers[j].search # searches
          /\ done # searches
    BY DEF Asked
<1>2. Info.search # searches /\ searches' = searches
    BY <1>1, HandledQueues DEF Handled
<1>3. p \in 1 .. Len(requests') /\ requests'[p] = Search(searches)
    BY <1>1, HandledQueues
<1>4. \A j \in 1 .. Len(requests') : j # p => requests'[j].search # searches
    BY <1>1, <1>2, HandledQueues DEF Following
<1>5. \A j \in 1 .. Len(requests') : j > p => requests'[j].index # 0
  <2> TAKE j \in 1 .. Len(requests')
  <2> HAVE j > p
  <2>1. CASE j \in 1 .. Len(requests) /\ requests'[j] = requests[j]
      BY <1>1, <2>1
  <2>2. CASE NextIndex # 0 /\ requests'[j] = Following
      BY <2>2 DEF Following
  <2>3. QED
      BY <2>1, <2>2, HandledQueues
<1>6. \A j \in 1 .. Len(answers') : answers'[j].search # searches
    BY <1>1, HandledQueues
<1>7. done' # searches
    BY <1>1, <1>2 DEF Handled
<1>8. QED
    BY <1>2, <1>3, <1>4, <1>5, <1>6, <1>7 DEF Asked, Search

LEMMA HandledNotAnswered ==
    ASSUME TypeOK, Sizes, Handled, NotAnswered
    PROVE  NotAnswered'
<1>1. Info.ok => Info.search # searches
    BY HandledQueues DEF NotAnswered
<1>2. searches' = searches
    BY DEF Handled
<1>3. \A j \in 1 .. Len(requests') : requests'[j].search # searches
    BY <1>1, HandledQueues DEF NotAnswered, Following
<1>4. \A j \in 1 .. Len(answers') : answers'[j].ok => answers'[j].search # searches
    BY HandledQueues DEF NotAnswered
<1>5. done' # searches
    BY <1>1 DEF Handled, NotAnswered
<1>6. QED
    BY <1>2, <1>3, <1>4, <1>5 DEF NotAnswered

LEMMA HandledAnswered ==
    ASSUME TypeOK, Sizes, Handled, Answered, Info.search # searches
    PROVE  Answered'
<1>1. PICK p \in 1 .. Len(answers) :
          /\ answers[p].search = searches /\ answers[p].ok /\ answers[p].index = 0
          /\ \A j \in 1 .. Len(answers) : j # p => answers[j].search # searches
          /\ \A j \in 1 .. Len(answers) : j >= p => ReadFrom(table, answers[j])
          /\ \A j \in 1 .. Len(answers) : j > p /\ answers[j].ok => answers[j].index # 0
          /\ \A j \in 1 .. Len(requests) : requests[j].search # searches /\ requests[j].index # 0
          /\ done # searches
    BY DEF Answered
<1>2. p # 1 /\ searches' = searches /\ table' = table
    BY <1>1, HandledQueues DEF Handled
<1>3. p - 1 \in 1 .. Len(answers') /\ answers'[p - 1] = answers[p]
    BY <1>2, HandledQueues
<1>4. ASSUME NEW j \in 1 .. Len(answers')
      PROVE  /\ j # p - 1 => answers'[j].search # searches
             /\ j >= p - 1 => ReadFrom(table, answers'[j])
             /\ j > p - 1 /\ answers'[j].ok => answers'[j].index # 0
  <2>1. j + 1 \in 1 .. Len(answers) /\ answers'[j] = answers[j + 1]
      BY HandledQueues
  <2>2. (j # p - 1 => j + 1 # p) /\ (j >= p - 1 => j + 1 >= p) /\ (j > p - 1 => j + 1 > p)
      BY <2>1
  <2>3. QED
      BY <1>1, <2>1, <2>2
<1>5. \A j \in 1 .. Len(requests') : requests'[j].search # searches /\ requests'[j].index # 0
    BY <1>1, HandledQueues DEF Following
<1>6. done' # searches
    BY <1>1 DEF Handled
<1>7. QED
    BY <1>1, <1>2, <1>3, <1>4, <1>5, <1>6 DEF Answered

-----------------------------------------------------------------------------
(* Collecting the chunks of the newest search.                             *)

LEMMA CollectedCover ==
    ASSUME TypeOK, Sizes, answers # << >>, Info.ok, ReadFrom(table, Info),
           Info.index # 0 => OnlyFrom(table, all)
    PROVE  /\ OnlyFrom(table, Collected)
           /\ Info.index # 0 => \A n \in Nat : Cover(all, table, n) => Cover(Collected, table, n)
           /\ Info.index = 0 \/ Cover(all, table, Info.index) => Cover(Collected, table, NextIndex)
<1> DEFINE before == IF Info.index = 0 THEN << >> ELSE all
           chunk == Info.records
           now == before \o chunk
<1>1. Info.index \in Nat /\ table \in Seq(Records) /\ all \in Seq(Records)
    BY Callee, Size DEF AnswerType, Indices, TypeOK
<1>2. chunk = Chunk(Info.index)
    BY DEF ReadFrom, Chunk
<1>3. /\ chunk \in Seq(Records) /\ Len(chunk) \in Nat
      /\ \A i \in 1 .. Len(chunk) : Info.index + i \in 1 .. Len(table) /\ chunk[i] = table[Info.index + i]
    BY <1>1, <1>2, ChunkRecords
<1>4. before \in Seq(Records) /\ Len(before) \in Nat
    BY <1>1, EmptySeq, LenProperties
<1>5. Info.index = 0 => Len(before) = 0
    BY EmptySeq
<1>6. Info.index # 0 => before = all
    OBVIOUS
<1>7. Collected = now
    BY DEF Collected
<1>8. NextIndex = Info.index + Len(chunk)
    BY DEF NextIndex
<1> HIDE DEF before, chunk
<1>9. /\ now \in Seq(Records) /\ Len(now) = Len(before) + Len(chunk)
      /\ \A k \in 1 .. Len(before) + Len(chunk) :
            now[k] = IF k <= Len(before) THEN before[k] ELSE chunk[k - Len(before)]
    BY <1>3, <1>4, ConcatProperties
<1> HIDE DEF now
\* Which records are in it.
<1>10. \A k \in 1 .. Len(before) : k \in 1 .. Len(now) /\ now[k] = before[k]
    BY <1>3, <1>4, <1>9
<1>11. ASSUME NEW i \in 1 .. Len(chunk)
       PROVE  Len(before) + i \in 1 .. Len(now) /\ now[Len(before) + i] = chunk[i]
  <2>1. /\ Len(before) + i \in 1 .. Len(before) + Len(chunk)
        /\ ~(Len(before) + i <= Len(before))
        /\ (Len(before) + i) - Len(before) = i
      BY <1>3, <1>4
  <2>2. QED
      BY <1>9, <2>1
<1>12. ASSUME NEW k \in 1 .. Len(now)
       PROVE  \/ k \in 1 .. Len(before) /\ now[k] = before[k]
              \/ \E i \in 1 .. Len(chunk) : now[k] = chunk[i]
  <2>1. CASE k <= Len(before)
      BY <1>4, <1>9, <1>10, <2>1
  <2>2. CASE ~(k <= Len(before))
    <3>1. k - Len(before) \in 1 .. Len(chunk) /\ k \in 1 .. Len(before) + Len(chunk)
        BY <1>3, <1>4, <1>9, <2>2
    <3>2. QED
        BY <1>9, <2>2, <3>1
  <2>3. QED
      BY <2>1, <2>2
<1>13. OnlyFrom(table, now)
  <2> SUFFICES ASSUME NEW k \in 1 .. Len(now) PROVE \E i \in 1 .. Len(table) : now[k] = table[i]
      BY DEF OnlyFrom
  <2>1. CASE k \in 1 .. Len(before) /\ now[k] = before[k]
    <3>1. Info.index # 0
        BY <1>5, <2>1
    <3>2. QED
        BY <1>6, <2>1, <3>1 DEF OnlyFrom
  <2>2. CASE \E i \in 1 .. Len(chunk) : now[k] = chunk[i]
      BY <1>3, <2>2
  <2>3. QED
      BY <1>12, <2>1, <2>2
<1>14. ASSUME Info.index # 0, NEW n \in Nat, Cover(all, table, n) PROVE Cover(now, table, n)
    BY <1>6, <1>10, <1>14 DEF Cover
<1>15. ASSUME Info.index = 0 \/ Cover(all, table, Info.index) PROVE Cover(now, table, NextIndex)
  <2> SUFFICES ASSUME NEW i \in 1 .. Len(table), i <= NextIndex
               PROVE  \E k \in 1 .. Len(now) : now[k] = table[i]
      BY DEF Cover
  <2>1. CASE i <= Info.index
    <3>1. Info.index # 0
        BY <1>1, <2>1
    <3>2. \E k \in 1 .. Len(all) : all[k] = table[i]
        BY <1>15, <2>1, <3>1 DEF Cover
    <3>3. QED
        BY <1>6, <1>10, <3>1, <3>2
  <2>2. CASE ~(i <= Info.index)
    <3>1. i - Info.index \in 1 .. Len(chunk) /\ Info.index + (i - Info.index) = i
        BY <1>1, <1>3, <1>8, <2>2
    <3>2. chunk[i - Info.index] = table[i]
        BY <1>3, <3>1
    <3>3. QED
        BY <1>11, <3>1, <3>2
  <2>3. QED
      BY <2>1, <2>2
<1>16. QED
    BY <1>7, <1>13, <1>14, <1>15

\* The pass over the whole table makes the list that of the table.
LEMMA ProcessFollows ==
    ASSUME OnlyIeee, TypeOK, Sizes, Process,
           OnlyFrom(table, Collected), Cover(Collected, table, Len(table))
    PROVE  Follows'
<1> DEFINE records == Collected
           gone == ToRemove(records)
           new == New(records, gone)
<1>1. all' = records /\ table' = table
    BY DEF Process
<1>2. PICK skipped, noMemory :
         /\ bound' = Updated(Erased(records), records, new \ skipped)
         /\ missed' = IF skipped = {} THEN "nothing" ELSE IF noMemory THEN "memory" ELSE "freed"
    BY <1>1 DEF Process
<1>3. records \in Seq(Records)
    BY Callee DEF Process, Called, Collected
<1>4. bound \in Seq(DeviceType) /\ Listed /\ Len(bound) \in Nat
    BY LenProperties DEF TypeOK, Sizes, Listed
<1> HIDE DEF records
<1>5. Erased(records) = gone
    BY <1>3, <1>4, ErasedAreGone
<1> HIDE DEF gone, new
<1>6. /\ \A k \in 1 .. Len(bound') :
            \/ \E i \in 1 .. Len(bound) : i \notin gone /\ bound'[k] = bound[i]
            \/ \E i \in 1 .. Len(records) : bound'[k] = Device(records[i])
      /\ \A i \in 1 .. Len(bound) : i \notin gone => \E k \in 1 .. Len(bound') : bound'[k] = bound[i]
      /\ \A i \in 1 .. Len(records) :
            i \in new \ skipped => \E k \in 1 .. Len(bound') : bound'[k] = Device(records[i])
  <2> DEFINE added == new \ skipped
  <2>1. bound' = Updated(gone, records, added)
      BY <1>2, <1>5
  <2> HIDE DEF added
  <2>2. LET list == Updated(gone, records, added)
        IN  /\ \A k \in 1 .. Len(list) :
                  \/ \E i \in 1 .. Len(bound) : i \notin gone /\ list[k] = bound[i]
                  \/ \E i \in 1 .. Len(records) : i \in added /\ list[k] = Device(records[i])
            /\ \A i \in 1 .. Len(bound) : i \notin gone => \E k \in 1 .. Len(list) : list[k] = bound[i]
            /\ \A i \in 1 .. Len(records) :
                  i \in added => \E k \in 1 .. Len(list) : list[k] = Device(records[i])
      BY <1>3, <1>4, UpdatedList
  <2>3. QED
      BY <2>1, <2>2 DEF added
<1>7. \A i \in 1 .. Len(records) : \E j \in 1 .. Len(table) : records[i] = table[j]
    BY DEF OnlyFrom, records
<1>8. \A j \in 1 .. Len(table) : \E i \in 1 .. Len(records) : records[i] = table[j]
  <2>1. \A j \in 1 .. Len(table) : j <= Len(table)
      BY LenProperties DEF TypeOK
  <2>2. QED
      BY <2>1 DEF Cover, records
\* No ghost.
<1>9. \A k \in 1 .. Len(bound') : \E j \in 1 .. Len(table) : Device(table[j]).ieee = bound'[k].ieee
  <2> TAKE k \in 1 .. Len(bound')
  <2>1. CASE \E i \in 1 .. Len(records) : bound'[k] = Device(records[i])
      BY <1>7, <2>1
  <2>2. CASE \E i \in 1 .. Len(bound) : i \notin gone /\ bound'[k] = bound[i]
    <3>1. PICK i \in 1 .. Len(bound) : i \notin gone /\ bound'[k] = bound[i]
        BY <2>2
    <3>2. bound[i].short = NoShort
        BY <1>4, IeeeListed
    <3>3. IsFound(bound[i], records)
        BY <3>1 DEF gone, ToRemove
    <3>4. \E m \in 1 .. Len(records) : Device(records[m]).ieee = bound[i].ieee
        BY <1>3, <3>2, <3>3, IeeeFound
    <3>5. QED
        BY <1>7, <3>1, <3>4
  <2>3. QED
      BY <1>6, <2>1, <2>2
\* None lost.
<1>10. ASSUME missed' = "nothing", NEW j \in 1 .. Len(table)
       PROVE  \E k \in 1 .. Len(bound') : Device(table[j]).ieee = bound'[k].ieee
  <2>1. skipped = {}
      BY <1>2, <1>10
  <2>2. PICK i \in 1 .. Len(records) : records[i] = table[j]
      BY <1>8
  <2>3. CASE i \in new
      BY <1>6, <2>1, <2>2, <2>3
  <2>4. CASE i \notin new
    <3>1. PICK b \in (1 .. Len(bound)) \ gone : SameAddress(records[i], bound[b])
        BY <2>4 DEF new, New
    <3>2. records[i].target.kind = "ieee"
        BY <1>3, ElementOfSeq DEF OnlyIeee
    <3>3. bound[b].ieee = Device(table[j]).ieee
        BY <2>2, <3>1, <3>2 DEF SameAddress
    <3>4. QED
        BY <1>6, <3>1, <3>3
  <2>5. QED
      BY <2>3, <2>4
<1>11. QED
    BY <1>1, <1>9, <1>10 DEF Follows

\* A callback of the newest search, or after it began to collect: what is known
\* of the answer it is called with, and of those behind it.
Ready ==
    /\ Info.ok => ReadFrom(table, Info)
    /\ Info.ok /\ Info.index # 0 /\ table # << >> => OnlyFrom(table, all)
    /\ Info.ok /\ Info.search = searches => Info.index = 0 \/ Cover(all, table, Info.index)
    /\ \A j \in 1 .. Len(answers) : j # 1 =>
          /\ ReadFrom(table, answers[j])
          /\ answers[j].ok => answers[j].index # 0
          /\ answers[j].ok /\ answers[j].search = searches =>
                (Info.ok => Info.index # 0) /\ Cover(all, table, answers[j].index)
    /\ \A j \in 1 .. Len(requests) :
          /\ requests[j].index # 0
          /\ requests[j].search = searches =>
                (Info.ok => Info.index # 0) /\ Cover(all, table, requests[j].index)
    /\ ~Info.ok /\ table # << >> => OnlyFrom(table, all)
    /\ done = searches => Follows

LEMMA CollectingReady ==
    ASSUME TypeOK, Sizes, Handled, Collecting
    PROVE  Ready
<1>1. 1 \in 1 .. Len(answers) /\ Info = answers[1]
    BY HandledQueues
<1>2. Info.ok => Info.index # 0
    BY <1>1 DEF Collecting
<1>3. ReadFrom(table, Info) /\ (Info.ok /\ Info.search = searches => Cover(all, table, Info.index))
    BY <1>1 DEF Collecting
<1>4. QED
    BY <1>2, <1>3 DEF Collecting, Ready

LEMMA AnsweredReady ==
    ASSUME TypeOK, Sizes, Handled, Answered, Info.search = searches
    PROVE  Ready
<1>1. PICK p \in 1 .. Len(answers) :
          /\ answers[p].search = searches /\ answers[p].ok /\ answers[p].index = 0
          /\ \A j \in 1 .. Len(answers) : j # p => answers[j].search # searches
          /\ \A j \in 1 .. Len(answers) : j >= p => ReadFrom(table, answers[j])
          /\ \A j \in 1 .. Len(answers) : j > p /\ answers[j].ok => answers[j].index # 0
          /\ \A j \in 1 .. Len(requests) : requests[j].search # searches /\ requests[j].index # 0
          /\ done # searches
    BY DEF Answered
<1>2. 1 \in 1 .. Len(answers) /\ Info = answers[1]
    BY HandledQueues
<1>3. p = 1
    BY <1>1, <1>2
<1>4. Info.ok /\ Info.index = 0 /\ ReadFrom(table, Info)
    BY <1>1, <1>2, <1>3
<1>5. \A j \in 1 .. Len(answers) : j # 1 => j > 1 /\ j >= 1
    OBVIOUS
<1>6. \A j \in 1 .. Len(answers) : j # 1 =>
          /\ ReadFrom(table, answers[j])
          /\ answers[j].ok => answers[j].index # 0
          /\ answers[j].search # searches
    BY <1>1, <1>3, <1>5
<1>7. QED
    BY <1>1, <1>4, <1>6 DEF Ready

\* It is enough that the step keeps what all_records has.
LEMMA ReadyCollects ==
    ASSUME TypeOK, Sizes, Handled, Ready,
           (Info.ok => Info.index # 0) =>
               \A n \in Nat : Cover(all, table, n) => Cover(all', table, n),
           requests' = requests
             \/ (Info.ok /\ Info.search = searches => Cover(all', table, NextIndex)),
           table # << >> => OnlyFrom(table, all'),
           done' = searches => Follows'
    PROVE  Collecting'
<1>1. table' = table /\ searches' = searches
    BY DEF Handled
<1>2. \A j \in 1 .. Len(answers') :
          /\ ReadFrom(table, answers'[j])
          /\ answers'[j].ok => answers'[j].index # 0
          /\ answers'[j].ok /\ answers'[j].search = searches => Cover(all', table, answers'[j].index)
  <2> TAKE j \in 1 .. Len(answers')
  <2>1. j + 1 \in 1 .. Len(answers) /\ answers'[j] = answers[j + 1] /\ j + 1 # 1
      BY HandledQueues
  <2>2. answers[j + 1].index \in Nat
      BY <2>1, Queues
  <2>3. QED
      BY <2>1, <2>2 DEF Ready
<1>3. \A j \in 1 .. Len(requests') :
          /\ requests'[j].index # 0
          /\ requests'[j].search = searches => Cover(all', table, requests'[j].index)
  <2> TAKE j \in 1 .. Len(requests')
  <2>1. CASE j \in 1 .. Len(requests) /\ requests'[j] = requests[j]
    <3>1. requests[j].index \in Nat
        BY <2>1, Queues
    <3>2. QED
        BY <2>1, <3>1 DEF Ready
  <2>2. CASE ~(j \in 1 .. Len(requests))
    <3>1. Info.ok /\ NextIndex # 0 /\ requests'[j] = Following
        BY <2>2, HandledQueues
    <3>2. requests' # requests
        BY <2>2
    <3>3. QED
        BY <3>1, <3>2 DEF Following
  <2>3. QED
      BY <2>1, <2>2, HandledQueues
<1>4. QED
    BY <1>1, <1>2, <1>3 DEF Collecting

LEMMA CallbackCollects ==
    ASSUME OnlyIeee, TypeOK, Sizes, Handled, Ready, Failed \/ Cleared \/ More \/ Process
    PROVE  Collecting'
<1>1. Info.index \in Nat /\ NextIndex \in Nat /\ Info.total \in Nat /\ answers # << >>
    BY Callee, Size DEF AnswerType, Indices, Handled
<1>2. table \in Seq(Records) /\ Len(table) \in Nat /\ (Len(table) = 0 <=> table = << >>)
    BY LenProperties, EmptySeq DEF TypeOK
<1>3. CASE Failed
  <2>1. ~Info.ok /\ UNCHANGED <<table, requests, all, bound, searches, done, missed>>
      BY <1>3 DEF Failed
  <2>2. done' = searches => Follows'
      BY <2>1 DEF Ready, Follows
  <2>3. QED
      BY <2>1, <2>2, ReadyCollects DEF Ready
<1>4. CASE Cleared
  <2>1. /\ Info.ok /\ Info.total = 0 /\ bound' = << >> /\ missed' = "nothing"
        /\ UNCHANGED <<table, requests, all, searches>>
      BY <1>4 DEF Cleared
  <2>2. table = << >>
      BY <1>2, <2>1 DEF Ready, ReadFrom
  <2>3. Follows'
    <3>1. Len(bound') = 0 /\ Len(table') = 0
        BY <1>2, <2>1, <2>2, EmptySeq
    <3>2. QED
        BY <3>1 DEF Follows
  <2>4. QED
      BY <2>1, <2>2, <2>3, ReadyCollects
<1>5. CASE More \/ Process
  <2>1. Info.ok /\ all' = Collected /\ table' = table /\ Info.total # 0
      BY <1>1, <1>5 DEF More, Process
  <2>2. Info.total = Len(table) /\ table # << >> /\ ReadFrom(table, Info)
      BY <1>2, <2>1 DEF Ready, ReadFrom
  <2>3. /\ OnlyFrom(table, all')
        /\ Info.index # 0 => \A n \in Nat : Cover(all, table, n) => Cover(all', table, n)
        /\ Info.index = 0 \/ Cover(all, table, Info.index) => Cover(all', table, NextIndex)
      BY <1>1, <2>1, <2>2, CollectedCover DEF Ready
  <2>4. Info.search = searches => Cover(all', table, NextIndex)
      BY <2>1, <2>3 DEF Ready
  <2>5. CASE More
    <3>1. UNCHANGED <<table, bound, searches, done, missed>>
        BY <2>5 DEF More
    <3>2. done' = searches => Follows'
        BY <3>1 DEF Ready, Follows
    <3>3. QED
        BY <2>1, <2>3, <2>4, <3>2, ReadyCollects
  <2>6. CASE Process
    <3>1. requests' = requests /\ done' = Info.search /\ Info.total <= NextIndex
        BY <1>1, <2>6 DEF Process
    <3>2. ASSUME done' = searches PROVE Follows'
      <4>1. Cover(Collected, table, NextIndex)
          BY <2>1, <2>4, <3>1, <3>2
      <4>2. Cover(Collected, table, Len(table))
        <5>1. \A i \in 1 .. Len(table) : i <= Len(table) => i <= NextIndex
            BY <1>1, <1>2, <2>2, <3>1
        <5>2. QED
            BY <4>1, <5>1 DEF Cover
      <4>3. OnlyFrom(table, Collected)
          BY <2>1, <2>3
      <4>4. QED
          BY <2>6, <4>2, <4>3, ProcessFollows
    <3>3. QED
        BY <2>1, <2>3, <3>1, <3>2, ReadyCollects
  <2>7. QED
      BY <1>5, <2>5, <2>6
<1>6. QED
    BY <1>3, <1>4, <1>5

LEMMA CallbackKeeps ==
    ASSUME OnlyIeee, TypeOK, Sizes, Newest, Failed \/ Cleared \/ More \/ Process
    PROVE  Newest'
<1>1. Handled
    BY CallbackHandles
<1>2. CASE Asked
    BY <1>1, <1>2, HandledAsked DEF Newest
<1>3. CASE NotAnswered
    BY <1>1, <1>3, HandledNotAnswered DEF Newest
<1>4. CASE Answered /\ Info.search # searches
    BY <1>1, <1>4, HandledAnswered DEF Newest
<1>5. CASE Answered /\ Info.search = searches
    BY <1>1, <1>5, AnsweredReady, CallbackCollects DEF Newest
<1>6. CASE Collecting
    BY <1>1, <1>6, CollectingReady, CallbackCollects DEF Newest
<1>7. QED
    BY <1>2, <1>3, <1>4, <1>5, <1>6 DEF Newest

-----------------------------------------------------------------------------
(* The theorems.                                                           *)

(***************************************************************************)
(* Whatever the records and however the stack divides the table: requests, *)
(* answers and all_records stay well formed, and a chunk that is asked for *)
(* begins inside of the table's greatest length (core.cpp:177-180).        *)
(***************************************************************************)
THEOREM BindingsTypes == Spec => []TypeOK
BY Types, PTL

LEMMA NewestInit == Init => Newest
<1> SUFFICES ASSUME Init PROVE Newest
    OBVIOUS
<1>1. /\ requests = <<Search(1)>> /\ answers = << >> /\ searches = 1 /\ done = 0
    BY DEF Init
<1>2. Len(requests) = 1 /\ requests[1] = Search(1) /\ Len(answers) = 0
    BY <1>1
<1>3. /\ 1 \in 1 .. Len(requests)
      /\ \A j \in 1 .. Len(requests) : j = 1
      /\ \A j \in 1 .. Len(answers) : FALSE
    BY <1>2
<1>4. Asked
  <2>1. /\ 1 \in 1 .. Len(requests) /\ requests[1] = Search(searches) /\ done # searches
        /\ \A j \in 1 .. Len(requests) : ~(j # 1) /\ ~(j > 1)
        /\ \A j \in 1 .. Len(answers) : FALSE
      BY <1>1, <1>2, <1>3
  <2>2. QED
      BY <2>1 DEF Asked
<1>5. QED
    BY <1>4 DEF Newest

LEMMA NewestNext ==
    ASSUME OnlyIeee, TypeOK, Sizes, Newest, [Next]_vars
    PROVE  Newest'
<1>1. CASE \E r \in Records : Bind(r)
    BY <1>1, IndicationAsks DEF Bind, Newest
<1>2. CASE \E i \in 1 .. Len(table) : Unbind(i)
    BY <1>2, IndicationAsks DEF Unbind, Newest
<1>3. CASE Answer
  <2>1. /\ requests # << >> /\ requests' = Tail(requests)
        /\ answers' = Append(answers, Given(Head(requests)))
        /\ UNCHANGED <<table, all, bound, dangling, changes, searches, done, missed>>
      BY <1>3, AnswerIs DEF Answer
  <2>2. Given(Head(requests)) \in AnswerType(searches) /\ Fits(Given(Head(requests)))
      BY <2>1, GivenType, StackFits
  <2>3. QED
      BY <2>1, <2>2, StackKeeps
<1>4. CASE AnswerFails
  <2>1. /\ requests # << >> /\ requests' = Tail(requests)
        /\ answers' = Append(answers, NotGiven(Head(requests)))
        /\ UNCHANGED <<table, all, bound, dangling, changes, searches, done, missed>>
      BY <1>4, AnswerFailsIs DEF AnswerFails
  <2>2. NotGiven(Head(requests)) \in AnswerType(searches) /\ Fits(NotGiven(Head(requests)))
      BY <2>1, GivenType, StackFits
  <2>3. QED
      BY <2>1, <2>2, StackKeeps
<1>5. CASE Failed \/ Cleared \/ More \/ Process
    BY <1>5, CallbackKeeps
<1>6. CASE UNCHANGED vars
    BY <1>6 DEF vars, Newest, Asked, Answered, Collecting, NotAnswered, Follows
<1>7. QED
    BY <1>1, <1>2, <1>3, <1>4, <1>5, <1>6 DEF Next

\* Nothing in the list was freed: removeBoundDevice found what was freed.
LEMMA NoDanglingNext ==
    ASSUME OnlyIeee, TypeOK, Sizes, NoDangling, [Next]_vars
    PROVE  NoDangling'
<1>1. CASE Process
  <2>1. all' \in Seq(Records)
      BY <1>1, Callee DEF Process, Called, Collected
  <2>2. bound \in Seq(DeviceType) /\ Listed /\ Len(bound) \in Nat
      BY LenProperties DEF TypeOK, Sizes, Listed
  <2>3. Erased(all') = ToRemove(all')
    <3> DEFINE records == all'
    <3>1. records \in Seq(Records)
        BY <2>1
    <3> HIDE DEF records
    <3>2. Erased(records) = ToRemove(records)
        BY <2>2, <3>1, ErasedAreGone
    <3>3. QED
        BY <3>2 DEF records
  <2>4. dangling' = ~(ToRemove(all') \subseteq Erased(all'))
      BY <1>1 DEF Process
  <2>5. QED
      BY <2>3, <2>4 DEF NoDangling
<1>2. CASE Cleared
    BY <1>2 DEF Cleared, NoDangling
<1>3. CASE UNCHANGED dangling
    BY <1>3 DEF NoDangling
<1>4. QED
    BY <1>1, <1>2, <1>3 DEF Next, Bind, Unbind, Indication, Answer, AnswerFails, Failed, More, vars

LEMMA Invariants ==
    ASSUME OnlyIeee
    PROVE  Spec => [](TypeOK /\ Sizes /\ Newest /\ NoDangling)
<1> DEFINE Inv == TypeOK /\ Sizes /\ Newest /\ NoDangling
<1>1. Init => Inv
    BY InitTypes, NewestInit DEF Init, NoDangling
<1>2. Inv /\ [Next]_vars => Inv'
    BY NextTypes, NewestNext, NoDanglingNext
<1> HIDE DEF Inv
<1>3. Spec => []Inv
    BY <1>1, <1>2, PTL DEF Spec
<1>4. QED
    BY <1>3 DEF Inv

(***************************************************************************)
(* With IEEE targets, the entry removeBoundDevice erases is the device its *)
(* caller frees (core.cpp:240-257): the list never holds a freed one.      *)
(* Group targets have to be excluded: the run BindingsGroups shows it.     *)
(***************************************************************************)
THEOREM BindingsNoDangling ==
    ASSUME OnlyIeee
    PROVE  Spec => []NoDangling
BY Invariants, PTL

LEMMA SettledFollows ==
    ASSUME Newest, Settled
    PROVE  Follows
BY DEF Newest, Asked, Answered, Collecting, NotAnswered, Settled

(***************************************************************************)
(* When the newest search has ended no device is in the list that is not   *)
(* in the table, for every interleaving of searches (core.cpp:215-300).    *)
(***************************************************************************)
THEOREM BindingsNoGhost ==
    ASSUME OnlyIeee
    PROVE  Spec => []NoGhost
<1>1. TypeOK /\ Newest => NoGhost
  <2> SUFFICES ASSUME TypeOK, Newest, Settled, NEW d \in BoundDevices
               PROVE  \E e \in TableDevices : e.ieee = d.ieee
      BY DEF NoGhost
  <2>1. PICK i \in 1 .. Len(bound) : d = bound[i]
      BY LenProperties DEF BoundDevices, ToSet, TypeOK
  <2>2. Follows
      BY SettledFollows
  <2>3. PICK j \in 1 .. Len(table) : Device(table[j]).ieee = bound[i].ieee
      BY <2>2 DEF Follows
  <2>4. QED
      BY <2>1, <2>3 DEF TableDevices
<1>2. QED
    BY <1>1, Invariants, PTL

(***************************************************************************)
(* And no record is without its device, unless the last pass looked at a   *)
(* device it had freed, or had no memory.                                  *)
(***************************************************************************)
THEOREM BindingsNoneLost ==
    ASSUME OnlyIeee
    PROVE  Spec => []NoneLost
<1>1. TypeOK /\ Newest => NoneLost
  <2> SUFFICES ASSUME TypeOK, Newest, Settled, missed = "nothing", NEW e \in TableDevices
               PROVE  \E d \in BoundDevices : e.ieee = d.ieee
      BY DEF NoneLost
  <2>1. PICK j \in 1 .. Len(table) : e = Device(table[j])
      BY DEF TableDevices
  <2>2. PICK i \in 1 .. Len(bound) : Device(table[j]).ieee = bound[i].ieee
      BY SettledFollows DEF Follows
  <2>3. i \in DOMAIN bound
      BY LenProperties DEF TypeOK
  <2>4. QED
      BY <2>1, <2>2, <2>3 DEF BoundDevices, ToSet
<1>2. QED
    BY <1>1, Invariants, PTL

LEMMA RemovalNext ==
    ASSUME OnlyIeee, TypeOK, Sizes, Process, NEW i \in 1 .. Len(bound),
           ~ \E j \in 1 .. Len(bound') : bound'[j] = bound[i]
    PROVE  i \in ToRemove(all')
<1> DEFINE records == all'
           gone == ToRemove(records)
<1>1. records \in Seq(Records)
    BY Callee DEF Process, Called, Collected
<1>2. bound \in Seq(DeviceType) /\ Listed /\ Len(bound) \in Nat
    BY LenProperties DEF TypeOK, Sizes, Listed
<1>3. PICK skipped : bound' = Updated(Erased(records), records, New(records, gone) \ skipped)
    BY DEF Process
<1> HIDE DEF records
<1>4. Erased(records) = gone
    BY <1>1, <1>2, ErasedAreGone
<1> HIDE DEF gone
<1>5. ASSUME i \notin gone PROVE FALSE
  <2> DEFINE added == New(records, gone) \ skipped
  <2>1. bound' = Updated(gone, records, added)
      BY <1>3, <1>4
  <2> HIDE DEF added
  <2>2. \E k \in 1 .. Len(Updated(gone, records, added)) : Updated(gone, records, added)[k] = bound[i]
      BY <1>1, <1>2, <1>5, UpdatedList
  <2>3. QED
      BY <2>1, <2>2
<1>6. QED
    BY <1>5 DEF gone, records

(***************************************************************************)
(* With IEEE targets a pass removes no device that still has a record      *)
(* (core.cpp:240); the run BindingsGroups shows a group that is removed    *)
(* with one.                                                               *)
(***************************************************************************)
THEOREM BindingsRemoveOnlyThose ==
    ASSUME OnlyIeee
    PROVE  Spec => OnlyThoseRemoved
<1>1. TypeOK /\ Sizes /\ [Next]_vars =>
          [\A i \in 1 .. Len(bound) :
             Process /\ ~(\E j \in 1 .. Len(bound') : bound'[j] = bound[i]) => i \in ToRemove(all')]_vars
    BY RemovalNext
<1>2. QED
    BY <1>1, Invariants, PTL DEF Spec, OnlyThoseRemoved
==============================================================================
