-------------------------- MODULE OtaUpgradeProofs ---------------------------
(***************************************************************************)
(* For every size of images, headers and blocks, every set of files and    *)
(* any number of attempts: the device always boots a whole image and       *)
(* changes only to the one it approved last, a file that passes CHECK is   *)
(* complete, and no sound one is refused before something went wrong.      *)
(***************************************************************************)
EXTENDS OtaUpgrade, SequenceTheorems, TLAPS

-----------------------------------------------------------------------------
(* What a file is made of, and what the patch engine makes of it.          *)

LEMMA UnitKinds ==
    /\ <<"junk", 0, 0>> \in UnitType
    /\ \A i \in 0 .. (ImageSize + PatchHeader), v \in Versions \cup {0} :
           /\ <<"image", v, i>> \in UnitType /\ <<"header", v, i>> \in UnitType
           /\ <<"body", v, i>> \in UnitType
    /\ \A i \in {0, 1} : <<"tag", 0, i>> \in UnitType
BY OtaAssumption, DeltaOtaAssumption DEF UnitType, OtaAssumption, DeltaOtaAssumption

\* The units of a part of a file are this version's own.
LEMMA UnitsOwn ==
    ASSUME NEW kind \in {"image", "header", "body"}, NEW v \in Versions \cup {0},
           NEW w \in Versions \cup {0}, NEW size \in 0 .. (ImageSize + PatchHeader),
           kind # "header" => v = w
    PROVE  /\ Units(kind, v, size) \in Seq(OwnUnits(w))
           /\ Len(Units(kind, v, size)) = size
<1> DEFINE s == Units(kind, v, size)
<1>1. ASSUME NEW i \in 1 .. size PROVE <<kind, v, i>> \in OwnUnits(w)
  <2>1. i \in 0 .. (ImageSize + PatchHeader)
      BY DeltaOtaAssumption DEF DeltaOtaAssumption
  <2>2. <<kind, v, i>> \in UnitType
      BY <2>1, UnitKinds
  <2>3. QED
      BY <2>2 DEF OwnUnits
<1>2. s \in [1 .. size -> OwnUnits(w)] /\ size \in Nat
    BY <1>1, DeltaOtaAssumption DEF Units, DeltaOtaAssumption
<1>3. QED
    BY <1>2, SeqDef, LenProperties

LEMMA StreamOwn ==
    ASSUME NEW f \in FileType
    PROVE  /\ Stream(f) \in Seq(OwnUnits(f.version)) /\ Data(f) \in Seq(OwnUnits(f.version))
           /\ Tag(f) \in OwnUnits(f.version)
           /\ Len(Stream(f)) \in Nat \ {0}
           /\ Stream(f)[1] = Tag(f)
<1> DEFINE own == OwnUnits(f.version)
           sound == IF f.delta THEN Patch(f.base, f.version) ELSE Image(f.version)
<1>1. f.version \in Versions \cup {0} /\ f.base \in Versions
    BY DEF FileType
<1>2. sound \in Seq(own) /\ Len(sound) \in Nat \ {0}
  <2>0. {ImageSize, PatchHeader} \subseteq 0 .. (ImageSize + PatchHeader) /\ ImageSize # 0
      BY DeltaOtaAssumption DEF DeltaOtaAssumption
  <2> HIDE DEF own
  <2>1. Image(f.version) \in Seq(own) /\ Len(Image(f.version)) = ImageSize
      BY <1>1, <2>0, UnitsOwn DEF Image, own
  <2>2. /\ Units("header", f.base, PatchHeader) \in Seq(own)
        /\ Len(Units("header", f.base, PatchHeader)) = PatchHeader
      BY <1>1, <2>0, UnitsOwn DEF own
  <2>3. /\ Units("body", f.version, ImageSize) \in Seq(own)
        /\ Len(Units("body", f.version, ImageSize)) = ImageSize
      BY <1>1, <2>0, UnitsOwn DEF own
  <2>4. Patch(f.base, f.version) \in Seq(own)
        /\ Len(Patch(f.base, f.version)) = PatchHeader + ImageSize
      BY <2>2, <2>3, ConcatProperties DEF Patch
  <2>5. QED
      BY <2>0, <2>1, <2>4, DeltaOtaAssumption DEF DeltaOtaAssumption
<1>3. Junk \in own
    BY UnitKinds DEF Junk, OwnUnits
<1>4. Data(f) \in Seq(own) /\ Len(Data(f)) \in Nat \ {0}
    BY <1>2, <1>3, ExceptSeq DEF Data
<1>5. Tag(f) \in own
    BY UnitKinds DEF Tag, OwnUnits
<1>6. <<Tag(f)>> \in Seq(own) /\ Len(<<Tag(f)>>) = 1 /\ <<Tag(f)>>[1] = Tag(f)
    BY <1>5
<1>7. QED
    BY <1>4, <1>5, <1>6, ConcatProperties DEF Stream

\* The engine makes of a version's units that version's image, or junk.
LEMMA PatchedOwn ==
    ASSUME NEW v \in Versions \cup {0}, NEW d, d.fed \in Nat, NEW units \in Seq(OwnUnits(v))
    PROVE  Patched(d, units) \in Seq(OwnUnits(v))
<1>1. Len(units) \in Nat /\ \A i \in 1 .. Len(units) : units[i] \in OwnUnits(v)
    BY ElementOfSeq, LenProperties
<1>2. ASSUME NEW i \in 1 .. Len(units) PROVE Patched(d, units)[i] \in OwnUnits(v)
  <2>1. CASE units[i][1] = "body" /\ units[i][3] = d.fed + i
    <3>1. Patched(d, units)[i] = <<"image", units[i][2], units[i][3]>>
        BY <2>1 DEF Patched
    <3>2. units[i][2] = v /\ units[i][3] \in 0 .. (ImageSize + PatchHeader)
        BY <1>1, <2>1 DEF OwnUnits, UnitType
    <3>3. Patched(d, units)[i] \in UnitType
        BY <3>1, <3>2, UnitKinds
    <3>4. QED
        BY <3>1, <3>2, <3>3 DEF OwnUnits
  <2>2. CASE ~(units[i][1] = "body" /\ units[i][3] = d.fed + i)
    <3>1. Patched(d, units)[i] = Junk
        BY <2>2 DEF Patched
    <3>2. QED
        BY <3>1, UnitKinds DEF OwnUnits, Junk
  <2>3. QED
      BY <2>1, <2>2
<1>3. Patched(d, units) \in [1 .. Len(units) -> OwnUnits(v)]
    BY <1>2 DEF Patched
<1>4. QED
    BY <1>1, <1>3, SeqDef

LEMMA ModuloType ==
    ASSUME NEW n \in Nat, NEW k \in Nat \ {0}
    PROVE  n % k \in 0 .. (k - 1) /\ n % k <= n
OBVIOUS

LEMMA OwnIsUnit == \A v : OwnUnits(v) \subseteq UnitType /\ Seq(OwnUnits(v)) \subseteq Seq(UnitType)
BY SeqMonotonic DEF OwnUnits

-----------------------------------------------------------------------------
(* The patch receiver.                                                     *)

\* What delta_ota_write_cb passes on and holds back is made of what it gets.
LEMMA WriteCbOwn ==
    ASSUME NEW T, NEW d \in DeltaType(T), NEW units \in Seq(T)
    PROVE  LET r == WriteCb(d, units)
           IN  /\ r.ok \in BOOLEAN /\ r.out \in Seq(T) /\ r.d \in DeltaType(T)
               /\ r.d.buf = d.buf /\ r.d.len = d.len
<1>1. d.held \o units \in Seq(T)
    BY ConcatProperties DEF DeltaType
<1>2. << >> \in Seq(T)
    BY EmptySeq
<1>3. QED
    BY <1>1, <1>2 DEF WriteCb, DeltaType

LEMMA FreedOwn ==
    ASSUME NEW T, NEW d \in DeltaType(T)
    PROVE  Freed(d) \in DeltaType(T) /\ Freed(d).buf = << >> /\ Freed(d).len = 0
<1>1. << >> \in Seq(UnitType) /\ 0 \in 0 .. (PatchLenWord - 1)
    BY EmptySeq, DeltaOtaAssumption DEF DeltaOtaAssumption
<1>2. QED
    BY <1>1 DEF Freed, DeltaType

\* In front of a block's data there are as many units as patch_len says, whether
\* patch_buf still is there or not.
LEMMA LeftIs ==
    ASSUME NEW T, NEW d \in DeltaType(T)
    PROVE  Left(d) \in Seq(UnitType) /\ Len(Left(d)) = d.len /\ d.len \in Nat
<1>1. d.buf \in Seq(UnitType) /\ d.len \in Nat
    BY DeltaOtaAssumption DEF DeltaType, DeltaOtaAssumption
<1>2. CASE d.len <= Len(d.buf)
  <2>1. \A i \in 1 .. d.len : d.buf[i] \in UnitType
      BY <1>1, <1>2, ElementOfSeq, LenProperties
  <2>2. QED
      BY <1>1, <1>2, <2>1, SubSeqProperties DEF Left
<1>3. CASE ~(d.len <= Len(d.buf))
  <2>1. Left(d) = [i \in 1 .. d.len |-> Junk]
      BY <1>3 DEF Left
  <2>2. Left(d) \in [1 .. d.len -> UnitType]
      BY <2>1, UnitKinds DEF Junk
  <2>3. QED
      BY <1>1, <2>2, SeqDef, LenProperties
<1>4. QED
    BY <1>2, <1>3

\* Memory that runs out takes patch_buf, and leaves patch_len.
LEMMA NoMemoryOwn ==
    ASSUME NEW T, NEW d \in DeltaType(T)
    PROVE  NoMemory(d) \in DeltaType(T) /\ NoMemory(d).len = d.len /\ NoMemory(d).verified = d.verified
BY EmptySeq DEF NoMemory, DeltaType

\* patch_buf is empty after the engine was fed.
LEMMA FeedOwn ==
    ASSUME NEW v \in Versions \cup {0}, NEW d \in DeltaType(OwnUnits(v)),
           NEW units \in Seq(OwnUnits(v)), NEW r \in Feed(d, units)
    PROVE  /\ r.ok \in BOOLEAN /\ r.out \in Seq(OwnUnits(v)) /\ r.d \in DeltaType(OwnUnits(v))
           /\ r.d.buf = << >> /\ r.d.len = 0
<1> DEFINE T     == OwnUnits(v)
           image == Patched(d, units)
           freed == Freed(d)
           count == freed.fed + Len(units)
           fed   == [freed EXCEPT !.fed = count]
<1>1. image \in Seq(T) /\ << >> \in Seq(T) /\ Len(units) \in Nat
    BY PatchedOwn, EmptySeq, LenProperties DEF DeltaType
<1>2. freed \in DeltaType(T) /\ freed.buf = << >> /\ freed.len = 0
    BY FreedOwn
<1>3. r = WriteCb(fed, image) \/ r = [ok |-> FALSE, d |-> freed, out |-> << >>]
    BY DEF Feed
<1> HIDE DEF T, image, freed
<1>4. fed \in DeltaType(T) /\ fed.buf = << >> /\ fed.len = 0
  <2>1. count \in Nat
      BY <1>1, <1>2 DEF DeltaType
  <2> HIDE DEF count
  <2>2. QED
      BY <1>2, <2>1 DEF DeltaType
<1> HIDE DEF fed
<1>5. CASE r = WriteCb(fed, image)
    BY <1>1, <1>4, <1>5, WriteCbOwn DEF T
<1>6. CASE r = [ok |-> FALSE, d |-> freed, out |-> << >>]
    BY <1>1, <1>2, <1>6 DEF T
<1>7. QED
    BY <1>3, <1>5, <1>6

\* Only this call's data gets to the engine, whatever an earlier attempt left
\* in patch_buf: it left less than a patch header, and that much is taken off.
LEMMA OnlyDataFed ==
    ASSUME NEW T, NEW left \in Seq(UnitType), NEW data \in Seq(T), T \subseteq UnitType,
           NEW len \in Nat, Len(left) <= PatchHeader, len <= Len(left) + Len(data)
    PROVE  SubSeq(left \o data, PatchHeader + 1, len) \in Seq(T)
<1>1. data \in Seq(UnitType)
    BY SeqMonotonic
<1>2. Len(left) \in Nat /\ Len(data) \in Nat /\ PatchHeader \in Nat
    BY LenProperties, DeltaOtaAssumption DEF DeltaOtaAssumption
<1>3. ASSUME NEW i \in (PatchHeader + 1) .. len PROVE (left \o data)[i] \in T
  <2>1. i \in 1 .. (Len(left) + Len(data)) /\ ~(i <= Len(left)) /\ i - Len(left) \in 1 .. Len(data)
      BY <1>2
  <2>2. (left \o data)[i] = data[i - Len(left)]
      BY <1>1, <2>1, ConcatProperties
  <2>3. QED
      BY <2>1, <2>2, ElementOfSeq
<1>4. QED
    BY <1>2, <1>3, SubSeqProperties

\* ... so that what is left of it after the patch header is.
LEMMA RestOwn ==
    ASSUME NEW T, T \subseteq UnitType, NEW d \in DeltaType(T),
           d.len <= PatchHeader, NEW data \in Seq(T)
    PROVE  LET buf == Left(d) \o data
               len == (d.len + Len(data)) % PatchLenWord
           IN  /\ buf \in Seq(UnitType) /\ len \in 0 .. (PatchLenWord - 1) /\ len <= Len(buf)
               /\ SubSeq(buf, PatchHeader + 1, len) \in Seq(T)
<1> DEFINE left == Left(d)
           buf  == left \o data
           len  == (d.len + Len(data)) % PatchLenWord
<1>1. /\ d.len \in Nat
      /\ data \in Seq(UnitType) /\ Len(data) \in Nat
      /\ PatchHeader \in Nat /\ PatchLenWord \in Nat \ {0}
    BY SeqMonotonic, LenProperties, DeltaOtaAssumption DEF DeltaType, DeltaOtaAssumption
<1>2. left \in Seq(UnitType) /\ Len(left) = d.len
    BY LeftIs
<1>3. buf \in Seq(UnitType) /\ Len(buf) = d.len + Len(data)
    BY <1>1, <1>2, ConcatProperties
<1>4. len \in 0 .. (PatchLenWord - 1) /\ len <= d.len + Len(data)
  <2>1. d.len + Len(data) \in Nat
      BY <1>1
  <2>2. QED
      BY <1>1, <2>1, ModuloType
<1> HIDE DEF left, len
<1>5. SubSeq(buf, PatchHeader + 1, len) \in Seq(T)
  <2>1. len \in Nat /\ Len(left) <= PatchHeader /\ len <= Len(left) + Len(data)
      BY <1>2, <1>4
  <2>2. QED
      BY <1>2, <2>1, OnlyDataFed
<1>6. QED
    BY <1>3, <1>4, <1>5 DEF left, len

LEMMA DeltaWriteOwn ==
    ASSUME NEW v \in Versions \cup {0}, NEW d \in DeltaType(OwnUnits(v)),
           d.len <= PatchHeader,
           NEW data \in Seq(OwnUnits(v)), NEW version, NEW r \in DeltaWrite(d, data, version)
    PROVE  /\ r.ok \in BOOLEAN /\ r.out \in Seq(OwnUnits(v)) /\ r.d \in DeltaType(OwnUnits(v))
           /\ r.d.len <= PatchHeader /\ Released(r.d)
<1> DEFINE buf  == Left(d) \o data
           len  == (d.len + Len(data)) % PatchLenWord
           rest == SubSeq(buf, PatchHeader + 1, len)
<1>1. PatchHeader \in Nat
    BY DeltaOtaAssumption DEF DeltaOtaAssumption
<1>2. /\ buf \in Seq(UnitType) /\ len \in 0 .. (PatchLenWord - 1) /\ len <= Len(buf)
      /\ rest \in Seq(OwnUnits(v))
    BY RestOwn, OwnIsUnit
<1> HIDE DEF buf, len, rest
<1>3. CASE r \in Feed(d, data)
    BY <1>1, <1>3, FeedOwn DEF Released
<1>4. CASE /\ ~d.verified /\ len <= PatchHeader
           /\ r = [ok |-> TRUE, d |-> [d EXCEPT !.buf = buf, !.len = len], out |-> << >>]
    BY <1>2, <1>4, EmptySeq DEF DeltaType, Released
<1>5. CASE r = [ok |-> FALSE, d |-> Freed(d), out |-> << >>]
    BY <1>1, <1>5, FreedOwn, EmptySeq DEF Released
<1>6. CASE r \in Feed([d EXCEPT !.verified = TRUE], rest)
  <2>1. [d EXCEPT !.verified = TRUE] \in DeltaType(OwnUnits(v))
      BY DEF DeltaType
  <2>2. QED
      BY <1>1, <1>2, <1>6, <2>1, FeedOwn DEF Released
<1>7. QED
    BY <1>3, <1>4, <1>5, <1>6 DEF DeltaWrite, buf, len, rest

LEMMA TypeWidens ==
    ASSUME NEW T, T \subseteq UnitType
    PROVE  DeltaType(T) \subseteq DeltaType(UnitType)
<1>1. Seq(T) \subseteq Seq(UnitType)
    BY SeqMonotonic
<1>2. QED
    BY <1>1 DEF DeltaType

\* esp_delta_ota_begin forgets the image header of an earlier attempt.
LEMMA DeltaBeginOwn ==
    ASSUME NEW T, NEW d \in DeltaType(UnitType)
    PROVE  /\ DeltaBegin(d) \in DeltaType(T)
           /\ DeltaBegin(d).len = d.len /\ ~DeltaBegin(d).verified
BY EmptySeq DEF DeltaBegin, NoDelta, DeltaType

LEMMA DeltaEndType ==
    ASSUME NEW d \in DeltaType(UnitType), NEW stuck \in BOOLEAN
    PROVE  /\ DeltaEnd(d, stuck).d \in DeltaType(UnitType)
           /\ DeltaEnd(d, stuck).d.len = d.len
           /\ Released(d) => Released(DeltaEnd(d, stuck).d)
<1>1. << >> \in Seq(UnitType)
    BY EmptySeq
<1>2. CASE ~stuck /\ d.fed = ImageSize
    BY <1>1, <1>2 DEF DeltaEnd, DeltaType, Released
<1>3. CASE ~(~stuck /\ d.fed = ImageSize)
    BY <1>1, <1>3 DEF DeltaEnd, DeltaType, Released
<1>4. QED
    BY <1>2, <1>3

-----------------------------------------------------------------------------
(* A block of the file on its way to the slot.                             *)

LEMMA OtaWriteOwn ==
    ASSUME NEW T, NEW contents \in Seq(T), NEW out \in Seq(T)
    PROVE  OtaWrite(contents, out).contents \in Seq(T)
BY ConcatProperties DEF OtaWrite

LEMMA FileOfType == TypeOK => file \in FileType /\ file.version \in Versions \cup {0}
BY OtaAssumption DEF TypeOK, OtaAssumption, FileType

\* What becomes of a block: a result that the flash takes or not, or a failure.
Results(d, data) ==
    IF file.delta THEN DeltaWrite(d, data, Running) ELSE {[ok |-> TRUE, d |-> d, out |-> data]}
Taken(w, r, contents) ==
    LET o == OtaWrite(contents, r.out)
    IN  w = [ok |-> r.ok /\ o.ok, contents |-> o.contents, d |-> r.d, external |-> FALSE]

LEMMA WritesAre ==
    ASSUME NEW contents, NEW d, NEW data, NEW w \in Writes(contents, d, data)
    PROVE  \/ ~w.external /\ \E r \in Results(d, data) : Taken(w, r, contents)
           \/ /\ w.external /\ ~w.ok /\ w.contents = contents
              /\ \/ \E r \in Results(d, data) : w.d = r.d
                 \/ file.delta /\ ~d.verified /\ w.d = NoMemory(d)
<1> DEFINE results == Results(d, data)
           failed(e) == [ok |-> FALSE, contents |-> contents, d |-> e, external |-> TRUE]
<1>1. \/ \E r \in results : Taken(w, r, contents)
      \/ \E r \in results : w = failed(r.d)
      \/ file.delta /\ ~d.verified /\ w = failed(NoMemory(d))
    BY DEF Writes, Results, Taken
<1> HIDE DEF results
<1>2. CASE \E r \in results : Taken(w, r, contents)
  <2>1. PICK r \in results : Taken(w, r, contents)
      BY <1>2
  <2>2. ~w.external
      BY <2>1 DEF Taken
  <2>3. QED
      BY <2>1, <2>2 DEF results
<1>3. CASE \E r \in results : w = failed(r.d)
    BY <1>3 DEF results
<1>4. CASE file.delta /\ ~d.verified /\ w = failed(NoMemory(d))
    BY <1>4
<1>5. QED
    BY <1>1, <1>2, <1>3, <1>4

LEMMA WritesOwn ==
    ASSUME NEW v \in Versions \cup {0}, NEW contents \in Seq(OwnUnits(v)),
           NEW data \in Seq(OwnUnits(v)),
           NEW d \in DeltaType(UnitType), file.delta => d \in DeltaType(OwnUnits(v)),
           d.len <= PatchHeader, Released(d), NEW w \in Writes(contents, d, data)
    PROVE  /\ w.contents \in Seq(OwnUnits(v))
           /\ w.d \in DeltaType(UnitType) /\ (file.delta => w.d \in DeltaType(OwnUnits(v)))
           /\ w.d.len <= PatchHeader /\ Released(w.d)
<1> DEFINE T == OwnUnits(v)
           Kept(e) == /\ e \in DeltaType(UnitType) /\ (file.delta => e \in DeltaType(T))
                      /\ e.len <= PatchHeader /\ Released(e)
<1>0. DeltaType(T) \subseteq DeltaType(UnitType)
    BY TypeWidens, OwnIsUnit
<1>1. ASSUME NEW r \in Results(d, data) PROVE r.out \in Seq(T) /\ Kept(r.d)
  <2>1. CASE file.delta
      BY <1>0, <2>1, DeltaWriteOwn DEF Results
  <2>2. CASE ~file.delta
      BY <2>2 DEF Results
  <2>3. QED
      BY <2>1, <2>2
<1>2. ASSUME NEW r \in Results(d, data), Taken(w, r, contents)
      PROVE  w.contents \in Seq(T) /\ Kept(w.d)
  <2>1. w.contents = OtaWrite(contents, r.out).contents /\ w.d = r.d
      BY <1>2 DEF Taken
  <2>2. QED
      BY <1>1, <2>1, OtaWriteOwn
<1>3. ASSUME file.delta, ~d.verified, w.d = NoMemory(d) PROVE Kept(w.d)
  <2>1. d \in DeltaType(T)
      BY <1>3
  <2>2. w.d \in DeltaType(T) /\ w.d.len = d.len /\ ~w.d.verified
      BY <1>3, <2>1, NoMemoryOwn
  <2>3. QED
      BY <1>0, <2>2 DEF Released
<1> HIDE DEF Kept, T
<1>4. w.contents \in Seq(T) /\ Kept(w.d)
    BY <1>1, <1>2, <1>3, WritesAre DEF T
<1>5. QED
    BY <1>4 DEF Kept, T

LEMMA BlockOwn ==
    ASSUME TypeOK, sent < Len(Stream(file))
    PROVE  /\ Block \in Seq(OwnUnits(file.version))
           /\ Len(Block) \in Nat \ {0} /\ sent + Len(Block) \in 0 .. Len(Stream(file))
           /\ Block = SubSeq(Stream(file), sent + 1, sent + Len(Block))
           /\ sent = 0 => Block[1] = Tag(file)
<1> DEFINE s == Stream(file)
           n == Len(s)
           end == IF sent + block < n THEN sent + block ELSE n
<1>1. s \in Seq(OwnUnits(file.version)) /\ n \in Nat /\ s[1] = Tag(file)
    BY StreamOwn, FileOfType
<1>2. sent \in Nat /\ block \in Nat \ {0}
    BY OtaAssumption DEF TypeOK, OtaAssumption
<1> HIDE DEF s
<1>3. end \in Nat /\ sent + 1 <= end /\ end <= n
    BY <1>1, <1>2 DEF s
<1>4. Block = SubSeq(s, sent + 1, end)
    BY DEF Block, s
<1> HIDE DEF end
<1>5. \A i \in (sent + 1) .. end : s[i] \in OwnUnits(file.version)
    BY <1>1, <1>2, <1>3, ElementOfSeq
<1>6. /\ Block \in Seq(OwnUnits(file.version)) /\ Len(Block) = end - sent
      /\ \A i \in 1 .. (end - sent) : Block[i] = s[sent + i]
    BY <1>2, <1>3, <1>4, <1>5, SubSeqProperties
<1>7. sent + Len(Block) = end
    BY <1>2, <1>3, <1>6
<1>8. sent = 0 => Block[1] = s[1]
    BY <1>2, <1>3, <1>6
<1>9. Block = SubSeq(s, sent + 1, sent + Len(Block))
    BY <1>4, <1>7
<1>10. Len(Block) \in Nat \ {0} /\ sent + Len(Block) \in 0 .. n
    BY <1>1, <1>2, <1>3, <1>6, <1>7
<1>11. QED
    BY <1>1, <1>6, <1>8, <1>9, <1>10 DEF s

\* A block that goes through, or is refused, leaves the slot with units of this
\* file only, and is refused if the tag was not recognised.
LEMMA DeliverOwn ==
    ASSUME TypeOK, sent < Len(Stream(file)), phase = "receiving", sent > 0 => tagReceived,
           NEW contents \in Seq(OwnUnits(file.version)), NEW d \in DeltaType(UnitType),
           file.delta => d \in DeltaType(OwnUnits(file.version)),
           d.len <= PatchHeader, Released(d), part' \in Slots, Deliver(contents, d)
    PROVE  /\ \E c \in Seq(OwnUnits(file.version)) : slots' = [slots EXCEPT ![part'] = c]
           /\ delta' \in DeltaType(UnitType) /\ (file.delta => delta' \in DeltaType(OwnUnits(file.version)))
           /\ delta'.len <= PatchHeader /\ Released(delta')
           /\ open' = TRUE /\ totalSize' = Len(Stream(file)) /\ offset' = offset + Len(Block)
           /\ tagReceived' \in BOOLEAN /\ tagid' \in {0, 1}
           /\ phase' \in {"receiving", "refused"} /\ (phase' = "receiving" => tagReceived')
<1> DEFINE T == OwnUnits(file.version)
           data == IF tagReceived THEN Block ELSE Tail(Block)
<1>0. file.version \in Versions \cup {0}
    BY FileOfType
<1>1. Block \in Seq(T) /\ Len(Block) \in Nat \ {0} /\ (sent = 0 => Block[1] = Tag(file))
    BY BlockOwn
<1>2. tagid' \in {0, 1} /\ tagReceived' \in BOOLEAN
  <2>1. CASE ~tagReceived /\ HasTag
    <3>1. sent = 0
        BY <2>1 DEF TypeOK
    <3>2. Block[1][3] \in {0, 1}
      <4>1. Tag(file) = <<"tag", 0, 0>> \/ Tag(file) = <<"tag", 0, 1>>
          BY DEF Tag
      <4>2. Tag(file)[3] \in {0, 1}
          BY <4>1
      <4>3. QED
          BY <1>1, <3>1, <4>2
    <3>3. QED
        BY <2>1, <3>2 DEF Deliver, OtaData, HasTag, TypeOK
  <2>2. CASE tagReceived \/ ~HasTag
      BY <2>2 DEF Deliver, OtaData, HasTag, TypeOK
  <2>3. QED
      BY <2>1, <2>2
<1>3. CASE OtaDataFails
  <2>1. /\ slots' = [slots EXCEPT ![part'] = contents] /\ delta' = d /\ phase' = "refused"
        /\ open' = TRUE /\ totalSize' = Len(Stream(file)) /\ offset' = offset + Len(Block)
      BY <1>3 DEF Deliver, Refuse
  <2>2. QED
      BY <1>2, <2>1
<1>4. CASE ~OtaDataFails
  <2>1. tagReceived' /\ data \in Seq(T)
    <3>1. tagReceived'
        BY <1>4 DEF OtaDataFails
    <3>2. Block # << >>
        BY <1>1, EmptySeq
    <3>3. Tail(Block) \in Seq(T)
      <4> HIDE DEF T
      <4>1. QED
          BY <1>1, <3>2, HeadTailProperties
    <3>4. QED
        BY <1>1, <3>1, <3>3
  <2>2. PICK w \in Writes(contents, d, data) :
            /\ slots' = [slots EXCEPT ![part'] = w.contents]
            /\ delta' = w.d
            /\ IF w.ok THEN UNCHANGED <<phase, disturbed>> ELSE Refuse(w.external)
      BY <1>4 DEF Deliver
  <2>3. /\ w.contents \in Seq(T)
        /\ w.d \in DeltaType(UnitType) /\ (file.delta => w.d \in DeltaType(T))
        /\ w.d.len <= PatchHeader /\ Released(w.d)
      BY <1>0, <2>1, <2>2, WritesOwn
  <2>4. phase' \in {"receiving", "refused"}
      BY <2>2 DEF Refuse
  <2>5. open' = TRUE /\ totalSize' = Len(Stream(file)) /\ offset' = offset + Len(Block)
      BY DEF Deliver
  <2>6. QED
      BY <1>2, <2>1, <2>2, <2>3, <2>4, <2>5
<1>5. QED
    BY <1>3, <1>4

-----------------------------------------------------------------------------
(* What the boot loader finds.                                             *)

LEMMA BootableHead ==
    ASSUME NEW units \in Seq(UnitType), Bootable(units)
    PROVE  Len(units) \in Nat \ {0} /\ units[1][1] = "image" /\ VersionIn(units) \in Versions
<1>1. PICK v \in Versions : SubSeq(units, 1, ImageSize) = Image(v)
    BY DEF Bootable
<1>2. ImageSize \in Nat \ {0} /\ Len(units) \in Nat /\ Len(units) >= ImageSize
    BY LenProperties, DeltaOtaAssumption DEF Bootable, DeltaOtaAssumption
<1>3. \A i \in 1 .. ImageSize : units[i] \in UnitType
    BY <1>2, ElementOfSeq
<1>4. SubSeq(units, 1, ImageSize)[1] = units[1]
    BY <1>2, <1>3, SubSeqProperties
<1>5. Image(v)[1] = <<"image", v, 1>>
  <2>1. 1 \in 1 .. ImageSize
      BY <1>2
  <2>2. QED
      BY <2>1 DEF Image, Units
<1>6. units[1] = <<"image", v, 1>>
    BY <1>1, <1>4, <1>5
<1>7. QED
    BY <1>2, <1>6 DEF VersionIn

\* An image made of a file's units is the image of the file's version.
LEMMA BootableOwn ==
    ASSUME NEW v, NEW units \in Seq(OwnUnits(v)), Bootable(units)
    PROVE  VersionIn(units) = v
<1>1. units \in Seq(UnitType)
    BY OwnIsUnit
<1>2. Len(units) \in Nat \ {0} /\ units[1][1] = "image"
    BY <1>1, BootableHead
<1>3. units[1] \in OwnUnits(v)
    BY <1>2, ElementOfSeq
<1>4. QED
    BY <1>2, <1>3 DEF OwnUnits, VersionIn

LEMMA ImageBoots ==
    ASSUME NEW v \in Versions
    PROVE  Image(v) \in Seq(UnitType) /\ Bootable(Image(v))
<1>1. ImageSize \in Nat \ {0} /\ ImageSize \in 0 .. (ImageSize + PatchHeader)
    BY DeltaOtaAssumption DEF DeltaOtaAssumption
<1>2. Image(v) \in Seq(OwnUnits(v)) /\ Len(Image(v)) = ImageSize
    BY <1>1, UnitsOwn DEF Image
<1>3. Image(v) \in Seq(UnitType)
    BY <1>2, OwnIsUnit
<1>4. SubSeq(Image(v), 1, ImageSize) = Image(v)
    BY <1>2, <1>3, SubSeqFull
<1>5. QED
    BY <1>1, <1>2, <1>3, <1>4 DEF Bootable

-----------------------------------------------------------------------------
(* The inductive invariant.                                                *)

LEMMA NoDeltaType == \A T : NoDelta \in DeltaType(T) /\ NoDelta.len = 0 /\ ~NoDelta.verified
<1>1. 0 \in 0 .. (PatchLenWord - 1)
    BY DeltaOtaAssumption DEF DeltaOtaAssumption
<1>2. QED
    BY <1>1, EmptySeq DEF NoDelta, DeltaType

LEMMA InitInv == Init => IInv
<1> SUFFICES ASSUME Init PROVE IInv
    OBVIOUS
<1>1. PICK v \in Versions : slots = [s \in Slots |-> IF s = 0 THEN Image(v) ELSE << >>]
    BY DEF Init
<1>2. slots \in [Slots -> Seq(UnitType)] /\ slots[0] = Image(v) /\ Bootable(slots[0])
    BY <1>1, ImageBoots, EmptySeq DEF Slots
<1>3. file \in Files /\ block \in BlockSizes
    BY OtaAssumption DEF Init, OtaAssumption
<1>4. sent \in 0 .. Len(Stream(file))
    BY <1>3, StreamOwn, OtaAssumption DEF Init, OtaAssumption
<1>5. delta \in DeltaType(UnitType) /\ delta.len = 0 /\ ~delta.verified
    BY NoDeltaType DEF Init
<1>6. TypeOK
  <2>1. Released(delta)
      BY <1>5 DEF Released
  <2>2. running \in Slots /\ boot \in Slots /\ offset \in Nat /\ totalSize \in Nat
      BY DEF Init, Slots
  <2>3. QED
      BY <1>2, <1>3, <1>4, <1>5, <2>1, <2>2 DEF Init, TypeOK
<1>7. Booting
    BY <1>2 DEF Init, Booting
<1>8. Attempt
    BY <1>5, DeltaOtaAssumption DEF Init, Attempt, DeltaOtaAssumption
<1>9. OwnAttempt
    BY DEF Init, OwnAttempt
<1>10. QED
    BY <1>6, <1>7, <1>8, <1>9 DEF IInv

LEMMA QueryInv ==
    ASSUME IInv, NEW f \in Files, NEW b \in BlockSizes, QueryImageResponse(f, b)
    PROVE  IInv'
<1>1. 0 \in 0 .. Len(Stream(f))
    BY StreamOwn, OtaAssumption DEF OtaAssumption
<1>2. TypeOK'
    BY <1>1 DEF IInv, TypeOK, QueryImageResponse, flash, ram, Stream, Data, Tag
<1>3. Booting'
    BY DEF IInv, Booting, Bootable, QueryImageResponse, flash
<1>4. Attempt'
    BY DEF IInv, Attempt, QueryImageResponse, flash, ram
<1>5. OwnAttempt'
    BY DEF QueryImageResponse, OwnAttempt
<1>6. QED
    BY <1>2, <1>3, <1>4, <1>5 DEF IInv

LEMMA StartInv == IInv /\ Start => IInv'
<1> SUFFICES ASSUME IInv, Start PROVE IInv'
    OBVIOUS
<1>1. TypeOK'
    BY DEF IInv, TypeOK, Start, flash, Stream, Data, Tag
<1>2. Booting'
    BY DEF IInv, Booting, Bootable, Start, flash
<1>3. Attempt'
    BY DEF IInv, TypeOK, Attempt, Start, flash
<1>4. OwnAttempt'
    BY DEF Start, OwnAttempt
<1>5. QED
    BY <1>1, <1>2, <1>3, <1>4 DEF IInv

\* What is received goes to the slot the device does not run from.
LEMMA ReceiveInv == IInv /\ Receive => IInv'
<1> SUFFICES ASSUME IInv, Receive PROVE IInv'
    OBVIOUS
<1> DEFINE contents == IF otaStarted THEN slots[part] ELSE << >>
           d == IF ~otaStarted /\ file.delta THEN DeltaBegin(delta) ELSE delta
           T == OwnUnits(file.version)
<1>1. /\ TypeOK /\ phase = "receiving" /\ sent < Len(Stream(file)) /\ (sent > 0 => tagReceived)
      /\ file.version # 0 /\ delta.len <= PatchHeader
    BY DEF IInv, Attempt, Receive
<1>2. part' \in Slots /\ part' = 1 - running /\ running \in Slots
    BY <1>1 DEF IInv, Attempt, Receive, Spare, TypeOK, Slots
<1>3. contents \in Seq(T)
    BY <1>1, EmptySeq DEF IInv, OwnAttempt
<1>4. /\ d \in DeltaType(UnitType) /\ (file.delta => d \in DeltaType(T))
      /\ d.len <= PatchHeader /\ Released(d)
  <2>1. CASE ~otaStarted /\ file.delta
      BY <1>1, <2>1, DeltaBeginOwn DEF TypeOK, Released
  <2>2. CASE otaStarted \/ ~file.delta
      BY <1>1, <2>2 DEF IInv, OwnAttempt, TypeOK
  <2>3. QED
      BY <2>1, <2>2
<1>5. Deliver(contents, d)
    BY DEF Receive
<1>6. UNCHANGED <<running, boot, file, block, attempts>> /\ otaStarted' = TRUE /\ sent' = sent + Len(Block)
    BY DEF Receive
<1> HIDE DEF contents, d, T
<1>7. /\ \E c \in Seq(T) : slots' = [slots EXCEPT ![part'] = c]
      /\ delta' \in DeltaType(UnitType) /\ (file.delta => delta' \in DeltaType(T))
      /\ delta'.len <= PatchHeader /\ Released(delta')
      /\ open' = TRUE /\ totalSize' = Len(Stream(file)) /\ offset' = offset + Len(Block)
      /\ tagReceived' \in BOOLEAN /\ tagid' \in {0, 1}
      /\ phase' \in {"receiving", "refused"} /\ (phase' = "receiving" => tagReceived')
    BY <1>1, <1>2, <1>3, <1>4, <1>5, DeliverOwn DEF T
<1>8. PICK c \in Seq(T) : slots' = [slots EXCEPT ![part'] = c]
    BY <1>7
<1>9. c \in Seq(UnitType)
    BY OwnIsUnit DEF T
<1>10. TypeOK'
  <2>1. Len(Block) \in Nat /\ sent' \in 0 .. Len(Stream(file))
      BY <1>1, <1>6, BlockOwn
  <2>2. Len(Stream(file)) \in Nat
      BY <1>1, FileOfType, StreamOwn
  <2>3. Stream(file)' = Stream(file)
      BY <1>6 DEF Stream, Data, Tag
  <2>4. slots' \in [Slots -> Seq(UnitType)]
      BY <1>1, <1>2, <1>8, <1>9 DEF TypeOK
  <2>5. offset' \in Nat /\ totalSize' \in Nat
      BY <1>1, <1>7, <2>1, <2>2 DEF TypeOK
  <2>6. part' \in Slots \cup {None} /\ Released(delta')
      BY <1>2, <1>7
  <2>7. QED
      BY <1>1, <1>6, <1>7, <2>1, <2>3, <2>4, <2>5, <2>6 DEF TypeOK
<1>11. Booting'
  <2>1. slots'[running] = slots[running]
      BY <1>1, <1>2, <1>8 DEF TypeOK, Slots
  <2>2. QED
      BY <1>6, <2>1 DEF IInv, Booting, Bootable
<1>12. Attempt'
    BY <1>1, <1>2, <1>6, <1>7 DEF Attempt
<1>13. OwnAttempt'
  <2>1. slots'[part'] = c
      BY <1>1, <1>2, <1>8 DEF TypeOK
  <2>2. OwnUnits(file'.version) = T /\ OwnUnits(file'.version) = OwnUnits(file.version)
      BY <1>6 DEF T
  <2>3. QED
      BY <1>6, <1>7, <2>1, <2>2 DEF OwnAttempt
<1>14. QED
    BY <1>10, <1>11, <1>12, <1>13 DEF IInv

LEMMA BeginFailsInv == IInv /\ BeginFails => IInv'
<1> SUFFICES ASSUME IInv, BeginFails PROVE IInv'
    OBVIOUS
<1>1. Spare \in Slots /\ Spare # running /\ part' = Spare /\ UNCHANGED <<running, boot, file>>
    BY DEF IInv, TypeOK, Slots, Spare, BeginFails
<1>2. slots' \in [Slots -> Seq(UnitType)] /\ slots'[running] = slots[running]
    BY <1>1, EmptySeq DEF IInv, TypeOK, BeginFails
<1>3. TypeOK'
    BY <1>1, <1>2 DEF IInv, TypeOK, BeginFails, Refuse, Stream, Data, Tag
<1>4. Booting'
    BY <1>1, <1>2 DEF IInv, Booting, Bootable
<1>5. Attempt'
    BY <1>1 DEF IInv, Attempt, BeginFails, Refuse, Spare
<1>6. OwnAttempt'
    BY DEF BeginFails, Refuse, OwnAttempt
<1>7. QED
    BY <1>3, <1>4, <1>5, <1>6 DEF IInv

LEMMA CheckInv == IInv /\ Check => IInv'
<1> SUFFICES ASSUME IInv, Check PROVE IInv'
    OBVIOUS
<1>1. otaStarted
  <2>1. Len(Stream(file)) \in Nat \ {0}
      BY FileOfType, StreamOwn DEF IInv
  <2>2. QED
      BY <2>1 DEF IInv, Attempt, Check
<1>2. UNCHANGED <<flash, otaStarted, part, delta, file, sent, block>> /\ phase' \in {"checked", "refused"}
    BY DEF Check, Refuse
<1>3. TypeOK'
    BY <1>2 DEF IInv, TypeOK, Check, flash, Stream, Data, Tag
<1>4. Booting'
    BY <1>2 DEF IInv, Booting, Bootable, flash
<1>5. Attempt'
    BY <1>1, <1>2 DEF IInv, Attempt, Check, flash
<1>6. OwnAttempt'
    BY <1>2 DEF IInv, OwnAttempt, Check, flash, OwnUnits
<1>7. QED
    BY <1>3, <1>4, <1>5, <1>6 DEF IInv

LEMMA ApplyInv == IInv /\ Apply => IInv'
<1> SUFFICES ASSUME IInv, Apply PROVE IInv'
    OBVIOUS
<1>1. TypeOK'
    BY DEF IInv, TypeOK, Apply, flash, ram, Stream, Data, Tag
<1>2. Booting'
    BY DEF IInv, Booting, Bootable, Apply, flash
<1>3. Attempt'
    BY DEF IInv, Attempt, Apply, flash, ram
<1>4. OwnAttempt'
    BY DEF IInv, OwnAttempt, Apply, flash, ram, OwnUnits
<1>5. QED
    BY <1>1, <1>2, <1>3, <1>4 DEF IInv

\* Every start of the device leaves the statics as they were linked.
LEMMA BootedInv ==
    ASSUME IInv, RamAfterBoot, phase' = "idle", UNCHANGED <<slots, file, sent, block>>,
           running' = boot', running' \in Slots, Bootable(slots[running'])
    PROVE  IInv'
<1>1. delta' \in DeltaType(UnitType) /\ delta'.len = 0 /\ ~delta'.verified
    BY NoDeltaType DEF RamAfterBoot
<1>2. TypeOK'
  <2>1. Released(delta')
      BY <1>1 DEF Released
  <2>2. Stream(file)' = Stream(file)
      BY DEF Stream, Data, Tag
  <2>3. QED
      BY <1>1, <2>1, <2>2 DEF IInv, TypeOK, RamAfterBoot
<1>3. Booting'
    BY DEF Booting, Bootable
<1>4. Attempt'
    BY <1>1, DeltaOtaAssumption DEF Attempt, RamAfterBoot, DeltaOtaAssumption
<1>5. OwnAttempt'
    BY DEF OwnAttempt
<1>6. QED
    BY <1>2, <1>3, <1>4, <1>5 DEF IInv

LEMMA FinishInstallsInv ==
    ASSUME IInv, FinishInstalls
    PROVE  IInv' /\ Bootable(slots[part]) /\ part \in Slots
<1>1. Bootable(slots[part])
    BY DEF FinishInstalls, End
<1>2. part \in Slots
    BY DEF IInv, Attempt, FinishInstalls, TypeOK, Slots
<1>3. QED
    BY <1>1, <1>2, BootedInv DEF FinishInstalls

LEMMA FinishFailsInv == IInv /\ FinishFails => IInv'
<1> SUFFICES ASSUME IInv, FinishFails PROVE IInv'
    OBVIOUS
<1>1. PICK stuck \in BOOLEAN :
          /\ delta' = End(delta, stuck).d /\ open' = End(delta, stuck).open /\ phase' = "refused"
    BY FileOfType DEF FinishFails, Refuse, IInv, FileType
<1>2. delta' \in DeltaType(UnitType) /\ delta'.len = delta.len /\ Released(delta')
    BY <1>1, DeltaEndType DEF End, IInv, TypeOK
<1>3. open' \in BOOLEAN
    BY <1>1 DEF End
<1>4. TypeOK'
    BY <1>1, <1>2, <1>3 DEF IInv, TypeOK, FinishFails, flash, Stream, Data, Tag
<1>5. Booting'
    BY DEF IInv, Booting, Bootable, FinishFails, flash
<1>6. Attempt'
    BY <1>1, <1>2 DEF IInv, Attempt, FinishFails, flash
<1>7. OwnAttempt'
    BY <1>1 DEF OwnAttempt
<1>8. QED
    BY <1>4, <1>5, <1>6, <1>7 DEF IInv

LEMMA AbortInv == IInv /\ Abort => IInv'
<1> SUFFICES ASSUME IInv, Abort PROVE IInv'
    OBVIOUS
<1>1. TypeOK'
    BY DEF IInv, TypeOK, Abort, flash, ram, Stream, Data, Tag
<1>2. Booting'
    BY DEF IInv, Booting, Bootable, Abort, flash
<1>3. Attempt'
    BY DEF IInv, Attempt, Abort, flash, ram
<1>4. OwnAttempt'
    BY DEF Abort, OwnAttempt
<1>5. QED
    BY <1>1, <1>2, <1>3, <1>4 DEF IInv

LEMMA RestartInv == IInv /\ Restart => IInv'
<1> SUFFICES ASSUME IInv, Restart PROVE IInv'
    OBVIOUS
<1>1. Bootable(slots[boot]) /\ boot \in Slots
    BY DEF IInv, Booting, TypeOK
<1>2. QED
    BY <1>1, BootedInv DEF Restart

LEMMA NextInv == IInv /\ [Next]_vars => IInv'
<1> SUFFICES ASSUME IInv, [Next]_vars PROVE IInv'
    OBVIOUS
<1>1. CASE UNCHANGED vars
  <2>1. TypeOK'
      BY <1>1 DEF IInv, TypeOK, vars, Stream, Data, Tag
  <2>2. Booting' /\ Attempt'
      BY <1>1 DEF IInv, Booting, Bootable, Attempt, vars
  <2>3. OwnAttempt'
      BY <1>1 DEF IInv, OwnAttempt, OwnUnits, vars
  <2>4. QED
      BY <2>1, <2>2, <2>3 DEF IInv
<1>2. CASE Next
    BY <1>2, QueryInv, StartInv, ReceiveInv, BeginFailsInv, CheckInv, ApplyInv,
       FinishInstallsInv, FinishFailsInv, AbortInv, RestartInv DEF Next
<1>3. QED
    BY <1>1, <1>2

\* The statics of the OTA handler and of the patch receiver keep their types
\* through every upgrade, refusal, abort and restart.
THEOREM TypeCorrect == Spec => []TypeOK
<1>1. IInv => TypeOK
    BY DEF IInv
<1>2. QED
    BY <1>1, InitInv, NextInv, PTL DEF Spec

-----------------------------------------------------------------------------
(* The upgrade implements Firmware.                                        *)

Boots    == IF Bootable(slots[boot]) THEN VersionIn(slots[boot]) ELSE 0
Approved == IF phase = "idle" THEN 0 ELSE file.version
Promise  ==
    \/ Approved = 0 /\ Approved' \in Versions /\ UNCHANGED Boots
    \/ Approved # 0 /\ Boots' = Approved /\ Approved' = 0
    \/ Approved # 0 /\ Approved' = 0 /\ UNCHANGED Boots
    \/ UNCHANGED <<Boots, Approved>>

\* Whatever becomes of an attempt short of its end, the same image is booted.
LEMMA SameBoots == UNCHANGED <<slots, boot>> => Boots' = Boots
BY DEF Boots, Bootable, VersionIn

\* Writing to the slot the device does not run from is not seen.
LEMMA WritingIsUnseen ==
    ASSUME IInv, Receive \/ BeginFails
    PROVE  boot' = boot /\ slots'[boot] = slots[boot]
<1>1. /\ slots \in [Slots -> Seq(UnitType)] /\ boot \in Slots /\ boot = running
      /\ (otaStarted => part = 1 - running)
    BY DEF IInv, TypeOK, Booting, Attempt
<1>2. CASE Receive
  <2>1. boot' = boot /\ part' # boot
      BY <1>1, <1>2 DEF Receive, Spare, Slots
  <2>2. \E c : slots' = [slots EXCEPT ![part'] = c]
      BY <1>2 DEF Receive, Deliver
  <2>3. QED
      BY <1>1, <2>1, <2>2
<1>3. CASE BeginFails
    BY <1>1, <1>3 DEF BeginFails, Spare, Slots
<1>4. QED
    BY <1>2, <1>3

LEMMA WritingSteps == IInv /\ (Receive \/ BeginFails) => UNCHANGED <<Boots, Approved>>
<1> SUFFICES ASSUME IInv, Receive \/ BeginFails PROVE UNCHANGED <<Boots, Approved>>
    OBVIOUS
<1>1. boot' = boot /\ slots'[boot'] = slots[boot]
    BY WritingIsUnseen
<1>2. Boots' = Boots
    BY <1>1 DEF Boots, Bootable, VersionIn
<1>3. phase = "receiving" /\ phase' \in {"receiving", "refused"} /\ file' = file
    BY DEF Receive, Deliver, BeginFails, Refuse
<1>4. QED
    BY <1>2, <1>3 DEF Approved

\* What FINISH boots is whole and is the version approved for this attempt.
LEMMA InstallSteps ==
    ASSUME IInv, FinishInstalls
    PROVE  Approved # 0 /\ Boots' = Approved /\ Approved' = 0
<1>1. Bootable(slots[part]) /\ slots' = slots /\ boot' = part /\ file' = file /\ phase' = "idle"
    BY FinishInstallsInv DEF FinishInstalls
<1>2. slots[part] \in Seq(OwnUnits(file.version)) /\ file.version # 0 /\ phase = "applied"
    BY DEF IInv, OwnAttempt, Attempt, FinishInstalls
<1>3. VersionIn(slots[part]) = file.version
    BY <1>1, <1>2, BootableOwn
<1>4. Boots' = VersionIn(slots[part])
    BY <1>1 DEF Boots, Bootable, VersionIn
<1>5. QED
    BY <1>1, <1>2, <1>3, <1>4 DEF Approved

LEMMA RestartSteps ==
    ASSUME IInv, Abort \/ Restart
    PROVE  Boots' = Boots /\ Approved' = 0
<1>1. UNCHANGED <<slots, boot>> /\ phase' = "idle"
    BY DEF Abort, Restart, flash
<1>2. QED
    BY <1>1, SameBoots DEF Approved

LEMMA StepPromises == IInv /\ [Next]_vars => Promise
<1> SUFFICES ASSUME IInv, [Next]_vars PROVE Promise
    OBVIOUS
<1>1. ASSUME NEW f \in Files, NEW b \in BlockSizes, QueryImageResponse(f, b) PROVE Promise
  <2>1. UNCHANGED <<slots, boot>> /\ phase = "idle" /\ phase' = "approved" /\ file' = f
      BY <1>1 DEF QueryImageResponse, flash
  <2>2. f.version \in Versions
      BY <1>1, OtaAssumption DEF QueryImageResponse, OtaAssumption, FileType
  <2>3. QED
      BY <2>1, <2>2, SameBoots DEF Promise, Approved
<1>2. CASE Start \/ Check \/ Apply \/ FinishFails
  <2>1. UNCHANGED <<slots, boot, file>> /\ phase # "idle" /\ phase' # "idle"
      BY <1>2 DEF Start, Check, Apply, FinishFails, Refuse, flash
  <2>2. QED
      BY <2>1, SameBoots DEF Promise, Approved
<1>3. CASE Receive \/ BeginFails
    BY <1>3, WritingSteps DEF Promise
<1>4. CASE FinishInstalls
    BY <1>4, InstallSteps DEF Promise
<1>5. CASE Abort \/ Restart
    BY <1>5, RestartSteps DEF Promise
<1>6. CASE UNCHANGED vars
    BY <1>6, SameBoots DEF Promise, Approved, vars
<1>7. QED
    BY <1>1, <1>2, <1>3, <1>4, <1>5, <1>6 DEF Next

LEMMA InitPromises == Init => TheFirmware!Init
<1> SUFFICES ASSUME Init PROVE TheFirmware!Init
    OBVIOUS
<1>1. slots[boot] \in Seq(UnitType) /\ Bootable(slots[boot])
    BY InitInv DEF IInv, TypeOK, Booting
<1>2. VersionIn(slots[boot]) \in Versions
    BY <1>1, BootableHead
<1>3. QED
    BY <1>1, <1>2 DEF Init, TheFirmware!Init

\* Through refusals, aborts and power failures, however many: the device always
\* has a whole image to boot, and boots another only once a whole one of the
\* version approved last is in the other slot.
THEOREM UpgradeIsFirmware == Spec => ImplementsFirmware
<1>1. Promise => [TheFirmware!Approve \/ TheFirmware!Install \/ TheFirmware!GiveUp]_<<Boots, Approved>>
    BY DEF Promise, Boots, Approved, TheFirmware!Approve, TheFirmware!Install, TheFirmware!GiveUp
<1>2. QED
    BY <1>1, InitInv, NextInv, StepPromises, InitPromises, PTL
       DEF Spec, ImplementsFirmware, TheFirmware!Spec, Boots, Approved
-----------------------------------------------------------------------------
(* What passes CHECK is complete.                                          *)

\* The engine's output is passed on or held back, and counted once.
LEMMA WriteCbCounts ==
    ASSUME NEW T, NEW d \in DeltaType(T), NEW units \in Seq(T), NEW r, r = WriteCb(d, units)
    PROVE  r.d.fed = d.fed /\ Len(r.out) + HeldBack(r.d) <= HeldBack(d) + Len(units)
<1>1. /\ Len(d.held) \in Nat /\ Len(units) \in Nat
      /\ Len(d.held \o units) = Len(d.held) + Len(units) /\ Len(<< >>) = 0
    BY ConcatProperties, LenProperties, EmptySeq DEF DeltaType
<1>2. CASE d.chip
    BY <1>1, <1>2 DEF WriteCb, HeldBack
<1>3. CASE ~d.chip
  <2> DEFINE all == d.held \o units
  <2>1. CASE r = [ok |-> TRUE, d |-> [d EXCEPT !.held = all], out |-> << >>]
      BY <1>1, <1>3, <2>1 DEF HeldBack, DeltaType
  <2>2. CASE r = [ok |-> FALSE, d |-> d, out |-> << >>]
      BY <1>1, <1>3, <2>2 DEF HeldBack
  <2>3. CASE r = [ok |-> TRUE, d |-> [d EXCEPT !.chip = TRUE], out |-> all]
    <3>1. r.d = [d EXCEPT !.chip = TRUE] /\ r.out = all
        BY <2>3
    <3>2. r.d.chip /\ r.d.fed = d.fed
        BY <3>1 DEF DeltaType
    <3>3. HeldBack(r.d) = 0
        BY <3>2 DEF HeldBack
    <3>4. QED
        BY <1>1, <1>3, <3>1, <3>2, <3>3 DEF HeldBack
  <2>4. QED
      BY <1>3, <2>1, <2>2, <2>3 DEF WriteCb
<1>4. QED
    BY <1>2, <1>3

\* What is passed on or held back beyond what was is what the engine consumed.
Counted(d, r) == Len(r.out) + HeldBack(r.d) + d.fed <= HeldBack(d) + r.d.fed

LEMMA FreedCounts ==
    ASSUME NEW T, NEW d \in DeltaType(T)
    PROVE  /\ Freed(d).fed = d.fed /\ HeldBack(Freed(d)) = HeldBack(d)
           /\ d.fed \in Nat /\ HeldBack(d) \in Nat
<1>1. d.held \in Seq(T) /\ Len(d.held) \in Nat
    BY LenProperties DEF DeltaType
<1>2. QED
    BY <1>1 DEF Freed, HeldBack, DeltaType

LEMMA FeedCounts ==
    ASSUME NEW v \in Versions \cup {0}, NEW d \in DeltaType(OwnUnits(v)),
           NEW units \in Seq(OwnUnits(v)), NEW r \in Feed(d, units)
    PROVE  Counted(d, r)
<1> DEFINE T     == OwnUnits(v)
           freed == Freed(d)
           count == freed.fed + Len(units)
           fed   == [freed EXCEPT !.fed = count]
           image == Patched(d, units)
<1>1. image \in Seq(T) /\ Len(units) \in Nat /\ Len(image) = Len(units)
  <2>1. Len(units) \in Nat /\ image \in Seq(T)
      BY PatchedOwn, LenProperties DEF DeltaType
  <2>2. DOMAIN image = 1 .. Len(units)
      BY DEF Patched
  <2>3. Len(image) \in Nat /\ DOMAIN image = 1 .. Len(image)
      BY <2>1, LenProperties
  <2>4. QED
      BY <2>1, <2>2, <2>3
<1>2. /\ freed \in DeltaType(T) /\ freed.fed = d.fed /\ HeldBack(freed) = HeldBack(d)
      /\ d.fed \in Nat /\ HeldBack(d) \in Nat
    BY FreedOwn, FreedCounts
<1>3. r = WriteCb(fed, image) \/ r = [ok |-> FALSE, d |-> freed, out |-> << >>]
    BY DEF Feed
<1> HIDE DEF T, image, freed, count
<1>4. count \in Nat /\ count = d.fed + Len(units)
    BY <1>1, <1>2 DEF count
<1>5. fed \in DeltaType(T) /\ fed.fed = count /\ HeldBack(fed) = HeldBack(d)
    BY <1>2, <1>4 DEF DeltaType, HeldBack
<1> HIDE DEF fed
<1>6. CASE r = WriteCb(fed, image)
  <2>1. r.d.fed = fed.fed /\ Len(r.out) + HeldBack(r.d) <= HeldBack(fed) + Len(image)
      BY <1>1, <1>5, <1>6, WriteCbCounts
  <2>2. r.d \in DeltaType(T) /\ r.out \in Seq(T)
      BY <1>1, <1>5, <1>6, WriteCbOwn
  <2>3. HeldBack(r.d) \in Nat /\ Len(r.out) \in Nat
      BY <2>2, FreedCounts, LenProperties
  <2>4. QED
      BY <1>1, <1>2, <1>4, <1>5, <2>1, <2>3 DEF Counted
<1>7. CASE r = [ok |-> FALSE, d |-> freed, out |-> << >>]
    BY <1>2, <1>7, EmptySeq DEF Counted
<1>8. QED
    BY <1>3, <1>6, <1>7

\* A patch_len that wraps loses data, and never makes more of it.
LEMMA DeltaWriteCounts ==
    ASSUME NEW v \in Versions \cup {0}, NEW d \in DeltaType(OwnUnits(v)),
           d.len <= PatchHeader,
           NEW data \in Seq(OwnUnits(v)), NEW version, NEW r \in DeltaWrite(d, data, version)
    PROVE  Counted(d, r)
<1> DEFINE left == Left(d)
           buf  == left \o data
           len  == (d.len + Len(data)) % PatchLenWord
           rest == SubSeq(buf, PatchHeader + 1, len)
           seen == [d EXCEPT !.verified = TRUE]
<1>1. d.fed \in Nat /\ HeldBack(d) \in Nat
    BY FreedCounts
<1>2. CASE r \in Feed(d, data)
    BY <1>2, FeedCounts
<1>3. CASE r = [ok |-> TRUE, d |-> [d EXCEPT !.buf = buf, !.len = len], out |-> << >>]
  <2> HIDE DEF buf, len
  <2>1. r.d.fed = d.fed /\ HeldBack(r.d) = HeldBack(d) /\ Len(r.out) = 0
      BY <1>3, EmptySeq DEF DeltaType, HeldBack
  <2>2. QED
      BY <1>1, <2>1 DEF Counted
<1>4. CASE r = [ok |-> FALSE, d |-> Freed(d), out |-> << >>]
    BY <1>1, <1>4, FreedCounts, EmptySeq DEF Counted
<1>5. CASE r \in Feed(seen, rest)
  <2>1. seen \in DeltaType(OwnUnits(v)) /\ seen.fed = d.fed /\ HeldBack(seen) = HeldBack(d)
      BY DEF DeltaType, HeldBack
  <2>2. rest \in Seq(OwnUnits(v))
      BY RestOwn, OwnIsUnit
  <2> HIDE DEF rest, seen
  <2>3. Counted(seen, r)
      BY <1>5, <2>1, <2>2, FeedCounts
  <2>4. QED
      BY <2>1, <2>3 DEF Counted
<1>6. QED
    BY <1>2, <1>3, <1>4, <1>5 DEF DeltaWrite

LEMMA SumBounds ==
    ASSUME NEW new \in Nat, NEW old \in Nat, NEW out \in Nat, NEW held \in Nat, NEW kept \in Nat,
           NEW fed \in Nat, NEW count \in Nat, new <= old + out, out + held + fed <= kept + count
    PROVE  new + held + fed <= old + kept + count
OBVIOUS

LEMMA WritesCount ==
    ASSUME NEW v \in Versions \cup {0}, NEW contents \in Seq(OwnUnits(v)),
           NEW data \in Seq(OwnUnits(v)), file.delta, NEW d \in DeltaType(OwnUnits(v)),
           d.len <= PatchHeader, NEW w \in Writes(contents, d, data), w.ok
    PROVE  Len(w.contents) + HeldBack(w.d) + d.fed <= Len(contents) + HeldBack(d) + w.d.fed
<1>1. d.fed \in Nat /\ HeldBack(d) \in Nat /\ Len(contents) \in Nat
    BY FreedCounts, LenProperties
<1>2. ASSUME NEW r \in DeltaWrite(d, data, Running),
             w.contents = OtaWrite(contents, r.out).contents, w.d = r.d
      PROVE  Len(w.contents) + HeldBack(w.d) + d.fed <= Len(contents) + HeldBack(d) + w.d.fed
  <2>1. Counted(d, r)
      BY DeltaWriteCounts
  <2>2. r.out \in Seq(OwnUnits(v)) /\ r.d \in DeltaType(OwnUnits(v))
      BY DeltaWriteOwn
  <2>3. Len(r.out) \in Nat /\ HeldBack(r.d) \in Nat /\ r.d.fed \in Nat
      BY <2>2, FreedCounts, LenProperties
  <2>4. Len(w.contents) <= Len(contents) + Len(r.out) /\ Len(w.contents) \in Nat
      BY <1>1, <1>2, <2>2, <2>3, ConcatProperties DEF OtaWrite
  <2>5. Len(w.contents) + HeldBack(r.d) + d.fed <= Len(contents) + HeldBack(d) + r.d.fed
    <3>1. Len(r.out) + HeldBack(r.d) + d.fed <= HeldBack(d) + r.d.fed
        BY <2>1 DEF Counted
    <3>2. QED
        BY <1>1, <2>3, <2>4, <3>1, SumBounds
  <2>6. QED
      BY <1>2, <2>5
<1>3. PICK r \in Results(d, data) : Taken(w, r, contents)
    BY WritesAre
<1>4. QED
    BY <1>2, <1>3 DEF Results, Taken

\* An image is written as it comes, and not from the middle.
LEMMA WritesAppend ==
    ASSUME ~file.delta, NEW contents, NEW d, NEW data, NEW w \in Writes(contents, d, data), w.ok
    PROVE  /\ w.contents = contents \o data
           /\ contents = << >> /\ data # << >> => data[1][1] = "image"
<1>1. w.contents = OtaWrite(contents, data).contents /\ OtaWrite(contents, data).ok
  <2>1. PICK r \in Results(d, data) : Taken(w, r, contents)
      BY WritesAre
  <2>2. r.out = data
      BY <2>1 DEF Results
  <2>3. QED
      BY <2>1, <2>2 DEF Taken
<1>2. QED
    BY <1>1 DEF OtaWrite, StartsImage

LEMMA DeliverWrites ==
    ASSUME NEW contents, NEW d, Deliver(contents, d), phase' = "receiving"
    PROVE  \E w \in Writes(contents, d, IF tagReceived THEN Block ELSE Tail(Block)) :
               w.ok /\ slots' = [slots EXCEPT ![part'] = w.contents] /\ delta' = w.d
BY DEF Deliver, Refuse

LEMMA ReceiveWritten ==
    ASSUME IInv, Written, Receive
    PROVE  Written'
<1> DEFINE contents == IF otaStarted THEN slots[part] ELSE << >>
           d == IF ~otaStarted /\ file.delta THEN DeltaBegin(delta) ELSE delta
           data == IF tagReceived THEN Block ELSE Tail(Block)
           T == OwnUnits(file.version)
           s == Stream(file)
           end == sent + Len(Block)
<1>1. /\ TypeOK /\ phase = "receiving" /\ sent < Len(s) /\ sent \in Nat
      /\ (sent > 0 => otaStarted /\ tagReceived) /\ delta.len <= PatchHeader
      /\ (otaStarted => part = 1 - running)
    BY DEF IInv, Attempt, Receive, TypeOK
<1>2. part' \in Slots
    BY <1>1 DEF Receive, Spare, TypeOK, Slots
<1>3. file' = file /\ otaStarted' = TRUE /\ sent' = end /\ Deliver(contents, d)
    BY DEF Receive
<1>4. /\ Block \in Seq(T) /\ Len(Block) \in Nat \ {0} /\ end \in 0 .. Len(s)
      /\ Block = SubSeq(s, sent + 1, end)
    BY <1>1, BlockOwn
<1>5. s \in Seq(T) /\ s[1] = Tag(file) /\ Tag(file) \in T
    BY <1>1, FileOfType, StreamOwn
<1>6. phase' \in {"receiving", "refused"}
    BY <1>1, <1>3 DEF Deliver, Refuse
<1>7. CASE phase' = "refused"
    BY <1>7 DEF Written
<1>8. CASE phase' = "receiving"
  <2>1. PICK w \in Writes(contents, d, data) :
            w.ok /\ slots' = [slots EXCEPT ![part'] = w.contents] /\ delta' = w.d
      BY <1>3, <1>8, DeliverWrites
  <2>2. slots'[part'] = w.contents
      BY <1>1, <1>2, <2>1 DEF TypeOK
  <2>3. contents \in Seq(T)
      BY <1>1, EmptySeq DEF IInv, OwnAttempt
  <2>4. ASSUME ~file.delta PROVE <<Tag(file)>> \o slots'[part'] = SubSeq(s, 1, end)
    <3>1. w.contents = contents \o data /\ (contents = << >> /\ data # << >> => data[1][1] = "image")
      <4> HIDE DEF contents, d, data
      <4>1. QED
          BY <2>1, <2>4, WritesAppend
    <3>2. CASE sent = 0
      <4>1. contents = << >>
          BY <1>1, <3>2 DEF Written
      <4>2. Block[1] = Tag(file) /\ Block # << >>
          BY <1>1, <1>4, <3>2, BlockOwn, EmptySeq
      <4>3. ~tagReceived
          BY <3>1, <4>1, <4>2 DEF Tag
      <4>4. data = SubSeq(s, 2, end)
        <5>1. 1 \in 1 .. Len(s) /\ end \in 1 .. Len(s)
            BY <1>1, <1>4, <3>2
        <5>2. Tail(SubSeq(s, 1, end)) = SubSeq(s, 2, end)
            BY <1>5, <5>1, HeadTailOfSubSeq
        <5>3. QED
            BY <1>4, <3>2, <4>3, <5>2
      <4>5. w.contents = SubSeq(s, 2, end)
        <5>1. Tail(Block) \in Seq(T)
          <6> HIDE DEF T
          <6>1. QED
              BY <1>4, <4>2, HeadTailProperties
        <5>2. QED
            BY <3>1, <4>1, <4>3, <4>4, <5>1, ConcatEmptySeq
      <4>6. SubSeq(s, 1, end) = <<s[1]>> \o SubSeq(s, 2, end)
        <5>1. 1 \in 1 .. Len(s) /\ end \in 1 .. Len(s)
            BY <1>1, <1>4, <3>2
        <5>2. QED
            BY <1>5, <5>1, SubSeqRecursiveFirst
      <4>7. QED
          BY <1>5, <2>2, <4>5, <4>6
    <3>3. CASE sent > 0
      <4>1. contents = slots[part] /\ data = Block
          BY <1>1, <3>3
      <4>2. <<Tag(file)>> \o contents = SubSeq(s, 1, sent)
          BY <1>1, <2>4, <3>3, <4>1 DEF Written
      <4>3. <<Tag(file)>> \o (contents \o Block) = (<<Tag(file)>> \o contents) \o Block
        <5>1. <<Tag(file)>> \in Seq(T)
            BY <1>5
        <5> HIDE DEF T, contents
        <5>2. QED
            BY <1>4, <2>3, <5>1, ConcatAssociative
      <4>4. SubSeq(s, 1, sent) \o SubSeq(s, sent + 1, end) = SubSeq(s, 1, end)
        <5>1. 1 \in 1 .. (Len(s) + 1) /\ sent \in 0 .. Len(s) /\ end \in sent .. Len(s)
            BY <1>1, <1>4
        <5> HIDE DEF T, s, end
        <5>2. QED
            BY <1>5, <5>1, ConcatAdjacentSubSeq
      <4>5. QED
          BY <1>4, <2>2, <3>1, <4>1, <4>2, <4>3, <4>4
    <3>4. QED
        BY <1>1, <3>2, <3>3
  <2>5. ASSUME file.delta PROVE Len(slots'[part']) + HeldBack(delta') <= delta'.fed
    <3>1. /\ d \in DeltaType(T) /\ d.len <= PatchHeader /\ Released(d)
          /\ Len(contents) + HeldBack(d) <= d.fed
      <4>1. CASE otaStarted
          BY <1>1, <2>5, <4>1 DEF IInv, OwnAttempt, Written, TypeOK
      <4>2. CASE ~otaStarted
        <5>1. d \in DeltaType(T) /\ d.len = delta.len /\ Released(d)
            BY <1>1, <2>5, <4>2, DeltaBeginOwn DEF TypeOK, Released
        <5>2. d.fed = 0 /\ HeldBack(d) = 0 /\ Len(contents) = 0
            BY <2>5, <4>2, EmptySeq DEF DeltaBegin, NoDelta, HeldBack
        <5>3. QED
            BY <1>1, <5>1, <5>2 DEF TypeOK
      <4>3. QED
          BY <4>1, <4>2
    <3>2. data \in Seq(T)
      <4>1. Block # << >>
          BY <1>4, EmptySeq
      <4>2. Tail(Block) \in Seq(T)
        <5> HIDE DEF T
        <5>1. QED
            BY <1>4, <4>1, HeadTailProperties
      <4>3. QED
          BY <1>4, <4>2
    <3> HIDE DEF contents, d, data
    <3>3. file.version \in Versions \cup {0}
        BY <1>1, FileOfType
    <3>4. Len(w.contents) + HeldBack(w.d) + d.fed <= Len(contents) + HeldBack(d) + w.d.fed
        BY <2>1, <2>3, <2>5, <3>1, <3>2, <3>3, WritesCount DEF T
    <3>5. /\ w.contents \in Seq(T) /\ w.d \in DeltaType(T)
        BY <2>1, <2>3, <2>5, <3>1, <3>2, <3>3, WritesOwn, TypeWidens, OwnIsUnit DEF T
    <3>6. /\ Len(w.contents) \in Nat /\ Len(contents) \in Nat /\ d.fed \in Nat /\ w.d.fed \in Nat
          /\ HeldBack(w.d) \in Nat /\ HeldBack(d) \in Nat
        BY <2>3, <3>1, <3>5, FreedCounts, LenProperties
    <3>7. QED
        BY <2>1, <2>2, <3>1, <3>4, <3>6
  <2>6. Stream(file)' = Stream(file) /\ Tag(file)' = Tag(file) /\ sent' # 0
      BY <1>1, <1>3, <1>4 DEF Stream, Data, Tag
  <2>7. QED
      BY <1>3, <1>8, <2>4, <2>5, <2>6 DEF Written, HeldBack
<1>9. QED
    BY <1>6, <1>7, <1>8

LEMMA CheckWritten ==
    ASSUME IInv, Written, Check
    PROVE  Written'
<1>1. /\ UNCHANGED <<flash, otaStarted, part, delta, file, sent>> /\ phase = "receiving"
      /\ phase' \in {"checked", "refused"} /\ sent = Len(Stream(file))
    BY DEF Check, Refuse
<1>2. /\ Stream(file) \in Seq(OwnUnits(file.version)) /\ Len(Stream(file)) \in Nat \ {0}
      /\ Data(file) \in Seq(OwnUnits(file.version)) /\ Tag(file) \in OwnUnits(file.version)
    BY FileOfType, StreamOwn DEF IInv
<1>3. ASSUME ~file.delta PROVE slots[part] = Data(file)
  <2>1. sent > 0 /\ otaStarted
      BY <1>1, <1>2 DEF IInv, Attempt
  <2>2. slots[part] \in Seq(OwnUnits(file.version)) /\ <<Tag(file)>> \in Seq(OwnUnits(file.version))
      BY <1>1, <1>2, <2>1 DEF IInv, OwnAttempt
  <2>3. <<Tag(file)>> \o slots[part] = SubSeq(Stream(file), 1, Len(Stream(file)))
      BY <1>1, <1>3, <2>1 DEF Written
  <2>4. <<Tag(file)>> \o slots[part] = <<Tag(file)>> \o Data(file)
      BY <1>2, <2>3, SubSeqFull DEF Stream
  <2>5. QED
      BY <1>2, <2>2, <2>4, ConcatSimplifications
<1>4. QED
    BY <1>1, <1>3 DEF Written, flash, HeldBack, Data

LEMMA NextWritten == IInv /\ Written /\ [Next]_vars => Written'
<1> SUFFICES ASSUME IInv, Written, [Next]_vars PROVE Written'
    OBVIOUS
<1>1. CASE UNCHANGED vars
    BY <1>1 DEF Written, vars, HeldBack, Stream, Data, Tag
<1>2. ASSUME NEW f \in Files, NEW b \in BlockSizes, QueryImageResponse(f, b) PROVE Written'
    BY <1>2 DEF Written, QueryImageResponse
<1>3. CASE Start
    BY <1>3 DEF IInv, Attempt, Start, Written
<1>4. CASE Apply
    BY <1>4 DEF Written, Apply, flash, ram, HeldBack, Data
<1>5. CASE BeginFails \/ FinishInstalls \/ FinishFails \/ Abort \/ Restart
    BY <1>5 DEF Written, BeginFails, FinishInstalls, FinishFails, Abort, Restart, Refuse
<1>6. QED
    BY <1>1, <1>2, <1>3, <1>4, <1>5, ReceiveWritten, CheckWritten DEF Next

\* What the engine made of a whole patch is the image, or less than an image.
LEMMA WrittenIsComplete == IInv /\ Written => CheckedIsComplete
<1> SUFFICES ASSUME IInv, Written, phase \in {"checked", "applied"}, Sound(file)
             PROVE  slots[part] = Image(file.version) \/ (file.delta /\ ~End(delta, FALSE).ok)
    BY DEF CheckedIsComplete
<1>1. CASE ~file.delta
    BY <1>1 DEF Written, Sound, Data
<1>2. CASE file.delta /\ End(delta, FALSE).ok
  <2>1. /\ Bootable(slots[part]) /\ delta.fed = ImageSize
        /\ Len(slots[part]) + HeldBack(delta) <= delta.fed
        /\ slots[part] \in Seq(OwnUnits(file.version)) /\ delta \in DeltaType(OwnUnits(file.version))
      BY <1>2 DEF End, DeltaEnd, Written, IInv, Attempt, OwnAttempt
  <2>2. Len(slots[part]) = ImageSize
    <3>1. ImageSize \in Nat /\ Len(slots[part]) \in Nat /\ HeldBack(delta) \in Nat
        BY <2>1, FreedCounts, LenProperties, DeltaOtaAssumption DEF DeltaOtaAssumption
    <3>2. QED
        BY <2>1, <3>1 DEF Bootable
  <2>3. PICK v \in Versions : slots[part] = Image(v)
      BY <2>1, <2>2, SubSeqFull DEF Bootable
  <2>4. VersionIn(Image(v)) = v
      BY DeltaOtaAssumption DEF VersionIn, Image, Units, DeltaOtaAssumption
  <2>5. QED
      BY <2>1, <2>3, <2>4, BootableOwn
<1>3. QED
    BY <1>1, <1>2

\* Whatever earlier attempts left in the statics, and with any block size: the
\* slot of a sound file that passes CHECK has its whole image, or FINISH sees
\* that it has not.
THEOREM CheckedComplete == Spec => []CheckedIsComplete
<1>1. Init => Written
    BY DEF Init, Written
<1>2. QED
    BY <1>1, InitInv, NextInv, NextWritten, WrittenIsComplete, PTL DEF Spec

-----------------------------------------------------------------------------
(* No sound file is refused: what the parts of a sound file are.           *)

\* What Units has at each place.
LEMMA UnitsAre ==
    ASSUME NEW kind \in {"image", "header", "body"}, NEW v \in Versions \cup {0},
           NEW size \in 0 .. (ImageSize + PatchHeader)
    PROVE  /\ Units(kind, v, size) \in Seq(UnitType)
           /\ Len(Units(kind, v, size)) = size
           /\ \A i \in 1 .. size : Units(kind, v, size)[i] = <<kind, v, i>>
<1> DEFINE s == Units(kind, v, size)
<1>1. \A i \in 1 .. size : <<kind, v, i>> \in UnitType
  <2>1. \A i \in 1 .. size : i \in 0 .. (ImageSize + PatchHeader)
      BY DeltaOtaAssumption DEF DeltaOtaAssumption
  <2>2. QED
      BY <2>1, UnitKinds
<1>2. s \in [1 .. size -> UnitType] /\ size \in Nat
    BY <1>1, DeltaOtaAssumption DEF Units, DeltaOtaAssumption
<1>3. s \in Seq(UnitType)
    BY <1>2, SeqDef
<1>4. \A i \in 1 .. size : s[i] = <<kind, v, i>>
    BY DEF Units
<1> HIDE DEF s
<1>5. Len(s) = size
    BY <1>2, <1>3, LenProperties
<1>6. QED
    BY <1>3, <1>4, <1>5 DEF s

\* A piece that continues the units up to n makes units up to its end.
LEMMA UnitsGrow ==
    ASSUME NEW kind \in {"image", "header", "body"}, NEW v \in Versions \cup {0}, NEW n \in Nat,
           NEW piece \in Seq(UnitType), n + Len(piece) <= ImageSize + PatchHeader,
           \A i \in 1 .. Len(piece) : piece[i] = <<kind, v, n + i>>
    PROVE  Units(kind, v, n) \o piece = Units(kind, v, n + Len(piece))
<1> DEFINE m == Len(piece)
           a == Units(kind, v, n)
           b == Units(kind, v, n + m)
<1>1. m \in Nat /\ ImageSize + PatchHeader \in Nat
    BY LenProperties, DeltaOtaAssumption DEF DeltaOtaAssumption
<1>2. n \in 0 .. (ImageSize + PatchHeader) /\ n + m \in 0 .. (ImageSize + PatchHeader)
    BY <1>1
<1>3. a \in Seq(UnitType) /\ Len(a) = n /\ \A i \in 1 .. n : a[i] = <<kind, v, i>>
    BY <1>2, UnitsAre
<1>4. b \in Seq(UnitType) /\ Len(b) = n + m /\ \A i \in 1 .. n + m : b[i] = <<kind, v, i>>
  <2> DEFINE size == n + m
  <2> HIDE DEF m
  <2>1. size \in 0 .. (ImageSize + PatchHeader)
      BY <1>2
  <2> HIDE DEF size
  <2>2. Units(kind, v, size) \in Seq(UnitType) /\ Len(Units(kind, v, size)) = size
        /\ \A i \in 1 .. size : Units(kind, v, size)[i] = <<kind, v, i>>
      BY <2>1, UnitsAre
  <2>3. QED
      BY <2>2 DEF size
<1> HIDE DEF a, b
<1>5. /\ a \o piece \in Seq(UnitType) /\ Len(a \o piece) = n + m
      /\ \A i \in 1 .. n + m : (a \o piece)[i] = IF i <= n THEN a[i] ELSE piece[i - n]
    BY <1>3, ConcatProperties
<1> HIDE DEF m
<1>6. ASSUME NEW i \in 1 .. n + m PROVE (a \o piece)[i] = b[i]
  <2>1. CASE i <= n
    <3>1. i \in 1 .. n
        BY <1>1, <2>1
    <3>2. QED
        BY <1>3, <1>4, <1>5, <2>1, <3>1
  <2>2. CASE ~(i <= n)
    <3>1. i - n \in 1 .. m /\ n + (i - n) = i
        BY <1>1, <2>2
    <3>2. piece[i - n] = <<kind, v, i>>
        BY <3>1 DEF m
    <3>3. QED
        BY <1>4, <1>5, <2>2, <3>2
  <2>3. QED
      BY <2>1, <2>2
<1>7. a \o piece = b
    BY <1>4, <1>5, <1>6, SeqEqual
<1>8. QED
    BY <1>7 DEF a, b, m

LEMMA NoUnits == \A kind, v : Units(kind, v, 0) = << >>
BY DEF Units

\* The patch header, made for the base image, and then the body.
LEMMA SoundPatch ==
    ASSUME NEW f \in FileType, f.defect = "none", f.delta
    PROVE  /\ Data(f) \in Seq(UnitType) /\ Len(Data(f)) = PatchHeader + ImageSize
           /\ \A i \in 1 .. PatchHeader : Data(f)[i] = <<"header", f.base, i>>
           /\ \A i \in 1 .. ImageSize : Data(f)[PatchHeader + i] = <<"body", f.version, i>>
<1> DEFINE h == Units("header", f.base, PatchHeader)
           b == Units("body", f.version, ImageSize)
<1>1. PatchHeader \in Nat /\ ImageSize \in Nat
    BY DeltaOtaAssumption DEF DeltaOtaAssumption
<1>2. f.version \in Versions \cup {0} /\ f.base \in Versions \cup {0}
    BY DEF FileType
<1> PatchHeader \in 0 .. (ImageSize + PatchHeader) /\ ImageSize \in 0 .. (ImageSize + PatchHeader)
    BY <1>1
<1>3. h \in Seq(UnitType) /\ Len(h) = PatchHeader /\ \A i \in 1 .. PatchHeader : h[i] = <<"header", f.base, i>>
    BY <1>1, <1>2, UnitsAre
<1>4. b \in Seq(UnitType) /\ Len(b) = ImageSize /\ \A i \in 1 .. ImageSize : b[i] = <<"body", f.version, i>>
    BY <1>1, <1>2, UnitsAre
<1>5. Data(f) = h \o b
    BY DEF Data, Patch
<1> HIDE DEF h, b
<1>6. /\ h \o b \in Seq(UnitType) /\ Len(h \o b) = PatchHeader + ImageSize
      /\ \A i \in 1 .. PatchHeader + ImageSize :
            (h \o b)[i] = IF i <= PatchHeader THEN h[i] ELSE b[i - PatchHeader]
    BY <1>3, <1>4, ConcatProperties
<1>7. ASSUME NEW i \in 1 .. PatchHeader PROVE (h \o b)[i] = <<"header", f.base, i>>
  <2>1. i \in 1 .. PatchHeader + ImageSize /\ i <= PatchHeader
      BY <1>1
  <2>2. QED
      BY <1>3, <1>6, <2>1
<1>8. ASSUME NEW i \in 1 .. ImageSize PROVE (h \o b)[PatchHeader + i] = <<"body", f.version, i>>
  <2>1. /\ PatchHeader + i \in 1 .. PatchHeader + ImageSize /\ ~(PatchHeader + i <= PatchHeader)
        /\ (PatchHeader + i) - PatchHeader = i
      BY <1>1
  <2>2. QED
      BY <1>4, <1>6, <2>1
<1>9. QED
    BY <1>5, <1>6, <1>7, <1>8

\* The stream is the tag and the data.
LEMMA StreamIs ==
    ASSUME NEW f \in FileType
    PROVE  /\ Data(f) \in Seq(UnitType) /\ Stream(f) \in Seq(UnitType) /\ Len(Data(f)) \in Nat
           /\ Len(Stream(f)) = Len(Data(f)) + 1
           /\ \A i \in 1 .. Len(Data(f)) : Stream(f)[i + 1] = Data(f)[i]
<1> DEFINE t == <<Tag(f)>>
           s == Data(f)
<1>1. s \in Seq(UnitType) /\ Tag(f) \in UnitType
    BY StreamOwn, OwnIsUnit
<1>2. t \in Seq(UnitType) /\ Len(t) = 1 /\ Len(s) \in Nat
    BY <1>1, LenProperties
<1>3. Stream(f) = t \o s
    BY DEF Stream
<1> HIDE DEF t, s
<1>4. /\ t \o s \in Seq(UnitType) /\ Len(t \o s) = 1 + Len(s)
      /\ \A i \in 1 .. 1 + Len(s) : (t \o s)[i] = IF i <= 1 THEN t[i] ELSE s[i - 1]
  <2>1. /\ t \o s \in Seq(UnitType) /\ Len(t \o s) = Len(t) + Len(s)
        /\ \A i \in 1 .. Len(t) + Len(s) : (t \o s)[i] = IF i <= Len(t) THEN t[i] ELSE s[i - Len(t)]
      BY <1>1, <1>2, ConcatProperties
  <2>2. QED
      BY <1>2, <2>1
<1>5. ASSUME NEW i \in 1 .. Len(s) PROVE (t \o s)[i + 1] = s[i]
  <2>1. i + 1 \in 1 .. 1 + Len(s) /\ ~(i + 1 <= 1) /\ (i + 1) - 1 = i
      BY <1>2
  <2>2. QED
      BY <1>4, <2>1
<1>6. QED
    BY <1>1, <1>2, <1>3, <1>4, <1>5 DEF s

\* The engine makes the image's next units of the patch's.
LEMMA PatchedIs ==
    ASSUME NEW v \in Versions \cup {0}, NEW d \in DeltaType(UnitType), NEW units \in Seq(UnitType),
           d.fed + Len(units) <= ImageSize,
           \A i \in 1 .. Len(units) : units[i] = <<"body", v, d.fed + i>>
    PROVE  /\ Patched(d, units) \in Seq(UnitType) /\ Len(Patched(d, units)) = Len(units)
           /\ \A i \in 1 .. Len(units) : Patched(d, units)[i] = <<"image", v, d.fed + i>>
<1> DEFINE image == Patched(d, units)
           m == Len(units)
<1>1. m \in Nat /\ d.fed \in Nat /\ ImageSize \in Nat /\ PatchHeader \in Nat
    BY LenProperties, DeltaOtaAssumption DEF DeltaType, DeltaOtaAssumption
<1>2. \A i \in 1 .. m : image[i] = <<"image", v, d.fed + i>>
    BY DEF Patched
<1>3. \A i \in 1 .. m : <<"image", v, d.fed + i>> \in UnitType
  <2>1. \A i \in 1 .. m : d.fed + i \in 0 .. (ImageSize + PatchHeader)
      BY <1>1
  <2>2. QED
      BY <2>1, UnitKinds
<1>4. image \in [1 .. m -> UnitType]
  <2>1. image = [i \in 1 .. m |-> image[i]]
      BY DEF Patched
  <2>2. QED
      BY <2>1, <1>2, <1>3
<1> HIDE DEF image, m
<1>5. image \in Seq(UnitType)
    BY <1>1, <1>4, SeqDef
<1>6. Len(image) = m
    BY <1>1, <1>4, <1>5, LenProperties
<1>7. QED
    BY <1>2, <1>5, <1>6 DEF image, m

LEMMA ConcatEmpty == \A s \in Seq(UnitType) : s \o << >> = s /\ << >> \o s = s
BY ConcatEmptySeq

LEMMA HeldSet ==
    ASSUME NEW d \in DeltaType(UnitType), NEW x, NEW r, r = [d EXCEPT !.held = x]
    PROVE  r.held = x /\ r.chip = d.chip /\ r.fed = d.fed /\ r.len = d.len /\ r.verified = d.verified
BY DEF DeltaType

LEMMA ChipSet ==
    ASSUME NEW d \in DeltaType(UnitType), NEW x, NEW r, r = [d EXCEPT !.chip = x]
    PROVE  r.held = d.held /\ r.chip = x /\ r.fed = d.fed /\ r.len = d.len /\ r.verified = d.verified
BY DEF DeltaType

\* The result r is written to a slot with "contents", which it goes on with.
Goes(r, contents, v) ==
    r.ok /\ OtaWrite(contents, r.out).ok /\ Rebuilt(r.d, OtaWrite(contents, r.out).contents, v)
Statics(d) == <<d.fed, d.len, d.verified>>

\* The piece has the units of this kind and version after the first n.
Continues(piece, kind, v, n) ==
    \A i \in 1 .. Len(piece) : piece[i] = <<kind, v, n + i>>

\* e is d after n units were fed.
Fed(e, d, n) ==
    e \in DeltaType(UnitType) /\ e.fed = d.fed + n /\ e.chip = d.chip /\ e.held = d.held

\* delta_ota_write_cb and esp_ota_write take the next units of an image: held
\* back, with what was held back, or passed on.
LEMMA WriteCbRebuilds ==
    ASSUME NEW v \in Versions \cup {0}, NEW d \in DeltaType(UnitType), NEW e, NEW contents,
           Rebuilt(d, contents, v), NEW image \in Seq(UnitType), image # << >>,
           d.fed + Len(image) <= ImageSize,
           Continues(image, "image", v, d.fed),
           Fed(e, d, Len(image))
    PROVE  Goes(WriteCb(e, image), contents, v) /\ Statics(WriteCb(e, image).d) = Statics(e)
<1> DEFINE m == Len(image)
           r == WriteCb(e, image)
           done == Units("image", v, d.fed)
           more == Units("image", v, d.fed + m)
<1>1. m \in Nat \ {0} /\ d.fed \in Nat /\ ImageSize \in Nat /\ PatchHeader \in Nat
    BY EmptySeq, LenProperties, DeltaOtaAssumption DEF DeltaType, DeltaOtaAssumption
<1>2. done \o image = more
  <2>1. d.fed + Len(image) <= ImageSize + PatchHeader
      BY <1>1
  <2>2. QED
      BY <1>1, <2>1, UnitsGrow DEF Continues
<1>3. /\ Len(more) = d.fed + m /\ more \in Seq(UnitType)
      /\ \A i \in 1 .. d.fed + m : more[i] = <<"image", v, i>>
  <2> DEFINE size == d.fed + m
  <2>1. size \in 0 .. (ImageSize + PatchHeader)
      BY <1>1
  <2> HIDE DEF size
  <2>2. /\ Units("image", v, size) \in Seq(UnitType) /\ Len(Units("image", v, size)) = size
        /\ \A i \in 1 .. size : Units("image", v, size)[i] = <<"image", v, i>>
      BY <2>1, UnitsAre
  <2>3. QED
      BY <2>2 DEF size
<1>4. e \in DeltaType(UnitType) /\ e.fed = d.fed + m /\ e.chip = d.chip /\ e.held = d.held
    BY DEF Fed
<1>5. e.fed > 0 /\ 1 \in 1 .. d.fed + m
    BY <1>1, <1>4
<1> HIDE DEF more, done, r
<1>6. CASE d.chip
  <2>1. contents = done /\ d.fed > 0
      BY <1>6 DEF Rebuilt, done
  <2>2. contents # << >>
    <3>1. d.fed \in 0 .. (ImageSize + PatchHeader)
        BY <1>1
    <3>2. Len(done) = d.fed /\ Len(<< >>) = 0
        BY <3>1, UnitsAre, EmptySeq DEF done
    <3>3. QED
        BY <1>1, <2>1, <3>2
  <2>3. r.ok /\ r.d = e /\ r.out = image
      BY <1>4, <1>6 DEF r, WriteCb
  <2>4. OtaWrite(contents, r.out).ok /\ OtaWrite(contents, r.out).contents = more
      BY <1>2, <2>1, <2>2, <2>3 DEF OtaWrite
  <2>5. QED
      BY <1>4, <1>5, <1>6, <2>3, <2>4 DEF Goes, Statics, Rebuilt, more, r
<1>7. CASE ~d.chip
  <2>1. d.held = done /\ contents = << >>
      BY <1>7 DEF Rebuilt, done
  <2>2. e.held \o image = more
      BY <1>2, <1>4, <2>1
  <2>3. CASE d.fed + m <= 1
    <3>1. r.ok /\ r.d = [e EXCEPT !.held = more] /\ r.out = << >>
        BY <1>3, <1>4, <1>7, <2>2, <2>3 DEF r, WriteCb
    <3>2. /\ r.d.held = more /\ r.d.chip = e.chip /\ r.d.fed = e.fed /\ r.d.len = e.len
          /\ r.d.verified = e.verified
        BY <3>1, <1>4, HeldSet
    <3>3. OtaWrite(contents, r.out).ok /\ OtaWrite(contents, r.out).contents = << >>
        BY <2>1, <3>1, ConcatEmpty, EmptySeq DEF OtaWrite
    <3>4. QED
        BY <1>4, <1>7, <2>3, <3>1, <3>2, <3>3 DEF Goes, Statics, Rebuilt, more, r
  <2>4. CASE ~(d.fed + m <= 1)
    <3>1. more[1] = <<"image", v, 1>>
        BY <1>3, <1>5
    <3>2. r.ok /\ r.d = [e EXCEPT !.chip = TRUE] /\ r.out = more
        BY <1>3, <1>4, <1>7, <2>2, <2>4, <3>1 DEF r, WriteCb
    <3>3. r.d.chip /\ r.d.fed = e.fed /\ r.d.len = e.len /\ r.d.verified = e.verified
        BY <3>2, <1>4, ChipSet
    <3>4. OtaWrite(contents, r.out).ok /\ OtaWrite(contents, r.out).contents = more
        BY <1>3, <2>1, <3>1, <3>2, ConcatEmpty DEF OtaWrite, StartsImage
    <3>5. QED
        BY <1>4, <1>5, <3>2, <3>3, <3>4 DEF Goes, Statics, Rebuilt, more, r
  <2>5. QED
      BY <2>3, <2>4
<1>8. QED
    BY <1>6, <1>7 DEF r

LEMMA FirstPart ==
    ASSUME NEW T, NEW s \in Seq(T), NEW n \in Nat, n <= Len(s)
    PROVE  /\ SubSeq(s, 1, n) \in Seq(T) /\ Len(SubSeq(s, 1, n)) = n
           /\ \A i \in 1 .. n : SubSeq(s, 1, n)[i] = s[i]
<1>1. Len(s) \in Nat
    BY LenProperties
<1>2. \A i \in 1 .. n : s[i] \in T
    BY <1>1, ElementOfSeq
<1>3. CASE n = 0
    BY <1>3, SubSeqProperties, EmptySeq
<1>4. CASE n > 0
  <2>1. 1 \in Nat /\ n - 1 + 1 = n /\ 1 <= n + 1
      BY <1>4
  <2>2. /\ SubSeq(s, 1, n) \in Seq(T)
        /\ Len(SubSeq(s, 1, n)) = IF 1 <= n THEN n - 1 + 1 ELSE 0
        /\ \A i \in 1 .. n - 1 + 1 : SubSeq(s, 1, n)[i] = s[1 + i - 1]
      BY <1>1, <1>2, <2>1, SubSeqProperties
  <2>3. \A i \in 1 .. n : 1 + i - 1 = i
      OBVIOUS
  <2>4. QED
      BY <1>4, <2>1, <2>2, <2>3
<1>5. QED
    BY <1>3, <1>4

\* After the result r, n more units were fed to the engine of d.
FedOn(r, d, contents, v, n) ==
    Goes(r, contents, v) /\ r.d.fed = d.fed + n /\ r.d.len = 0 /\ r.d.verified = d.verified

\* The engine does not stop at the next units of a patch, and its output goes on.
LEMMA FeedRebuilds ==
    ASSUME NEW v \in Versions \cup {0}, NEW d \in DeltaType(UnitType), NEW contents,
           Rebuilt(d, contents, v), NEW units \in Seq(UnitType), units # << >>,
           d.fed + Len(units) <= ImageSize,
           Continues(units, "body", v, d.fed), NEW r \in Feed(d, units)
    PROVE  FedOn(r, d, contents, v, Len(units))
<1> DEFINE freed == Freed(d)
           image == Patched(d, units)
           e == [freed EXCEPT !.fed = freed.fed + Len(units)]
<1>1. /\ image \in Seq(UnitType) /\ Len(image) = Len(units)
      /\ \A i \in 1 .. Len(units) : image[i] = <<"image", v, d.fed + i>>
    BY PatchedIs DEF Continues
<1>2. /\ freed \in DeltaType(UnitType) /\ freed.len = 0 /\ freed.fed = d.fed /\ freed.chip = d.chip
      /\ freed.held = d.held /\ freed.verified = d.verified
    BY FreedOwn DEF Freed, DeltaType
<1>3. Len(units) \in Nat \ {0}
    BY EmptySeq, LenProperties
<1>4. \A i \in 1 .. Len(image) : image[i] # Junk
    BY <1>1 DEF Junk
<1>5. r = WriteCb(e, image)
    BY <1>4 DEF Feed
<1>6. Rebuilt(freed, contents, v)
    BY <1>2 DEF Rebuilt
<1>7. image # << >>
    BY <1>1, <1>3, EmptySeq
<1> HIDE DEF image, freed
<1>8. /\ e.fed = d.fed + Len(units) /\ e.len = 0 /\ e.verified = d.verified
      /\ e.chip = freed.chip /\ e.held = freed.held /\ e \in DeltaType(UnitType)
  <2> DEFINE count == freed.fed + Len(units)
  <2>1. count \in Nat /\ count = d.fed + Len(units)
      BY <1>2, <1>3 DEF DeltaType
  <2> HIDE DEF count
  <2>2. QED
      BY <1>2, <2>1 DEF DeltaType
<1>9. e.fed = freed.fed + Len(image)
    BY <1>1, <1>2, <1>8
<1> HIDE DEF e
<1>10. freed.fed + Len(image) <= ImageSize /\ Continues(image, "image", v, freed.fed)
    BY <1>1, <1>2 DEF Continues
<1>11. Fed(e, freed, Len(image))
    BY <1>8, <1>9 DEF Fed
<1>12. Goes(r, contents, v) /\ Statics(r.d) = Statics(e)
    BY <1>1, <1>2, <1>5, <1>6, <1>7, <1>10, <1>11, WriteCbRebuilds
<1>13. QED
    BY <1>8, <1>12 DEF Statics, FedOn

\* The first n units of s and the next ones are the first ones again.
LEMMA NextPiece ==
    ASSUME NEW T, NEW s \in Seq(T), NEW n \in Nat, NEW piece \in Seq(T),
           n + Len(piece) <= Len(s), \A i \in 1 .. Len(piece) : piece[i] = s[n + i]
    PROVE  SubSeq(s, 1, n) \o piece = SubSeq(s, 1, n + Len(piece))
<1> DEFINE m == Len(piece)
           a == SubSeq(s, 1, n)
           b == SubSeq(s, 1, n + m)
<1>1. m \in Nat /\ Len(s) \in Nat
    BY LenProperties
<1>2. a \in Seq(T) /\ Len(a) = n /\ \A i \in 1 .. n : a[i] = s[i]
    BY <1>1, FirstPart
<1>3. b \in Seq(T) /\ Len(b) = n + m /\ \A i \in 1 .. n + m : b[i] = s[i]
  <2> DEFINE k == n + m
  <2>1. k \in Nat /\ k <= Len(s)
      BY <1>1
  <2> HIDE DEF k
  <2>2. SubSeq(s, 1, k) \in Seq(T) /\ Len(SubSeq(s, 1, k)) = k /\ \A i \in 1 .. k : SubSeq(s, 1, k)[i] = s[i]
      BY <2>1, FirstPart
  <2>3. QED
      BY <2>2 DEF k
<1> HIDE DEF a, b
<1>4. /\ a \o piece \in Seq(T) /\ Len(a \o piece) = n + m
      /\ \A i \in 1 .. n + m : (a \o piece)[i] = IF i <= n THEN a[i] ELSE piece[i - n]
    BY <1>2, ConcatProperties
<1> HIDE DEF m
<1>5. ASSUME NEW i \in 1 .. n + m PROVE (a \o piece)[i] = b[i]
  <2>1. CASE i <= n
    <3>1. i \in 1 .. n
        BY <1>1, <2>1
    <3>2. QED
        BY <1>2, <1>3, <1>4, <2>1, <3>1
  <2>2. CASE ~(i <= n)
    <3>1. i - n \in 1 .. m /\ n + (i - n) = i
        BY <1>1, <2>2
    <3>2. piece[i - n] = s[i]
        BY <3>1 DEF m
    <3>3. QED
        BY <1>3, <1>4, <2>2, <3>2
  <2>3. QED
      BY <2>1, <2>2
<1>6. a \o piece = b
    BY <1>3, <1>4, <1>5, SeqEqual
<1>7. QED
    BY <1>6 DEF a, b, m

\* The data are the next units of file f after the first n.
Piece(data, f, n) ==
    /\ data \in Seq(UnitType) /\ data # << >> /\ n + Len(data) <= Len(Data(f))
    /\ \A i \in 1 .. Len(data) : data[i] = Data(f)[n + i]

\* After the result r, n units of file f were received.
Went(r, f, contents, n) ==
    r.ok /\ OtaWrite(contents, r.out).ok /\ Progress(f, r.d, OtaWrite(contents, r.out).contents, n)

\* The next units of a sound patch get further, unless patch_len wraps.
LEMMA DeltaWriteProgress ==
    ASSUME NEW f \in FileType, f.defect = "none", f.delta, NEW n \in Nat,
           NEW d \in DeltaType(UnitType), NEW contents,
           Progress(f, d, contents, n), NEW data, Piece(data, f, n),
           ~d.verified => n + Len(data) < PatchLenWord, NEW r \in DeltaWrite(d, data, f.base)
    PROVE  Went(r, f, contents, n + Len(data))
<1> DEFINE k == Len(data)
           v == f.version
           s == Data(f)
<1>1. /\ s \in Seq(UnitType) /\ Len(s) = PatchHeader + ImageSize
      /\ \A i \in 1 .. PatchHeader : s[i] = <<"header", f.base, i>>
      /\ \A i \in 1 .. ImageSize : s[PatchHeader + i] = <<"body", v, i>>
    BY SoundPatch
<1>2. v \in Versions \cup {0} /\ PatchHeader \in Nat \ {0} /\ ImageSize \in Nat /\ PatchLenWord \in Nat \ {0}
    BY DeltaOtaAssumption DEF FileType, DeltaOtaAssumption
<1>3. /\ data \in Seq(UnitType) /\ data # << >> /\ n + k <= Len(s)
      /\ \A i \in 1 .. k : data[i] = s[n + i]
    BY DEF Piece
<1>4. k \in Nat \ {0}
    BY <1>3, EmptySeq, LenProperties
<1>5. Rebuilt(d, contents, v) /\ d.fed \in Nat
    BY DEF Progress, DeltaType
<1> HIDE DEF k, v, s
<1>6. CASE d.verified
  <2>1. d.len = 0 /\ d.fed > 0 /\ n = PatchHeader + d.fed
      BY <1>6 DEF Progress
  <2>2. d.fed + k <= ImageSize
      BY <1>1, <1>2, <1>3, <1>4, <1>5, <2>1
  <2>3. Continues(data, "body", v, d.fed)
    <3>1. ASSUME NEW i \in 1 .. k PROVE data[i] = <<"body", v, d.fed + i>>
      <4>1. d.fed + i \in 1 .. ImageSize /\ n + i = PatchHeader + (d.fed + i)
          BY <1>2, <1>4, <1>5, <2>1, <2>2
      <4>2. s[PatchHeader + (d.fed + i)] = <<"body", v, d.fed + i>>
          BY <1>1, <4>1
      <4>3. QED
          BY <1>3, <4>1, <4>2
    <3>2. QED
        BY <3>1 DEF Continues, k
  <2>4. r \in Feed(d, data)
      BY <1>6 DEF DeltaWrite
  <2>5. Goes(r, contents, v) /\ r.d.fed = d.fed + k /\ r.d.len = 0 /\ r.d.verified = d.verified
    <3>1. FedOn(r, d, contents, v, Len(data))
        BY <1>2, <1>3, <1>5, <2>2, <2>3, <2>4, FeedRebuilds DEF k
    <3>2. QED
        BY <3>1 DEF FedOn, k
  <2>6. r.d.fed > 0 /\ n + k = PatchHeader + r.d.fed
      BY <1>2, <1>4, <1>5, <2>1, <2>5
  <2>7. QED
      BY <1>6, <2>5, <2>6 DEF Went, Goes, Progress, v, k
<1>7. CASE ~d.verified
  <2> DEFINE buf == Left(d) \o data
             len == (d.len + k) % PatchLenWord
             collected == [d EXCEPT !.buf = buf, !.len = len]
             passed == [d EXCEPT !.verified = TRUE]
             rest == SubSeq(buf, PatchHeader + 1, len)
  <2>1. n <= PatchHeader /\ d.len = n /\ Left(d) = SubSeq(s, 1, n) /\ d.fed = 0
      BY <1>7 DEF Progress, s
  <2>2. len = n + k
    <3>1. n + k \in 0 .. (PatchLenWord - 1)
        BY <1>2, <1>4, <1>7 DEF k
    <3>2. \A x \in 0 .. (PatchLenWord - 1) : x % PatchLenWord = x
        BY <1>2
    <3>3. QED
        BY <2>1, <3>1, <3>2
  <2>3. buf = SubSeq(s, 1, n + k)
      BY <1>1, <1>3, <2>1, NextPiece DEF k
  <2>4. buf \in Seq(UnitType) /\ Len(buf) = n + k /\ \A i \in 1 .. n + k : buf[i] = s[i]
    <3> DEFINE x == n + k
    <3>1. x \in Nat /\ x <= Len(s)
        BY <1>3, <1>4
    <3> HIDE DEF x
    <3>2. SubSeq(s, 1, x) \in Seq(UnitType) /\ Len(SubSeq(s, 1, x)) = x /\ \A i \in 1 .. x : SubSeq(s, 1, x)[i] = s[i]
        BY <1>1, <3>1, FirstPart
    <3>3. QED
        BY <2>3, <3>2 DEF x
  <2>5. ~d.chip /\ d.held = Units("image", v, 0) /\ contents = << >>
      BY <1>5, <2>1 DEF Rebuilt
  <2>6. /\ n + k <= PatchHeader => r = [ok |-> TRUE, d |-> collected, out |-> << >>]
        /\ ~(n + k <= PatchHeader) =>
              IF HeaderVerifies(buf, f.base) THEN r \in Feed(passed, rest)
              ELSE r = [ok |-> FALSE, d |-> Freed(d), out |-> << >>]
      BY <1>7, <2>2 DEF DeltaWrite, k
  <2>7. CASE n + k <= PatchHeader
    <3>1. /\ collected.verified = d.verified /\ collected.fed = 0 /\ collected.chip = d.chip
          /\ collected.held = d.held /\ collected.len = n + k /\ collected.buf = buf
      <4> HIDE DEF buf, len
      <4>1. QED
          BY <2>1, <2>2 DEF DeltaType
    <3>2. Left(collected) = buf
      <4> HIDE DEF buf
      <4>1. \A i \in 1 .. Len(buf) : buf[i] \in UnitType
          BY <2>4, ElementOfSeq
      <4>2. Len(buf) \in Nat
          BY <2>4, LenProperties
      <4>3. SubSeq(buf, 1, Len(buf)) \in Seq(UnitType) /\ Len(SubSeq(buf, 1, Len(buf))) = Len(buf)
            /\ \A i \in 1 .. Len(buf) : SubSeq(buf, 1, Len(buf))[i] = buf[i]
          BY <2>4, <4>2, FirstPart
      <4>4. SubSeq(buf, 1, Len(buf)) = buf
          BY <2>4, <4>3, SeqEqual
      <4> HIDE DEF collected
      <4>5. QED
          BY <2>4, <3>1, <4>2, <4>4 DEF Left
    <3>3. r.ok /\ r.d = collected /\ r.out = << >>
        BY <2>6, <2>7
    <3> HIDE DEF collected, buf
    <3>4. Rebuilt(r.d, << >>, v)
        BY <2>5, <3>1, <3>3 DEF Rebuilt
    <3>5. OtaWrite(contents, r.out).ok /\ OtaWrite(contents, r.out).contents = << >>
        BY <2>5, <3>3, ConcatEmpty, EmptySeq DEF OtaWrite
    <3>6. Progress(f, r.d, << >>, n + k)
        BY <1>7, <2>3, <2>7, <3>1, <3>2, <3>3, <3>4 DEF Progress, v, s
    <3>7. QED
        BY <3>3, <3>5, <3>6 DEF Went, k
  <2>8. CASE ~(n + k <= PatchHeader)
    <3>1. HeaderVerifies(buf, f.base)
      <4>1. 1 \in 1 .. n + k /\ 1 \in 1 .. PatchHeader
          BY <1>2, <1>4, <2>8
      <4> HIDE DEF buf
      <4>2. QED
          BY <1>1, <2>4, <4>1 DEF HeaderVerifies
    <3>2. r \in Feed(passed, rest)
        BY <2>6, <2>8, <3>1
    <3>3. /\ passed \in DeltaType(UnitType) /\ passed.fed = 0 /\ passed.chip = d.chip
          /\ passed.held = d.held /\ passed.verified
        BY <2>1 DEF DeltaType
    <3>4. Rebuilt(passed, contents, v)
        BY <2>5, <3>3 DEF Rebuilt
    <3>5. /\ rest \in Seq(UnitType) /\ Len(rest) = (n + k) - PatchHeader
          /\ \A i \in 1 .. (n + k) - PatchHeader : rest[i] = buf[PatchHeader + i]
      <4> HIDE DEF buf, len
      <4> DEFINE x == n + k
      <4>1. x \in Nat /\ PatchHeader + 1 <= x
          BY <1>2, <1>4, <2>8
      <4>2. \A i \in (PatchHeader + 1) .. x : buf[i] \in UnitType
          BY <1>2, <2>4, <4>1, ElementOfSeq
      <4>3. rest = SubSeq(buf, PatchHeader + 1, x)
          BY <2>2
      <4> HIDE DEF x, rest
      <4>4. /\ rest \in Seq(UnitType)
            /\ Len(rest) = IF PatchHeader + 1 <= x THEN x - (PatchHeader + 1) + 1 ELSE 0
            /\ \A i \in 1 .. x - (PatchHeader + 1) + 1 : rest[i] = buf[(PatchHeader + 1) + i - 1]
          BY <1>2, <4>1, <4>2, <4>3, SubSeqProperties
      <4>5. x - (PatchHeader + 1) + 1 = x - PatchHeader
          BY <1>2, <4>1
      <4>6. \A i \in 1 .. x - PatchHeader : (PatchHeader + 1) + i - 1 = PatchHeader + i
          BY <1>2, <4>1
      <4>7. QED
          BY <4>1, <4>4, <4>5, <4>6 DEF x
    <3> HIDE DEF passed, rest, buf
    <3>6. Continues(rest, "body", v, passed.fed)
      <4>1. ASSUME NEW i \in 1 .. (n + k) - PatchHeader PROVE rest[i] = <<"body", v, i>>
        <5>1. i \in 1 .. ImageSize /\ PatchHeader + i \in 1 .. n + k
            BY <1>1, <1>2, <1>3, <1>4, <2>8
        <5>2. QED
            BY <1>1, <2>4, <3>5, <5>1
      <4>2. \A i \in 1 .. Len(rest) : 0 + i = i
          BY <3>5
      <4>3. QED
          BY <3>3, <3>5, <4>1, <4>2 DEF Continues
    <3>7. rest # << >> /\ passed.fed + Len(rest) <= ImageSize
        BY <1>1, <1>2, <1>3, <1>4, <2>8, <3>3, <3>5, EmptySeq
    <3>8. /\ Goes(r, contents, v) /\ r.d.fed = passed.fed + Len(rest) /\ r.d.len = 0
          /\ r.d.verified = passed.verified
      <4>1. FedOn(r, passed, contents, v, Len(rest))
          BY <1>2, <3>2, <3>3, <3>4, <3>5, <3>6, <3>7, FeedRebuilds
      <4>2. QED
          BY <4>1 DEF FedOn
    <3>9. r.d.fed > 0 /\ n + k = PatchHeader + r.d.fed
        BY <1>2, <1>4, <2>8, <3>3, <3>5, <3>8
    <3>10. QED
        BY <3>3, <3>8, <3>9 DEF Went, Goes, Progress, v, k
  <2>9. QED
      BY <2>7, <2>8
<1>8. QED
    BY <1>6, <1>7

-----------------------------------------------------------------------------
(* The blocks of a sound file.                                             *)

LEMMA SoundImage ==
    ASSUME NEW f \in FileType, f.defect = "none", ~f.delta
    PROVE  Data(f) = Image(f.version) /\ Len(Data(f)) = ImageSize /\ Data(f)[1] = <<"image", f.version, 1>>
<1>1. Data(f) = Image(f.version) /\ f.version \in Versions \cup {0}
    BY DEF Data, FileType
<1>2. ImageSize \in 0 .. (ImageSize + PatchHeader) /\ 1 \in 1 .. ImageSize
    BY DeltaOtaAssumption DEF DeltaOtaAssumption
<1>3. /\ Len(Units("image", f.version, ImageSize)) = ImageSize
      /\ \A i \in 1 .. ImageSize : Units("image", f.version, ImageSize)[i] = <<"image", f.version, i>>
    BY <1>1, <1>2, UnitsAre
<1>4. QED
    BY <1>1, <1>2, <1>3 DEF Image

\* So no file is empty, and its tag is known.
LEMMA SoundLong ==
    ASSUME NEW f \in FileType, f.defect = "none"
    PROVE  Len(Data(f)) \in Nat \ {0} /\ Len(Stream(f)) > 1 /\ Tag(f)[3] = 0
<1>1. Len(Data(f)) \in Nat \ {0}
  <2>1. CASE f.delta
      BY <2>1, SoundPatch, DeltaOtaAssumption DEF DeltaOtaAssumption
  <2>2. CASE ~f.delta
      BY <2>2, SoundImage, DeltaOtaAssumption DEF DeltaOtaAssumption
  <2>3. QED
      BY <2>1, <2>2 DEF FileType
<1>2. QED
    BY <1>1, StreamIs DEF Tag

\* A block is of the server's size or the file's last.
LEMMA BlockIs ==
    ASSUME TypeOK, sent < Len(Stream(file))
    PROVE  /\ Block \in Seq(UnitType) /\ Len(Block) \in Nat \ {0} /\ sent \in Nat /\ block \in Nat \ {0}
           /\ sent + Len(Block) = IF sent + block < Len(Stream(file)) THEN sent + block
                                  ELSE Len(Stream(file))
           /\ \A i \in 1 .. Len(Block) : Block[i] = Stream(file)[sent + i]
           /\ sent = 0 => Block[1] = Tag(file)
<1> DEFINE s == Stream(file)
           n == Len(s)
           end == IF sent + block < n THEN sent + block ELSE n
<1>1. s \in Seq(UnitType) /\ n \in Nat
    BY StreamIs, FileOfType
<1>2. sent \in Nat /\ block \in Nat \ {0}
    BY OtaAssumption DEF TypeOK, OtaAssumption
<1> HIDE DEF s
<1>3. end \in Nat /\ sent + 1 <= end /\ end <= n
    BY <1>1, <1>2 DEF s
<1>4. Block = SubSeq(s, sent + 1, end)
    BY DEF Block, s
<1> HIDE DEF end
<1>5. \A i \in (sent + 1) .. end : s[i] \in UnitType
    BY <1>1, <1>2, <1>3, ElementOfSeq
<1>6. /\ Block \in Seq(UnitType) /\ Len(Block) = end - sent
      /\ \A i \in 1 .. (end - sent) : Block[i] = s[sent + i]
    BY <1>2, <1>3, <1>4, <1>5, SubSeqProperties
<1>7. sent + Len(Block) = end /\ Len(Block) \in Nat \ {0}
    BY <1>2, <1>3, <1>6
<1>8. sent = 0 => Block[1] = Tag(file)
    BY BlockOwn
<1>9. QED
    BY <1>2, <1>6, <1>7, <1>8 DEF s, end

\* Behind the tag, and later, a block has the next units of the data.
LEMMA NextData ==
    ASSUME TypeOK, sent < Len(Stream(file)), sent > 0
    PROVE  Piece(Block, file, sent - 1)
<1>1. file \in FileType
    BY FileOfType
<1> DEFINE s == Stream(file)
           t == Data(file)
           k == Len(Block)
<1>2. /\ Block \in Seq(UnitType) /\ k \in Nat \ {0} /\ sent \in Nat \ {0} /\ sent + k <= Len(s)
      /\ \A i \in 1 .. k : Block[i] = s[sent + i]
    BY BlockIs, BlockOwn
<1>3. Len(t) \in Nat /\ Len(s) = Len(t) + 1 /\ \A i \in 1 .. Len(t) : s[i + 1] = t[i]
    BY <1>1, StreamIs
<1> HIDE DEF s, t, k
<1>4. ASSUME NEW i \in 1 .. k PROVE Block[i] = t[(sent - 1) + i]
  <2>1. (sent - 1) + i \in 1 .. Len(t) /\ ((sent - 1) + i) + 1 = sent + i
      BY <1>2, <1>3
  <2>2. QED
      BY <1>2, <1>3, <2>1
<1>5. (sent - 1) + k <= Len(t) /\ Block # << >>
    BY <1>2, <1>3, EmptySeq DEF k
<1>6. QED
    BY <1>2, <1>4, <1>5 DEF Piece, t, k

LEMMA FirstData ==
    ASSUME TypeOK, sent = 0, Len(Block) > 1, sent < Len(Stream(file))
    PROVE  Piece(Tail(Block), file, 0) /\ Len(Tail(Block)) = Len(Block) - 1
<1>1. file \in FileType
    BY FileOfType
<1> DEFINE s == Stream(file)
           t == Data(file)
           k == Len(Block)
           data == Tail(Block)
<1>2. /\ Block \in Seq(UnitType) /\ k \in Nat /\ k <= Len(s)
      /\ \A i \in 1 .. k : Block[i] = s[0 + i]
  <2>1. sent + k <= Len(s)
      BY BlockOwn
  <2>2. QED
      BY <2>1, BlockIs
<1>3. Len(t) \in Nat /\ Len(s) = Len(t) + 1 /\ \A i \in 1 .. Len(t) : s[i + 1] = t[i]
    BY <1>1, StreamIs
<1>4. Block # << >>
    BY EmptySeq
<1>5. data \in Seq(UnitType) /\ Len(data) = k - 1 /\ \A i \in 1 .. Len(data) : data[i] = Block[i + 1]
    BY <1>2, <1>4, HeadTailProperties
<1> HIDE DEF s, t, data, k
<1>6. k > 1
    BY DEF k
<1>7. ASSUME NEW i \in 1 .. Len(data) PROVE data[i] = t[0 + i]
  <2>1. i \in 1 .. Len(t) /\ i + 1 \in 1 .. k /\ 0 + (i + 1) = i + 1 /\ 0 + i = i
      BY <1>2, <1>3, <1>5
  <2>2. QED
      BY <1>2, <1>3, <1>5, <2>1
<1>8. 0 + Len(data) <= Len(t) /\ data # << >>
    BY <1>2, <1>3, <1>5, <1>6, EmptySeq
<1>9. QED
    BY <1>5, <1>7, <1>8 DEF Piece, data, t, k

\* What a block of a sound file does, unless the flash or the memory fails.
LEMMA PatchGoes ==
    ASSUME TypeOK, Sound(file), file.delta, NEW n \in Nat, NEW d \in DeltaType(UnitType),
           NEW contents, Progress(file, d, contents, n), NEW data,
           Piece(data, file, n), ~d.verified => n + Len(data) < PatchLenWord,
           NEW w \in Writes(contents, d, data), ~w.external
    PROVE  w.ok /\ Progress(file, w.d, w.contents, n + Len(data))
<1>1. file \in FileType /\ file.defect = "none" /\ file.base = Running
    BY FileOfType DEF Sound
<1>2. PICK r \in DeltaWrite(d, data, Running) : Taken(w, r, contents)
    BY WritesAre DEF Results
<1>3. Went(r, file, contents, n + Len(data))
    BY <1>1, <1>2, DeltaWriteProgress
<1>4. QED
    BY <1>2, <1>3 DEF Went, Taken

LEMMA ImageGoes ==
    ASSUME ~file.delta, NEW contents, NEW d, NEW data, contents # << >> \/ StartsImage(data),
           NEW w \in Writes(contents, d, data), ~w.external
    PROVE  w.ok /\ w.d = d
<1>1. PICK r \in Results(d, data) : Taken(w, r, contents)
    BY WritesAre
<1>2. r.ok /\ r.d = d /\ r.out = data
    BY <1>1 DEF Results
<1>3. OtaWrite(contents, data).ok
    BY DEF OtaWrite
<1>4. QED
    BY <1>1, <1>2, <1>3 DEF Taken

LEMMA SameSound ==
    ASSUME running' = running, file' = file, slots'[running] = slots[running]
    PROVE  Sound(file)' = Sound(file)
BY DEF Sound, Running, VersionIn

\* What a block of a sound file finds that is not refused.
ReadyFor(data, d, contents, n) ==
    /\ Piece(data, file, n) /\ n + Len(data) = sent + Len(Block) - 1
    /\ IF file.delta
         THEN /\ d \in DeltaType(UnitType) /\ Progress(file, d, contents, n)
              /\ ~d.verified => n + Len(data) < PatchLenWord
         ELSE d.len = 0 /\ (contents # << >> \/ StartsImage(data))

\* The first block has data behind its tag; what patch_buf had is not in it.
LEMMA FirstReady ==
    ASSUME BlocksFit, IInv, Clean, Sound(file), sent = 0
    PROVE  /\ Len(Block) > 1 /\ Block[1][3] = 0
           /\ ReadyFor(Tail(Block), IF file.delta THEN DeltaBegin(delta) ELSE delta, << >>, 0)
<1> DEFINE data == Tail(Block)
           begun == DeltaBegin(delta)
<1>1. /\ TypeOK /\ file \in FileType /\ file.defect = "none" /\ delta \in DeltaType(UnitType)
      /\ delta.len = 0 /\ block \in BlockSizes
    BY FileOfType DEF IInv, TypeOK, Sound, Clean
<1>2. sent < Len(Stream(file)) /\ Len(Stream(file)) > 1 /\ Len(Stream(file)) \in Nat /\ Tag(file)[3] = 0
    BY <1>1, SoundLong, StreamIs
<1>3. block > 1 /\ block <= PatchLenWord /\ block \in Nat
    BY <1>1, OtaAssumption DEF BlocksFit, OtaAssumption
<1>4. /\ Len(Block) \in Nat /\ Block[1] = Tag(file)
      /\ Len(Block) = IF block < Len(Stream(file)) THEN block ELSE Len(Stream(file))
  <2>1. /\ Len(Block) \in Nat /\ Block[1] = Tag(file)
        /\ 0 + Len(Block) = IF 0 + block < Len(Stream(file)) THEN 0 + block ELSE Len(Stream(file))
      BY <1>1, <1>2, BlockIs
  <2>2. QED
      BY <1>2, <1>3, <2>1
<1>5. Len(Block) > 1 /\ Len(Block) <= block
    BY <1>2, <1>3, <1>4
<1>6. Piece(data, file, 0) /\ Len(data) = Len(Block) - 1
    BY <1>1, <1>2, <1>5, FirstData
<1> HIDE DEF data
<1>7. 0 + Len(data) = sent + Len(Block) - 1 /\ 0 + Len(data) < PatchLenWord
    BY <1>3, <1>4, <1>5, <1>6, DeltaOtaAssumption DEF DeltaOtaAssumption
<1>8. CASE file.delta
  <2>1. begun \in DeltaType(UnitType) /\ begun.len = 0
      BY <1>1, DeltaBeginOwn
  <2>2. ~begun.verified /\ ~begun.chip /\ begun.held = << >> /\ begun.fed = 0
      BY DEF DeltaBegin, NoDelta
  <2>3. Data(file) \in Seq(UnitType)
      BY <1>1, StreamIs
  <2> HIDE DEF begun
  <2>4. Left(begun) = << >>
      BY <2>1, LeftIs, EmptySeq
  <2>5. SubSeq(Data(file), 1, 0) = << >>
      BY <2>3, SubSeqEmpty
  <2>6. Rebuilt(begun, << >>, file.version)
      BY <2>2, NoUnits DEF Rebuilt
  <2>7. Progress(file, begun, << >>, 0)
      BY <2>1, <2>2, <2>4, <2>5, <2>6, DeltaOtaAssumption DEF Progress, DeltaOtaAssumption
  <2>8. ReadyFor(data, begun, << >>, 0)
      BY <1>6, <1>7, <1>8, <2>1, <2>7 DEF ReadyFor
  <2>9. QED
      BY <1>2, <1>4, <1>5, <1>8, <2>8 DEF data, begun
<1>9. CASE ~file.delta
  <2>1. data[1] = <<"image", file.version, 1>>
    <3>1. /\ Len(Data(file)) = ImageSize /\ Data(file)[1] = <<"image", file.version, 1>>
        BY <1>1, <1>9, SoundImage
    <3>2. 1 \in 1 .. Len(data) /\ 0 + 1 = 1
        BY <1>4, <1>5, <1>6
    <3>3. data[1] = Data(file)[0 + 1]
        BY <1>6, <3>2 DEF Piece
    <3>4. QED
        BY <3>1, <3>2, <3>3
  <2>2. StartsImage(data)
      BY <2>1 DEF StartsImage
  <2>3. ReadyFor(data, delta, << >>, 0)
      BY <1>1, <1>6, <1>7, <1>9, <2>2 DEF ReadyFor
  <2>4. QED
      BY <1>2, <1>4, <1>5, <1>9, <2>3 DEF data
<1>10. QED
    BY <1>8, <1>9

\* Until the patch header is complete no block was longer than it, so patch_len
\* does not wrap (BlocksFit).
LEMMA LaterReady ==
    ASSUME BlocksFit, IInv, Written, Received, phase = "receiving", sent < Len(Stream(file)), Sound(file)
    PROVE  ReadyFor(Block, delta, slots[part], sent - 1)
<1> DEFINE n == sent - 1
<1>1. /\ TypeOK /\ file \in FileType /\ delta \in DeltaType(UnitType)
      /\ block \in BlockSizes /\ sent > 1
    BY FileOfType DEF IInv, TypeOK, Received
<1>2. /\ sent \in Nat /\ Len(Block) \in Nat \ {0} /\ block \in Nat /\ Len(Stream(file)) \in Nat
      /\ sent + Len(Block) = IF sent + block < Len(Stream(file)) THEN sent + block ELSE Len(Stream(file))
    BY <1>1, BlockIs, StreamIs
<1>3. Len(Block) <= block
    BY <1>2
<1>4. Piece(Block, file, n)
    BY <1>1, <1>2, NextData
<1>5. n + Len(Block) = sent + Len(Block) - 1
    BY <1>1, <1>2
<1>6. CASE file.delta
  <2>1. Progress(file, delta, slots[part], n)
      BY <1>6 DEF Received
  <2>2. ASSUME ~delta.verified PROVE n + Len(Block) < PatchLenWord
    <3>1. n <= PatchHeader /\ sent >= block
        BY <1>2, <2>1, <2>2 DEF Progress, Received
    <3>2. block <= PatchHeader + 1
        BY <1>1, <1>2, <3>1, DeltaOtaAssumption DEF DeltaOtaAssumption
    <3>3. PatchHeader + 1 + block <= PatchLenWord
        BY <1>1, <3>2 DEF BlocksFit
    <3>4. QED
        BY <1>1, <1>2, <1>3, <3>1, <3>3, DeltaOtaAssumption DEF DeltaOtaAssumption
  <2>3. QED
      BY <1>1, <1>4, <1>5, <1>6, <2>1, <2>2 DEF ReadyFor
<1>7. CASE ~file.delta
  <2>1. slots[part] # << >>
    <3> SUFFICES ASSUME slots[part] = << >> PROVE FALSE
        OBVIOUS
    <3>1. <<Tag(file)>> \o << >> = SubSeq(Stream(file), 1, sent)
        BY <1>1, <1>2, <1>7 DEF Written
    <3>2. Stream(file) \in Seq(UnitType) /\ Tag(file) \in UnitType
        BY <1>1, StreamIs, StreamOwn, OwnIsUnit
    <3>3. Len(SubSeq(Stream(file), 1, sent)) = sent
        BY <1>2, <3>2, FirstPart
    <3>4. <<Tag(file)>> \o << >> = <<Tag(file)>> /\ Len(<<Tag(file)>>) = 1
        BY <3>2, ConcatEmpty
    <3>5. QED
        BY <1>1, <1>2, <3>1, <3>3, <3>4
  <2>2. delta.len = 0
      BY <1>7 DEF Received
  <2>3. QED
      BY <1>4, <1>5, <1>7, <2>1, <2>2 DEF ReadyFor
<1>8. QED
    BY <1>6, <1>7

LEMMA ReadyGoes ==
    ASSUME TypeOK, Sound(file), NEW data, NEW d, NEW contents, NEW n \in Nat,
           ReadyFor(data, d, contents, n), NEW w \in Writes(contents, d, data), ~w.external
    PROVE  w.ok /\ IF file.delta THEN Progress(file, w.d, w.contents, n + Len(data)) ELSE w.d.len = 0
<1>1. CASE file.delta
    BY <1>1, PatchGoes DEF ReadyFor
<1>2. CASE ~file.delta
    BY <1>2, ImageGoes DEF ReadyFor
<1>3. QED
    BY <1>1, <1>2

LEMMA OutsideFails ==
    ASSUME NEW contents, NEW d, NEW data, NEW w \in Writes(contents, d, data), w.external
    PROVE  ~w.ok
BY WritesAre

-----------------------------------------------------------------------------
(* Undisturbed is kept.                                                    *)

\* RECEIVE: the tag is known, and the block is written or the flash fails.
LEMMA BlockReceived ==
    ASSUME BlocksFit, IInv, Written, Undisturbed, Receive, Sound(file), ~disturbed'
    PROVE  phase' = "receiving" /\ Received'
<1> DEFINE contents == IF otaStarted THEN slots[part] ELSE << >>
           d == IF ~otaStarted /\ file.delta THEN DeltaBegin(delta) ELSE delta
           data == IF tagReceived THEN Block ELSE Tail(Block)
           n == IF sent = 0 THEN 0 ELSE sent - 1
           s == Stream(file)
           end == sent + Len(Block)
<1>1. /\ TypeOK /\ phase = "receiving" /\ sent < Len(s) /\ sent \in Nat /\ Len(s) \in Nat
      /\ (sent > 0 => otaStarted /\ tagReceived) /\ file \in FileType /\ file.defect = "none"
      /\ block \in Nat \ {0}
  <2>1. /\ TypeOK /\ phase = "receiving" /\ sent < Len(s) /\ sent \in Nat /\ file \in FileType
        /\ (sent > 0 => otaStarted /\ tagReceived) /\ file.defect = "none" /\ block \in Nat \ {0}
      BY FileOfType, OtaAssumption DEF IInv, Attempt, Receive, TypeOK, Sound, OtaAssumption
  <2>2. QED
      BY <2>1, StreamIs
<1>2. part' \in Slots
    BY <1>1 DEF IInv, Attempt, Receive, Spare, TypeOK, Slots
<1>3. /\ file' = file /\ sent' = end /\ block' = block /\ Deliver(contents, d)
      /\ totalSize' = Len(s) /\ offset' = offset + Len(Block) /\ open' = TRUE
    BY DEF Receive, Deliver
<1>4. ~disturbed
    BY <1>3 DEF Deliver, Refuse
<1>5. /\ Len(Block) \in Nat \ {0}
      /\ end = IF sent + block < Len(s) THEN sent + block ELSE Len(s)
    BY <1>1, BlockIs
<1> DEFINE Found == ReadyFor(data, d, contents, n) /\ tagid' = 0 /\ ~OtaDataFails /\ offset' = end /\ end > 1
<1>6. ASSUME sent = 0 PROVE Found
  <2>1. Clean /\ ~tagReceived /\ offset = 0 /\ ~otaStarted
      BY <1>1, <1>4, <1>6 DEF Undisturbed, Clean, Written
  <2>2. Len(Block) > 1 /\ Block[1][3] = 0 /\ ReadyFor(data, d, contents, n)
    <3>1. contents = << >> /\ data = Tail(Block) /\ n = 0 /\ d = IF file.delta THEN DeltaBegin(delta) ELSE delta
        BY <1>6, <2>1
    <3> HIDE DEF contents, data, d, n
    <3>2. QED
        BY <1>6, <2>1, <3>1, FirstReady
  <2>3. tagid' = 0 /\ tagReceived' /\ ~OtaDataFails /\ offset' = end /\ end > 1
    <3>1. tagid' = 0 /\ tagReceived'
        BY <1>1, <1>3, <2>1, <2>2 DEF Deliver, OtaData, HasTag
    <3>2. QED
        BY <1>3, <1>5, <1>6, <2>1, <2>2, <3>1 DEF OtaDataFails
  <2>4. QED
      BY <2>2, <2>3
<1>7. ASSUME sent > 0 PROVE Found
  <2>1. Received /\ otaStarted /\ tagReceived
      BY <1>1, <1>4, <1>7 DEF Undisturbed
  <2>2. ReadyFor(data, d, contents, n)
    <3>1. contents = slots[part] /\ data = Block /\ n = sent - 1 /\ d = delta
        BY <1>7, <2>1
    <3> HIDE DEF contents, data, d, n
    <3>2. QED
        BY <1>1, <2>1, <3>1, LaterReady
  <2>3. tagid' = 0 /\ tagReceived' /\ ~OtaDataFails
    <3>1. tagid' = 0 /\ tagReceived'
        BY <1>3, <2>1 DEF Deliver, OtaData, Received
    <3>2. QED
        BY <2>1, <3>1 DEF OtaDataFails
  <2>4. offset' = end /\ end > 1
      BY <1>1, <1>3, <1>5, <2>1 DEF Received
  <2>5. QED
      BY <2>2, <2>3, <2>4
<1>8. Found /\ n \in Nat
  <2>1. sent = 0 \/ sent > 0
      BY <1>1
  <2>2. Found
      BY <2>1, <1>6, <1>7
  <2>3. QED
      BY <1>1, <2>2
<1>9. PICK w \in Writes(contents, d, data) :
          /\ slots' = [slots EXCEPT ![part'] = w.contents] /\ delta' = w.d
          /\ IF w.ok THEN UNCHANGED <<phase, disturbed>> ELSE Refuse(w.external)
    BY <1>3, <1>8 DEF Deliver
<1> HIDE DEF contents, d, data, n, s, end
<1>10. ~w.external
  <2> SUFFICES ASSUME w.external PROVE FALSE
      OBVIOUS
  <2>1. ~w.ok
      BY OutsideFails
  <2>2. QED
      BY <1>9, <2>1 DEF Refuse
<1>11. w.ok /\ IF file.delta THEN Progress(file, w.d, w.contents, n + Len(data)) ELSE w.d.len = 0
    BY <1>1, <1>8, <1>10, ReadyGoes
<1>12. phase' = "receiving" /\ slots'[part'] = w.contents
    BY <1>1, <1>2, <1>9, <1>11 DEF TypeOK
<1>13. n + Len(data) = end - 1
    BY <1>1, <1>5, <1>8 DEF ReadyFor, end
<1>14. sent' >= block' \/ sent' = Len(Stream(file))
    BY <1>1, <1>3, <1>5 DEF s
<1>15. IF file.delta THEN Progress(file, delta', slots'[part'], sent' - 1) ELSE delta'.len = 0
    BY <1>3, <1>9, <1>11, <1>12, <1>13
<1>16. QED
    BY <1>3, <1>8, <1>12, <1>14, <1>15 DEF Received, s

LEMMA ReceiveUndisturbed ==
    ASSUME BlocksFit, IInv, Written, Undisturbed, Receive
    PROVE  Undisturbed'
<1> SUFFICES ASSUME ~disturbed' PROVE Undisturbed'
    BY DEF Undisturbed
<1>1. TypeOK /\ sent < Len(Stream(file)) /\ phase = "receiving" /\ boot = running
    BY DEF IInv, Booting, Receive
<1>2. Len(Block) \in Nat \ {0} /\ sent \in Nat
    BY <1>1, BlockIs
<1>3. sent' > 0
    BY <1>2 DEF Receive
<1>4. Sound(file)' = Sound(file)
  <2>1. running' = running /\ file' = file /\ slots'[running] = slots[running]
      BY <1>1, WritingIsUnseen DEF Receive
  <2>2. QED
      BY <2>1, SameSound
<1>5. phase' = "receiving"
  <2>1. CASE Sound(file)
      BY <2>1, BlockReceived
  <2>2. CASE ~Sound(file)
      BY <1>1, <2>2 DEF Receive, Deliver, Refuse
  <2>3. QED
      BY <2>1, <2>2
<1>6. Sound(file) => Received'
    BY BlockReceived
<1>7. QED
    BY <1>2, <1>3, <1>4, <1>5, <1>6 DEF Undisturbed

\* All of a sound patch was received: the engine was fed the image.
LEMMA WholePatch ==
    ASSUME TypeOK, file.delta, file.defect = "none", NEW d, d.fed \in Nat, NEW contents,
           Progress(file, d, contents, Len(Stream(file)) - 1)
    PROVE  d.verified /\ d.len = 0 /\ d.fed = ImageSize /\ contents = Image(file.version)
<1>1. /\ Len(Stream(file)) - 1 = PatchHeader + ImageSize /\ PatchHeader \in Nat
      /\ ImageSize \in Nat /\ ImageSize > 1
    BY FileOfType, StreamIs, SoundPatch, DeltaOtaAssumption DEF DeltaOtaAssumption
<1>2. d.verified /\ d.len = 0 /\ PatchHeader + ImageSize = PatchHeader + d.fed
    BY <1>1 DEF Progress
<1>3. d.fed = ImageSize
    BY <1>1, <1>2
<1>4. d.chip /\ contents = Units("image", file.version, d.fed)
    BY <1>1, <1>3 DEF Progress, Rebuilt
<1>5. QED
    BY <1>2, <1>3, <1>4 DEF Image

\* CHECK: the counter started at 0, and is reset like the others.
LEMMA CheckUndisturbed ==
    ASSUME IInv, Undisturbed, Check
    PROVE  Undisturbed'
<1> SUFFICES ASSUME ~disturbed' PROVE Undisturbed'
    BY DEF Undisturbed
<1>1. /\ TypeOK /\ phase = "receiving" /\ sent = Len(Stream(file)) /\ file \in FileType
      /\ UNCHANGED <<slots, running, file, sent, open, delta>>
      /\ offset' = 0 /\ tagReceived' = FALSE /\ delta.fed \in Nat
    BY FileOfType DEF IInv, Check, TypeOK, DeltaType, flash
<1>2. ~disturbed
    BY DEF Check, Refuse
<1>3. Sound(file)' = Sound(file)
    BY <1>1, SameSound
<1>4. ASSUME Sound(file)
      PROVE  /\ offset = totalSize /\ open /\ delta.len = 0
             /\ file.delta => Progress(file, delta, slots[part], sent - 1)
  <2>1. sent > 0 /\ file.defect = "none"
      BY <1>1, <1>4, SoundLong, StreamIs DEF Sound
  <2>2. Received
      BY <1>1, <1>2, <1>4, <2>1 DEF Undisturbed
  <2>3. file.delta => delta.len = 0
      BY <1>1, <2>1, <2>2, WholePatch DEF Received
  <2>4. QED
      BY <1>1, <2>2, <2>3 DEF Received
<1>5. phase' = "checked"
    BY <1>4 DEF Check, Refuse
<1>6. part' = part
    BY DEF Check
<1>7. sent # 0
    BY <1>1, StreamOwn
<1>8. QED
    BY <1>1, <1>3, <1>4, <1>5, <1>6, <1>7 DEF Undisturbed, Clean

\* FINISH: the engine and the slot have the whole image, so ending can only fail
\* for another reason.
LEMMA FinishFailsUndisturbed ==
    ASSUME IInv, Written, Undisturbed, FinishFails
    PROVE  disturbed'
<1> SUFFICES ASSUME ~disturbed' PROVE FALSE
    OBVIOUS
<1>1. PICK stuck \in {FALSE, file.delta} : Refuse(stuck \/ End(delta, stuck).ok)
    BY DEF FinishFails
<1>2. phase = "applied" /\ ~stuck /\ ~End(delta, stuck).ok /\ Sound(file) /\ ~disturbed
    BY <1>1 DEF Refuse, FinishFails
<1>3. /\ TypeOK /\ file \in FileType /\ file.defect = "none" /\ delta.fed \in Nat
      /\ sent = Len(Stream(file)) /\ open
      /\ file.delta => Progress(file, delta, slots[part], Len(Stream(file)) - 1)
    BY <1>2, FileOfType DEF IInv, TypeOK, DeltaType, Sound, Undisturbed
<1>4. file.version \in Versions
    BY <1>2, <1>3 DEF IInv, Attempt, FileType
<1>5. slots[part] = Image(file.version) /\ (file.delta => delta.fed = ImageSize)
  <2>1. CASE file.delta
      BY <1>3, <2>1, WholePatch
  <2>2. CASE ~file.delta
      BY <1>2, <1>3, <2>2, SoundImage DEF Written
  <2>3. QED
      BY <2>1, <2>2
<1>6. Bootable(slots[part])
    BY <1>4, <1>5, ImageBoots
<1>7. End(delta, stuck).ok
    BY <1>2, <1>3, <1>5, <1>6 DEF End, DeltaEnd
<1>8. QED
    BY <1>2, <1>7

LEMMA InitUndisturbed == Init => Undisturbed
BY DEF Init, Undisturbed, Clean, NoDelta

LEMMA NextUndisturbed ==
    ASSUME BlocksFit, IInv, Written, Undisturbed, [Next]_vars
    PROVE  Undisturbed'
<1>1. ASSUME NEW f \in Files, NEW b \in BlockSizes, QueryImageResponse(f, b) PROVE Undisturbed'
    BY <1>1 DEF QueryImageResponse, Undisturbed, Clean, ram
<1>2. CASE Start
    BY <1>2 DEF Start, IInv, Attempt, Undisturbed, Clean
<1>3. CASE Receive
    BY <1>3, ReceiveUndisturbed
<1>4. CASE BeginFails
    BY <1>4 DEF BeginFails, Refuse, Undisturbed
<1>5. CASE Check
    BY <1>5, CheckUndisturbed
<1>6. CASE Apply
  <2>1. UNCHANGED <<slots, running, part, open, offset, tagReceived, delta, file, sent, disturbed>>
      BY <1>6 DEF Apply, flash, ram
  <2>2. Sound(file)' = Sound(file)
      BY <2>1, SameSound
  <2>3. QED
      BY <1>6, <2>1, <2>2 DEF Apply, Undisturbed, Clean
<1>7. CASE FinishInstalls
    BY <1>7 DEF FinishInstalls, RamAfterBoot, NoDelta, Undisturbed, Clean
<1>8. CASE FinishFails
    BY <1>8, FinishFailsUndisturbed DEF Undisturbed
<1>9. CASE Abort
  <2> SUFFICES ASSUME ~disturbed' PROVE Undisturbed'
      BY DEF Undisturbed
  <2>1. ~disturbed /\ ~(sent > 0) /\ sent \in Nat
    <3>1. sent \in Nat
        BY DEF IInv, TypeOK
    <3>2. ~(disturbed \/ sent > 0)
        BY <1>9 DEF Abort
    <3>3. QED
        BY <3>1, <3>2
  <2>2. sent = 0 /\ Clean
      BY <2>1 DEF Undisturbed
  <2>3. QED
      BY <1>9, <2>2 DEF Abort, Undisturbed, Clean, ram
<1>10. CASE Restart
    BY <1>10 DEF Restart, RamAfterBoot, NoDelta, Undisturbed, Clean
<1>11. CASE UNCHANGED vars
  <2>1. Sound(file)' = Sound(file)
      BY <1>11, SameSound DEF vars
  <2>2. Received' = Received
      BY <1>11 DEF vars, Received
  <2>3. QED
      BY <1>11, <2>1, <2>2 DEF vars, Undisturbed, Clean
<1>12. QED
    BY <1>1, <1>2, <1>3, <1>4, <1>5, <1>6, <1>7, <1>8, <1>9, <1>10, <1>11 DEF Next

(***************************************************************************)
(* A sound file is not refused until an attempt went wrong, although START *)
(* resets none of offset, s_tagid_received and patch_buf, for every block  *)
(* size that does not wrap patch_len before the patch header is complete.  *)
(***************************************************************************)
THEOREM NoRefusal ==
    ASSUME BlocksFit
    PROVE  Spec => []NoFalseRefusal
<1> DEFINE Inv == IInv /\ Written /\ Undisturbed
<1>1. Init => Inv
    BY InitInv, InitUndisturbed DEF Init, Written
<1>2. Inv /\ [Next]_vars => Inv'
    BY NextInv, NextWritten, NextUndisturbed
<1>3. Inv => NoFalseRefusal
    BY DEF Undisturbed, NoFalseRefusal
<1>4. QED
    BY <1>1, <1>2, <1>3, PTL DEF Spec
==============================================================================
