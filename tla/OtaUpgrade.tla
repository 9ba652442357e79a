----------------------------- MODULE OtaUpgrade ------------------------------
(***************************************************************************)
(* ZigbeeHandlers::upgradeStatus: a firmware file arrives block by block   *)
(* from the Zigbee stack's OTA client and ends in the other flash slot,    *)
(* directly or through DeltaOta.  Each action is one call of the handler   *)
(* by the stack.  The stack (external) delivers the blocks of a file in    *)
(* order, goes on only while the handler returns ESP_OK, may abort at any  *)
(* time and may then start again.                                          *)
(* A message whose status is not SUCCESS is only logged: no action.        *)
(***************************************************************************)
EXTENDS DeltaOta

CONSTANTS
    Versions,      \* version numbers of images
    Files,         \* the files a server may offer
    BlockSizes,    \* the block sizes a server may use
    MaxAttempts    \* bound: attempts in one behaviour

Slots == {0, 1}
None == 2

(***************************************************************************)
(* A file has a version, may be a patch (minimum hardware version 2) for   *)
(* the image "base", and may be defective.                                 *)
(***************************************************************************)
Defects == {"none", "empty", "length", "tag", "body"}
FileType == [version : Versions \cup {0}, delta : BOOLEAN, base : Versions, defect : Defects]

ASSUME OtaAssumption ==
    /\ Versions \subseteq Nat \ {0}
    /\ Files \subseteq FileType /\ Files # {}
    /\ BlockSizes \subseteq Nat \ {0} /\ BlockSizes # {}
    /\ MaxAttempts \in Nat

\* The element in a file: a tag header, one unit here, and the data.
Tag(file) == <<"tag", 0, IF file.defect = "tag" THEN 1 ELSE 0>>
Data(file) ==
    LET sound == IF file.delta THEN Patch(file.base, file.version) ELSE Image(file.version)
    IN  IF file.defect = "body" THEN [sound EXCEPT ![Len(sound)] = Junk] ELSE sound
Stream(file) == <<Tag(file)>> \o Data(file)

VARIABLES
    slots,        \* the contents of the two OTA partitions
    running,      \* the slot the device runs from
    boot,         \* the slot the boot loader will start
    otaStarted,   \* statics of upgradeStatus
    offset,
    totalSize,
    tagReceived,  \* s_tagid_received
    tagid,        \* static of otaData
    part,         \* s_ota_partition
    open,         \* s_ota_handle is an open handle of part
    delta,        \* statics of esp_delta_ota_ops.cpp
    phase,        \* the OTA client of the stack: what it has called last
    file,         \* the file of this attempt
    sent,         \* units of it delivered
    block,        \* the server's block size
    attempts,
    disturbed     \* auxiliary: since the boot an attempt was cut off or had a bad
                  \* file, or the flash failed

flash  == <<slots, running, boot>>
ram    == <<otaStarted, offset, totalSize, tagReceived, tagid, part, open, delta>>
stack  == <<phase, file, sent, block, attempts>>
vars   == <<slots, running, boot, otaStarted, offset, totalSize, tagReceived, tagid,
            part, open, delta, phase, file, sent, block, attempts, disturbed>>

\* What esp_ota_end and esp_ota_set_boot_partition accept (external).
Bootable(units) ==
    /\ Len(units) >= ImageSize
    /\ \E v \in Versions : SubSeq(units, 1, ImageSize) = Image(v)
VersionIn(units) == units[1][2]
Running == VersionIn(slots[running])

\* A file that a device running this image can use.
Sound(f) == f.defect = "none" /\ (f.delta => f.base = Running)

RamAfterBoot ==
    /\ otaStarted' = FALSE
    /\ offset' = 0
    /\ totalSize' = 0
    /\ tagReceived' = FALSE
    /\ tagid' = 0
    /\ part' = None
    /\ open' = FALSE
    /\ delta' = NoDelta

Init ==
    /\ \E v \in Versions : slots = [s \in Slots |-> IF s = 0 THEN Image(v) ELSE << >>]
    /\ running = 0
    /\ boot = 0
    /\ otaStarted = FALSE
    /\ offset = 0
    /\ totalSize = 0
    /\ tagReceived = FALSE
    /\ tagid = 0
    /\ part = None
    /\ open = FALSE
    /\ delta = NoDelta
    /\ phase = "idle"
    /\ file = CHOOSE f \in Files : TRUE
    /\ sent = 0
    /\ block = CHOOSE b \in BlockSizes : TRUE
    /\ attempts = 0
    /\ disturbed = FALSE

-----------------------------------------------------------------------------
\* queryImageResponse: any image that is not empty and has a version is approved,
\* whether it is newer or not (that is left to the server).
QueryImageResponse(f, b) ==
    /\ phase = "idle"
    /\ attempts < MaxAttempts
    /\ f.version # 0
    /\ f.defect # "empty"
    /\ phase' = "approved"
    /\ file' = f
    /\ block' = b
    /\ sent' = 0
    /\ attempts' = attempts + 1
    /\ UNCHANGED <<flash, ram, disturbed>>

\* A variant of START without the reset.
StartKeepsStarted ==
    /\ phase = "approved"
    /\ phase' = "receiving"
    /\ UNCHANGED <<flash, ram, file, sent, block, attempts, disturbed>>

\* upgradeStatus, START: of the statics only ota_started is reset.
Start ==
    /\ phase = "approved"
    /\ phase' = "receiving"
    /\ otaStarted' = FALSE
    /\ UNCHANGED <<flash, offset, totalSize, tagReceived, tagid, part, open, delta,
                   file, sent, block, attempts, disturbed>>

\* The handler returns an error: of its own, or because something else failed.
Refuse(external) ==
    /\ phase' = "refused"
    /\ disturbed' = (disturbed \/ external \/ ~Sound(file))

Block ==
    LET end == sent + block
    IN  SubSeq(Stream(file), sent + 1, IF end < Len(Stream(file)) THEN end ELSE Len(Stream(file)))

\* esp_ota_write (external): an image has to begin with an image header.
StartsImage(units) == units[1][1] = "image" /\ units[1][3] = 1
OtaWrite(contents, out) ==
    IF out # << >> /\ contents = << >> /\ ~StartsImage(out)
      THEN [ok |-> FALSE, contents |-> contents]
      ELSE [ok |-> TRUE, contents |-> contents \o out]

\* The data goes to the slot, or through the patch engine to the slot.  The flash
\* may fail when it is written, and memory may run out when a patch header is
\* collected.
Writes(contents, d, data) ==
    LET results == IF file.delta THEN DeltaWrite(d, data, Running)
                                 ELSE {[ok |-> TRUE, d |-> d, out |-> data]}
        fed == {r \in results : file.delta => r.d.verified}
        failed(e) == [ok |-> FALSE, contents |-> contents, d |-> e, external |-> TRUE]
    IN  {LET w == OtaWrite(contents, r.out)
         IN  [ok |-> r.ok /\ w.ok, contents |-> w.contents, d |-> r.d, external |-> FALSE] :
             r \in results}
        \cup {failed(r.d) : r \in fed}
        \cup (IF file.delta /\ ~d.verified THEN {failed(NoMemory(d))} ELSE {})

(***************************************************************************)
(* otaData: the first block begins with the tag header, whose length must  *)
(* fit the file and whose tag must be known; it is taken off.              *)
(***************************************************************************)
HasTag == Len(Block) > 1
OtaData ==
    /\ tagid' = IF ~tagReceived /\ HasTag THEN Block[1][3] ELSE tagid
    /\ tagReceived' = (tagReceived \/ (HasTag /\ file.defect # "length"))
OtaDataFails == ~tagReceived' \/ tagid' # 0

\* upgradeStatus, RECEIVE, after the partition was begun.
Deliver(contents, d) ==
    /\ totalSize' = Len(Stream(file))
    /\ offset' = offset + Len(Block)
    /\ open' = TRUE
    /\ OtaData
    /\ IF OtaDataFails
         THEN /\ slots' = [slots EXCEPT ![part'] = contents]
              /\ delta' = d
              /\ Refuse(FALSE)
         ELSE \E w \in Writes(contents, d, IF tagReceived THEN Block ELSE Tail(Block)) :
                /\ slots' = [slots EXCEPT ![part'] = w.contents]
                /\ delta' = w.d
                /\ IF w.ok THEN UNCHANGED <<phase, disturbed>> ELSE Refuse(w.external)

\* esp_ota_get_next_update_partition, and a variant that gives the running one.
SpareIsRunning == running
Spare == 1 - running

\* The first block erases the slot and opens a handle; otaStarted is set first.
Receive ==
    /\ phase = "receiving"
    /\ sent < Len(Stream(file))
    /\ sent' = sent + Len(Block)
    /\ otaStarted' = TRUE
    /\ part' = IF otaStarted THEN part ELSE Spare
    /\ LET contents == IF otaStarted THEN slots[part] ELSE << >>
           d == IF ~otaStarted /\ file.delta THEN DeltaBegin(delta) ELSE delta
       IN  Deliver(contents, d)
    /\ UNCHANGED <<running, boot, file, block, attempts>>

\* upgradeStatus, RECEIVE: esp_ota_begin or esp_delta_ota_begin fails.
BeginFails ==
    /\ phase = "receiving"
    /\ ~otaStarted
    /\ otaStarted' = TRUE
    /\ part' = Spare
    /\ slots' \in {slots, [slots EXCEPT ![Spare] = << >>]}
    /\ Refuse(TRUE)
    /\ UNCHANGED <<running, boot, offset, totalSize, tagReceived, tagid, open, delta,
                   file, sent, block, attempts>>

-----------------------------------------------------------------------------
\* A variant of CHECK that does not count the last byte.
CheckOffByOne ==
    /\ phase = "receiving"
    /\ sent = Len(Stream(file))
    /\ offset' = 0
    /\ totalSize' = 0
    /\ tagReceived' = FALSE
    /\ IF offset + 1 = totalSize
         THEN phase' = "checked" /\ UNCHANGED disturbed
         ELSE Refuse(FALSE)
    /\ UNCHANGED <<flash, otaStarted, tagid, part, open, delta, file, sent, block, attempts>>

\* upgradeStatus, CHECK: the bytes are counted, and the statics reset.
Check ==
    /\ phase = "receiving"
    /\ sent = Len(Stream(file))
    /\ offset' = 0
    /\ totalSize' = 0
    /\ tagReceived' = FALSE
    /\ IF offset = totalSize
         THEN phase' = "checked" /\ UNCHANGED disturbed
         ELSE Refuse(FALSE)
    /\ UNCHANGED <<flash, otaStarted, tagid, part, open, delta, file, sent, block, attempts>>

\* upgradeStatus, APPLY: logged only.
Apply ==
    /\ phase = "checked"
    /\ phase' = "applied"
    /\ UNCHANGED <<flash, ram, file, sent, block, attempts, disturbed>>

\* esp_delta_ota_end or nothing, then esp_ota_end: the slot is closed and validated.
End(d, stuck) ==
    LET e == IF file.delta THEN DeltaEnd(d, stuck) ELSE [ok |-> TRUE, d |-> d]
    IN  [ok |-> e.ok /\ open /\ Bootable(slots[part]), d |-> e.d, open |-> open /\ ~e.ok]

\* upgradeStatus, FINISH: the slot is set to boot and the device restarts.
FinishInstalls ==
    /\ phase = "applied"
    /\ End(delta, FALSE).ok
    /\ boot' = part
    /\ running' = part
    /\ RamAfterBoot
    /\ phase' = "idle"
    /\ disturbed' = FALSE
    /\ UNCHANGED <<slots, file, sent, block, attempts>>

\* upgradeStatus, FINISH: ending fails, or setting the boot partition does.
FinishFails ==
    /\ phase = "applied"
    /\ \E stuck \in {FALSE, file.delta} :
          /\ delta' = End(delta, stuck).d
          /\ open' = End(delta, stuck).open
          /\ Refuse(stuck \/ End(delta, stuck).ok)
    /\ UNCHANGED <<flash, otaStarted, offset, totalSize, tagReceived, tagid, part,
                   file, sent, block, attempts>>

\* upgradeStatus, any other status, and the end of a refused attempt: no reset.
Abort ==
    /\ phase # "idle"
    /\ phase' = "idle"
    /\ disturbed' = (disturbed \/ sent > 0)
    /\ UNCHANGED <<flash, ram, file, sent, block, attempts>>

\* Power is lost or the device restarts for another reason.
Restart ==
    /\ running' = boot
    /\ RamAfterBoot
    /\ phase' = "idle"
    /\ disturbed' = FALSE
    /\ UNCHANGED <<slots, boot, file, sent, block, attempts>>

Next ==
    \/ \E f \in Files, b \in BlockSizes : QueryImageResponse(f, b)
    \/ Start
    \/ Receive
    \/ BeginFails
    \/ Check
    \/ Apply
    \/ FinishInstalls
    \/ FinishFails
    \/ Abort
    \/ Restart

Spec == Init /\ [][Next]_vars

-----------------------------------------------------------------------------
UnitType == {"image", "header", "body", "tag", "junk"} \X (Versions \cup {0}) \X (0 .. (ImageSize + PatchHeader))

\* The statics of DeltaOta, of which the image header held back is made of "units".
DeltaType(units) ==
    [ctx : BOOLEAN, verified : BOOLEAN, chip : BOOLEAN, held : Seq(units),
     buf : Seq(UnitType), len : 0 .. (PatchLenWord - 1), engine : BOOLEAN, fed : Nat]

\* A patch header that was verified is not kept, nor is its length.
Released(d) == d.verified => d.buf = << >> /\ d.len = 0

TypeOK ==
    /\ slots \in [Slots -> Seq(UnitType)]
    /\ running \in Slots /\ boot \in Slots
    /\ otaStarted \in BOOLEAN /\ tagReceived \in BOOLEAN /\ open \in BOOLEAN
    /\ offset \in Nat /\ totalSize \in Nat /\ tagid \in {0, 1}
    /\ part \in Slots \cup {None}
    /\ delta \in DeltaType(UnitType) /\ Released(delta)
    /\ phase \in {"idle", "approved", "receiving", "refused", "checked", "applied"}
    /\ file \in Files /\ block \in BlockSizes /\ sent \in 0 .. Len(Stream(file))

(***************************************************************************)
(* Whatever is aborted, refused or cut off by a power failure, however     *)
(* often: the boot loader always finds a whole image, and the image it     *)
(* starts only ever becomes the one that was approved last.                *)
(***************************************************************************)
TheFirmware == INSTANCE Firmware WITH
    bootable <- IF Bootable(slots[boot]) THEN VersionIn(slots[boot]) ELSE 0,
    approved <- IF phase = "idle" THEN 0 ELSE file.version
ImplementsFirmware == TheFirmware!Spec

(***************************************************************************)
(* The bytes counted by RECEIVE and compared by CHECK say something about  *)
(* the flash, though the counter could be right by accident, being left    *)
(* over from an attempt that was aborted: when a sound file passes the     *)
(* check, the slot that FINISH will boot holds exactly its image.  The one *)
(* exception is a patch of which a patch_len that wrapped lost a block,    *)
(* after such an attempt, and that one FINISH refuses.                     *)
(***************************************************************************)
CheckedIsComplete ==
    phase \in {"checked", "applied"} /\ Sound(file) =>
        \/ slots[part] = Image(file.version)
        \/ file.delta /\ ~End(delta, FALSE).ok

(***************************************************************************)
(* Statics that START does not reset (offset, s_tagid_received, patch_buf) *)
(* spoil later attempts, but only after an attempt went wrong: until then  *)
(* no sound file is refused, by any block size, patch or image, the first  *)
(* upgrade since the boot or not.                                          *)
(***************************************************************************)
NoFalseRefusal == phase = "refused" => disturbed

(***************************************************************************)
(* esp_delta_ota_ops.h:76 "After calling esp_delta_ota_end(), the handle   *)
(* is no longer valid and any memory associated with it is freed           *)
(* (regardless of result)": once the context is gone the engine is too.    *)
(***************************************************************************)
EndFreesEngine == delta.engine => delta.ctx

(***************************************************************************)
(* What makes ImplementsFirmware an invariant of the steps: the running    *)
(* slot is the one to boot and holds an image; what is written since START *)
(* goes to the other slot and is of this attempt's file alone, whatever    *)
(* earlier attempts left in the statics.                                   *)
(***************************************************************************)
OwnUnits(version) == {u \in UnitType : u[1] \in {"image", "body"} => u[2] = version}

Booting == boot = running /\ Bootable(slots[running])

Attempt ==
    /\ phase # "idle" => file.version # 0
    /\ phase = "approved" => sent = 0
    /\ phase = "receiving" /\ sent > 0 => otaStarted /\ tagReceived
    /\ phase \in {"checked", "applied"} => otaStarted
    /\ otaStarted => part = 1 - running
    /\ delta.len <= PatchHeader

OwnAttempt ==
    otaStarted /\ phase \in {"receiving", "checked", "applied"} =>
        /\ slots[part] \in Seq(OwnUnits(file.version))
        /\ file.delta => delta \in DeltaType(OwnUnits(file.version))

IInv == TypeOK /\ Booting /\ Attempt /\ OwnAttempt

(***************************************************************************)
(* What makes CheckedIsComplete one too: of an image the slot has all that *)
(* was sent but the tag, and of a patch no more than the engine consumed,  *)
(* an image header held back included.                                     *)
(***************************************************************************)
HeldBack(d) == IF d.chip THEN 0 ELSE Len(d.held)

Written ==
    /\ phase = "receiving" /\ sent = 0 => ~otaStarted
    /\ phase = "receiving" /\ sent > 0 /\ ~file.delta =>
          <<Tag(file)>> \o slots[part] = SubSeq(Stream(file), 1, sent)
    /\ phase \in {"checked", "applied"} /\ ~file.delta => slots[part] = Data(file)
    /\ otaStarted /\ phase \in {"receiving", "checked", "applied"} /\ file.delta =>
          Len(slots[part]) + HeldBack(delta) <= delta.fed

(***************************************************************************)
(* What makes NoFalseRefusal one: since the boot every attempt was of a    *)
(* sound file and came to its end, so the statics START does not reset are *)
(* as after a boot, and of a patch that is received the header is in       *)
(* patch_buf or the image in the slot, as far as it was sent.  BlocksFit:  *)
(* the first block has data behind its tag, and patch_len does not wrap    *)
(* before the patch header is complete (a header of 64 bytes: no block     *)
(* size that fits a uint8_t wraps it).                                     *)
(***************************************************************************)
BlocksFit ==
    \A b \in BlockSizes :
        /\ b > 1 /\ b <= PatchLenWord
        /\ b <= PatchHeader + 1 => PatchHeader + 1 + b <= PatchLenWord

Clean == offset = 0 /\ ~tagReceived /\ delta.len = 0

\* The engine was fed an image of version v so far; "contents" is in the slot.
Rebuilt(d, contents, v) ==
    IF d.chip THEN d.fed > 0 /\ contents = Units("image", v, d.fed)
    ELSE d.fed <= 1 /\ d.held = Units("image", v, d.fed) /\ contents = << >>

\* Of patch file f, the tag and n units were received.
Progress(f, d, contents, n) ==
    /\ Rebuilt(d, contents, f.version)
    /\ IF d.verified THEN d.len = 0 /\ d.fed > 0 /\ n = PatchHeader + d.fed
       ELSE n <= PatchHeader /\ d.len = n /\ Left(d) = SubSeq(Data(f), 1, n) /\ d.fed = 0

Received ==
    /\ offset = sent /\ totalSize = Len(Stream(file)) /\ open /\ tagid = 0
    /\ sent > 1 /\ (sent >= block \/ sent = Len(Stream(file)))
    /\ IF file.delta THEN Progress(file, delta, slots[part], sent - 1) ELSE delta.len = 0

Undisturbed ==
    ~disturbed =>
        /\ phase # "refused"
        /\ phase \in {"idle", "approved"} \/ sent = 0 => Clean
        /\ phase = "receiving" /\ sent > 0 /\ Sound(file) => Received
        /\ phase \in {"checked", "applied"} =>
              /\ sent = Len(Stream(file))
              /\ Sound(file) => Clean /\ open
              /\ Sound(file) /\ file.delta => Progress(file, delta, slots[part], sent - 1)
==============================================================================
