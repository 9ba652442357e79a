------------------------------ MODULE DeltaOta -------------------------------
(***************************************************************************)
(* esp_delta_ota_ops.cpp: receiving a patch instead of an image.  The file *)
(* is its own set of operators over a record d, its static variables:      *)
(*   ctx       s_delta_ota_ctx # NULL                                      *)
(*   verified  ctx->verify_patch_flag                                      *)
(*   chip      ctx->chip_id_verified                                       *)
(*   held      ctx->header_data, the image header not written yet          *)
(*   buf, len  patch_buf and patch_len of esp_delta_ota_write              *)
(*   engine    the patch engine's handle is allocated                      *)
(*   fed       units the engine has consumed (external)                    *)
(*                                                                         *)
(* Data is counted in units <<kind, version, index>>.  A patch header has  *)
(* PatchHeader units, of which the first is the magic word and the digest; *)
(* an image has ImageSize units, of which the first is its header.         *)
(***************************************************************************)
EXTENDS Naturals, Sequences

CONSTANTS
    ImageSize,     \* units of an image, and of the body of a patch
    PatchHeader,   \* DELTA_OTA_UPGRADE_PATCH_HEADER_SIZE
    PatchLenWord   \* the values of patch_len, a uint8_t

ASSUME DeltaOtaAssumption ==
    /\ ImageSize \in Nat \ {0, 1}
    /\ PatchHeader \in Nat \ {0}
    /\ PatchLenWord \in Nat \ {0}

Units(kind, version, size) == [i \in 1 .. size |-> <<kind, version, i>>]
Image(version) == Units("image", version, ImageSize)
Patch(base, version) == Units("header", base, PatchHeader) \o Units("body", version, ImageSize)
Junk == <<"junk", 0, 0>>

\* The static variables after a boot.
NoDelta ==
    [ctx |-> FALSE, verified |-> FALSE, chip |-> FALSE, held |-> << >>,
     buf |-> << >>, len |-> 0, engine |-> FALSE, fed |-> 0]

\* esp_delta_ota_begin, once esp_ota_begin succeeded: a new context and engine.
DeltaBegin(d) ==
    [NoDelta EXCEPT !.ctx = TRUE, !.engine = TRUE, !.buf = d.buf, !.len = d.len]

-----------------------------------------------------------------------------
\* delta_ota_patch_header_verify: magic and digest of the running image.
HeaderVerifies(buf, running) == buf[1] = <<"header", running, 1>>

\* What the patch engine makes of the units it is fed (external).
Patched(d, units) ==
    [i \in 1 .. Len(units) |->
        IF units[i][1] = "body" /\ units[i][3] = d.fed + i
          THEN <<"image", units[i][2], d.fed + i>>
          ELSE Junk]

(***************************************************************************)
(* delta_ota_write_cb on the engine's output: the image header is held     *)
(* back until it is complete and more follows; a header of another chip is *)
(* refused.  "out" is what is passed on to esp_ota_write.                  *)
(***************************************************************************)
WriteCb(d, units) ==
    LET all == d.held \o units
    IN  IF d.chip THEN [ok |-> TRUE, d |-> d, out |-> units]
        ELSE IF Len(all) <= 1 THEN [ok |-> TRUE, d |-> [d EXCEPT !.held = all], out |-> << >>]
        ELSE IF all[1][1] # "image" THEN [ok |-> FALSE, d |-> d, out |-> << >>]
        ELSE [ok |-> TRUE, d |-> [d EXCEPT !.chip = TRUE], out |-> all]

\* calloc or realloc fails: patch_buf becomes NULL and patch_len stays, as the
\* return is before the exit path.
NoMemory(d) == [d EXCEPT !.buf = << >>]

\* What is in front of the data that goes to patch_buf + patch_len: units received
\* before, or zeros of a calloc after patch_len outlived the buffer.  (That block
\* is of its own size only, and the copy goes past its end; what becomes of the
\* units there is undefined, and of no matter here, as the header check fails at
\* the zeros.  What they overwrite is not modelled.)
Left(d) == IF d.len <= Len(d.buf) THEN SubSeq(d.buf, 1, d.len) ELSE [i \in 1 .. d.len |-> Junk]

\* A variant that frees patch_buf and keeps patch_len.
FreedBufferOnly(d) == [d EXCEPT !.buf = << >>]

\* The exit path of esp_delta_ota_write frees patch_buf.
Freed(d) == [d EXCEPT !.buf = << >>, !.len = 0]

\* esp_delta_ota_feed_patch; on wrong units the engine may or may not stop.
Feed(d, units) ==
    LET image == Patched(d, units)
        fail  == [ok |-> FALSE, d |-> Freed(d), out |-> << >>]
    IN  {WriteCb([Freed(d) EXCEPT !.fed = @ + Len(units)], image)}
        \cup (IF \E i \in 1 .. Len(image) : image[i] = Junk THEN {fail} ELSE {})

(***************************************************************************)
(* esp_delta_ota_write: the possible results.  Until the patch header is   *)
(* complete the data is collected; patch_len is a uint8_t.                 *)
(***************************************************************************)
DeltaWrite(d, data, running) ==
    LET buf == Left(d) \o data
        len == (d.len + Len(data)) % PatchLenWord
        collected == [d EXCEPT !.buf = buf, !.len = len]
    IN  IF d.verified THEN Feed(d, data)
        ELSE IF len <= PatchHeader THEN {[ok |-> TRUE, d |-> collected, out |-> << >>]}
        ELSE IF ~HeaderVerifies(buf, running) THEN {[ok |-> FALSE, d |-> Freed(d), out |-> << >>]}
        ELSE Feed([d EXCEPT !.verified = TRUE], SubSeq(buf, PatchHeader + 1, len))

\* esp_delta_ota_end up to esp_ota_end, which follows only when this is ok: the
\* context is freed, but the engine only when esp_delta_ota_finalize succeeds.
\* It cannot before the whole patch was fed, and may fail ("stuck", external).
DeltaEnd(d, stuck) ==
    LET finished == ~stuck /\ d.fed = ImageSize
    IN  [ok |-> finished,
         d  |-> [d EXCEPT !.ctx = FALSE, !.held = << >>, !.engine = ~finished]]
==============================================================================
