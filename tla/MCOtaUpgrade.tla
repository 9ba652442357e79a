---------------------------- MODULE MCOtaUpgrade -----------------------------
(* OtaUpgrade with images of three units, patch headers of two, and files   *)
(* of every kind a server may have for a device that runs version 1 or 2.   *)
EXTENDS OtaUpgrade

F(version, patch, base, defect) ==
    [version |-> version, delta |-> patch, base |-> base, defect |-> defect]

MCFiles ==
    { F(2, FALSE, 1, "none"), F(3, FALSE, 1, "none"),
      F(2, TRUE, 1, "none"), F(3, TRUE, 2, "none"),
      F(3, FALSE, 1, "length"), F(3, FALSE, 1, "tag"), F(3, FALSE, 1, "empty"), F(0, FALSE, 1, "none"),
      F(2, TRUE, 1, "body"), F(3, FALSE, 1, "body") }

\* The block sizes of these instances are ones that NoRefusal speaks of.
ASSUME MCBlocksFit == BlocksFit
==============================================================================
