------------------------- MODULE MCEEPROMEmulation -------------------------
(* Instances of EEPROMEmulation for TLC.                                   *)
EXTENDS EEPROMEmulation

(* Pages of different sizes, as on the device.                             *)
PageSlots == [p \in {1, 2} |-> IF p = 1 THEN 3 ELSE 4]
=============================================================================
