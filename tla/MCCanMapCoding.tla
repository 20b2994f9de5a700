---------------------------- MODULE MCCanMapCoding ----------------------------
(* Small instance of CanMapCoding on its own, for a compiler whose uint8_t *)
(* is wider than a byte of the message, as the one for the C28x is.        *)
EXTENDS CanMapCoding

(* One item with all bits set, or its lowest or highest alone; the other   *)
(* with all bits set.                                                      *)
MCValues(bits) == {Bits, {0}, {bits - 1}}
MCOtherValues(bits) == {Bits}
=============================================================================
