-------------------------- MODULE MCFlashFirmware --------------------------
(* Small instances of FlashFirmware for TLC: one keyboard, its two halves. *)
EXTENDS FlashFirmware, TLC

CONSTANTS left, right, bl, br

TwoHalves == (bl :> left) @@ (br :> right)
=============================================================================
