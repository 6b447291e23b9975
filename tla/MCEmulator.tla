----------------------------- MODULE MCEmulator -----------------------------
(* Small instance of Emulator for TLC. *)
EXTENDS Emulator

Num(limbs, val, fault) == [limbs |-> limbs, val |-> val, fault |-> fault]

MCValue == -2 .. 2

(* A number with leading zero limbs, a negative one and the end of the     *)
(* file; files that are faulty in the two places of a header.              *)
MCBusFiles ==
  { <<Num(2, 1, "none"), Num(1, -2, "none")>>,
    <<Num(1, 0, "last")>>,
    <<Num(1, 0, "header")>> }

MCProgSizes == {10}
=============================================================================
