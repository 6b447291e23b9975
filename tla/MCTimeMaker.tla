---------------------------- MODULE MCTimeMaker ----------------------------
(* Small instance of TimeMaker for TLC. *)
EXTENDS TimeMaker

(* A number of value 0 has no limbs.                                       *)
MCSizes == {0, 7}
=============================================================================
