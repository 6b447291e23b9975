--------------------------- MODULE MCDpiDebugger ---------------------------
(* Small instances of DpiDebugger for TLC. *)
EXTENDS DpiDebugger

OneLimb  == {1}
TwoLimbs == {2}
Lens     == 0 .. 2
Lens3    == {0, 3}
AllKinds == {"unl", "zero", "load", "cprs", "loaab", "mult", "add_sub",
             "fault"}
FewKinds == {"load", "add_sub", "fault"}
AddKinds == {"load", "add_sub"}
MulKinds == {"load", "mult"}

(* The slots of the runs are large enough for their programs (those of two *)
(* limbs are for programs that write beyond a slot).                       *)
ASSUME RunsFit ==
  SlotLimbs > 2 =>
    \A len \in ProgLens : LimbsSuffice([k \in 0 .. len |-> 2 ^ k], len)
=============================================================================
