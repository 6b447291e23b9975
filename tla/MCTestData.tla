----------------------------- MODULE MCTestData -----------------------------
EXTENDS TestData
MCLimbs == 1 .. 4
(* In limbs of base 4: 0, 3, 20, 33, 333 and 3210. *)
MCNumbers == {0, 3, 8, 15, 63, 228}
Done == calls = MaxCalls /\ call # "multiply" /\ UNCHANGED tvars
Next == TestDataNext \/ Done
Spec == TestDataInit /\ [][Next]_tvars
=============================================================================
