------------------------------- MODULE MCLfsr -------------------------------
(* Instance of Lfsr with the length all numbers use. *)
EXTENDS Lfsr

MCTaps == {9, 5}

Orbit[k \in 0 .. MaxRounds] == IF k = 0 THEN Seed ELSE Forward(Orbit[k-1])

(* The taps of this length make a period of MaxRounds.                     *)
ASSUME PeriodOfTaps == FullPeriod(Orbit)
=============================================================================
