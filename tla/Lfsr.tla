-------------------------------- MODULE Lfsr --------------------------------
(***************************************************************************)
(* The sizes of numbers are kept as states of a linear feedback shift      *)
(* register (lfsr.c), the form the address counters of the coprocessor     *)
(* have: size n is the state n-1 shifts after the seed.  num2lfsr shifts   *)
(* forward from the seed; lfsr2num shifts backward until it is at the seed *)
(* again and counts.                                                       *)
(*                                                                         *)
(* The module runs num2lfsr for every size at once (its loop is left after *)
(* any number of rounds) and then lfsr2num on what it returned, one round  *)
(* of a loop in a step.                                                    *)
(***************************************************************************)
EXTENDS Integers, FiniteSets

CONSTANTS
  Length,     (* bits of the register, lfsr_length                         *)
  Taps        (* row of mtab for this length: the tapped positions, from 1 *)

Bit == 0 .. Length-1

ASSUME LfsrAssumption ==
  /\ Length \in Nat \ {0, 1}
  /\ Taps \subseteq 1 .. Length
  /\ Length \in Taps

(* Rounds after which lfsr2num gives up, whatever the length; the largest  *)
(* size a number can have.                                                 *)
MaxRounds == 511

VARIABLES
  place,      (* "num2lfsr", "lfsr2num", "return" or "exit9"               *)
  bits,       (* the shift register, reg                                   *)
  shifts,     (* rounds num2lfsr has made: the size is shifts + 1          *)
  i,          (* rounds lfsr2num has made                                  *)
  limbs       (* what lfsr2num returns                                     *)

vars == <<place, bits, shifts, i, limbs>>

Register == [Bit -> {0, 1}]
Seed     == [b \in Bit |-> IF b = 0 THEN 1 ELSE 0]

(* Exclusive or of the given positions of the register.                    *)
Parity(r, positions) == Cardinality({b \in positions : r[b] = 1}) % 2

Forward(r)  ==
  [b \in Bit |-> IF b = 0 THEN Parity(r, {t - 1 : t \in Taps}) ELSE r[b-1]]

(* Mutant: the bit shifted out is left out of the sum.                     *)
BackwardTapsOnly(r) ==
  [b \in Bit |-> IF b = Length-1 THEN Parity(r, Taps \ {Length}) ELSE r[b+1]]

Backward(r) ==
  [b \in Bit |-> IF b = Length-1 THEN Parity(r, {0} \cup (Taps \ {Length}))
                 ELSE r[b+1]]

Init == /\ place = "num2lfsr"
        /\ bits = Seed
        /\ shifts = 0 /\ i = 0 /\ limbs = 0

(* A round of num2lfsr.                                                    *)
Round == /\ place = "num2lfsr"
         /\ shifts + 1 < MaxRounds
         /\ bits' = Forward(bits)
         /\ shifts' = shifts + 1
         /\ UNCHANGED <<place, i, limbs>>

(* num2lfsr returns, and its result is given to lfsr2num.                  *)
Convert == /\ place = "num2lfsr"
           /\ place' = "lfsr2num"
           /\ UNCHANGED <<bits, shifts, i, limbs>>

(* Mutant: the size of the seed is not set right.                          *)
BackRoundUncorrected ==
  /\ place = "lfsr2num"
  /\ bits' = Backward(bits)
  /\ i' = i + 1
  /\ IF bits' = Seed
     THEN place' = "return" /\ limbs' = i + 2
     ELSE /\ place' = IF i + 1 = MaxRounds THEN "exit9" ELSE place
          /\ UNCHANGED limbs
  /\ UNCHANGED shifts

(* A round of lfsr2num.  The size of the seed itself is found last, after a*)
(* whole period, and set right.                                            *)
BackRound ==
  /\ place = "lfsr2num"
  /\ bits' = Backward(bits)
  /\ i' = i + 1
  /\ IF bits' = Seed
     THEN /\ place' = "return"
          /\ limbs' = (IF i + 1 = MaxRounds THEN 0 ELSE i + 1) + 1
     ELSE /\ place' = IF i + 1 = MaxRounds THEN "exit9" ELSE place
          /\ UNCHANGED limbs
  /\ UNCHANGED shifts

Next == Round \/ Convert \/ BackRound

Spec == Init /\ [][Next]_vars

-----------------------------------------------------------------------------
(* Every variable has its type.                                            *)
TypeOK == /\ place \in {"num2lfsr", "lfsr2num", "return", "exit9"}
          /\ bits \in Register
          /\ shifts \in 0 .. MaxRounds-1
          /\ i \in 0 .. MaxRounds
          /\ limbs \in 0 .. MaxRounds+1

(* lfsr2num undoes num2lfsr for every size a number can have, and always   *)
(* converges.  So no two sizes, and no two places of an array that         *)
(* arr2lfsrf scatters, have the same state.                                *)
RoundTrip == /\ place # "exit9"
             /\ place = "return" => limbs = shifts + 1

(* The register never becomes all zero, the state it would never leave and *)
(* which lfsr2num refuses.                                                 *)
NeverZero == \E b \in Bit : bits[b] = 1

(* The rounds of num2lfsr come back to the seed, and first do so after     *)
(* MaxRounds of them; orbit[k] is the register after k rounds.             *)
FullPeriod(orbit) ==
  /\ orbit \in [0 .. MaxRounds -> Register]
  /\ orbit[0] = Seed
  /\ \A k \in 0 .. MaxRounds-1 : orbit[k+1] = Forward(orbit[k])
  /\ \A k \in 1 .. MaxRounds : orbit[k] = Seed <=> k = MaxRounds
=============================================================================
