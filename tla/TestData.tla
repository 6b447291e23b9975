------------------------------ MODULE TestData ------------------------------
(***************************************************************************)
(* dpi_module.c: the test data that the SystemVerilog benches of the adder *)
(* and of the multiplier ask for through DPI.  A call draws two numbers,   *)
(* computes the expected result with GMP and fills arrays of the bench     *)
(* with limbs and `last' marks; the arrays outlive the call.  The stream   *)
(* of a multiplication is put in the order of MultSchedule.                *)
(*                                                                         *)
(* A limb has LimbDigits digits of base 2 here (16 of base 16 there).      *)
(***************************************************************************)
EXTENDS MultSchedule, Functions

CONSTANTS
  Numbers,                 (* what the random generator may draw           *)
  LimbDigits,              (* mult_prec / 4                                *)
  MAX_PREC,                (* limbs that the arrays of the bench are for   *)
  MaxCalls                 (* bound: calls made by the bench               *)

ASSUME TestDataAssumption ==
  /\ Numbers \subseteq Nat /\ LimbDigits \in Nat \ {0} /\ MaxCalls \in Nat
  /\ MAX_PREC \in Nat /\ Limbs \subseteq 1 .. MAX_PREC

VARIABLES
  call, calls,             (* the call being made, and their number        *)
  a_prec, b_prec,          (* lengths of the operands                      *)
  num_a, num_b,            (* a_mpa, b_mpa                                 *)
  a, b, a_last, b_last,    (* arrays of the bench, by limb                 *)
  c, c_prec, c_last,
  c_ext, c_ext_prec        (* the second result of a subtraction           *)

operands == <<a_prec, b_prec, num_a, num_b>>
arrays   == <<a, b, a_last, b_last, c, c_prec, c_last, c_ext, c_ext_prec>>
tvars    == <<mvars, call, calls, operands, arrays>>

Cells == 0 .. MAX_PREC * MAX_PREC + 1
Zeros == [k \in Cells |-> 0]

Power2[d \in Nat] == IF d = 0 THEN 1 ELSE 2 * Power2[d - 1]

BASE      == Power2[LimbDigits]
Weight(k) == Power2[LimbDigits * k]          (* BASE to the power of k *)

Limb(n, k) == (n \div Weight(k)) % BASE

(* strlen of what mpz_get_str writes. *)
Digits(n) == IF n = 0 THEN 1 ELSE CHOOSE d \in 1 .. n : Power2[d-1] <= n /\ n < Power2[d]

Ceil(x, y) == (x + y - 1) \div y
Longer(x, y) == IF x > y THEN x ELSE y

(* Mutant: a limb that is not full is not counted.                         *)
Length_cFull(n) == Digits(n) \div LimbDigits

(* Limbs of a number without its leading zeros (tmp). *)
Length_c(n) == Ceil(Digits(n), LimbDigits)

(* mpz_urandomb, again until the number is long enough.  It may be a whole *)
(* limb shorter than asked for.                                            *)
Drawn(p) == {n \in Numbers : n < Weight(p) /\ Digits(n) >= LimbDigits * (p - 1)}

(* tbConvStringNumToHalfIntExtArray: prec limbs are cleared, those of the  *)
(* string are written.                                                     *)
Convert(n, digits, prec, array) ==
  [k \in Cells |-> IF k < Longer(prec, Ceil(digits, LimbDigits)) THEN Limb(n, k)
                   ELSE array[k]]

Marked(n, array) ==
  [k \in Cells |-> IF k < n - 1 THEN 0 ELSE IF k = n - 1 THEN 1 ELSE array[k]]

TestDataInit ==
  /\ ScheduleInit
  /\ call = "none" /\ calls = 0
  /\ a_prec = 0 /\ b_prec = 0 /\ num_a = 0 /\ num_b = 0
  /\ a = Zeros /\ b = Zeros /\ a_last = Zeros /\ b_last = Zeros
  /\ c = Zeros /\ c_prec = 0 /\ c_last = Zeros /\ c_ext = Zeros /\ c_ext_prec = 0

-----------------------------------------------------------------------------
(* The operands of a call, drawn by every generator. *)
Draw(name) ==
  /\ calls < MaxCalls /\ calls' = calls + 1
  /\ call' = name
  /\ a_prec' \in Limbs /\ num_a' \in Drawn(a_prec')
  /\ b_prec' \in Limbs /\ num_b' \in Drawn(b_prec')

(* Operands of the adder, in the order of their limbs. *)
PassOperands ==
  /\ a' = Convert(num_a', Digits(num_a'), a_prec', a)
  /\ b' = Convert(num_b', Digits(num_b'), b_prec', b)
  /\ a_last' = Marked(a_prec', a_last)
  /\ b_last' = Marked(b_prec', b_last)

(* tbGenTestDataAdditionIntegerSeedSrup.  Only the limbs the sum has are   *)
(* written, the mark is behind the longest sum there can be.               *)
Addition ==
  /\ call # "multiply" /\ Draw("add") /\ PassOperands
  /\ LET sum == num_a' + num_b' IN
     /\ c' = Convert(sum, Digits(sum), Length_c(sum), c)
     /\ c_prec' = Length_c(sum)
  /\ c_last' = Marked(Longer(a_prec', b_prec') + 1, c_last)
  /\ UNCHANGED <<mvars, c_ext, c_ext_prec>>

(* tbCompSubtractionInteger: x - y on n limbs. *)
Difference(x, y, n) == IF x >= y THEN x - y ELSE Weight(n) - (y - x)

(* Mutant: the limb behind a negative difference is filled with zeros.     *)
ExtendWithZeros(d, neg, n, array) ==
  LET tmp == Length_c(d) IN
  [k \in Cells |-> IF k \in tmp .. n THEN 0
                   ELSE Convert(d, Digits(d), tmp, array)[k]]

(* The difference and, up to limb n, its sign. *)
Extend(d, neg, n, array) ==
  LET tmp == Length_c(d) IN
  [k \in Cells |-> IF k \in tmp .. n THEN (IF neg THEN BASE - 1 ELSE 0)
                   ELSE Convert(d, Digits(d), tmp, array)[k]]

(* tbGenTestDataSubtractionIntegerSeedSrup. *)
Subtraction ==
  /\ call # "multiply" /\ Draw("subtract") /\ PassOperands
  /\ LET n == Longer(a_prec', b_prec')
         amb == Difference(num_a', num_b', n)
         bma == Difference(num_b', num_a', n) IN
     /\ c' = Extend(amb, num_a' < num_b', n, c)
     /\ c_prec' = Length_c(amb)
     /\ c_ext' = Extend(bma, num_b' < num_a', n, c_ext)
     /\ c_ext_prec' = Length_c(bma)
     /\ c_last' = Marked(n + 1, c_last)
  /\ UNCHANGED mvars

(* tbGenTestDataMultiplicationIntegerSeedSrup, up to the order ... *)
Multiplication ==
  /\ call # "multiply" /\ Draw("multiply")
  /\ Start(a_prec', b_prec')
  /\ UNCHANGED arrays

Order == call = "multiply" /\ Reorder /\ UNCHANGED <<call, calls, operands, arrays>>

(* Mutant: the order is taken from its first entry on.                     *)
StreamedForwards(n, prec, index, s) == Limb(n, prec - 1 - index[s + 1])

(* Limb s of a stream: the string is put together from its most            *)
(* significant limb on, so entry 1 of the order is its last limb and       *)
(* counts the limbs of the operand from the top.                           *)
Streamed(n, prec, index, s) == Limb(n, prec - 1 - index[A_size * B_size - s])

(* ... and from the order on. *)
Deliver ==
  /\ call = "multiply" /\ phase = "ordered"
  /\ LET pairs == A_size * B_size
         product == num_a * num_b IN
     /\ a' = [k \in Cells |-> IF k < pairs THEN Streamed(num_a, a_prec, Aind, k) ELSE a[k]]
     /\ b' = [k \in Cells |-> IF k < pairs THEN Streamed(num_b, b_prec, Bind, k) ELSE b[k]]
     /\ a_last' = Marked(pairs, a_last)
     /\ b_last' = Marked(pairs, b_last)
     /\ c_prec' = Length_c(product)
     /\ c' = Convert(product, LimbDigits * (a_prec + b_prec), Length_c(product), c)
     /\ c_last' = Marked(Length_c(product), c_last)
  /\ call' = "multiplied"
  /\ UNCHANGED <<mvars, calls, operands, c_ext, c_ext_prec>>

TestDataNext == Addition \/ Subtraction \/ Multiplication \/ Order \/ Deliver

TestDataSpec == TestDataInit /\ [][TestDataNext]_tvars

-----------------------------------------------------------------------------
(* The value of the first n limbs of an array. *)
Value(array, n) == SumFunction([k \in 0 .. n - 1 |-> array[k] * Weight(k)])

(* Where the bench stops reading. *)
LastMark(array) == CHOOSE k \in Cells : array[k] = 1 /\ \A m \in 0 .. k - 1 : array[m] = 0

(* What a multiplier computes that adds the products of the stream, and    *)
(* moves one limb up wherever cycle is set (behind the first), is the      *)
(* product that the bench expects.                                         *)
StreamMultiplies ==
  call = "multiplied" =>
    /\ LET column(s) == Cardinality({t \in 1 .. s : cycle[t] = 1}) IN
       SumFunction([s \in 0 .. LastMark(a_last) |-> a[s] * b[s] * Weight(column(s))])
         = Value(c, a_prec + b_prec)
    /\ LastMark(a_last) = LastMark(b_last)

(* Read with its sign, as far as the bench reads, each of the two results  *)
(* of a subtraction is the other one negated.  (Where the top limb of the  *)
(* complement is zero the filled part starts too low: see the README.)     *)
DifferencesOpposite ==
  LET n == Longer(a_prec, b_prec)
      negative == Difference(IF num_a < num_b THEN num_a ELSE num_b,
                             IF num_a < num_b THEN num_b ELSE num_a, n) IN
  call = "subtract" /\ Length_c(negative) = n =>
    (Value(c, LastMark(c_last) + 1) + Value(c_ext, LastMark(c_last) + 1)) % Weight(n + 1) = 0

(* The limbs below c_prec are the result, whatever call was made before.   *)
ResultBelowPrec ==
  /\ call = "add" => Value(c, c_prec) = num_a + num_b
  /\ call = "multiplied" => Value(c, LastMark(c_last) + 1) = num_a * num_b
=============================================================================
