----------------------------- MODULE LfsrProofs -----------------------------
(***************************************************************************)
(* Proofs about Lfsr, for every length of the register and every row of    *)
(* taps that contains the last position: a round of lfsr2num is the inverse*)
(* of a round of num2lfsr, the register never becomes zero, and with taps  *)
(* of full period every size comes back.  That the taps of length 9 make   *)
(* the period of 511 is evaluated by the model checker (MCLfsr).           *)
(***************************************************************************)
EXTENDS Lfsr, FiniteSetTheorems, TLAPS

(* The ones among the given positions of a register.                       *)
Ones(r, positions) == {b \in positions : r[b] = 1}

LEMMA LengthNat == Length \in Nat /\ Length >= 2 /\ 0 \in Bit /\ Length-1 \in Bit
  BY LfsrAssumption DEF Bit

LEMMA OnesFinite ==
  ASSUME NEW r, NEW positions \in SUBSET Bit
  PROVE  IsFiniteSet(Ones(r, positions)) /\ Cardinality(Ones(r, positions)) \in Nat
<1>1. IsFiniteSet(Bit)
  BY FS_Interval, LengthNat DEF Bit
<1>2. Ones(r, positions) \subseteq Bit
  BY DEF Ones
<1> QED BY <1>1, <1>2, FS_Subset, FS_CardinalityType

LEMMA ParityBit ==
  ASSUME NEW r, NEW positions \in SUBSET Bit
  PROVE  Parity(r, positions) \in {0, 1}
<1>1. Cardinality(Ones(r, positions)) \in Nat
  BY OnesFinite
<1>2. PICK n \in Nat : n = Cardinality(Ones(r, positions))
  BY <1>1
<1>3. n % 2 \in {0, 1}
  OBVIOUS
<1> QED BY <1>2, <1>3 DEF Parity, Ones

(* Where a round of either loop reads.                                     *)
LEMMA Positions ==
  /\ {t - 1 : t \in Taps} \subseteq Bit
  /\ {0} \cup (Taps \ {Length}) \subseteq Bit
  BY LfsrAssumption, LengthNat DEF Bit

LEMMA RegisterShift ==
  ASSUME NEW r \in Register
  PROVE  Forward(r) \in Register /\ Backward(r) \in Register
<1>1. Parity(r, {t - 1 : t \in Taps}) \in {0, 1}
  BY ParityBit, Positions
<1>2. Parity(r, {0} \cup (Taps \ {Length})) \in {0, 1}
  BY ParityBit, Positions
<1>3. \A b \in Bit : (b # 0 => b-1 \in Bit) /\ (b # Length-1 => b+1 \in Bit)
  BY LengthNat DEF Bit
<1>4. Forward(r) \in Register
  BY <1>1, <1>3 DEF Forward, Register
<1>5. Backward(r) \in Register
  BY <1>2, <1>3 DEF Backward, Register
<1> QED BY <1>4, <1>5

LEMMA SeedRegister == Seed \in Register /\ Seed[0] = 1
  BY LengthNat DEF Seed, Register

-----------------------------------------------------------------------------
(* A register with a single one, at a place that is read, has parity 1.    *)
LEMMA SingleOne ==
  ASSUME NEW r, NEW positions, NEW b \in positions,
         r[b] = 1, \A c \in positions : c # b => r[c] # 1
  PROVE  Parity(r, positions) = 1
<1>1. {c \in positions : r[c] = 1} = {b}
  OBVIOUS
<1>2. Cardinality({b}) = 1
  BY FS_Singleton
<1> QED BY <1>1, <1>2 DEF Parity

(* A round of num2lfsr leaves a one in the register.                       *)
LEMMA ForwardNonzero ==
  ASSUME NEW r \in Register, \E b \in Bit : r[b] = 1
  PROVE  \E b \in Bit : Forward(r)[b] = 1
<1>1. CASE \E b \in Bit : b # Length-1 /\ r[b] = 1
  <2>1. PICK b \in Bit : b # Length-1 /\ r[b] = 1
    BY <1>1
  <2>2. b+1 \in Bit /\ b+1 # 0 /\ (b+1)-1 = b
    BY <2>1, LengthNat DEF Bit
  <2>3. Forward(r)[b+1] = r[b]
    BY <2>2 DEF Forward
  <2> QED BY <2>1, <2>2, <2>3
<1>2. CASE \A b \in Bit : b # Length-1 => r[b] # 1
  <2>1. r[Length-1] = 1
    BY <1>2
  <2>2. Length-1 \in {t - 1 : t \in Taps}
    BY LfsrAssumption
  <2>3. Parity(r, {t - 1 : t \in Taps}) = 1
    BY <1>2, <2>1, <2>2, Positions, SingleOne
  <2> QED BY <2>3, LengthNat DEF Forward
<1> QED BY <1>1, <1>2

(* A round of lfsr2num does.                                               *)
LEMMA BackwardNonzero ==
  ASSUME NEW r \in Register, \E b \in Bit : r[b] = 1
  PROVE  \E b \in Bit : Backward(r)[b] = 1
<1>1. CASE \E b \in Bit : b # 0 /\ r[b] = 1
  <2>1. PICK b \in Bit : b # 0 /\ r[b] = 1
    BY <1>1
  <2>2. b-1 \in Bit /\ b-1 # Length-1 /\ (b-1)+1 = b
    BY <2>1, LengthNat DEF Bit
  <2>3. Backward(r)[b-1] = r[b]
    BY <2>2 DEF Backward
  <2> QED BY <2>1, <2>2, <2>3
<1>2. CASE \A b \in Bit : b # 0 => r[b] # 1
  <2>1. r[0] = 1
    BY <1>2
  <2>2. Parity(r, {0} \cup (Taps \ {Length})) = 1
    BY <1>2, <2>1, Positions, SingleOne
  <2> QED BY <2>2, LengthNat DEF Backward
<1> QED BY <1>1, <1>2

-----------------------------------------------------------------------------
(* A round of lfsr2num undoes a round of num2lfsr.                         *)
THEOREM BackwardInverse ==
  ASSUME NEW r \in Register
  PROVE  Backward(Forward(r)) = r
<1> DEFINE f     == Forward(r)
           rest  == Taps \ {Length}
           read  == {t - 1 : t \in Taps}
<1>1. f \in Register
  BY RegisterShift
<1>2. \A b \in Bit : b # 0 => f[b] = r[b-1]
  BY DEF Forward
<1>3. f[0] = Parity(r, read)
  BY LengthNat DEF Forward
<1>4. PICK n \in Nat : n = Cardinality(Ones(f, rest))
  BY OnesFinite, Positions
<1>5. Cardinality(Ones(r, {t - 1 : t \in rest})) = n
  <2> DEFINE g == [b \in Ones(f, rest) |-> b - 1]
  <2>1. \A t \in rest : t \in Bit /\ t # 0 /\ t-1 \in Bit /\ t \in Nat
    BY LfsrAssumption, LengthNat DEF Bit
  <2>2. Ones(r, {t - 1 : t \in rest}) = {t - 1 : t \in Ones(f, rest)}
    BY <1>2, <2>1 DEF Ones
  <2>3. g \in Bijection(Ones(f, rest), Ones(r, {t - 1 : t \in rest}))
    <3>1. \A a, b \in Ones(f, rest) : a - 1 = b - 1 => a = b
      BY <2>1 DEF Ones
    <3>2. g \in [Ones(f, rest) -> Ones(r, {t - 1 : t \in rest})]
      BY <2>2
    <3>3. g \in Injection(Ones(f, rest), Ones(r, {t - 1 : t \in rest}))
      BY <3>1, <3>2 DEF Injection, IsInjective
    <3>4. g \in Surjection(Ones(f, rest), Ones(r, {t - 1 : t \in rest}))
      BY <2>2, <3>2 DEF Surjection
    <3> QED BY <3>3, <3>4 DEF Bijection
  <2>4. IsFiniteSet(Ones(f, rest))
    BY OnesFinite, Positions
  <2>5. ExistsBijection(Ones(f, rest), Ones(r, {t - 1 : t \in rest}))
    BY <2>3 DEF ExistsBijection
  <2> QED BY <1>4, <2>4, <2>5, FS_Bijection
<1>6. Cardinality(Ones(r, read)) = n + r[Length-1]
  <2>1. read = {t - 1 : t \in rest} \cup {Length-1}
    BY LfsrAssumption
  <2>2. Length-1 \notin {t - 1 : t \in rest}
    <3>1. Length \in Nat
      BY LengthNat
    <3>2. \A t \in rest : t \in Nat /\ t # Length
      BY LfsrAssumption
    <3>3. \A t \in rest : t - 1 # Length - 1
      BY <3>1, <3>2
    <3> HIDE DEF rest
    <3> QED BY <3>3
  <2>3. r[Length-1] \in {0, 1}
    BY LengthNat DEF Register
  <2>4. {t - 1 : t \in rest} \in SUBSET Bit
    BY <2>1, Positions
  <2>5. IsFiniteSet(Ones(r, {t - 1 : t \in rest}))
    BY <2>4, OnesFinite
  <2>6. CASE r[Length-1] = 0
    <3>1. Ones(r, read) = Ones(r, {t - 1 : t \in rest})
      BY <2>1, <2>6 DEF Ones
    <3> QED BY <1>4, <1>5, <2>6, <3>1
  <2>7. CASE r[Length-1] = 1
    <3>1. Ones(r, read) = Ones(r, {t - 1 : t \in rest}) \cup {Length-1}
      BY <2>1, <2>7 DEF Ones
    <3>2. Length-1 \notin Ones(r, {t - 1 : t \in rest})
      BY <2>2 DEF Ones
    <3>3. Cardinality(Ones(r, {t - 1 : t \in rest}) \cup {Length-1})
            = Cardinality(Ones(r, {t - 1 : t \in rest})) + 1
      BY <2>5, <3>2, FS_AddElement
    <3> QED BY <1>4, <1>5, <2>7, <3>1, <3>3
  <2> QED BY <2>3, <2>6, <2>7
<1>7. Cardinality(Ones(f, {0} \cup rest)) = n + f[0]
  <2>1. 0 \notin rest
    BY LfsrAssumption
  <2>2. f[0] \in {0, 1}
    BY <1>1, LengthNat DEF Register
  <2>3. IsFiniteSet(Ones(f, rest))
    BY OnesFinite, Positions
  <2>4. CASE f[0] = 0
    <3>1. Ones(f, {0} \cup rest) = Ones(f, rest)
      BY <2>4 DEF Ones
    <3> QED BY <1>4, <2>4, <3>1
  <2>5. CASE f[0] = 1
    <3>1. Ones(f, {0} \cup rest) = Ones(f, rest) \cup {0}
      BY <2>5 DEF Ones
    <3>2. 0 \notin Ones(f, rest)
      BY <2>1 DEF Ones
    <3> QED BY <1>4, <2>3, <2>5, <3>1, <3>2, FS_AddElement
  <2> QED BY <2>2, <2>4, <2>5
<1>8. Backward(f)[Length-1] = r[Length-1]
  <2>1. PICK x \in {0, 1} : x = r[Length-1]
    BY LengthNat DEF Register
  <2>2. f[0] = (n + x) % 2
    BY <1>3, <1>6, <2>1 DEF Parity, Ones
  <2>3. Backward(f)[Length-1] = (n + f[0]) % 2
    BY <1>7, LengthNat DEF Backward, Parity, Ones
  <2>4. (n + ((n + x) % 2)) % 2 = x
    OBVIOUS
  <2> QED BY <2>1, <2>2, <2>3, <2>4
<1>9. \A b \in Bit : b # Length-1 => Backward(f)[b] = r[b]
  <2> SUFFICES ASSUME NEW b \in Bit, b # Length-1
               PROVE  Backward(f)[b] = r[b]
    OBVIOUS
  <2>1. b+1 \in Bit /\ b+1 # 0 /\ (b+1)-1 = b
    BY LengthNat DEF Bit
  <2>2. Backward(f)[b] = f[b+1]
    BY DEF Backward
  <2> QED BY <1>2, <2>1, <2>2
<1>10. Backward(f) \in Register
  BY <1>1, RegisterShift
<1>11. \A b \in Bit : Backward(f)[b] = r[b]
  BY <1>8, <1>9
<1> HIDE DEF f
<1>12. Backward(f) = r
  BY <1>10, <1>11 DEF Register
<1> QED BY <1>12 DEF f

-----------------------------------------------------------------------------
(* Until it returns lfsr2num has rounds left.                              *)
Running == place \in {"num2lfsr", "lfsr2num"} => i < MaxRounds

LfsrInv == TypeOK /\ Running /\ NeverZero

LEMMA InitLfsr == Init => LfsrInv
  BY SeedRegister, LengthNat
     DEF Init, LfsrInv, TypeOK, Running, NeverZero, MaxRounds

LEMMA NextLfsr == LfsrInv /\ [Next]_vars => LfsrInv'
<1> SUFFICES ASSUME LfsrInv, [Next]_vars PROVE LfsrInv'
  OBVIOUS
<1> USE DEF LfsrInv, TypeOK, Running, NeverZero, MaxRounds
<1>1. CASE Round
  <2>1. bits' \in Register /\ \E b \in Bit : bits'[b] = 1
    BY <1>1, RegisterShift, ForwardNonzero DEF Round
  <2> QED BY <1>1, <2>1 DEF Round
<1>2. CASE Convert
  BY <1>2 DEF Convert
<1>3. CASE BackRound
  <2>1. bits' \in Register /\ \E b \in Bit : bits'[b] = 1
    BY <1>3, RegisterShift, BackwardNonzero DEF BackRound
  <2>2. CASE bits' = Seed
    BY <1>3, <2>1, <2>2 DEF BackRound
  <2>3. CASE bits' # Seed
    BY <1>3, <2>1, <2>3 DEF BackRound
  <2> QED BY <2>2, <2>3
<1>4. CASE UNCHANGED vars
  BY <1>4 DEF vars
<1> QED BY <1>1, <1>2, <1>3, <1>4 DEF Next

(* Every variable has its type (TypeOK).                                   *)
THEOREM TypeCorrect == Spec => []TypeOK
<1>1. LfsrInv => TypeOK
  BY DEF LfsrInv
<1> QED BY InitLfsr, NextLfsr, <1>1, PTL DEF Spec

(* The register never becomes zero, whatever the other taps are            *)
(* (NeverZero).                                                            *)
THEOREM StaysNonzero == Spec => []NeverZero
<1>1. LfsrInv => NeverZero
  BY DEF LfsrInv
<1> QED BY InitLfsr, NextLfsr, <1>1, PTL DEF Spec

-----------------------------------------------------------------------------
(* The way back.  Each round of lfsr2num is one step back on the orbit of  *)
(* num2lfsr; from the seed itself it goes once around.                     *)
Steps == IF shifts = 0 THEN MaxRounds ELSE shifts

OnOrbit(orbit) ==
  /\ place = "num2lfsr" => bits = orbit[shifts] /\ i = 0
  /\ place = "lfsr2num" => i < Steps /\ bits = orbit[Steps - i]
  /\ RoundTrip

LEMMA OrbitStep ==
  ASSUME NEW orbit, FullPeriod(orbit), LfsrInv, OnOrbit(orbit), [Next]_vars
  PROVE  OnOrbit(orbit)'
<1>0. \A k \in 0 .. 510 : orbit[k] \in Register /\ orbit[k+1] = Forward(orbit[k])
  <2>1. /\ orbit \in [0 .. MaxRounds -> Register]
        /\ \A k \in 0 .. MaxRounds-1 : orbit[k+1] = Forward(orbit[k])
    BY DEF FullPeriod
  <2>2. \A k \in 0 .. 510 : k \in 0 .. MaxRounds /\ k \in 0 .. MaxRounds-1
    BY DEF MaxRounds
  <2> QED BY <2>1, <2>2
<1>1. shifts \in 0 .. 510 /\ i \in 0 .. 511 /\ Steps \in 1 .. 511
  BY DEF LfsrInv, TypeOK, Steps, MaxRounds
<1>2. CASE Round
  <2>1. bits' = orbit[shifts+1]
    BY <1>0, <1>1, <1>2 DEF Round, OnOrbit
  <2> QED BY <1>2, <2>1 DEF Round, OnOrbit, RoundTrip
<1>3. CASE Convert
  <2>1. orbit[shifts] = orbit[Steps]
    <3>1. /\ orbit[0] = Seed
          /\ \A j \in 1 .. MaxRounds : orbit[j] = Seed <=> j = MaxRounds
      BY DEF FullPeriod
    <3>2. MaxRounds \in 1 .. MaxRounds
      BY DEF MaxRounds
    <3>3. orbit[MaxRounds] = orbit[0]
      BY <3>1, <3>2
    <3> QED BY <3>3 DEF Steps
  <2> QED BY <1>1, <1>3, <2>1 DEF Convert, OnOrbit, RoundTrip, Steps, MaxRounds
<1>4. CASE BackRound
  <2> DEFINE k == Steps - i - 1
  <2>1. k \in 0 .. 510 /\ k + 1 = Steps - i /\ bits = orbit[k+1]
    BY <1>1, <1>4 DEF BackRound, OnOrbit
  <2>2. bits' = orbit[k]
    <3>1. orbit[k] \in Register /\ orbit[k+1] = Forward(orbit[k])
      BY <1>0, <2>1
    <3>2. Backward(Forward(orbit[k])) = orbit[k]
      BY <3>1, BackwardInverse
    <3> QED BY <1>4, <2>1, <3>1, <3>2 DEF BackRound
  <2>3. bits' = Seed <=> k = 0
    <3>1. /\ orbit[0] = Seed
          /\ \A j \in 1 .. MaxRounds : orbit[j] = Seed <=> j = MaxRounds
      BY DEF FullPeriod
    <3>2. k # 0 => k \in 1 .. MaxRounds /\ k # MaxRounds
      BY <2>1 DEF MaxRounds
    <3> QED BY <2>2, <3>1, <3>2
  <2>4. Steps' = Steps /\ i' = i + 1 /\ shifts' = shifts
    BY <1>4 DEF BackRound, Steps, MaxRounds
  <2>5. CASE k = 0
    BY <1>1, <1>4, <2>3, <2>4, <2>5 DEF BackRound, OnOrbit, RoundTrip, Steps, MaxRounds
  <2>6. CASE k # 0
    <3>1. i + 1 < Steps /\ i + 1 # 511 /\ bits' # Seed
      BY <1>1, <2>1, <2>3, <2>6
    <3>2. place' = "lfsr2num"
      <4>1. place = "lfsr2num" /\ i + 1 # MaxRounds
        BY <1>4, <3>1 DEF BackRound, MaxRounds
      <4> QED BY <1>4, <3>1, <4>1 DEF BackRound
    <3>3. k = Steps' - i'
      BY <1>1, <2>4
    <3> QED BY <2>2, <2>4, <3>1, <3>2, <3>3 DEF OnOrbit, RoundTrip
  <2> QED BY <2>5, <2>6
<1>5. CASE UNCHANGED vars
  BY <1>5 DEF vars, OnOrbit, RoundTrip, Steps, MaxRounds
<1> QED BY <1>2, <1>3, <1>4, <1>5 DEF Next

(* For every length and row of taps with a period of MaxRounds, lfsr2num   *)
(* converges on what num2lfsr returned and gives the size back (RoundTrip).*)
THEOREM SizesComeBack ==
  ASSUME NEW CONSTANT orbit, FullPeriod(orbit)
  PROVE  Spec => []RoundTrip
<1>1. Init => OnOrbit(orbit)
  BY DEF Init, OnOrbit, FullPeriod, RoundTrip
<1>2. LfsrInv /\ OnOrbit(orbit) /\ [Next]_vars => OnOrbit(orbit)'
  BY OrbitStep
<1>3. OnOrbit(orbit) => RoundTrip
  BY DEF OnOrbit
<1> QED BY InitLfsr, NextLfsr, <1>1, <1>2, <1>3, PTL DEF Spec
=============================================================================
