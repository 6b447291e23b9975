--------------------------- MODULE EmulatorProofs ---------------------------
(***************************************************************************)
(* Proofs about Emulator for every number of registers, every value set    *)
(* (all of Int included) and all input files.                              *)
(***************************************************************************)
EXTENDS Emulator, FiniteSetTheorems, TLAPS

(* A number read without an error is one of the numbers of the bus file.   *)
LEMMA ReadNumberType ==
  ASSUME NEW bus \in Seq(Number), NEW counter \in Nat,
         ReadError(bus, counter) = "none"
  PROVE  ReadNumber(bus, counter) \in Number
<1>1. \E k \in 1 .. Len(bus) : FirstWord(bus)[k] = counter
  BY DEF ReadError
<1>2. (CHOOSE k \in 1 .. Len(bus) : FirstWord(bus)[k] = counter) \in 1 .. Len(bus)
  BY <1>1
<1>3. QED
  BY <1>2 DEF ReadNumber

(* Every way of failing to read a number is an exit code of the program.   *)
LEMMA ReadErrorType ==
  ASSUME NEW bus, NEW counter
  PROVE  ReadError(bus, counter) \in Status \cup {"none"}
BY DEF ReadError, LastFault, Status

(* Advancing past a number keeps a bus counter a natural number.           *)
LEMMA AdvanceType ==
  ASSUME NEW bus \in Seq(Number), NEW counter \in Nat,
         ReadError(bus, counter) = "none"
  PROVE  Advance(bus, counter) \in Nat
<1>1. ReadNumber(bus, counter) \in Number
  BY ReadNumberType
<1>2. ReadNumber(bus, counter).limbs \in Nat
  BY <1>1 DEF Number
<1>3. QED
  BY <1>2 DEF Advance

(* The input files never change, so what they are is kept by every action. *)
LEMMA FilesKept == FilesOK /\ UNCHANGED files => FilesOK'
BY DEF FilesOK, files

(* The type invariant is preserved by every step of the emulator.          *)
LEMMA TypeStep == TypeOK /\ [Next]_vars => TypeOK'
<1> SUFFICES ASSUME TypeOK, [Next]_vars
             PROVE  TypeOK'
  OBVIOUS
<1> USE EmulatorAssumption DEF TypeOK
<1>0. /\ FilesOK => busA \in Seq(Number) /\ busB \in Seq(Number)
      /\ CountersOK => busA_counter \in Nat /\ busB_counter \in Nat
  BY DEF FilesOK, CountersOK
<1>1. ASSUME NEW x \in Reg, Loaa(x) PROVE TypeOK'
  <2>1. /\ ReadNumber(busA, busA_counter) \in Number
        /\ Advance(busA, busA_counter) \in Nat
    BY <1>0, <1>1, ReadNumberType, AdvanceType DEF Loaa
  <2>2. FilesOK' /\ status' \in Status /\ command' \in Commands
    BY <1>1, FilesKept DEF Loaa, Keep, Fetch, Commands
  <2>3. RegistersOK'
    BY <1>1 DEF Loaa, Keep, SetReg, RegistersOK, Reg, AllReg
  <2>4. CountersOK'
    BY <1>1, <2>1 DEF Loaa, Keep, Fetch, CountersOK
  <2>5. QED
    BY <2>2, <2>3, <2>4
<1>2. ASSUME NEW x \in Reg, Loab(x) PROVE TypeOK'
  <2>1. /\ ReadNumber(busB, busB_counter) \in Number
        /\ Advance(busB, busB_counter) \in Nat
    BY <1>0, <1>2, ReadNumberType, AdvanceType DEF Loab
  <2>2. FilesOK' /\ status' \in Status /\ command' \in Commands
    BY <1>2, FilesKept DEF Loab, Keep, Fetch, Commands
  <2>3. RegistersOK'
    BY <1>2 DEF Loab, Keep, SetReg, RegistersOK, Reg, AllReg
  <2>4. CountersOK'
    BY <1>2, <2>1 DEF Loab, Keep, Fetch, CountersOK
  <2>5. QED
    BY <2>2, <2>3, <2>4
<1>3. ASSUME NEW x \in Reg, NEW y \in Reg, Loaab(x, y) PROVE TypeOK'
  <2>1. /\ ReadNumber(busA, busA_counter) \in Number
        /\ ReadNumber(busB, busB_counter) \in Number
        /\ Advance(busA, busA_counter) \in Nat
        /\ Advance(busB, busB_counter) \in Nat
    BY <1>0, <1>3, ReadNumberType, AdvanceType DEF Loaab
  <2>2. /\ ReadNumber(busA, busA_counter).val \in Value
        /\ ReadNumber(busB, busB_counter).val \in Value
    BY <2>1 DEF Number
  <2>3. FilesOK' /\ status' \in Status /\ command' \in Commands
    BY <1>3, FilesKept DEF Loaab, Keep, Fetch, Commands
  <2>4. RegistersOK'
    <3>1. reg' = [reg EXCEPT ![x] = ReadNumber(busA, busA_counter).val,
                             ![y] = ReadNumber(busB, busB_counter).val]
      BY <1>3 DEF Loaab
    <3>2. reg' \in [AllReg -> Value]
      BY <2>2, <3>1 DEF RegistersOK
    <3>3. QED
      BY <1>3, <3>2 DEF Loaab, Keep, RegistersOK
  <2>5. CountersOK'
    BY <1>3, <2>1 DEF Loaab, Keep, Fetch, CountersOK
  <2>6. QED
    BY <2>3, <2>4, <2>5
<1>4. ASSUME NEW x \in Reg, Unl(x) PROVE TypeOK'
  <2>1. FilesOK' /\ status' \in Status /\ command' \in Commands
    BY <1>4, FilesKept DEF Unl, Keep, Fetch, Commands
  <2>2. RegistersOK'
    <3>1. x \in AllReg
      BY DEF Reg, AllReg
    <3>2. reg[x] \in Value
      BY <3>1 DEF RegistersOK
    <3>3. QED
      BY <1>4, <3>2 DEF Unl, Keep, RegistersOK
  <2>3. CountersOK'
    BY <1>4 DEF Unl, Keep, Fetch, CountersOK, buses
  <2>4. QED
    BY <2>1, <2>2, <2>3
<1>5. ASSUME NEW x \in Reg, NEW v \in Value, NEW cmd \in Commands,
             Fetch(2, cmd) \/ Fetch(4, cmd), SetReg(x, v), Keep(<<phys, buses, busZ>>)
      PROVE  TypeOK'
  <2>1. FilesOK' /\ status' \in Status /\ command' \in Commands
    BY <1>5, FilesKept DEF Keep, Fetch
  <2>2. RegistersOK'
    BY <1>5 DEF SetReg, Keep, RegistersOK, Reg, AllReg
  <2>3. CountersOK'
    BY <1>5 DEF Keep, Fetch, CountersOK, buses
  <2>4. QED
    BY <2>1, <2>2, <2>3
<1>6. ASSUME NEW x \in Reg, Zero(x) \/ Set1(x) PROVE TypeOK'
  <2>1. <<"zero", x>> \in Commands /\ <<"set1", x>> \in Commands
    BY DEF Commands
  <2>2. QED
    BY <1>5, <1>6, <2>1 DEF Zero, Set1, SetReg
<1>7. ASSUME NEW x \in Reg, NEW y \in Reg, Cprs(x, y) PROVE TypeOK'
  <2>1. <<"cprs", x, y>> \in Commands
    BY DEF Commands
  <2>2. QED
    BY <1>5, <1>7, <2>1 DEF Cprs, SetReg
<1>8. ASSUME NEW x \in Reg, NEW y \in Reg, NEW z \in Reg, Mult(x, y, z)
      PROVE  TypeOK'
  <2>1. <<"mult", x, y, z>> \in Commands
    BY DEF Commands
  <2>2. QED
    BY <1>5, <1>8, <2>1 DEF Mult, SetReg
<1>9. ASSUME NEW x \in Reg, NEW y \in Reg, NEW z \in Reg,
             NEW op \in {"add", "sub"}, AddSub(op, x, y, z)
      PROVE  TypeOK'
  <2> DEFINE written == [reg EXCEPT ![z] = Main(op, reg[x], reg[y]),
                                    ![Shadow] = Second(op, reg[x], reg[y])]
  <2>1. z \in AllReg /\ Shadow \in AllReg
    BY DEF Reg, AllReg, Shadow
  <2>2. written \in [AllReg -> Value]
    BY <1>9 DEF AddSub, RegistersOK
  <2>3. /\ Exchange(written, z) \in [AllReg -> Value]
        /\ Exchange(phys, z) \in [AllReg -> AllReg]
    BY <2>1, <2>2 DEF Exchange, RegistersOK
  <2>4. RegistersOK'
    BY <1>9, <2>2, <2>3 DEF AddSub, Keep, RegistersOK
  <2>5. FilesOK' /\ status' \in Status /\ command' \in Commands
    BY <1>9, FilesKept DEF AddSub, Keep, Fetch, Commands
  <2>6. CountersOK'
    BY <1>9 DEF AddSub, Keep, Fetch, CountersOK, buses
  <2>7. QED
    BY <2>4, <2>5, <2>6
<1>10. ASSUME NEW code \in Status, Fail(code) PROVE TypeOK'
  <2>1. FilesOK'
    BY <1>10, FilesKept DEF Fail
  <2>2. RegistersOK' /\ CountersOK' /\ status' \in Status /\ command' \in Commands
    BY <1>10 DEF Fail, RegistersOK, CountersOK, buses
  <2>3. QED
    BY <2>1, <2>2
<1>11. ASSUME LoadFault PROVE TypeOK'
  BY <1>10, <1>11, ReadErrorType DEF LoadFault
<1>12. ASSUME DecodeFault PROVE TypeOK'
  BY <1>10, <1>12 DEF DecodeFault, Status
<1>13. ASSUME EndEmulation PROVE TypeOK'
  BY <1>10, <1>13 DEF EndEmulation, Status, Fail
<1>14. CASE UNCHANGED vars
  BY <1>14, FilesKept DEF vars, buses, RegistersOK, CountersOK
<1>15. QED
  BY <1>1, <1>2, <1>3, <1>4, <1>6, <1>7, <1>8, <1>9, <1>11, <1>12, <1>13,
     <1>14 DEF Next

(* Type correctness of the emulator.                                       *)
THEOREM TypeCorrect == Spec => []TypeOK
<1>1. Init => TypeOK
  BY EmulatorAssumption
  DEF Init, TypeOK, FilesOK, RegistersOK, CountersOK, AllReg, Status,
      Commands
<1>2. QED
  BY <1>1, TypeStep, PTL DEF Spec

-----------------------------------------------------------------------------
(* Exchanging two entries of a permutation leaves a permutation.           *)
LEMMA ExchangePermutes ==
  ASSUME NEW f \in [AllReg -> AllReg], NEW z \in AllReg, Permutation(f)
  PROVE  Permutation(Exchange(f, z))
<1> DEFINE g == Exchange(f, z)
<1>0. z \in AllReg /\ Shadow \in AllReg
  BY EmulatorAssumption DEF AllReg, Shadow
<1>1. \A r \in AllReg : g[r] = IF r = Shadow THEN f[z]
                               ELSE IF r = z THEN f[Shadow] ELSE f[r]
  BY <1>0 DEF Exchange
<1>2. ASSUME NEW r \in AllReg, NEW s \in AllReg, g[r] = g[s] PROVE r = s
  BY <1>0, <1>1, <1>2 DEF Permutation
<1>3. ASSUME NEW p \in AllReg PROVE \E r \in AllReg : g[r] = p
  <2>1. PICK r \in AllReg : f[r] = p
    BY DEF Permutation
  <2>2. CASE r = z
    <3>1. g[Shadow] = p
      BY <2>1, <2>2, <1>0, <1>1
    <3>2. QED
      BY <3>1, <1>0
  <2>3. CASE r = Shadow /\ r # z
    <3>1. g[z] = p
      BY <2>1, <2>3, <1>0, <1>1
    <3>2. QED
      BY <3>1, <1>0
  <2>4. CASE r # Shadow /\ r # z
    <3>1. g[r] = p
      BY <2>1, <2>4, <1>0, <1>1
    <3>2. QED
      BY <3>1
  <2>5. QED
    BY <2>2, <2>3, <2>4
<1>4. QED
  BY <1>2, <1>3 DEF Permutation

(* Only ADD and SUB touch phys, and only by an exchange.                   *)
LEMMA PhysStep ==
  ASSUME TypeOK, [Next]_vars
  PROVE  \/ phys' = phys
         \/ \E op \in {"add", "sub"}, x, y, z \in Reg :
              AddSub(op, x, y, z) /\ Swaps(op, reg[x], reg[y])
<1>1. ASSUME NEW x \in Reg, Loaa(x) \/ Loab(x) \/ Unl(x) \/ Zero(x) \/ Set1(x)
      PROVE  phys' = phys
  BY <1>1 DEF Loaa, Loab, Unl, Zero, Set1, Keep
<1>2. ASSUME NEW x \in Reg, NEW y \in Reg, Loaab(x, y) \/ Cprs(x, y)
      PROVE  phys' = phys
  BY <1>2 DEF Loaab, Cprs, Keep
<1>3. ASSUME NEW x \in Reg, NEW y \in Reg, NEW z \in Reg, Mult(x, y, z)
      PROVE  phys' = phys
  BY <1>3 DEF Mult, Keep
<1>4. ASSUME NEW x \in Reg, NEW y \in Reg, NEW z \in Reg,
             NEW op \in {"add", "sub"}, AddSub(op, x, y, z)
      PROVE  phys' = phys \/ Swaps(op, reg[x], reg[y])
  BY <1>4 DEF AddSub
<1>5. ASSUME LoadFault \/ DecodeFault \/ EndEmulation PROVE phys' = phys
  BY <1>5 DEF LoadFault, DecodeFault, EndEmulation, Fail
<1>6. CASE UNCHANGED vars
  BY <1>6 DEF vars
<1>7. QED
  BY <1>1, <1>2, <1>3, <1>4, <1>5, <1>6 DEF Next

(* No step of the emulator breaks the permutation.                         *)
LEMMA PermutationStep ==
  TypeOK /\ PhysPermutation /\ [Next]_vars => PhysPermutation'
<1> SUFFICES ASSUME TypeOK, PhysPermutation, [Next]_vars
             PROVE  PhysPermutation'
  OBVIOUS
<1>1. CASE phys' = phys
  BY <1>1 DEF PhysPermutation, Permutation
<1>2. ASSUME NEW op \in {"add", "sub"},
             NEW x \in Reg, NEW y \in Reg, NEW z \in Reg,
             AddSub(op, x, y, z), Swaps(op, reg[x], reg[y])
      PROVE  PhysPermutation'
  <2>1. phys' = Exchange(phys, z)
    BY <1>2 DEF AddSub
  <2>2. z \in AllReg /\ phys \in [AllReg -> AllReg]
    BY EmulatorAssumption DEF TypeOK, RegistersOK, Reg, AllReg
  <2>3. Permutation(Exchange(phys, z))
    BY <2>2, ExchangePermutes DEF PhysPermutation
  <2>4. QED
    BY <2>1, <2>3 DEF PhysPermutation
<1>3. QED
  BY <1>1, <1>2, PhysStep

(* phys[] is a permutation of the physical registers for any number of     *)
(* registers and any program: the check main.c makes after every step.     *)
THEOREM PhysIsPermutation == Spec => []PhysPermutation
<1>1. Init => PhysPermutation
  BY DEF Init, PhysPermutation, Permutation
<1>2. QED
  BY <1>1, PermutationStep, TypeStep, TypeCorrect, PTL DEF Spec

-----------------------------------------------------------------------------
(* In a permutation, the register behind a physical number is unique.      *)
LEMMA OwnerUnique ==
  ASSUME NEW f, Permutation(f), NEW r \in AllReg
  PROVE  (CHOOSE s \in AllReg : f[s] = f[r]) = r
BY DEF Permutation

(* What the case table computes: the main result is negative exactly when  *)
(* the registers are swapped on a borrow, and the other one is its         *)
(* opposite or its equal.                                                  *)
LEMMA BorrowValues ==
  ASSUME NEW a \in Int, NEW b \in Int, NEW op \in {"add", "sub"},
         Swaps(op, a, b)
  PROVE  /\ Main(op, a, b) < 0
         /\ Abs(Second(op, a, b)) = - Main(op, a, b)
BY DEF Swaps, Subtractive, SameSign, Main, Second, Abs

(* An ADD or SUB that swaps, register by register.                         *)
LEMMA BorrowStep ==
  ASSUME TypeOK,
         NEW op \in {"add", "sub"},
         NEW x \in Reg, NEW y \in Reg, NEW z \in Reg,
         AddSub(op, x, y, z), Swaps(op, reg[x], reg[y])
  PROVE  /\ phys' = Exchange(phys, z)
         /\ phys'[z] = phys[Shadow] /\ phys'[Shadow] = phys[z]
         /\ reg'[z] = Second(op, reg[x], reg[y])
         /\ reg'[Shadow] = Main(op, reg[x], reg[y])
         /\ \A r \in AllReg \ {z, Shadow} : phys'[r] = phys[r] /\ reg'[r] = reg[r]
<1> DEFINE written == [reg EXCEPT ![z] = Main(op, reg[x], reg[y]),
                                  ![Shadow] = Second(op, reg[x], reg[y])]
<1>1. z \in AllReg /\ Shadow \in AllReg /\ z # Shadow
  BY EmulatorAssumption DEF Reg, AllReg, Shadow
<1>2. phys' = Exchange(phys, z) /\ reg' = Exchange(written, z)
  BY DEF AddSub
<1>3. phys \in [AllReg -> AllReg] /\ reg \in [AllReg -> Value]
  BY DEF TypeOK, RegistersOK
<1>4. /\ phys'[z] = phys[Shadow] /\ phys'[Shadow] = phys[z]
      /\ \A r \in AllReg \ {z, Shadow} : phys'[r] = phys[r]
  BY <1>1, <1>2, <1>3 DEF Exchange
<1>5. /\ DOMAIN written = AllReg
      /\ written[z] = Main(op, reg[x], reg[y])
      /\ written[Shadow] = Second(op, reg[x], reg[y])
      /\ \A r \in AllReg \ {z, Shadow} : written[r] = reg[r]
  BY <1>1, <1>3
<1>6. /\ reg'[z] = written[Shadow] /\ reg'[Shadow] = written[z]
      /\ \A r \in AllReg \ {z, Shadow} : reg'[r] = written[r]
  <2> HIDE DEF written
  <2>1. QED
    BY <1>1, <1>2, <1>5 DEF Exchange
<1>7. QED
  BY <1>2, <1>4, <1>5, <1>6

(* A swap renames and never copies, for any number of registers and any    *)
(* integers: the property RenamesOnBorrow the runs check.                  *)
THEOREM SwapRenames == Spec => RenamesOnBorrow
<1>1. ASSUME TypeOK, PhysPermutation, PhysPermutation', [Next]_vars,
             NEW z \in Reg, phys'[z] # phys[z]
      PROVE  /\ phys' = Exchange(phys, z)
             /\ reg'[Shadow] < 0
             /\ Abs(reg'[z]) = -reg'[Shadow]
             /\ \A p \in AllReg :
                  /\ p = phys[z]      => Physical(p)' = reg'[Shadow]
                  /\ p = phys[Shadow] => Physical(p)' = reg'[z]
                  /\ p \notin {phys[z], phys[Shadow]} => Physical(p)' = Physical(p)
  <2>1. PICK op \in {"add", "sub"}, x \in Reg, y \in Reg, w \in Reg :
               AddSub(op, x, y, w) /\ Swaps(op, reg[x], reg[y])
    BY <1>1, PhysStep
  <2>2. /\ phys' = Exchange(phys, w)
        /\ phys'[w] = phys[Shadow] /\ phys'[Shadow] = phys[w]
        /\ reg'[w] = Second(op, reg[x], reg[y])
        /\ reg'[Shadow] = Main(op, reg[x], reg[y])
        /\ \A r \in AllReg \ {w, Shadow} : phys'[r] = phys[r] /\ reg'[r] = reg[r]
    BY <1>1, <2>1, BorrowStep
  <2>3. z \in AllReg /\ Shadow \in AllReg /\ z # Shadow
    BY EmulatorAssumption DEF Reg, AllReg, Shadow
  <2>4. w = z
    BY <1>1, <2>2, <2>3
  <2>5. reg[x] \in Int /\ reg[y] \in Int
    <3>1. x \in AllReg /\ y \in AllReg
      BY EmulatorAssumption DEF Reg, AllReg
    <3>2. reg[x] \in Value /\ reg[y] \in Value
      BY <1>1, <3>1 DEF TypeOK, RegistersOK
    <3>3. QED
      BY <3>2, EmulatorAssumption
  <2>6. reg'[Shadow] < 0 /\ Abs(reg'[z]) = -reg'[Shadow]
    <3>1. /\ Main(op, reg[x], reg[y]) < 0
          /\ Abs(Second(op, reg[x], reg[y])) = - Main(op, reg[x], reg[y])
      BY <2>1, <2>5, BorrowValues
    <3>2. QED
      BY <2>2, <2>4, <3>1
  <2>7. ASSUME NEW p \in AllReg, NEW r \in AllReg
        PROVE  /\ phys[r] = p => Physical(p) = reg[r]
               /\ phys'[r] = p => Physical(p)' = reg'[r]
    <3>1. Permutation(phys) /\ Permutation(phys')
      BY <1>1 DEF PhysPermutation, Permutation
    <3>2. /\ (CHOOSE s \in AllReg : phys[s] = phys[r]) = r
          /\ (CHOOSE s \in AllReg : phys'[s] = phys'[r]) = r
      BY <3>1, OwnerUnique
    <3>3. QED
      BY <3>2 DEF Physical
  <2>8. ASSUME NEW p \in AllReg, p \notin {phys[z], phys[Shadow]}
        PROVE  Physical(p)' = Physical(p)
    <3>1. PICK r \in AllReg : phys[r] = p
      BY <1>1 DEF PhysPermutation, Permutation
    <3>2. r \in AllReg \ {z, Shadow}
      BY <2>8, <3>1
    <3>3. phys'[r] = p /\ reg'[r] = reg[r]
      BY <2>2, <2>4, <3>1, <3>2
    <3>4. QED
      BY <2>7, <3>1, <3>3
  <2>9. ASSUME NEW p \in AllReg
        PROVE  /\ p = phys[z] => Physical(p)' = reg'[Shadow]
               /\ p = phys[Shadow] => Physical(p)' = reg'[z]
    BY <2>2, <2>3, <2>4, <2>7
  <2>10. QED
    BY <2>2, <2>4, <2>6, <2>8, <2>9
<1>2. TypeOK /\ PhysPermutation /\ PhysPermutation' /\ [Next]_vars
        => [RenamesStep]_vars
  BY <1>1 DEF RenamesStep
<1>3. QED
  BY <1>2, TypeCorrect, PhysIsPermutation, PTL DEF Spec, RenamesOnBorrow

-----------------------------------------------------------------------------
(* The case table computes the sum and the difference, for all integers.   *)
LEMMA CaseTable ==
  ASSUME NEW a \in Int, NEW b \in Int
  PROVE  /\ (IF Swaps("add", a, b) THEN Second("add", a, b) ELSE Main("add", a, b))
              = a + b
         /\ (IF Swaps("sub", a, b) THEN Second("sub", a, b) ELSE Main("sub", a, b))
              = a - b
BY DEF Swaps, Subtractive, SameSign, Main, Second, Abs

(* Writing v to register z alone is writing it to the programmer's file.   *)
LEMMA PutStep ==
  ASSUME reg \in [AllReg -> Value], reg' \in [AllReg -> Value],
         NEW z \in Reg, NEW v,
         reg'[z] = v, \A r \in Reg \ {z} : reg'[r] = reg[r]
  PROVE  [r \in Reg |-> reg'[r]] = [[r \in Reg |-> reg[r]] EXCEPT ![z] = v]
OBVIOUS

(* Values of the logical registers.                                        *)
LEMMA RegisterValues ==
  ASSUME TypeOK, NEW x \in Reg
  PROVE  /\ x \in AllReg /\ x # Shadow /\ reg[x] \in Value /\ reg[x] \in Int
         /\ [r \in Reg |-> reg[r]][x] = reg[x]
<1>1. x \in AllReg /\ x # Shadow
  BY EmulatorAssumption DEF Reg, AllReg, Shadow
<1>2. reg[x] \in Value
  BY <1>1 DEF TypeOK, RegistersOK
<1>3. QED
  BY <1>1, <1>2, EmulatorAssumption

(* An ADD or SUB of the emulator is the Add or Subtract of the machine.    *)
LEMMA AddSubImplements ==
  ASSUME TypeOK, TypeOK',
         NEW x \in Reg, NEW y \in Reg, NEW z \in Reg, NEW op \in {"add", "sub"},
         AddSub(op, x, y, z)
  PROVE  /\ op = "add" => Machine!Add(x, y, z)
         /\ op = "sub" => Machine!Subtract(x, y, z)
<1> DEFINE a == reg[x]
           b == reg[y]
           result == IF Swaps(op, a, b) THEN Second(op, a, b) ELSE Main(op, a, b)
<1>1. /\ reg \in [AllReg -> Value] /\ reg' \in [AllReg -> Value]
      /\ busZ' = busZ /\ command' = <<op, x, y, z>>
      /\ UNCHANGED <<busA, busB, busA_counter, busB_counter>>
  BY DEF TypeOK, RegistersOK, AddSub, Keep, Fetch, files, buses
<1>1a. UNCHANGED <<Offered(busA, busA_counter), Offered(busB, busB_counter)>>
  BY <1>1 DEF Offered, ReadError, ReadNumber, FirstWord, LastFault
<1>2. z \in AllReg /\ Shadow \in AllReg /\ \A r \in Reg : r \in AllReg \ {Shadow}
  BY EmulatorAssumption DEF Reg, AllReg, Shadow
<1>3. reg'[z] = result /\ \A r \in Reg \ {z} : reg'[r] = reg[r]
  <2>1. CASE Swaps(op, a, b)
    BY <1>2, <2>1, BorrowStep
  <2>2. CASE ~Swaps(op, a, b)
    BY <1>1, <1>2, <2>2 DEF AddSub
  <2>3. QED
    BY <2>1, <2>2
<1>4. a \in Int /\ b \in Int
  BY RegisterValues
<1>5. result = IF op = "add" THEN a + b ELSE a - b
  BY <1>4, CaseTable
<1>6. [r \in Reg |-> reg'[r]] = [[r \in Reg |-> reg[r]] EXCEPT ![z] = result]
  <2> HIDE DEF result
  <2>1. QED
    BY <1>1, <1>3, PutStep
<1> HIDE DEF result
<1>7. CASE op = "add"
  <2>1. result = [r \in Reg |-> reg[r]][x] + [r \in Reg |-> reg[r]][y]
    BY <1>5, <1>7
  <2>2. Machine!Add(x, y, z)
    BY <1>1, <1>1a, <1>6, <1>7, <2>1 DEF Machine!Add, Machine!Put
  <2>3. QED
    BY <1>7, <2>2
<1>8. CASE op = "sub"
  <2>1. result = [r \in Reg |-> reg[r]][x] - [r \in Reg |-> reg[r]][y]
    BY <1>5, <1>8
  <2>2. Machine!Subtract(x, y, z)
    BY <1>1, <1>1a, <1>6, <1>8, <2>1 DEF Machine!Subtract, Machine!Put
  <2>3. QED
    BY <1>8, <2>2
<1>9. QED
  BY <1>7, <1>8

(* A bus offers integers in play.                                          *)
LEMMA OfferedType ==
  ASSUME NEW bus \in Seq(Number), NEW counter \in Nat
  PROVE  Offered(bus, counter) \subseteq Value
<1>1. CASE ReadError(bus, counter) = "none"
  <2>1. ReadNumber(bus, counter) \in Number
    BY <1>1, ReadNumberType
  <2>2. ReadNumber(bus, counter).val \in Value
    BY <2>1 DEF Number
  <2>3. QED
    BY <2>2 DEF Offered
<1>2. CASE ReadError(bus, counter) # "none"
  BY <1>2 DEF Offered
<1>3. QED
  BY <1>1, <1>2

(* Every step of the emulator is a step of the machine or a stutter.       *)
LEMMA MachineStep ==
  TypeOK /\ TypeOK' /\ [Next]_vars => [Machine!MachineNext]_(Machine!machineVars)
<1> SUFFICES ASSUME TypeOK, TypeOK', [Next]_vars
             PROVE  [Machine!MachineNext]_(Machine!machineVars)
  OBVIOUS
<1>0. /\ reg \in [AllReg -> Value] /\ reg' \in [AllReg -> Value]
      /\ busA_counter \in Nat /\ busB_counter \in Nat
      /\ busA_counter' \in Nat /\ busB_counter' \in Nat
      /\ busA \in Seq(Number) /\ busB \in Seq(Number)
      /\ busA' \in Seq(Number) /\ busB' \in Seq(Number)
  BY DEF TypeOK, RegistersOK, CountersOK, FilesOK
<1>0a. \A r \in Reg : r \in AllReg
  BY EmulatorAssumption DEF Reg, AllReg
<1>0b. /\ Offered(busA, busA_counter)' \subseteq Value
       /\ Offered(busB, busB_counter)' \subseteq Value
  <2>1. /\ Offered(busA', busA_counter') \subseteq Value
        /\ Offered(busB', busB_counter') \subseteq Value
    BY <1>0, OfferedType
  <2>2. QED
    BY <2>1 DEF Offered, ReadError, ReadNumber, FirstWord, LastFault
<1>0c. /\ UNCHANGED <<busA, busA_counter>> => UNCHANGED Offered(busA, busA_counter)
       /\ UNCHANGED <<busB, busB_counter>> => UNCHANGED Offered(busB, busB_counter)
  <2>1. ASSUME UNCHANGED <<busA, busA_counter>>
        PROVE  UNCHANGED Offered(busA, busA_counter)
    BY <2>1 DEF Offered, ReadError, ReadNumber, FirstWord, LastFault
  <2>2. ASSUME UNCHANGED <<busB, busB_counter>>
        PROVE  UNCHANGED Offered(busB, busB_counter)
    BY <2>2 DEF Offered, ReadError, ReadNumber, FirstWord, LastFault
  <2>3. QED
    BY <2>1, <2>2
<1>1. ASSUME NEW x \in Reg, NEW v \in Value, reg' = [reg EXCEPT ![x] = v]
      PROVE  [r \in Reg |-> reg'[r]] = [[r \in Reg |-> reg[r]] EXCEPT ![x] = v]
  <2>1. reg'[x] = v /\ \A r \in Reg \ {x} : reg'[r] = reg[r]
    BY <1>0, <1>0a, <1>1
  <2>2. QED
    BY <1>0, <2>1, PutStep
<1>2. ASSUME NEW x \in Reg, Loaa(x) PROVE Machine!MachineNext
  <2>1. PICK v \in Offered(busA, busA_counter) :
          v \in Value /\ reg' = [reg EXCEPT ![x] = v]
    BY <1>2 DEF Loaa, SetReg, Offered
  <2>2. busZ' = busZ /\ command' = <<"loaa", x>> /\ UNCHANGED <<busB, busB_counter>>
    BY <1>2 DEF Loaa, Keep, Fetch, files
  <2>3. Machine!LoadA(x)
    BY <1>0b, <1>0c, <1>1, <2>1, <2>2 DEF Machine!LoadA
  <2>4. QED
    BY <2>3 DEF Machine!MachineNext
<1>2a. ASSUME NEW x \in Reg, Loab(x) PROVE Machine!MachineNext
  <2>1. PICK v \in Offered(busB, busB_counter) :
          v \in Value /\ reg' = [reg EXCEPT ![x] = v]
    BY <1>2a DEF Loab, SetReg, Offered
  <2>2. busZ' = busZ /\ command' = <<"loab", x>> /\ UNCHANGED <<busA, busA_counter>>
    BY <1>2a DEF Loab, Keep, Fetch, files
  <2>3. Machine!LoadB(x)
    BY <1>0b, <1>0c, <1>1, <2>1, <2>2 DEF Machine!LoadB
  <2>4. QED
    BY <2>3 DEF Machine!MachineNext
<1>2b. UNCHANGED <<busA, busB, buses>>
         => UNCHANGED <<Offered(busA, busA_counter), Offered(busB, busB_counter)>>
  BY <1>0c DEF buses
<1>3. ASSUME NEW x \in Reg, Zero(x) \/ Set1(x) PROVE Machine!MachineNext
  <2>1. Machine!SetZero(x) \/ Machine!SetOne(x)
    BY <1>1, <1>2b, <1>3, EmulatorAssumption
    DEF Zero, Set1, Fetch, SetReg, Keep, files,
        Machine!SetZero, Machine!SetOne, Machine!Put
  <2>2. QED
    BY <2>1 DEF Machine!MachineNext
<1>4. ASSUME NEW x \in Reg, Unl(x) PROVE Machine!MachineNext
  <2>1. Machine!Unload(x)
    BY <1>2b, <1>4 DEF Unl, Fetch, Keep, files, Machine!Unload
  <2>2. QED
    BY <2>1 DEF Machine!MachineNext
<1>5. ASSUME NEW x \in Reg, NEW y \in Reg, Loaab(x, y) PROVE Machine!MachineNext
  <2> DEFINE v == ReadNumber(busA, busA_counter).val
             w == ReadNumber(busB, busB_counter).val
  <2>1. v \in Offered(busA, busA_counter) /\ w \in Offered(busB, busB_counter)
    BY <1>5 DEF Loaab, Offered
  <2>3. /\ reg' = [reg EXCEPT ![x] = v, ![y] = w]
        /\ busZ' = busZ /\ command' = <<"loaab", x, y>>
    BY <1>5 DEF Loaab, Keep, Fetch
  <2> HIDE DEF v, w
  <2>4. [r \in Reg |-> reg'[r]] = [[r \in Reg |-> reg[r]] EXCEPT ![x] = v, ![y] = w]
    BY <1>0, <1>0a, <2>3
  <2>5. Machine!LoadAB(x, y)
    BY <1>0b, <2>1, <2>3, <2>4 DEF Machine!LoadAB
  <2>6. QED
    BY <2>5 DEF Machine!MachineNext
<1>6. ASSUME NEW x \in Reg, NEW y \in Reg, Cprs(x, y) PROVE Machine!MachineNext
  <2>1. /\ [r \in Reg |-> reg'[r]] = [[r \in Reg |-> reg[r]] EXCEPT ![y] = reg[x]]
        /\ busZ' = busZ /\ command' = <<"cprs", x, y>>
        /\ UNCHANGED <<busA, busB, buses>>
    BY <1>1, <1>6 DEF Cprs, Fetch, SetReg, Keep, files
  <2>2. Machine!Copy(x, y)
    BY <1>2b, <2>1 DEF Machine!Copy, Machine!Put
  <2>3. QED
    BY <2>2 DEF Machine!MachineNext
<1>7. ASSUME NEW x \in Reg, NEW y \in Reg, NEW z \in Reg, Mult(x, y, z)
      PROVE  Machine!MachineNext
  <2>1. /\ [r \in Reg |-> reg'[r]]
             = [[r \in Reg |-> reg[r]] EXCEPT ![z] = reg[x] * reg[y]]
        /\ busZ' = busZ /\ command' = <<"mult", x, y, z>>
        /\ UNCHANGED <<busA, busB, buses>>
    BY <1>1, <1>7 DEF Mult, Fetch, SetReg, Keep, files
  <2>2. Machine!Multiply(x, y, z)
    BY <1>2b, <2>1 DEF Machine!Multiply, Machine!Put
  <2>3. QED
    BY <2>2 DEF Machine!MachineNext
<1>8. ASSUME NEW x \in Reg, NEW y \in Reg, NEW z \in Reg,
             NEW op \in {"add", "sub"}, AddSub(op, x, y, z)
      PROVE  Machine!MachineNext
  <2>1. Machine!Add(x, y, z) \/ Machine!Subtract(x, y, z)
    BY <1>8, AddSubImplements
  <2>2. QED
    BY <2>1 DEF Machine!MachineNext
<1>9. ASSUME UNCHANGED <<files, reg, buses, busZ, command>>
      PROVE  UNCHANGED Machine!machineVars
  BY <1>2b, <1>9 DEF Machine!machineVars, files
<1>10. ASSUME LoadFault \/ DecodeFault \/ EndEmulation
       PROVE  UNCHANGED Machine!machineVars
  BY <1>9, <1>10 DEF LoadFault, DecodeFault, EndEmulation, Fail
<1>11. CASE UNCHANGED vars
  BY <1>9, <1>11 DEF vars
<1>12. QED
  BY <1>2, <1>2a, <1>3, <1>4, <1>5, <1>6, <1>7, <1>8, <1>10, <1>11 DEF Next

(* The emulator implements the programmer's view of the coprocessor: the   *)
(* sign/magnitude table, the shadow register and the swaps are invisible.  *)
THEOREM ImplementsMachine == Spec => MachineSpec
<1>1. Init => Machine!MachineInit
  <2> SUFFICES ASSUME Init PROVE Machine!MachineInit
    OBVIOUS
  <2>1. \A r \in Reg : reg[r] = 0
    BY EmulatorAssumption DEF Init, Reg, AllReg
  <2>2. busA \in Seq(Number) /\ busB \in Seq(Number)
    BY EmulatorAssumption DEF Init
  <2>3. /\ Offered(busA, busA_counter) \subseteq Value
        /\ Offered(busB, busB_counter) \subseteq Value
    BY <2>2, OfferedType DEF Init
  <2>4. QED
    BY <2>1, <2>3 DEF Init, Machine!MachineInit
<1>2. QED
  BY <1>1, MachineStep, TypeCorrect, PTL DEF Spec, MachineSpec, Machine!MachineSpec

-----------------------------------------------------------------------------
(* The words of a bus file.  FirstWord is a recursive function; that such a*)
(* function exists takes an induction on its length.  The induction is by  *)
(* counting: if a set misses n and is closed under k + 1, adding one maps  *)
(* its part below n into itself, one to one, and not onto because of 0.    *)
LEMMA SetInduction ==
  ASSUME NEW S, 0 \in S, \A k \in Nat : k \in S => k + 1 \in S
  PROVE  Nat \subseteq S
<1> SUFFICES ASSUME NEW n \in Nat, n \notin S
             PROVE  FALSE
  OBVIOUS
<1> DEFINE A == S \cap (0 .. n)
           f == [k \in A |-> k + 1]
<1>1. IsFiniteSet(A)
  <2>1. IsFiniteSet(0 .. n) /\ A \in SUBSET (0 .. n)
    BY FS_Interval
  <2> HIDE DEF A
  <2> QED BY <2>1, FS_Subset
<1>2. f \in [A -> A]
  <2> SUFFICES ASSUME NEW k \in A PROVE k + 1 \in A
    OBVIOUS
  <2> QED OBVIOUS
<1>3. f \in Injection(A, A)
  BY <1>2 DEF Injection, IsInjective
<1>4. f \in Surjection(A, A)
  <2> HIDE DEF f, A
  <2> QED BY <1>1, <1>3, FS_Injection
<1>5. 0 \in A
  OBVIOUS
<1>6. \E k \in A : f[k] = 0
  BY <1>4, <1>5 DEF Surjection
<1> QED BY <1>6

(* f is the first n places of FirstWord(bus).                              *)
Starts(f, bus, n) ==
  f = [k \in 1 .. n |-> IF k = 1 THEN 0 ELSE f[k-1] + bus[k-1].limbs + 1]

LEMMA StartsExist ==
  ASSUME NEW bus \in Seq(Number)
  PROVE  \A n \in Nat : n <= Len(bus) + 1 => \E f : Starts(f, bus, n)
<1> DEFINE S == {n \in Nat : n <= Len(bus) + 1 => \E f : Starts(f, bus, n)}
<1>1. 0 \in S
  <2>1. Starts([k \in 1 .. 0 |-> 0], bus, 0)
    BY DEF Starts
  <2> QED BY <2>1
<1>2. ASSUME NEW n \in Nat, n \in S PROVE n + 1 \in S
  <2> SUFFICES ASSUME n + 1 <= Len(bus) + 1 PROVE \E f : Starts(f, bus, n + 1)
    OBVIOUS
  <2>1. PICK f : Starts(f, bus, n)
    BY <1>2
  <2> DEFINE v == IF n + 1 = 1 THEN 0 ELSE f[n] + bus[n].limbs + 1
             g == [k \in 1 .. n + 1 |-> IF k <= n THEN f[k] ELSE v]
  <2>2. ASSUME NEW k \in 1 .. n + 1
        PROVE  g[k] = IF k = 1 THEN 0 ELSE g[k-1] + bus[k-1].limbs + 1
    <3>1. CASE k <= n
      <4>1. f[k] = IF k = 1 THEN 0 ELSE f[k-1] + bus[k-1].limbs + 1
        BY <2>1, <3>1 DEF Starts
      <4> QED BY <3>1, <4>1
    <3>2. CASE k = n + 1
      BY <3>2
    <3> QED BY <3>1, <3>2
  <2> HIDE DEF v
  <2>3. Starts(g, bus, n + 1)
    BY <2>2 DEF Starts
  <2> QED BY <2>3
<1> HIDE DEF S
<1>3. Nat \subseteq S
  BY <1>1, <1>2, SetInduction
<1> QED BY <1>3 DEF S

LEMMA LimbsNat ==
  ASSUME NEW bus \in Seq(Number), NEW k \in 1 .. Len(bus)
  PROVE  bus[k].limbs \in Nat \ {0}
<1>1. bus[k] \in Number
  OBVIOUS
<1> QED BY <1>1 DEF Number

(* Each number starts behind the header and the limbs of the one before.   *)
LEMMA WordSteps ==
  ASSUME NEW bus \in Seq(Number)
  PROVE  /\ FirstWord(bus)[1] = 0
         /\ \A k \in 1 .. Len(bus) :
              FirstWord(bus)[k+1] = FirstWord(bus)[k] + bus[k].limbs + 1
<1>1. \E f : Starts(f, bus, Len(bus) + 1)
  BY StartsExist
<1>2. FirstWord(bus) = CHOOSE f : Starts(f, bus, Len(bus) + 1)
  BY Zenon DEF FirstWord, Starts
<1>3. Starts(FirstWord(bus), bus, Len(bus) + 1)
  BY <1>1, <1>2, Zenon
<1> DEFINE f == FirstWord(bus)
<1> HIDE DEF f
<1>4. \A k \in 1 .. Len(bus) + 1 : f[k] = IF k = 1 THEN 0 ELSE f[k-1] + bus[k-1].limbs + 1
  BY <1>3 DEF Starts, f
<1>5. f[1] = 0
  BY <1>4
<1>6. ASSUME NEW k \in 1 .. Len(bus) PROVE f[k+1] = f[k] + bus[k].limbs + 1
  <2>1. k + 1 \in 1 .. Len(bus) + 1 /\ k + 1 # 1 /\ (k + 1) - 1 = k
    OBVIOUS
  <2> QED BY <1>4, <2>1
<1> QED BY <1>5, <1>6 DEF f

LEMMA WordNat ==
  ASSUME NEW bus \in Seq(Number)
  PROVE  \A k \in 1 .. Len(bus) + 1 : FirstWord(bus)[k] \in Nat
<1> DEFINE f == FirstWord(bus)
           S == {n \in Nat : n + 1 <= Len(bus) + 1 => f[n+1] \in Nat}
<1>1. f[1] = 0 /\ \A k \in 1 .. Len(bus) : f[k+1] = f[k] + bus[k].limbs + 1
  BY WordSteps
<1> HIDE DEF f
<1>2. \A k \in 1 .. Len(bus) : bus[k].limbs \in Nat
  BY LimbsNat
<1>3. 0 \in S
  BY <1>1
<1>4. ASSUME NEW n \in Nat, n \in S PROVE n + 1 \in S
  BY <1>1, <1>2, <1>4
<1> HIDE DEF S
<1>5. Nat \subseteq S
  BY <1>3, <1>4, SetInduction
<1>6. ASSUME NEW k \in 1 .. Len(bus) + 1 PROVE f[k] \in Nat
  <2>1. k - 1 \in S
    BY <1>5
  <2> QED BY <2>1 DEF S
<1> QED BY <1>6 DEF f

(* A later number starts at a later word.                                  *)
LEMMA WordGrows ==
  ASSUME NEW bus \in Seq(Number), NEW j \in 1 .. Len(bus) + 1,
         NEW k \in 1 .. Len(bus) + 1, j < k
  PROVE  FirstWord(bus)[j] < FirstWord(bus)[k]
<1> DEFINE f == FirstWord(bus)
           S == {n \in Nat : j + n + 1 <= Len(bus) + 1 => f[j] < f[j+n+1]}
<1>1. \A l \in 1 .. Len(bus) : f[l+1] = f[l] + bus[l].limbs + 1
  BY WordSteps
<1>2. \A l \in 1 .. Len(bus) + 1 : f[l] \in Nat
  BY WordNat
<1> HIDE DEF f
<1>3. \A l \in 1 .. Len(bus) : f[l] < f[l+1]
  <2> SUFFICES ASSUME NEW l \in 1 .. Len(bus) PROVE f[l] < f[l+1]
    OBVIOUS
  <2>1. bus[l].limbs \in Nat \ {0} /\ f[l] \in Nat
    BY <1>2, LimbsNat
  <2> QED BY <1>1, <2>1
<1>4. 0 \in S
  BY <1>3
<1>5. ASSUME NEW n \in Nat, n \in S PROVE n + 1 \in S
  <2> SUFFICES ASSUME j + n + 2 <= Len(bus) + 1 PROVE f[j] < f[j+n+2]
    OBVIOUS
  <2>1. f[j] < f[j+n+1]
    BY <1>5
  <2>2. j+n+1 \in 1 .. Len(bus) /\ (j+n+1)+1 = j+n+2
    OBVIOUS
  <2>3. f[j+n+1] < f[j+n+2] /\ f[j+n+1] \in Nat /\ f[j+n+2] \in Nat /\ f[j] \in Nat
    BY <1>2, <1>3, <2>2
  <2> QED BY <2>1, <2>3
<1> HIDE DEF S
<1>6. k - j - 1 \in S
  BY <1>4, <1>5, SetInduction
<1> QED BY <1>6 DEF S, f

(* A counter that stands before number n takes number n and stands behind  *)
(* it.                                                                     *)
LEMMA TakesNext ==
  ASSUME NEW bus \in Seq(Number), NEW n \in 0 .. Len(bus),
         ReadError(bus, FirstWord(bus)[n+1]) = "none"
  PROVE  /\ n + 1 <= Len(bus)
         /\ ReadNumber(bus, FirstWord(bus)[n+1]) = bus[n+1]
         /\ Advance(bus, FirstWord(bus)[n+1]) = FirstWord(bus)[n+2]
<1> DEFINE f == FirstWord(bus)
<1>1. \A j, k \in 1 .. Len(bus) + 1 : j < k => f[j] < f[k]
  BY WordGrows
<1>2. \A k \in 1 .. Len(bus) + 1 : f[k] \in Nat
  BY WordNat
<1>3. f[Len(bus)+1] - f[n+1] >= 2
  BY <1>2 DEF ReadError
<1>4. \A k \in 1 .. Len(bus) : f[k+1] = f[k] + bus[k].limbs + 1
  BY WordSteps
<1>5. ReadNumber(bus, f[n+1]) = bus[CHOOSE k \in 1 .. Len(bus) : f[k] = f[n+1]]
  BY DEF ReadNumber
<1> HIDE DEF f
<1>6. n + 1 <= Len(bus)
  BY <1>2, <1>3
<1>7. \A k \in 1 .. Len(bus) : f[k] = f[n+1] => k = n + 1
  BY <1>1, <1>2, <1>6
<1>8. (CHOOSE k \in 1 .. Len(bus) : f[k] = f[n+1]) = n + 1
  BY <1>6, <1>7
<1>9. ReadNumber(bus, f[n+1]) = bus[n+1]
  BY <1>5, <1>8
<1>10. Advance(bus, f[n+1]) = f[n+2]
  BY <1>4, <1>6, <1>9 DEF Advance
<1> QED BY <1>6, <1>9, <1>10 DEF f

(* The bus counters stand behind the last number taken, also after the end *)
(* of the program.                                                         *)
Aligned == /\ loadsA \in 0 .. Len(busA) /\ busA_counter = FirstWord(busA)[loadsA + 1]
           /\ loadsB \in 0 .. Len(busB) /\ busB_counter = FirstWord(busB)[loadsB + 1]

LEMMA AlignedStep ==
  ASSUME TypeOK, Aligned, [Next]_vars
  PROVE  Aligned'
<1>1. busA \in Seq(Number) /\ busB \in Seq(Number)
  BY DEF TypeOK, FilesOK
<1>2. ASSUME UNCHANGED <<busA, busB>>,
             \/ UNCHANGED <<busA_counter, loadsA>>
             \/ /\ ReadError(busA, busA_counter) = "none"
                /\ busA_counter' = Advance(busA, busA_counter)
                /\ loadsA' = loadsA + 1,
             \/ UNCHANGED <<busB_counter, loadsB>>
             \/ /\ ReadError(busB, busB_counter) = "none"
                /\ busB_counter' = Advance(busB, busB_counter)
                /\ loadsB' = loadsB + 1
      PROVE  Aligned'
  <2>1. loadsA' \in 0 .. Len(busA) /\ busA_counter' = FirstWord(busA)[loadsA' + 1]
    BY <1>1, <1>2, TakesNext DEF Aligned
  <2>2. loadsB' \in 0 .. Len(busB) /\ busB_counter' = FirstWord(busB)[loadsB' + 1]
    BY <1>1, <1>2, TakesNext DEF Aligned
  <2> QED BY <1>2, <2>1, <2>2 DEF Aligned
<1>3. ASSUME NEW x \in Reg, NEW y \in Reg,
             Loaa(x) \/ Loab(x) \/ Loaab(x, y)
      PROVE  Aligned'
  BY <1>2, <1>3 DEF Loaa, Loab, Loaab, Keep, files
<1>4. ASSUME NEW x \in Reg, NEW y \in Reg, NEW z \in Reg, NEW op \in {"add", "sub"},
             \/ Unl(x) \/ Zero(x) \/ Set1(x) \/ Cprs(x, y) \/ Mult(x, y, z)
             \/ AddSub(op, x, y, z)
      PROVE  Aligned'
  BY <1>2, <1>4 DEF Unl, Zero, Set1, Cprs, Mult, AddSub, Keep, files, buses
<1>5. CASE LoadFault \/ DecodeFault \/ EndEmulation
  BY <1>2, <1>5 DEF LoadFault, DecodeFault, EndEmulation, Fail, files, buses
<1>6. CASE UNCHANGED vars
  BY <1>2, <1>6 DEF vars, files, buses
<1> QED BY <1>3, <1>4, <1>5, <1>6 DEF Next

(* After any sequence of loads, of numbers of any size, each bus counter   *)
(* stands exactly behind the last number taken (BusAligned).               *)
THEOREM CountersAligned == Spec => []BusAligned
<1>1. Init => Aligned
  <2> SUFFICES ASSUME Init PROVE Aligned
    OBVIOUS
  <2>1. /\ busA \in Seq(Number) /\ busB \in Seq(Number)
        /\ FirstWord(busA)[1] = 0 /\ FirstWord(busB)[1] = 0
    BY EmulatorAssumption, WordSteps DEF Init
  <2> QED BY <2>1 DEF Init, Aligned
<1>2. TypeOK /\ Aligned /\ [Next]_vars => Aligned'
  BY AlignedStep
<1>3. Aligned => BusAligned
  BY DEF Aligned, BusAligned
<1> QED BY <1>1, <1>2, <1>3, TypeCorrect, PTL DEF Spec
=============================================================================
