-------------------------- MODULE TimeMakerProofs --------------------------
(***************************************************************************)
(* Proofs about TimeMaker for any registers, operand sizes and time bound. *)
(***************************************************************************)
EXTENDS TimeMaker, WellFoundedInduction, TLAPS

Claimable  == Reg \cup Unit \cup {"route"}
Occupation == [Claimable -> Nat]

(* Registers, units and routes are different things.                       *)
LEMMA ResourceKinds ==
  /\ "route0" \in Resource /\ "route1" \in Resource
  /\ "route0" \in Route /\ "route1" \in Route
  /\ \A r \in Resource \ Route : r \in Claimable /\ r # "route"
  /\ \A r \in Claimable \ {"route"} : r \in Resource \ Route
  /\ Unit \cup Reg \cup {"route"} = Claimable
  /\ Unit \cap Route = {} /\ "route" \notin Unit
BY TimeMakerAssumption DEF Resource, Route, Claimable, Unit

(* What an instruction occupies is a number of clocks for each resource.   *)
LEMMA OccupiesType ==
  ASSUME NEW opcode, NEW regA \in Reg, NEW regB \in Reg, NEW regC \in Reg,
         NEW limbA \in Nat, NEW limbB \in Nat
  PROVE  Occupies(opcode, regA, limbA, regB, limbB, regC) \in Occupation
<1>1. limbA * limbB \in Nat
  OBVIOUS
<1>2. /\ regA \in Claimable /\ regB \in Claimable /\ regC \in Claimable
      /\ Idle \in Occupation
      /\ {"load_A", "load_B", "dma_unload", "route", "dma_mult", "multiplier",
          "dma_add_sub", "adder"} \subseteq Claimable
  BY DEF Claimable, Idle, Occupation, Unit
<1>3. greater(limbA, limbB) \in Nat
  BY DEF greater
<1>4. ASSUME NEW f \in Occupation, NEW r \in Claimable, NEW n \in Nat
      PROVE  [f EXCEPT ![r] = n] \in Occupation
  BY DEF Occupation
<1> DEFINE product == limbA * limbB
           larger == greater(limbA, limbB)
<1>5. product \in Nat /\ larger \in Nat
  BY <1>1, <1>3
<1> HIDE DEF product, larger
<1>6. /\ LOAD_PRE + limbA \in Nat /\ LOAD_PRE + limbA + LOAD_POST \in Nat
      /\ LOAD_PRE + limbB \in Nat /\ LOAD_PRE + limbB + LOAD_POST \in Nat
      /\ UNLOAD_PRE + limbA \in Nat /\ UNLOAD_PRE + limbA + UNLOAD_POST \in Nat
      /\ MULT_PRE + product \in Nat /\ MULT_PRE + product + MULT_POST \in Nat
      /\ ADD_SUB_PRE + larger \in Nat /\ ADD_SUB_PRE + larger + ADD_SUB_POST \in Nat
  BY <1>5 DEF LOAD_PRE, LOAD_POST, UNLOAD_PRE, UNLOAD_POST, MULT_PRE, MULT_POST,
              ADD_SUB_PRE, ADD_SUB_POST
<1>7. QED
  BY <1>2, <1>4, <1>6, Zenon DEF Occupies, product, larger

(* Issuing an instruction keeps the types of the countdowns and clocks.    *)
LEMMA IssueType ==
  ASSUME TypeOK, NEW occupied \in Occupation, exec_cmd(occupied)
  PROVE  /\ timer' \in [Resource -> Nat]
         /\ execution_time' \in Nat
         /\ until' \in [Resource -> Nat]
<1>1. PICK wait \in {0} \cup {timer[r] : r \in Resource} :
        LET clk   == STD_CTRL_DELAY + wait
            left  == Spent(clk)
            extra == Extra(occupied, left)
        IN  /\ timer' = [r \in Resource |-> left[r] + extra[r]]
            /\ execution_time' = execution_time + clk
            /\ until' = [r \in Resource |-> IF extra[r] = 0 THEN until[r]
                                            ELSE execution_time' + extra[r]]
  BY DEF exec_cmd
<1> DEFINE clk   == STD_CTRL_DELAY + wait
           left  == Spent(clk)
           extra == Extra(occupied, left)
<1>2. wait \in Nat /\ clk \in Nat
  BY DEF TypeOK, STD_CTRL_DELAY
<1> HIDE DEF clk
<1>3. \A r \in Resource : left[r] \in Nat
  BY <1>2 DEF Spent, use_resource, TypeOK
<1>4. \A r \in Resource : extra[r] \in Nat
  BY ResourceKinds DEF Extra, Occupation
<1> HIDE DEF left, extra
<1>5. QED
  BY <1>1, <1>2, <1>3, <1>4 DEF TypeOK, clk, left, extra

(* What is occupied anew was free at the time of issue, and what is not is *)
(* counted down.                                                           *)
LEMMA IssueStep ==
  ASSUME TypeOK, Remainder, NEW occupied \in Occupation, exec_cmd(occupied)
  PROVE  Remainder' /\ NoOverlapStep
<1>1. PICK wait \in {0} \cup {timer[r] : r \in Resource} :
        LET clk   == STD_CTRL_DELAY + wait
            left  == Spent(clk)
            extra == Extra(occupied, left)
        IN  /\ IsJump(wait, Needed(occupied))
            /\ timer' = [r \in Resource |-> left[r] + extra[r]]
            /\ execution_time' = execution_time + clk
            /\ until' = [r \in Resource |-> IF extra[r] = 0 THEN until[r]
                                            ELSE execution_time' + extra[r]]
  BY DEF exec_cmd
<1> DEFINE clk   == STD_CTRL_DELAY + wait
           left  == Spent(clk)
           extra == Extra(occupied, left)
<1>2. wait \in Nat /\ clk \in Nat /\ wait < clk
  BY DEF TypeOK, STD_CTRL_DELAY
<1> HIDE DEF clk
<1>3. \A r \in Resource : left[r] = use_resource(timer[r], clk)
  BY DEF Spent
<1>4. \A r \in Resource : timer[r] \in Nat /\ until[r] \in Nat
  BY DEF TypeOK
<1>5. \A r \in Resource : extra[r] \in Nat
  BY ResourceKinds DEF Extra, Occupation
<1>6. ASSUME NEW r \in Resource, extra[r] # 0
      PROVE  left[r] = 0
  <2>1. CASE r \notin Route
    <3>1. extra[r] = occupied[r] /\ r \in Claimable /\ r # "route"
      BY <2>1, ResourceKinds DEF Extra
    <3>2. r \in Needed(occupied)
      BY <1>5, <1>6, <3>1, ResourceKinds DEF Needed, Occupation, Claimable
    <3>3. timer[r] <= wait
      BY <1>1, <3>1, <3>2 DEF IsJump, Countdown
    <3>4. QED
      BY <1>2, <1>3, <1>4, <3>3 DEF use_resource
  <2>2. CASE r \in Route
    <3>1. r = ChosenRoute(left) /\ extra[r] = occupied["route"]
      BY <1>6, <2>2 DEF Extra
    <3>2. "route" \in Needed(occupied)
      BY <1>5, <1>6, <3>1 DEF Needed
    <3>3. less_than(timer["route0"], timer["route1"]) <= wait
      BY <1>1, <3>2 DEF IsJump, Countdown
    <3>4. CASE left["route0"] = 0
      BY <3>1, <3>4 DEF ChosenRoute
    <3>5. CASE left["route0"] # 0
      <4>1. timer["route0"] > clk
        BY <1>3, <3>5, ResourceKinds DEF use_resource
      <4>2. timer["route1"] <= wait
        BY <1>2, <1>4, <3>3, <4>1, ResourceKinds DEF less_than
      <4>3. left["route1"] = 0
        BY <1>2, <1>3, <1>4, <4>2, ResourceKinds DEF use_resource
      <4>4. QED
        BY <3>1, <3>5, <4>3 DEF ChosenRoute
    <3>6. QED
      BY <3>4, <3>5
  <2>3. QED
    BY <2>1, <2>2
<1> HIDE DEF left, extra
<1>7. /\ execution_time \in Nat /\ execution_time' = execution_time + clk
      /\ \A r \in Resource :
           /\ timer'[r] = left[r] + extra[r]
           /\ until'[r] = IF extra[r] = 0 THEN until[r] ELSE execution_time' + extra[r]
  BY <1>1 DEF TypeOK, clk, left, extra
<1>8. \A r \in Resource : timer[r] = use_resource(until[r], execution_time)
  BY DEF Remainder
<1>9. ASSUME NEW r \in Resource
      PROVE  /\ timer'[r] = use_resource(until'[r], execution_time')
             /\ until'[r] # until[r] => until[r] <= execution_time'
  <2>1. left[r] = use_resource(until[r], execution_time')
    BY <1>2, <1>3, <1>4, <1>7, <1>8 DEF use_resource
  <2>2. CASE extra[r] = 0
    <3>1. timer'[r] = left[r] /\ until'[r] = until[r]
      BY <1>2, <1>3, <1>4, <1>7, <2>2 DEF use_resource
    <3>2. QED
      BY <2>1, <3>1
  <2>3. CASE extra[r] # 0
    <3>1. left[r] = 0 /\ until'[r] = execution_time' + extra[r] /\ timer'[r] = extra[r]
      BY <1>5, <1>6, <1>7, <2>3
    <3>2. QED
      BY <1>2, <1>4, <1>5, <1>7, <2>1, <2>3, <3>1 DEF use_resource
  <2>4. QED
    BY <2>2, <2>3
<1>10. QED
  BY <1>9 DEF Remainder, NoOverlapStep

(* Every step issues one instruction.                                      *)
LEMMA NextIssues ==
  ASSUME Next
  PROVE  \E occupied \in Occupation : exec_cmd(occupied)
<1> USE TimeMakerAssumption, OccupiesType
<1>1. ASSUME NEW x \in Reg, NEW s \in Sizes, Loaa(x, s) \/ Loab(x, s) \/ Unl(x, s)
      PROVE  \E occupied \in Occupation : exec_cmd(occupied)
  BY <1>1 DEF Loaa, Loab, Unl
<1>2. ASSUME Untimed PROVE \E occupied \in Occupation : exec_cmd(occupied)
  BY <1>2 DEF Untimed, Idle, Occupation, Claimable
<1>3. ASSUME NEW x \in Reg, NEW y \in Reg, NEW s \in Sizes, NEW t \in Sizes,
             Loaab(x, s, y, t)
      PROVE  \E occupied \in Occupation : exec_cmd(occupied)
  BY <1>3 DEF Loaab
<1>4. ASSUME NEW x \in Reg, NEW y \in Reg, NEW z \in Reg,
             NEW s \in Sizes, NEW t \in Sizes,
             Mult(x, s, y, t, z) \/ AddSub(x, s, y, t, z)
      PROVE  \E occupied \in Occupation : exec_cmd(occupied)
  BY <1>4 DEF Mult, AddSub
<1>5. QED
  BY <1>1, <1>2, <1>3, <1>4 DEF Next

(* A clock of a register that moves to a later time stays a clock.         *)
LEMMA AfterType ==
  ASSUME NEW clock \in [Reg -> Nat], NEW x \in Reg, NEW n \in Nat,
         execution_time' \in Nat
  PROVE  After(clock, x, n) \in [Reg -> Nat]
<1>1. PICK now \in Nat : now = execution_time'
  OBVIOUS
<1>2. clock[x] \in Nat /\ now + n \in Nat
  OBVIOUS
<1>3. greater(clock[x], now + n) \in Nat
  BY <1>2 DEF greater
<1>4. QED
  BY <1>1, <1>3 DEF After

LEMMA TypeStep == TypeOK /\ [Next]_vars => TypeOK'
<1> SUFFICES ASSUME TypeOK, Next PROVE TypeOK'
  BY DEF TypeOK, vars
<1>1. PICK occupied \in Occupation : exec_cmd(occupied)
  BY NextIssues
<1>2. /\ timer' \in [Resource -> Nat] /\ execution_time' \in Nat
      /\ until' \in [Resource -> Nat]
  BY <1>1, IssueType
<1>3. written \in [Reg -> Nat] /\ loaded \in [Reg -> Nat]
  BY DEF TypeOK
<1>4. ASSUME NEW x \in Reg, NEW y \in Reg, NEW s \in Nat, NEW t \in Nat
      PROVE  /\ LOAD_PRE + s \in Nat
             /\ MULT_PRE + s * t + MULT_POST \in Nat
             /\ ADD_SUB_PRE + greater(s, t) + ADD_SUB_POST \in Nat
  <2>1. s * t \in Nat /\ greater(s, t) \in Nat
    BY DEF greater
  <2>2. QED
    BY <2>1 DEF LOAD_PRE, MULT_PRE, MULT_POST, ADD_SUB_PRE, ADD_SUB_POST
<1>5. written' \in [Reg -> Nat] /\ loaded' \in [Reg -> Nat]
  <2>1. ASSUME NEW x \in Reg, NEW n \in Nat
        PROVE  /\ After(written, x, n) \in [Reg -> Nat]
               /\ After(loaded, x, n) \in [Reg -> Nat]
               /\ \A y \in Reg, m \in Nat :
                    After(After(written, x, n), y, m) \in [Reg -> Nat]
    BY <1>2, <1>3, AfterType
  <2>2. Sizes \subseteq Nat
    BY TimeMakerAssumption
  <2>3. ASSUME NEW x \in Reg, NEW s \in Sizes, Loaa(x, s)
        PROVE  written' \in [Reg -> Nat] /\ loaded' \in [Reg -> Nat]
    BY <1>3, <1>4, <2>1, <2>2, <2>3 DEF Loaa
  <2>4. ASSUME NEW x \in Reg, NEW s \in Sizes, Loab(x, s)
        PROVE  written' \in [Reg -> Nat] /\ loaded' \in [Reg -> Nat]
    BY <1>3, <1>4, <2>1, <2>2, <2>4 DEF Loab
  <2>5. ASSUME NEW x \in Reg, NEW s \in Sizes, Unl(x, s)
        PROVE  written' \in [Reg -> Nat] /\ loaded' \in [Reg -> Nat]
    BY <1>3, <2>5 DEF Unl
  <2>6. ASSUME Untimed
        PROVE  written' \in [Reg -> Nat] /\ loaded' \in [Reg -> Nat]
    BY <1>3, <2>6 DEF Untimed
  <2>7. ASSUME NEW x \in Reg, NEW y \in Reg, NEW s \in Sizes, NEW t \in Sizes,
               Loaab(x, s, y, t)
        PROVE  written' \in [Reg -> Nat] /\ loaded' \in [Reg -> Nat]
    BY <1>3, <1>4, <2>1, <2>2, <2>7 DEF Loaab
  <2>8. ASSUME NEW x \in Reg, NEW y \in Reg, NEW z \in Reg,
               NEW s \in Sizes, NEW t \in Sizes, Mult(x, s, y, t, z)
        PROVE  written' \in [Reg -> Nat] /\ loaded' \in [Reg -> Nat]
    BY <1>3, <1>4, <2>1, <2>2, <2>8 DEF Mult
  <2>9. ASSUME NEW x \in Reg, NEW y \in Reg, NEW z \in Reg,
               NEW s \in Sizes, NEW t \in Sizes, AddSub(x, s, y, t, z)
        PROVE  written' \in [Reg -> Nat] /\ loaded' \in [Reg -> Nat]
    BY <1>3, <1>4, <2>1, <2>2, <2>9 DEF AddSub
  <2>10. QED
    BY <2>3, <2>4, <2>5, <2>6, <2>7, <2>8, <2>9 DEF Next
<1>6. QED
  BY <1>2, <1>5 DEF TypeOK

(* Type correctness of the timing model.                                   *)
THEOREM TypeCorrect == Spec => []TypeOK
<1>1. Init => TypeOK
  BY TimeMakerAssumption DEF Init, TypeOK
<1>2. QED
  BY <1>1, TypeStep, PTL DEF Spec

-----------------------------------------------------------------------------
(* One step: the countdowns stay the remainders, and nothing is taken early.*)
LEMMA RemainderStep ==
  TypeOK /\ Remainder /\ [Next]_vars => Remainder' /\ [NoOverlapStep]_vars
<1> SUFFICES ASSUME TypeOK, Remainder, [Next]_vars
             PROVE  Remainder' /\ [NoOverlapStep]_vars
  OBVIOUS
<1>1. CASE Next
  <2>1. PICK occupied \in Occupation : exec_cmd(occupied)
    BY <1>1, NextIssues
  <2>2. QED
    BY <2>1, IssueStep
<1>2. CASE UNCHANGED vars
  BY <1>2 DEF vars, Remainder, use_resource
<1>3. QED
  BY <1>1, <1>2

(* The countdowns are the remainders of the absolute reservations.         *)
THEOREM CountdownsAreRemainders == Spec => []Remainder
<1>1. Init => Remainder
  <2>1. use_resource(0, 0) = 0
    BY DEF use_resource
  <2>2. QED
    BY <2>1 DEF Init, Remainder
<1>2. QED
  BY <1>1, RemainderStep, TypeCorrect, PTL DEF Spec

(* No register, unit or route is ever given away before it is released.    *)
THEOREM NothingOverlaps == Spec => NoOverlap
BY RemainderStep, TypeCorrect, CountdownsAreRemainders, PTL DEF Spec, NoOverlap

-----------------------------------------------------------------------------
(* The strengthening: a register is reserved until its value is complete.  *)
WrittenCovered == \A r \in Reg : written[r] <= until[r]

(* How one instruction moves the reservation of a register.                *)
LEMMA RegisterReservation ==
  ASSUME TypeOK, Remainder, NEW occupied \in Occupation, exec_cmd(occupied),
         NEW r \in Reg
  PROVE  /\ until'[r] = IF occupied[r] = 0 THEN until[r]
                        ELSE execution_time' + occupied[r]
         /\ until[r] <= until'[r]
<1>1. r \in Resource /\ r \notin Route
  BY TimeMakerAssumption DEF Resource
<1>2. until'[r] = IF occupied[r] = 0 THEN until[r] ELSE execution_time' + occupied[r]
  BY <1>1 DEF exec_cmd, Extra
<1>3. NoOverlapStep
  BY IssueStep
<1>4. until[r] \in Nat /\ until'[r] \in Nat /\ execution_time' \in Nat
  BY <1>1, IssueType DEF TypeOK
<1>5. occupied[r] \in Nat
  BY DEF Occupation, Claimable
<1>6. QED
  BY <1>1, <1>2, <1>3, <1>4, <1>5 DEF NoOverlapStep

(* What completes within the new reservation of a register is covered.     *)
LEMMA CoveredByReservation ==
  ASSUME TypeOK, Remainder, WrittenCovered,
         NEW occupied \in Occupation, exec_cmd(occupied),
         \A r \in Reg : \/ written'[r] = written[r]
                        \/ \E n \in Nat \ {0} : /\ n <= occupied[r]
                                                /\ written'[r] = execution_time' + n
  PROVE  WrittenCovered'
<1>1. ASSUME NEW r \in Reg PROVE written'[r] <= until'[r]
  <2>1. /\ written[r] \in Nat /\ until[r] \in Nat /\ until'[r] \in Nat
        /\ occupied[r] \in Nat
    BY IssueType DEF TypeOK, Resource, Occupation, Claimable
  <2>2. PICK now \in Nat : now = execution_time'
    BY IssueType
  <2>3. /\ written[r] <= until[r] /\ until[r] <= until'[r]
        /\ until'[r] = IF occupied[r] = 0 THEN until[r] ELSE now + occupied[r]
    BY <2>2, RegisterReservation DEF WrittenCovered
  <2>4. CASE written'[r] = written[r]
    BY <2>1, <2>3, <2>4
  <2>5. ASSUME NEW n \in Nat \ {0}, n <= occupied[r], written'[r] = now + n
        PROVE  written'[r] <= until'[r]
    BY <2>1, <2>3, <2>5
  <2>6. QED
    BY <2>2, <2>4, <2>5
<1>2. QED
  BY <1>1 DEF WrittenCovered

(* After moves the clock of one register, if at all, to the given time.    *)
LEMMA AfterCases ==
  ASSUME NEW clock \in [Reg -> Nat], NEW x \in Reg, NEW n \in Nat, NEW r \in Reg
  PROVE  \/ After(clock, x, n)[r] = clock[r]
         \/ r = x /\ After(clock, x, n)[r] = execution_time' + n
BY DEF After, greater

(* What the instructions that write a register reserve it for.             *)
LEMMA Reservations ==
  ASSUME NEW x \in Reg, NEW y \in Reg, NEW z \in Reg, NEW s \in Nat, NEW t \in Nat
  PROVE  /\ Occupies("loaa", x, s, Reg0, 0, Reg0)[x] = LOAD_PRE + s
         /\ Occupies("mult", x, s, y, t, z)[z] = MULT_PRE + s * t + MULT_POST
         /\ Occupies("add", x, s, y, t, z)[z]
              = ADD_SUB_PRE + greater(s, t) + ADD_SUB_POST
         /\ Occupies("loaab", x, s, y, t, Reg0)[y] = LOAD_PRE + t + LOAD_POST
         /\ (x = y => s = t) =>
              Occupies("loaab", x, s, y, t, Reg0)[x] = LOAD_PRE + s + LOAD_POST
<1>1. /\ x \in Claimable /\ y \in Claimable /\ z \in Claimable
      /\ Idle \in Occupation
      /\ \A r \in Reg : r \notin {"route", "load_A", "load_B", "dma_mult",
                                  "multiplier", "dma_add_sub", "adder"}
  BY TimeMakerAssumption DEF Claimable, Idle, Occupation, Unit
<1> USE <1>1 DEF Occupation
<1>2. Occupies("loaa", x, s, Reg0, 0, Reg0)[x] = LOAD_PRE + s
  BY DEF Occupies
<1>3. Occupies("mult", x, s, y, t, z)[z] = MULT_PRE + s * t + MULT_POST
  BY DEF Occupies
<1>4. Occupies("add", x, s, y, t, z)[z] = ADD_SUB_PRE + greater(s, t) + ADD_SUB_POST
  BY DEF Occupies
<1>5. Occupies("loaab", x, s, y, t, Reg0)[y] = LOAD_PRE + t + LOAD_POST
  BY DEF Occupies
<1>6. (x = y => s = t) =>
        Occupies("loaab", x, s, y, t, Reg0)[x] = LOAD_PRE + s + LOAD_POST
  BY DEF Occupies
<1>7. QED
  BY <1>2, <1>3, <1>4, <1>5, <1>6

LEMMA CoveredStep ==
  TypeOK /\ Remainder /\ WrittenCovered /\ [Next]_vars => WrittenCovered'
<1> SUFFICES ASSUME TypeOK, Remainder, WrittenCovered, [Next]_vars
             PROVE  WrittenCovered'
  OBVIOUS
<1>1. Sizes \subseteq Nat /\ Reg0 \in Reg
  BY TimeMakerAssumption
<1>2. written \in [Reg -> Nat]
  BY DEF TypeOK
<1>3. ASSUME written' = written PROVE WrittenCovered'
  <2>1. CASE Next
    <3>1. PICK occupied \in Occupation : exec_cmd(occupied)
      BY <2>1, NextIssues
    <3>2. QED
      BY <1>3, <3>1, CoveredByReservation
  <2>2. CASE UNCHANGED vars
    BY <2>2 DEF vars, WrittenCovered
  <2>3. QED
    BY <2>1, <2>2
<1>4. ASSUME NEW occupied \in Occupation, exec_cmd(occupied),
             NEW x \in Reg, NEW n \in Nat \ {0}, n <= occupied[x],
             written' = After(written, x, n)
      PROVE  WrittenCovered'
  <2>1. \A r \in Reg : \/ written'[r] = written[r]
                       \/ r = x /\ written'[r] = execution_time' + n
    BY <1>2, <1>4, AfterCases
  <2>2. QED
    BY <1>4, <2>1, CoveredByReservation
<1>5. ASSUME NEW x \in Reg, NEW s \in Sizes, Loaa(x, s) PROVE WrittenCovered'
  <2> DEFINE occupied == Occupies("loaa", x, s, Reg0, 0, Reg0)
             n == LOAD_PRE + s
  <2>1. occupied \in Occupation
    BY <1>1, OccupiesType
  <2>2. n \in Nat \ {0} /\ occupied[x] = n
    BY <1>1, Reservations DEF LOAD_PRE
  <2>3. exec_cmd(occupied) /\ written' = After(written, x, n)
    BY <1>5 DEF Loaa
  <2> HIDE DEF occupied, n
  <2>4. QED
    BY <1>4, <2>1, <2>2, <2>3
<1>6. ASSUME NEW x \in Reg, NEW y \in Reg, NEW z \in Reg,
             NEW s \in Sizes, NEW t \in Sizes, Mult(x, s, y, t, z)
      PROVE  WrittenCovered'
  <2> DEFINE occupied == Occupies("mult", x, s, y, t, z)
             n == MULT_PRE + s * t + MULT_POST
  <2>1. occupied \in Occupation
    BY <1>1, OccupiesType
  <2>2. n \in Nat \ {0} /\ occupied[z] = n
    <3>1. PICK product \in Nat : product = s * t
      BY <1>1
    <3>2. n \in Nat \ {0}
      BY <3>1 DEF MULT_PRE, MULT_POST
    <3>3. occupied[z] = n
      BY <1>1, Reservations
    <3>4. QED
      BY <3>2, <3>3
  <2>3. exec_cmd(occupied) /\ written' = After(written, z, n)
    BY <1>6 DEF Mult
  <2> HIDE DEF occupied, n
  <2>4. QED
    BY <1>4, <2>1, <2>2, <2>3
<1>7. ASSUME NEW x \in Reg, NEW y \in Reg, NEW z \in Reg,
             NEW s \in Sizes, NEW t \in Sizes, AddSub(x, s, y, t, z)
      PROVE  WrittenCovered'
  <2> DEFINE occupied == Occupies("add", x, s, y, t, z)
             n == ADD_SUB_PRE + greater(s, t) + ADD_SUB_POST
  <2>1. occupied \in Occupation
    BY <1>1, OccupiesType
  <2>2. n \in Nat \ {0} /\ occupied[z] = n
    <3>1. PICK larger \in Nat : larger = greater(s, t)
      BY <1>1 DEF greater
    <3>2. n \in Nat \ {0}
      BY <3>1 DEF ADD_SUB_PRE, ADD_SUB_POST
    <3>3. occupied[z] = n
      BY <1>1, Reservations
    <3>4. QED
      BY <3>2, <3>3
  <2>3. exec_cmd(occupied) /\ written' = After(written, z, n)
    BY <1>7 DEF AddSub
  <2> HIDE DEF occupied, n
  <2>4. QED
    BY <1>4, <2>1, <2>2, <2>3
<1>8. ASSUME NEW x \in Reg, NEW y \in Reg, NEW s \in Sizes, NEW t \in Sizes,
             Loaab(x, s, y, t)
      PROVE  WrittenCovered'
  <2> DEFINE occupied == Occupies("loaab", x, s, y, t, Reg0)
             n == LOAD_PRE + s
             m == LOAD_PRE + t
  <2>1. occupied \in Occupation /\ exec_cmd(occupied)
    BY <1>1, <1>8, OccupiesType DEF Loaab
  <2>2. /\ n \in Nat \ {0} /\ m \in Nat \ {0}
        /\ n <= occupied[x] /\ m <= occupied[y]
    <3>1. occupied[x] = n + LOAD_POST /\ occupied[y] = m + LOAD_POST
      BY <1>1, <1>8, Reservations DEF Loaab
    <3>2. QED
      BY <1>1, <3>1 DEF LOAD_PRE, LOAD_POST
  <2>3. written' = After(After(written, x, n), y, m)
    BY <1>8 DEF Loaab
  <2> HIDE DEF occupied, n, m
  <2>4. After(written, x, n) \in [Reg -> Nat]
    BY <1>2, <2>1, <2>2, IssueType, AfterType
  <2>5. \A r \in Reg : \/ written'[r] = written[r]
                       \/ r = x /\ written'[r] = execution_time' + n
                       \/ r = y /\ written'[r] = execution_time' + m
    BY <1>2, <2>2, <2>3, <2>4, AfterCases
  <2>6. QED
    BY <2>1, <2>2, <2>5, CoveredByReservation
<1>9. ASSUME NEW x \in Reg, NEW s \in Sizes, Loab(x, s) \/ Unl(x, s)
      PROVE  WrittenCovered'
  BY <1>3, <1>9 DEF Loab, Unl
<1>10. ASSUME Untimed PROVE WrittenCovered'
  BY <1>3, <1>10 DEF Untimed
<1>11. CASE UNCHANGED vars
  BY <1>3, <1>11 DEF vars
<1>12. QED
  BY <1>5, <1>6, <1>7, <1>8, <1>9, <1>10, <1>11 DEF Next

LEMMA CoveredInit == Init => WrittenCovered
<1>1. Init => \A r \in Reg : written[r] = 0 /\ until[r] = 0
  BY DEF Init, Resource
<1>2. 0 <= 0
  OBVIOUS
<1>3. QED
  BY <1>1, <1>2 DEF WrittenCovered

(* No instruction occupies a register before its producer has delivered.   *)
THEOREM ResultsAlwaysReady == Spec => ResultsReady
<1>1. Init => WrittenCovered
  BY CoveredInit
<1>2. TypeOK /\ TypeOK' /\ WrittenCovered /\ [NoOverlapStep]_vars
        => [ResultsReadyStep]_vars
  <2> SUFFICES ASSUME TypeOK, TypeOK', WrittenCovered, NoOverlapStep,
                      NEW r \in Reg, until'[r] # until[r]
               PROVE  written[r] <= execution_time'
    BY DEF ResultsReadyStep
  <2>1. written[r] \in Nat /\ until[r] \in Nat /\ execution_time' \in Nat
    BY DEF TypeOK, Resource
  <2>2. written[r] <= until[r] /\ until[r] <= execution_time'
    BY DEF WrittenCovered, NoOverlapStep, Resource
  <2>3. QED
    BY <2>1, <2>2
<1>3. QED
  BY <1>1, <1>2, CoveredStep, RemainderStep, TypeCorrect,
     CountdownsAreRemainders, PTL DEF Spec, ResultsReady

-----------------------------------------------------------------------------
(* The total.  time_to_termination is a maximum, which exists because an   *)
(* instruction adds a bounded number of clocks to any countdown.           *)

Bounded == \E b \in Nat : \A r \in Resource : timer[r] <= b

(* A set of natural numbers with a bound has a greatest element: there is  *)
(* a least bound, and one less would not be a bound.                       *)
LEMMA GreatestExists ==
  ASSUME NEW S \in SUBSET Nat, S # {}, NEW b \in Nat, \A t \in S : t <= b
  PROVE  \E t \in S : \A u \in S : u <= t
<1> DEFINE Bounds == {c \in Nat : \A t \in S : t <= c}
<1>1. PICK c \in Bounds : \A d \in Bounds : ~(<<d, c>> \in OpToRel(<, Nat))
  BY NatLessThanWellFounded, WFMin, b \in Bounds, Bounds \subseteq Nat
<1>2. /\ c \in Nat /\ \A t \in S : t \in Nat /\ t <= c
      /\ \A d \in Nat : (\A t \in S : t <= d) => ~(d < c)
  BY <1>1 DEF OpToRel
<1> HIDE DEF Bounds
<1>3. c \in S
  <2> SUFFICES ASSUME c \notin S PROVE FALSE
    OBVIOUS
  <2>1. \A t \in S : t <= c - 1
    BY <1>2
  <2>2. PICK t \in S : t \in Nat /\ t <= c - 1
    BY <1>2, <2>1
  <2>3. c - 1 \in Nat
    BY <1>2, <2>2
  <2> QED BY <1>2, <2>1, <2>3
<1> QED BY <1>2, <1>3

(* What an instruction occupies is bounded by a number that depends on its *)
(* operands only.                                                          *)
LEMMA OccupiesBounded ==
  ASSUME NEW opcode, NEW regA \in Reg, NEW regB \in Reg, NEW regC \in Reg,
         NEW limbA \in Nat, NEW limbB \in Nat
  PROVE  \E b \in Nat : \A r \in Claimable :
           Occupies(opcode, regA, limbA, regB, limbB, regC)[r] <= b
<1> DEFINE product == limbA * limbB
           larger == greater(limbA, limbB)
           b == 20 + limbA + limbB + product
<1>1. product \in Nat /\ larger \in Nat /\ larger <= limbA + limbB
  BY DEF greater
<1> HIDE DEF product, larger
<1>2. b \in Nat
  BY <1>1
<1>3. /\ LOAD_PRE + limbA \in 0 .. b /\ LOAD_PRE + limbA + LOAD_POST \in 0 .. b
      /\ LOAD_PRE + limbB \in 0 .. b /\ LOAD_PRE + limbB + LOAD_POST \in 0 .. b
      /\ UNLOAD_PRE + limbA \in 0 .. b /\ UNLOAD_PRE + limbA + UNLOAD_POST \in 0 .. b
      /\ MULT_PRE + product \in 0 .. b /\ MULT_PRE + product + MULT_POST \in 0 .. b
      /\ ADD_SUB_PRE + larger \in 0 .. b /\ ADD_SUB_PRE + larger + ADD_SUB_POST \in 0 .. b
  BY <1>1 DEF LOAD_PRE, LOAD_POST, UNLOAD_PRE, UNLOAD_POST, MULT_PRE, MULT_POST,
              ADD_SUB_PRE, ADD_SUB_POST
<1>4. Idle \in [Claimable -> 0 .. b]
  BY <1>2 DEF Idle, Claimable
<1> HIDE DEF b
<1>5. ASSUME NEW f \in [Claimable -> 0 .. b], NEW r, NEW m \in 0 .. b
      PROVE  [f EXCEPT ![r] = m] \in [Claimable -> 0 .. b]
  OBVIOUS
<1>6. Occupies(opcode, regA, limbA, regB, limbB, regC) \in [Claimable -> 0 .. b]
  BY <1>3, <1>4, <1>5, Zenon DEF Occupies, product, larger
<1> QED BY <1>2, <1>6

(* An instruction whose occupation is bounded keeps the countdowns bounded.*)
LEMMA BoundedIssue ==
  ASSUME TypeOK, Bounded, NEW occupied \in Occupation, exec_cmd(occupied),
         NEW b \in Nat, \A r \in Claimable : occupied[r] <= b
  PROVE  Bounded'
<1>1. PICK wait \in {0} \cup {timer[r] : r \in Resource} :
        timer' = [r \in Resource |->
                    Spent(STD_CTRL_DELAY + wait)[r]
                      + Extra(occupied, Spent(STD_CTRL_DELAY + wait))[r]]
  BY DEF exec_cmd
<1> DEFINE clk == STD_CTRL_DELAY + wait
           extra == Extra(occupied, Spent(clk))
<1>2. clk \in Nat
  BY DEF TypeOK, STD_CTRL_DELAY
<1> HIDE DEF clk
<1>3. PICK a \in Nat : \A r \in Resource : timer[r] <= a
  BY DEF Bounded
<1>4. \A r \in Resource : Spent(clk)[r] \in Nat /\ Spent(clk)[r] <= a
  BY <1>2, <1>3 DEF Spent, use_resource, TypeOK
<1>5. \A r \in Resource : extra[r] \in Nat /\ extra[r] <= b
  BY ResourceKinds DEF Extra, Occupation, Claimable
<1> HIDE DEF extra
<1>6. \A r \in Resource : timer'[r] <= a + b
  BY <1>1, <1>4, <1>5 DEF clk, extra
<1>7. a + b \in Nat
  OBVIOUS
<1> QED BY <1>6, <1>7 DEF Bounded

LEMMA BoundedStep == TypeOK /\ Bounded /\ [Next]_vars => Bounded'
<1> SUFFICES ASSUME TypeOK, Bounded, [Next]_vars PROVE Bounded'
  OBVIOUS
<1>1. CASE UNCHANGED vars
  BY <1>1 DEF vars, Bounded
<1>2. ASSUME NEW opcode, NEW x \in Reg, NEW y \in Reg, NEW z \in Reg,
             NEW s \in Nat, NEW t \in Nat, exec_cmd(Occupies(opcode, x, s, y, t, z))
      PROVE  Bounded'
  BY <1>2, OccupiesBounded, OccupiesType, BoundedIssue
<1> USE <1>2, TimeMakerAssumption
<1>3. ASSUME NEW x \in Reg, NEW s \in Sizes, Loaa(x, s) \/ Loab(x, s) \/ Unl(x, s)
      PROVE  Bounded'
  BY <1>3 DEF Loaa, Loab, Unl
<1>4. ASSUME Untimed PROVE Bounded'
  <2>1. Idle \in Occupation /\ \A r \in Claimable : Idle[r] <= 0
    BY DEF Idle, Occupation, Claimable
  <2> QED BY <1>4, <2>1, BoundedIssue DEF Untimed
<1>5. ASSUME NEW x \in Reg, NEW y \in Reg, NEW s \in Sizes, NEW t \in Sizes,
             Loaab(x, s, y, t)
      PROVE  Bounded'
  BY <1>5 DEF Loaab
<1>6. ASSUME NEW x \in Reg, NEW y \in Reg, NEW z \in Reg,
             NEW s \in Sizes, NEW t \in Sizes,
             Mult(x, s, y, t, z) \/ AddSub(x, s, y, t, z)
      PROVE  Bounded'
  BY <1>6 DEF Mult, AddSub
<1> QED BY <1>1, <1>3, <1>4, <1>5, <1>6 DEF Next

(* The total the emulator reports covers the delivery of every result but  *)
(* those of loab: time_to_termination is the longest countdown, and what   *)
(* remains of a register's reservation is one of them.                     *)
THEOREM TotalIsLastResult == Spec => []TotalCoversResults
<1>1. Init => Bounded
  BY DEF Init, Bounded
<1>2. Init => WrittenCovered
  BY CoveredInit
<1>3. TypeOK /\ Bounded /\ Remainder /\ WrittenCovered => TotalCoversResults
  <2> SUFFICES ASSUME TypeOK, Bounded, Remainder, WrittenCovered, NEW r \in Reg
               PROVE  written[r] <= execution_time + time_to_termination
    BY DEF TotalCoversResults
  <2> DEFINE S == {timer[q] : q \in Resource}
  <2>1. S \in SUBSET Nat /\ r \in Resource /\ timer[r] \in S
    BY DEF TypeOK, Resource
  <2>2. PICK b \in Nat : \A t \in S : t <= b
    BY DEF Bounded
  <2>3. \E t \in S : \A q \in Resource : timer[q] <= t
    <3>1. \E t \in S : \A u \in S : u <= t
      BY <2>1, <2>2, GreatestExists
    <3> QED BY <3>1
  <2>4. time_to_termination \in S /\ timer[r] <= time_to_termination
    BY <2>1, <2>3 DEF time_to_termination
  <2>5. /\ written[r] \in Nat /\ until[r] \in Nat /\ execution_time \in Nat
        /\ written[r] <= until[r] /\ timer[r] = use_resource(until[r], execution_time)
    BY <2>1 DEF TypeOK, Remainder, WrittenCovered
  <2>6. time_to_termination \in Nat
    BY <2>1, <2>4
  <2> QED BY <2>4, <2>5, <2>6 DEF use_resource
<1> QED BY <1>1, <1>2, <1>3, BoundedStep, CoveredStep, TypeCorrect,
           CountdownsAreRemainders, PTL DEF Spec

=============================================================================
