----------------------------- MODULE TimeMaker -----------------------------
(***************************************************************************)
(* The timing model of the emulator (time_maker.c): how many clocks of the *)
(* coprocessor the program takes.  Each register, each of the two routes   *)
(* and each unit has a countdown of the clocks it stays occupied.  For an  *)
(* instruction exec_cmd waits until all the resources it needs are free,   *)
(* counts every countdown down by that time and occupies what it needs.    *)
(*                                                                         *)
(* The calls are those of execute_instruction.  The number of limbs of an  *)
(* operand is an input: the emulator's registers are in module Emulator.   *)
(***************************************************************************)
EXTENDS Integers

CONSTANTS
  Reg,        (* the registers                                             *)
  Reg0,       (* the register whose index is 0                             *)
  Sizes,      (* the sizes in limbs, mpz_size(), an operand can have       *)
  MaxTime     (* bound: no instruction is issued after this clock          *)

(* time_maker.h *)
STD_CTRL_DELAY == 5
LOAD_PRE == 10
LOAD_POST == 10
UNLOAD_PRE == 10
UNLOAD_POST == 10
ADD_SUB_PRE == 10
ADD_SUB_POST == 10
MULT_PRE == 10
MULT_POST == 10

Unit  == {"dma_add_sub", "dma_mult", "dma_unload", "adder", "multiplier",
          "load_A", "load_B"}
Route == {"route0", "route1"}
Resource == Reg \cup Route \cup Unit

ASSUME TimeMakerAssumption ==
  /\ Reg0 \in Reg
  /\ Reg \cap (Route \cup Unit \cup {"route"}) = {}
  /\ Sizes \subseteq Nat
  /\ MaxTime \in Nat

VARIABLES
  timer,           (* timer[r]: clocks until resource r is free            *)
  execution_time,  (* the clock at which the last instruction was issued   *)
  until,           (* history: absolute clock at which r becomes free      *)
  written,         (* history: clock at which register r has received all  *)
                   (* it was to receive, except from loab                  *)
  loaded           (* history: the same for what loab sends to register r  *)

vars == <<timer, execution_time, until, written, loaded>>

(* time_maker(), called by the emulator before the first instruction.      *)
Init == /\ timer = [r \in Resource |-> 0]
        /\ execution_time = 0
        /\ until = [r \in Resource |-> 0]
        /\ written = [r \in Reg |-> 0]
        /\ loaded = [r \in Reg |-> 0]

-----------------------------------------------------------------------------
greater(a, b)   == IF a < b THEN b ELSE a
less_than(a, b) == IF a > b THEN b ELSE a

use_resource(x, clk) == IF x > clk THEN x - clk ELSE 0

(* extra_reset: nothing is occupied. "route" is whichever route is free.   *)
Idle == [r \in Reg \cup Unit \cup {"route"} |-> 0]

(* check_and_calculate_time_jump: what an instruction occupies, and for how*)
(* long.  The operations its switch does not list occupy nothing.          *)
Occupies(opcode, regA, limbA, regB, limbB, regC) ==
  LET load(limbs) == LOAD_PRE + limbs
      unload      == UNLOAD_PRE + limbA
      mult        == MULT_PRE + limbA * limbB
      add_sub     == ADD_SUB_PRE + greater(limbA, limbB)
  IN  CASE opcode = "loaa" ->
             [Idle EXCEPT ![regA] = load(limbA), !["load_A"] = load(limbA)]
        [] opcode = "loab" ->
             [Idle EXCEPT ![regB] = load(limbB), !["load_B"] = load(limbB)]
        [] opcode = "loaab" ->
             [Idle EXCEPT ![regA] = load(limbA) + LOAD_POST,
                          ![regB] = load(limbB) + LOAD_POST,
                          !["load_A"] = load(limbA), !["load_B"] = load(limbB)]
        [] opcode = "unl" ->
             [Idle EXCEPT !["dma_unload"] = unload + UNLOAD_POST,
                          !["route"] = unload, ![regA] = unload]
        [] opcode = "mult" ->
             [Idle EXCEPT !["dma_mult"] = mult + MULT_POST,
                          !["route"] = mult + MULT_POST,
                          !["multiplier"] = mult + MULT_POST,
                          ![regA] = mult, ![regB] = mult,
                          ![regC] = mult + MULT_POST]
        [] opcode \in {"add", "sub"} ->
             [Idle EXCEPT !["dma_add_sub"] = add_sub + ADD_SUB_POST,
                          !["route"] = add_sub + ADD_SUB_POST,
                          !["adder"] = add_sub + ADD_SUB_POST,
                          ![regA] = add_sub, ![regB] = add_sub,
                          ![regC] = add_sub + ADD_SUB_POST]
        [] OTHER -> Idle

(* Mutant: the instruction does not wait for its registers.                *)
NeededUnits(occupied) == {r \in Unit \cup {"route"} : occupied[r] > 0}

Needed(occupied) == {r \in Reg \cup Unit \cup {"route"} : occupied[r] > 0}

(* The countdown of what an instruction needs.                             *)
Countdown(r) == IF r = "route" THEN less_than(timer["route0"], timer["route1"])
                ELSE timer[r]

(* wait is the longest countdown of the resources needed.                  *)
IsJump(wait, needed) == /\ \A r \in needed : Countdown(r) <= wait
                        /\ wait = 0 \/ \E r \in needed : Countdown(r) = wait

(* Mutant: the control delay is not counted down.                          *)
SpentWaiting(clk) ==
  [r \in Resource |-> use_resource(timer[r], clk - STD_CTRL_DELAY)]

(* spend_time *)
Spent(clk) == [r \in Resource |-> use_resource(timer[r], clk)]

(* Mutant: the other route is never chosen.                                *)
Route0Always(left) == "route0"

(* add_extras takes route 0 if it is free, else route 1.                   *)
ChosenRoute(left) == IF left["route0"] = 0 THEN "route0" ELSE "route1"

(* What is added to each countdown once the route is chosen.               *)
Extra(occupied, left) ==
  [r \in Resource |->
     IF r \notin Route THEN occupied[r]
     ELSE IF r = ChosenRoute(left) THEN occupied["route"] ELSE 0]

(* exec_cmd, and the addition of its result to execution_time.  A resource *)
(* that is occupied anew is so until the time of issue plus its extra.     *)
exec_cmd(occupied) ==
  \E wait \in {0} \cup {timer[r] : r \in Resource} :
    LET clk   == STD_CTRL_DELAY + wait
        left  == Spent(clk)
        extra == Extra(occupied, left)
    IN  /\ execution_time <= MaxTime
        /\ IsJump(wait, Needed(occupied))
        /\ timer' = [r \in Resource |-> left[r] + extra[r]]
        /\ execution_time' = execution_time + clk
        /\ until' = [r \in Resource |-> IF extra[r] = 0 THEN until[r]
                                        ELSE execution_time' + extra[r]]

-----------------------------------------------------------------------------
(* The calls of execute_instruction, made after the registers have their   *)
(* new values; a register named twice has one size.                        *)

After(clock, r, clocks) == [clock EXCEPT ![r] = greater(@, execution_time' + clocks)]

Loaa(x, size) ==
  /\ exec_cmd(Occupies("loaa", x, size, Reg0, 0, Reg0))
  /\ written' = After(written, x, LOAD_PRE + size)
  /\ loaded' = loaded

(* The call passes the register and its size as regA, and 0 as regB.       *)
Loab(x, size) ==
  /\ exec_cmd(Occupies("loab", x, size, Reg0, 0, Reg0))
  /\ loaded' = After(loaded, x, LOAD_PRE + size)
  /\ written' = written

Loaab(x, sizeX, y, sizeY) ==
  /\ x = y => sizeX = sizeY
  /\ exec_cmd(Occupies("loaab", x, sizeX, y, sizeY, Reg0))
  /\ written' = After(After(written, x, LOAD_PRE + sizeX), y, LOAD_PRE + sizeY)
  /\ loaded' = loaded

Unl(x, size) ==
  /\ exec_cmd(Occupies("unl", x, size, Reg0, 0, Reg0))
  /\ UNCHANGED <<written, loaded>>

(* zero, set1 and cprs: their opcodes are not in the switch.               *)
Untimed == exec_cmd(Idle) /\ UNCHANGED <<written, loaded>>

Mult(x, sizeX, y, sizeY, z) ==
  /\ x = y => sizeX = sizeY
  /\ exec_cmd(Occupies("mult", x, sizeX, y, sizeY, z))
  /\ written' = After(written, z, MULT_PRE + sizeX * sizeY + MULT_POST)
  /\ loaded' = loaded

AddSub(x, sizeX, y, sizeY, z) ==
  /\ x = y => sizeX = sizeY
  /\ exec_cmd(Occupies("add", x, sizeX, y, sizeY, z))
  /\ written' = After(written, z, ADD_SUB_PRE + greater(sizeX, sizeY) + ADD_SUB_POST)
  /\ loaded' = loaded

Next ==
  \/ \E x \in Reg, s \in Sizes : Loaa(x, s) \/ Loab(x, s) \/ Unl(x, s)
  \/ Untimed
  \/ \E x, y \in Reg, s, t \in Sizes : Loaab(x, s, y, t)
  \/ \E x, y, z \in Reg, s, t \in Sizes : Mult(x, s, y, t, z) \/ AddSub(x, s, y, t, z)

Spec == Init /\ [][Next]_vars

-----------------------------------------------------------------------------
(* Type invariant: no countdown and no clock is ever negative.             *)
TypeOK == /\ timer \in [Resource -> Nat]
          /\ execution_time \in Nat
          /\ until \in [Resource -> Nat]
          /\ written \in [Reg -> Nat] /\ loaded \in [Reg -> Nat]

(* The countdowns, of which spend_time forgets the past, are exactly what  *)
(* remains of the reservations made in absolute time: no clock is lost or  *)
(* counted twice over any sequence of instructions.                        *)
Remainder == \A r \in Resource : timer[r] = use_resource(until[r], execution_time)

(* No resource is given to an instruction before the previous one has      *)
(* released it; for the routes that is the choice add_extras makes.        *)
NoOverlapStep == \A r \in Resource :
                   until'[r] # until[r] => until[r] <= execution_time'
NoOverlap == [][NoOverlapStep]_vars

(* An instruction that occupies a register finds it complete: the producer *)
(* of its value, whatever unit that ran in, has delivered it.              *)
ResultsReadyStep == \A r \in Reg :
                      until'[r] # until[r] => written[r] <= execution_time'
ResultsReady == [][ResultsReadyStep]_vars

(* The same for the values loab delivers.                                  *)
LoabReady ==
  [][\A r \in Reg : until'[r] # until[r] => loaded[r] <= execution_time']_vars

(* Mutant: the shortest countdown, not the longest.                        *)
time_to_first_release ==
  CHOOSE t \in {timer[r] : r \in Resource} : \A r \in Resource : timer[r] >= t

time_to_termination ==
  CHOOSE t \in {timer[r] : r \in Resource} : \A r \in Resource : timer[r] <= t

(* The total the emulator reports at the end is not earlier than the last  *)
(* delivery of a result to a register.                                     *)
TotalCoversResults ==
  \A r \in Reg : written[r] <= execution_time + time_to_termination

=============================================================================
