------------------------- MODULE CpuInstructions -------------------------
(***************************************************************************)
(* The instructions of the coprocessor as its control part sees them: what *)
(* each one needs.  sub is not told from add, since they differ in nothing *)
(* here.  The numbers of limbs are not part of an instruction.             *)
(***************************************************************************)

CONSTANTS Register,     \* the registers a program names
          Shadow,       \* the register add and sub write in addition
          Program       \* the instructions in use

AllReg == Register \cup {Shadow}
Engine == {"add", "mult", "unl"}
Port == {"ldA", "ldB"}
Unit == Engine \cup Port

Op == {"nop", "loaa", "loab", "loaab", "unl", "add", "mult"}
Instr == [op : Op, r1 : AllReg, r2 : AllReg, d : AllReg]

ASSUME ProgramAssumption ==
  /\ Shadow \notin Register
  /\ Program \subseteq [op : Op \ {"nop"}, r1 : Register, r2 : Register, d : Register]

\* Registers that unit u reads, and writes, for instruction i.
ReadBy(u, i) ==
  IF i.op = u THEN {i.r1} \cup (IF u = "unl" THEN {} ELSE {i.r2}) ELSE {}

WrittenBy(u, i) ==
  IF u = "ldA" THEN IF i.op \in {"loaa", "loaab"} THEN {i.r1} ELSE {}
  ELSE IF u = "ldB" THEN IF i.op = "loab" THEN {i.r1}
                         ELSE IF i.op = "loaab" THEN {i.r2} ELSE {}
  ELSE IF i.op # u \/ u = "unl" THEN {}
  ELSE {i.d} \cup (IF u = "add" THEN {Shadow} ELSE {})

Needs(u, i) == i.op = u \/ WrittenBy(u, i) # {}

Uses(i) == UNION {ReadBy(u, i) \cup WrittenBy(u, i) : u \in Unit}

=============================================================================
