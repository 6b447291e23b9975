---------------------------- MODULE SrupMachine ----------------------------
(***************************************************************************)
(* What the coprocessor promises to a program: sixteen integer registers   *)
(* of arbitrary precision and ten instructions.  Neither the shadow        *)
(* register, nor the renaming of physical registers, nor the sign/magnitude*)
(* case table of the adder is visible here.  The emulator and, later, the  *)
(* hardware are shown to implement this specification.                     *)
(***************************************************************************)
EXTENDS Integers

CONSTANTS Reg,              (* the logical registers a program can name *)
          Value             (* the integers in play                     *)

VARIABLES file,             (* file[r]: the integer held by register r          *)
          out,              (* {the number unloaded last}, {} before any         *)
          portA, portB,     (* {the number offered by a bus}, {} if there is none*)
          command           (* the instruction executed last, with its operands *)

machineVars == <<file, out, portA, portB, command>>

MachineInit == /\ file = [r \in Reg |-> 0]
               /\ out = {}
               /\ portA \subseteq Value /\ portB \subseteq Value
               /\ command = <<"none">>

(* An instruction that writes one register and leaves the buses alone.     *)
Put(instr, r, v) == /\ command' = instr
                    /\ file' = [file EXCEPT ![r] = v]
                    /\ UNCHANGED <<out, portA, portB>>

(* A load takes the number its own bus offers; the bus then offers another *)
(* one, or none.  A second load into the same register wins.               *)
LoadA(x) == \E v \in portA :
  /\ command' = <<"loaa", x>>
  /\ file' = [file EXCEPT ![x] = v]
  /\ portA' \subseteq Value
  /\ UNCHANGED <<out, portB>>

LoadB(x) == \E v \in portB :
  /\ command' = <<"loab", x>>
  /\ file' = [file EXCEPT ![x] = v]
  /\ portB' \subseteq Value
  /\ UNCHANGED <<out, portA>>

LoadAB(x, y) == \E v \in portA, w \in portB :
  /\ command' = <<"loaab", x, y>>
  /\ file' = [file EXCEPT ![x] = v, ![y] = w]
  /\ portA' \subseteq Value /\ portB' \subseteq Value
  /\ out' = out

Unload(x) == /\ command' = <<"unl", x>>
             /\ out' = {file[x]}
             /\ UNCHANGED <<file, portA, portB>>

SetZero(x) == Put(<<"zero", x>>, x, 0)
SetOne(x)  == Put(<<"set1", x>>, x, 1)
Copy(x, y) == Put(<<"cprs", x, y>>, y, file[x])

Multiply(x, y, z) == Put(<<"mult", x, y, z>>, z, file[x] * file[y])
Add(x, y, z)      == Put(<<"add", x, y, z>>, z, file[x] + file[y])
Subtract(x, y, z) == Put(<<"sub", x, y, z>>, z, file[x] - file[y])

MachineNext ==
  \/ \E x \in Reg : LoadA(x) \/ LoadB(x) \/ Unload(x) \/ SetZero(x) \/ SetOne(x)
  \/ \E x, y \in Reg : LoadAB(x, y) \/ Copy(x, y)
  \/ \E x, y, z \in Reg : Multiply(x, y, z) \/ Add(x, y, z) \/ Subtract(x, y, z)

MachineSpec == MachineInit /\ [][MachineNext]_machineVars

=============================================================================
