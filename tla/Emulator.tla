------------------------------ MODULE Emulator ------------------------------
(***************************************************************************)
(* The software emulator of the coprocessor, as emulate() runs it: a loop  *)
(* that fetches one instruction of the program file, executes it on GMP    *)
(* integers and advances the program counter and the two bus counters.     *)
(*                                                                         *)
(* ADD and SUB do not simply call mpz_add: they imitate the adder of the   *)
(* hardware, which computes a main result for the destination register and *)
(* a second one for the shadow register, and which swaps the two registers *)
(* and their physical numbers when the main result would be negative.      *)
(*                                                                         *)
(* Program bytes are read once and in order, so instead of storing the     *)
(* program the model picks the next instruction when it is fetched.        *)
(***************************************************************************)
EXTENDS Integers, Sequences

CONSTANTS
  NUMREG,       (* number of logical registers                             *)
  Value,        (* bound: the integers the registers are allowed to hold   *)
  BusFiles,     (* the contents a bus file can have: sequences of Number   *)
  ProgSizes     (* the sizes in bytes a program file can have              *)

Reg    == 0 .. NUMREG-1
Shadow == NUMREG                 (* index of the single shadow register *)
AllReg == 0 .. NUMREG

(* A number on a bus: its size in limbs as the header states it, its value *)
(* and what read_int_number finds wrong with its header, if anything.      *)
Fault  == {"none", "header", "size", "last"}
Number == [limbs : Nat \ {0}, val : Value, fault : Fault]

ASSUME EmulatorAssumption ==
  /\ NUMREG \in Nat \ {0}
  /\ Value \subseteq Int
  /\ {0, 1} \subseteq Value
  /\ BusFiles \subseteq Seq(Number)
  /\ ProgSizes \subseteq Nat

VARIABLES
  prog_size, busA, busB,      (* the input files, fixed once read          *)
  reg,                        (* reg[r]: value of logical register r       *)
  phys,                       (* phys[r]: physical register behind r       *)
  prog_counter,               (* bytes of program consumed                 *)
  busA_counter, busB_counter, (* 64-bit words of bus data consumed         *)
  busZ,                       (* {the number written last to busZ}, or {}  *)
  command,                    (* the last instruction, with its operands   *)
  status,                     (* "run", "end" or the exit code of a fault  *)
  loadsA, loadsB              (* history: numbers taken from each bus      *)

files  == <<prog_size, busA, busB>>
buses  == <<busA_counter, busB_counter, loadsA, loadsB>>
vars   == <<files, reg, phys, prog_counter, buses, busZ, command, status>>

Init ==
  /\ prog_size \in ProgSizes
  /\ busA \in BusFiles /\ busB \in BusFiles
  /\ reg  = [r \in AllReg |-> 0]
  /\ phys = [r \in AllReg |-> r]
  /\ prog_counter = 0
  /\ busA_counter = 0 /\ busB_counter = 0
  /\ busZ = {}
  /\ command = <<"none">>
  /\ status = "run"
  /\ loadsA = 0 /\ loadsB = 0

-----------------------------------------------------------------------------
(* Reading a number from a bus. *)

(* FirstWord(bus)[k] is the word at which the header of number k stands.   *)
FirstWord(bus) ==
  LET start[k \in 1 .. Len(bus)+1] ==
        IF k = 1 THEN 0 ELSE start[k-1] + bus[k-1].limbs + 1
  IN  start

LastFault(limbs) == CASE limbs = 1 -> "exit13" [] limbs = 2 -> "exit14"
                      [] limbs = 3 -> "exit15" [] OTHER -> "exit16"

(* read_int_number: the error it exits with, or "none".  A counter that is *)
(* not at a header makes it take a limb for a header.                      *)
ReadError(bus, counter) ==
  IF FirstWord(bus)[Len(bus)+1] - counter < 2 THEN "exit10"
  ELSE IF \A k \in 1 .. Len(bus) : FirstWord(bus)[k] # counter THEN "exit11"
  ELSE LET n == bus[CHOOSE k \in 1 .. Len(bus) : FirstWord(bus)[k] = counter]
       IN  CASE n.fault = "none"   -> "none"
             [] n.fault = "header" -> "exit11"
             [] n.fault = "size"   -> "exit8"
             [] OTHER              -> LastFault(n.limbs)

ReadNumber(bus, counter) ==
  bus[CHOOSE k \in 1 .. Len(bus) : FirstWord(bus)[k] = counter]

(* Mutant: busX_counter += 8*tmp, the header is forgotten.                 *)
AdvanceByLimbs(bus, counter) == counter + ReadNumber(bus, counter).limbs

(* busX_counter += 8*tmp+8, counted in words. *)
Advance(bus, counter) == counter + ReadNumber(bus, counter).limbs + 1

-----------------------------------------------------------------------------
(* Fetch: a short instruction is two bytes long, a long one four. *)

Fetch(bytes, cmd) == /\ status = "run"
                     /\ prog_counter + bytes <= prog_size
                     /\ prog_counter' = prog_counter + bytes
                     /\ command' = cmd

(* Every failure ends the process at once: nothing it leaves is read again. *)
Fail(code) == /\ status' = code
              /\ UNCHANGED <<files, reg, phys, prog_counter, buses, busZ, command>>

Keep(unchanged) == UNCHANGED <<files, status, unchanged>>

SetReg(r, v) == /\ v \in Value
                /\ reg' = [reg EXCEPT ![r] = v]

-----------------------------------------------------------------------------
(* The instructions without arithmetic. *)

Loaa(x) ==
  /\ Fetch(2, <<"loaa", x>>)
  /\ ReadError(busA, busA_counter) = "none"
  /\ SetReg(x, ReadNumber(busA, busA_counter).val)
  /\ busA_counter' = Advance(busA, busA_counter)
  /\ loadsA' = loadsA + 1
  /\ Keep(<<phys, busB_counter, loadsB, busZ>>)

Loab(x) ==
  /\ Fetch(2, <<"loab", x>>)
  /\ ReadError(busB, busB_counter) = "none"
  /\ SetReg(x, ReadNumber(busB, busB_counter).val)
  /\ busB_counter' = Advance(busB, busB_counter)
  /\ loadsB' = loadsB + 1
  /\ Keep(<<phys, busA_counter, loadsA, busZ>>)

(* loaab: bus A into x first, then bus B into y. *)
Loaab(x, y) ==
  /\ Fetch(4, <<"loaab", x, y>>)
  /\ ReadError(busA, busA_counter) = "none"
  /\ ReadError(busB, busB_counter) = "none"
  /\ reg' = [reg EXCEPT ![x] = ReadNumber(busA, busA_counter).val,
                        ![y] = ReadNumber(busB, busB_counter).val]
  /\ busA_counter' = Advance(busA, busA_counter)
  /\ busB_counter' = Advance(busB, busB_counter)
  /\ loadsA' = loadsA + 1
  /\ loadsB' = loadsB + 1
  /\ Keep(<<phys, busZ>>)

Unl(x) == /\ Fetch(2, <<"unl", x>>)
          /\ busZ' = {reg[x]}
          /\ Keep(<<reg, phys, buses>>)

Zero(x) == /\ Fetch(2, <<"zero", x>>)
           /\ SetReg(x, 0)
           /\ Keep(<<phys, buses, busZ>>)

Set1(x) == /\ Fetch(2, <<"set1", x>>)
           /\ SetReg(x, 1)
           /\ Keep(<<phys, buses, busZ>>)

Cprs(x, y) == /\ Fetch(4, <<"cprs", x, y>>)
              /\ SetReg(y, reg[x])
              /\ Keep(<<phys, buses, busZ>>)

Mult(x, y, z) == /\ Fetch(4, <<"mult", x, y, z>>)
                 /\ SetReg(z, reg[x] * reg[y])
                 /\ Keep(<<phys, buses, busZ>>)

-----------------------------------------------------------------------------
(* ADD and SUB: the case table over |A| ? |B| and the signs of A and B.    *)
(* The magnitudes are copied before anything is written, so the            *)
(* destination may be one of the operands.                                 *)

Abs(v) == IF v < 0 THEN -v ELSE v

SameSign(a, b) == (a >= 0) <=> (b >= 0)

(* The magnitudes are subtracted: an addition of operands of different     *)
(* sign, or a subtraction of operands of the same sign.                    *)
Subtractive(op, a, b) == IF op = "add" THEN ~SameSign(a, b) ELSE SameSign(a, b)

(* Mutant: the registers are swapped for equal magnitudes too.             *)
SwapsOnEqual(op, a, b) == Subtractive(op, a, b) /\ Abs(a) <= Abs(b)

Swaps(op, a, b) == Subtractive(op, a, b) /\ Abs(a) < Abs(b)

(* m: what the table puts in the destination, before any swap.             *)
Main(op, a, b) ==
  LET sum == IF Subtractive(op, a, b) THEN Abs(a) - Abs(b) ELSE Abs(a) + Abs(b)
  IN  IF a < 0 /\ ~Swaps(op, a, b) THEN -sum ELSE sum

(* Mutant: the case A >= 0 lacks the change of sign.                       *)
SecondUnsigned(op, a, b) == Abs(b) - Abs(a)

(* s: what the table puts in the shadow register, before any swap.         *)
Second(op, a, b) ==
  IF Swaps(op, a, b) /\ a >= 0 THEN Abs(a) - Abs(b) ELSE Abs(b) - Abs(a)

(* Mutant: the shadow register is left out of the exchange.                *)
OneSidedExchange(f, r) == [f EXCEPT ![r] = f[Shadow]]

(* mpz_swap of the two registers together with their physical numbers.     *)
Exchange(f, r) == [f EXCEPT ![r] = f[Shadow], ![Shadow] = f[r]]

AddSub(op, x, y, z) ==
  LET a == reg[x]
      b == reg[y]
      written == [reg EXCEPT ![z] = Main(op, a, b), ![Shadow] = Second(op, a, b)]
  IN  /\ Fetch(4, <<op, x, y, z>>)
      /\ {Main(op, a, b), Second(op, a, b)} \subseteq Value
      /\ reg'  = IF Swaps(op, a, b) THEN Exchange(written, z) ELSE written
      /\ phys' = IF Swaps(op, a, b) THEN Exchange(phys, z) ELSE phys
      /\ Keep(<<buses, busZ>>)

-----------------------------------------------------------------------------
(* The ways an instruction ends the process, and the end of the program. *)

Fetched(bytes) == status = "run" /\ prog_counter + bytes <= prog_size

LoadFault ==
  \/ /\ Fetched(2)
     /\ \/ ReadError(busA, busA_counter) # "none" /\ Fail(ReadError(busA, busA_counter))
        \/ ReadError(busB, busB_counter) # "none" /\ Fail(ReadError(busB, busB_counter))
  \/ /\ Fetched(4)
     /\ ReadError(busA, busA_counter) = "none"
     /\ ReadError(busB, busB_counter) # "none"
     /\ Fail(ReadError(busB, busB_counter))

(* cmd[1] neither 0 nor 1; an unknown opcode; a fourth byte that is not 1. *)
DecodeFault ==
  \/ Fetched(2) /\ Fail("exit4")
  \/ Fetched(2) /\ Fail("exit5")
  \/ Fetched(4) /\ Fail("exit6")
  \/ Fetched(4) /\ Fail("exit7")

EndEmulation == /\ status = "run"
                /\ prog_counter >= prog_size
                /\ status' = "end"
                /\ UNCHANGED <<files, reg, phys, prog_counter, buses, busZ, command>>

Next ==
  \/ \E x \in Reg : Loaa(x) \/ Loab(x) \/ Unl(x) \/ Zero(x) \/ Set1(x)
  \/ \E x, y \in Reg : Loaab(x, y) \/ Cprs(x, y)
  \/ \E x, y, z \in Reg : Mult(x, y, z)
  \/ \E x, y, z \in Reg, op \in {"add", "sub"} : AddSub(op, x, y, z)
  \/ LoadFault
  \/ DecodeFault
  \/ EndEmulation

Spec == Init /\ [][Next]_vars

-----------------------------------------------------------------------------
Status == {"run", "end", "exit4", "exit5", "exit6", "exit7", "exit8", "exit10",
           "exit11", "exit13", "exit14", "exit15", "exit16"}

Commands == {<<"none">>}
  \cup ({"loaa", "loab", "unl", "zero", "set1"} \X Reg)
  \cup ({"loaab", "cprs"} \X Reg \X Reg)
  \cup ({"mult", "add", "sub"} \X Reg \X Reg \X Reg)

FilesOK == prog_size \in Nat /\ busA \in Seq(Number) /\ busB \in Seq(Number)

RegistersOK == /\ reg  \in [AllReg -> Value]
               /\ phys \in [AllReg -> AllReg]
               /\ busZ \subseteq Value

CountersOK == /\ prog_counter \in Nat
              /\ busA_counter \in Nat /\ busB_counter \in Nat
              /\ loadsA \in Nat /\ loadsB \in Nat

(* Type invariant of the emulator's variables: whatever the files hold, it *)
(* keeps integers of its range in its registers and stops with one of the  *)
(* exit codes of the source.                                               *)
TypeOK == /\ FilesOK /\ RegistersOK /\ CountersOK
          /\ status \in Status
          /\ command \in Commands

(* phys[] is at all times a permutation of the physical registers, so that *)
(* no two logical registers share storage and none is lost: the "Error in  *)
(* phys!" check of the test program in main.c.                             *)
Permutation(f) == /\ \A r, s \in AllReg : f[r] = f[s] => r = s
                  /\ \A p \in AllReg : \E r \in AllReg : f[r] = p

PhysPermutation == Permutation(phys)

(* After any sequence of loads each bus counter stands exactly behind the  *)
(* last number taken, whatever its value: also when the number has leading *)
(* zero limbs, and when it was loaded by loaab into one register.          *)
BusAligned ==
  status = "run" =>
    /\ loadsA <= Len(busA) /\ busA_counter = FirstWord(busA)[loadsA + 1]
    /\ loadsB <= Len(busB) /\ busB_counter = FirstWord(busB)[loadsB + 1]

(* The content of physical register p. *)
Physical(p) == reg[CHOOSE r \in AllReg : phys[r] = p]

(* A swap renames and never copies: when the physical number of a          *)
(* destination z changes, z and the shadow register have exchanged numbers,*)
(* the register that was behind z is left with the negative difference the *)
(* adder computed first, the new one with its complement, and no other     *)
(* physical register is written.                                           *)
RenamesStep ==
  \A z \in Reg : phys'[z] # phys[z] =>
    /\ phys' = Exchange(phys, z)
    /\ reg'[Shadow] < 0
    /\ Abs(reg'[z]) = -reg'[Shadow]
    /\ \A p \in AllReg :
         /\ p = phys[z]      => Physical(p)' = reg'[Shadow]
         /\ p = phys[Shadow] => Physical(p)' = reg'[z]
         /\ p \notin {phys[z], phys[Shadow]} => Physical(p)' = Physical(p)

RenamesOnBorrow == [][RenamesStep]_vars

(* What a bus offers: the number at its counter, unless it is faulty.      *)
Offered(bus, counter) == IF ReadError(bus, counter) = "none"
                         THEN {ReadNumber(bus, counter).val} ELSE {}

(* The emulator implements the programmer's view of the coprocessor: the   *)
(* result of every instruction is that of plain integers on its operands,  *)
(* whatever the order of swaps before, and also when the destination is an *)
(* operand; each load takes the number its own bus offers.                 *)
Machine == INSTANCE SrupMachine
             WITH file <- [r \in Reg |-> reg[r]], out <- busZ,
                  portA <- Offered(busA, busA_counter),
                  portB <- Offered(busB, busB_counter)

MachineSpec == Machine!MachineSpec

=============================================================================
