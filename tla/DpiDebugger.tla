----------------------------- MODULE DpiDebugger -----------------------------
(***************************************************************************)
(* The emulator as a debugger behind SystemVerilog: the test bench ("tb")  *)
(* calls the functions tbEmusrup*, the emulator runs in a child process    *)
(* ("emu"), debug_in_background.  They share a memory that holds a copy of *)
(* the registers, the number of the last instruction and a control word    *)
(* (0: wait, 1: proceed, 2: end), guarded by one semaphore.                *)
(*                                                                         *)
(* Every function that touches the memory opens it and the semaphore, waits*)
(* on the semaphore (Enter), does its work, and posts.  What registers hold*)
(* is abstracted to an identity and a number of limbs; the process id, used*)
(* only by the test bench itself, is abstracted from its accesses.         *)
(***************************************************************************)
EXTENDS Integers, Sequences

CONSTANTS
  NUMREG,     (* number of logical registers                               *)
  SlotLimbs,  (* limbs a register's slot has room for: MAXBYTES/8 - 1      *)
  LoadLimbs,  (* the sizes in limbs of the numbers on the buses            *)
  ProgLens,   (* the numbers of instructions a program can have            *)
  Kinds       (* the instructions programs are made of; "fault" is one     *)
              (* that makes the emulator exit                              *)

Logic  == 0 .. NUMREG-1
Shadow == NUMREG
AllReg == 0 .. NUMREG

ASSUME DpiAssumption ==
  /\ NUMREG \in Nat \ {0}
  /\ SlotLimbs \in Nat \ {0}
  /\ LoadLimbs \subseteq 1 .. SlotLimbs
  /\ ProgLens \subseteq Nat

VARIABLES
  pc,           (* pc[p]: the call process p is in, or where it waits      *)
  inside,       (* inside[p]: p is between sem_wait and sem_post           *)
  sem,          (* value of the semaphore                                  *)
  linked,       (* the memory and the semaphore can be opened              *)
  data, prec,   (* shared: identity and precision of each register         *)
  shm_phys,     (* shared: physical number of each register                *)
  instruction,  (* shared: the last instruction                            *)
  control,      (* shared: the control word                                *)
  prog_len,     (* instructions in the program                             *)
  instr,        (* instructions the emulator has executed                  *)
  ex_cmd,       (* the last instruction it executed                        *)
  reg, phys,    (* the emulator's own registers                            *)
  todo,         (* what is left to do of debug_instruction                 *)
  opcode_instr, (* what tbEmusrupProceed returned                          *)
  seen,         (* what tbEmusrupCheck returned since: {} or a singleton   *)
  addr,         (* the register tbEmusrupCheck was asked for               *)
  steps         (* history: the times tbEmusrupProceed has returned        *)

sync  == <<pc, inside, sem, linked>>
view  == <<data, prec, shm_phys>>
local == <<prog_len, instr, ex_cmd, reg, phys, todo>>
bench == <<opcode_instr, seen, addr, steps>>
vars  == <<sync, view, instruction, control, local, bench>>

Proc == {"tb", "emu"}

(* A number: which one it is (the instruction that made it, and whether it *)
(* is its main or its second result) and its size.                         *)
Num(id, limbs) == [id |-> id, limbs |-> limbs]
Zero   == Num(<<0, 0>>, 1)
Spoilt == <<0, 1>>     (* what is left of a number cleared in part         *)

Init ==
  /\ pc = [p \in Proc |-> IF p = "tb" THEN "start" ELSE "unborn"]
  /\ inside = [p \in Proc |-> FALSE]
  /\ sem = 0 /\ linked = FALSE
  /\ data = [r \in AllReg |-> Spoilt] /\ prec = [r \in AllReg |-> 0]
  /\ shm_phys = [r \in AllReg |-> 0]
  /\ instruction = "none" /\ control = 0
  /\ prog_len \in ProgLens
  /\ instr = 0 /\ ex_cmd = "none" /\ todo = <<>>
  /\ reg = [r \in AllReg |-> Zero] /\ phys = [r \in AllReg |-> r]
  /\ opcode_instr = "none" /\ seen = {} /\ addr = 0 /\ steps = 0

-----------------------------------------------------------------------------
(* Access to the shared memory. *)

(* The places where a process is in a function that opens the memory.      *)
Access == {"chpid", "request", "poll", "fetch", "check", "getpid", "quit",
           "control", "task", "instruction", "ready"}
Gone   == {"exited", "failed"}

Enter(p) ==
  /\ pc[p] \in Access /\ ~inside[p]
  /\ linked
  /\ sem > 0
  /\ sem' = sem - 1
  /\ inside' = [inside EXCEPT ![p] = TRUE]
  /\ UNCHANGED <<pc, linked, view, instruction, control, local, bench>>

(* The end of such a function: sem_post, and p goes on at place next.      *)
Leave(p, place, next) ==
  /\ pc[p] = place /\ inside[p]
  /\ sem' = sem + 1
  /\ inside' = [inside EXCEPT ![p] = FALSE]
  /\ pc' = [pc EXCEPT ![p] = next]
  /\ UNCHANGED linked

Goto(p, place, next) == /\ pc[p] = place
                        /\ pc' = [pc EXCEPT ![p] = next]
                        /\ UNCHANGED <<inside, sem>>

-----------------------------------------------------------------------------
(* The test bench. *)

(* tbEmusrupStart creates the memory and the semaphore, which nobody knows *)
(* yet, fills the memory with empty registers and forks.                   *)
Start ==
  /\ pc = [tb |-> "start", emu |-> "unborn"]
  /\ pc' = [tb |-> "chpid",
            emu |-> IF prog_len = 0 THEN "exited" ELSE "control"]
  /\ linked' = TRUE /\ sem' = 1
  /\ data' = [r \in AllReg |-> Zero.id]
  /\ prec' = [r \in AllReg |-> Zero.limbs]
  /\ shm_phys' = [r \in AllReg |-> r]
  /\ UNCHANGED <<inside, instruction, control, local, bench>>

WriteChpid == /\ Leave("tb", "chpid", "idle")
              /\ UNCHANGED <<view, instruction, control, local, bench>>

(* tbEmusrupProceed: ask for a step, poll until it is done, fetch its      *)
(* instruction.                                                            *)
tbEmusrupProceed ==
  /\ Goto("tb", "idle", "request")
  /\ seen' = {}
  /\ UNCHANGED <<linked, view, instruction, control, local,
                 opcode_instr, addr, steps>>

Request == /\ Leave("tb", "request", "poll")
           /\ control' = 1
           /\ UNCHANGED <<view, instruction, local, bench>>

(* Mutant: the control word is read but not looked at.                     *)
PollOnce == /\ Leave("tb", "poll", "fetch")
            /\ UNCHANGED <<view, instruction, control, local, bench>>

Poll == /\ Leave("tb", "poll", IF control = 0 THEN "fetch" ELSE "poll")
        /\ UNCHANGED <<view, instruction, control, local, bench>>

FetchInstruction ==
  /\ Leave("tb", "fetch", "idle")
  /\ opcode_instr' = instruction
  /\ steps' = steps + 1
  /\ UNCHANGED <<view, instruction, control, local, seen, addr>>

(* tbEmusrupCheckLogic, tbEmusrupCheckShadow, tbEmusrupPrintReg.           *)
tbEmusrupCheck(r) ==
  /\ Goto("tb", "idle", "check")
  /\ addr' = r
  /\ UNCHANGED <<linked, view, instruction, control, local,
                 opcode_instr, seen, steps>>

ReadForCheck ==
  /\ Leave("tb", "check", "idle")
  /\ seen' = {[r |-> addr, id |-> data[addr], prec |-> prec[addr],
               phys |-> shm_phys[addr]]}
  /\ UNCHANGED <<view, instruction, control, local, opcode_instr, addr, steps>>

(* tbEmusrupStop: learn the process id, ask for the end, wait for the      *)
(* process, remove the memory and the semaphore.                           *)
tbEmusrupStop == /\ Goto("tb", "idle", "getpid")
                 /\ UNCHANGED <<linked, view, instruction, control, local, bench>>

ReadChpid == /\ Leave("tb", "getpid", "quit")
             /\ UNCHANGED <<view, instruction, control, local, bench>>

Quit == /\ Leave("tb", "quit", "wait")
        /\ control' = 2
        /\ UNCHANGED <<view, instruction, local, bench>>

(* Mutant: waitpid is left out.                                            *)
ReapAtOnce == /\ Goto("tb", "wait", "done")
              /\ linked' = FALSE
              /\ UNCHANGED <<view, instruction, control, local, bench>>

Reap == /\ pc["emu"] \in Gone
        /\ Goto("tb", "wait", "done")
        /\ linked' = FALSE
        /\ UNCHANGED <<view, instruction, control, local, bench>>

-----------------------------------------------------------------------------
(* The emulator. *)

EmuLeave(place, next) == /\ Leave("emu", place, next)
                         /\ UNCHANGED <<bench, prog_len, instr, ex_cmd>>

(* Mutant: the end is not recognised.                                      *)
ReadControlEndless ==
  /\ EmuLeave("control", IF control = 1 THEN "decode" ELSE "control")
  /\ UNCHANGED <<view, instruction, control, reg, phys, todo>>

(* Mutant: the request for a step is not recognised.                       *)
ReadControlDeaf ==
  /\ EmuLeave("control", IF control = 2 THEN "exited" ELSE "control")
  /\ UNCHANGED <<view, instruction, control, reg, phys, todo>>

(* debug_in_background polls the control word.                             *)
ReadControl ==
  /\ EmuLeave("control", IF control = 1 THEN "decode"
                         ELSE IF control = 2 THEN "exited" ELSE "control")
  /\ UNCHANGED <<view, instruction, control, reg, phys, todo>>

(* What debug_instruction does to the memory is a list of tasks: to write a*)
(* register (prec is the precision it notes, save the limbs it clears      *)
(* first), to swap a register with the shadow register, to exit.           *)
Task(do, r, v, save, noted) ==
  [do |-> do, r |-> r, id |-> v.id, save |-> save, prec |-> noted]
Put(r, v)          == Task("put", r, v, v.limbs, v.limbs)
(* Mutant of PutWide: it notes the limbs cleared as the precision.         *)
PutCleared(r, v, save) == Task("put", r, v, save, save)
PutWide(r, v, save)  == Task("put", r, v, save, v.limbs)  (* write_shm_reg   *)
PutTwos(r, v, save)  == Task("put", r, v, save, save)     (* write_shm_reg2c *)
SwapWith(r)        == Task("swap", r, Zero, 0, 0)
Exit               == Task("exit", Shadow, Zero, 0, 0)

Doing(tasks) == IF tasks = <<>> THEN "instruction"
                ELSE IF Head(tasks).do = "exit" THEN "fault" ELSE "task"

(* debug_instruction: the instruction is decoded and computed on reg.      *)
Execute(kind, newreg, tasks) ==
  /\ kind \in Kinds
  /\ Goto("emu", "decode", Doing(tasks))
  /\ instr' = instr + 1
  /\ ex_cmd' = kind
  /\ reg' = newreg
  /\ todo' = tasks
  /\ UNCHANGED <<linked, view, instruction, control, bench, prog_len, phys>>

Result(k, limbs) == Num(<<instr + 1, k>>, limbs)
larger(a, b)     == IF a >= b THEN a ELSE b

Unl == Execute("unl", reg, <<>>)

ZeroReg(r) == Execute("zero", [reg EXCEPT ![r] = Zero], <<Put(r, Zero)>>)

(* loaa, loab, set1.                                                       *)
Load(r) ==
  \E limbs \in LoadLimbs :
    LET v == Result(1, limbs)
    IN  Execute("load", [reg EXCEPT ![r] = v], <<Put(r, v)>>)

Cprs(x, y) == Execute("cprs", [reg EXCEPT ![y] = reg[x]], <<Put(y, reg[x])>>)

(* The second bus is read after the first register is written.             *)
Loaab(x, y) ==
  \E limbsA, limbsB \in LoadLimbs :
    LET a == Result(1, limbsA)
        b == Result(2, limbsB)
    IN  \/ Execute("loaab", [reg EXCEPT ![x] = a, ![y] = b],
                   <<Put(x, a), Put(y, b)>>)
        \/ /\ "fault" \in Kinds
           /\ Execute("loaab", [reg EXCEPT ![x] = a], <<Put(x, a), Exit>>)

(* The limbs to clear are counted when the destination, which may be an    *)
(* operand, has its new value.  Any number but Zero may or may not be 0.    *)
Products(a, b) ==
  IF Zero \in {a, b} THEN {Zero}
  ELSE {Result(1, limbs) : limbs \in {1, a.limbs + b.limbs - 1,
                                      a.limbs + b.limbs} \cap 1 .. SlotLimbs}

Mult(x, y, z) ==
  \E v \in Products(reg[x], reg[y]) :
    LET new == [reg EXCEPT ![z] = v]
    IN  Execute("mult", new, <<PutWide(z, v, new[x].limbs + new[y].limbs)>>)

(* add and sub: z gets the sum or the difference, the shadow register the  *)
(* other difference, negative if x is the larger.  In the cases with a swap*)
(* z gets the negative difference first and the registers are swapped.     *)
Differences(a, b) ==
  IF a = Zero /\ b = Zero THEN {Zero}
  ELSE {Result(2, limbs) : limbs \in 1 .. larger(a.limbs, b.limbs)}
Opposite(s) == IF s = Zero THEN Zero ELSE Result(1, s.limbs)
Sums(a, b) ==
  LET m == larger(a.limbs, b.limbs)
  IN  IF a = Zero /\ b = Zero THEN {Zero}
      ELSE IF Zero \in {a, b} THEN {Result(1, m)}
      ELSE {Result(1, limbs) : limbs \in {m, m + 1} \cap 1 .. SlotLimbs}

AddSub(x, y, z) ==
  \E s \in Differences(reg[x], reg[y]) :
  \E v \in Sums(reg[x], reg[y]) \cup {Opposite(s)} :
    LET new  == [reg EXCEPT ![z] = v, ![Shadow] = s]
        save == larger(new[x].limbs, new[y].limbs) + 1
    IN  \/ Execute("add_sub", new, <<PutWide(z, v, save),
                                     PutWide(Shadow, s, save)>>)
        \/ Execute("add_sub", new, <<PutWide(z, v, save),
                                     PutTwos(Shadow, s, save)>>)
        \/ /\ v.limbs = s.limbs
           /\ Execute("add_sub", new, <<PutTwos(z, v, save),
                                        PutWide(Shadow, s, save),
                                        SwapWith(z)>>)

(* An instruction that cannot be decoded, or whose number cannot be read.  *)
Faulty == Execute("fault", reg, <<Exit>>)

Decode ==
  \/ Unl \/ Faulty
  \/ \E r \in Logic : ZeroReg(r) \/ Load(r)
  \/ \E x, y \in Logic : Cprs(x, y) \/ Loaab(x, y)
  \/ \E x, y, z \in Logic : Mult(x, y, z) \/ AddSub(x, y, z)

(* write_shm_reg clears 8*save+8 bytes of the register's slot.  More than  *)
(* the slot holds are the header and the first limbs of the next slot, and *)
(* after the last slot come the precisions, two of them for a limb.  Only  *)
(* tbEmusrupCheck reads the slots, and it does not read the header.        *)
WriteRegister ==
  LET t == Head(todo)
      over == t.save - SlotLimbs
  IN  /\ EmuLeave("task", Doing(Tail(todo)))
      /\ t.do = "put"
      /\ data' = [r \in AllReg |->
                   IF r = t.r THEN t.id
                   ELSE IF r = t.r + 1 /\ over > 1 THEN Spoilt ELSE data[r]]
      /\ prec' = [r \in AllReg |->
                   IF r = t.r THEN t.prec
                   ELSE IF t.r = Shadow /\ r < 2 * over THEN 0 ELSE prec[r]]
      /\ todo' = Tail(todo)
      /\ UNCHANGED <<shm_phys, instruction, control, reg, phys>>

Exchanged(f, r) == [f EXCEPT ![r] = f[Shadow], ![Shadow] = f[r]]

(* Mutant: the table of physical numbers is not swapped.                   *)
SwapWithoutPhys ==
  LET r == Head(todo).r
  IN  /\ EmuLeave("task", Doing(Tail(todo)))
      /\ Head(todo).do = "swap"
      /\ data' = Exchanged(data, r)
      /\ prec' = Exchanged(prec, r)
      /\ reg' = Exchanged(reg, r)
      /\ phys' = Exchanged(phys, r)
      /\ todo' = Tail(todo)
      /\ UNCHANGED <<shm_phys, instruction, control>>

(* swap_shm_reg, and then the same with the emulator's own registers.      *)
SwapRegisters ==
  LET r == Head(todo).r
  IN  /\ EmuLeave("task", Doing(Tail(todo)))
      /\ Head(todo).do = "swap"
      /\ data' = Exchanged(data, r)
      /\ prec' = Exchanged(prec, r)
      /\ shm_phys' = Exchanged(shm_phys, r)
      /\ reg' = Exchanged(reg, r)
      /\ phys' = Exchanged(phys, r)
      /\ todo' = Tail(todo)
      /\ UNCHANGED <<instruction, control>>

Fail == /\ Goto("emu", "fault", "failed")
        /\ UNCHANGED <<linked, view, instruction, control, local, bench>>

WriteInstruction ==
  /\ EmuLeave("instruction", "ready")
  /\ instruction' = ex_cmd
  /\ UNCHANGED <<view, control, reg, phys, todo>>

(* Mutant: the control word is not reset.                                  *)
WriteControlKept ==
  /\ EmuLeave("ready", IF instr < prog_len THEN "control" ELSE "exited")
  /\ control' = control
  /\ UNCHANGED <<view, instruction, reg, phys, todo>>

(* The step is done.  At the end of the program the emulator exits.        *)
WriteControl ==
  /\ EmuLeave("ready", IF instr < prog_len THEN "control" ELSE "exited")
  /\ control' = 0
  /\ UNCHANGED <<view, instruction, reg, phys, todo>>

-----------------------------------------------------------------------------
Call  == tbEmusrupProceed \/ tbEmusrupStop \/ \E r \in AllReg : tbEmusrupCheck(r)
Bench == \/ Start \/ WriteChpid \/ Request \/ Poll \/ FetchInstruction
         \/ ReadForCheck \/ ReadChpid \/ Quit \/ Reap
Emu   == \/ ReadControl \/ Decode \/ WriteRegister \/ SwapRegisters \/ Fail
         \/ WriteInstruction \/ WriteControl

(* Both processes have ended.                                              *)
Ended == pc["tb"] = "done" /\ UNCHANGED vars

Next == Call \/ Bench \/ Emu \/ (\E p \in Proc : Enter(p)) \/ Ended

Spec == Init /\ [][Next]_vars

(* Each process goes on with what it has begun; the test bench need not    *)
(* make another call.  A process that polls opens and maps the memory again*)
(* before each sem_wait, so the semaphore is free long enough for the other*)
(* one not to be passed over for ever.                                     *)
FairSpec == /\ Spec
            /\ WF_vars(Bench) /\ WF_vars(Emu)
            /\ \A p \in Proc : SF_vars(Enter(p))

-----------------------------------------------------------------------------
Ids   == (0 .. instr) \X (0 .. 2)
Tasks == [do : {"put", "swap", "exit"}, r : AllReg, id : Ids,
          save : Nat, prec : Nat]

BenchPlace == {"start", "idle", "wait", "done", "chpid", "request", "poll",
               "fetch", "check", "getpid", "quit"}
EmuPlace   == Gone \cup {"unborn", "decode", "fault", "control", "task",
                        "instruction", "ready"}

SyncOK  == /\ pc \in [Proc -> BenchPlace \cup EmuPlace]
           /\ pc["tb"] \in BenchPlace /\ pc["emu"] \in EmuPlace
           /\ inside \in [Proc -> BOOLEAN]
           /\ sem \in 0 .. 1
           /\ linked \in BOOLEAN
           /\ control \in 0 .. 2
CountsOK == /\ prog_len \in ProgLens
            /\ instr \in Nat /\ steps \in Nat
            /\ ex_cmd \in Kinds \cup {"none"}
            /\ instruction \in Kinds \cup {"none"}
            /\ opcode_instr \in Kinds \cup {"none"}
            /\ addr \in AllReg
RegistersOK ==
  /\ data \in [AllReg -> Ids] /\ prec \in [AllReg -> Nat]
  /\ shm_phys \in [AllReg -> AllReg] /\ phys \in [AllReg -> AllReg]
  /\ reg \in [AllReg -> [id : Ids, limbs : Nat]]
  /\ todo \in Seq(Tasks)
  /\ seen \subseteq [r : AllReg, id : Ids, prec : Nat, phys : AllReg]

(* Every variable has its type.                                            *)
TypeOK == SyncOK /\ CountsOK /\ RegistersOK

(* tbEmusrupProceed has been called and has not returned.                  *)
Stepping == pc["tb"] \in {"request", "poll", "fetch"}

(* No program of len instructions makes a number too large for a slot: an  *)
(* instruction at most doubles the limbs of the largest number (bound[k]   *)
(* limbs after k of them), and clears twice as many.                       *)
LimbsSuffice(bound, len) ==
  /\ \A k \in 0 .. len : bound[k] \in Nat \ {0} /\ 2 * bound[k] <= SlotLimbs
  /\ \A k \in 1 .. len : /\ 2 * bound[k-1] <= bound[k]
                         /\ LoadLimbs \subseteq 1 .. bound[k]

(* The two processes are never both inside an access, and neither is about *)
(* to open the memory when it is gone (or not there yet): tbEmusrupStop    *)
(* removes it only after the last access of the emulator.                  *)
MemoryGuarded == /\ ~(inside["tb"] /\ inside["emu"])
                 /\ \A p \in Proc : pc[p] \in Access => linked

(* Each call of tbEmusrupProceed makes the emulator execute exactly one    *)
(* instruction, however the two polling loops and the control word         *)
(* interleave, and returns the code of that instruction and no earlier one.*)
OneStepPerCall ==
  /\ steps <= instr /\ instr <= steps + 1
  /\ pc["tb"] = "fetch" => instr = steps + 1
  /\ ~Stepping => instr = steps /\ opcode_instr = ex_cmd

(* Whenever the test bench is not in a step, the shared copy agrees with   *)
(* the emulator: all the writes and swaps of the step have been made.  Of  *)
(* the shadow register the precision is that of the adder, not its own.    *)
ViewIsCurrent ==
  linked /\ ~Stepping =>
    \A r \in AllReg : /\ data[r] = reg[r].id
                      /\ shm_phys[r] = phys[r]
                      /\ r \in Logic => prec[r] = reg[r].limbs

(* What tbEmusrupCheck returned holds until the next step is asked for.    *)
CheckExact ==
  \A s \in seen : /\ s.id = reg[s.r].id
                  /\ s.phys = phys[s.r]
                  /\ s.r \in Logic => s.prec = reg[s.r].limbs

(* The emulator touches registers and instruction only while the test bench*)
(* polls: nothing of a step arrives after tbEmusrupProceed has seen its end.*)
QuietStep == linked /\ pc["tb"] # "poll" => UNCHANGED <<view, instruction>>
QuietBetweenSteps == [][QuietStep]_vars

(* tbEmusrupStop returns, whatever the emulator is at and also when it has *)
(* already ended.                                                          *)
StopReturns == pc["tb"] = "getpid" ~> pc["tb"] = "done"

(* A step comes to its end unless the emulator has exited.                 *)
StepReturnsOrExit == pc["tb"] = "request" ~>
                       pc["tb"] = "idle" \/ pc["emu"] \in Gone

(* A step comes to its end as long as the program has instructions left:   *)
(* tbEmusrupProceed executes a single step.                                *)
StepReturns == pc["tb"] = "request" /\ instr < prog_len ~> pc["tb"] = "idle"
=============================================================================
