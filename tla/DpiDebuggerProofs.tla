------------------------- MODULE DpiDebuggerProofs -------------------------
(***************************************************************************)
(* Proofs about DpiDebugger, for any number of registers, any program and  *)
(* any size of slots: the two processes never touch the memory together,   *)
(* and each tbEmusrupProceed is one step of the emulator.                  *)
(*                                                                         *)
(* The inductive invariant says what the control word means at every pair  *)
(* of places the two processes can be at.  As long as the numbers fit      *)
(* their slots, the copy of the registers in the shared memory agrees with *)
(* the emulator between two steps: ViewInv says which writes are still to  *)
(* come.  SizesInv bounds the sizes that a program can reach.              *)
(***************************************************************************)
EXTENDS DpiDebugger, TLAPS

Counting == instr \in Nat /\ steps \in Nat

(* The emulator is busy with an instruction.                               *)
Busy == {"decode", "task", "fault", "instruction", "ready"}

(* The semaphore counts the processes inside, and only those that have the *)
(* memory to access are inside.                                            *)
Semaphore ==
  /\ \A p \in Proc : inside[p] => linked /\ sem = 0 /\ pc[p] \in Access
  /\ ~(inside["tb"] /\ inside["emu"])

(* The memory is there from tbEmusrupStart to the end of tbEmusrupStop, and*)
(* the emulator lives within that time.                                    *)
Lifetime ==
  /\ linked <=> pc["tb"] \notin {"start", "done"}
  /\ pc["tb"] = "start" <=> pc["emu"] = "unborn"
  /\ pc["tb"] = "done" => pc["emu"] \in Gone

(* The control word while the test bench is not waiting for a step.        *)
Between ==
  pc["tb"] # "poll" =>
    /\ pc["emu"] \notin Busy \cup {"failed"}
    /\ control = IF pc["tb"] \in {"wait", "done"} THEN 2 ELSE 0

(* What the counters say between steps, and before the fetch of a step.    *)
Settled == pc["tb"] \notin {"poll", "fetch"} =>
             instr = steps /\ opcode_instr = ex_cmd
Fetching == pc["tb"] = "fetch" => instr = steps + 1 /\ instruction = ex_cmd

(* The course of a step.                                                   *)
Waiting ==
  pc["tb"] = "poll" =>
    \/ /\ control = 1
       /\ pc["emu"] \in {"control", "exited", "decode"}
       /\ instr = steps
    \/ /\ control = 1
       /\ pc["emu"] \in {"task", "fault", "instruction", "failed", "ready"}
       /\ pc["emu"] = "ready" => instruction = ex_cmd
       /\ instr = steps + 1
    \/ /\ control = 0
       /\ pc["emu"] \in {"control", "exited"}
       /\ instr = steps + 1 /\ instruction = ex_cmd

Handshake == /\ SyncOK /\ Counting /\ Semaphore /\ Lifetime
             /\ Between /\ Settled /\ Fetching /\ Waiting

-----------------------------------------------------------------------------
(* What decoding an instruction does to the variables of the handshake.    *)
LEMMA DecodeStep ==
  ASSUME Decode
  PROVE  /\ pc["emu"] = "decode"
         /\ \E place \in {"task", "fault", "instruction"} :
              pc' = [pc EXCEPT !["emu"] = place]
         /\ pc' = [pc EXCEPT !["emu"] = Doing(todo')]
         /\ instr' = instr + 1
         /\ UNCHANGED <<inside, sem, linked, view, instruction, control, bench,
                        prog_len, phys>>
<1>1. ASSUME NEW kind, NEW newreg, NEW tasks, Execute(kind, newreg, tasks)
      PROVE  /\ pc["emu"] = "decode"
             /\ \E place \in {"task", "fault", "instruction"} :
                  pc' = [pc EXCEPT !["emu"] = place]
             /\ pc' = [pc EXCEPT !["emu"] = Doing(todo')]
             /\ instr' = instr + 1
             /\ UNCHANGED <<inside, sem, linked, view, instruction, control, bench,
                            prog_len, phys>>
  <2>1. Doing(tasks) \in {"task", "fault", "instruction"}
    BY DEF Doing
  <2> QED BY <1>1, <2>1 DEF Execute, Goto
<1>2. CASE Unl \/ Faulty
  BY <1>1, <1>2 DEF Unl, Faulty
<1>3. CASE \E r \in Logic : ZeroReg(r) \/ Load(r)
  BY <1>1, <1>3 DEF ZeroReg, Load
<1>4. CASE \E x, y \in Logic : Cprs(x, y)
  BY <1>1, <1>4 DEF Cprs
<1>5. CASE \E x, y \in Logic : Loaab(x, y)
  BY <1>1, <1>5 DEF Loaab
<1>6. CASE \E x, y, z \in Logic : Mult(x, y, z)
  BY <1>1, <1>6 DEF Mult
<1>7. CASE \E x, y, z \in Logic : AddSub(x, y, z)
  BY <1>1, <1>7 DEF AddSub
<1> QED BY <1>2, <1>3, <1>4, <1>5, <1>6, <1>7 DEF Decode

LEMMA InitHandshake == Init => Handshake
<1> SUFFICES ASSUME Init PROVE Handshake
  OBVIOUS
<1>1. pc["tb"] = "start" /\ pc["emu"] = "unborn"
  BY DEF Init, Proc
<1>2. SyncOK
  <2>1. pc \in [Proc -> BenchPlace \cup EmuPlace]
    BY DEF Init, BenchPlace, EmuPlace
  <2>2. pc["tb"] \in BenchPlace /\ pc["emu"] \in EmuPlace
    BY <1>1 DEF BenchPlace, EmuPlace
  <2>3. inside \in [Proc -> BOOLEAN] /\ linked \in BOOLEAN
    BY DEF Init
  <2>4. sem \in 0 .. 1 /\ control \in 0 .. 2
    BY DEF Init
  <2> QED BY <2>1, <2>2, <2>3, <2>4 DEF SyncOK
<1>3. Counting /\ Semaphore
  BY <1>1 DEF Init, Counting, Semaphore, Proc
<1>4. Lifetime /\ Between /\ Settled /\ Fetching /\ Waiting
  BY <1>1 DEF Init, Lifetime, Between, Settled, Fetching, Waiting, Busy
<1> QED BY <1>2, <1>3, <1>4 DEF Handshake

LEMMA EnterHandshake ==
  ASSUME Handshake, NEW p \in Proc, Enter(p)
  PROVE  Handshake'
<1> QED
  BY DEF Handshake, SyncOK, BenchPlace, EmuPlace, Counting, Semaphore, Lifetime, Between, Settled,
         Fetching, Waiting, Proc, Access, Gone, Busy, Enter, view, local, bench

LEMMA BenchHandshake ==
  ASSUME Handshake, Call \/ Bench
  PROVE  Handshake'
<1> USE DEF Handshake, SyncOK, BenchPlace, EmuPlace, Counting, Semaphore, Lifetime, Between, Settled,
            Fetching, Waiting, Proc, Access, Gone, Busy, Goto, Leave, view,
            local, bench
<1>1. CASE tbEmusrupProceed
  BY <1>1 DEF tbEmusrupProceed
<1>2. CASE tbEmusrupStop
  BY <1>2 DEF tbEmusrupStop
<1>3. CASE \E r \in AllReg : tbEmusrupCheck(r)
  BY <1>3 DEF tbEmusrupCheck
<1>4. CASE Start
  BY <1>4 DEF Start
<1>5. CASE WriteChpid
  BY <1>5 DEF WriteChpid
<1>6. CASE Request
  BY <1>6 DEF Request
<1>7. CASE Poll
  BY <1>7 DEF Poll
<1>8. CASE FetchInstruction
  BY <1>8 DEF FetchInstruction
<1>9. CASE ReadForCheck
  BY <1>9 DEF ReadForCheck
<1>10. CASE ReadChpid
  BY <1>10 DEF ReadChpid
<1>11. CASE Quit
  BY <1>11 DEF Quit
<1>12. CASE Reap
  BY <1>12 DEF Reap
<1> QED
  BY <1>1, <1>2, <1>3, <1>4, <1>5, <1>6, <1>7, <1>8, <1>9, <1>10, <1>11,
     <1>12 DEF Call, Bench

LEMMA EmuHandshake ==
  ASSUME Handshake, Emu
  PROVE  Handshake'
<1>0. \A tasks : Doing(tasks) \in {"task", "fault", "instruction"}
  BY DEF Doing
<1> USE DEF Handshake, SyncOK, BenchPlace, EmuPlace, Counting, Semaphore, Lifetime, Between, Settled,
            Fetching, Waiting, Proc, Access, Gone, Busy, Goto, Leave, EmuLeave,
            view, local, bench
<1>1. CASE ReadControl
  BY <1>1 DEF ReadControl
<1>2. CASE Decode
  BY <1>2, DecodeStep
<1>3. CASE WriteRegister
  BY <1>3, <1>0 DEF WriteRegister
<1>4. CASE SwapRegisters
  BY <1>4, <1>0 DEF SwapRegisters
<1>5. CASE Fail
  BY <1>5 DEF Fail
<1>6. CASE WriteInstruction
  BY <1>6 DEF WriteInstruction
<1>7. CASE WriteControl
  BY <1>7 DEF WriteControl
<1> QED
  BY <1>1, <1>2, <1>3, <1>4, <1>5, <1>6, <1>7 DEF Emu

LEMMA StutterHandshake == Handshake /\ UNCHANGED vars => Handshake'
  BY DEF Handshake, SyncOK, BenchPlace, EmuPlace, Counting, Semaphore, Lifetime, Between, Settled,
         Fetching, Waiting, vars, sync, view, local, bench

(* The handshake holds in every state of every run.                        *)
THEOREM HandshakeInvariant == Spec => []Handshake
<1>1. Handshake /\ [Next]_vars => Handshake'
  BY EnterHandshake, BenchHandshake, EmuHandshake, StutterHandshake
     DEF Next, Ended
<1> QED BY InitHandshake, <1>1, PTL DEF Spec

-----------------------------------------------------------------------------
(* The semaphore keeps the processes apart, and no access comes before the *)
(* memory is made or after it is removed (MemoryGuarded).                  *)
THEOREM GuardedMemory == Spec => []MemoryGuarded
<1>1. Handshake => MemoryGuarded
  BY DEF Handshake, Semaphore, Lifetime, Between, SyncOK, MemoryGuarded, Proc,
         Access, Gone, Busy
<1> QED BY <1>1, HandshakeInvariant, PTL

(* One call of tbEmusrupProceed is one instruction, and it returns the code*)
(* of that one (OneStepPerCall).                                           *)
THEOREM CallsAreSteps == Spec => []OneStepPerCall
<1>1. Handshake => OneStepPerCall
  BY DEF Handshake, Counting, Between, Settled, Fetching, Waiting,
         OneStepPerCall, Stepping
<1> QED BY <1>1, HandshakeInvariant, PTL

(* Between two steps the emulator leaves registers and instruction alone   *)
(* (QuietBetweenSteps).                                                    *)
THEOREM QuietAfterStep == Spec => QuietBetweenSteps
<1>1. Handshake /\ [Next]_vars => QuietStep
  <2> SUFFICES ASSUME Handshake, [Next]_vars, linked, pc["tb"] # "poll"
               PROVE  UNCHANGED <<view, instruction>>
    BY DEF QuietStep
  <2> USE DEF Handshake, SyncOK, BenchPlace, EmuPlace, Lifetime, Between, Busy, Leave, Goto, EmuLeave, view
  <2>1. CASE Call
    BY <2>1 DEF Call, tbEmusrupProceed, tbEmusrupStop, tbEmusrupCheck
  <2>2. CASE Bench
    <3>1. CASE Start
      BY <3>1 DEF Start
    <3>2. CASE ~Start
      BY <2>2, <3>2 DEF Bench, WriteChpid, Request, Poll, FetchInstruction,
                        ReadForCheck, ReadChpid, Quit, Reap
    <3> QED BY <3>1, <3>2
  <2>3. CASE Emu
    <3>1. ~Decode /\ ~WriteRegister /\ ~SwapRegisters /\ ~WriteInstruction
      BY DecodeStep DEF WriteRegister, SwapRegisters, WriteInstruction
    <3> QED BY <2>3, <3>1 DEF Emu, ReadControl, Fail, WriteControl
  <2>4. CASE \E p \in Proc : Enter(p)
    BY <2>4 DEF Enter
  <2>5. CASE Ended \/ UNCHANGED vars
    BY <2>5 DEF Ended, vars
  <2> QED BY <2>1, <2>2, <2>3, <2>4, <2>5 DEF Next
<1> QED BY <1>1, HandshakeInvariant, PTL DEF QuietBetweenSteps, Spec
-----------------------------------------------------------------------------
(* Types. *)

(* Numbers have names from what has been executed so far.                  *)
LEMMA IdsGrow ==
  ASSUME instr \in Nat, instr' \in {instr, instr + 1}
  PROVE  Ids \subseteq Ids'
  BY DEF Ids

Numbers == [id : Ids, limbs : Nat]

LEMMA ZeroNumber == instr \in Nat => Zero \in Numbers /\ Zero.limbs = 1 /\ Spoilt \in Ids
  BY DEF Zero, Num, Numbers, Ids, Spoilt

LEMMA ResultNumber ==
  ASSUME instr \in Nat, instr' = instr + 1, NEW k \in 1 .. 2, NEW limbs \in Nat
  PROVE  Result(k, limbs) \in Numbers' /\ Result(k, limbs).limbs = limbs
<1>1. <<instr + 1, k>> \in Ids'
  BY DEF Ids
<1> QED BY <1>1 DEF Result, Num, Numbers

(* What an instruction leaves in reg and in the list of tasks has its type.*)
LEMMA TasksTyped ==
  ASSUME NEW r \in AllReg, NEW v \in Numbers', NEW save \in Nat
  PROVE  {Put(r, v), PutWide(r, v, save), PutTwos(r, v, save)} \subseteq Tasks'
  BY DEF Put, PutWide, PutTwos, Task, Tasks, Numbers

LEMMA MarksTyped ==
  ASSUME instr \in Nat, instr' \in Nat, NEW r \in AllReg
  PROVE  SwapWith(r) \in Tasks' /\ Exit \in Tasks'
  BY DpiAssumption
     DEF SwapWith, Exit, Task, Tasks, Zero, Num, Ids, Shadow, AllReg

LEMMA ExecuteTyped ==
  ASSUME TypeOK, NEW kind, NEW newreg \in [AllReg -> Numbers'], NEW tasks \in Seq(Tasks'),
         Execute(kind, newreg, tasks)
  PROVE  TypeOK'
<1>1. /\ instr \in Nat /\ instr' = instr + 1 /\ Ids \subseteq Ids'
      /\ kind \in Kinds /\ ex_cmd' = kind /\ reg' = newreg /\ todo' = tasks
  BY IdsGrow DEF Execute, TypeOK, CountsOK
<1>2. SyncOK'
  <2>1. Doing(tasks) \in EmuPlace
    BY DEF Doing, EmuPlace
  <2> QED BY <2>1 DEF TypeOK, SyncOK, Execute, Goto, Proc
<1>3. CountsOK'
  BY <1>1 DEF TypeOK, CountsOK, Execute, bench
<1>4. RegistersOK'
  BY <1>1 DEF TypeOK, RegistersOK, Execute, bench, view, Numbers
<1> QED BY <1>2, <1>3, <1>4 DEF TypeOK

LEMMA SizesTyped ==
  ASSUME NEW a, NEW b, a.limbs \in Nat, b.limbs \in Nat, instr \in Nat, instr' = instr + 1
  PROVE  /\ Products(a, b) \subseteq Numbers'
         /\ Differences(a, b) \subseteq Numbers'
         /\ Sums(a, b) \subseteq Numbers'
         /\ \A s \in Differences(a, b) : Opposite(s) \in Numbers'
<1>1. Zero \in Numbers'
  BY DEF Zero, Num, Numbers, Ids
<1>2. \A limbs \in Nat : Result(1, limbs) \in Numbers' /\ Result(2, limbs) \in Numbers'
  BY ResultNumber
<1>3. larger(a.limbs, b.limbs) \in Nat
  BY DEF larger
<1>4. Products(a, b) \subseteq Numbers'
  BY <1>1, <1>2 DEF Products
<1>5. Differences(a, b) \subseteq Numbers'
  BY <1>1, <1>2, <1>3 DEF Differences
<1>6. Sums(a, b) \subseteq Numbers'
  BY <1>1, <1>2, <1>3 DEF Sums
<1>7. ASSUME NEW s \in Differences(a, b) PROVE Opposite(s) \in Numbers'
  BY <1>1, <1>2, <1>5 DEF Opposite, Numbers
<1> QED BY <1>4, <1>5, <1>6, <1>7

LEMMA DecodeTyped ==
  ASSUME TypeOK, Decode
  PROVE  TypeOK'
<1>1. /\ instr \in Nat /\ instr' = instr + 1 /\ Ids \subseteq Ids'
  BY DecodeStep, IdsGrow DEF TypeOK, CountsOK
<1>2. /\ Logic \subseteq AllReg /\ Shadow \in AllReg
  BY DpiAssumption DEF Logic, AllReg, Shadow
<1>3. reg \in [AllReg -> Numbers']
  BY <1>1 DEF TypeOK, RegistersOK, Numbers
<1>4. LoadLimbs \subseteq Nat
  BY DpiAssumption
<1>5. CASE Unl
  <2>1. <<>> \in Seq(Tasks')
    OBVIOUS
  <2> QED BY <1>3, <1>5, <2>1, ExecuteTyped DEF Unl
<1>6. CASE Faulty
  <2>1. <<Exit>> \in Seq(Tasks')
    BY <1>1, <1>2, MarksTyped
  <2> QED BY <1>3, <1>6, <2>1, ExecuteTyped DEF Faulty
<1>7. ASSUME NEW r \in Logic, ZeroReg(r)
      PROVE  TypeOK'
  <2>1. Zero \in Numbers' /\ Zero.limbs \in Nat
    BY <1>1 DEF Zero, Num, Numbers, Ids
  <2>2. <<Put(r, Zero)>> \in Seq(Tasks')
    BY <1>2, <2>1, TasksTyped
  <2> QED BY <1>2, <1>3, <1>7, <2>1, <2>2, ExecuteTyped DEF ZeroReg
<1>8. ASSUME NEW r \in Logic, Load(r)
      PROVE  TypeOK'
  <2>1. PICK limbs \in LoadLimbs :
          Execute("load", [reg EXCEPT ![r] = Result(1, limbs)], <<Put(r, Result(1, limbs))>>)
    BY <1>8 DEF Load
  <2>2. Result(1, limbs) \in Numbers' /\ limbs \in Nat
    BY <1>1, <1>4, ResultNumber
  <2>3. <<Put(r, Result(1, limbs))>> \in Seq(Tasks')
    BY <1>2, <2>2, TasksTyped
  <2> QED BY <1>2, <1>3, <2>1, <2>2, <2>3, ExecuteTyped
<1>9. ASSUME NEW x \in Logic, NEW y \in Logic, Cprs(x, y)
      PROVE  TypeOK'
  <2>1. reg[x] \in Numbers'
    BY <1>2, <1>3
  <2>2. <<Put(y, reg[x])>> \in Seq(Tasks')
    BY <1>2, <2>1, TasksTyped
  <2> QED BY <1>2, <1>3, <1>9, <2>1, <2>2, ExecuteTyped DEF Cprs
<1>10. ASSUME NEW x \in Logic, NEW y \in Logic, Loaab(x, y)
       PROVE  TypeOK'
  <2>1. PICK la \in LoadLimbs, lb \in LoadLimbs :
          \/ Execute("loaab", [reg EXCEPT ![x] = Result(1, la), ![y] = Result(2, lb)],
                     <<Put(x, Result(1, la)), Put(y, Result(2, lb))>>)
          \/ Execute("loaab", [reg EXCEPT ![x] = Result(1, la)],
                     <<Put(x, Result(1, la)), Exit>>)
    BY <1>10 DEF Loaab
  <2>2. Result(1, la) \in Numbers' /\ Result(2, lb) \in Numbers' /\ la \in Nat /\ lb \in Nat
    BY <1>1, <1>4, ResultNumber
  <2>3. Put(x, Result(1, la)) \in Tasks' /\ Put(y, Result(2, lb)) \in Tasks' /\ Exit \in Tasks'
    BY <1>1, <1>2, <2>2, TasksTyped, MarksTyped
  <2>4. /\ <<Put(x, Result(1, la)), Put(y, Result(2, lb))>> \in Seq(Tasks')
        /\ <<Put(x, Result(1, la)), Exit>> \in Seq(Tasks')
    BY <2>3
  <2>5. /\ [reg EXCEPT ![x] = Result(1, la), ![y] = Result(2, lb)] \in [AllReg -> Numbers']
        /\ [reg EXCEPT ![x] = Result(1, la)] \in [AllReg -> Numbers']
    BY <1>2, <1>3, <2>2
  <2> QED BY <2>1, <2>4, <2>5, ExecuteTyped
<1>11. ASSUME NEW x \in Logic, NEW y \in Logic, NEW z \in Logic, Mult(x, y, z)
       PROVE  TypeOK'
  <2> DEFINE new(v)  == [reg EXCEPT ![z] = v]
             save(v) == new(v)[x].limbs + new(v)[y].limbs
  <2>1. PICK v \in Products(reg[x], reg[y]) : Execute("mult", new(v), <<PutWide(z, v, save(v))>>)
    BY <1>11 DEF Mult
  <2>2. v \in Numbers'
    BY <1>1, <1>2, <1>3, SizesTyped DEF Numbers
  <2>3. new(v) \in [AllReg -> Numbers'] /\ save(v) \in Nat
    BY <1>2, <1>3, <2>2 DEF Numbers
  <2> HIDE DEF new, save
  <2>4. <<PutWide(z, v, save(v))>> \in Seq(Tasks')
    BY <1>2, <2>2, <2>3, TasksTyped
  <2> QED BY <2>1, <2>3, <2>4, ExecuteTyped
<1>12. ASSUME NEW x \in Logic, NEW y \in Logic, NEW z \in Logic, AddSub(x, y, z)
       PROVE  TypeOK'
  <2> DEFINE new(v, s)  == [reg EXCEPT ![z] = v, ![Shadow] = s]
             save(v, s) == larger(new(v, s)[x].limbs, new(v, s)[y].limbs) + 1
  <2>1. PICK s \in Differences(reg[x], reg[y]) :
          \E v \in Sums(reg[x], reg[y]) \cup {Opposite(s)} :
          \/ Execute("add_sub", new(v, s), <<PutWide(z, v, save(v, s)),
                                             PutWide(Shadow, s, save(v, s))>>)
          \/ Execute("add_sub", new(v, s), <<PutWide(z, v, save(v, s)),
                                             PutTwos(Shadow, s, save(v, s))>>)
          \/ Execute("add_sub", new(v, s), <<PutTwos(z, v, save(v, s)),
                                             PutWide(Shadow, s, save(v, s)), SwapWith(z)>>)
    BY <1>12 DEF AddSub
  <2>5. PICK v \in Sums(reg[x], reg[y]) \cup {Opposite(s)} :
          \/ Execute("add_sub", new(v, s), <<PutWide(z, v, save(v, s)),
                                             PutWide(Shadow, s, save(v, s))>>)
          \/ Execute("add_sub", new(v, s), <<PutWide(z, v, save(v, s)),
                                             PutTwos(Shadow, s, save(v, s))>>)
          \/ Execute("add_sub", new(v, s), <<PutTwos(z, v, save(v, s)),
                                             PutWide(Shadow, s, save(v, s)), SwapWith(z)>>)
    BY <2>1
  <2>2. v \in Numbers' /\ s \in Numbers'
    BY <1>1, <1>2, <1>3, SizesTyped DEF Numbers
  <2>3. new(v, s) \in [AllReg -> Numbers'] /\ save(v, s) \in Nat
    BY <1>2, <1>3, <2>2 DEF Numbers, larger
  <2> HIDE DEF new, save
  <2>4. /\ PutWide(z, v, save(v, s)) \in Tasks' /\ PutTwos(z, v, save(v, s)) \in Tasks'
        /\ PutWide(Shadow, s, save(v, s)) \in Tasks' /\ PutTwos(Shadow, s, save(v, s)) \in Tasks'
        /\ SwapWith(z) \in Tasks'
    BY <1>1, <1>2, <2>2, <2>3, TasksTyped, MarksTyped
  <2>6. /\ <<PutWide(z, v, save(v, s)), PutWide(Shadow, s, save(v, s))>> \in Seq(Tasks')
        /\ <<PutWide(z, v, save(v, s)), PutTwos(Shadow, s, save(v, s))>> \in Seq(Tasks')
        /\ <<PutTwos(z, v, save(v, s)), PutWide(Shadow, s, save(v, s)), SwapWith(z)>>
             \in Seq(Tasks')
    BY <2>4
  <2> QED BY <2>3, <2>5, <2>6, ExecuteTyped, Zenon
<1> QED BY <1>5, <1>6, <1>7, <1>8, <1>9, <1>10, <1>11, <1>12 DEF Decode

(* The emulator is at a task only while there is one.                      *)
Queued == pc["emu"] = "task" => todo # <<>>

LEMMA TaskTyped ==
  ASSUME TypeOK, Queued, Handshake', WriteRegister \/ SwapRegisters
  PROVE  TypeOK' /\ Queued'
<1>0. /\ pc["emu"] = "task" /\ todo # <<>> /\ todo' = Tail(todo)
      /\ pc' = [pc EXCEPT !["emu"] = Doing(Tail(todo))]
      /\ UNCHANGED <<bench, prog_len, instr, ex_cmd, instruction>>
  BY DEF Queued, WriteRegister, SwapRegisters, EmuLeave, Leave
<1>1. SyncOK' /\ CountsOK'
  BY <1>0 DEF Handshake, TypeOK, CountsOK, bench
<1>2. Ids' = Ids /\ Tasks' = Tasks /\ todo \in Seq(Tasks)
  BY <1>0 DEF Ids, Tasks, TypeOK, RegistersOK
<1>3. Head(todo) \in Tasks /\ todo' \in Seq(Tasks)
  BY <1>0, <1>2
<1>4. Spoilt \in Ids
  BY DEF Spoilt, Ids, TypeOK, CountsOK
<1>5. Shadow \in AllReg /\ Head(todo).r \in AllReg
  BY <1>3, DpiAssumption DEF Shadow, AllReg, Tasks
<1>6. CASE WriteRegister
  <2>1. data' \in [AllReg -> Ids] /\ prec' \in [AllReg -> Nat]
    BY <1>3, <1>4, <1>6 DEF WriteRegister, Tasks, TypeOK, RegistersOK
  <2> QED BY <1>0, <1>1, <1>2, <1>3, <1>6, <2>1
          DEF WriteRegister, TypeOK, RegistersOK, bench, Queued, Doing, SyncOK, Proc
<1>7. CASE SwapRegisters
  <2>1. /\ data' \in [AllReg -> Ids] /\ prec' \in [AllReg -> Nat]
        /\ shm_phys' \in [AllReg -> AllReg] /\ phys' \in [AllReg -> AllReg]
        /\ reg' \in [AllReg -> [id : Ids, limbs : Nat]]
    BY <1>5, <1>7 DEF SwapRegisters, Exchanged, TypeOK, RegistersOK
  <2> QED BY <1>0, <1>1, <1>2, <1>3, <2>1
          DEF TypeOK, RegistersOK, bench, Queued, Doing, SyncOK, Proc
<1> QED BY <1>6, <1>7

LEMMA TypedStep ==
  ASSUME TypeOK, Queued, Handshake', [Next]_vars
  PROVE  TypeOK' /\ Queued'
<1>1. SyncOK'
  BY DEF Handshake
<1>2. CASE WriteRegister \/ SwapRegisters
  BY <1>2, TaskTyped
<1>3. CASE Decode
  <2>1. pc' = [pc EXCEPT !["emu"] = Doing(todo')]
    BY <1>3, DecodeStep
  <2>2. Queued'
    BY <2>1 DEF Queued, Doing, TypeOK, SyncOK, Proc
  <2> QED BY <1>3, <2>2, DecodeTyped
<1>4. CASE Start
  <2>1. Zero.id \in Ids /\ Zero.limbs \in Nat
    BY DEF Zero, Num, Ids, TypeOK, CountsOK
  <2>2. UNCHANGED <<local, bench, instruction>> /\ pc'["emu"] # "task"
    BY <1>4 DEF Start
  <2>3. Ids' = Ids /\ Tasks' = Tasks
    BY <2>2 DEF Ids, Tasks, local
  <2> QED BY <1>1, <1>4, <2>1, <2>2, <2>3
          DEF Start, TypeOK, CountsOK, RegistersOK, local, bench, Queued
<1>5. CASE ReadForCheck
  <2>1. UNCHANGED <<local, view, instruction, opcode_instr, addr, steps>>
        /\ pc'["emu"] = pc["emu"]
    BY <1>5 DEF ReadForCheck, Leave, TypeOK, SyncOK, Proc
  <2>2. Ids' = Ids /\ Tasks' = Tasks
    BY <2>1 DEF Ids, Tasks, local
  <2>3. seen' \subseteq [r : AllReg, id : Ids, prec : Nat, phys : AllReg]
    BY <1>5 DEF ReadForCheck, TypeOK, RegistersOK, CountsOK
  <2> QED BY <1>1, <2>1, <2>2, <2>3 DEF TypeOK, CountsOK, RegistersOK, local, view, Queued
<1>6. ASSUME UNCHANGED <<local, view>>, CountsOK', seen' \in {seen, {}},
             pc'["emu"] = "task" => pc["emu"] = "task"
      PROVE  TypeOK' /\ Queued'
  <2>1. Ids' = Ids /\ Tasks' = Tasks
    BY <1>6 DEF Ids, Tasks, local
  <2> QED BY <1>1, <1>6, <2>1 DEF TypeOK, RegistersOK, local, view, Queued
<1> USE DEF TypeOK, SyncOK, CountsOK, Proc, Leave, Goto, EmuLeave, local, bench
<1>7. CASE tbEmusrupProceed \/ tbEmusrupStop \/ (\E r \in AllReg : tbEmusrupCheck(r))
  BY <1>6, <1>7 DEF tbEmusrupProceed, tbEmusrupStop, tbEmusrupCheck
<1>8. CASE WriteChpid \/ Request \/ Poll \/ FetchInstruction \/ ReadChpid \/ Quit \/ Reap
  BY <1>6, <1>8 DEF WriteChpid, Request, Poll, FetchInstruction, ReadChpid, Quit, Reap
<1>9. CASE ReadControl \/ Fail \/ WriteInstruction \/ WriteControl
  BY <1>6, <1>9 DEF ReadControl, Fail, WriteInstruction, WriteControl
<1>10. CASE \E p \in Proc : Enter(p)
  BY <1>6, <1>10 DEF Enter
<1>11. CASE Ended \/ UNCHANGED vars
  BY <1>6, <1>11 DEF Ended, vars, sync
<1> QED BY <1>2, <1>3, <1>4, <1>5, <1>7, <1>8, <1>9, <1>10, <1>11 DEF Next, Call, Bench, Emu

LEMMA TypedInvariant == Spec => [](TypeOK /\ Queued)
<1>1. Init => TypeOK /\ Queued
  <2> SUFFICES ASSUME Init PROVE TypeOK /\ Queued
    OBVIOUS
  <2>1. SyncOK
    BY InitHandshake DEF Handshake
  <2>2. Zero \in [id : Ids, limbs : Nat] /\ Spoilt \in Ids /\ 0 \in AllReg
    BY DpiAssumption DEF Init, Zero, Num, Spoilt, Ids, AllReg
  <2>3. CountsOK /\ Queued
    BY <2>2 DEF Init, CountsOK, Queued, Proc
  <2>4. RegistersOK
    BY <2>2 DEF Init, RegistersOK
  <2> QED BY <2>1, <2>3, <2>4 DEF TypeOK
<1>2. TypeOK /\ Queued /\ Handshake' /\ [Next]_vars => TypeOK' /\ Queued'
  BY TypedStep
<1> QED BY <1>1, <1>2, HandshakeInvariant, PTL DEF Spec

(* Every variable has its type, for every program and any sizes (TypeOK).  *)
THEOREM TypeCorrect == Spec => []TypeOK
  BY TypedInvariant, PTL

-----------------------------------------------------------------------------
(* The shared copy.  A step writes it task by task; in between a register  *)
(* agrees with the emulator, or a task that will make it agree is left.    *)

Agrees(r) == /\ data[r] = reg[r].id
             /\ r \in Logic => prec[r] = reg[r].limbs

AgreeExcept(rs) == \A r \in AllReg \ rs : Agrees(r)

(* The task writes what the emulator has in this register.                 *)
Brings(t) == t.do = "put" /\ t.r \in AllReg /\ t.id = reg[t.r].id
BringsAll(t) == Brings(t) /\ t.prec = reg[t.r].limbs
Settles(t)   == Brings(t) /\ (t.r \in Logic => t.prec = reg[t.r].limbs)

OnePut   == \E t : /\ todo = <<t>> \/ todo = <<t, Exit>>
                   /\ Settles(t) /\ AgreeExcept({t.r})
TwoPuts  == \E t, u : /\ todo = <<t, u>>
                      /\ t.do = "put" /\ t.r \in AllReg
                      /\ t.r # u.r => Settles(t)
                      /\ Settles(u) /\ AgreeExcept({t.r, u.r})

(* Before a swap it is the precision of the shadow register that counts.   *)
SwapLast == \E z \in Logic :
  \/ \E t, u : /\ todo = <<t, u, SwapWith(z)>>
               /\ Brings(t) /\ t.r = z
               /\ BringsAll(u) /\ u.r = Shadow
               /\ AgreeExcept({z, Shadow})
  \/ \E u : /\ todo = <<u, SwapWith(z)>>
            /\ data[z] = reg[z].id
            /\ BringsAll(u) /\ u.r = Shadow
            /\ AgreeExcept({z, Shadow})
  \/ /\ todo = <<SwapWith(z)>>
     /\ data[z] = reg[z].id
     /\ data[Shadow] = reg[Shadow].id /\ prec[Shadow] = reg[Shadow].limbs
     /\ AgreeExcept({z, Shadow})

Pending == OnePut \/ TwoPuts \/ SwapLast

Follows == /\ shm_phys = phys
           /\ IF pc["emu"] = "task" THEN Pending ELSE \A r \in AllReg : Agrees(r)

(* Before tbEmusrupStart the emulator is as it will start.                 *)
ViewInv == /\ linked => Follows
           /\ pc["tb"] = "start" => /\ reg = [r \in AllReg |-> Zero]
                                    /\ phys = [r \in AllReg |-> r]

(* The limbs that the next task clears are in the slot of its register, or *)
(* are the header of the next slot, which nobody reads.                    *)
Fits == todo # <<>> =>
          Head(todo).save <= SlotLimbs + (IF Head(todo).r = Shadow THEN 0 ELSE 1)

LEMMA Registers == Logic \subseteq AllReg /\ Shadow \in AllReg /\ Shadow \notin Logic
  BY DpiAssumption DEF Logic, AllReg, Shadow

(* Within its slot a task writes its register and no other.                *)
LEMMA WritesOne ==
  ASSUME TypeOK, Queued, Fits, WriteRegister
  PROVE  LET t == Head(todo)
         IN  /\ t.do = "put" /\ t.r \in AllReg
             /\ data'[t.r] = t.id /\ prec'[t.r] = t.prec
             /\ \A r \in AllReg \ {t.r} : data'[r] = data[r] /\ prec'[r] = prec[r]
<1> DEFINE t == Head(todo)
<1>1. todo # <<>> /\ t \in Tasks
  BY DEF TypeOK, RegistersOK, Queued, WriteRegister, EmuLeave, Leave
<1>2. t.r \in AllReg /\ t.save \in Nat /\ SlotLimbs \in Nat
  BY <1>1, DpiAssumption DEF Tasks
<1>3. \A r \in AllReg : r \in Nat /\ (t.r = Shadow => r # t.r + 1)
  BY DpiAssumption DEF AllReg, Shadow
<1>4. t.save - SlotLimbs <= IF t.r = Shadow THEN 0 ELSE 1
  BY <1>1, <1>2 DEF Fits
<1> QED BY <1>2, <1>3, <1>4 DEF WriteRegister

(* An instruction leaves tasks for whatever it changed.                    *)
LEMMA DecodePending ==
  ASSUME TypeOK, Decode, \A r \in AllReg : Agrees(r)
  PROVE  IF pc'["emu"] = "task" THEN Pending'
                                ELSE \A r \in AllReg : Agrees(r)'
<1>0. /\ pc'["emu"] = Doing(todo')
      /\ UNCHANGED <<data, prec>>
      /\ reg = [r \in AllReg |-> reg[r]]
  BY DecodeStep DEF TypeOK, SyncOK, Proc, RegistersOK, view
<1>1. CASE Unl \/ Faulty
  <2>1. reg' = reg /\ todo' \in {<<>>, <<Exit>>}
    BY <1>1 DEF Unl, Faulty, Execute
  <2>2. Doing(todo') # "task"
    BY <2>1 DEF Doing, Exit, Task
  <2> QED BY <1>0, <2>1, <2>2 DEF Agrees
<1>2. ASSUME NEW r \in Logic, NEW v, reg' = [reg EXCEPT ![r] = v],
             todo' \in {<<Put(r, v)>>, <<Put(r, v), Exit>>}
      PROVE  OnePut'
  <2>1. reg'[r] = v /\ \A q \in AllReg \ {r} : reg'[q] = reg[q]
    BY <1>0, <1>2, Registers
  <2>2. \A q \in AllReg \ {r} : Agrees(q)'
    BY <1>0, <2>1 DEF Agrees
  <2>3. Put(r, v).r = r /\ Settles(Put(r, v))'
    BY <2>1, Registers DEF Settles, Brings, Put, Task
  <2> QED BY <1>2, <2>2, <2>3 DEF OnePut, AgreeExcept
<1>3. ASSUME NEW r \in Logic, ZeroReg(r) \/ Load(r)
      PROVE  OnePut'
  <2>1. PICK kind, v : Execute(kind, [reg EXCEPT ![r] = v], <<Put(r, v)>>)
    BY <1>3, Zenon DEF ZeroReg, Load
  <2> QED BY <1>2, <2>1 DEF Execute
<1>4. ASSUME NEW x \in Logic, NEW y \in Logic, Cprs(x, y)
      PROVE  OnePut'
  <2>1. Execute("cprs", [reg EXCEPT ![y] = reg[x]], <<Put(y, reg[x])>>)
    BY <1>4 DEF Cprs
  <2> QED BY <1>2, <2>1 DEF Execute
<1>5. ASSUME NEW x \in Logic, NEW y \in Logic, Loaab(x, y)
      PROVE  (OnePut \/ TwoPuts)'
  <2>1. CASE \E a : Execute("loaab", [reg EXCEPT ![x] = a], <<Put(x, a), Exit>>)
    BY <1>2, <2>1 DEF Execute
  <2>2. ASSUME NEW a, NEW b,
               Execute("loaab", [reg EXCEPT ![x] = a, ![y] = b], <<Put(x, a), Put(y, b)>>)
        PROVE  TwoPuts'
    <3>1. /\ reg'[y] = b /\ (x # y => reg'[x] = a)
          /\ \A q \in AllReg \ {x, y} : reg'[q] = reg[q]
      BY <1>0, <2>2, Registers DEF Execute
    <3>2. \A q \in AllReg \ {x, y} : Agrees(q)'
      BY <1>0, <3>1 DEF Agrees
    <3>3. /\ Put(x, a).r = x /\ Put(x, a).do = "put" /\ (x # y => Settles(Put(x, a))')
          /\ Put(y, b).r = y /\ Settles(Put(y, b))'
      BY <3>1, Registers DEF Settles, Brings, Put, Task
    <3>4. todo' = <<Put(x, a), Put(y, b)>>
      BY <2>2 DEF Execute
    <3> QED BY <3>2, <3>3, <3>4, Registers DEF TwoPuts, AgreeExcept
  <2> QED BY <1>5, <2>1, <2>2 DEF Loaab
<1>6. ASSUME NEW x \in Logic, NEW y \in Logic, NEW z \in Logic, Mult(x, y, z)
      PROVE  OnePut'
  <2>1. PICK v, save : Execute("mult", [reg EXCEPT ![z] = v], <<PutWide(z, v, save)>>)
    BY <1>6 DEF Mult
  <2>2. reg'[z] = v /\ \A q \in AllReg \ {z} : reg'[q] = reg[q]
    BY <1>0, <2>1, Registers DEF Execute
  <2>3. \A q \in AllReg \ {z} : Agrees(q)'
    BY <1>0, <2>2 DEF Agrees
  <2>4. PutWide(z, v, save).r = z /\ Settles(PutWide(z, v, save))'
    BY <2>2, Registers DEF Settles, Brings, PutWide, Task
  <2>5. todo' = <<PutWide(z, v, save)>>
    BY <2>1 DEF Execute
  <2> QED BY <2>3, <2>4, <2>5 DEF OnePut, AgreeExcept
<1>7. ASSUME NEW x \in Logic, NEW y \in Logic, NEW z \in Logic, AddSub(x, y, z)
      PROVE  (TwoPuts \/ SwapLast)'
  <2>1. PICK v, s, save :
          \/ Execute("add_sub", [reg EXCEPT ![z] = v, ![Shadow] = s],
                     <<PutWide(z, v, save), PutWide(Shadow, s, save)>>)
          \/ Execute("add_sub", [reg EXCEPT ![z] = v, ![Shadow] = s],
                     <<PutWide(z, v, save), PutTwos(Shadow, s, save)>>)
          \/ Execute("add_sub", [reg EXCEPT ![z] = v, ![Shadow] = s],
                     <<PutTwos(z, v, save), PutWide(Shadow, s, save), SwapWith(z)>>)
    BY <1>7 DEF AddSub
  <2>2. /\ reg'[z] = v /\ reg'[Shadow] = s /\ z # Shadow
        /\ \A q \in AllReg \ {z, Shadow} : reg'[q] = reg[q]
    BY <1>0, <2>1, Registers DEF Execute
  <2>3. AgreeExcept({z, Shadow})'
    BY <1>0, <2>2 DEF Agrees, AgreeExcept
  <2>4. /\ PutWide(z, v, save).r = z /\ PutWide(z, v, save).do = "put"
        /\ PutTwos(z, v, save).r = z
        /\ PutWide(Shadow, s, save).r = Shadow /\ PutTwos(Shadow, s, save).r = Shadow
    BY DEF PutWide, PutTwos, Task
  <2>5. /\ Settles(PutWide(z, v, save))' /\ Brings(PutTwos(z, v, save))'
        /\ Settles(PutWide(Shadow, s, save))' /\ Settles(PutTwos(Shadow, s, save))'
        /\ BringsAll(PutWide(Shadow, s, save))'
    BY <2>2, Registers DEF Settles, Brings, BringsAll, PutWide, PutTwos, Task
  <2>6. CASE todo' \in {<<PutWide(z, v, save), PutWide(Shadow, s, save)>>,
                        <<PutWide(z, v, save), PutTwos(Shadow, s, save)>>}
    BY <2>3, <2>4, <2>5, <2>6, Registers DEF TwoPuts
  <2>7. CASE todo' = <<PutTwos(z, v, save), PutWide(Shadow, s, save), SwapWith(z)>>
    BY <2>3, <2>4, <2>5, <2>7 DEF SwapLast
  <2> QED BY <2>1, <2>6, <2>7 DEF Execute
<1>8. ASSUME OnePut' \/ TwoPuts' \/ SwapLast'
      PROVE  pc'["emu"] = "task"
  <2> SUFFICES todo' # <<>> /\ Head(todo').do # "exit"
    BY <1>0 DEF Doing
  <2>1. \A r : SwapWith(r).do = "swap"
    BY DEF SwapWith, Task
  <2>2. CASE OnePut'
    <3>1. PICK t : (todo' = <<t>> \/ todo' = <<t, Exit>>) /\ t.do = "put"
      BY <2>2, Zenon DEF OnePut, Settles, Brings
    <3>2. CASE todo' = <<t>>
      BY <3>1, <3>2
    <3>3. CASE todo' = <<t, Exit>>
      BY <3>1, <3>3
    <3> QED BY <3>1, <3>2, <3>3
  <2>3. CASE TwoPuts'
    <3>1. PICK t, u : todo' = <<t, u>> /\ t.do = "put"
      BY <2>3, Zenon DEF TwoPuts
    <3> QED BY <3>1
  <2>4. CASE SwapLast'
    <3>1. PICK z \in Logic :
            \/ \E t, u : todo' = <<t, u, SwapWith(z)>> /\ t.do = "put"
            \/ \E u : todo' = <<u, SwapWith(z)>> /\ u.do = "put"
            \/ todo' = <<SwapWith(z)>>
      BY <2>4, Zenon DEF SwapLast, BringsAll, Brings
    <3>2. CASE \E t, u : todo' = <<t, u, SwapWith(z)>> /\ t.do = "put"
      BY <3>2
    <3>3. CASE \E u : todo' = <<u, SwapWith(z)>> /\ u.do = "put"
      BY <3>3
    <3>4. CASE todo' = <<SwapWith(z)>>
      BY <2>1, <3>4
    <3> QED BY <3>1, <3>2, <3>3, <3>4
  <2> QED BY <1>8, <2>2, <2>3, <2>4
<1> QED
  <2>1. CASE Unl \/ Faulty
    BY <1>0, <1>1, <1>8, <2>1 DEF Pending
  <2>2. CASE ~(Unl \/ Faulty)
    BY <1>3, <1>4, <1>5, <1>6, <1>7, <1>8, <2>2 DEF Decode, Pending
  <2> QED BY <2>1, <2>2

(* A write settles its register and leaves the tasks that follow it.       *)
LEMMA WritePending ==
  ASSUME TypeOK, Queued, Fits, WriteRegister, Pending
  PROVE  IF pc'["emu"] = "task" THEN Pending'
                                ELSE \A r \in AllReg : Agrees(r)'
<1>0. PICK h : h = Head(todo)
  OBVIOUS
<1>1. /\ h.do = "put" /\ h.r \in AllReg
      /\ data'[h.r] = h.id /\ prec'[h.r] = h.prec
      /\ \A r \in AllReg \ {h.r} : data'[r] = data[r] /\ prec'[r] = prec[r]
  BY <1>0, WritesOne
<1>2. /\ reg' = reg /\ todo' = Tail(todo)
      /\ pc'["emu"] = Doing(todo')
  BY DEF WriteRegister, EmuLeave, Leave, TypeOK, SyncOK, Proc
<1>8. \A t, u : t.do # "exit" => Doing(<<t>>) = "task" /\ Doing(<<t, u>>) = "task"
  BY DEF Doing
<1>3. \A r \in AllReg \ {h.r} : Agrees(r) => Agrees(r)'
  BY <1>1, <1>2 DEF Agrees
<1>4. Settles(h) => Agrees(h.r)'
  BY <1>1, <1>2 DEF Settles, Brings, Agrees
<1>5. CASE OnePut
  <2>1. PICK t : (todo = <<t>> \/ todo = <<t, Exit>>) /\ Settles(t) /\ AgreeExcept({t.r})
    BY <1>5 DEF OnePut
  <2>2. h = t /\ (todo' = <<>> \/ todo' = <<Exit>>)
    <3>1. CASE todo = <<t>>
      BY <1>0, <1>2, <3>1
    <3>2. CASE todo = <<t, Exit>>
      BY <1>0, <1>2, <3>2
    <3> QED BY <2>1, <3>1, <3>2
  <2>3. \A r \in AllReg : Agrees(r)'
    BY <1>3, <1>4, <2>1, <2>2 DEF AgreeExcept
  <2>4. pc'["emu"] # "task"
    <3>1. Doing(<<>>) = "instruction" /\ Doing(<<Exit>>) = "fault"
      BY DEF Doing, Exit, Task
    <3> QED BY <1>2, <2>2, <3>1
  <2> QED BY <2>3, <2>4
<1>6. CASE TwoPuts
  <2>1. PICK t, u : /\ todo = <<t, u>> /\ (t.r # u.r => Settles(t))
                    /\ Settles(u) /\ AgreeExcept({t.r, u.r})
    BY <1>6 DEF TwoPuts
  <2>2. h = t /\ todo' = <<u>> /\ u.do = "put"
    BY <1>0, <1>2, <2>1 DEF Settles, Brings
  <2>3. AgreeExcept({u.r})'
    BY <1>3, <1>4, <2>1, <2>2 DEF AgreeExcept
  <2>4. Settles(u)'
    BY <1>2, <2>1 DEF Settles, Brings
  <2>5. OnePut'
    BY <2>2, <2>3, <2>4 DEF OnePut
  <2>6. pc'["emu"] = "task"
    BY <1>2, <1>8, <2>2
  <2> QED BY <2>5, <2>6 DEF Pending
<1>7. CASE SwapLast
  <2>0. \A z : SwapWith(z).do = "swap"
    BY DEF SwapWith, Task
  <2>1. PICK z \in Logic :
    \/ \E t, u : /\ todo = <<t, u, SwapWith(z)>>
                 /\ Brings(t) /\ t.r = z
                 /\ BringsAll(u) /\ u.r = Shadow
                 /\ AgreeExcept({z, Shadow})
    \/ \E u : /\ todo = <<u, SwapWith(z)>>
              /\ data[z] = reg[z].id
              /\ BringsAll(u) /\ u.r = Shadow
              /\ AgreeExcept({z, Shadow})
    \/ todo = <<SwapWith(z)>>
    BY <1>7, Zenon DEF SwapLast
  <2>2. ASSUME NEW t, NEW u, todo = <<t, u, SwapWith(z)>>,
               Brings(t), t.r = z, BringsAll(u), u.r = Shadow,
               AgreeExcept({z, Shadow})
        PROVE  SwapLast' /\ pc'["emu"] = "task"
    <3>1. h = t /\ todo' = <<u, SwapWith(z)>> /\ u.do = "put"
      BY <1>0, <1>2, <2>2 DEF BringsAll, Brings
    <3>2. data'[z] = reg'[z].id
      BY <1>1, <1>2, <2>2, <3>1 DEF Brings
    <3>3. AgreeExcept({z, Shadow})'
      BY <1>3, <2>2, <3>1 DEF AgreeExcept
    <3>4. BringsAll(u)'
      BY <1>2, <2>2 DEF BringsAll, Brings
    <3>5. pc'["emu"] = "task"
      BY <1>2, <1>8, <3>1
    <3> QED BY <2>2, <3>1, <3>2, <3>3, <3>4, <3>5, Zenon DEF SwapLast
  <2>3. ASSUME NEW u, todo = <<u, SwapWith(z)>>,
               data[z] = reg[z].id, BringsAll(u), u.r = Shadow,
               AgreeExcept({z, Shadow})
        PROVE  SwapLast' /\ pc'["emu"] = "task"
    <3>1. h = u /\ todo' = <<SwapWith(z)>>
      BY <1>0, <1>2, <2>3
    <3>2. data'[Shadow] = reg'[Shadow].id /\ prec'[Shadow] = reg'[Shadow].limbs
      BY <1>1, <1>2, <2>3, <3>1 DEF BringsAll, Brings
    <3>3. data'[z] = reg'[z].id
      BY <1>1, <1>2, <2>3, <3>1, Registers
    <3>4. AgreeExcept({z, Shadow})'
      BY <1>3, <2>3, <3>1 DEF AgreeExcept
    <3>5. pc'["emu"] = "task"
      BY <1>2, <1>8, <2>0, <3>1
    <3> QED BY <3>1, <3>2, <3>3, <3>4, <3>5 DEF SwapLast
  <2>4. todo # <<SwapWith(z)>>
    BY <1>0, <1>1, <2>0
  <2> QED BY <2>1, <2>2, <2>3, <2>4 DEF Pending
<1> QED BY <1>5, <1>6, <1>7 DEF Pending

(* The swap is the last task, and makes the copy agree again.              *)
LEMMA SwapPending ==
  ASSUME TypeOK, SwapRegisters, Pending, shm_phys = phys
  PROVE  /\ pc'["emu"] # "task" /\ \A r \in AllReg : Agrees(r)'
         /\ shm_phys' = phys'
<1>1. Head(todo).do = "swap"
  BY DEF SwapRegisters
<1>2. ~OnePut /\ ~TwoPuts
  <2>1. CASE OnePut
    <3>1. PICK t : (todo = <<t>> \/ todo = <<t, Exit>>) /\ t.do = "put"
      BY <2>1, Zenon DEF OnePut, Settles, Brings
    <3> QED BY <1>1, <3>1
  <2>2. CASE TwoPuts
    <3>1. PICK t, u : todo = <<t, u>> /\ t.do = "put"
      BY <2>2, Zenon DEF TwoPuts
    <3> QED BY <1>1, <3>1
  <2> QED BY <2>1, <2>2
<1>3. PICK z \in Logic :
        \/ \E t, u : todo = <<t, u, SwapWith(z)>> /\ t.do = "put"
        \/ \E u : todo = <<u, SwapWith(z)>> /\ u.do = "put"
        \/ /\ todo = <<SwapWith(z)>>
           /\ data[z] = reg[z].id
           /\ data[Shadow] = reg[Shadow].id /\ prec[Shadow] = reg[Shadow].limbs
           /\ AgreeExcept({z, Shadow})
  BY <1>2, Zenon DEF Pending, SwapLast, BringsAll, Brings
<1>4. /\ todo = <<SwapWith(z)>>
      /\ data[z] = reg[z].id
      /\ data[Shadow] = reg[Shadow].id /\ prec[Shadow] = reg[Shadow].limbs
      /\ AgreeExcept({z, Shadow})
  <2>1. ~\E t, u : todo = <<t, u, SwapWith(z)>> /\ t.do = "put"
    BY <1>1
  <2>2. ~\E u : todo = <<u, SwapWith(z)>> /\ u.do = "put"
    BY <1>1
  <2> QED BY <1>3, <2>1, <2>2
<1>5. Head(todo).r = z /\ Tail(todo) = <<>>
  BY <1>4 DEF SwapWith, Task
<1>6. /\ data' = Exchanged(data, z) /\ prec' = Exchanged(prec, z)
      /\ reg' = Exchanged(reg, z)
      /\ shm_phys' = Exchanged(shm_phys, z) /\ phys' = Exchanged(phys, z)
      /\ pc'["emu"] = "instruction"
  BY <1>5 DEF SwapRegisters, EmuLeave, Leave, TypeOK, SyncOK, Proc, Doing
<1>7. ASSUME NEW r \in AllReg PROVE Agrees(r)'
  <2>1. CASE r = z
    BY <1>4, <1>6, <2>1, Registers DEF Agrees, Exchanged, TypeOK, RegistersOK
  <2>2. CASE r = Shadow
    BY <1>4, <1>6, <2>2, Registers DEF Agrees, Exchanged, TypeOK, RegistersOK
  <2>3. CASE r \notin {z, Shadow}
    BY <1>4, <1>6, <2>3, Registers DEF Agrees, AgreeExcept, Exchanged, TypeOK, RegistersOK
  <2> QED BY <2>1, <2>2, <2>3
<1> QED BY <1>6, <1>7

(* A step that neither touches the copy, the registers and the tasks nor   *)
(* begins or ends the tasks.                                               *)
LEMMA ViewKept ==
  ASSUME ViewInv, UNCHANGED <<linked, view, reg, phys, todo>>,
         pc'["emu"] = "task" <=> pc["emu"] = "task",
         pc'["tb"] = "start" => pc["tb"] = "start"
  PROVE  ViewInv'
<1>1. UNCHANGED <<data, prec, shm_phys>>
  BY DEF view
<1>2. Pending => Pending'
  BY <1>1 DEF Pending, OnePut, TwoPuts, SwapLast, AgreeExcept, Settles, Brings,
              BringsAll, Agrees
<1>3. \A r \in AllReg : Agrees(r) => Agrees(r)'
  BY <1>1 DEF Agrees
<1> QED BY <1>1, <1>2, <1>3 DEF ViewInv, Follows

LEMMA ViewStep ==
  ASSUME TypeOK, Queued, Handshake, Fits, ViewInv, [Next]_vars
  PROVE  ViewInv'
<1>0. /\ pc \in [Proc -> BenchPlace \cup EmuPlace] /\ "tb" \in Proc /\ "emu" \in Proc
      /\ linked => pc["tb"] # "start"
  BY DEF TypeOK, SyncOK, Proc, Handshake, Lifetime
<1>1. CASE Start
  <2>1. \A r \in AllReg : Agrees(r)'
    BY <1>0, <1>1, Registers DEF ViewInv, Start, Agrees, local
  <2> QED BY <1>0, <1>1, <2>1 DEF ViewInv, Follows, Start, local
<1>2. CASE Call
  BY <1>0, <1>2, ViewKept
  DEF Call, tbEmusrupProceed, tbEmusrupStop, tbEmusrupCheck, Goto, local
<1>3. CASE WriteChpid \/ Request \/ Poll \/ FetchInstruction \/ ReadForCheck
           \/ ReadChpid \/ Quit
  BY <1>0, <1>3, ViewKept
  DEF WriteChpid, Request, Poll, FetchInstruction, ReadForCheck, ReadChpid, Quit, Leave,
      local
<1>4. CASE Reap
  BY <1>0, <1>4 DEF Reap, Goto, ViewInv
<1>5. CASE ReadControl \/ WriteInstruction \/ WriteControl \/ Fail
  BY <1>0, <1>5, ViewKept
  DEF ReadControl, WriteInstruction, WriteControl, Fail, EmuLeave, Leave, Goto, local
<1>6. CASE Decode
  <2>1. /\ UNCHANGED <<linked, view, phys>> /\ pc["emu"] = "decode"
        /\ pc'["tb"] = pc["tb"]
    BY <1>0, <1>6, DecodeStep
  <2>2. linked /\ pc["tb"] # "start" /\ Follows
    BY <2>1 DEF Handshake, Lifetime, ViewInv, Gone
  <2>3. IF pc'["emu"] = "task" THEN Pending' ELSE \A r \in AllReg : Agrees(r)'
    BY <1>6, <2>1, <2>2, DecodePending DEF Follows
  <2> QED BY <2>1, <2>2, <2>3 DEF ViewInv, Follows, view
<1>7. CASE WriteRegister
  <2>1. /\ UNCHANGED <<linked, shm_phys, phys>> /\ pc["emu"] = "task"
        /\ pc'["tb"] = pc["tb"]
    BY <1>0, <1>7 DEF WriteRegister, EmuLeave, Leave
  <2>2. linked /\ pc["tb"] # "start" /\ Follows
    BY <2>1 DEF Handshake, Lifetime, ViewInv, Gone
  <2> QED BY <1>7, <2>1, <2>2, WritePending DEF ViewInv, Follows
<1>8. CASE SwapRegisters
  <2>1. /\ UNCHANGED linked /\ pc["emu"] = "task"
        /\ pc'["tb"] = pc["tb"]
    BY <1>0, <1>8 DEF SwapRegisters, EmuLeave, Leave
  <2>2. linked /\ pc["tb"] # "start" /\ Follows
    BY <2>1 DEF Handshake, Lifetime, ViewInv, Gone
  <2> QED BY <1>8, <2>1, <2>2, SwapPending DEF ViewInv, Follows
<1>9. CASE \E p \in Proc : Enter(p)
  BY <1>9, ViewKept DEF Enter, local
<1>10. CASE Ended \/ UNCHANGED vars
  BY <1>10, ViewKept DEF Ended, vars, sync, local
<1> QED BY <1>1, <1>2, <1>3, <1>4, <1>5, <1>6, <1>7, <1>8, <1>9, <1>10 DEF Next, Bench, Emu

(* As long as the limbs that the emulator clears fit the slots of the      *)
(* shared memory, the copy of the registers agrees with the emulator       *)
(* whenever no step is being made: for any program, any interleaving of the*)
(* two processes and any order of the writes and swaps of an instruction.  *)
THEOREM ViewFollows == Spec /\ []Fits => []ViewIsCurrent
<1>1. Init => ViewInv
  BY DEF Init, ViewInv
<1>2. TypeOK /\ Queued /\ Handshake /\ Fits /\ ViewInv /\ [Next]_vars => ViewInv'
  BY ViewStep
<1>3. Handshake /\ ViewInv => ViewIsCurrent
  BY DEF Handshake, Between, ViewInv, Follows, Agrees, ViewIsCurrent, Stepping, Busy
<1> QED BY <1>1, <1>2, <1>3, HandshakeInvariant, TypedInvariant, PTL DEF Spec

(* What tbEmusrupCheck returned is forgotten when the next step begins.    *)
CheckInv == (Stepping => seen = {}) /\ CheckExact

LEMMA CheckStep ==
  ASSUME TypeOK, Handshake, CheckInv, ViewIsCurrent, [Next]_vars
  PROVE  CheckInv'
<1>0. /\ pc \in [Proc -> BenchPlace \cup EmuPlace] /\ "tb" \in Proc /\ "emu" \in Proc
      /\ pc["emu"] \in Busy => seen = {} /\ pc["tb"] = "poll"
  BY DEF TypeOK, SyncOK, Proc, Handshake, Between, CheckInv, Stepping
<1>1. CASE tbEmusrupProceed
  BY <1>1 DEF tbEmusrupProceed, CheckInv, CheckExact
<1>2. CASE ReadForCheck
  <2>1. linked /\ ~Stepping /\ addr \in AllReg
    BY <1>0, <1>2
    DEF ReadForCheck, Leave, TypeOK, CountsOK, Handshake, Semaphore, Stepping
  <2>2. /\ data[addr] = reg[addr].id /\ shm_phys[addr] = phys[addr]
        /\ addr \in Logic => prec[addr] = reg[addr].limbs
    BY <2>1 DEF ViewIsCurrent
  <2>3. pc'["tb"] = "idle" /\ UNCHANGED <<reg, phys>>
    BY <1>0, <1>2 DEF ReadForCheck, Leave, local
  <2> QED BY <1>2, <2>2, <2>3 DEF ReadForCheck, CheckInv, CheckExact, Stepping
<1>3. CASE Decode \/ WriteRegister \/ SwapRegisters
  <2>1. seen = {} /\ seen' = seen
    BY <1>0, <1>3, DecodeStep
    DEF WriteRegister, SwapRegisters, EmuLeave, Leave, Busy, bench
  <2> QED BY <2>1 DEF CheckInv, CheckExact
<1>4. ASSUME UNCHANGED <<seen, reg, phys>>,
             pc'["tb"] \in {"request", "poll", "fetch"} => Stepping
      PROVE  CheckInv'
  BY <1>4 DEF CheckInv, CheckExact, Stepping
<1>5. CASE tbEmusrupStop \/ \E r \in AllReg : tbEmusrupCheck(r)
  BY <1>0, <1>4, <1>5 DEF tbEmusrupStop, tbEmusrupCheck, Goto, local, bench
<1>6. CASE Start \/ WriteChpid \/ Request \/ Poll \/ FetchInstruction
           \/ ReadChpid \/ Quit \/ Reap
  BY <1>0, <1>4, <1>6
  DEF Start, WriteChpid, Request, Poll, FetchInstruction, ReadChpid, Quit, Reap,
      Leave, Goto, local, bench, Stepping
<1>7. CASE ReadControl \/ WriteInstruction \/ WriteControl \/ Fail
  BY <1>0, <1>4, <1>7
  DEF ReadControl, WriteInstruction, WriteControl, Fail, EmuLeave, Leave, Goto, local,
      bench, Stepping
<1>8. CASE (\E p \in Proc : Enter(p)) \/ Ended \/ UNCHANGED vars
  BY <1>4, <1>8 DEF Enter, Ended, vars, sync, local, bench, Stepping
<1> QED BY <1>1, <1>2, <1>3, <1>5, <1>6, <1>7, <1>8 DEF Next, Call, Bench, Emu

(* As long as the numbers fit their slots, what tbEmusrupCheck returned    *)
(* stays true until the next step is asked for (CheckExact).               *)
THEOREM CheckStaysExact == Spec /\ []Fits => []CheckExact
<1>1. Init => CheckInv
  BY DEF Init, CheckInv, CheckExact
<1>2. TypeOK /\ Handshake /\ CheckInv /\ ViewIsCurrent /\ [Next]_vars => CheckInv'
  BY CheckStep
<1>3. CheckInv => CheckExact
  BY DEF CheckInv
<1> QED BY <1>1, <1>2, <1>3, HandshakeInvariant, TypedInvariant, ViewFollows, PTL DEF Spec

-----------------------------------------------------------------------------
(* The sizes.  With slots that are large enough for the programs nothing   *)
(* need be assumed of a behaviour: Fits is itself an invariant.            *)

Enough(bound) == \A len \in ProgLens : LimbsSuffice(bound, len)

SizesInv(bound) ==
  /\ instr <= prog_len
  /\ pc["emu"] \in {"control", "decode"} => instr < prog_len
  /\ pc["emu"] = "unborn" => instr = 0
  /\ \A r \in AllReg : reg[r].limbs <= bound[instr]
  /\ \A i \in 1 .. Len(todo) : todo[i].save <= 2 * bound[instr]

LEMMA SizesFit ==
  ASSUME NEW bound, Enough(bound), TypeOK, SizesInv(bound)
  PROVE  Fits
<1>1. instr \in 0 .. prog_len /\ prog_len \in ProgLens
  BY DEF TypeOK, CountsOK, SizesInv
<1>2. bound[instr] \in Nat /\ 2 * bound[instr] <= SlotLimbs
  BY <1>1 DEF Enough, LimbsSuffice
<1>3. ASSUME todo # <<>>
      PROVE  Head(todo).save \in Nat /\ Head(todo).save <= 2 * bound[instr]
  <2>1. todo \in Seq(Tasks)
    BY DEF TypeOK, RegistersOK
  <2>2. Head(todo) = todo[1] /\ 1 \in 1 .. Len(todo) /\ Head(todo) \in Tasks
    BY <1>3, <2>1
  <2> QED BY <2>2 DEF Tasks, SizesInv
<1> QED BY <1>2, <1>3, DpiAssumption DEF Fits

(* The sizes of the results of an instruction on numbers of b limbs.       *)
LEMMA ResultSizes ==
  ASSUME NEW b \in Nat \ {0}, NEW x, NEW y, x.limbs \in 0 .. b, y.limbs \in 0 .. b
  PROVE  /\ \A v \in Products(x, y) : v.limbs \in 0 .. 2 * b
         /\ \A v \in Differences(x, y) : v.limbs \in 0 .. 2 * b
         /\ \A v \in Sums(x, y) : v.limbs \in 0 .. 2 * b
         /\ \A v \in Differences(x, y) : Opposite(v).limbs \in 0 .. 2 * b
<1>1. Zero.limbs = 1 /\ \A k, n : Result(k, n).limbs = n
  BY DEF Zero, Result, Num
<1>2. larger(x.limbs, y.limbs) \in 0 .. b
  BY DEF larger
<1>3. \A v \in Products(x, y) : v.limbs \in 0 .. 2 * b
  BY <1>1 DEF Products
<1>4. \A v \in Differences(x, y) : v.limbs \in 0 .. 2 * b
  BY <1>1, <1>2 DEF Differences
<1>5. \A v \in Sums(x, y) : v.limbs \in 0 .. 2 * b
  BY <1>1, <1>2 DEF Sums
<1> QED BY <1>1, <1>3, <1>4, <1>5 DEF Opposite

LEMMA DecodeSizes ==
  ASSUME NEW bound, Enough(bound), TypeOK, SizesInv(bound), Decode
  PROVE  SizesInv(bound)'
<1> DEFINE b == bound[instr]
           n == bound[instr + 1]
<1>1. /\ pc["emu"] = "decode" /\ instr' = instr + 1 /\ prog_len' = prog_len
      /\ pc'["emu"] \in {"task", "fault", "instruction"}
  BY DecodeStep DEF TypeOK, SyncOK, Proc
<1>2. /\ instr \in Nat /\ instr + 1 \in 1 .. prog_len /\ prog_len \in ProgLens
  BY <1>1, DpiAssumption DEF TypeOK, CountsOK, SizesInv
<1>3. /\ b \in Nat \ {0} /\ n \in Nat \ {0} /\ 2 * b <= n
      /\ LoadLimbs \subseteq 1 .. n
  <2>1. LimbsSuffice(bound, prog_len)
    BY <1>2 DEF Enough
  <2> QED BY <1>2, <2>1, DpiAssumption DEF LimbsSuffice
<1>4. \A r \in AllReg : reg[r].limbs \in 0 .. b
  BY <1>3 DEF TypeOK, RegistersOK, SizesInv
<1> HIDE DEF b, n
<1> DEFINE Small(tasks) == \A i \in 1 .. Len(tasks) : tasks[i].save <= 2 * n
<1>5. ASSUME NEW kind, NEW newreg, NEW tasks, Execute(kind, newreg, tasks),
             \A r \in AllReg : newreg[r].limbs <= n, Small(tasks)
      PROVE  SizesInv(bound)'
  BY <1>1, <1>2, <1>3, <1>5 DEF Execute, SizesInv, n
<1> HIDE DEF Small
<1>6. /\ Small(<<>>)
      /\ \A t : t.save <= 2 * n => Small(<<t>>)
      /\ \A t, u : t.save <= 2 * n /\ u.save <= 2 * n => Small(<<t, u>>)
      /\ \A t, u, w : t.save <= 2 * n /\ u.save <= 2 * n /\ w.save <= 2 * n => Small(<<t, u, w>>)
  BY DEF Small
<1>7. /\ \A r, v : Put(r, v).save = v.limbs
      /\ \A r, v, s : PutWide(r, v, s).save = s /\ PutTwos(r, v, s).save = s
      /\ \A r : SwapWith(r).save = 0
      /\ Exit.save = 0 /\ Zero.limbs = 1
      /\ \A k, l : Result(k, l).limbs = l
  BY DEF Put, PutWide, PutTwos, SwapWith, Exit, Task, Zero, Result, Num
<1>8. reg = [r \in AllReg |-> reg[r]] /\ \A r \in AllReg : reg[r].limbs \in 0 .. n
  BY <1>3, <1>4 DEF TypeOK, RegistersOK
<1>9. CASE Unl \/ Faulty
  BY <1>3, <1>5, <1>6, <1>7, <1>8, <1>9 DEF Unl, Faulty
<1>10. ASSUME NEW r \in Logic, ZeroReg(r) \/ Load(r) PROVE SizesInv(bound)'
  <2>1. PICK kind, v : /\ Execute(kind, [reg EXCEPT ![r] = v], <<Put(r, v)>>)
                       /\ v.limbs \in 0 .. n
    <3>1. CASE ZeroReg(r)
      <4>1. Zero.limbs \in 0 .. n
        BY <1>3, <1>7
      <4>2. Execute("zero", [reg EXCEPT ![r] = Zero], <<Put(r, Zero)>>)
        BY <3>1 DEF ZeroReg
      <4> QED BY <4>1, <4>2, Zenon
    <3>2. CASE Load(r)
      <4>1. PICK limbs \in LoadLimbs :
              Execute("load", [reg EXCEPT ![r] = Result(1, limbs)], <<Put(r, Result(1, limbs))>>)
        BY <3>2 DEF Load
      <4>2. Result(1, limbs).limbs \in 0 .. n
        BY <1>3, <1>7
      <4> QED BY <4>1, <4>2, Zenon
    <3> QED BY <1>10, <3>1, <3>2
  <2>2. Put(r, v).save <= 2 * n
    BY <1>3, <1>7, <2>1
  <2> QED BY <1>5, <1>6, <1>8, <2>1, <2>2
<1>11. ASSUME NEW x \in Logic, NEW y \in Logic, Cprs(x, y) PROVE SizesInv(bound)'
  <2>1. reg[x].limbs \in 0 .. n
    BY <1>8, Registers
  <2>2. Put(y, reg[x]).save <= 2 * n
    BY <1>3, <1>7, <2>1
  <2> QED BY <1>5, <1>6, <1>8, <1>11, <2>1, <2>2 DEF Cprs
<1>12. ASSUME NEW x \in Logic, NEW y \in Logic, Loaab(x, y) PROVE SizesInv(bound)'
  <2>1. PICK la \in LoadLimbs, lb \in LoadLimbs :
     LET u == Result(1, la)
         v == Result(2, lb)
     IN  \/ Execute("loaab", [reg EXCEPT ![x] = u, ![y] = v], <<Put(x, u), Put(y, v)>>)
         \/ Execute("loaab", [reg EXCEPT ![x] = u], <<Put(x, u), Exit>>)
    BY <1>12 DEF Loaab
  <2> DEFINE u == Result(1, la)
             v == Result(2, lb)
  <2>2. u.limbs \in 0 .. n /\ v.limbs \in 0 .. n
    BY <1>3, <1>7
  <2>3. Put(x, u).save <= 2 * n /\ Put(y, v).save <= 2 * n /\ Exit.save <= 2 * n
    BY <1>3, <1>7, <2>2
  <2> HIDE DEF u, v
  <2>4. \/ Execute("loaab", [reg EXCEPT ![x] = u, ![y] = v], <<Put(x, u), Put(y, v)>>)
        \/ Execute("loaab", [reg EXCEPT ![x] = u], <<Put(x, u), Exit>>)
    BY <2>1 DEF u, v
  <2>5. CASE Execute("loaab", [reg EXCEPT ![x] = u, ![y] = v], <<Put(x, u), Put(y, v)>>)
    <3>1. \A r \in AllReg : [reg EXCEPT ![x] = u, ![y] = v][r].limbs <= n
      BY <1>3, <1>8, <2>2
    <3> QED BY <1>5, <1>6, <2>3, <2>5, <3>1
  <2>6. CASE Execute("loaab", [reg EXCEPT ![x] = u], <<Put(x, u), Exit>>)
    <3>1. \A r \in AllReg : [reg EXCEPT ![x] = u][r].limbs <= n
      BY <1>3, <1>8, <2>2
    <3> QED BY <1>5, <1>6, <2>3, <2>6, <3>1
  <2> QED BY <2>4, <2>5, <2>6
<1>13. ASSUME NEW x \in Logic, NEW y \in Logic, NEW z \in Logic, Mult(x, y, z)
       PROVE  SizesInv(bound)'
  <2>1. PICK v \in Products(reg[x], reg[y]) :
          LET new == [reg EXCEPT ![z] = v]
          IN  Execute("mult", new, <<PutWide(z, v, new[x].limbs + new[y].limbs)>>)
    BY <1>13 DEF Mult
  <2> DEFINE new == [reg EXCEPT ![z] = v]
             save == new[x].limbs + new[y].limbs
  <2>2. v.limbs \in 0 .. n
    <3>1. v.limbs \in 0 .. 2 * b
      BY <1>3, <1>4, Registers, ResultSizes
    <3> QED BY <1>3, <3>1
  <2>3. \A r \in AllReg : new[r].limbs \in 0 .. n
    BY <1>8, <2>2
  <2>4. save <= 2 * n
    BY <1>3, <2>3, Registers
  <2> HIDE DEF new, save
  <2>5. Execute("mult", new, <<PutWide(z, v, save)>>)
    BY <2>1 DEF new, save
  <2> QED BY <1>3, <1>5, <1>6, <1>7, <2>3, <2>4, <2>5
<1>14. ASSUME NEW x \in Logic, NEW y \in Logic, NEW z \in Logic, AddSub(x, y, z)
       PROVE  SizesInv(bound)'
  <2>1. PICK s, v :
     /\ s \in Differences(reg[x], reg[y])
     /\ LET new  == [reg EXCEPT ![z] = v, ![Shadow] = s]
            save == larger(new[x].limbs, new[y].limbs) + 1
        IN  /\ v \in Sums(reg[x], reg[y]) \cup {Opposite(s)}
            /\ \/ Execute("add_sub", new, <<PutWide(z, v, save), PutWide(Shadow, s, save)>>)
               \/ Execute("add_sub", new, <<PutWide(z, v, save), PutTwos(Shadow, s, save)>>)
               \/ Execute("add_sub", new, <<PutTwos(z, v, save), PutWide(Shadow, s, save),
                                            SwapWith(z)>>)
    BY <1>14 DEF AddSub
  <2> DEFINE new  == [reg EXCEPT ![z] = v, ![Shadow] = s]
             save == larger(new[x].limbs, new[y].limbs) + 1
  <2>2. v.limbs \in 0 .. n /\ s.limbs \in 0 .. n
    <3>1. v.limbs \in 0 .. 2 * b /\ s.limbs \in 0 .. 2 * b
      BY <1>3, <1>4, <2>1, Registers, ResultSizes
    <3> QED BY <1>3, <3>1
  <2>3. \A r \in AllReg : new[r].limbs \in 0 .. n
    BY <1>8, <2>2
  <2>4. save <= 2 * n
    <3>1. new[x].limbs \in 0 .. n /\ new[y].limbs \in 0 .. n
      BY <2>3, Registers
    <3> HIDE DEF new
    <3> QED BY <1>3, <3>1 DEF larger
  <2> HIDE DEF new, save
  <2>5. \/ Execute("add_sub", new, <<PutWide(z, v, save), PutWide(Shadow, s, save)>>)
        \/ Execute("add_sub", new, <<PutWide(z, v, save), PutTwos(Shadow, s, save)>>)
        \/ Execute("add_sub", new, <<PutTwos(z, v, save), PutWide(Shadow, s, save),
                                     SwapWith(z)>>)
    BY <2>1 DEF new, save
  <2>6. /\ PutWide(z, v, save).save <= 2 * n /\ PutWide(Shadow, s, save).save <= 2 * n
        /\ PutTwos(z, v, save).save <= 2 * n /\ PutTwos(Shadow, s, save).save <= 2 * n
        /\ SwapWith(z).save <= 2 * n
    BY <1>3, <1>7, <2>4
  <2> QED BY <1>3, <1>5, <1>6, <2>3, <2>5, <2>6
<1> QED BY <1>9, <1>10, <1>11, <1>12, <1>13, <1>14 DEF Decode

LEMMA SizesStep ==
  ASSUME NEW bound, Enough(bound), TypeOK, Queued, SizesInv(bound), [Next]_vars
  PROVE  SizesInv(bound)'
<1>0. /\ pc \in [Proc -> BenchPlace \cup EmuPlace] /\ "tb" \in Proc /\ "emu" \in Proc
      /\ prog_len \in Nat /\ instr \in Nat
  BY DpiAssumption DEF TypeOK, SyncOK, CountsOK, Proc
<1>1. CASE Start
  BY <1>0, <1>1 DEF Start, SizesInv, local
<1>2. CASE Decode
  BY <1>2, DecodeSizes
<1>3. CASE WriteRegister
  <2>1. /\ UNCHANGED <<reg, instr, prog_len>> /\ todo' = Tail(todo)
        /\ pc'["emu"] \in {"task", "fault", "instruction"}
    BY <1>0, <1>3 DEF WriteRegister, EmuLeave, Leave, Doing
  <2>2. \A i \in 1 .. Len(todo') : todo'[i] = todo[i+1] /\ i + 1 \in 1 .. Len(todo)
    BY <1>3, <2>1 DEF TypeOK, RegistersOK, Queued, WriteRegister, EmuLeave, Leave
  <2> QED BY <2>1, <2>2 DEF SizesInv
<1>4. CASE SwapRegisters
  <2> DEFINE z == Head(todo).r
  <2>1. /\ UNCHANGED <<instr, prog_len>> /\ todo' = Tail(todo) /\ todo # <<>>
        /\ pc'["emu"] \in {"task", "fault", "instruction"}
        /\ reg' = Exchanged(reg, z)
    BY <1>0, <1>4 DEF SwapRegisters, EmuLeave, Leave, Doing, Queued
  <2>0. todo \in Seq(Tasks)
    BY DEF TypeOK, RegistersOK
  <2>2. \A i \in 1 .. Len(todo') : todo'[i] = todo[i+1] /\ i + 1 \in 1 .. Len(todo)
    BY <2>0, <2>1
  <2>3. z \in AllReg
    <3>1. Head(todo) \in Tasks
      BY <2>0, <2>1
    <3> QED BY <3>1 DEF Tasks
  <2>4. \A r \in AllReg : \E q \in AllReg : reg'[r] = reg[q]
    BY <2>1, <2>3, Registers DEF Exchanged, TypeOK, RegistersOK
  <2> QED BY <2>1, <2>2, <2>4 DEF SizesInv
<1>5. CASE ReadControl \/ WriteInstruction \/ WriteControl \/ Fail
  BY <1>0, <1>5
  DEF ReadControl, WriteInstruction, WriteControl, Fail, EmuLeave, Leave, Goto, local,
      SizesInv
<1>6. ASSUME UNCHANGED local, pc'["emu"] = pc["emu"]
      PROVE  SizesInv(bound)'
  BY <1>6 DEF local, SizesInv
<1>7. CASE Call
  BY <1>0, <1>6, <1>7 DEF Call, tbEmusrupProceed, tbEmusrupStop, tbEmusrupCheck, Goto
<1>8. CASE WriteChpid \/ Request \/ Poll \/ FetchInstruction \/ ReadForCheck
           \/ ReadChpid \/ Quit \/ Reap
  BY <1>0, <1>6, <1>8
  DEF WriteChpid, Request, Poll, FetchInstruction, ReadForCheck, ReadChpid, Quit, Reap,
      Leave, Goto
<1>9. CASE (\E p \in Proc : Enter(p)) \/ Ended \/ UNCHANGED vars
  BY <1>6, <1>9 DEF Enter, Ended, vars, sync
<1> QED BY <1>1, <1>2, <1>3, <1>4, <1>5, <1>7, <1>8, <1>9 DEF Next, Bench, Emu

(* With slots large enough for the programs no execution writes beyond one.*)
LEMMA AlwaysFits == ASSUME NEW CONSTANT bound, Enough(bound) PROVE Spec => []Fits
<1>1. Init => SizesInv(bound)
  <2> SUFFICES ASSUME Init PROVE SizesInv(bound)
    OBVIOUS
  <2>1. 0 \in 0 .. prog_len /\ bound[0] \in Nat \ {0}
    BY DpiAssumption DEF Init, Enough, LimbsSuffice
  <2> QED BY <2>1 DEF Init, SizesInv, Proc, Zero, Num
<1>2. TypeOK /\ Queued /\ SizesInv(bound) /\ [Next]_vars => SizesInv(bound)'
  BY SizesStep
<1>3. TypeOK /\ SizesInv(bound) => Fits
  BY SizesFit
<1> QED BY <1>1, <1>2, <1>3, TypedInvariant, PTL DEF Spec

(* The same of the constants alone: with slots large enough for the        *)
(* programs, the copy follows the emulator and a check stays true.         *)
THEOREM LargeSlots ==
  ASSUME NEW CONSTANT bound, Enough(bound)
  PROVE  Spec => []ViewIsCurrent /\ []CheckExact
  BY AlwaysFits, ViewFollows, CheckStaysExact, PTL
=============================================================================
