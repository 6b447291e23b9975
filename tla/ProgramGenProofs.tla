-------------------------- MODULE ProgramGenProofs --------------------------
(***************************************************************************)
(* What the six generators promise for every argument and whatever is      *)
(* drawn: the program they deliver computes what it is for, their buffer   *)
(* is large enough and is delivered without a byte too many or too few,    *)
(* and the loads and the numbers on the buses match.                       *)
(*                                                                         *)
(* The invariants GenInv (generators that multiply) and DrawnInv (the      *)
(* others) say for every place of a generator what is in the registers     *)
(* that the rest of the program reads, as a function of the loop counter,  *)
(* and how many bytes have been emitted.  That the sums of 1ddgf_data are  *)
(* the discrete Green's function is a fact about numbers, proved before    *)
(* its places.  LiveInv says which registers have been written by then,    *)
(* and gives that no instruction misses an operand.                        *)
(***************************************************************************)
EXTENDS ProgramGen, FiniteSetTheorems, TLAPS

Typed == job \in Jobs /\ reg \in [Reg -> Int]

(* While a generator emits, nothing is delivered or unloaded.              *)
Emits(bytes, as, bs) ==
  /\ status = "run"
  /\ num_command = bytes /\ emitted = bytes
  /\ loadsA = as /\ loadsB = bs
  /\ out = <<>>
  /\ reg \in [Reg -> Int]

Begins == /\ stage \in {"open", "start"}
          /\ status # "done"
          /\ num_command = 0 /\ emitted = 0 /\ loadsA = 0 /\ loadsB = 0 /\ out = <<>>
          /\ reg \in [Reg -> Int]

(* All has been emitted; exact says whether the buffer has to be full.     *)
Emitted(exact) == /\ stage \in {"close", "md5"}
                  /\ num_command <= size_commands
                  /\ exact => num_command = size_commands
                  /\ emitted = num_command
                  /\ loadsA = Len(busA) /\ loadsB = Len(busB)
                  /\ stage = "close" => status = "run"
                  /\ stage = "md5" => delivered = emitted

-----------------------------------------------------------------------------
(* new_factorial_code_gen *)

(* The registers before instruction k of an iteration that starts with the *)
(* product of the factors up to m + 1.                                     *)
Products(m, k) ==
  /\ reg[INC] = 2
  /\ k \in {1} => reg[OUT] = Fact[m + 1]
  /\ k \in {1, 2} => reg[N1] = m + 1
  /\ k \in {1, 2, 3, 4} => reg[P1] = m + 2
  /\ k \in {2, 3} => reg[TMP] = Fact[m + 2]
  /\ k \in {3, 4, 5, 6} => reg[N2] = m + 3
  /\ k \in {4, 5} => reg[OUT] = Fact[m + 3]
  /\ k \in {5, 6, 7, 8} => reg[P2] = m + 4
  /\ k \in {6, 7} => reg[TMP] = Fact[m + 4]
  /\ k \in {7, 8} => reg[N1] = m + 5
  /\ k \in {8} => reg[OUT] = Fact[m + 5]

FactorialBuses == /\ size_commands = 8 * job.n + 2
                  /\ busA = <<1, 1>> /\ busB = <<2, 2>>

FactorialLoad ==
  /\ stage = "load" /\ FactorialBuses
  /\ \/ step = 1 /\ Emits(0, 0, 0)
     \/ step = 2 /\ Emits(4, 1, 1) /\ reg[OUT] = 1 /\ reg[INC] = 2

FactorialLoop ==
  /\ stage = "loop" /\ FactorialBuses
  /\ n \in 1 .. loop_iter /\ step \in 1 .. 8
  /\ Emits(8 + 32 * (n - 1) + 4 * (step - 1), 2, 2)
  /\ Products(4 * (n - 1), step)

FactorialTail ==
  /\ stage = "tail" /\ FactorialBuses
  /\ n = loop_iter + 1 /\ step \in 1 .. 2 * remainder
  /\ Emits(8 + 32 * loop_iter + 4 * (step - 1), 2, 2)
  /\ Products(4 * loop_iter, step)

FactorialEnd == Emitted(FALSE) /\ (job.n >= 2 => out = <<Fact[job.n]>>)

FactorialInv ==
  job.gen = "factorial" =>
    Begins \/ FactorialLoad \/ FactorialLoop \/ FactorialTail \/ FactorialEnd

(* The argument is four times the iterations, plus the rest, plus one.     *)
LEMMA Division ==
  ASSUME NEW j \in Nat \ {0}
  PROVE  /\ (j - 1) \div 4 \in Nat /\ (j - 1) % 4 \in 0 .. 3
         /\ j = 4 * ((j - 1) \div 4) + ((j - 1) % 4) + 1
OBVIOUS

(* A factorial is the product of its argument and the factorial before.    *)
LEMMA NextFactorial ==
  ASSUME NEW j \in Jobs, NEW m \in Int, 1 <= m, m <= j.n
  PROVE  /\ Fact[m] = m * Fact[m - 1]
         /\ Fact[m] \in Int /\ Fact[m - 1] \in Int
<1>1. MaxN \in Nat /\ j.n \in 1 .. MaxN
  BY ProgramAssumption
<1>2. m \in 1 .. MaxN /\ m \in 0 .. MaxN /\ m - 1 \in 0 .. MaxN
  BY <1>1
<1>3. QED
  BY <1>2, ProgramAssumption

-----------------------------------------------------------------------------
(* Effects of an instruction, for all generators but the random one.       *)

Moved(bytes) == /\ num_command' = num_command + bytes
                /\ emitted' = emitted + bytes
                /\ UNCHANGED <<job, status, size_commands, delivered>>
                /\ UNCHANGED <<busA, busB, loadsA, loadsB>>

Sets(z, v) == /\ reg' \in [Reg -> Int]
              /\ reg'[z] = v
              /\ \A r \in Reg \ {z} : reg'[r] = reg[r]
              /\ out' = out

LEMMA ArithmeticEffect ==
  ASSUME Typed, job.gen # "random", Emitting, NEW z \in Reg, NEW v \in Int,
         NEW instruction, Put(instruction, 4), Arithmetic(z, v)
  PROVE  Moved(4) /\ Sets(z, v)
BY DEF Typed, Emitting, Put, Arithmetic, Moved, Sets

LEMMA MultEffect ==
  ASSUME Typed, job.gen # "random", Emitting, NEW x \in Reg, NEW y \in Reg,
         NEW z \in Reg, Mult(x, y, z)
  PROVE  Moved(4) /\ Sets(z, reg[x] * reg[y])
<1>1. reg[x] * reg[y] \in Int
  BY DEF Typed
<1>2. QED
  BY <1>1, ArithmeticEffect DEF Mult

LEMMA AddEffect ==
  ASSUME Typed, job.gen # "random", Emitting, NEW x \in Reg, NEW y \in Reg,
         NEW z \in Reg, Add(x, y, z)
  PROVE  Moved(4) /\ Sets(z, reg[x] + reg[y])
<1>1. reg[x] + reg[y] \in Int
  BY DEF Typed
<1>2. QED
  BY <1>1, ArithmeticEffect DEF Add

LEMMA UnlEffect ==
  ASSUME Typed, job.gen # "random", Emitting, out = <<>>, NEW x \in Reg, Unl(x)
  PROVE  Moved(2) /\ reg' = reg /\ out' = <<reg[x]>>
BY DEF Typed, Emitting, Put, Unl, Moved

(* One iteration: each instruction leads to the place of the next. *)
LEMMA FactorialLoopStep ==
  ASSUME Typed, job.gen = "factorial", FactorialLoop, NewFactorialLoop, Emitting
  PROVE  FactorialLoop' \/ FactorialTail' \/ FactorialEnd'
<1>0. /\ job \in Jobs /\ job.n \in Nat \ {0} /\ n \in Int
      /\ n \in 1 .. loop_iter /\ step \in 1 .. 8
  BY ProgramAssumption DEF Typed, FactorialLoop
<1>1. /\ loop_iter \in Nat /\ remainder \in 0 .. 3
      /\ job.n = 4 * loop_iter + remainder + 1
  BY <1>0, Division DEF loop_iter, remainder
<1>2. PICK m \in Nat : m = 4 * (n - 1) /\ m + 5 <= job.n
  BY <1>0, <1>1
<1>3. /\ Fact[m + 2] = (m + 2) * Fact[m + 1] /\ Fact[m + 3] = (m + 3) * Fact[m + 2]
      /\ Fact[m + 4] = (m + 4) * Fact[m + 3] /\ Fact[m + 5] = (m + 5) * Fact[m + 4]
      /\ {Fact[m + 1], Fact[m + 2], Fact[m + 3], Fact[m + 4], Fact[m + 5]} \subseteq Int
  <2>1. ASSUME NEW k \in 2 .. 5 PROVE /\ Fact[m + k] = (m + k) * Fact[m + k - 1]
                                      /\ Fact[m + k] \in Int /\ Fact[m + k - 1] \in Int
    BY <1>0, <1>2, NextFactorial
  <2>2. QED
    BY <2>1, <1>2
<1>4. {OUT, TMP, N1, INC, N2, P1, P2} \subseteq Reg
  BY DEF Reg, OUT, TMP, N1, INC, N2, P1, P2
<1>5. Products(m, step) /\ Emits(8 + 8 * m + 4 * (step - 1), 2, 2) /\ FactorialBuses
  BY <1>0, <1>2 DEF FactorialLoop
<1>6. CASE At("loop", 1) /\ Mult(P1, OUT, TMP) /\ Step
  <2>1. Moved(4) /\ Sets(TMP, reg[P1] * reg[OUT])
    BY <1>4, <1>6, MultEffect
  <2>2. Products(m, 2)'
    BY <1>2, <1>3, <1>4, <1>5, <1>6, <2>1
       DEF Products, Sets, At, OUT, TMP, N1, INC, N2, P1, P2
  <2>3. QED
    BY <1>0, <1>1, <1>2, <1>5, <1>6, <2>1, <2>2
       DEF FactorialLoop, FactorialBuses, Emits, Moved, Sets, At, Step, loop_iter, remainder
<1>7. CASE At("loop", 2) /\ Add(N1, INC, N2) /\ Step
  <2>1. Moved(4) /\ Sets(N2, reg[N1] + reg[INC])
    BY <1>4, <1>7, AddEffect
  <2>2. Products(m, 3)'
    BY <1>2, <1>3, <1>4, <1>5, <1>7, <2>1
       DEF Products, Sets, At, OUT, TMP, N1, INC, N2, P1, P2
  <2>3. QED
    BY <1>0, <1>1, <1>2, <1>5, <1>7, <2>1, <2>2
       DEF FactorialLoop, FactorialBuses, Emits, Moved, Sets, At, Step, loop_iter, remainder
<1>8. CASE At("loop", 3) /\ Mult(N2, TMP, OUT) /\ Step
  <2>1. Moved(4) /\ Sets(OUT, reg[N2] * reg[TMP])
    BY <1>4, <1>8, MultEffect
  <2>2. Products(m, 4)'
    BY <1>2, <1>3, <1>4, <1>5, <1>8, <2>1
       DEF Products, Sets, At, OUT, TMP, N1, INC, N2, P1, P2
  <2>3. QED
    BY <1>0, <1>1, <1>2, <1>5, <1>8, <2>1, <2>2
       DEF FactorialLoop, FactorialBuses, Emits, Moved, Sets, At, Step, loop_iter, remainder
<1>9. CASE At("loop", 4) /\ Add(P1, INC, P2) /\ Step
  <2>1. Moved(4) /\ Sets(P2, reg[P1] + reg[INC])
    BY <1>4, <1>9, AddEffect
  <2>2. Products(m, 5)'
    BY <1>2, <1>3, <1>4, <1>5, <1>9, <2>1
       DEF Products, Sets, At, OUT, TMP, N1, INC, N2, P1, P2
  <2>3. QED
    BY <1>0, <1>1, <1>2, <1>5, <1>9, <2>1, <2>2
       DEF FactorialLoop, FactorialBuses, Emits, Moved, Sets, At, Step, loop_iter, remainder
<1>10. CASE At("loop", 5) /\ Mult(P2, OUT, TMP) /\ Step
  <2>1. Moved(4) /\ Sets(TMP, reg[P2] * reg[OUT])
    BY <1>4, <1>10, MultEffect
  <2>2. Products(m, 6)'
    BY <1>2, <1>3, <1>4, <1>5, <1>10, <2>1
       DEF Products, Sets, At, OUT, TMP, N1, INC, N2, P1, P2
  <2>3. QED
    BY <1>0, <1>1, <1>2, <1>5, <1>10, <2>1, <2>2
       DEF FactorialLoop, FactorialBuses, Emits, Moved, Sets, At, Step, loop_iter, remainder
<1>11. CASE At("loop", 6) /\ Add(N2, INC, N1) /\ Step
  <2>1. Moved(4) /\ Sets(N1, reg[N2] + reg[INC])
    BY <1>4, <1>11, AddEffect
  <2>2. Products(m, 7)'
    BY <1>2, <1>3, <1>4, <1>5, <1>11, <2>1
       DEF Products, Sets, At, OUT, TMP, N1, INC, N2, P1, P2
  <2>3. QED
    BY <1>0, <1>1, <1>2, <1>5, <1>11, <2>1, <2>2
       DEF FactorialLoop, FactorialBuses, Emits, Moved, Sets, At, Step, loop_iter, remainder
<1>12. CASE At("loop", 7) /\ Mult(N1, TMP, OUT) /\ Step
  <2>1. Moved(4) /\ Sets(OUT, reg[N1] * reg[TMP])
    BY <1>4, <1>12, MultEffect
  <2>2. Products(m, 8)'
    BY <1>2, <1>3, <1>4, <1>5, <1>12, <2>1
       DEF Products, Sets, At, OUT, TMP, N1, INC, N2, P1, P2
  <2>3. QED
    BY <1>0, <1>1, <1>2, <1>5, <1>12, <2>1, <2>2
       DEF FactorialLoop, FactorialBuses, Emits, Moved, Sets, At, Step, loop_iter, remainder
<1>13. CASE At("loop", 8) /\ ~(n = loop_iter /\ remainder = 0) /\ Add(P2, INC, P1)
            /\ n' = n + 1 /\ Go(IF n + 1 <= loop_iter THEN "loop" ELSE NewFactorialTail, 1)
  <2>1. Moved(4) /\ Sets(P1, reg[P2] + reg[INC])
    BY <1>4, <1>13, AddEffect
  <2>2. Products(m + 4, 1)'
    BY <1>2, <1>3, <1>4, <1>5, <1>13, <2>1
       DEF Products, Sets, At, OUT, TMP, N1, INC, N2, P1, P2
  <2>3. /\ FactorialBuses' /\ Emits(8 + 8 * (m + 4), 2, 2)' /\ loop_iter' = loop_iter
        /\ remainder' = remainder /\ m + 4 = 4 * (n' - 1) /\ step' = 1 /\ n' = n + 1
    BY <1>0, <1>2, <1>5, <1>13, <2>1
       DEF FactorialBuses, Emits, Moved, Sets, At, Go, loop_iter, remainder
  <2>4. CASE n + 1 <= loop_iter
    BY <1>0, <1>1, <1>2, <1>13, <2>2, <2>3, <2>4 DEF FactorialLoop, Go
  <2>5. CASE ~(n + 1 <= loop_iter)
    <3>1. n = loop_iter /\ remainder # 0 /\ stage' = "tail"
      BY <1>0, <1>1, <1>13, <2>5 DEF Go, NewFactorialTail
    <3>2. QED
      BY <1>0, <1>1, <1>2, <2>2, <2>3, <3>1 DEF FactorialTail
  <2>6. QED
    BY <2>4, <2>5
<1>14. CASE At("loop", 8) /\ (n = loop_iter /\ remainder = 0) /\ Unl(OUT)
            /\ n' = n + 1 /\ Go(IF n + 1 <= loop_iter THEN "loop" ELSE NewFactorialTail, 1)
  <2>1. Moved(2) /\ reg' = reg /\ out' = <<reg[OUT]>>
    BY <1>4, <1>5, <1>14, UnlEffect DEF Emits
  <2>2. stage' = "close" /\ reg[OUT] = Fact[job.n]
    BY <1>0, <1>1, <1>2, <1>5, <1>14 DEF Go, NewFactorialTail, Products, At
  <2>3. QED
    BY <1>0, <1>1, <1>2, <1>5, <1>14, <2>1, <2>2
       DEF FactorialEnd, Emitted, FactorialBuses, Emits, Moved, At
<1>15. QED
  BY <1>6, <1>7, <1>8, <1>9, <1>10, <1>11, <1>12, <1>13, <1>14 DEF NewFactorialLoop

(* The one to three factors that are left. *)
LEMMA FactorialRestStep ==
  ASSUME Typed, job.gen = "factorial", FactorialTail, NewFactorialRest, Emitting
  PROVE  FactorialTail' \/ FactorialEnd'
<1>0. /\ job \in Jobs /\ job.n \in Nat \ {0}
      /\ n = loop_iter + 1 /\ step \in 1 .. 2 * remainder
  BY ProgramAssumption DEF Typed, FactorialTail
<1>1. /\ loop_iter \in Nat /\ remainder \in 0 .. 3
      /\ job.n = 4 * loop_iter + remainder + 1
  BY <1>0, Division DEF loop_iter, remainder
<1>2. PICK m \in Nat : m = 4 * loop_iter
  BY <1>1
<1>3. \A k \in 2 .. remainder + 1 : /\ Fact[m + k] = (m + k) * Fact[m + k - 1]
                                   /\ Fact[m + k] \in Int /\ Fact[m + k - 1] \in Int
  BY <1>0, <1>1, <1>2, NextFactorial
<1>4. {OUT, TMP, N1, INC, N2, P1, P2} \subseteq Reg
  BY DEF Reg, OUT, TMP, N1, INC, N2, P1, P2
<1>5. Products(m, step) /\ Emits(8 + 8 * m + 4 * (step - 1), 2, 2) /\ FactorialBuses
  BY <1>0, <1>1, <1>2 DEF FactorialTail
<1>6. CASE At("tail", 1) /\ Mult(P1, OUT, TMP) /\ Step
  <2>1. Moved(4) /\ Sets(TMP, reg[P1] * reg[OUT])
    BY <1>4, <1>6, MultEffect
  <2>a. m + 2 - 1 = m + 1
    BY <1>2
  <2>b. Fact[m + 2] = (m + 2) * Fact[m + 1] /\ Fact[m + 2] \in Int /\ Fact[m + 1] \in Int
    BY <1>0, <1>1, <1>2, <1>3, <1>6, <2>a DEF At
  <2>2. Products(m, 2)'
    BY <1>2, <1>4, <1>5, <1>6, <2>1, <2>b
       DEF Products, Sets, At, OUT, TMP, N1, INC, N2, P1, P2
  <2>3. loop_iter' = loop_iter /\ remainder' = remainder
    BY <2>1 DEF Moved, loop_iter, remainder
  <2>4. step' = step + 1 /\ n' = n /\ stage' = "tail" /\ step = 1 /\ step < 2 * remainder
    BY <1>0, <1>1, <1>6 DEF At, Step
  <2>5. QED
    BY <1>0, <1>1, <1>2, <1>5, <2>1, <2>2, <2>3, <2>4
       DEF FactorialTail, FactorialBuses, Emits, Moved, Sets
<1>7. CASE At("tail", 2) /\ remainder = 1 /\ Unl(TMP) /\ Go("close", 1)
  <2>1. Moved(2) /\ reg' = reg /\ out' = <<reg[TMP]>>
    BY <1>4, <1>5, <1>7, UnlEffect DEF Emits
  <2>2. remainder = 1 /\ reg[TMP] = Fact[job.n]
    BY <1>0, <1>1, <1>2, <1>5, <1>7 DEF Products, At
  <2>3. QED
    BY <1>0, <1>1, <1>2, <1>5, <1>7, <2>1, <2>2
       DEF FactorialEnd, Emitted, FactorialBuses, Emits, Moved, At, Go
<1>8. CASE At("tail", 2) /\ remainder # 1 /\ Add(N1, INC, N2) /\ Step
  <2>1. Moved(4) /\ Sets(N2, reg[N1] + reg[INC])
    BY <1>4, <1>8, AddEffect
  <2>2. Products(m, 3)'
    BY <1>2, <1>4, <1>5, <1>8, <2>1
       DEF Products, Sets, At, OUT, TMP, N1, INC, N2, P1, P2
  <2>3. loop_iter' = loop_iter /\ remainder' = remainder
    BY <2>1 DEF Moved, loop_iter, remainder
  <2>4. step' = step + 1 /\ n' = n /\ stage' = "tail" /\ step = 2 /\ step < 2 * remainder
    BY <1>0, <1>1, <1>8 DEF At, Step
  <2>5. QED
    BY <1>0, <1>1, <1>2, <1>5, <2>1, <2>2, <2>3, <2>4
       DEF FactorialTail, FactorialBuses, Emits, Moved, Sets
<1>9. CASE At("tail", 3) /\ Mult(N2, TMP, OUT) /\ Step
  <2>1. Moved(4) /\ Sets(OUT, reg[N2] * reg[TMP])
    BY <1>4, <1>9, MultEffect
  <2>a. m + 3 - 1 = m + 2
    BY <1>2
  <2>b. Fact[m + 3] = (m + 3) * Fact[m + 2] /\ Fact[m + 3] \in Int /\ Fact[m + 2] \in Int
    BY <1>0, <1>1, <1>2, <1>3, <1>9, <2>a DEF At
  <2>2. Products(m, 4)'
    BY <1>2, <1>4, <1>5, <1>9, <2>1, <2>b
       DEF Products, Sets, At, OUT, TMP, N1, INC, N2, P1, P2
  <2>3. loop_iter' = loop_iter /\ remainder' = remainder
    BY <2>1 DEF Moved, loop_iter, remainder
  <2>4. step' = step + 1 /\ n' = n /\ stage' = "tail" /\ step = 3 /\ step < 2 * remainder
    BY <1>0, <1>1, <1>9 DEF At, Step
  <2>5. QED
    BY <1>0, <1>1, <1>2, <1>5, <2>1, <2>2, <2>3, <2>4
       DEF FactorialTail, FactorialBuses, Emits, Moved, Sets
<1>10. CASE At("tail", 4) /\ remainder = 2 /\ Unl(OUT) /\ Go("close", 1)
  <2>1. Moved(2) /\ reg' = reg /\ out' = <<reg[OUT]>>
    BY <1>4, <1>5, <1>10, UnlEffect DEF Emits
  <2>2. remainder = 2 /\ reg[OUT] = Fact[job.n]
    BY <1>0, <1>1, <1>2, <1>5, <1>10 DEF Products, At
  <2>3. QED
    BY <1>0, <1>1, <1>2, <1>5, <1>10, <2>1, <2>2
       DEF FactorialEnd, Emitted, FactorialBuses, Emits, Moved, At, Go
<1>11. CASE At("tail", 4) /\ remainder # 2 /\ Add(P1, INC, P2) /\ Step
  <2>1. Moved(4) /\ Sets(P2, reg[P1] + reg[INC])
    BY <1>4, <1>11, AddEffect
  <2>2. Products(m, 5)'
    BY <1>2, <1>4, <1>5, <1>11, <2>1
       DEF Products, Sets, At, OUT, TMP, N1, INC, N2, P1, P2
  <2>3. loop_iter' = loop_iter /\ remainder' = remainder
    BY <2>1 DEF Moved, loop_iter, remainder
  <2>4. step' = step + 1 /\ n' = n /\ stage' = "tail" /\ step = 4 /\ step < 2 * remainder
    BY <1>0, <1>1, <1>11 DEF At, Step
  <2>5. QED
    BY <1>0, <1>1, <1>2, <1>5, <2>1, <2>2, <2>3, <2>4
       DEF FactorialTail, FactorialBuses, Emits, Moved, Sets
<1>12. CASE At("tail", 5) /\ Mult(P2, OUT, TMP) /\ Step
  <2>1. Moved(4) /\ Sets(TMP, reg[P2] * reg[OUT])
    BY <1>4, <1>12, MultEffect
  <2>a. m + 4 - 1 = m + 3
    BY <1>2
  <2>b. Fact[m + 4] = (m + 4) * Fact[m + 3] /\ Fact[m + 4] \in Int /\ Fact[m + 3] \in Int
    BY <1>0, <1>1, <1>2, <1>3, <1>12, <2>a DEF At
  <2>2. Products(m, 6)'
    BY <1>2, <1>4, <1>5, <1>12, <2>1, <2>b
       DEF Products, Sets, At, OUT, TMP, N1, INC, N2, P1, P2
  <2>3. loop_iter' = loop_iter /\ remainder' = remainder
    BY <2>1 DEF Moved, loop_iter, remainder
  <2>4. step' = step + 1 /\ n' = n /\ stage' = "tail" /\ step = 5 /\ step < 2 * remainder
    BY <1>0, <1>1, <1>12 DEF At, Step
  <2>5. QED
    BY <1>0, <1>1, <1>2, <1>5, <2>1, <2>2, <2>3, <2>4
       DEF FactorialTail, FactorialBuses, Emits, Moved, Sets
<1>13. CASE At("tail", 6) /\ Unl(TMP) /\ Go("close", 1)
  <2>1. Moved(2) /\ reg' = reg /\ out' = <<reg[TMP]>>
    BY <1>4, <1>5, <1>13, UnlEffect DEF Emits
  <2>2. remainder = 3 /\ reg[TMP] = Fact[job.n]
    BY <1>0, <1>1, <1>2, <1>5, <1>13 DEF Products, At
  <2>3. QED
    BY <1>0, <1>1, <1>2, <1>5, <1>13, <2>1, <2>2
       DEF FactorialEnd, Emitted, FactorialBuses, Emits, Moved, At, Go
<1>14. QED
  BY <1>6, <1>7, <1>8, <1>9, <1>10, <1>11, <1>12, <1>13 DEF NewFactorialRest

(* The two loads. *)
LEMMA FactorialLoadStep ==
  ASSUME Typed, job.gen = "factorial", FactorialLoad, NewFactorialLoads, Emitting
  PROVE  FactorialLoad' \/ FactorialLoop' \/ FactorialTail' \/ FactorialEnd'
<1>0. /\ job \in Jobs /\ job.n \in Nat \ {0} /\ FactorialBuses
  BY ProgramAssumption DEF Typed, FactorialLoad
<1>1. /\ loop_iter \in Nat /\ remainder \in 0 .. 3
      /\ job.n = 4 * loop_iter + remainder + 1
  BY <1>0, Division DEF loop_iter, remainder
<1>2. Fact[1] = 1
  BY <1>0, NextFactorial, ProgramAssumption
<1>3. job' = job /\ loop_iter' = loop_iter /\ remainder' = remainder /\ FactorialBuses'
  BY <1>0 DEF Emitting, FactorialBuses, NewFactorialLoads, Loaab, loop_iter, remainder
<1>4. CASE At("load", 1) /\ Loaab(OUT, INC, <<>>, <<>>) /\ Step
  <2>1. Emits(0, 0, 0)
    BY <1>4 DEF FactorialLoad, At
  <2>2. reg' = [reg EXCEPT ![0] = 1, ![3] = 2]
    BY <1>0, <1>4, <2>1 DEF Loaab, FactorialBuses, Emits, OUT, INC
  <2>3. reg' \in [Reg -> Int] /\ reg'[OUT] = 1 /\ reg'[INC] = 2
    BY <2>2 DEF Typed, Reg, OUT, INC
  <2>4. Emits(4, 1, 1)' /\ stage' = "load" /\ step' = 2
    BY <1>4, <2>1, <2>3 DEF Emits, Loaab, Put, Emitting, Step, At
  <2>5. QED
    BY <1>3, <2>3, <2>4 DEF FactorialLoad
<1>5. CASE At("load", 2) /\ Loaab(N1, P1, <<>>, <<>>) /\ n' = 1
           /\ Go(IF 1 <= loop_iter THEN "loop" ELSE NewFactorialTail, 1)
  <2>1. Emits(4, 1, 1) /\ reg[OUT] = 1 /\ reg[INC] = 2
    BY <1>5 DEF FactorialLoad, At
  <2>2. reg' = [reg EXCEPT ![2] = 1, ![5] = 2]
    BY <1>0, <1>5, <2>1 DEF Loaab, FactorialBuses, Emits, N1, P1
  <2>3. /\ reg' \in [Reg -> Int]
        /\ reg'[OUT] = 1 /\ reg'[INC] = 2 /\ reg'[N1] = 1 /\ reg'[P1] = 2
    BY <2>1, <2>2 DEF Typed, Reg, OUT, INC, N1, P1
  <2>4. Products(0, 1)'
    BY <1>2, <2>3 DEF Products
  <2>5. Emits(8, 2, 2)' /\ step' = 1 /\ n' = 1 /\ num_command' = 8 /\ emitted' = 8
    BY <1>5, <2>1, <2>3 DEF Emits, Loaab, Put, Emitting, Go, At
  <2>6. CASE 1 <= loop_iter
    BY <1>1, <1>3, <1>5, <2>4, <2>5, <2>6 DEF FactorialLoop, Go
  <2>7. CASE loop_iter = 0 /\ remainder # 0
    BY <1>1, <1>3, <1>5, <2>4, <2>5, <2>7 DEF FactorialTail, Go, NewFactorialTail
  <2>8. CASE loop_iter = 0 /\ remainder = 0
    <3>1. stage' = "close" /\ job.n = 1
      BY <1>1, <1>5, <2>8 DEF Go, NewFactorialTail
    <3>2. QED
      BY <1>3, <2>5, <3>1 DEF FactorialEnd, Emitted, Emits, FactorialBuses
  <2>9. QED
    BY <1>1, <2>6, <2>7, <2>8
<1>6. QED
  BY <1>4, <1>5 DEF NewFactorialLoads

(* Opening the files, the first step, closing and the digests, for any     *)
(* generator that is not the random one.                                   *)
LEMMA BeginStep ==
  ASSUME Begins, Opening
  PROVE  Begins'
BY DEF Begins, Opening, Open, Go, At, control, buffer, machine

LEMMA CloseStep ==
  ASSUME NEW exact, Emitted(exact), Close, job.gen # "random",
         exact \/ job.gen \in {"factorial", "power"}
  PROVE  Emitted(exact)' /\ out' = out /\ job' = job
<1>1. delivered' = num_command
  BY DEF Emitted, Close, Delivered, At
<1>2. QED
  BY <1>1 DEF Emitted, Close, Go, At, machine

(* A step that changes nothing leaves what all three invariants are made   *)
(* of as it is.                                                            *)
LEMMA NothingMoves ==
  ASSUME UNCHANGED vars
  PROVE  /\ job' = job /\ status' = status /\ stage' = stage /\ step' = step /\ n' = n
         /\ size_commands' = size_commands /\ num_command' = num_command
         /\ emitted' = emitted /\ delivered' = delivered /\ out' = out /\ reg' = reg
         /\ busA' = busA /\ busB' = busB /\ loadsA' = loadsA /\ loadsB' = loadsB
         /\ Begins' = Begins /\ \A exact : Emitted(exact)' = Emitted(exact)
<1>1. /\ job' = job /\ status' = status /\ stage' = stage /\ step' = step /\ n' = n
      /\ size_commands' = size_commands /\ num_command' = num_command
      /\ emitted' = emitted /\ delivered' = delivered /\ out' = out /\ reg' = reg
      /\ busA' = busA /\ busB' = busB /\ loadsA' = loadsA /\ loadsB' = loadsB
  BY DEF vars, control, outputs, buffer, machine
<1>2. Begins' = Begins
  BY <1>1 DEF Begins
<1>3. \A exact : Emitted(exact)' = Emitted(exact)
  BY <1>1 DEF Emitted
<1>4. QED
  BY <1>1, <1>2, <1>3

LEMMA FactorialStep ==
  ASSUME job \in Jobs, job.gen = "factorial", FactorialInv, [Next]_vars
  PROVE  FactorialInv'
<1>2. CASE UNCHANGED vars
  <2>1. FactorialBuses' = FactorialBuses /\ loop_iter' = loop_iter /\ remainder' = remainder
    BY <1>2, NothingMoves DEF FactorialBuses, loop_iter, remainder
  <2>2. FactorialLoad' = FactorialLoad
    BY <1>2, <2>1, NothingMoves DEF FactorialLoad, Emits
  <2>3. FactorialLoop' = FactorialLoop
    BY <1>2, <2>1, NothingMoves DEF FactorialLoop, Emits, Products
  <2>4. FactorialTail' = FactorialTail
    BY <1>2, <2>1, NothingMoves DEF FactorialTail, Emits, Products
  <2>5. FactorialEnd' = FactorialEnd
    BY <1>2, NothingMoves DEF FactorialEnd
  <2>6. QED
    BY <1>2, <2>2, <2>3, <2>4, <2>5, NothingMoves DEF FactorialInv
<1>3. CASE Opening
  <2>1. Begins
    BY <1>3 DEF FactorialInv, Opening, Open, At, FactorialLoad, FactorialLoop, FactorialTail,
         FactorialEnd, Emitted
  <2>2. QED
    BY <1>3, <2>1, BeginStep DEF FactorialInv
<1>4. CASE Close
  <2>1. FactorialEnd
    BY <1>4 DEF FactorialInv, Begins, Close, At, FactorialLoad, FactorialLoop, FactorialTail
  <2>2. FactorialEnd'
    BY <1>4, <2>1, CloseStep DEF FactorialEnd
  <2>3. QED
    BY <2>2 DEF FactorialInv
<1>5. CASE Md5Sums
  <2>1. FactorialEnd
    BY <1>5 DEF FactorialInv, Begins, Md5Sums, At, FactorialLoad, FactorialLoop, FactorialTail
  <2>2. FactorialEnd'
    BY <1>5, <2>1 DEF FactorialEnd, Emitted, Md5Sums, At, control, buffer, machine
  <2>3. QED
    BY <2>2 DEF FactorialInv
<1>6. CASE NewFactorialStart
  <2>1. Begins
    BY <1>6 DEF FactorialInv, NewFactorialStart, Start, At, FactorialLoad, FactorialLoop,
         FactorialTail, FactorialEnd, Emitted
  <2>2. FactorialLoad'
    <3>1. job.n \in Nat
      BY ProgramAssumption
    <3>2. QED
      BY <1>6, <2>1, <3>1 DEF NewFactorialStart, Start, At, Go, Begins, FactorialLoad,
           FactorialBuses, Emits, buffer
  <2>3. QED
    BY <2>2 DEF FactorialInv
<1>7. CASE Emitting /\ (NewFactorialLoads \/ NewFactorialLoop \/ NewFactorialRest)
  <2>1. CASE NewFactorialLoads
    <3>1. FactorialLoad
      BY <2>1 DEF NewFactorialLoads, At, FactorialInv, Begins, FactorialLoop, FactorialTail,
           FactorialEnd, Emitted
    <3>2. QED
      BY <1>7, <2>1, <3>1, FactorialLoadStep DEF FactorialInv, FactorialLoad, Emits, Typed
  <2>2. CASE NewFactorialLoop
    <3>1. FactorialLoop
      BY <2>2 DEF NewFactorialLoop, At, FactorialInv, Begins, FactorialLoad, FactorialTail,
           FactorialEnd, Emitted
    <3>2. QED
      BY <1>7, <2>2, <3>1, FactorialLoopStep DEF FactorialInv, FactorialLoop, Emits, Typed
  <2>3. CASE NewFactorialRest
    <3>1. FactorialTail
      BY <2>3 DEF NewFactorialRest, At, FactorialInv, Begins, FactorialLoad, FactorialLoop,
           FactorialEnd, Emitted
    <3>2. QED
      BY <1>7, <2>3, <3>1, FactorialRestStep DEF FactorialInv, FactorialTail, Emits, Typed
  <2>4. QED
    BY <1>7, <2>1, <2>2, <2>3
<1>8. QED
  <2>1. CASE Halted
    BY <1>2, <2>1 DEF Halted
  <2>2. CASE Next /\ ~Halted /\ ~Opening /\ ~Close /\ ~Md5Sums
    <3>1. NewFactorial
      BY <2>2 DEF Next, OldFactorial, OldFactorialStart, PowerNN, Addition, Random, Dgf,
           DgfStart, DgfReject, Start
    <3>2. QED
      BY <1>6, <1>7, <3>1 DEF NewFactorial
  <2>3. QED
    BY <1>2, <1>3, <1>4, <1>5, <2>1, <2>2

-----------------------------------------------------------------------------
(* factorial_code_gen *)

(* The registers before instruction k of a pair of factors that follows    *)
(* the product of the factors up to m.                                     *)
Pairs(m, k) ==
  /\ reg[INC] = 1
  /\ k \in {1, 2} => reg[OUT] = Fact[m]
  /\ k \in {1} => reg[MUL] = m
  /\ k \in {2, 3} => reg[RES] = m + 1
  /\ k \in {3, 4} => reg[TMP] = Fact[m + 1]
  /\ k \in {4} => reg[MUL] = m + 2
  /\ k \in {5} => reg[OUT] = Fact[m + 2]

OldBuses == size_commands = 8 * job.n /\ busA = <<1, 1>> /\ busB = <<1>>

OldLoad ==
  /\ stage = "load" /\ OldBuses
  /\ \/ step = 1 /\ Emits(0, 0, 0)
     \/ step = 2 /\ Emits(4, 1, 1) /\ reg[OUT] = 1 /\ reg[MUL] = 1

(* A pair of factors, in the loop or of the rest of an odd argument.  An   *)
(* even one ends after the first of the two.                               *)
OldPair ==
  /\ OldBuses /\ n \in Nat /\ 2 <= n
  /\ \/ stage = "loop" /\ step \in 1 .. 4 /\ 2 * n <= job.n
     \/ stage = "even" /\ step \in 1 .. 3 /\ job.n = 2 * (n - 1)
     \/ stage = "odd" /\ step \in 1 .. 5 /\ job.n = 2 * n - 1
  /\ Emits(6 + 16 * (n - 2) + 4 * (step - 1), 2, 1)
  /\ Pairs(2 * n - 3, step)

OldEnd == Emitted(TRUE) /\ out = <<Fact[job.n]>>

OldInv == job.gen = "old_factorial" => Begins \/ OldLoad \/ OldPair \/ OldEnd

(* Where the older generator goes when the loop counter is m.              *)
LEMMA OldAfter ==
  ASSUME NEW j \in Nat, NEW m \in Nat, 2 * (m - 1) <= j
  PROVE  /\ m <= j \div 2 => 2 * m <= j
         /\ ~(m <= j \div 2) /\ j % 2 = 0 => j = 2 * (m - 1)
         /\ ~(m <= j \div 2) /\ j % 2 # 0 => j = 2 * m - 1
OBVIOUS

LEMMA OldLoadStep ==
  ASSUME Typed, job.gen = "old_factorial", OldLoad, Emitting,
         OldFactorialLoads
  PROVE  OldLoad' \/ OldPair'
<1>0. /\ job \in Jobs /\ job.n \in Nat \ {0} /\ 2 <= job.n /\ OldBuses
  BY ProgramAssumption DEF Typed, OldLoad
<1>1. Fact[1] = 1
  <2>1. 1 \in 1 .. MaxN /\ 1 - 1 = 0
    BY <1>0, ProgramAssumption
  <2>2. Fact[1] = 1 * Fact[0] /\ Fact[0] = 1
    BY <2>1, ProgramAssumption
  <2>3. QED
    BY <2>2
<1>2. job' = job /\ OldBuses'
  BY <1>0 DEF Emitting, OldBuses, Loaab, Loaa, OldFactorialLoads
<1>3. CASE At("load", 1) /\ Loaab(OUT, MUL, <<>>, <<>>) /\ Step
  <2>1. Emits(0, 0, 0)
    BY <1>3 DEF OldLoad, At
  <2>2. reg' = [reg EXCEPT ![0] = 1, ![2] = 1]
    BY <1>0, <1>3, <2>1 DEF Loaab, OldBuses, Emits, OUT, MUL
  <2>3. reg' \in [Reg -> Int] /\ reg'[OUT] = 1 /\ reg'[MUL] = 1
    <3>1. reg \in [Reg -> Int]
      BY DEF Typed
    <3>2. QED
      BY <2>2, <3>1 DEF Reg, OUT, MUL
  <2>4. Emits(4, 1, 1)' /\ stage' = "load" /\ step' = 2
    BY <1>3, <2>1, <2>3 DEF Emits, Loaab, Put, Emitting, Step, At
  <2>5. QED
    BY <1>2, <2>3, <2>4 DEF OldLoad
<1>4. CASE At("load", 2) /\ Loaa(INC, <<>>) /\ n' = 2 /\ OldFactorialAfter(2)
  <2>1. Emits(4, 1, 1) /\ reg[OUT] = 1 /\ reg[MUL] = 1
    BY <1>4 DEF OldLoad, At
  <2>2. reg' = [reg EXCEPT ![3] = 1]
    BY <1>0, <1>4, <2>1 DEF Loaa, OldBuses, Emits, INC
  <2>3. reg' \in [Reg -> Int] /\ reg'[OUT] = 1 /\ reg'[MUL] = 1 /\ reg'[INC] = 1
    <3>1. reg \in [Reg -> Int] /\ reg[0] = 1 /\ reg[2] = 1
      BY <2>1 DEF Typed, OUT, MUL
    <3>2. QED
      BY <2>2, <3>1 DEF Reg, OUT, MUL, INC
  <2>4. Pairs(1, 1)'
    BY <1>1, <2>3 DEF Pairs
  <2>5. Emits(6, 2, 1)' /\ step' = 1 /\ n' = 2
    BY <1>4, <2>1, <2>3 DEF Emits, Loaa, Put, Emitting, Go, OldFactorialAfter, At
  <2>6. \/ stage' = "loop" /\ 2 * 2 <= job.n
        \/ stage' = "even" /\ job.n = 2 * (2 - 1)
        \/ stage' = "odd" /\ job.n = 2 * 2 - 1
    BY <1>0, <1>4, OldAfter DEF Go, OldFactorialAfter
  <2>7. QED
    BY <1>2, <2>4, <2>5, <2>6 DEF OldPair
<1>5. QED
  BY <1>3, <1>4 DEF OldFactorialLoads

LEMMA OldPairStep ==
  ASSUME Typed, job.gen = "old_factorial", OldPair, OldFactorial, Emitting
  PROVE  OldPair' \/ OldEnd'
<1>0. /\ job \in Jobs /\ job.n \in Nat \ {0}
      /\ n \in Nat /\ 2 <= n /\ step \in 1 .. 5
      /\ stage \in {"loop", "even", "odd"} /\ OldBuses
  BY ProgramAssumption DEF Typed, OldPair
<1>1. PICK m \in Nat : m = 2 * n - 3 /\ m >= 1
  BY <1>0
<1>2. m + 1 <= job.n /\ (stage = "odd" => m + 2 <= job.n) /\ (stage = "loop" => m + 3 <= job.n)
  BY <1>0, <1>1 DEF OldPair
<1>3. /\ Fact[m + 1] = (m + 1) * Fact[m] /\ Fact[m] \in Int /\ Fact[m + 1] \in Int
      /\ m + 2 <= job.n => Fact[m + 2] = (m + 2) * Fact[m + 1]
  <2>1. m + 1 - 1 = m /\ m + 2 - 1 = m + 1
    BY <1>1
  <2>2. QED
    BY <1>0, <1>1, <1>2, <2>1, NextFactorial
<1>4. {OUT, TMP, MUL, INC, RES} \subseteq Reg
  BY DEF Reg, OUT, TMP, MUL, INC, RES
<1>5. Pairs(m, step) /\ Emits(6 + 8 * (m - 1) + 4 * (step - 1), 2, 1)
  BY <1>0, <1>1 DEF OldPair
<1>6. CASE stage \in {"loop", "even", "odd"} /\ status = "run" /\ step = 1 /\ Add(MUL, INC, RES) /\ Step
  <2>1. Moved(4) /\ Sets(RES, reg[MUL] + reg[INC])
    BY <1>4, <1>6, AddEffect
  <2>2. Pairs(m, 2)'
    BY <1>1, <1>2, <1>3, <1>4, <1>5, <1>6, <2>1
       DEF Pairs, Sets, OUT, TMP, MUL, INC, RES
  <2>3. QED
    BY <1>0, <1>1, <1>5, <1>6, <2>1, <2>2 DEF OldPair, OldBuses, Emits, Moved, Sets, Step
<1>7. CASE stage \in {"loop", "even", "odd"} /\ status = "run" /\ step = 2 /\ Mult(RES, OUT, TMP) /\ Step
  <2>1. Moved(4) /\ Sets(TMP, reg[RES] * reg[OUT])
    BY <1>4, <1>7, MultEffect
  <2>2. Pairs(m, 3)'
    BY <1>1, <1>2, <1>3, <1>4, <1>5, <1>7, <2>1
       DEF Pairs, Sets, OUT, TMP, MUL, INC, RES
  <2>3. QED
    BY <1>0, <1>1, <1>5, <1>7, <2>1, <2>2 DEF OldPair, OldBuses, Emits, Moved, Sets, Step
<1>8. CASE stage \in {"loop", "odd"} /\ status = "run" /\ step = 3 /\ Add(RES, INC, MUL) /\ Step
  <2>1. Moved(4) /\ Sets(MUL, reg[RES] + reg[INC])
    BY <1>4, <1>8, AddEffect
  <2>2. Pairs(m, 4)'
    BY <1>1, <1>2, <1>3, <1>4, <1>5, <1>8, <2>1
       DEF Pairs, Sets, OUT, TMP, MUL, INC, RES
  <2>3. QED
    BY <1>0, <1>1, <1>5, <1>8, <2>1, <2>2 DEF OldPair, OldBuses, Emits, Moved, Sets, Step
<1>9. CASE stage \in {"odd"} /\ status = "run" /\ step = 4 /\ Mult(MUL, TMP, OUT) /\ Step
  <2>1. Moved(4) /\ Sets(OUT, reg[MUL] * reg[TMP])
    BY <1>4, <1>9, MultEffect
  <2>2. Pairs(m, 5)'
    BY <1>1, <1>2, <1>3, <1>4, <1>5, <1>9, <2>1
       DEF Pairs, Sets, OUT, TMP, MUL, INC, RES
  <2>3. QED
    BY <1>0, <1>1, <1>5, <1>9, <2>1, <2>2 DEF OldPair, OldBuses, Emits, Moved, Sets, Step
<1>10. CASE At("loop", 4) /\ Mult(MUL, TMP, OUT) /\ n' = n + 1 /\ OldFactorialAfter(n + 1)
  <2>1. Moved(4) /\ Sets(OUT, reg[MUL] * reg[TMP])
    BY <1>4, <1>10, MultEffect
  <2>2. Pairs(m + 2, 1)'
    <3>1. Fact[m + 2] = (m + 2) * Fact[m + 1]
      <4>1. m + 2 <= job.n
        BY <1>0, <1>1, <1>2, <1>10 DEF At
      <4>2. QED
        BY <1>3, <4>1
    <3>2. reg[MUL] = m + 2 /\ reg[TMP] = Fact[m + 1] /\ reg[INC] = 1
      BY <1>5, <1>10 DEF Pairs, At
    <3>3. reg'[OUT] = Fact[m + 2] /\ reg'[MUL] = m + 2 /\ reg'[INC] = 1
      BY <1>4, <2>1, <3>1, <3>2 DEF Sets, OUT, MUL, INC
    <3>4. QED
      BY <3>3 DEF Pairs
  <2>3. /\ OldBuses' /\ Emits(6 + 8 * (m + 1), 2, 1)' /\ step' = 1 /\ n' = n + 1 /\ job' = job
    BY <1>0, <1>1, <1>5, <1>10, <2>1
       DEF OldBuses, Emits, Moved, Sets, At, Go, OldFactorialAfter
  <2>4. \/ stage' = "loop" /\ 2 * (n + 1) <= job.n
        \/ stage' = "even" /\ job.n = 2 * n
        \/ stage' = "odd" /\ job.n = 2 * (n + 1) - 1
    <3>1. 2 * (n + 1 - 1) <= job.n
      BY <1>0, <1>10 DEF OldPair, At
    <3>2. QED
      BY <1>0, <1>10, <3>1, OldAfter DEF Go, OldFactorialAfter
  <2>5. QED
    BY <1>0, <1>1, <2>2, <2>3, <2>4 DEF OldPair
<1>11. CASE At("even", 3) /\ Unl(TMP) /\ Go("close", 1)
  <2>1. Moved(2) /\ reg' = reg /\ out' = <<reg[TMP]>>
    BY <1>4, <1>5, <1>11, UnlEffect DEF Emits
  <2>2. job.n = m + 1 /\ reg[TMP] = Fact[job.n]
    BY <1>0, <1>1, <1>5, <1>11 DEF OldPair, Pairs, At
  <2>3. QED
    BY <1>0, <1>1, <1>5, <1>11, <2>1, <2>2
       DEF OldEnd, Emitted, OldBuses, Emits, Moved, At, Go
<1>12. CASE At("odd", 5) /\ Unl(OUT) /\ Go("close", 1)
  <2>1. Moved(2) /\ reg' = reg /\ out' = <<reg[OUT]>>
    BY <1>4, <1>5, <1>12, UnlEffect DEF Emits
  <2>2. job.n = m + 2 /\ reg[OUT] = Fact[job.n]
    BY <1>0, <1>1, <1>5, <1>12 DEF OldPair, Pairs, At
  <2>3. QED
    BY <1>0, <1>1, <1>5, <1>12, <2>1, <2>2
       DEF OldEnd, Emitted, OldBuses, Emits, Moved, At, Go
<1>13. QED
  BY <1>0, <1>6, <1>7, <1>8, <1>9, <1>10, <1>11, <1>12
     DEF OldFactorial, OldFactorialStart, OldFactorialLoads, OldFactorialPair, Start, At

LEMMA OldStep ==
  ASSUME job \in Jobs, job.gen = "old_factorial", OldInv, [Next]_vars
  PROVE  OldInv'
<1>1. CASE UNCHANGED vars
  <2>1. OldBuses' = OldBuses
    BY <1>1, NothingMoves DEF OldBuses
  <2>2. OldLoad' = OldLoad
    BY <1>1, <2>1, NothingMoves DEF OldLoad, Emits
  <2>3. OldPair' = OldPair
    BY <1>1, <2>1, NothingMoves DEF OldPair, Emits, Pairs
  <2>4. OldEnd' = OldEnd
    BY <1>1, NothingMoves DEF OldEnd
  <2>5. QED
    BY <1>1, <2>2, <2>3, <2>4, NothingMoves DEF OldInv
<1>2. CASE Opening
  <2>1. Begins
    BY <1>2 DEF OldInv, Opening, Open, At, OldLoad, OldPair, OldEnd, Emitted
  <2>2. QED
    BY <1>2, <2>1, BeginStep DEF OldInv
<1>3. CASE Close
  <2>1. OldEnd
    BY <1>3 DEF OldInv, Begins, Close, At, OldLoad, OldPair
  <2>2. OldEnd'
    BY <1>3, <2>1, CloseStep DEF OldEnd
  <2>3. QED
    BY <2>2 DEF OldInv
<1>4. CASE Md5Sums
  <2>1. OldEnd
    BY <1>4 DEF OldInv, Begins, Md5Sums, At, OldLoad, OldPair
  <2>2. OldEnd'
    BY <1>4, <2>1 DEF OldEnd, Emitted, Md5Sums, At, control, buffer, machine
  <2>3. QED
    BY <2>2 DEF OldInv
<1>5. CASE OldFactorialStart
  <2>1. Begins
    BY <1>5 DEF OldInv, OldFactorialStart, Start, At, OldLoad, OldPair, OldEnd, Emitted
  <2>2. job.n \in Nat
    BY ProgramAssumption
  <2>3. OldLoad'
    BY <1>5, <2>1, <2>2 DEF OldFactorialStart, Start, At, Go, Begins, OldLoad, OldBuses,
         Emits, buffer
  <2>4. QED
    BY <2>3 DEF OldInv
<1>6. CASE OldFactorial /\ ~OldFactorialStart
  <2>1. Emitting /\ stage \in {"load", "loop", "even", "odd"}
    BY <1>6 DEF OldFactorial, OldFactorialLoads, OldFactorialPair, At
  <2>2. OldLoad \/ OldPair
    BY <2>1 DEF OldInv, Begins, OldEnd, Emitted
  <2>3. CASE OldLoad
    <3>1. OldFactorialLoads
      BY <1>6, <2>3 DEF OldFactorial, OldFactorialPair, At, OldLoad
    <3>2. QED
      BY <2>1, <2>3, <3>1, OldLoadStep DEF OldInv, OldLoad, Emits, Typed
  <2>4. CASE OldPair
    BY <1>6, <2>1, <2>4, OldPairStep DEF OldInv, OldPair, Emits, Typed
  <2>5. QED
    BY <2>2, <2>3, <2>4
<1>7. QED
  <2>1. CASE Halted
    BY <1>1, <2>1 DEF Halted
  <2>2. CASE Next /\ ~Halted /\ ~Opening /\ ~Close /\ ~Md5Sums
    <3>1. OldFactorial
      BY <2>2 DEF Next, NewFactorial, NewFactorialStart, PowerNN, Addition, Random, Dgf,
           DgfStart, DgfReject, Start
    <3>2. QED
      BY <1>5, <1>6, <3>1
  <2>3. QED
    BY <1>1, <1>2, <1>3, <1>4, <2>1, <2>2

-----------------------------------------------------------------------------
(* pownn_code_gen *)

(* Iterations of the loop: two multiplications each. *)
Halves == (job.n - 1) \div 2

PowerLoad == /\ stage = "load" /\ step = 1 /\ size_commands = PowerSize
             /\ busA = <<>> /\ busB = <<>>
             /\ Emits(0, 0, 0)

PowerPlace ==
  /\ size_commands = PowerSize /\ busA = <<job.n>> /\ busB = <<job.n>>
  /\ n \in Nat
  /\ \/ stage = "loop" /\ n < Halves
     \/ stage = "tail" /\ n = Halves /\ (step = 2 => job.n % 2 = 0)
  /\ Emits(4 + 8 * n + 4 * (step - 1), 1, 1)
  /\ reg[MULREG] = job.n
  /\ \/ step = 1 /\ reg[OUT] = Power[job.n][2 * n + 1]
     \/ step = 2 /\ reg[TMPREG] = Power[job.n][2 * n + 2]

PowerEnd == Emitted(TRUE) /\ out = <<Power[job.n][job.n]>>

PowerInv == job.gen = "power" => Begins \/ PowerLoad \/ PowerPlace \/ PowerEnd

LEMMA HalvesOf ==
  ASSUME NEW j \in Nat \ {0}
  PROVE  /\ (j - 1) \div 2 \in Nat
         /\ j % 2 = 0 => j = 2 * ((j - 1) \div 2) + 2
         /\ j % 2 # 0 => j = 2 * ((j - 1) \div 2) + 1
OBVIOUS

(* A power is the power before times its base.                             *)
LEMMA NextPower ==
  ASSUME NEW j \in Jobs, NEW i \in Nat, i + 2 <= j.n
  PROVE  Power[j.n][i + 2] = Power[j.n][i + 1] * j.n
<1>1. MaxN \in Nat /\ j.n \in 1 .. MaxN
  BY ProgramAssumption
<1>2. PICK k \in 2 .. j.n : k = i + 2
  BY <1>1
<1>3. k - 1 = i + 1
  BY <1>2
<1>4. Power[j.n][k] = Power[j.n][k - 1] * j.n
  BY <1>1, <1>2, ProgramAssumption
<1>5. QED
  BY <1>2, <1>3, <1>4

LEMMA PowerLoadStep ==
  ASSUME Typed, job.gen = "power", PowerLoad, Emitting,
         Loaab(OUT, MULREG, <<job.n>>, <<job.n>>), n' = 0, PowerAfter(0)
  PROVE  PowerPlace'
<1>1. job \in Jobs /\ job.n \in Nat \ {0} /\ job' = job /\ Power[job.n][1] = job.n
  BY ProgramAssumption DEF Typed, Emitting
<1>2. Halves \in Nat /\ Halves' = Halves /\ PowerSize' = PowerSize
  BY <1>1, HalvesOf DEF Halves, PowerSize
<1>3. busA' = <<job.n>> /\ busB' = <<job.n>>
  BY <1>1 DEF Loaab, PowerLoad
<1>4. reg' = [reg EXCEPT ![0] = job.n, ![1] = job.n]
  BY <1>1, <1>3 DEF Loaab, PowerLoad, Emits, OUT, MULREG
<1>5. reg' \in [Reg -> Int] /\ reg'[OUT] = job.n /\ reg'[MULREG] = job.n
  <2>1. reg \in [Reg -> Int] /\ job.n \in Int
    BY <1>1 DEF Typed
  <2>2. QED
    BY <1>4, <2>1 DEF Reg, OUT, MULREG
<1>6. Emits(4, 1, 1)' /\ step' = 1 /\ size_commands' = PowerSize
  BY <1>5 DEF PowerLoad, Emits, Loaab, Put, Emitting, Go, PowerAfter
<1>7. \/ stage' = "loop" /\ 0 < Halves
      \/ stage' = "tail" /\ 0 = Halves
  BY <1>2 DEF PowerAfter, Go, Halves
<1>8. QED
  BY <1>1, <1>2, <1>3, <1>5, <1>6, <1>7 DEF PowerPlace

LEMMA PowerPlaceStep ==
  ASSUME Typed, job.gen = "power", PowerPlace, PowerNN, Emitting
  PROVE  PowerPlace' \/ PowerEnd'
<1>0. /\ job \in Jobs /\ job.n \in Nat \ {0} /\ job' = job
      /\ n \in Nat /\ step \in {1, 2} /\ stage \in {"loop", "tail"}
  <2>1. job \in Jobs /\ job' = job
    BY DEF Typed, Emitting
  <2>2. job.n \in Nat \ {0}
    BY <2>1, ProgramAssumption
  <2>3. n \in Nat /\ step \in {1, 2} /\ stage \in {"loop", "tail"}
    BY DEF PowerPlace
  <2>4. QED
    BY <2>1, <2>2, <2>3
<1>1. /\ Halves \in Nat /\ Halves' = Halves /\ PowerSize' = PowerSize
      /\ job.n % 2 = 0 => job.n = 2 * Halves + 2 /\ PowerSize = 4 + 8 * Halves + 6
      /\ job.n % 2 # 0 => job.n = 2 * Halves + 1 /\ PowerSize = 4 + 8 * Halves + 2
  BY <1>0, HalvesOf DEF Halves, PowerSize
<1>2. {OUT, MULREG, TMPREG} \subseteq Reg
  BY DEF Reg, OUT, MULREG, TMPREG
<1>3. size_commands' = PowerSize'
  BY <1>1 DEF PowerPlace, Emitting
<1>4. CASE step = 1 /\ Mult(OUT, MULREG, TMPREG) /\ Step
           /\ (stage = "tail" => job.n % 2 = 0)
  <2>1. Moved(4) /\ Sets(TMPREG, reg[OUT] * reg[MULREG])
    BY <1>2, <1>4, MultEffect
  <2>2. reg[OUT] = Power[job.n][2 * n + 1] /\ reg[MULREG] = job.n
    BY <1>4 DEF PowerPlace
  <2>3. 2 * n + 2 <= job.n
    BY <1>0, <1>1, <1>4 DEF PowerPlace
  <2>4. PICK i \in Nat : i = 2 * n
    BY <1>0
  <2>5. Power[job.n][i + 2] = Power[job.n][i + 1] * job.n
    BY <1>0, <2>3, <2>4, NextPower
  <2>6. reg'[TMPREG] = Power[job.n][2 * n + 2] /\ reg'[MULREG] = job.n
    BY <1>2, <2>1, <2>2, <2>4, <2>5 DEF Sets, MULREG, TMPREG
  <2>7. Emits(4 + 8 * n + 4, 1, 1)' /\ stage' = stage /\ n' = n /\ step' = 2
        /\ busA' = busA /\ busB' = busB
    BY <1>0, <1>4, <2>1 DEF PowerPlace, Emits, Moved, Sets, Step
  <2>8. QED
    BY <1>0, <1>1, <1>3, <1>4, <2>6, <2>7 DEF PowerPlace
<1>5. CASE At("loop", 2) /\ Mult(TMPREG, MULREG, OUT) /\ n' = n + 1 /\ PowerAfter(n + 1)
  <2>1. Moved(4) /\ Sets(OUT, reg[TMPREG] * reg[MULREG])
    BY <1>2, <1>5, MultEffect
  <2>2. reg[TMPREG] = Power[job.n][2 * n + 2] /\ reg[MULREG] = job.n /\ n < Halves
    BY <1>5 DEF PowerPlace, At
  <2>3. 2 * n + 3 <= job.n
    BY <1>0, <1>1, <2>2
  <2>4. PICK i \in Nat : i = 2 * n + 1
    BY <1>0
  <2>5. Power[job.n][i + 2] = Power[job.n][i + 1] * job.n
    BY <1>0, <2>3, <2>4, NextPower
  <2>6. i + 1 = 2 * n + 2 /\ i + 2 = 2 * (n + 1) + 1
    BY <1>0, <2>4
  <2>7. reg'[OUT] = Power[job.n][2 * (n + 1) + 1] /\ reg'[MULREG] = job.n
    BY <1>2, <2>1, <2>2, <2>5, <2>6 DEF Sets, MULREG, OUT
  <2>8. PICK k \in Nat : k = n + 1
    BY <1>0
  <2>9. n' = k /\ step' = 1 /\ busA' = busA /\ busB' = busB
    BY <1>5, <2>1, <2>8 DEF PowerAfter, Go, Moved
  <2>10. Emits(4 + 8 * k, 1, 1)'
    <3>1. Emits(4 + 8 * n + 4, 1, 1)
      BY <1>0, <1>5 DEF PowerPlace, At
    <3>2. 4 + 8 * k = 4 + 8 * n + 4 + 4
      BY <1>0, <2>8
    <3>3. QED
      BY <1>0, <2>1, <3>1, <3>2 DEF Emits, Moved, Sets
  <2>11. \/ stage' = "loop" /\ k < Halves
         \/ stage' = "tail" /\ k = Halves
    BY <1>0, <1>1, <1>5, <2>2, <2>8 DEF PowerAfter, Go, Halves
  <2>12. reg'[OUT] = Power[job.n][2 * k + 1]
    BY <2>7, <2>8
  <2>13. busA' = <<job.n>> /\ busB' = <<job.n>> /\ 4 + 8 * k + 4 * (1 - 1) = 4 + 8 * k
    BY <2>8, <2>9 DEF PowerPlace
  <2>14. QED
    BY <1>0, <1>1, <1>3, <2>7, <2>9, <2>10, <2>11, <2>12, <2>13 DEF PowerPlace
<1>6. CASE At("tail", 1) /\ job.n % 2 # 0 /\ Unl(OUT) /\ Go("close", 1)
  <2>1. Moved(2) /\ out' = <<reg[OUT]>>
    BY <1>2, <1>6, UnlEffect DEF PowerPlace, Emits
  <2>2. reg[OUT] = Power[job.n][job.n]
    BY <1>1, <1>6 DEF PowerPlace, At
  <2>3. QED
    BY <1>0, <1>1, <1>6, <2>1, <2>2 DEF PowerPlace, PowerEnd, Emitted, Emits, Moved, At, Go
<1>7. CASE At("tail", 2) /\ Unl(TMPREG) /\ Go("close", 1)
  <2>1. Moved(2) /\ out' = <<reg[TMPREG]>>
    BY <1>2, <1>7, UnlEffect DEF PowerPlace, Emits
  <2>2. reg[TMPREG] = Power[job.n][job.n]
    BY <1>1, <1>7 DEF PowerPlace, At
  <2>3. QED
    BY <1>0, <1>1, <1>7, <2>1, <2>2 DEF PowerPlace, PowerEnd, Emitted, Emits, Moved, At, Go
<1>8. QED
  BY <1>0, <1>4, <1>5, <1>6, <1>7 DEF PowerNN, Start, At

LEMMA PowerStep ==
  ASSUME job \in Jobs, job.gen = "power", PowerInv, [Next]_vars
  PROVE  PowerInv'
<1>1. CASE UNCHANGED vars
  <2>1. PowerSize' = PowerSize /\ Halves' = Halves
    BY <1>1, NothingMoves DEF PowerSize, Halves
  <2>2. PowerLoad' = PowerLoad
    BY <1>1, <2>1, NothingMoves DEF PowerLoad, Emits
  <2>3. PowerPlace' = PowerPlace
    BY <1>1, <2>1, NothingMoves DEF PowerPlace, Emits
  <2>4. PowerEnd' = PowerEnd
    BY <1>1, NothingMoves DEF PowerEnd
  <2>5. QED
    BY <1>1, <2>2, <2>3, <2>4, NothingMoves DEF PowerInv
<1>2. CASE Opening
  <2>1. Begins
    BY <1>2 DEF PowerInv, Opening, Open, At, PowerLoad, PowerPlace, PowerEnd, Emitted
  <2>2. QED
    BY <1>2, <2>1, BeginStep DEF PowerInv
<1>3. CASE Close
  <2>1. PowerEnd
    BY <1>3 DEF PowerInv, Begins, Close, At, PowerLoad, PowerPlace
  <2>2. PowerEnd'
    BY <1>3, <2>1, CloseStep DEF PowerEnd
  <2>3. QED
    BY <2>2 DEF PowerInv
<1>4. CASE Md5Sums
  <2>1. PowerEnd
    BY <1>4 DEF PowerInv, Begins, Md5Sums, At, PowerLoad, PowerPlace
  <2>2. PowerEnd'
    BY <1>4, <2>1 DEF PowerEnd, Emitted, Md5Sums, At, control, buffer, machine
  <2>3. QED
    BY <2>2 DEF PowerInv
<1>5. CASE Start("power", PowerSize, <<>>, <<>>)
  <2>1. Begins
    BY <1>5 DEF PowerInv, Start, At, PowerLoad, PowerPlace, PowerEnd, Emitted
  <2>2. job' = job /\ PowerSize' = PowerSize
    BY <1>5 DEF Start, PowerSize
  <2>3. PowerLoad'
    BY <1>5, <2>1, <2>2 DEF Start, At, Go, Begins, PowerLoad, Emits, buffer
  <2>4. QED
    BY <2>3 DEF PowerInv
<1>6. CASE PowerNN /\ stage # "start"
  <2>1. Emitting /\ stage \in {"load", "loop", "tail"}
    BY <1>6 DEF PowerNN, Start, At
  <2>2. PowerLoad \/ PowerPlace
    BY <2>1 DEF PowerInv, Begins, PowerEnd, Emitted
  <2>3. CASE PowerLoad
    <3>1. Loaab(OUT, MULREG, <<job.n>>, <<job.n>>) /\ n' = 0 /\ PowerAfter(0)
      BY <1>6, <2>3 DEF PowerNN, Start, At, PowerLoad
    <3>2. QED
      BY <2>1, <2>3, <3>1, PowerLoadStep DEF PowerInv, PowerLoad, Emits, Typed
  <2>4. CASE PowerPlace
    BY <1>6, <2>1, <2>4, PowerPlaceStep DEF PowerInv, PowerPlace, Emits, Typed
  <2>5. QED
    BY <2>2, <2>3, <2>4
<1>7. QED
  <2>1. CASE Halted
    BY <1>1, <2>1 DEF Halted
  <2>2. CASE Next /\ ~Halted /\ ~Opening /\ ~Close /\ ~Md5Sums
    <3>1. PowerNN
      BY <2>2 DEF Next, NewFactorial, NewFactorialStart, OldFactorial, OldFactorialStart,
           Addition, Random, Dgf, DgfStart, DgfReject, Start
    <3>2. Start("power", PowerSize, <<>>, <<>>) \/ stage # "start"
      BY <3>1 DEF PowerNN, OUT, MULREG, TMPREG, At
    <3>3. QED
      BY <1>5, <1>6, <3>1, <3>2
  <2>3. QED
    BY <1>1, <1>2, <1>3, <1>4, <2>1, <2>2

-----------------------------------------------------------------------------
(* The three together. *)

Multiplying == job.gen \in {"factorial", "old_factorial", "power"}

GenInv == job \in Jobs /\ FactorialInv /\ OldInv /\ PowerInv

(* Every behaviour keeps the place of its generator: the registers hold    *)
(* the product that its loop counter stands for.                           *)
THEOREM PlacesKept == Spec => []GenInv
<1>1. Init => GenInv
  BY DEF Init, FilesInit, GenInv, FactorialInv, OldInv, PowerInv, Begins, Reg
<1>2. GenInv /\ [Next]_genvars => GenInv'
  <2> SUFFICES ASSUME GenInv, [Next]_vars
               PROVE  GenInv'
    BY DEF genvars
  <2>1. job' = job
    BY DEF Next, vars, Opening, Open, Close, Md5Sums, Halted, NewFactorial, NewFactorialStart,
         OldFactorial, OldFactorialStart, PowerNN, Addition, Random, Dgf, DgfStart,
         DgfReject, Start, Emitting
  <2>2. job.gen = "factorial" => FactorialInv'
    BY FactorialStep DEF GenInv
  <2>3. job.gen = "old_factorial" => OldInv'
    BY OldStep DEF GenInv
  <2>4. job.gen = "power" => PowerInv'
    BY PowerStep DEF GenInv
  <2>5. (job.gen # "factorial" => FactorialInv') /\ (job.gen # "old_factorial" => OldInv')
        /\ (job.gen # "power" => PowerInv')
    BY <2>1 DEF FactorialInv, OldInv, PowerInv
  <2>6. QED
    BY <2>1, <2>2, <2>3, <2>4, <2>5 DEF GenInv
<1>3. QED
  BY <1>1, <1>2, PTL DEF Spec

(* What the generators that multiply hand over: the value of the product,  *)
(* unloaded once, for every argument.                                      *)
LEMMA ProductsRight == Spec => [](Multiplying => ResultRight)
<1>1. GenInv => (Multiplying => ResultRight)
  <2> SUFFICES ASSUME GenInv, Multiplying, status = "done" PROVE ResultRight
    BY DEF ResultRight
  <2>1. CASE job.gen = "factorial"
    BY <2>1 DEF GenInv, FactorialInv, Begins, FactorialLoad, FactorialLoop, FactorialTail,
         FactorialEnd, Emits, ResultRight
  <2>2. CASE job.gen = "old_factorial"
    BY <2>2 DEF GenInv, OldInv, Begins, OldLoad, OldPair, OldEnd, Emits, ResultRight
  <2>3. CASE job.gen = "power"
    BY <2>3 DEF GenInv, PowerInv, Begins, PowerLoad, PowerPlace, PowerEnd, Emits, ResultRight
  <2>4. QED
    BY <2>1, <2>2, <2>3 DEF Multiplying
<1>2. QED
  BY <1>1, PlacesKept, PTL

(* The buffer of these generators is large enough at every moment, and     *)
(* what is written to prog.bin is the program, no byte more or less.       *)
LEMMA ProductsFit == Spec => [](Multiplying => BufferFits)
<1>1. GenInv /\ Multiplying => BufferFits
  <2>1. ASSUME GenInv, Multiplying
        PROVE  /\ num_command <= (IF stage \in {"open", "start"} THEN 0 ELSE size_commands)
               /\ status = "done" => delivered = emitted
    <3>0. job \in Jobs /\ job.n \in Nat \ {0}
      BY <2>1, ProgramAssumption DEF GenInv
    <3>1. CASE Begins
      BY <3>1 DEF Begins
    <3>2. CASE \E exact : Emitted(exact)
      <4>1. PICK exact : Emitted(exact)
        BY <3>2
      <4>2. QED
        BY <4>1 DEF Emitted
    <3>3. CASE FactorialLoad \/ FactorialLoop \/ FactorialTail
      <4>1. /\ loop_iter \in Nat /\ remainder \in 0 .. 3
            /\ job.n = 4 * loop_iter + remainder + 1
        BY <3>0, Division DEF loop_iter, remainder
      <4>2. CASE FactorialLoad
        BY <3>0, <4>2 DEF FactorialLoad, FactorialBuses, Emits
      <4>3. CASE FactorialLoop
        <5>1. /\ n \in Int /\ 1 <= n /\ n <= loop_iter /\ step \in 1 .. 8
              /\ num_command = 8 + 32 * (n - 1) + 4 * (step - 1)
              /\ size_commands = 8 * job.n + 2 /\ stage = "loop" /\ status = "run"
          BY <4>1, <4>3 DEF FactorialLoop, FactorialBuses, Emits
        <5>2. QED
          BY <3>0, <4>1, <5>1
      <4>4. CASE FactorialTail
        <5>1. /\ step \in 1 .. 2 * remainder
              /\ num_command = 8 + 32 * loop_iter + 4 * (step - 1)
              /\ size_commands = 8 * job.n + 2 /\ stage = "tail" /\ status = "run"
          BY <4>4 DEF FactorialTail, FactorialBuses, Emits
        <5>2. QED
          BY <3>0, <4>1, <5>1
      <4>5. QED
        BY <3>3, <4>2, <4>3, <4>4
    <3>4. CASE OldLoad \/ OldPair
      <4>1. CASE OldLoad
        BY <3>0, <4>1 DEF OldLoad, OldBuses, Emits
      <4>2. CASE OldPair
        <5>1. /\ n \in Nat /\ 2 <= n /\ step \in 1 .. 5
              /\ \/ step <= 4 /\ 2 * n <= job.n
                 \/ step <= 3 /\ job.n = 2 * (n - 1)
                 \/ step <= 5 /\ job.n = 2 * n - 1
              /\ num_command = 6 + 16 * (n - 2) + 4 * (step - 1)
              /\ size_commands = 8 * job.n
              /\ stage \in {"loop", "even", "odd"} /\ status = "run"
          BY <4>2 DEF OldPair, OldBuses, Emits
        <5>2. num_command <= size_commands
          <6>1. CASE step <= 4 /\ 2 * n <= job.n
            BY <3>0, <5>1, <6>1
          <6>2. CASE step <= 3 /\ job.n = 2 * (n - 1)
            BY <3>0, <5>1, <6>2
          <6>3. CASE step <= 5 /\ job.n = 2 * n - 1
            BY <3>0, <5>1, <6>3
          <6>4. QED
            BY <5>1, <6>1, <6>2, <6>3
        <5>3. QED
          BY <5>1, <5>2
      <4>3. QED
        BY <3>4, <4>1, <4>2
    <3>5. CASE PowerLoad \/ PowerPlace
      <4>1. /\ Halves \in Nat
            /\ job.n % 2 = 0 => PowerSize = 4 + 8 * Halves + 6
            /\ job.n % 2 # 0 => PowerSize = 4 + 8 * Halves + 2
        BY <3>0, HalvesOf DEF Halves, PowerSize
      <4>2. CASE PowerLoad
        BY <3>0, <4>1, <4>2 DEF PowerLoad, Emits
      <4>3. CASE PowerPlace
        <5>1. /\ n \in Nat /\ step \in {1, 2}
              /\ num_command = 4 + 8 * n + 4 * (step - 1)
              /\ size_commands = PowerSize
              /\ stage \in {"loop", "tail"} /\ status = "run"
          BY <4>3 DEF PowerPlace, Emits
        <5>2. \/ n < Halves
              \/ n = Halves /\ (step = 2 => job.n % 2 = 0)
          BY <4>3 DEF PowerPlace
        <5>3. num_command <= size_commands
          <6>1. CASE job.n % 2 = 0
            BY <4>1, <5>1, <5>2, <6>1
          <6>2. CASE job.n % 2 # 0
            BY <4>1, <5>1, <5>2, <6>2
          <6>3. QED
            BY <6>1, <6>2
        <5>4. QED
          BY <5>1, <5>3
      <4>4. QED
        BY <3>5, <4>2, <4>3
    <3>6. QED
      BY <2>1, <3>1, <3>2, <3>3, <3>4, <3>5
         DEF GenInv, Multiplying, FactorialInv, OldInv, PowerInv, FactorialEnd, OldEnd, PowerEnd
  <2>2. QED
    BY <2>1 DEF BufferFits
<1>2. QED
  BY <1>1, PlacesKept, PTL

(* Their loads take every number that was written for them, and find one   *)
(* each.                                                                   *)
LEMMA ProductsUseBuses == Spec => [](Multiplying => BusesUsedUp)
<1>1. GenInv => (Multiplying => BusesUsedUp)
  <2> SUFFICES ASSUME GenInv, Multiplying, status = "done" PROVE BusesUsedUp
    BY DEF BusesUsedUp
  <2>1. CASE job.gen = "factorial"
    BY <2>1 DEF GenInv, FactorialInv, Begins, FactorialLoad, FactorialLoop, FactorialTail,
         FactorialEnd, Emits, Emitted, BusesUsedUp
  <2>2. CASE job.gen = "old_factorial"
    BY <2>2 DEF GenInv, OldInv, Begins, OldLoad, OldPair, OldEnd, Emits, Emitted, BusesUsedUp
  <2>3. CASE job.gen = "power"
    BY <2>3 DEF GenInv, PowerInv, Begins, PowerLoad, PowerPlace, PowerEnd, Emits, Emitted,
         BusesUsedUp
  <2>4. QED
    BY <2>1, <2>2, <2>3 DEF Multiplying
<1>2. QED
  BY <1>1, PlacesKept, PTL

-----------------------------------------------------------------------------
(* The registers written before each place of each generator.  A register  *)
(* once written stays so, which makes this independent of what the         *)
(* registers hold.                                                         *)

FactorialNeeds ==
  IF stage = "load" THEN IF step = 2 THEN {OUT, INC} ELSE {}
  ELSE IF stage \in {"loop", "tail"}
       THEN {OUT, INC, N1, P1} \cup (IF step \in {2, 3, 4, 5, 6, 7, 8} THEN {TMP} ELSE {})
                               \cup (IF step \in {3, 4, 5, 6, 7, 8} THEN {N2} ELSE {})
                               \cup (IF step \in {5, 6, 7, 8} THEN {P2} ELSE {})
       ELSE {}

OldNeeds ==
  IF stage = "load" THEN IF step = 2 THEN {OUT, MUL} ELSE {}
  ELSE IF stage \in {"loop", "even", "odd"}
       THEN {OUT, MUL, INC} \cup (IF step \in {2, 3, 4, 5} THEN {RES} ELSE {})
                            \cup (IF step \in {3, 4, 5} THEN {TMP} ELSE {})
       ELSE {}

PowerNeeds ==
  IF stage \in {"loop", "tail"}
  THEN {OUT, MULREG} \cup (IF step = 2 THEN {TMPREG} ELSE {})
  ELSE {}

AdditionNeeds ==
  IF stage = "load" THEN (IF step \in {2, 3} THEN {X, Y} ELSE {})
                         \cup (IF step = 3 THEN {Z} ELSE {})
  ELSE {}

RandomNeeds == IF stage = "load" THEN 0 .. n - 1
               ELSE IF stage = "main" THEN Registers ELSE {}

DgfNeeds ==
  IF stage = "loop" THEN {SumReg} \cup (IF step \in {2, 3} THEN {X, Y} ELSE {})
                                  \cup (IF step = 3 THEN {Z} ELSE {})
  ELSE IF stage = "check" THEN {SumReg} ELSE {}

Needs == IF job.gen = "factorial" THEN FactorialNeeds
         ELSE IF job.gen = "old_factorial" THEN OldNeeds
         ELSE IF job.gen = "power" THEN PowerNeeds
         ELSE IF job.gen = "addition" THEN AdditionNeeds
         ELSE IF job.gen = "random" THEN RandomNeeds
         ELSE IF job.gen = "dgf" THEN DgfNeeds ELSE {}

LiveInv == /\ job \in Jobs /\ n \in Nat
           /\ stage \in {"open", "start"} => n = 0
           /\ Needs \subseteq live
           /\ OperandsReady

(* What the instructions add, if they find their operands. *)
LEMMA Computes ==
  ASSUME NEW x \in live, NEW y \in live, NEW z, z \notin {x, y},
         Mult(x, y, z) \/ Add(x, y, z) \/ Sub(x, y, z)
  PROVE  OperandsReady' /\ live' = live \cup {z}
<1>1. PICK op \in {"mult", "add", "sub"} : command' = <<op, x, y, z>>
  BY DEF Mult, Add, Sub, Put
<1>2. live' = live \cup {z}
  BY DEF Mult, Add, Sub, Arithmetic
<1>3. /\ command'[1] = op /\ command'[2] = x /\ command'[3] = y /\ command'[4] = z
  BY <1>1
<1>4. Sources' = {x, y}
  BY <1>3 DEF Sources
<1> QED BY <1>2, <1>3, <1>4 DEF OperandsReady

LEMMA Loads ==
  ASSUME NEW x, NEW as, Loaa(x, as) \/ Loab(x, as)
  PROVE  OperandsReady' /\ live' = live \cup {x}
<1>1. PICK op \in {"loaa", "loab"} : command' = <<op, x>>
  BY DEF Loaa, Loab, Put
<1>2. command'[1] = op
  BY <1>1
<1>3. live' = live \cup {x}
  BY DEF Loaa, Loab
<1> QED BY <1>2, <1>3 DEF OperandsReady, Sources

LEMMA LoadsBoth ==
  ASSUME NEW x, NEW y, x # y, NEW as, NEW bs, Loaab(x, y, as, bs)
  PROVE  OperandsReady' /\ live' = live \cup {x, y}
<1>1. command' = <<"loaab", x, y>> /\ live' = live \cup {x, y}
  BY DEF Loaab, Put
<1>2. command'[1] = "loaab" /\ command'[2] = x /\ command'[3] = y
  BY <1>1
<1> QED BY <1>1, <1>2 DEF OperandsReady, Sources

LEMMA Unloads ==
  ASSUME NEW x \in live, Unl(x)
  PROVE  OperandsReady' /\ live' = live
<1>1. command' = <<"unl", x>> /\ live' = live
  BY DEF Unl, Put
<1>2. command'[1] = "unl" /\ command'[2] = x
  BY <1>1
<1> QED BY <1>1, <1>2 DEF OperandsReady, Sources

LEMMA FactorialLive ==
  ASSUME LiveInv, job.gen = "factorial", UNCHANGED job,
         NewFactorialLoads \/ NewFactorialLoop \/ NewFactorialRest
  PROVE  OperandsReady' /\ FactorialNeeds' \subseteq live' /\ n' \in Nat
         /\ stage' \notin {"open", "start"}
<1>0. FactorialNeeds \subseteq live /\ n \in Nat
  BY DEF LiveInv, Needs
<1> USE DEF At, Go, Step, FactorialNeeds, NewFactorialTail, OUT, TMP, N1, INC, N2, P1, P2
<1>1. CASE NewFactorialLoads
  <2>1. CASE At("load", 1) /\ Loaab(OUT, INC, <<>>, <<>>) /\ Step
    BY <1>0, <2>1, LoadsBoth
  <2>2. CASE At("load", 2) /\ Loaab(N1, P1, <<>>, <<>>) /\ n' = 1
             /\ Go(IF 1 <= loop_iter THEN "loop" ELSE NewFactorialTail, 1)
    BY <1>0, <2>2, LoadsBoth
  <2> QED BY <1>1, <2>1, <2>2 DEF NewFactorialLoads
<1>2. CASE NewFactorialLoop
  <2>1. CASE At("loop", 1) /\ Mult(P1, OUT, TMP) /\ Step
    BY <1>0, <2>1, Computes
  <2>2. CASE At("loop", 2) /\ Add(N1, INC, N2) /\ Step
    BY <1>0, <2>2, Computes
  <2>3. CASE At("loop", 3) /\ Mult(N2, TMP, OUT) /\ Step
    BY <1>0, <2>3, Computes
  <2>4. CASE At("loop", 4) /\ Add(P1, INC, P2) /\ Step
    BY <1>0, <2>4, Computes
  <2>5. CASE At("loop", 5) /\ Mult(P2, OUT, TMP) /\ Step
    BY <1>0, <2>5, Computes
  <2>6. CASE At("loop", 6) /\ Add(N2, INC, N1) /\ Step
    BY <1>0, <2>6, Computes
  <2>7. CASE At("loop", 7) /\ Mult(N1, TMP, OUT) /\ Step
    BY <1>0, <2>7, Computes
  <2>8. CASE /\ At("loop", 8) /\ Unl(OUT) /\ n' = n + 1
             /\ Go(IF n + 1 <= loop_iter THEN "loop" ELSE NewFactorialTail, 1)
    BY <1>0, <2>8, Unloads
  <2>9. CASE /\ At("loop", 8) /\ Add(P2, INC, P1) /\ n' = n + 1
             /\ Go(IF n + 1 <= loop_iter THEN "loop" ELSE NewFactorialTail, 1)
    BY <1>0, <2>9, Computes
  <2> QED BY <1>2, <2>1, <2>2, <2>3, <2>4, <2>5, <2>6, <2>7, <2>8, <2>9, Zenon
          DEF NewFactorialLoop
<1>3. CASE NewFactorialRest
  <2>1. CASE At("tail", 1) /\ Mult(P1, OUT, TMP) /\ Step
    BY <1>0, <2>1, Computes
  <2>2. CASE At("tail", 2) /\ Unl(TMP) /\ Go("close", 1) /\ n' = n
    BY <1>0, <2>2, Unloads
  <2>3. CASE At("tail", 2) /\ Add(N1, INC, N2) /\ Step
    BY <1>0, <2>3, Computes
  <2>4. CASE At("tail", 3) /\ Mult(N2, TMP, OUT) /\ Step
    BY <1>0, <2>4, Computes
  <2>5. CASE At("tail", 4) /\ Unl(OUT) /\ Go("close", 1) /\ n' = n
    BY <1>0, <2>5, Unloads
  <2>6. CASE At("tail", 4) /\ Add(P1, INC, P2) /\ Step
    BY <1>0, <2>6, Computes
  <2>7. CASE At("tail", 5) /\ Mult(P2, OUT, TMP) /\ Step
    BY <1>0, <2>7, Computes
  <2>8. CASE At("tail", 6) /\ Unl(TMP) /\ Go("close", 1) /\ n' = n
    BY <1>0, <2>8, Unloads
  <2> QED BY <1>3, <2>1, <2>2, <2>3, <2>4, <2>5, <2>6, <2>7, <2>8, Zenon DEF NewFactorialRest
<1> QED BY <1>1, <1>2, <1>3

LEMMA OldLive ==
  ASSUME LiveInv, job.gen = "old_factorial", UNCHANGED job, OldFactorial, Emitting
  PROVE  OldFactorialStart
         \/ (OperandsReady' /\ OldNeeds' \subseteq live' /\ n' \in Nat
             /\ stage' \notin {"open", "start"})
<1>0. OldNeeds \subseteq live /\ n \in Nat
  BY DEF LiveInv, Needs
<1> USE DEF At, Go, Step, OldNeeds, OldFactorialAfter, OUT, TMP, INC, MUL, RES
<1>1. CASE At("load", 1) /\ Loaab(OUT, MUL, <<>>, <<>>) /\ Step
  BY <1>0, <1>1, LoadsBoth
<1>2. CASE At("load", 2) /\ Loaa(INC, <<>>) /\ n' = 2 /\ OldFactorialAfter(2)
  BY <1>0, <1>2, Loads
<1>3. ASSUME NEW s \in {"loop", "odd"}, OldFactorialPair(s)
      PROVE  OperandsReady' /\ OldNeeds' \subseteq live' /\ n' \in Nat
             /\ stage' \notin {"open", "start"}
  <2>1. CASE At(s, 1) /\ Add(MUL, INC, RES) /\ Step
    BY <1>0, <2>1, Computes
  <2>2. CASE At(s, 2) /\ Mult(RES, OUT, TMP) /\ Step
    BY <1>0, <2>2, Computes
  <2>3. CASE At(s, 3) /\ Add(RES, INC, MUL) /\ Step
    BY <1>0, <2>3, Computes
  <2> QED BY <1>3, <2>1, <2>2, <2>3 DEF OldFactorialPair
<1>4. CASE At("loop", 4) /\ Mult(MUL, TMP, OUT) /\ n' = n + 1 /\ OldFactorialAfter(n + 1)
  BY <1>0, <1>4, Computes
<1>5. CASE At("even", 1) /\ Add(MUL, INC, RES) /\ Step
  BY <1>0, <1>5, Computes
<1>6. CASE At("even", 2) /\ Mult(RES, OUT, TMP) /\ Step
  BY <1>0, <1>6, Computes
<1>7. CASE At("even", 3) /\ Unl(TMP) /\ Go("close", 1) /\ n' = n
  BY <1>0, <1>7, Unloads
<1>8. CASE At("odd", 4) /\ Mult(MUL, TMP, OUT) /\ Step
  BY <1>0, <1>8, Computes
<1>9. CASE At("odd", 5) /\ Unl(OUT) /\ Go("close", 1) /\ n' = n
  BY <1>0, <1>9, Unloads
<1> QED BY <1>1, <1>2, <1>3, <1>4, <1>5, <1>6, <1>7, <1>8, <1>9, Zenon
        DEF OldFactorial, OldFactorialLoads

LEMMA PowerLive ==
  ASSUME LiveInv, job.gen = "power", UNCHANGED job, PowerNN, Emitting
  PROVE  Start("power", PowerSize, <<>>, <<>>)
         \/ (OperandsReady' /\ PowerNeeds' \subseteq live' /\ n' \in Nat
             /\ stage' \notin {"open", "start"})
<1>0. PowerNeeds \subseteq live /\ n \in Nat
  BY DEF LiveInv, Needs
<1> USE DEF At, Go, Step, PowerNeeds, PowerAfter, OUT, MULREG, TMPREG
<1>1. CASE At("load", 1) /\ Loaab(OUT, MULREG, <<job.n>>, <<job.n>>) /\ n' = 0 /\ PowerAfter(0)
  BY <1>0, <1>1, LoadsBoth
<1>2. CASE At("loop", 1) /\ Mult(OUT, MULREG, TMPREG) /\ Step
  BY <1>0, <1>2, Computes
<1>3. CASE At("loop", 2) /\ Mult(TMPREG, MULREG, OUT) /\ n' = n + 1 /\ PowerAfter(n + 1)
  BY <1>0, <1>3, Computes
<1>4. CASE At("tail", 1) /\ Mult(OUT, MULREG, TMPREG) /\ Step
  BY <1>0, <1>4, Computes
<1>5. CASE At("tail", 1) /\ Unl(OUT) /\ Go("close", 1) /\ n' = n
  BY <1>0, <1>5, Unloads
<1>6. CASE At("tail", 2) /\ Unl(TMPREG) /\ Go("close", 1) /\ n' = n
  BY <1>0, <1>6, Unloads
<1> QED BY <1>1, <1>2, <1>3, <1>4, <1>5, <1>6, Zenon DEF PowerNN

LEMMA AdditionLive ==
  ASSUME LiveInv, job.gen = "addition", UNCHANGED job, Addition, Emitting
  PROVE  Start("addition", REPF * 10, <<>>, <<>>)
         \/ (OperandsReady' /\ AdditionNeeds' \subseteq live' /\ n' \in Nat
             /\ stage' \notin {"open", "start"})
<1>0. AdditionNeeds \subseteq live /\ n \in Nat
  BY DEF LiveInv, Needs
<1> USE DEF At, Go, Step, AdditionNeeds, X, Y, Z
<1>1. ASSUME NEW a \in Numbers, NEW b \in Numbers,
             At("load", 1) /\ Loaab(X, Y, <<a>>, <<b>>) /\ Step
      PROVE  OperandsReady' /\ AdditionNeeds' \subseteq live' /\ n' \in Nat
             /\ stage' \notin {"open", "start"}
  BY <1>0, <1>1, LoadsBoth
<1>2. CASE At("load", 2) /\ Add(X, Y, Z) /\ Step
  BY <1>0, <1>2, Computes
<1>3. CASE /\ At("load", 3) /\ Unl(Z)
           /\ n' = n + 1 /\ Go(IF n + 1 < REPF THEN "load" ELSE "close", 1)
  BY <1>0, <1>3, Unloads
<1> QED BY <1>1, <1>2, <1>3, Zenon DEF Addition

LEMMA RandomLive ==
  ASSUME LiveInv, job.gen = "random", UNCHANGED job, Random, Emitting
  PROVE  Start("random", 4, <<>>, <<>>)
         \/ (OperandsReady' /\ RandomNeeds' \subseteq live' /\ n' \in Nat
             /\ stage' \notin {"open", "start"})
<1>0. RandomNeeds \subseteq live /\ n \in Nat /\ NUMREG \in Nat
  BY ProgramAssumption DEF LiveInv, Needs
<1>1. ASSUME NEW a \in Numbers, At("load", 1), Loaa(n, <<a>>),
             IF n + 1 < NUMREG THEN n' = n + 1 /\ UNCHANGED <<stage, step>>
                               ELSE n' = 0 /\ Go("main", 1)
      PROVE  OperandsReady' /\ RandomNeeds' \subseteq live' /\ n' \in Nat
             /\ stage' \notin {"open", "start"}
  <2>1. OperandsReady' /\ live' = live \cup {n}
    BY <1>1, Loads
  <2>2. 0 .. n - 1 \subseteq live
    BY <1>0, <1>1 DEF At, RandomNeeds
  <2>3. 0 .. n \subseteq live'
    BY <1>0, <2>1, <2>2
  <2>4. CASE n + 1 < NUMREG
    BY <1>0, <1>1, <2>1, <2>3, <2>4 DEF At, RandomNeeds
  <2>5. CASE ~(n + 1 < NUMREG)
    BY <1>0, <1>1, <2>1, <2>3, <2>5 DEF Go, RandomNeeds, Registers
  <2> QED BY <2>4, <2>5
<1>2. ASSUME At("main", 1), RandomOperation, n' = n + 1,
             Go(IF n + 1 < job.n THEN "main" ELSE "close", 1)
      PROVE  OperandsReady' /\ RandomNeeds' \subseteq live' /\ n' \in Nat
             /\ stage' \notin {"open", "start"}
  <2>1. Registers \subseteq live
    BY <1>0, <1>2 DEF At, RandomNeeds
  <2>2. OperandsReady' /\ live \subseteq live'
    <3>1. ASSUME NEW x \in Registers, NEW a \in Numbers, Loaa(x, <<a>>) \/ Loab(x, <<a>>)
          PROVE  OperandsReady' /\ live \subseteq live'
      BY <3>1, Loads
    <3>2. ASSUME NEW x \in Registers, Unl(x)
          PROVE  OperandsReady' /\ live \subseteq live'
      BY <2>1, <3>2, Unloads
    <3>3. ASSUME NEW x \in Registers, NEW y \in Registers \ {x}, NEW a \in Numbers,
                 NEW b \in Numbers, Loaab(x, y, <<a>>, <<b>>)
          PROVE  OperandsReady' /\ live \subseteq live'
      BY <3>3, LoadsBoth
    <3>4. ASSUME NEW x \in Registers, NEW y \in Registers \ {x},
                 NEW z \in Registers \ {x, y}, Mult(x, y, z) \/ Add(x, y, z) \/ Sub(x, y, z)
          PROVE  OperandsReady' /\ live \subseteq live'
      BY <2>1, <3>4, Computes
    <3> QED BY <1>2, <3>1, <3>2, <3>3, <3>4, Zenon DEF RandomOperation
  <2> QED BY <1>0, <1>2, <2>1, <2>2 DEF Go, RandomNeeds, Registers
<1> QED BY <1>1, <1>2, Zenon DEF Random

(* The sum changes its register with every term. *)
LEMMA DgfLive ==
  ASSUME LiveInv, job.gen = "dgf", UNCHANGED job, Dgf, Emitting
  PROVE  DgfStart
         \/ (DgfReject /\ OperandsReady')
         \/ (OperandsReady' /\ DgfNeeds' \subseteq live' /\ n' \in Nat
             /\ stage' \notin {"open", "start"})
<1>0. DgfNeeds \subseteq live /\ n \in Nat /\ Magnitude(job.k) \in Nat
  BY ProgramAssumption DEF LiveInv, Needs, Magnitude
<1>1. SumReg \in {RESREG, ALT} /\ NextSumReg \in {RESREG, ALT} /\ SumReg # NextSumReg
  BY DEF SumReg, NextSumReg, RESREG, ALT
<1>2. CASE DgfReject
  BY <1>2 DEF DgfReject, LiveInv, OperandsReady, Sources, machine
<1>3. CASE /\ At("load", 1) /\ Loaa(ALT, <<0>>) /\ n' = Magnitude(job.k)
           /\ Go(IF Magnitude(job.k) <= job.n - 1 THEN "loop" ELSE "check", 1)
  <2>1. OperandsReady' /\ live' = live \cup {ALT}
    BY <1>3, Loads
  <2>2. SumReg' = ALT
    BY <1>0, <1>3 DEF SumReg, Magnitude
  <2> QED BY <1>0, <1>3, <2>1, <2>2 DEF Go, DgfNeeds
<1>4. CASE /\ At("loop", 1) /\ Step
           /\ Loaab(X, Y, <<mpz_num1>>, <<mpz_num2>>)
  <2>1. OperandsReady' /\ live' = live \cup {X, Y}
    BY <1>4, LoadsBoth DEF X, Y
  <2>2. SumReg' = SumReg
    BY <1>4 DEF SumReg, Step
  <2> QED BY <1>0, <1>4, <2>1, <2>2 DEF At, Step, DgfNeeds
<1>5. CASE At("loop", 2) /\ Mult(X, Y, Z) /\ Step
  <2>1. X \in live /\ Y \in live /\ Z \notin {X, Y}
    BY <1>0, <1>5 DEF At, DgfNeeds, X, Y, Z
  <2>2. OperandsReady' /\ live' = live \cup {Z}
    BY <1>5, <2>1, Computes
  <2>3. SumReg' = SumReg
    BY <1>5 DEF SumReg, Step
  <2> QED BY <1>0, <1>5, <2>2, <2>3 DEF At, Step, DgfNeeds
<1>6. ASSUME At("loop", 3), Sub(SumReg, Z, NextSumReg) \/ Add(SumReg, Z, NextSumReg),
             n' = n + 1, Go(IF n + 1 <= job.n - 1 THEN "loop" ELSE "check", 1)
      PROVE  OperandsReady' /\ DgfNeeds' \subseteq live' /\ n' \in Nat
             /\ stage' \notin {"open", "start"}
  <2>1. SumReg \in live /\ Z \in live /\ NextSumReg \notin {SumReg, Z}
    BY <1>0, <1>1, <1>6 DEF At, DgfNeeds, Z, RESREG, ALT
  <2>2. OperandsReady' /\ live' = live \cup {NextSumReg}
    BY <1>6, <2>1, Computes
  <2>3. SumReg' = NextSumReg
    BY <1>0, <1>6 DEF SumReg, NextSumReg, Magnitude
  <2> QED BY <1>0, <1>6, <2>2, <2>3 DEF Go, DgfNeeds
<1>7. CASE At("check", 1) /\ Unl(SumReg) /\ Go("close", 1) /\ n' = n
  <2>1. SumReg \in live
    BY <1>0, <1>7 DEF At, DgfNeeds
  <2> QED BY <1>0, <1>7, <2>1, Unloads DEF Go, DgfNeeds
<1>8. CASE DgfLoop
  BY <1>4, <1>5, <1>6, <1>8 DEF DgfLoop
<1> QED BY <1>2, <1>3, <1>7, <1>8, Zenon DEF Dgf

(* Where no instruction is emitted.                                        *)
LEMMA NothingEmitted ==
  ASSUME LiveInv, UNCHANGED <<job, command, live>>, n' = n,
         \/ UNCHANGED <<stage, step>>
         \/ stage' \in {"close", "md5"}
         \/ stage = "open" /\ stage' = "start"
         \/ stage = "start" /\ stage' = "load" /\ step' = 1
  PROVE  LiveInv'
<1>1. OperandsReady'
  BY DEF LiveInv, OperandsReady, Sources
<1>2. CASE UNCHANGED <<stage, step>>
  BY <1>1, <1>2 DEF LiveInv, Needs, FactorialNeeds, OldNeeds, PowerNeeds, AdditionNeeds,
     RandomNeeds, DgfNeeds, SumReg
<1>3. CASE stage' \in {"close", "md5"}
  BY <1>1, <1>3 DEF LiveInv, Needs, FactorialNeeds, OldNeeds, PowerNeeds, AdditionNeeds,
     RandomNeeds, DgfNeeds
<1>4. CASE stage = "open" /\ stage' = "start"
  BY <1>1, <1>4 DEF LiveInv, Needs, FactorialNeeds, OldNeeds, PowerNeeds, AdditionNeeds,
     RandomNeeds, DgfNeeds
<1>5. CASE stage = "start" /\ stage' = "load" /\ step' = 1
  BY <1>1, <1>5 DEF LiveInv, Needs, FactorialNeeds, OldNeeds, PowerNeeds, AdditionNeeds,
     RandomNeeds, DgfNeeds
<1> QED BY <1>1, <1>2, <1>3, <1>4, <1>5

LEMMA LiveStep ==
  ASSUME LiveInv, [Next]_vars
  PROVE  LiveInv'
<1>1. CASE UNCHANGED vars
  BY <1>1, NothingEmitted DEF vars, control, machine
<1>2. CASE Opening
  <2>1. PICK failed : Open(failed)
    BY <1>2 DEF Opening
  <2> QED BY <2>1, NothingEmitted DEF Open, At, Go, control, machine
<1>3. CASE Close
  BY <1>3, NothingEmitted DEF Close, At, Go, machine
<1>4. CASE Md5Sums
  BY <1>4, NothingEmitted DEF Md5Sums, control, machine
<1>5. CASE Halted
  BY <1>5, NothingEmitted DEF Halted, vars, control, machine
<1>6. ASSUME NEW gen, NEW size, NEW as, NEW bs, Start(gen, size, as, bs)
      PROVE  LiveInv'
  BY <1>6, NothingEmitted DEF Start, At, Go
<1>7. CASE DgfReject
  BY <1>7, NothingEmitted DEF DgfReject, control, machine
<1>8. CASE job.gen = "factorial" /\ Emitting
           /\ (NewFactorialLoads \/ NewFactorialLoop \/ NewFactorialRest)
  BY <1>8, FactorialLive DEF Emitting, LiveInv, Needs
<1>9. CASE OldFactorial
  <2>1. CASE job.gen = "old_factorial" /\ Emitting
    BY <1>6, <1>9, <2>1, OldLive DEF Emitting, LiveInv, Needs, OldFactorialStart
  <2> QED BY <1>6, <1>9, <2>1 DEF OldFactorial, OldFactorialStart
<1>10. CASE PowerNN
  <2>1. CASE job.gen = "power" /\ Emitting
    BY <1>6, <1>10, <2>1, PowerLive DEF Emitting, LiveInv, Needs
  <2> QED BY <1>6, <1>10, <2>1 DEF PowerNN
<1>11. CASE Addition
  <2>1. CASE job.gen = "addition" /\ Emitting
    BY <1>6, <1>11, <2>1, AdditionLive DEF Emitting, LiveInv, Needs
  <2> QED BY <1>6, <1>11, <2>1 DEF Addition
<1>12. CASE Random
  <2>1. CASE job.gen = "random" /\ Emitting
    BY <1>6, <1>12, <2>1, RandomLive DEF Emitting, LiveInv, Needs
  <2> QED BY <1>6, <1>12, <2>1 DEF Random
<1>13. CASE Dgf
  <2>1. CASE job.gen = "dgf" /\ Emitting
    BY <1>6, <1>7, <1>13, <2>1, DgfLive DEF Emitting, LiveInv, Needs, DgfStart
  <2> QED BY <1>6, <1>7, <1>13, <2>1 DEF Dgf, DgfStart
<1>14. CASE NewFactorial
  BY <1>6, <1>8, <1>14 DEF NewFactorial, NewFactorialStart
<1> QED BY <1>1, <1>2, <1>3, <1>4, <1>5, <1>9, <1>10, <1>11, <1>12, <1>13, <1>14
        DEF Next

LEMMA LiveBegins ==
  ASSUME Init
  PROVE  LiveInv
<1>1. command = <<"none">> /\ stage = "open" /\ n = 0 /\ job \in Jobs
  BY DEF Init, FilesInit
<1>2. command[1] = "none"
  BY <1>1
<1>3. OperandsReady
  BY <1>2 DEF OperandsReady, Sources
<1>4. Needs = {}
  BY <1>1 DEF Needs, FactorialNeeds, OldNeeds, PowerNeeds, AdditionNeeds, RandomNeeds,
     DgfNeeds
<1> QED BY <1>1, <1>3, <1>4 DEF LiveInv

(* No program that a generator writes, for any argument and whatever is    *)
(* drawn, reads a register that it has not written, writes one that it     *)
(* reads in the same instruction or loads one from both buses.             *)
THEOREM OperandsAlwaysReady == Spec => []OperandsReady
<1>1. Init => LiveInv
  BY LiveBegins
<1>2. LiveInv /\ [Next]_genvars => LiveInv'
  BY LiveStep DEF genvars
<1>3. LiveInv => OperandsReady
  BY DEF LiveInv
<1> QED BY <1>1, <1>2, <1>3, PTL DEF Spec

-----------------------------------------------------------------------------
(* addition_data.c: what is on the buses is drawn while the program is     *)
(* written.                                                                *)

(* The numbers a run would have taken before instruction step of round n.  *)
Taken == IF step = 1 THEN n ELSE n + 1

AdditionPlace ==
  /\ stage = "load" /\ status = "run" /\ size_commands = REPF * 10
  /\ n \in 0 .. REPF - 1 /\ step \in 1 .. 3
  /\ num_command = 10 * n + 4 * (step - 1) /\ emitted = num_command
  /\ loadsA = Taken /\ loadsB = Taken
  /\ busA \in Seq(Nat) /\ Len(busA) = Taken
  /\ busB \in Seq(Nat) /\ Len(busB) = Taken
  /\ out = [i \in 1 .. n |-> busA[i] + busB[i]]
  /\ reg \in [Reg -> Int]
  /\ step \in {2, 3} => reg[X] = busA[n + 1] /\ reg[Y] = busB[n + 1]
  /\ step = 3 => reg[Z] = busA[n + 1] + busB[n + 1]

AdditionEnd == Emitted(TRUE) /\ out = [i \in 1 .. REPF |-> busA[i] + busB[i]]

AdditionInv ==
  job.gen = "addition" => Begins \/ AdditionPlace \/ AdditionEnd

LEMMA AdditionPlaceStep ==
  ASSUME job \in Jobs, job.gen = "addition", AdditionPlace, Addition, Emitting
  PROVE  AdditionPlace' \/ AdditionEnd'
<1>0. /\ n \in Nat /\ n < REPF /\ REPF \in Nat \ {0} /\ step \in 1 .. 3
      /\ reg \in [Reg -> Int] /\ {X, Y, Z} \subseteq Reg /\ Typed
  <2>1. REPF \in Nat \ {0}
    BY ProgramAssumption
  <2>2. {X, Y, Z} \subseteq Reg
    BY DEF X, Y, Z, Reg
  <2> QED BY <2>1, <2>2 DEF AdditionPlace, Typed
<1>1. status' = "run" /\ size_commands' = REPF * 10
  BY DEF AdditionPlace, Emitting
<1>2. ASSUME NEW a \in Numbers, NEW b \in Numbers,
             At("load", 1), Loaab(X, Y, <<a>>, <<b>>), Step
      PROVE  AdditionPlace'
  <2>1. /\ step = 1 /\ step' = 2 /\ n' = n /\ stage' = "load" /\ Taken = n /\ Taken' = n + 1
    BY <1>2 DEF At, Step, Taken
  <2>2. a \in Nat /\ b \in Nat
    BY ProgramAssumption
  <2>3. /\ busA \in Seq(Nat) /\ Len(busA) = n /\ busB \in Seq(Nat) /\ Len(busB) = n
        /\ loadsA = n /\ loadsB = n /\ num_command = 10 * n /\ emitted = num_command
        /\ out = [i \in 1 .. n |-> busA[i] + busB[i]]
    BY <2>1, <1>0 DEF AdditionPlace
  <2>4. /\ busA' \in Seq(Nat \cup {a}) /\ Len(busA') = n + 1 /\ busA'[n + 1] = a
        /\ \A i \in 1 .. n : busA'[i] = busA[i]
    <3>1. busA' = busA \o <<a>> /\ busA \in Seq(Nat)
      BY <1>2, <2>3 DEF Loaab
    <3>2. /\ busA \o <<a>> \in Seq(Nat \cup {a})
          /\ Len(busA \o <<a>>) = Len(busA) + 1
          /\ (busA \o <<a>>)[Len(busA) + 1] = a
          /\ \A i \in 1 .. Len(busA) : (busA \o <<a>>)[i] = busA[i]
      <4>1. busA \in Seq(Nat \cup {a}) /\ <<a>> \in Seq(Nat \cup {a})
        BY <3>1
      <4> QED BY <4>1
    <3> QED BY <2>3, <3>1, <3>2
  <2>5. /\ busB' \in Seq(Nat \cup {b}) /\ Len(busB') = n + 1 /\ busB'[n + 1] = b
        /\ \A i \in 1 .. n : busB'[i] = busB[i]
    <3>1. busB' = busB \o <<b>> /\ busB \in Seq(Nat)
      BY <1>2, <2>3 DEF Loaab
    <3>2. /\ busB \o <<b>> \in Seq(Nat \cup {b})
          /\ Len(busB \o <<b>>) = Len(busB) + 1
          /\ (busB \o <<b>>)[Len(busB) + 1] = b
          /\ \A i \in 1 .. Len(busB) : (busB \o <<b>>)[i] = busB[i]
      <4>1. busB \in Seq(Nat \cup {b}) /\ <<b>> \in Seq(Nat \cup {b})
        BY <3>1
      <4> QED BY <4>1
    <3> QED BY <2>3, <3>1, <3>2
  <2>6. Nat \cup {a} = Nat /\ Nat \cup {b} = Nat
    BY <2>2
  <2>7. reg' = [reg EXCEPT ![X] = a, ![Y] = b]
    BY <1>2, <2>3, <2>4, <2>5 DEF Loaab
  <2>8. reg' \in [Reg -> Int] /\ reg'[X] = a /\ reg'[Y] = b
    BY <1>0, <2>2, <2>7 DEF X, Y
  <2>9. out' = [i \in 1 .. n |-> busA'[i] + busB'[i]]
    BY <1>2, <2>3, <2>4, <2>5 DEF Loaab
  <2>10. num_command' = 10 * n + 4 /\ emitted' = num_command'
         /\ loadsA' = n + 1 /\ loadsB' = n + 1
    BY <1>2, <2>3 DEF Loaab, Put
  <2> QED BY <1>0, <1>1, <2>1, <2>4, <2>5, <2>6, <2>8, <2>9, <2>10 DEF AdditionPlace
<1>3. CASE At("load", 2) /\ Add(X, Y, Z) /\ Step
  <2>1. Moved(4) /\ Sets(Z, reg[X] + reg[Y])
    BY <1>0, <1>3, AddEffect
  <2>2. step = 2 /\ step' = 3 /\ n' = n /\ stage' = "load" /\ Taken' = Taken
    BY <1>3 DEF At, Step, Taken
  <2>3. /\ reg'[X] = reg[X] /\ reg'[Y] = reg[Y] /\ reg'[Z] = reg[X] + reg[Y]
        /\ reg' \in [Reg -> Int] /\ out' = out
    BY <1>0, <2>1 DEF Sets, X, Y, Z
  <2>4. reg[X] = busA[n + 1] /\ reg[Y] = busB[n + 1]
    BY <2>2 DEF AdditionPlace
  <2>5. num_command' = 10 * n + 8 /\ emitted' = num_command'
    BY <1>0, <2>1, <2>2 DEF AdditionPlace, Moved
  <2>6. UNCHANGED <<busA, busB, loadsA, loadsB>>
    BY <2>1 DEF Moved
  <2>7. step' \in 1 .. 3 /\ 10 * n' + 4 * (step' - 1) = 10 * n + 8
    BY <1>0, <2>2
  <2> QED BY <1>1, <2>2, <2>3, <2>4, <2>5, <2>6, <2>7 DEF AdditionPlace
<1>4. CASE /\ At("load", 3) /\ Unl(Z)
           /\ n' = n + 1 /\ Go(IF n + 1 < REPF THEN "load" ELSE "close", 1)
  <2>1. /\ step = 3 /\ step' = 1 /\ Taken = n + 1 /\ Taken' = n + 1
    BY <1>4 DEF At, Go, Taken
  <2>2. /\ num_command' = 10 * n + 8 + 2 /\ emitted' = num_command'
        /\ UNCHANGED <<busA, busB, loadsA, loadsB, reg>>
        /\ out' = Append(out, reg[Z])
    BY <1>0, <1>4, <2>1 DEF AdditionPlace, Unl, Put
  <2>3. out' = [i \in 1 .. n + 1 |-> busA[i] + busB[i]]
    <3>1. out = [i \in 1 .. n |-> busA[i] + busB[i]] /\ reg[Z] = busA[n + 1] + busB[n + 1]
      BY <2>1 DEF AdditionPlace
    <3>2. \A i \in 1 .. n : busA[i] + busB[i] \in Int
      <4>1. \A i \in 1 .. n : i \in 1 .. Len(busA) /\ i \in 1 .. Len(busB)
        BY <1>0, <2>1 DEF AdditionPlace
      <4> QED BY <4>1 DEF AdditionPlace
    <3>3. out \in Seq(Int) /\ Len(out) = n
      BY <1>0, <3>1, <3>2
    <3>4. out' = [i \in 1 .. n + 1 |-> IF i = n + 1 THEN reg[Z] ELSE out[i]]
      BY <1>0, <2>2, <3>3
    <3> QED BY <1>0, <3>1, <3>4
  <2>4. CASE n + 1 < REPF
    <3>1. n' \in 0 .. REPF - 1 /\ stage' = "load"
      BY <1>0, <1>4, <2>4 DEF Go
    <3>2. 10 * n' + 4 * (step' - 1) = 10 * n + 8 + 2
      BY <1>0, <1>4, <2>1
    <3> QED BY <1>0, <1>1, <1>4, <2>1, <2>2, <2>3, <3>1, <3>2 DEF AdditionPlace
  <2>5. CASE ~(n + 1 < REPF)
    <3>1. n + 1 = REPF /\ stage' = "close"
      BY <1>0, <1>4, <2>5 DEF Go
    <3>2. num_command' = REPF * 10
      BY <1>0, <2>2, <3>1
    <3>3. loadsA' = Len(busA') /\ loadsB' = Len(busB')
      BY <2>2 DEF AdditionPlace
    <3> QED BY <1>1, <2>2, <2>3, <3>1, <3>2, <3>3, ProgramAssumption
            DEF AdditionEnd, Emitted
  <2> QED BY <2>4, <2>5
<1>5. ~Start("addition", REPF * 10, <<>>, <<>>)
  BY DEF AdditionPlace, Start, At
<1> QED BY <1>2, <1>3, <1>4, <1>5, Zenon DEF Addition

LEMMA AdditionStep ==
  ASSUME LiveInv, job.gen = "addition", AdditionInv, [Next]_vars
  PROVE  AdditionInv'
<1>0. job \in Jobs /\ (stage \in {"open", "start"} => n = 0)
  BY DEF LiveInv
<1>1. CASE UNCHANGED vars
  <2>1. Taken' = Taken
    BY <1>1, NothingMoves DEF Taken
  <2>2. AdditionPlace' = AdditionPlace
    BY <1>1, <2>1, NothingMoves DEF AdditionPlace
  <2>3. AdditionEnd' = AdditionEnd
    BY <1>1, NothingMoves DEF AdditionEnd
  <2> QED BY <1>1, <2>2, <2>3, NothingMoves DEF AdditionInv
<1>2. CASE Opening
  <2>1. Begins
    BY <1>2 DEF AdditionInv, Opening, Open, At, AdditionPlace, AdditionEnd, Emitted
  <2> QED BY <1>2, <2>1, BeginStep DEF AdditionInv
<1>3. CASE Close
  <2>1. AdditionEnd
    BY <1>3 DEF AdditionInv, Begins, Close, At, AdditionPlace
  <2>2. Emitted(TRUE)' /\ out' = out /\ job' = job
    BY <1>3, <2>1, CloseStep DEF AdditionEnd
  <2>3. busA' = busA /\ busB' = busB
    BY <1>3 DEF Close, machine
  <2> QED BY <2>1, <2>2, <2>3 DEF AdditionEnd, AdditionInv
<1>4. CASE Md5Sums
  <2>1. AdditionEnd
    BY <1>4 DEF AdditionInv, Begins, Md5Sums, At, AdditionPlace
  <2>2. AdditionEnd'
    BY <1>4, <2>1 DEF AdditionEnd, Emitted, Md5Sums, At, control, buffer, machine
  <2> QED BY <2>2 DEF AdditionInv
<1>5. CASE Start("addition", REPF * 10, <<>>, <<>>)
  <2>1. Begins /\ n = 0 /\ status = "run"
    BY <1>0, <1>5 DEF AdditionInv, Start, At, AdditionPlace, AdditionEnd, Emitted
  <2>2. /\ step' = 1 /\ n' = 0 /\ stage' = "load" /\ status' = "run"
        /\ size_commands' = REPF * 10 /\ busA' = <<>> /\ busB' = <<>>
        /\ num_command' = 0 /\ emitted' = 0 /\ loadsA' = 0 /\ loadsB' = 0
        /\ out' = <<>> /\ reg' \in [Reg -> Int]
    BY <1>5, <2>1 DEF Start, At, Go, Begins, buffer
  <2>3. Taken' = 0
    BY <2>2 DEF Taken
  <2>4. out' = [i \in 1 .. n' |-> busA'[i] + busB'[i]]
    BY <2>2
  <2>5. /\ n' \in 0 .. REPF - 1 /\ step' \in 1 .. 3 /\ ~(step' \in {2, 3}) /\ step' # 3
        /\ num_command' = 10 * n' + 4 * (step' - 1)
        /\ busA' \in Seq(Nat) /\ Len(busA') = 0 /\ busB' \in Seq(Nat) /\ Len(busB') = 0
    BY <2>2, ProgramAssumption
  <2>6. AdditionPlace'
    BY <2>2, <2>3, <2>4, <2>5 DEF AdditionPlace
  <2> QED BY <2>6 DEF AdditionInv
<1>6. CASE Addition /\ stage # "start"
  <2>1. Emitting /\ stage = "load" /\ job' = job
    BY <1>6 DEF Addition, Start, At, Emitting
  <2>2. AdditionPlace
    BY <2>1 DEF AdditionInv, Begins, AdditionEnd, Emitted
  <2> QED BY <1>0, <1>6, <2>1, <2>2, AdditionPlaceStep DEF AdditionInv
<1>7. CASE Halted
  BY <1>1, <1>7 DEF Halted
<1>8. CASE Next /\ ~Halted /\ ~Opening /\ ~Close /\ ~Md5Sums
  <2>1. Addition
    BY <1>8 DEF Next, NewFactorial, NewFactorialStart, OldFactorial, OldFactorialStart,
       PowerNN, Random, Dgf, DgfStart, DgfReject, Start
  <2>2. Start("addition", REPF * 10, <<>>, <<>>) \/ stage # "start"
    BY <2>1 DEF Addition, At
  <2> QED BY <1>5, <1>6, <2>1, <2>2
<1> QED BY <1>1, <1>2, <1>3, <1>4, <1>7, <1>8

-----------------------------------------------------------------------------
(* random_data.c: an instruction at a time is put into a buffer of four    *)
(* bytes and written out.                                                  *)

RandomInv ==
  job.gen = "random" =>
    /\ delivered \in Nat /\ delivered = emitted
    /\ busA \in Seq(Nat) /\ loadsA = Len(busA)
    /\ busB \in Seq(Nat) /\ loadsB = Len(busB)
    /\ num_command \in 0 .. (IF stage \in {"open", "start"} THEN 0 ELSE 4)
    /\ IF stage \in {"open", "start"} THEN busA = <<>> /\ busB = <<>> ELSE size_commands = 4

(* What an instruction puts down is delivered with it, and a load takes    *)
(* what has just been written for it.                                      *)
LEMMA RandomInstruction ==
  ASSUME job.gen = "random", RandomInv, NEW x, NEW y, NEW z,
         NEW a \in Nat, NEW b \in Nat,
         \/ Loaa(x, <<a>>) \/ Loab(x, <<b>>) \/ Unl(x) \/ Loaab(x, y, <<a>>, <<b>>)
         \/ Mult(x, y, z) \/ Add(x, y, z) \/ Sub(x, y, z)
  PROVE  /\ delivered' \in Nat /\ delivered' = emitted'
         /\ busA' \in Seq(Nat) /\ loadsA' = Len(busA')
         /\ busB' \in Seq(Nat) /\ loadsB' = Len(busB')
         /\ num_command' \in 0 .. 4
<1>1. /\ delivered \in Nat /\ delivered = emitted
      /\ busA \in Seq(Nat) /\ loadsA = Len(busA)
      /\ busB \in Seq(Nat) /\ loadsB = Len(busB)
  BY DEF RandomInv
<1>2. /\ busA \o <<a>> \in Seq(Nat) /\ Len(busA \o <<a>>) = Len(busA) + 1
      /\ busB \o <<b>> \in Seq(Nat) /\ Len(busB \o <<b>>) = Len(busB) + 1
  <2>1. <<a>> \in Seq(Nat) /\ <<b>> \in Seq(Nat)
    OBVIOUS
  <2> QED BY <1>1, <2>1
<1>3. ASSUME NEW instruction, NEW bytes \in {2, 4}, Put(instruction, bytes)
      PROVE  delivered' \in Nat /\ delivered' = emitted' /\ num_command' \in 0 .. 4
  BY <1>1, <1>3 DEF Put
<1>4. delivered' \in Nat /\ delivered' = emitted' /\ num_command' \in 0 .. 4
  BY <1>3 DEF Loaa, Loab, Unl, Loaab, Mult, Add, Sub
<1>5. CASE Loaa(x, <<a>>)
  BY <1>1, <1>2, <1>4, <1>5 DEF Loaa
<1>6. CASE Loab(x, <<b>>)
  BY <1>1, <1>2, <1>4, <1>6 DEF Loab
<1>7. CASE Loaab(x, y, <<a>>, <<b>>)
  BY <1>1, <1>2, <1>4, <1>7 DEF Loaab
<1>8. CASE Unl(x) \/ Mult(x, y, z) \/ Add(x, y, z) \/ Sub(x, y, z)
  BY <1>1, <1>4, <1>8 DEF Unl, Mult, Add, Sub, Arithmetic
<1> QED BY <1>5, <1>6, <1>7, <1>8

LEMMA RandomStep ==
  ASSUME job.gen = "random", RandomInv, [Next]_vars
  PROVE  RandomInv'
<1>1. CASE UNCHANGED vars
  BY <1>1, NothingMoves DEF RandomInv
<1>2. CASE Opening
  BY <1>2 DEF RandomInv, Opening, Open, Go, At, control, buffer, machine
<1>3. CASE Close
  BY <1>3 DEF RandomInv, Close, Delivered, Go, At, machine
<1>4. CASE Md5Sums
  BY <1>4 DEF RandomInv, Md5Sums, At, control, buffer, machine
<1>5. CASE Start("random", 4, <<>>, <<>>)
  <2>1. busA = <<>> /\ busB = <<>> /\ num_command \in 0 .. 0
    BY <1>5 DEF RandomInv, Start, At
  <2>2. num_command' = num_command /\ stage' = "load"
    BY <1>5 DEF Start, Go, buffer
  <2>3. num_command \in 0 .. 4
    BY <2>1
  <2> QED BY <1>5, <2>1, <2>2, <2>3 DEF RandomInv, Start, Go, At, buffer
<1>6. CASE Halted
  BY <1>1, <1>6 DEF Halted
<1>7. CASE Next /\ ~Halted /\ ~Opening /\ ~Close /\ ~Md5Sums
           /\ ~Start("random", 4, <<>>, <<>>)
  <2>1. Random
    BY <1>7 DEF Next, NewFactorial, NewFactorialStart, OldFactorial, OldFactorialStart,
       PowerNN, Addition, Dgf, DgfStart, DgfReject, Start
  <2>2. /\ Emitting /\ stage \in {"load", "main"} /\ stage' \in {"load", "main", "close"}
        /\ size_commands' = 4 /\ job' = job
    BY <1>7, <2>1 DEF Random, At, Go, Emitting, RandomInv
  <2>3. Numbers \subseteq Nat /\ 0 \in Nat
    BY ProgramAssumption
  <2>4. ASSUME NEW x, NEW y, NEW z, NEW a \in Nat, NEW b \in Nat,
               \/ Loaa(x, <<a>>) \/ Loab(x, <<b>>) \/ Unl(x) \/ Loaab(x, y, <<a>>, <<b>>)
               \/ Mult(x, y, z) \/ Add(x, y, z) \/ Sub(x, y, z)
        PROVE  RandomInv'
    BY <2>2, <2>4, RandomInstruction DEF RandomInv
  <2>5. CASE \E a \in Numbers : Loaa(n, <<a>>)
    <3>1. PICK a \in Nat : Loaa(n, <<a>>)
      BY <2>3, <2>5
    <3> QED BY <2>3, <2>4, <3>1
  <2>6. CASE RandomOperation
    <3>1. ASSUME NEW x \in Registers, NEW a \in Numbers,
                 Loaa(x, <<a>>) \/ Loab(x, <<a>>)
          PROVE  RandomInv'
      BY <2>3, <2>4, <3>1
    <3>2. ASSUME NEW x \in Registers, Unl(x)
          PROVE  RandomInv'
      BY <2>3, <2>4, <3>2
    <3>3. ASSUME NEW x \in Registers, NEW y \in Registers \ {x}, NEW a \in Numbers,
                 NEW b \in Numbers, Loaab(x, y, <<a>>, <<b>>)
          PROVE  RandomInv'
      BY <2>3, <2>4, <3>3
    <3>4. ASSUME NEW x \in Registers, NEW y \in Registers \ {x},
                 NEW z \in Registers \ {x, y}, Mult(x, y, z) \/ Add(x, y, z) \/ Sub(x, y, z)
          PROVE  RandomInv'
      BY <2>3, <2>4, <3>4
    <3> QED BY <2>6, <3>1, <3>2, <3>3, <3>4, Zenon DEF RandomOperation
  <2> QED BY <1>7, <2>1, <2>5, <2>6 DEF Random
<1> QED BY <1>1, <1>2, <1>3, <1>4, <1>5, <1>6, <1>7

-----------------------------------------------------------------------------
(* 1ddgf_data: binomial coefficients.  Choose counts subsets; what is      *)
(* needed of it is Pascal's rule, the rest follows by induction on the     *)
(* row.                                                                    *)

(* Induction on the naturals by counting: if S misses x and is closed      *)
(* under k + 1, adding one maps its part up to x into itself, one to one,  *)
(* and not onto because of 0.                                              *)
LEMMA SetInduction ==
  ASSUME NEW S, 0 \in S, \A k \in Nat : k \in S => k + 1 \in S
  PROVE  Nat \subseteq S
<1> SUFFICES ASSUME NEW x \in Nat, x \notin S
             PROVE  FALSE
  OBVIOUS
<1> DEFINE A == S \cap (0 .. x)
           f == [k \in A |-> k + 1]
<1>1. IsFiniteSet(A)
  <2>1. IsFiniteSet(0 .. x) /\ A \in SUBSET (0 .. x)
    BY FS_Interval
  <2> HIDE DEF A
  <2> QED BY <2>1, FS_Subset
<1>2. f \in [A -> A]
  <2> SUFFICES ASSUME NEW k \in A PROVE k + 1 \in A
    OBVIOUS
  <2> QED OBVIOUS
<1>3. f \in Injection(A, A)
  BY <1>2 DEF Injection, IsInjective
<1>4. f \in Surjection(A, A)
  <2> HIDE DEF f, A
  <2> QED BY <1>1, <1>3, FS_Injection
<1>5. 0 \in A
  OBVIOUS
<1>6. \E k \in A : f[k] = 0
  BY <1>4, <1>5 DEF Surjection
<1> QED BY <1>6

(* The subsets of 1 .. m with j elements. *)
Parts(m, j) == {S \in SUBSET (1 .. m) : Cardinality(S) = j}

LEMMA PartsFinite ==
  ASSUME NEW m \in Nat, NEW j
  PROVE  /\ IsFiniteSet(Parts(m, j)) /\ Choose(m, j) = Cardinality(Parts(m, j))
         /\ Choose(m, j) \in Nat
<1>1. IsFiniteSet(SUBSET (1 .. m))
  <2>1. IsFiniteSet(1 .. m)
    BY FS_Interval
  <2> QED BY <2>1, FS_SUBSET, Zenon
<1>2. Parts(m, j) \in SUBSET (SUBSET (1 .. m))
  BY DEF Parts
<1>3. IsFiniteSet(Parts(m, j))
  BY <1>1, <1>2, FS_Subset
<1> QED BY <1>3, FS_CardinalityType DEF Choose, Parts

LEMMA ChooseNone ==
  ASSUME NEW j \in Int
  PROVE  Choose(0, j) = IF j = 0 THEN 1 ELSE 0
<1>1. SUBSET (1 .. 0) = {{}}
  <2>1. 1 .. 0 = {}
    OBVIOUS
  <2> QED BY <2>1
<1>2. Parts(0, j) = IF j = 0 THEN {{}} ELSE {}
  BY <1>1, FS_EmptySet DEF Parts
<1> QED BY <1>2, FS_EmptySet, FS_Singleton, PartsFinite

LEMMA ChooseOutside ==
  ASSUME NEW m \in Nat, NEW j \in Int, j < 0 \/ m < j
  PROVE  Choose(m, j) = 0
<1>1. ASSUME NEW S \in SUBSET (1 .. m) PROVE Cardinality(S) # j
  <2>1. IsFiniteSet(1 .. m) /\ Cardinality(1 .. m) = m
    BY FS_Interval
  <2>2. Cardinality(S) <= m /\ Cardinality(S) \in Nat
    BY <2>1, FS_Subset, FS_CardinalityType
  <2> QED BY <2>2
<1>2. Parts(m, j) = {}
  BY <1>1 DEF Parts
<1> QED BY <1>2, FS_EmptySet, PartsFinite

(* Pascal's rule: a subset of 1 .. m + 1 has m + 1 or it has not. *)
LEMMA Pascal ==
  ASSUME NEW m \in Nat, NEW j \in Int
  PROVE  Choose(m + 1, j) = Choose(m, j) + Choose(m, j - 1)
<1> DEFINE With == {S \in Parts(m + 1, j) : m + 1 \in S}
           f == [S \in Parts(m, j - 1) |-> S \cup {m + 1}]
<1>1. IsFiniteSet(1 .. m) /\ IsFiniteSet(1 .. m + 1)
  BY FS_Interval
<1>2. \A S \in SUBSET (1 .. m) : IsFiniteSet(S)
  BY <1>1, FS_Subset
<1>3. \A S \in SUBSET (1 .. m + 1) : IsFiniteSet(S)
  BY <1>1, FS_Subset
<1>4. f \in [Parts(m, j - 1) -> With]
  <2> SUFFICES ASSUME NEW S \in Parts(m, j - 1) PROVE S \cup {m + 1} \in With
    OBVIOUS
  <2>1. S \in SUBSET (1 .. m) /\ Cardinality(S) = j - 1 /\ m + 1 \notin S
    BY DEF Parts
  <2>2. Cardinality(S \cup {m + 1}) = j
    BY <1>2, <2>1, FS_AddElement
  <2>3. S \cup {m + 1} \in SUBSET (1 .. m + 1)
    BY <2>1
  <2> QED BY <2>2, <2>3 DEF Parts
<1>5. \A S, T \in Parts(m, j - 1) : f[S] = f[T] => S = T
  <2> SUFFICES ASSUME NEW S \in Parts(m, j - 1), NEW T \in Parts(m, j - 1),
                      S \cup {m + 1} = T \cup {m + 1}
               PROVE  S = T
    OBVIOUS
  <2>1. m + 1 \notin S /\ m + 1 \notin T
    BY DEF Parts
  <2> QED BY <2>1
<1>6. \A T \in With : \E S \in Parts(m, j - 1) : f[S] = T
  <2> SUFFICES ASSUME NEW T \in With PROVE \E S \in Parts(m, j - 1) : f[S] = T
    OBVIOUS
  <2>1. T \in SUBSET (1 .. m + 1) /\ Cardinality(T) = j /\ m + 1 \in T
    BY DEF Parts
  <2>2. Cardinality(T \ {m + 1}) = j - 1
    BY <1>3, <2>1, FS_RemoveElement
  <2>3. T \ {m + 1} \in SUBSET (1 .. m)
    BY <2>1
  <2>4. T \ {m + 1} \in Parts(m, j - 1) /\ (T \ {m + 1}) \cup {m + 1} = T
    BY <2>1, <2>2, <2>3 DEF Parts
  <2> QED BY <2>4
<1>7. Cardinality(With) = Choose(m, j - 1) /\ IsFiniteSet(With)
  <2>1. f \in Bijection(Parts(m, j - 1), With)
    <3> HIDE DEF f, With
    <3> QED BY <1>4, <1>5, <1>6 DEF Bijection, Injection, Surjection, IsInjective
  <2>2. ExistsBijection(Parts(m, j - 1), With)
    BY <2>1 DEF ExistsBijection
  <2> HIDE DEF f, With
  <2> QED BY <2>2, FS_Bijection, PartsFinite
<1>8. Parts(m + 1, j) = Parts(m, j) \cup With
  <2>1. \A S \in SUBSET (1 .. m + 1) : m + 1 \notin S => S \in SUBSET (1 .. m)
    OBVIOUS
  <2>2. \A S \in SUBSET (1 .. m) : S \in SUBSET (1 .. m + 1)
    OBVIOUS
  <2> QED BY <2>1, <2>2 DEF Parts
<1>9. Parts(m, j) \cap With = {}
  BY DEF Parts
<1> HIDE DEF With
<1> QED BY <1>7, <1>8, <1>9, FS_Union, FS_EmptySet, PartsFinite

LEMMA ChooseSymmetric ==
  ASSUME NEW m \in Nat, NEW j \in Int
  PROVE  Choose(m, j) = Choose(m, m - j)
<1> DEFINE S == {p \in Nat : \A i \in Int : Choose(p, i) = Choose(p, p - i)}
<1>1. 0 \in S
  BY ChooseNone
<1>2. ASSUME NEW p \in Nat, p \in S PROVE p + 1 \in S
  <2> SUFFICES ASSUME NEW i \in Int PROVE Choose(p + 1, i) = Choose(p + 1, p + 1 - i)
    OBVIOUS
  <2>1. Choose(p + 1, i) = Choose(p, i) + Choose(p, i - 1)
    BY Pascal
  <2>2. p + 1 - i \in Int /\ p - i \in Int /\ i - 1 \in Int
    OBVIOUS
  <2>3. Choose(p + 1, p + 1 - i) = Choose(p, p + 1 - i) + Choose(p, p + 1 - i - 1)
    BY <2>2, Pascal
  <2>4. p + 1 - i - 1 = p - i /\ p + 1 - i = p - (i - 1)
    OBVIOUS
  <2>5. Choose(p, i) = Choose(p, p - i) /\ Choose(p, i - 1) = Choose(p, p - (i - 1))
    BY <1>2, <2>2
  <2>6. Choose(p, p - i) \in Nat /\ Choose(p, p - (i - 1)) \in Nat
    BY PartsFinite
  <2> QED BY <2>1, <2>3, <2>4, <2>5, <2>6
<1> HIDE DEF S
<1>3. Nat \subseteq S
  BY <1>1, <1>2, SetInduction
<1> QED BY <1>3 DEF S

(* From one binomial coefficient of a row to the next.                     *)
LEMMA ChooseNext ==
  ASSUME NEW m \in Nat, NEW j \in Int
  PROVE  Choose(m, j) * j = Choose(m, j - 1) * (m - j + 1)
<1> DEFINE S == {p \in Nat : \A i \in Int : Choose(p, i) * i = Choose(p, i - 1) * (p - i + 1)}
<1>1. 0 \in S
  <2> SUFFICES ASSUME NEW i \in Int PROVE Choose(0, i) * i = Choose(0, i - 1) * (0 - i + 1)
    OBVIOUS
  <2>1. i - 1 \in Int
    OBVIOUS
  <2>2. Choose(0, i) = (IF i = 0 THEN 1 ELSE 0) /\ Choose(0, i - 1) = (IF i - 1 = 0 THEN 1 ELSE 0)
    BY <2>1, ChooseNone
  <2>3. CASE i = 0
    BY <2>2, <2>3
  <2>4. CASE i = 1
    BY <2>2, <2>4
  <2>5. CASE i # 0 /\ i # 1
    BY <2>2, <2>5
  <2> QED BY <2>3, <2>4, <2>5
<1>2. ASSUME NEW p \in Nat, p \in S PROVE p + 1 \in S
  <2> SUFFICES ASSUME NEW i \in Int
               PROVE Choose(p + 1, i) * i = Choose(p + 1, i - 1) * (p + 1 - i + 1)
    OBVIOUS
  <2>1. i - 1 \in Int /\ i - 2 \in Int /\ i - 1 - 1 = i - 2
    OBVIOUS
  <2>2. PICK a \in Nat : a = Choose(p, i)
    BY PartsFinite
  <2>3. PICK b \in Nat : b = Choose(p, i - 1)
    BY PartsFinite
  <2>4. PICK c \in Nat : c = Choose(p, i - 2)
    BY PartsFinite
  <2>5. Choose(p + 1, i) = a + b /\ Choose(p + 1, i - 1) = b + c
    BY <2>1, <2>2, <2>3, <2>4, Pascal
  <2>6. a * i = b * (p - i + 1)
    BY <1>2, <2>2, <2>3
  <2>7. b * (i - 1) = c * (p - (i - 1) + 1)
    BY <1>2, <2>1, <2>3, <2>4
  <2>8. (a + b) * i = b * (p + 1)
    <3>1. (a + b) * i = a * i + b * i
      OBVIOUS
    <3>2. b * (p - i + 1) + b * i = b * (p + 1)
      OBVIOUS
    <3> QED BY <2>6, <3>1, <3>2
  <2>9. (b + c) * (p + 1 - i + 1) = b * (p + 1)
    <3>1. (b + c) * (p + 1 - i + 1) = b * (p + 1 - i + 1) + c * (p - (i - 1) + 1)
      OBVIOUS
    <3>2. b * (p + 1 - i + 1) + b * (i - 1) = b * (p + 1)
      OBVIOUS
    <3> QED BY <2>7, <3>1, <3>2
  <2> QED BY <2>5, <2>8, <2>9
<1> HIDE DEF S
<1>3. Nat \subseteq S
  BY <1>1, <1>2, SetInduction
<1> QED BY <1>3 DEF S

LEMMA CeilDivExact ==
  ASSUME NEW x \in Int, NEW d \in Nat \ {0}
  PROVE  CeilDiv(d * x, d) = x
<1>1. -(d * x) = d * (-x)
  OBVIOUS
<1>2. (d * (-x)) \div d = -x
  OBVIOUS
<1> QED BY <1>1, <1>2 DEF CeilDiv

(* c has the coefficients of the first l rounds of binomial_mpa.           *)
Rounds(c, m, l) ==
  c = [i \in 0 .. l |->
         IF i = 0 THEN 1
         ELSE LET q == CeilDiv(c[i - 1], i)
                  r == c[i - 1] - q * i
              IN  q * (m - i + 1) + CeilDiv(r * (m - i + 1), i)]

(* One round: the quotient that was rounded up and the rest make up for    *)
(* each other.                                                             *)
LEMMA RoundExact ==
  ASSUME NEW m \in Nat, NEW i \in Nat \ {0}
  PROVE  LET q == CeilDiv(Choose(m, i - 1), i)
             r == Choose(m, i - 1) - q * i
         IN  q * (m - i + 1) + CeilDiv(r * (m - i + 1), i) = Choose(m, i)
<1>1. PICK a \in Nat : a = Choose(m, i)
  BY PartsFinite
<1>2. PICK b \in Nat : b = Choose(m, i - 1)
  BY PartsFinite
<1>3. a * i = b * (m - i + 1)
  BY <1>1, <1>2, ChooseNext
<1>4. PICK q \in Int : q = CeilDiv(b, i)
  <2>1. (-b) \div i \in Int
    OBVIOUS
  <2> QED BY <2>1 DEF CeilDiv
<1>5. PICK s \in Int : s = m - i + 1
  OBVIOUS
<1>6. (b - q * i) * s = i * (a - q * s)
  <2>1. (b - q * i) * s = b * s - q * i * s
    OBVIOUS
  <2>2. i * (a - q * s) = a * i - q * i * s
    OBVIOUS
  <2> QED BY <1>3, <1>5, <2>1, <2>2
<1>7. CeilDiv(i * (a - q * s), i) = a - q * s
  BY CeilDivExact
<1>8. q * s + CeilDiv((b - q * i) * s, i) = a
  BY <1>6, <1>7
<1> QED BY <1>1, <1>2, <1>4, <1>5, <1>8, Zenon

LEMMA ChooseFirst ==
  ASSUME NEW m \in Nat
  PROVE  Choose(m, 0) = 1
<1> DEFINE S == {p \in Nat : Choose(p, 0) = 1}
<1>1. 0 \in S
  BY ChooseNone
<1>2. ASSUME NEW p \in Nat, p \in S PROVE p + 1 \in S
  <2>1. Choose(p + 1, 0) = Choose(p, 0) + Choose(p, 0 - 1)
    BY Pascal
  <2>2. Choose(p, 0 - 1) = 0
    BY ChooseOutside
  <2> QED BY <1>2, <2>1, <2>2
<1> HIDE DEF S
<1>3. Nat \subseteq S
  BY <1>1, <1>2, SetInduction
<1> QED BY <1>3 DEF S

(* binomial_mpa computes the binomial coefficient (the number of subsets): *)
(* no division in its loop leaves a remainder.                             *)
THEOREM BinomialIsChoose ==
  ASSUME NEW m \in Nat, NEW j \in 0 .. m
  PROVE  Binomial(m, j) = Choose(m, j)
<1> DEFINE l == IF j > m - j THEN m - j ELSE j
           d == [i \in 0 .. l |-> Choose(m, i)]
<1>0. l \in Nat
  OBVIOUS
<1>1. Rounds(d, m, l)
  <2>1. ASSUME NEW i \in 0 .. l, i # 0
        PROVE  d[i] = LET q == CeilDiv(d[i - 1], i)
                          r == d[i - 1] - q * i
                      IN  q * (m - i + 1) + CeilDiv(r * (m - i + 1), i)
    <3>1. i \in Nat \ {0} /\ i - 1 \in 0 .. l
      BY <1>0, <2>1
    <3>2. d[i - 1] = Choose(m, i - 1) /\ d[i] = Choose(m, i)
      BY <3>1
    <3> HIDE DEF d
    <3> QED BY <3>1, <3>2, RoundExact
  <2>2. \A i \in 0 .. l : i = 0 => d[i] = 1
    BY ChooseFirst
  <2> HIDE DEF l
  <2> QED BY <2>1, <2>2 DEF Rounds
<1>2. PICK c : c = CHOOSE any : Rounds(any, m, l)
  OBVIOUS
<1>3. Rounds(c, m, l)
  BY <1>1, <1>2, Zenon
<1>4. Binomial(m, j) = c[l]
  BY <1>2, Zenon DEF Binomial, Rounds
<1>5. c[l] = Choose(m, l)
  <2> HIDE DEF l, d
  <2> DEFINE S == {i \in Nat : i <= l => c[i] = Choose(m, i)}
  <2>1. 0 \in S
    <3>1. c[0] = 1
      BY <1>0, <1>3 DEF Rounds
    <3> QED BY <3>1, ChooseFirst
  <2>2. ASSUME NEW i \in Nat, i \in S PROVE i + 1 \in S
    <3> SUFFICES ASSUME i + 1 <= l PROVE c[i + 1] = Choose(m, i + 1)
      OBVIOUS
    <3>1. c[i] = Choose(m, i)
      BY <1>0, <2>2
    <3>2. i + 1 \in 0 .. l /\ i + 1 # 0 /\ (i + 1) - 1 = i
      BY <1>0
    <3>3. PICK k \in Nat \ {0} : k = i + 1
      OBVIOUS
    <3>4. c[k] = LET q == CeilDiv(c[k - 1], k)
                     r == c[k - 1] - q * k
                 IN  q * (m - k + 1) + CeilDiv(r * (m - k + 1), k)
      BY <1>3, <3>2, <3>3 DEF Rounds
    <3>5. c[k - 1] = Choose(m, k - 1)
      BY <3>1, <3>2, <3>3
    <3> QED BY <3>3, <3>4, <3>5, RoundExact
  <2> HIDE DEF S
  <2>3. Nat \subseteq S
    BY <2>1, <2>2, SetInduction
  <2> QED BY <1>0, <2>3 DEF S
<1> QED BY <1>4, <1>5, ChooseSymmetric

-----------------------------------------------------------------------------
(* The sum.                                                                *)
Sign(i) == IF i % 2 = 0 THEN 1 ELSE -1

DgfTerm(m, k, i) == Sign(i + k) * Choose(i + m, 2 * i + 1) * Choose(2 * i, i + k)

(* f has the partial sums of DgfSum(m, k) up to l terms.                   *)
Partial(f, m, k, l) ==
  /\ f \in [0 .. l -> Int]
  /\ f[0] = 0
  /\ \A i \in 0 .. l - 1 : f[i + 1] = f[i] + DgfTerm(m, k, i)

SumRule(f, m, k) ==
  f = [i \in 0 .. m |->
         IF i = 0 THEN 0
         ELSE f[i-1] + (IF i - 1 < Magnitude(k) THEN 0
                        ELSE (IF (i - 1 + k) % 2 = 0 THEN 1 ELSE -1)
                             * Choose(i - 1 + m, 2 * i - 1)
                             * Choose(2 * (i - 1), i - 1 + k))]

LEMMA TermInt ==
  ASSUME NEW m \in Nat, NEW k \in Int, NEW i \in Nat
  PROVE  DgfTerm(m, k, i) \in Int
<1>1. Choose(i + m, 2 * i + 1) \in Nat /\ Choose(2 * i, i + k) \in Nat
  <2>1. i + m \in Nat /\ 2 * i \in Nat
    OBVIOUS
  <2> QED BY <2>1, PartsFinite
<1>2. Sign(i + k) \in Int
  BY DEF Sign
<1> QED BY <1>1, <1>2 DEF DgfTerm

LEMMA TermOfCode ==
  ASSUME NEW m \in Nat, NEW k \in Int, NEW i \in Nat \ {0}
  PROVE  (IF i - 1 < Magnitude(k) THEN 0
          ELSE (IF (i - 1 + k) % 2 = 0 THEN 1 ELSE -1)
               * Choose(i - 1 + m, 2 * i - 1) * Choose(2 * (i - 1), i - 1 + k))
         = DgfTerm(m, k, i - 1)
<1>1. PICK p \in Nat : p = i - 1
  OBVIOUS
<1>2. 2 * i - 1 = 2 * p + 1 /\ 2 * (i - 1) = 2 * p
  BY <1>1
<1>3. CASE p < Magnitude(k)
  <2>1. Choose(2 * p, p + k) = 0
    <3>1. p + k < 0 \/ 2 * p < p + k
      BY <1>3 DEF Magnitude
    <3> QED BY <3>1, ChooseOutside
  <2>2. Choose(p + m, 2 * p + 1) \in Nat /\ Sign(p + k) \in Int
    BY PartsFinite DEF Sign
  <2>3. DgfTerm(m, k, p) = 0
    BY <2>1, <2>2 DEF DgfTerm
  <2> QED BY <1>1, <1>3, <2>3
<1>4. CASE ~(p < Magnitude(k))
  BY <1>1, <1>2, <1>4 DEF DgfTerm, Sign
<1> QED BY <1>3, <1>4

(* From the m-th on the terms are zero.                                    *)
LEMMA TermZero ==
  ASSUME NEW m \in Nat, NEW k \in Int, NEW i \in Nat, m <= i
  PROVE  DgfTerm(m, k, i) = 0
<1>1. Choose(i + m, 2 * i + 1) = 0
  BY ChooseOutside
<1>2. Choose(2 * i, i + k) \in Nat /\ Sign(i + k) \in Int
  BY PartsFinite DEF Sign
<1> QED BY <1>1, <1>2 DEF DgfTerm

LEMMA PartialExists ==
  ASSUME NEW m \in Nat, NEW k \in Int
  PROVE  \A l \in Nat : \E f : Partial(f, m, k, l)
<1> DEFINE S == {l \in Nat : \E f : Partial(f, m, k, l)}
<1>1. 0 \in S
  <2>1. Partial([i \in 0 .. 0 |-> 0], m, k, 0)
    BY DEF Partial
  <2> QED BY <2>1
<1>2. ASSUME NEW l \in Nat, l \in S PROVE l + 1 \in S
  <2>1. PICK f : Partial(f, m, k, l)
    BY <1>2
  <2>2. PICK v \in Int : v = f[l] + DgfTerm(m, k, l)
    <3>1. f[l] \in Int
      BY <2>1 DEF Partial
    <3>2. DgfTerm(m, k, l) \in Int
      BY TermInt
    <3>3. f[l] + DgfTerm(m, k, l) \in Int
      BY <3>1, <3>2
    <3> QED BY <3>3, Zenon
  <2> DEFINE g == [i \in 0 .. l + 1 |-> IF i <= l THEN f[i] ELSE v]
  <2>3. g \in [0 .. l + 1 -> Int] /\ g[0] = 0
    BY <2>1 DEF Partial
  <2>4. ASSUME NEW i \in 0 .. l PROVE g[i + 1] = g[i] + DgfTerm(m, k, i)
    <3>1. CASE i = l
      BY <2>2, <3>1
    <3>2. CASE i # l
      <4>1. i \in 0 .. l - 1 /\ i + 1 <= l
        BY <3>2
      <4>2. f[i + 1] = f[i] + DgfTerm(m, k, i)
        BY <2>1, <4>1 DEF Partial
      <4> QED BY <4>1, <4>2
    <3> QED BY <3>1, <3>2
  <2> HIDE DEF g
  <2>5. Partial(g, m, k, l + 1)
    <3>1. (l + 1) - 1 = l
      OBVIOUS
    <3> QED BY <2>3, <2>4, <3>1 DEF Partial
  <2> QED BY <2>5
<1> HIDE DEF S
<1>3. Nat \subseteq S
  BY <1>1, <1>2, SetInduction
<1> QED BY <1>3 DEF S

(* DgfSum is the last of the partial sums, however far they go.            *)
LEMMA SumIsPartial ==
  ASSUME NEW m \in Nat, NEW k \in Int, NEW l \in Nat, m <= l, NEW f, Partial(f, m, k, l)
  PROVE  DgfSum(m, k) = f[m] /\ f[l] = f[m]
<1> DEFINE d == [i \in 0 .. m |-> f[i]]
<1>1. SumRule(d, m, k)
  <2>1. ASSUME NEW i \in 0 .. m, i # 0
        PROVE  d[i] = d[i-1] + (IF i - 1 < Magnitude(k) THEN 0
                        ELSE (IF (i - 1 + k) % 2 = 0 THEN 1 ELSE -1)
                             * Choose(i - 1 + m, 2 * i - 1)
                             * Choose(2 * (i - 1), i - 1 + k))
    <3>1. i \in Nat \ {0} /\ i - 1 \in 0 .. l - 1 /\ (i - 1) + 1 = i /\ i - 1 \in 0 .. m
      BY <2>1
    <3>2. f[(i - 1) + 1] = f[i - 1] + DgfTerm(m, k, i - 1)
      BY <3>1 DEF Partial
    <3>3. d[i] = f[i] /\ d[i - 1] = f[i - 1]
      BY <3>1
    <3> HIDE DEF d
    <3>4. d[i] = d[i - 1] + DgfTerm(m, k, i - 1)
      BY <3>1, <3>2, <3>3
    <3> QED BY <3>1, <3>4, TermOfCode
  <2>2. \A i \in 0 .. m : i = 0 => d[i] = 0
    BY DEF Partial
  <2> QED BY <2>1, <2>2 DEF SumRule
<1>2. PICK c : c = CHOOSE any : SumRule(any, m, k)
  OBVIOUS
<1>3. SumRule(c, m, k)
  BY <1>1, <1>2, Zenon
<1>4. DgfSum(m, k) = c[m]
  BY <1>2, Zenon DEF DgfSum, SumRule
<1>5. c[m] = f[m]
  <2> DEFINE S == {i \in Nat : i <= m => c[i] = f[i]}
  <2>1. 0 \in S
    BY <1>3 DEF SumRule, Partial
  <2>2. ASSUME NEW i \in Nat, i \in S PROVE i + 1 \in S
    <3> SUFFICES ASSUME i + 1 <= m PROVE c[i + 1] = f[i + 1]
      OBVIOUS
    <3>1. c[i] = f[i]
      BY <2>2
    <3>2. PICK p \in Nat \ {0} : p = i + 1
      OBVIOUS
    <3>3. p \in 0 .. m /\ p - 1 = i /\ i \in 0 .. l - 1
      BY <3>2
    <3>4. c[p] = c[p-1] + (IF p - 1 < Magnitude(k) THEN 0
                           ELSE (IF (p - 1 + k) % 2 = 0 THEN 1 ELSE -1)
                                * Choose(p - 1 + m, 2 * p - 1)
                                * Choose(2 * (p - 1), p - 1 + k))
      BY <1>3, <3>3 DEF SumRule
    <3>5. c[p] = c[p - 1] + DgfTerm(m, k, p - 1)
      BY <3>4, TermOfCode
    <3>6. f[i + 1] = f[i] + DgfTerm(m, k, i)
      BY <3>3 DEF Partial
    <3> QED BY <3>1, <3>2, <3>3, <3>5, <3>6
  <2> HIDE DEF S
  <2>3. Nat \subseteq S
    BY <2>1, <2>2, SetInduction
  <2> QED BY <2>3 DEF S
<1>6. f[l] = f[m]
  <2> DEFINE S == {i \in Nat : m + i <= l => f[m + i] = f[m]}
  <2>1. 0 \in S
    <3>1. m + 0 = m
      OBVIOUS
    <3> QED BY <3>1
  <2>2. ASSUME NEW i \in Nat, i \in S PROVE i + 1 \in S
    <3> SUFFICES ASSUME m + (i + 1) <= l PROVE f[m + (i + 1)] = f[m]
      OBVIOUS
    <3>1. m + i \in 0 .. l - 1 /\ (m + i) + 1 = m + (i + 1) /\ m + i \in Nat
      OBVIOUS
    <3>2. f[(m + i) + 1] = f[m + i] + DgfTerm(m, k, m + i)
      BY <3>1 DEF Partial
    <3>3. DgfTerm(m, k, m + i) = 0
      BY <3>1, TermZero
    <3>4. f[m + i] = f[m] /\ f[m + i] \in Int
      BY <2>2, <3>1 DEF Partial
    <3> QED BY <3>1, <3>2, <3>3, <3>4
  <2> HIDE DEF S
  <2>3. Nat \subseteq S
    BY <2>1, <2>2, SetInduction
  <2>4. l - m \in S /\ m + (l - m) = l
    BY <2>3
  <2> QED BY <2>4 DEF S
<1> QED BY <1>4, <1>5, <1>6

(* What the terms at n + 1 and n - 1 have in excess of those at k - 1 and  *)
(* k + 1 is the difference of two neighbours of this sequence.             *)
Excess(m, k, i) == Sign(i + k) * Choose(i + m - 1, 2 * i - 1) * Choose(2 * i, i + k)

LEMMA RowsOfN ==
  ASSUME NEW m \in Nat \ {0}, NEW i \in Nat
  PROVE  Choose(i + (m + 1), 2 * i + 1) + Choose(i + (m - 1), 2 * i + 1)
         = 2 * Choose(i + m, 2 * i + 1) + Choose(i + m - 1, 2 * i - 1)
<1>1. PICK p \in Nat : p = i + m - 1
  OBVIOUS
<1>2. i + m = p + 1 /\ i + (m + 1) = p + 1 + 1 /\ i + (m - 1) = p
  BY <1>1
<1>3. PICK j \in Int : j = 2 * i
  OBVIOUS
<1>4. Choose(p + 1 + 1, j + 1) = Choose(p + 1, j + 1) + Choose(p + 1, j)
  <2>1. p + 1 \in Nat /\ j + 1 \in Int /\ (j + 1) - 1 = j
    OBVIOUS
  <2> QED BY <2>1, Pascal
<1>5. Choose(p + 1, j + 1) = Choose(p, j + 1) + Choose(p, j)
  <2>1. j + 1 \in Int /\ (j + 1) - 1 = j
    OBVIOUS
  <2> QED BY <2>1, Pascal
<1>6. Choose(p + 1, j) = Choose(p, j) + Choose(p, j - 1)
  BY Pascal
<1>7. Choose(p, j) \in Nat /\ Choose(p, j - 1) \in Nat /\ Choose(p, j + 1) \in Nat
  BY PartsFinite
<1>8. Choose(p + 1 + 1, j + 1) + Choose(p, j + 1) = 2 * Choose(p + 1, j + 1) + Choose(p, j - 1)
  BY <1>4, <1>5, <1>6, <1>7
<1> QED BY <1>1, <1>2, <1>3, <1>8

LEMMA RowsOfK ==
  ASSUME NEW k \in Int, NEW i \in Nat
  PROVE  Choose(2 * (i + 1), i + 1 + k)
         = Choose(2 * i, i + (k - 1)) + 2 * Choose(2 * i, i + k) + Choose(2 * i, i + (k + 1))
<1>1. PICK p \in Nat : p = 2 * i
  OBVIOUS
<1>2. PICK j \in Int : j = i + k
  OBVIOUS
<1>3. Choose(p + 1 + 1, j + 1) = Choose(p + 1, j + 1) + Choose(p + 1, j)
  <2>1. p + 1 \in Nat /\ j + 1 \in Int /\ (j + 1) - 1 = j
    OBVIOUS
  <2> QED BY <2>1, Pascal
<1>4. Choose(p + 1, j + 1) = Choose(p, j + 1) + Choose(p, j)
  <2>1. j + 1 \in Int /\ (j + 1) - 1 = j
    OBVIOUS
  <2> QED BY <2>1, Pascal
<1>5. Choose(p + 1, j) = Choose(p, j) + Choose(p, j - 1)
  BY Pascal
<1>6. Choose(p, j) \in Nat /\ Choose(p, j - 1) \in Nat /\ Choose(p, j + 1) \in Nat
  BY PartsFinite
<1>7. 2 * (i + 1) = p + 1 + 1 /\ i + 1 + k = j + 1 /\ i + (k - 1) = j - 1 /\ i + (k + 1) = j + 1
  BY <1>1, <1>2
<1> QED BY <1>1, <1>2, <1>3, <1>4, <1>5, <1>6, <1>7

LEMMA SignStep ==
  ASSUME NEW i \in Int
  PROVE  /\ Sign(i + 1) = -Sign(i) /\ Sign(i - 1) = -Sign(i)
         /\ Sign(i) \in Int
BY DEF Sign

LEMMA TermsDiffer ==
  ASSUME NEW m \in Nat \ {0}, NEW k \in Int, NEW i \in Nat
  PROVE  /\ DgfTerm(m + 1, k, i) + DgfTerm(m - 1, k, i)
            - DgfTerm(m, k - 1, i) - DgfTerm(m, k + 1, i)
            = Excess(m, k, i) - Excess(m, k, i + 1)
         /\ Excess(m, k, i) \in Int /\ Excess(m, k, i + 1) \in Int
<1>1. PICK s \in Int : s = Sign(i + k)
  BY SignStep
<1>2. Sign(i + (k + 1)) = -s /\ Sign(i + (k - 1)) = -s /\ Sign(i + 1 + k) = -s
  <2>1. i + (k + 1) = (i + k) + 1 /\ i + (k - 1) = (i + k) - 1 /\ i + 1 + k = (i + k) + 1
    OBVIOUS
  <2> QED BY <1>1, <2>1, SignStep
<1>3. PICK a \in Nat : a = Choose(i + m, 2 * i + 1)
  BY PartsFinite
<1>4. PICK a1 \in Nat : a1 = Choose(i + (m + 1), 2 * i + 1)
  BY PartsFinite
<1>5. PICK a2 \in Nat : a2 = Choose(i + (m - 1), 2 * i + 1)
  <2>1. i + (m - 1) \in Nat
    OBVIOUS
  <2> QED BY <2>1, PartsFinite
<1>6. PICK a3 \in Nat : a3 = Choose(i + m - 1, 2 * i - 1)
  <2>1. i + m - 1 \in Nat
    OBVIOUS
  <2> QED BY <2>1, PartsFinite
<1>7. a1 + a2 = 2 * a + a3
  BY <1>3, <1>4, <1>5, <1>6, RowsOfN
<1>8. PICK b \in Nat : b = Choose(2 * i, i + k)
  BY PartsFinite
<1>9. PICK b1 \in Nat : b1 = Choose(2 * i, i + (k - 1))
  BY PartsFinite
<1>10. PICK b2 \in Nat : b2 = Choose(2 * i, i + (k + 1))
  BY PartsFinite
<1>11. PICK b3 \in Nat : b3 = Choose(2 * (i + 1), i + 1 + k)
  BY PartsFinite
<1>12. b3 = b1 + 2 * b + b2
  BY <1>8, <1>9, <1>10, <1>11, RowsOfK
<1>13. Choose(i + 1 + m - 1, 2 * (i + 1) - 1) = a
  <2>1. i + 1 + m - 1 = i + m /\ 2 * (i + 1) - 1 = 2 * i + 1
    OBVIOUS
  <2> QED BY <1>3, <2>1
<1>14. /\ DgfTerm(m + 1, k, i) = s * a1 * b /\ DgfTerm(m - 1, k, i) = s * a2 * b
       /\ DgfTerm(m, k - 1, i) = (-s) * a * b1 /\ DgfTerm(m, k + 1, i) = (-s) * a * b2
       /\ Excess(m, k, i) = s * a3 * b /\ Excess(m, k, i + 1) = (-s) * a * b3
  BY <1>1, <1>2, <1>3, <1>4, <1>5, <1>6, <1>8, <1>9, <1>10, <1>11, <1>13 DEF DgfTerm, Excess
<1>15. s * a1 * b + s * a2 * b - ((-s) * a * b1) - ((-s) * a * b2) = s * a3 * b - ((-s) * a * b3)
  <2>1. s * a1 * b + s * a2 * b = s * (a1 + a2) * b
    OBVIOUS
  <2>2. s * (2 * a + a3) * b = s * a3 * b + s * a * (2 * b)
    OBVIOUS
  <2>3. (-s) * a * b1 = -(s * a * b1) /\ (-s) * a * b2 = -(s * a * b2)
        /\ (-s) * a * b3 = -(s * a * b3)
    OBVIOUS
  <2>4. s * a * (b1 + 2 * b + b2) = s * a * b1 + s * a * (2 * b) + s * a * b2
    OBVIOUS
  <2>5. s * (a1 + a2) * b = s * (2 * a + a3) * b /\ s * a * b3 = s * a * (b1 + 2 * b + b2)
    BY <1>7, <1>12
  <2>6. PICK u \in Int : u = s * a3 * b
    OBVIOUS
  <2>7. PICK v \in Int : v = s * a * (2 * b)
    OBVIOUS
  <2>8. PICK v1 \in Int : v1 = s * a * b1
    OBVIOUS
  <2>9. PICK v2 \in Int : v2 = s * a * b2
    OBVIOUS
  <2>10. s * a1 * b + s * a2 * b = u + v
    BY <2>1, <2>2, <2>5, <2>6, <2>7
  <2>11. s * a * b3 = v1 + v + v2
    BY <2>4, <2>5, <2>7, <2>8, <2>9
  <2>12. (-s) * a * b1 = -v1 /\ (-s) * a * b2 = -v2 /\ (-s) * a * b3 = -(v1 + v + v2)
    BY <2>3, <2>8, <2>9, <2>11
  <2>13. (u + v) - (-v1) - (-v2) = u - (-(v1 + v + v2))
    OBVIOUS
  <2> QED BY <2>6, <2>10, <2>12, <2>13
<1>16. s * a3 * b \in Int /\ (-s) * a * b3 \in Int
  OBVIOUS
<1>17. /\ DgfTerm(m + 1, k, i) + DgfTerm(m - 1, k, i)
          - DgfTerm(m, k - 1, i) - DgfTerm(m, k + 1, i)
          = s * a1 * b + s * a2 * b - ((-s) * a * b1) - ((-s) * a * b2)
       /\ Excess(m, k, i) - Excess(m, k, i + 1) = s * a3 * b - ((-s) * a * b3)
  BY <1>14, Zenon
<1>18. Excess(m, k, i) \in Int /\ Excess(m, k, i + 1) \in Int
  BY <1>14, <1>16, Zenon
<1> QED BY <1>15, <1>17, <1>18, Zenon

(* The sums obey the rule of the Chebyshev polynomials.                    *)
LEMMA SumsRecur ==
  ASSUME NEW m \in Nat \ {0}, NEW k \in Int
  PROVE  DgfSum(m + 1, k) = DgfSum(m, k - 1) + DgfSum(m, k + 1) - DgfSum(m - 1, k)
<1> DEFINE l == m + 1
<1>1. PICK f1 : Partial(f1, m + 1, k, l)
  BY PartialExists
<1>2. PICK f2 : Partial(f2, m - 1, k, l)
  BY PartialExists
<1>3. PICK f3 : Partial(f3, m, k - 1, l)
  BY PartialExists
<1>4. PICK f4 : Partial(f4, m, k + 1, l)
  BY PartialExists
<1>5. /\ DgfSum(m + 1, k) = f1[l] /\ DgfSum(m - 1, k) = f2[l]
      /\ DgfSum(m, k - 1) = f3[l] /\ DgfSum(m, k + 1) = f4[l]
  BY <1>1, <1>2, <1>3, <1>4, SumIsPartial
<1> DEFINE S == {i \in Nat : i <= l => f1[i] + f2[i] - f3[i] - f4[i] = -Excess(m, k, i)}
<1>6. 0 \in S
  <2>1. Choose(0 + m - 1, 2 * 0 - 1) = 0
    BY ChooseOutside
  <2>2. Choose(2 * 0, 0 + k) \in Nat /\ Sign(0 + k) \in Int
    BY PartsFinite, SignStep
  <2>3. Excess(m, k, 0) = 0
    BY <2>1, <2>2 DEF Excess
  <2>4. f1[0] = 0 /\ f2[0] = 0 /\ f3[0] = 0 /\ f4[0] = 0
    BY <1>1, <1>2, <1>3, <1>4 DEF Partial
  <2> QED BY <2>3, <2>4
<1>7. ASSUME NEW i \in Nat, i \in S PROVE i + 1 \in S
  <2> SUFFICES ASSUME i + 1 <= l
               PROVE  f1[i + 1] + f2[i + 1] - f3[i + 1] - f4[i + 1] = -Excess(m, k, i + 1)
    OBVIOUS
  <2>1. i \in 0 .. l - 1 /\ i \in 0 .. l
    OBVIOUS
  <2>2. /\ f1[i + 1] = f1[i] + DgfTerm(m + 1, k, i) /\ f2[i + 1] = f2[i] + DgfTerm(m - 1, k, i)
        /\ f3[i + 1] = f3[i] + DgfTerm(m, k - 1, i) /\ f4[i + 1] = f4[i] + DgfTerm(m, k + 1, i)
        /\ f1[i] \in Int /\ f2[i] \in Int /\ f3[i] \in Int /\ f4[i] \in Int
    BY <1>1, <1>2, <1>3, <1>4, <2>1 DEF Partial
  <2>3. /\ DgfTerm(m + 1, k, i) \in Int /\ DgfTerm(m - 1, k, i) \in Int
        /\ DgfTerm(m, k - 1, i) \in Int /\ DgfTerm(m, k + 1, i) \in Int
    <3>1. m + 1 \in Nat /\ m - 1 \in Nat /\ k - 1 \in Int /\ k + 1 \in Int
      OBVIOUS
    <3> QED BY <3>1, TermInt
  <2>4. f1[i] + f2[i] - f3[i] - f4[i] = -Excess(m, k, i)
    BY <1>7, <2>1
  <2>5. /\ DgfTerm(m + 1, k, i) + DgfTerm(m - 1, k, i)
            - DgfTerm(m, k - 1, i) - DgfTerm(m, k + 1, i)
            = Excess(m, k, i) - Excess(m, k, i + 1)
        /\ Excess(m, k, i) \in Int /\ Excess(m, k, i + 1) \in Int
    BY TermsDiffer
  <2> QED BY <2>2, <2>3, <2>4, <2>5
<1> HIDE DEF S
<1>8. Nat \subseteq S
  BY <1>6, <1>7, SetInduction
<1>9. f1[l] + f2[l] - f3[l] - f4[l] = -Excess(m, k, l)
  BY <1>8 DEF S
<1>10. Excess(m, k, l) = 0
  <2>1. Choose(l + m - 1, 2 * l - 1) = 0
    BY ChooseOutside
  <2>2. Choose(2 * l, l + k) \in Nat /\ Sign(l + k) \in Int
    BY PartsFinite, SignStep
  <2> QED BY <2>1, <2>2 DEF Excess
<1>11. f1[l] \in Int /\ f2[l] \in Int /\ f3[l] \in Int /\ f4[l] \in Int
  BY <1>1, <1>2, <1>3, <1>4 DEF Partial
<1> QED BY <1>5, <1>9, <1>10, <1>11

(* The discrete Green's function in one dimension: what the generator      *)
(* compares its sum with.                                                  *)
Green(m, k) == IF -m < k /\ k < m /\ (m + k) % 2 = 1 THEN 1 ELSE 0

(* The sum over the rows of binomials that scalar_dgf_cflf1_std adds up,   *)
(* in which almost everything cancels, is that function, for every n and   *)
(* every k of either sign.                                                 *)
THEOREM DgfIsGreen ==
  ASSUME NEW m \in Nat, NEW k \in Int
  PROVE  DgfSum(m, k) = Green(m, k)
<1> DEFINE S == {p \in Nat : \A j \in Int : /\ DgfSum(p, j) = Green(p, j)
                                            /\ DgfSum(p + 1, j) = Green(p + 1, j)}
<1>1. 0 \in S
  <2> SUFFICES ASSUME NEW j \in Int
               PROVE DgfSum(0, j) = Green(0, j) /\ DgfSum(0 + 1, j) = Green(0 + 1, j)
    OBVIOUS
  <2>1. DgfSum(0, j) = 0
    <3>1. PICK f : Partial(f, 0, j, 0)
      BY PartialExists
    <3>2. DgfSum(0, j) = f[0]
      BY <3>1, SumIsPartial
    <3> QED BY <3>1, <3>2 DEF Partial
  <2>2. DgfSum(1, j) = IF j = 0 THEN 1 ELSE 0
    <3>1. PICK f : Partial(f, 1, j, 1)
      BY PartialExists
    <3>2. DgfSum(1, j) = f[1]
      BY <3>1, SumIsPartial
    <3>3. f[0 + 1] = f[0] + DgfTerm(1, j, 0) /\ f[0] = 0
      BY <3>1 DEF Partial
    <3>4. Choose(1, 1) = 1 /\ Choose(0, j) = IF j = 0 THEN 1 ELSE 0
      BY ChooseNone, ChooseFirst, ChooseSymmetric
    <3>5. DgfTerm(1, j, 0) = Sign(0 + j) * Choose(0 + 1, 2 * 0 + 1) * Choose(2 * 0, 0 + j)
      BY DEF DgfTerm
    <3>6. 0 + j = j /\ 0 + 1 = 1 /\ 2 * 0 + 1 = 1 /\ 2 * 0 = 0
      OBVIOUS
    <3>7. DgfTerm(1, j, 0) = IF j = 0 THEN 1 ELSE 0
      BY <3>4, <3>5, <3>6, SignStep DEF Sign
    <3> QED BY <3>2, <3>3, <3>7
  <2> QED BY <2>1, <2>2 DEF Green
<1>2. ASSUME NEW p \in Nat, p \in S PROVE p + 1 \in S
  <2> SUFFICES ASSUME NEW j \in Int PROVE DgfSum(p + 1 + 1, j) = Green(p + 1 + 1, j)
    BY <1>2
  <2>1. DgfSum(p + 1 + 1, j) = DgfSum(p + 1, j - 1) + DgfSum(p + 1, j + 1) - DgfSum(p + 1 - 1, j)
    BY SumsRecur
  <2>2. /\ DgfSum(p + 1, j - 1) = Green(p + 1, j - 1)
        /\ DgfSum(p + 1, j + 1) = Green(p + 1, j + 1)
        /\ DgfSum(p + 1 - 1, j) = Green(p, j)
    BY <1>2
  <2>3. Green(p + 1 + 1, j) = Green(p + 1, j - 1) + Green(p + 1, j + 1) - Green(p, j)
    BY DEF Green
  <2> QED BY <2>1, <2>2, <2>3
<1> HIDE DEF S
<1>3. Nat \subseteq S
  BY <1>1, <1>2, SetInduction
<1> QED BY <1>3 DEF S

-----------------------------------------------------------------------------
(* 1ddgf_data: the places.                                                 *)

From == Magnitude(job.k)

(* Half the numbers for both buses, after the zero that bus A begins with. *)
Terms == n - From + (IF step = 1 THEN 0 ELSE 1)

(* The sum of the terms before the n-th. *)
SumSoFar(v) == \E f : Partial(f, job.n, job.k, job.n) /\ v = f[n]

DgfHolds(bytes, as) ==
  /\ size_commands = DgfSize /\ reg \in [Reg -> Int] /\ out = <<>>
  /\ num_command = bytes /\ emitted = bytes
  /\ busA \in Seq(Int) /\ loadsA = Len(busA) /\ loadsA = as + 1
  /\ busB \in Seq(Int) /\ loadsB = Len(busB) /\ loadsB = as
  /\ SumSoFar(reg[SumReg]) /\ mpz_res = reg[SumReg]

DgfLoad ==
  /\ stage = "load" /\ step = 1 /\ status = "run" /\ n \in Nat
  /\ size_commands = DgfSize /\ reg \in [Reg -> Int] /\ out = <<>>
  /\ num_command = 0 /\ emitted = 0
  /\ busA = <<>> /\ loadsA = 0 /\ busB = <<>> /\ loadsB = 0 /\ mpz_res = 0

DgfPlace ==
  /\ stage = "loop" /\ status = "run"
  /\ n \in Nat /\ From <= n /\ n < job.n /\ step \in 1 .. 3
  /\ DgfHolds(2 + 12 * (n - From) + 4 * (step - 1), Terms)
  /\ step \in {2, 3} => /\ reg[X] = Choose(n + job.n, 2 * n + 1)
                        /\ reg[Y] = Choose(2 * n, n + job.k)
  /\ step = 3 => reg[Z] = Choose(n + job.n, 2 * n + 1) * Choose(2 * n, n + job.k)

DgfCheck ==
  /\ stage = "check" /\ step = 1 /\ n = job.n
  /\ status \in {"run", "exit1"} /\ (status = "exit1" => job.k < 0)
  /\ DgfHolds(2 + 12 * (n - From), n - From)

DgfEnd == Emitted(TRUE) /\ out = <<DgfSum(job.n, job.k)>>

DgfInv == job.gen = "dgf" => (Begins /\ mpz_res = 0) \/ DgfLoad \/ DgfPlace \/ DgfCheck \/ DgfEnd

LEMMA DgfJob ==
  ASSUME job \in Jobs, job.gen = "dgf"
  PROVE  /\ job.n \in Nat \ {0} /\ job.k \in Int /\ From \in Nat /\ From <= job.n
         /\ -job.n <= job.k /\ job.k <= job.n
         /\ DgfSize = 4 + 12 * (job.n - From)
<1>1. /\ job.n \in Nat \ {0} /\ job.k \in Int
      /\ -job.n <= job.k /\ job.k <= job.n
  BY ProgramAssumption
<1>2. From \in Nat /\ From <= job.n
  BY <1>1 DEF From, Magnitude
<1>3. DgfSize = 4 + 12 * (job.n - From)
  BY <1>1, <1>2 DEF DgfSize, From
<1> QED BY <1>1, <1>2, <1>3

(* Before the first term the sum is zero. *)
LEMMA SumBegins ==
  ASSUME NEW m \in Nat, NEW k \in Int, Magnitude(k) <= m
  PROVE  \E f : Partial(f, m, k, m) /\ f[Magnitude(k)] = 0
<1>1. PICK f : Partial(f, m, k, m)
  BY PartialExists
<1>2. Magnitude(k) \in Nat
  BY DEF Magnitude
<1> DEFINE S == {i \in Nat : i <= Magnitude(k) => f[i] = 0}
<1>3. 0 \in S
  BY <1>1 DEF Partial
<1>4. ASSUME NEW i \in Nat, i \in S PROVE i + 1 \in S
  <2> SUFFICES ASSUME i + 1 <= Magnitude(k) PROVE f[i + 1] = 0
    OBVIOUS
  <2>1. f[i] = 0 /\ i \in 0 .. m - 1
    BY <1>2, <1>4
  <2>2. f[i + 1] = f[i] + DgfTerm(m, k, i)
    BY <1>1, <2>1 DEF Partial
  <2>3. DgfTerm(m, k, i) = 0
    <3>1. i + k < 0 \/ 2 * i < i + k
      BY DEF Magnitude
    <3>2. Choose(2 * i, i + k) = 0
      BY <3>1, ChooseOutside
    <3>3. Choose(i + m, 2 * i + 1) \in Nat /\ Sign(i + k) \in Int
      BY PartsFinite, SignStep
    <3> QED BY <3>2, <3>3 DEF DgfTerm
  <2> QED BY <2>1, <2>2, <2>3
<1> HIDE DEF S
<1>5. Nat \subseteq S
  BY <1>3, <1>4, SetInduction
<1>6. f[Magnitude(k)] = 0
  BY <1>2, <1>5 DEF S
<1> QED BY <1>1, <1>6

LEMMA DgfLoadStep ==
  ASSUME job \in Jobs, job.gen = "dgf", DgfLoad, Emitting,
         Loaa(ALT, << 0 >>), n' = From, mpz_res' = mpz_res,
         Go(IF From <= job.n - 1 THEN "loop" ELSE "check", 1)
  PROVE  DgfPlace' \/ DgfCheck'
<1>0. /\ job.n \in Nat \ {0} /\ job.k \in Int /\ From \in Nat /\ From <= job.n
      /\ DgfSize = 4 + 12 * (job.n - From)
  BY DgfJob
<1>1. /\ job' = job /\ status' = "run" /\ size_commands' = DgfSize /\ DgfSize' = DgfSize
      /\ From' = From
  BY DEF Emitting, DgfLoad, DgfSize, From
<1>2. /\ num_command' = 2 /\ emitted' = 2 /\ out' = <<>>
      /\ busB' = <<>> /\ loadsB' = 0 /\ loadsA' = 1
  BY DEF DgfLoad, Loaa, Put
<1>3. busA' = <<0>>
  <2>1. busA' = <<>> \o <<0>>
    BY DEF DgfLoad, Loaa
  <2> QED BY <2>1
<1>4. busA' \in Seq(Int) /\ Len(busA') = 1 /\ busB' \in Seq(Int) /\ Len(busB') = 0
  BY <1>2, <1>3
<1>5. reg' = [reg EXCEPT ![ALT] = 0]
  <2>1. busA'[loadsA + 1] = 0
    BY <1>3 DEF DgfLoad
  <2> QED BY <2>1 DEF Loaa
<1>6. reg' \in [Reg -> Int] /\ reg'[ALT] = 0
  <2>1. reg \in [Reg -> Int]
    BY DEF DgfLoad
  <2>2. ALT \in Reg
    BY DEF ALT, Reg
  <2> QED BY <1>5, <2>1, <2>2
<1>7. SumReg' = ALT
  <2>1. n' - Magnitude(job'.k) = 0
    BY <1>0, <1>1 DEF From
  <2>2. (n' - Magnitude(job'.k)) % 2 = 0
    BY <2>1
  <2> QED BY <2>2 DEF SumReg
<1>8. SumSoFar(reg[SumReg])'
  <2>1. PICK f : Partial(f, job.n, job.k, job.n) /\ f[From] = 0
    BY <1>0, SumBegins DEF From
  <2> QED BY <1>1, <1>6, <1>7, <2>1 DEF SumSoFar
<1>9. \A bytes, as : bytes = 2 /\ as = 0 => DgfHolds(bytes, as)'
  <2>1. mpz_res' = reg'[SumReg']
    BY <1>6, <1>7 DEF DgfLoad
  <2> QED BY <1>1, <1>2, <1>4, <1>6, <1>8, <2>1 DEF DgfHolds
<1>10. CASE From <= job.n - 1
  <2>1. stage' = "loop" /\ step' = 1 /\ From' <= n' /\ n' < job'.n /\ n' \in Nat
    BY <1>0, <1>1, <1>10 DEF Go
  <2>2. 2 + 12 * (n' - From') + 4 * (step' - 1) = 2 /\ Terms' = 0
    BY <1>0, <1>1, <2>1 DEF Terms
  <2> QED BY <1>1, <1>9, <2>1, <2>2 DEF DgfPlace, DgfHolds
<1>11. CASE ~(From <= job.n - 1)
  <2>1. stage' = "check" /\ step' = 1 /\ n' = job'.n
    BY <1>0, <1>1, <1>11 DEF Go
  <2>2. 2 + 12 * (n' - From') = 2 /\ n' - From' = 0
    BY <1>0, <1>1
  <2> QED BY <1>1, <1>9, <2>1, <2>2 DEF DgfCheck, DgfHolds
<1> QED BY <1>10, <1>11

LEMMA NumbersOfTerm ==
  ASSUME job \in Jobs, job.gen = "dgf", n \in Nat, From <= n, n < job.n
  PROVE  mpz_num1 = Choose(n + job.n, 2 * n + 1) /\ mpz_num2 = Choose(2 * n, n + job.k)
<1>1. n + job.n \in Nat /\ 2 * n + 1 \in 0 .. n + job.n
  BY DgfJob
<1>2. 2 * n \in Nat /\ n + job.k \in 0 .. 2 * n
  BY DgfJob DEF From, Magnitude
<1> QED BY <1>1, <1>2, BinomialIsChoose DEF mpz_num1, mpz_num2

(* The two coefficients of a term come from the buses. *)
LEMMA DgfTermLoaded ==
  ASSUME job \in Jobs, job.gen = "dgf", DgfPlace, Emitting, At("loop", 1), Step,
         Loaab(X, Y, <<mpz_num1>>, <<mpz_num2>>), mpz_res' = mpz_res
  PROVE  DgfPlace'
<1>0. /\ job.n \in Nat \ {0} /\ job.k \in Int /\ From \in Nat /\ From <= job.n
      /\ n \in Nat /\ From <= n /\ n < job.n /\ step = 1
      /\ reg \in [Reg -> Int]
  BY DgfJob DEF DgfPlace, DgfHolds, At
<1>1. /\ job' = job /\ status' = "run" /\ size_commands' = DgfSize /\ DgfSize' = DgfSize
      /\ From' = From /\ n' = n /\ step' = 2 /\ stage' = "loop" /\ SumReg' = SumReg
      /\ SumReg \in {RESREG, ALT}
  BY <1>0 DEF Emitting, DgfPlace, DgfHolds, DgfSize, From, Step, SumReg
<1>2. PICK a \in Nat : a = Choose(n + job.n, 2 * n + 1) /\ a = mpz_num1
  BY <1>0, NumbersOfTerm, PartsFinite
<1>3. PICK b \in Nat : b = Choose(2 * n, n + job.k) /\ b = mpz_num2
  BY <1>0, NumbersOfTerm, PartsFinite
<1>4. Loaab(X, Y, <<a>>, <<b>>)
  BY <1>2, <1>3
<1>5. /\ busA \in Seq(Int) /\ loadsA = Len(busA) /\ loadsA = n - From + 1
      /\ busB \in Seq(Int) /\ loadsB = Len(busB) /\ loadsB = n - From
      /\ num_command = 2 + 12 * (n - From) /\ emitted = num_command /\ out = <<>>
      /\ SumSoFar(reg[SumReg]) /\ mpz_res = reg[SumReg]
  BY <1>0 DEF DgfPlace, DgfHolds, Terms
<1>6. busA' = busA \o <<a>> /\ busB' = busB \o <<b>>
  BY <1>4 DEF Loaab
<1>7. /\ busA' \in Seq(Int) /\ Len(busA') = Len(busA) + 1 /\ busA'[Len(busA) + 1] = a
  <2>1. <<a>> \in Seq(Int) /\ busA \in Seq(Int)
    BY <1>5
  <2>2. /\ busA \o <<a>> \in Seq(Int) /\ Len(busA \o <<a>>) = Len(busA) + 1
        /\ (busA \o <<a>>)[Len(busA) + 1] = a
    BY <2>1
  <2> QED BY <1>6, <2>2
<1>8. /\ busB' \in Seq(Int) /\ Len(busB') = Len(busB) + 1 /\ busB'[Len(busB) + 1] = b
  <2>1. <<b>> \in Seq(Int) /\ busB \in Seq(Int)
    BY <1>5
  <2>2. /\ busB \o <<b>> \in Seq(Int) /\ Len(busB \o <<b>>) = Len(busB) + 1
        /\ (busB \o <<b>>)[Len(busB) + 1] = b
    BY <2>1
  <2> QED BY <1>6, <2>2
<1>9. reg' = [reg EXCEPT ![X] = a, ![Y] = b]
  BY <1>4, <1>5, <1>7, <1>8 DEF Loaab
<1>10. /\ reg' \in [Reg -> Int] /\ reg'[X] = a /\ reg'[Y] = b
       /\ reg'[SumReg] = reg[SumReg]
  BY <1>0, <1>1, <1>9 DEF X, Y, RESREG, ALT, Reg
<1>11. /\ num_command' = num_command + 4 /\ emitted' = emitted + 4
       /\ loadsA' = loadsA + 1 /\ loadsB' = loadsB + 1 /\ out' = out
  BY <1>4 DEF Loaab, Put
<1>12. SumSoFar(reg[SumReg])' /\ mpz_res' = reg'[SumReg']
  BY <1>1, <1>5, <1>10 DEF SumSoFar
<1>13. /\ 2 + 12 * (n' - From') + 4 * (step' - 1) = 2 + 12 * (n - From) + 4
       /\ Terms' = n - From + 1 /\ Terms' \in Int
  BY <1>0, <1>1 DEF Terms
<1>14. /\ num_command' = 2 + 12 * (n' - From') + 4 * (step' - 1) /\ emitted' = num_command'
       /\ loadsA' = Len(busA') /\ loadsA' = Terms' + 1 /\ loadsB' = Len(busB') /\ loadsB' = Terms'
       /\ out' = <<>>
  BY <1>0, <1>5, <1>7, <1>8, <1>11, <1>13
<1>15. DgfHolds(2 + 12 * (n - From) + 4 * (step - 1), Terms)'
  BY <1>1, <1>7, <1>8, <1>10, <1>12, <1>14 DEF DgfHolds
<1>16. /\ reg'[X] = Choose(n' + job'.n, 2 * n' + 1) /\ reg'[Y] = Choose(2 * n', n' + job'.k)
  BY <1>1, <1>2, <1>3, <1>10
<1> QED BY <1>0, <1>1, <1>15, <1>16 DEF DgfPlace

LEMMA DgfProduct ==
  ASSUME job \in Jobs, job.gen = "dgf", DgfPlace, Emitting, At("loop", 2), Step,
         Mult(X, Y, Z), mpz_res' = mpz_res
  PROVE  DgfPlace'
<1>0. /\ job.n \in Nat \ {0} /\ job.k \in Int /\ From \in Nat /\ From <= job.n
      /\ n \in Nat /\ From <= n /\ n < job.n /\ step = 2 /\ {X, Y, Z} \subseteq Reg
      /\ Typed
  BY DgfJob DEF DgfPlace, DgfHolds, At, Typed, X, Y, Z, Reg
<1>1. Moved(4) /\ Sets(Z, reg[X] * reg[Y])
  BY <1>0, MultEffect
<1>2. /\ job' = job /\ status' = "run" /\ size_commands' = DgfSize /\ DgfSize' = DgfSize
      /\ From' = From /\ n' = n /\ step' = 3 /\ stage' = "loop" /\ SumReg' = SumReg
      /\ SumReg \in {RESREG, ALT} /\ Terms' = Terms
  BY <1>0 DEF Emitting, DgfPlace, DgfHolds, DgfSize, From, Step, SumReg, Terms
<1>3. /\ reg' \in [Reg -> Int] /\ reg'[X] = reg[X] /\ reg'[Y] = reg[Y]
      /\ reg'[Z] = reg[X] * reg[Y] /\ reg'[SumReg] = reg[SumReg] /\ out' = out
  BY <1>1, <1>2 DEF Sets, X, Y, Z, RESREG, ALT, Reg
<1>4. SumSoFar(reg[SumReg])' /\ mpz_res' = reg'[SumReg']
  BY <1>2, <1>3 DEF SumSoFar, DgfPlace, DgfHolds
<1>5. /\ num_command = 2 + 12 * (n - From) + 4 /\ emitted = num_command
  BY <1>0 DEF DgfPlace, DgfHolds
<1>6. num_command' = 2 + 12 * (n' - From') + 4 * (step' - 1) /\ emitted' = num_command'
  BY <1>0, <1>1, <1>2, <1>5 DEF Moved
<1>7. DgfHolds(2 + 12 * (n - From) + 4 * (step - 1), Terms)'
  BY <1>1, <1>2, <1>3, <1>4, <1>6 DEF Moved, DgfPlace, DgfHolds
<1>8. /\ reg[X] = Choose(n + job.n, 2 * n + 1) /\ reg[Y] = Choose(2 * n, n + job.k)
  BY <1>0 DEF DgfPlace
<1> QED BY <1>0, <1>2, <1>3, <1>7, <1>8 DEF DgfPlace

LEMMA SubEffect ==
  ASSUME Typed, job.gen # "random", Emitting, NEW x \in Reg, NEW y \in Reg,
         NEW z \in Reg, Sub(x, y, z)
  PROVE  Moved(4) /\ Sets(z, reg[x] - reg[y])
<1>1. reg[x] - reg[y] \in Int
  BY DEF Typed
<1> QED BY <1>1, ArithmeticEffect DEF Sub

(* The sum moves to the other register. *)
LEMMA DgfSummand ==
  ASSUME job \in Jobs, job.gen = "dgf", DgfPlace, Emitting, At("loop", 3),
         IF (n + job.k) % 2 = 1
         THEN Sub(SumReg, Z, NextSumReg) /\ mpz_res' = mpz_res - mpz_tmp
         ELSE Add(SumReg, Z, NextSumReg) /\ mpz_res' = mpz_res + mpz_tmp,
         n' = n + 1,
         Go(IF n + 1 <= job.n - 1 THEN "loop" ELSE "check", 1)
  PROVE  DgfPlace' \/ DgfCheck'
<1>0. /\ job.n \in Nat \ {0} /\ job.k \in Int /\ From \in Nat /\ From <= job.n
      /\ n \in Nat /\ From <= n /\ n < job.n /\ step = 3
      /\ {SumReg, NextSumReg, Z} \subseteq Reg /\ Typed
  BY DgfJob DEF DgfPlace, DgfHolds, At, Typed, Z, SumReg, NextSumReg, RESREG, ALT, Reg
<1>1. PICK f : Partial(f, job.n, job.k, job.n) /\ reg[SumReg] = f[n]
  BY DEF DgfPlace, DgfHolds, SumSoFar
<1>2. reg[Z] = Choose(n + job.n, 2 * n + 1) * Choose(2 * n, n + job.k)
  BY <1>0 DEF DgfPlace
<1>3. PICK v : Moved(4) /\ Sets(NextSumReg, v) /\ v = f[n + 1] /\ mpz_res' = f[n + 1]
  <2>1. PICK a \in Nat : a = Choose(n + job.n, 2 * n + 1)
    BY <1>0, PartsFinite
  <2>2. PICK b \in Nat : b = Choose(2 * n, n + job.k)
    BY <1>0, PartsFinite
  <2>3. f[n + 1] = f[n] + Sign(n + job.k) * a * b /\ f[n] \in Int
    <3>1. n \in 0 .. job.n - 1 /\ n \in 0 .. job.n
      BY <1>0
    <3> QED BY <1>1, <2>1, <2>2, <3>1 DEF Partial, DgfTerm
  <2>6. mpz_tmp = a * b /\ mpz_res = f[n]
    <3>1. mpz_num1 = a /\ mpz_num2 = b
      BY <1>0, <2>1, <2>2, NumbersOfTerm
    <3> QED BY <1>1, <3>1 DEF mpz_tmp, DgfPlace, DgfHolds
  <2>4. CASE (n + job.k) % 2 = 1
    <3>1. Moved(4) /\ Sets(NextSumReg, reg[SumReg] - reg[Z]) /\ mpz_res' = f[n] - a * b
      BY <1>0, <2>4, <2>6, SubEffect
    <3>2. Sign(n + job.k) = -1
      BY <2>4 DEF Sign
    <3>3. f[n] + (-1) * a * b = f[n] - a * b
      BY <2>3
    <3> QED BY <1>1, <1>2, <2>1, <2>2, <2>3, <3>1, <3>2, <3>3
  <2>5. CASE (n + job.k) % 2 # 1
    <3>1. Moved(4) /\ Sets(NextSumReg, reg[SumReg] + reg[Z]) /\ mpz_res' = f[n] + a * b
      BY <1>0, <2>5, <2>6, AddEffect
    <3>2. Sign(n + job.k) = 1
      BY <1>0, <2>5 DEF Sign
    <3>3. f[n] + 1 * a * b = f[n] + a * b
      BY <2>3
    <3> QED BY <1>1, <1>2, <2>1, <2>2, <2>3, <3>1, <3>2, <3>3
  <2> QED BY <2>4, <2>5
<1>4. /\ job' = job /\ status' = "run" /\ size_commands' = DgfSize /\ DgfSize' = DgfSize
      /\ From' = From /\ step' = 1
  BY DEF Emitting, DgfPlace, DgfHolds, DgfSize, From, Go
<1>5. SumReg' = NextSumReg
  BY <1>0, <1>4 DEF SumReg, NextSumReg, From, Magnitude
<1>6. /\ reg' \in [Reg -> Int] /\ reg'[NextSumReg] = f[n + 1] /\ out' = out
  BY <1>3 DEF Sets
<1>7. SumSoFar(reg[SumReg])' /\ mpz_res' = reg'[SumReg']
  BY <1>1, <1>3, <1>4, <1>5, <1>6 DEF SumSoFar
<1>8. /\ num_command = 2 + 12 * (n - From) + 8 /\ emitted = num_command
      /\ loadsA = n - From + 2 /\ loadsB = n - From + 1
  BY <1>0 DEF DgfPlace, DgfHolds, Terms
<1>9. /\ num_command' = 2 + 12 * (n' - From') /\ emitted' = num_command'
      /\ loadsA' = (n' - From') + 1 /\ loadsB' = n' - From'
  BY <1>0, <1>3, <1>4, <1>8 DEF Moved
<1>10. DgfHolds(2 + 12 * (n - From), n - From)'
  BY <1>3, <1>4, <1>6, <1>7, <1>9 DEF Moved, DgfPlace, DgfHolds
<1>11. CASE n + 1 <= job.n - 1
  <2>1. stage' = "loop" /\ From' <= n' /\ n' < job'.n /\ n' \in Nat
    BY <1>0, <1>4, <1>11 DEF Go
  <2>2. Terms' = n' - From' /\ 2 + 12 * (n' - From') + 4 * (step' - 1) = 2 + 12 * (n' - From')
    BY <1>0, <1>4 DEF Terms
  <2>3. DgfHolds(2 + 12 * (n - From) + 4 * (step - 1), Terms)'
    BY <1>10, <2>2 DEF DgfHolds
  <2> QED BY <1>4, <2>1, <2>3 DEF DgfPlace
<1>12. CASE ~(n + 1 <= job.n - 1)
  <2>1. stage' = "check" /\ n' = job'.n
    BY <1>0, <1>4, <1>12 DEF Go
  <2> QED BY <1>4, <1>10, <2>1 DEF DgfCheck
<1> QED BY <1>11, <1>12

(* What has been summed up is the discrete Green's function.               *)
LEMMA SumComplete ==
  ASSUME job \in Jobs, job.gen = "dgf", DgfCheck
  PROVE  reg[SumReg] = DgfSum(job.n, job.k) /\ reg[SumReg] = Green(job.n, job.k)
<1>1. job.n \in Nat /\ job.k \in Int /\ n = job.n
  BY DgfJob DEF DgfCheck
<1>2. PICK f : Partial(f, job.n, job.k, job.n) /\ reg[SumReg] = f[job.n]
  BY <1>1 DEF DgfCheck, DgfHolds, SumSoFar
<1>3. DgfSum(job.n, job.k) = f[job.n]
  BY <1>1, <1>2, SumIsPartial
<1> QED BY <1>1, <1>2, <1>3, DgfIsGreen

LEMMA DgfRejected ==
  ASSUME job \in Jobs, job.gen = "dgf", DgfCheck, DgfReject
  PROVE  DgfCheck'
<1>1. /\ job' = job /\ stage' = "check" /\ step' = 1 /\ n' = n /\ status' = "exit1" /\ mpz_res' = mpz_res
      /\ UNCHANGED <<size_commands, num_command, emitted, busA, busB, loadsA, loadsB, reg, out>>
  BY DEF DgfReject, DgfCheck, control, buffer, machine
<1>2. job.k < 0
  <2>1. mpz_res = Green(job.n, job.k) /\ job.n \in Nat /\ job.k \in Int
    BY DgfJob, SumComplete DEF DgfCheck, DgfHolds
  <2>2. Magnitude(mpz_res) # scalar_dgf_cflf1_std(job.n, job.k)
    BY DEF DgfReject
  <2> QED BY <2>1, <2>2 DEF Magnitude, Green, scalar_dgf_cflf1_std
<1>3. /\ DgfSize' = DgfSize /\ From' = From /\ SumReg' = SumReg
  BY <1>1 DEF DgfSize, From, SumReg
<1>4. DgfHolds(2 + 12 * (n - From), n - From)'
  BY <1>1, <1>3 DEF DgfCheck, DgfHolds, SumSoFar
<1> QED BY <1>1, <1>2, <1>4 DEF DgfCheck

LEMMA DgfUnloads ==
  ASSUME job \in Jobs, job.gen = "dgf", DgfCheck, Emitting, At("check", 1),
         Unl(SumReg), Go("close", 1), n' = n
  PROVE  DgfEnd'
<1>0. /\ job.n \in Nat \ {0} /\ From \in Nat /\ From <= job.n /\ n = job.n
      /\ DgfSize = 4 + 12 * (job.n - From) /\ SumReg \in Reg /\ Typed
  <2>1. SumReg \in Reg
    BY DEF SumReg, RESREG, ALT, Reg
  <2>2. Typed /\ n = job.n
    BY DEF DgfCheck, DgfHolds, Typed
  <2> QED BY <2>1, <2>2, DgfJob
<1>1. out = <<>>
  BY DEF DgfCheck, DgfHolds
<1>2. Moved(2) /\ out' = <<reg[SumReg]>>
  BY <1>0, <1>1, UnlEffect
<1>3. /\ num_command = 2 + 12 * (n - From) /\ emitted = num_command
      /\ size_commands = DgfSize /\ loadsA = Len(busA) /\ loadsB = Len(busB)
  BY DEF DgfCheck, DgfHolds
<1>4. num_command' = size_commands' /\ emitted' = num_command' /\ num_command' \in Int
  <2>1. PICK t \in Int : t = 12 * (job.n - From)
    BY <1>0
  <2>2. num_command = 2 + t /\ size_commands = 4 + t
    BY <1>0, <1>3, <2>1
  <2>3. /\ num_command' = num_command + 2 /\ emitted' = emitted + 2
        /\ size_commands' = size_commands /\ emitted = num_command
    BY <1>2, <1>3 DEF Moved
  <2> QED BY <2>2, <2>3
<1>5. Emitted(TRUE)'
  BY <1>2, <1>3, <1>4 DEF Emitted, Moved, Go, Emitting, At
<1>6. reg[SumReg] = DgfSum(job.n, job.k) /\ job' = job
  BY SumComplete DEF Emitting
<1> QED BY <1>2, <1>5, <1>6 DEF DgfEnd

LEMMA DgfStep ==
  ASSUME job \in Jobs, n \in Nat, job.gen = "dgf", DgfInv, [Next]_genvars
  PROVE  DgfInv'
<1>1. CASE UNCHANGED genvars
  <2>0. UNCHANGED vars /\ mpz_res' = mpz_res
    BY <1>1 DEF genvars
  <2>1. /\ DgfSize' = DgfSize /\ From' = From /\ SumReg' = SumReg /\ Terms' = Terms
    BY <2>0, NothingMoves DEF DgfSize, From, SumReg, Terms
  <2>2. \A bytes, as : DgfHolds(bytes, as)' = DgfHolds(bytes, as)
    BY <2>0, <2>1, NothingMoves DEF DgfHolds, SumSoFar
  <2>3. DgfLoad' = DgfLoad
    BY <2>0, <2>1, NothingMoves DEF DgfLoad
  <2>4. DgfPlace => DgfPlace'
    BY <2>0, <2>1, <2>2, NothingMoves DEF DgfPlace, DgfHolds, SumSoFar
  <2>5. DgfCheck => DgfCheck'
    BY <2>0, <2>1, <2>2, NothingMoves DEF DgfCheck, DgfHolds, SumSoFar
  <2>6. DgfEnd' = DgfEnd
    BY <2>0, NothingMoves DEF DgfEnd
  <2> QED BY <2>0, <2>3, <2>4, <2>5, <2>6, NothingMoves DEF DgfInv
<1>2. CASE Opening /\ UNCHANGED mpz_res
  <2>1. Begins /\ mpz_res = 0
    BY <1>2 DEF DgfInv, Opening, Open, At, DgfLoad, DgfPlace, DgfCheck, DgfEnd, Emitted
  <2> QED BY <1>2, <2>1, BeginStep DEF DgfInv
<1>3. CASE Close
  <2>1. DgfEnd
    BY <1>3 DEF DgfInv, Begins, Close, At, DgfLoad, DgfPlace, DgfCheck
  <2>2. DgfEnd'
    BY <1>3, <2>1, CloseStep DEF DgfEnd
  <2> QED BY <2>2 DEF DgfInv
<1>4. CASE Md5Sums
  <2>1. DgfEnd
    BY <1>4 DEF DgfInv, Begins, Md5Sums, At, DgfLoad, DgfPlace, DgfCheck
  <2>2. DgfEnd'
    BY <1>4, <2>1 DEF DgfEnd, Emitted, Md5Sums, At, control, buffer, machine
  <2> QED BY <2>2 DEF DgfInv
<1>5. CASE DgfStart /\ UNCHANGED mpz_res
  <2>1. Begins /\ mpz_res = 0
    BY <1>5 DEF DgfInv, DgfStart, Start, At, DgfLoad, DgfPlace, DgfCheck, DgfEnd, Emitted
  <2>2. job' = job /\ DgfSize' = DgfSize
    BY <1>5 DEF DgfStart, Start, DgfSize
  <2>3. DgfLoad'
    BY <1>5, <2>1, <2>2 DEF DgfStart, Start, At, Go, Begins, DgfLoad, buffer
  <2> QED BY <2>3 DEF DgfInv
<1>6. CASE DgfReject
  <2>1. DgfCheck
    BY <1>6 DEF DgfInv, DgfReject, Begins, At, DgfLoad, DgfPlace, DgfEnd, Emitted
  <2> QED BY <1>6, <2>1, DgfRejected DEF DgfInv
<1>7. CASE Dgf /\ ~DgfStart /\ ~DgfReject
  <2>0. Emitting
    BY <1>7 DEF Dgf
  <2>1. CASE /\ At("load", 1) /\ Loaa(ALT, <<0>>) /\ n' = Magnitude(job.k)
             /\ Go(IF Magnitude(job.k) <= job.n - 1 THEN "loop" ELSE "check", 1)
             /\ UNCHANGED mpz_res
    <3>1. DgfLoad
      BY <2>1 DEF DgfInv, Begins, At, DgfPlace, DgfCheck, DgfEnd, Emitted
    <3> QED BY <2>0, <2>1, <3>1, DgfLoadStep DEF DgfInv, From
  <2>2. CASE DgfLoop
    <3>1. DgfPlace
      BY <2>2 DEF DgfLoop, DgfInv, Begins, At, DgfLoad, DgfCheck, DgfEnd, Emitted
    <3>2. DgfPlace' \/ DgfCheck'
      BY <2>0, <2>2, <3>1, DgfTermLoaded, DgfProduct, DgfSummand DEF DgfLoop
    <3> QED BY <3>2 DEF DgfInv
  <2>3. CASE At("check", 1) /\ Unl(SumReg) /\ Go("close", 1) /\ n' = n
    <3>1. DgfCheck
      BY <2>3 DEF DgfInv, Begins, At, DgfLoad, DgfPlace, DgfEnd, Emitted
    <3> QED BY <2>0, <2>3, <3>1, DgfUnloads DEF DgfInv
  <2> QED BY <1>7, <2>1, <2>2, <2>3, Zenon DEF Dgf
<1>8. CASE Halted /\ UNCHANGED mpz_res
  BY <1>1, <1>8 DEF Halted, genvars
<1>9. CASE Dgf
  <2>1. (DgfStart /\ UNCHANGED mpz_res) \/ DgfReject \/ (Dgf /\ ~DgfStart /\ ~DgfReject)
    BY <1>9 DEF Dgf, DgfReject, DgfStart, Start, DgfLoop, At
  <2> QED BY <1>5, <1>6, <1>7, <2>1
<1>10. ~NewFactorial /\ ~OldFactorial /\ ~PowerNN /\ ~Addition /\ ~Random
  BY DEF NewFactorial, NewFactorialStart, OldFactorial, OldFactorialStart,
     PowerNN, Addition, Random, Start
<1> QED BY <1>1, <1>2, <1>3, <1>4, <1>8, <1>9, <1>10 DEF Next

-----------------------------------------------------------------------------
(* The six together. *)

(* A program that has ended takes no step, and errors come from opening    *)
(* the files and from the check of 1ddgf_data.                             *)
LEMMA ErrorsFrom ==
  ASSUME Next, status' = "exit1"
  PROVE  \/ UNCHANGED vars
         \/ stage' = "open"
         \/ DgfReject
<1>1. CASE Opening
  BY <1>1 DEF Opening, Open, At, Go, control
<1>2. CASE Close \/ Md5Sums \/ Halted
  BY <1>2 DEF Close, Md5Sums, Halted, At
<1>3. ASSUME NEW gen, NEW size, NEW as, NEW bs, Start(gen, size, as, bs)
      PROVE  FALSE
  BY <1>3 DEF Start, At
<1>4. ~Emitting \/ status # "run"
  BY DEF Emitting
<1>5. CASE NewFactorial
  BY <1>3, <1>4, <1>5 DEF NewFactorial, NewFactorialStart, NewFactorialLoads, NewFactorialLoop,
     NewFactorialRest, At
<1>6. CASE OldFactorial
  BY <1>3, <1>4, <1>6 DEF OldFactorial, OldFactorialStart, OldFactorialLoads, OldFactorialPair, At
<1>7. CASE PowerNN \/ Addition
  BY <1>3, <1>4, <1>7 DEF PowerNN, Addition, At
<1>8. CASE Random
  BY <1>3, <1>4, <1>8 DEF Random, At
<1>9. CASE Dgf
  BY <1>3, <1>4, <1>9 DEF Dgf, DgfStart, DgfLoop, At
<1> QED BY <1>1, <1>2, <1>5, <1>6, <1>7, <1>8, <1>9 DEF Next

DrawnInv == LiveInv /\ AdditionInv /\ RandomInv /\ DgfInv /\ RejectsOnlyNegative

LEMMA JobStays ==
  ASSUME [Next]_vars
  PROVE  job' = job
BY DEF Next, vars, Opening, Open, Close, Md5Sums, Halted, NewFactorial, NewFactorialStart,
   OldFactorial, OldFactorialStart, PowerNN, Addition, Random, Dgf, DgfStart, DgfReject,
   Start, Emitting

LEMMA DrawnStep ==
  ASSUME DrawnInv, [Next]_genvars
  PROVE  DrawnInv'
<1>0. [Next]_vars
  BY DEF genvars
<1>1. job' = job /\ job \in Jobs /\ n \in Nat
  BY <1>0, JobStays DEF DrawnInv, LiveInv
<1>2. LiveInv'
  BY <1>0, LiveStep DEF DrawnInv
<1>3. AdditionInv'
  <2>1. CASE job.gen = "addition"
    BY <1>0, <2>1, AdditionStep DEF DrawnInv
  <2>2. CASE job.gen # "addition"
    BY <1>1, <2>2 DEF AdditionInv
  <2> QED BY <2>1, <2>2
<1>4. RandomInv'
  <2>1. CASE job.gen = "random"
    BY <1>0, <2>1, RandomStep DEF DrawnInv
  <2>2. CASE job.gen # "random"
    BY <1>1, <2>2 DEF RandomInv
  <2> QED BY <2>1, <2>2
<1>5. DgfInv'
  <2>1. CASE job.gen = "dgf"
    BY <1>1, <2>1, DgfStep DEF DrawnInv
  <2>2. CASE job.gen # "dgf"
    BY <1>1, <2>2 DEF DgfInv
  <2> QED BY <2>1, <2>2
<1>6. RejectsOnlyNegative'
  <2> SUFFICES ASSUME status' = "exit1"
               PROVE  stage' = "open" \/ (job.gen = "dgf" /\ job.k < 0)
    BY <1>1 DEF RejectsOnlyNegative
  <2>1. CASE UNCHANGED vars
    BY <2>1, NothingMoves DEF DrawnInv, RejectsOnlyNegative
  <2>2. CASE DgfReject
    <3>1. job.gen = "dgf" /\ stage = "check"
      BY <2>2 DEF DgfReject, At
    <3>2. DgfCheck
      BY <3>1 DEF DrawnInv, DgfInv, Begins, DgfLoad, DgfPlace, DgfEnd, Emitted
    <3>3. DgfCheck'
      BY <1>1, <2>2, <3>1, <3>2, DgfRejected
    <3> QED BY <1>1, <3>1, <3>3 DEF DgfCheck
  <2> QED BY <1>0, <2>1, <2>2, ErrorsFrom
<1> QED BY <1>2, <1>3, <1>4, <1>5, <1>6 DEF DrawnInv

(* The generators that do not multiply keep their places too, whatever is  *)
(* drawn for them.                                                         *)
THEOREM DrawnKept == Spec => []DrawnInv
<1>1. Init => DrawnInv
  <2> SUFFICES ASSUME Init PROVE DrawnInv
    OBVIOUS
  <2>1. Begins /\ status = "run" /\ stage = "open"
    BY DEF Init, FilesInit, Begins, Reg
  <2>0. mpz_res = 0
    BY DEF Init
  <2>2. RandomInv
    BY DEF Init, FilesInit, RandomInv
  <2>3. LiveInv
    BY LiveBegins
  <2> QED BY <2>0, <2>1, <2>2, <2>3 DEF DrawnInv, AdditionInv, DgfInv, RejectsOnlyNegative
<1>2. DrawnInv /\ [Next]_genvars => DrawnInv'
  BY DrawnStep
<1> QED BY <1>1, <1>2, PTL DEF Spec

(* 1ddgf_data rejects no sum of its own for k >= 0: what it compares with  *)
(* is the sum, for every n.  A generator ends with an error only because a *)
(* file did not open, or k was negative.                                   *)
THEOREM OnlyNegativeRejected == Spec => []RejectsOnlyNegative
BY DrawnKept, PTL DEF DrawnInv

LEMMA Generator ==
  ASSUME DrawnInv, ~Multiplying
  PROVE  job.gen \in {"addition", "random", "dgf"} /\ job \in Jobs
BY ProgramAssumption DEF DrawnInv, LiveInv, Multiplying, Generators

(* Every program that a generator hands over computes what it is for: the  *)
(* factorial, the power, the sums, the discrete Green's function, for      *)
(* every argument and all numbers drawn.                                   *)
THEOREM ResultAlwaysRight == Spec => []ResultRight
<1>1. DrawnInv /\ ~Multiplying => ResultRight
  <2> SUFFICES ASSUME DrawnInv, ~Multiplying, status = "done" PROVE ResultRight
    BY DEF ResultRight
  <2>1. CASE job.gen = "addition"
    BY <2>1 DEF DrawnInv, AdditionInv, Begins, AdditionPlace, AdditionEnd, ResultRight
  <2>2. CASE job.gen = "random"
    BY <2>2 DEF ResultRight
  <2>3. CASE job.gen = "dgf"
    BY <2>3 DEF DrawnInv, DgfInv, Begins, DgfLoad, DgfPlace, DgfCheck, DgfEnd, ResultRight
  <2> QED BY <2>1, <2>2, <2>3, Generator
<1> QED BY <1>1, ProductsRight, DrawnKept, PTL

(* No generator ever writes behind its buffer, and what each delivers is   *)
(* the program it has emitted, no byte more or less.                       *)
THEOREM BufferAlwaysFits == Spec => []BufferFits
<1>1. DrawnInv /\ ~Multiplying => BufferFits
  <2> SUFFICES ASSUME DrawnInv, ~Multiplying PROVE BufferFits
    OBVIOUS
  <2>1. CASE job.gen = "random"
    BY <2>1 DEF DrawnInv, RandomInv, BufferFits
  <2>2. CASE Begins
    BY <2>2 DEF Begins, BufferFits
  <2>3. CASE Emitted(TRUE)
    BY <2>3 DEF Emitted, BufferFits
  <2>4. CASE job.gen = "addition" /\ AdditionPlace
    <3>1. /\ n \in 0 .. REPF - 1 /\ step \in 1 .. 3 /\ REPF \in Nat
          /\ num_command = 10 * n + 4 * (step - 1) /\ size_commands = REPF * 10
          /\ stage = "load" /\ status = "run"
      BY <2>4, ProgramAssumption DEF AdditionPlace
    <3>2. num_command <= size_commands
      BY <3>1
    <3> QED BY <3>1, <3>2 DEF BufferFits
  <2>5. CASE job.gen = "dgf" /\ (DgfLoad \/ DgfPlace \/ DgfCheck)
    <3>1. /\ job.n \in Nat /\ From \in Nat /\ From <= job.n
          /\ DgfSize = 4 + 12 * (job.n - From)
      BY <2>5, Generator, DgfJob
    <3>2. CASE DgfLoad
      BY <3>1, <3>2 DEF DgfLoad, BufferFits
    <3>3. CASE DgfPlace
      <4>1. /\ n \in Nat /\ From <= n /\ n < job.n /\ step \in 1 .. 3
            /\ num_command = 2 + 12 * (n - From) + 4 * (step - 1)
            /\ size_commands = DgfSize /\ stage = "loop" /\ status = "run"
        BY <3>3 DEF DgfPlace, DgfHolds
      <4>2. num_command <= size_commands
        BY <3>1, <4>1
      <4> QED BY <4>1, <4>2 DEF BufferFits
    <3>4. CASE DgfCheck
      <4>1. /\ num_command = 2 + 12 * (job.n - From) /\ size_commands = DgfSize
            /\ stage = "check" /\ status \in {"run", "exit1"}
        BY <3>4 DEF DgfCheck, DgfHolds
      <4>2. num_command <= size_commands
        BY <3>1, <4>1
      <4> QED BY <4>1, <4>2 DEF BufferFits
    <3> QED BY <2>5, <3>2, <3>3, <3>4
  <2>6. \/ job.gen = "random" \/ Begins \/ Emitted(TRUE)
        \/ (job.gen = "addition" /\ AdditionPlace)
        \/ (job.gen = "dgf" /\ (DgfLoad \/ DgfPlace \/ DgfCheck))
    BY Generator DEF DrawnInv, AdditionInv, AdditionEnd, DgfInv, DgfEnd
  <2> QED BY <2>1, <2>2, <2>3, <2>4, <2>5, <2>6
<1> QED BY <1>1, ProductsFit, DrawnKept, PTL

(* In every program handed over, each load finds a number on its bus and   *)
(* no number is left there.                                                *)
THEOREM BusesAlwaysUsedUp == Spec => []BusesUsedUp
<1>1. DrawnInv /\ ~Multiplying => BusesUsedUp
  <2> SUFFICES ASSUME DrawnInv, ~Multiplying, status = "done" PROVE BusesUsedUp
    BY DEF BusesUsedUp
  <2>1. CASE job.gen = "addition"
    BY <2>1 DEF DrawnInv, AdditionInv, Begins, AdditionPlace, AdditionEnd, Emitted, BusesUsedUp
  <2>2. CASE job.gen = "random"
    BY <2>2 DEF DrawnInv, RandomInv, BusesUsedUp
  <2>3. CASE job.gen = "dgf"
    BY <2>3 DEF DrawnInv, DgfInv, Begins, DgfLoad, DgfPlace, DgfCheck, DgfEnd, Emitted,
       BusesUsedUp
  <2> QED BY <2>1, <2>2, <2>3, Generator
<1> QED BY <1>1, ProductsUseBuses, DrawnKept, PTL
=============================================================================
