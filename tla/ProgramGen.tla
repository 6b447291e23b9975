----------------------------- MODULE ProgramGen -----------------------------
(***************************************************************************)
(* The programs of data_apps that write a program and its two buses:       *)
(* factorial_data (the generator in use and the older one it replaced),    *)
(* powernn_data, addition_data, random_data and 1ddgf_data.  Each is       *)
(* sequential; an action is one instruction emitted, together with the     *)
(* test that says what comes next.  Registers, order of operands and loop  *)
(* bounds are those of the code.                                           *)
(***************************************************************************)
EXTENDS ProgramFiles, FiniteSets

CONSTANTS
  Jobs,      (* what to generate: [gen, n, k]                              *)
  MaxN,      (* bound on the argument n                                    *)
  REPF,      (* sums written by addition_data                              *)
  NUMREG,    (* registers used by random_data                              *)
  Numbers,   (* bound: the random numbers written to the buses             *)
  Fact,      (* Fact[m] is what factorial_mpa computes for m               *)
  Power      (* Power[m][i] is rop of powernn_mpa(m) with i factors        *)

VARIABLE mpz_res   (* the sum that 1ddgf_data computes beside its program    *)

genvars == <<vars, mpz_res>>

Generators == {"factorial", "old_factorial", "power", "addition", "random", "dgf"}

(* The older factorial generator is not called by main; for n = 1 it would *)
(* write behind its buffer.  1ddgf_data counts from |k| to n-1.            *)
ASSUME ProgramAssumption ==
  /\ MaxN \in Nat
  /\ \A j \in Jobs : /\ j.gen \in Generators /\ j.n \in 1 .. MaxN /\ j.k \in Int
                     /\ j.gen = "old_factorial" => j.n >= 2
                     /\ j.gen = "dgf" => -j.n <= j.k /\ j.k <= j.n
  /\ REPF \in Nat \ {0}
  /\ NUMREG \in Nat /\ 3 <= NUMREG /\ NUMREG <= 16
  /\ Numbers \subseteq Nat
  /\ \A m \in 0 .. MaxN : Fact[m] \in Nat
  /\ Fact[0] = 1
  /\ \A m \in 1 .. MaxN : Fact[m] = m * Fact[m - 1]
  /\ \A m \in 1 .. MaxN : Power[m][1] = m /\ \A i \in 1 .. m : Power[m][i] \in Nat
  /\ \A m \in 1 .. MaxN : \A i \in 2 .. m : Power[m][i] = Power[m][i - 1] * m

Init == job \in Jobs /\ FilesInit /\ mpz_res = 0

(* The first step of a generator: the size of its buffer and the numbers   *)
(* that it writes to the buses before any instruction.                     *)
Start(gen, size, as, bs) ==
  /\ At("start", 1) /\ job.gen = gen
  /\ size_commands' = size
  /\ busA' = as /\ busB' = bs
  /\ Go("load", 1) /\ n' = n
  /\ UNCHANGED <<job, status, outputs, buffer, command, loadsA, loadsB, reg, live, out>>

-----------------------------------------------------------------------------
(* factorial_data.c: new_factorial_code_gen.  OUT runs through the         *)
(* products, N1/N2 and P1/P2 through the odd and the even factors.         *)

OUT == 0
TMP == 1
N1  == 2
INC == 3
N2  == 4
P1  == 5
P2  == 6

loop_iter == (job.n - 1) \div 4
remainder == (job.n - 1) % 4

(* Mutant: a number too many, as the loads of three registers would need.  *)
NewFactorialStartThree == Start("factorial", 8 + (job.n - 1) * 8 + 2, <<1, 1, 1>>, <<2, 2>>)

NewFactorialStart == Start("factorial", 8 + (job.n - 1) * 8 + 2, <<1, 1>>, <<2, 2>>)

(* Where the generator goes when no iteration is left. *)
NewFactorialTail == IF remainder = 0 THEN "close" ELSE "tail"

NewFactorialLoads ==
  \/ At("load", 1) /\ Loaab(OUT, INC, <<>>, <<>>) /\ Step
  \/ /\ At("load", 2) /\ Loaab(N1, P1, <<>>, <<>>)
     /\ n' = 1
     /\ Go(IF 1 <= loop_iter THEN "loop" ELSE NewFactorialTail, 1)

(* Mutant: the last iteration looks at remainder only.                     *)
NewFactorialLoopEager ==
  \/ At("loop", 1) /\ Mult(P1, OUT, TMP) /\ Step
  \/ At("loop", 2) /\ Add(N1, INC, N2) /\ Step
  \/ At("loop", 3) /\ Mult(N2, TMP, OUT) /\ Step
  \/ At("loop", 4) /\ Add(P1, INC, P2) /\ Step
  \/ At("loop", 5) /\ Mult(P2, OUT, TMP) /\ Step
  \/ At("loop", 6) /\ Add(N2, INC, N1) /\ Step
  \/ At("loop", 7) /\ Mult(N1, TMP, OUT) /\ Step
  \/ /\ At("loop", 8)
     /\ IF remainder = 0 THEN Unl(OUT) ELSE Add(P2, INC, P1)
     /\ n' = n + 1
     /\ Go(IF n + 1 <= loop_iter THEN "loop" ELSE NewFactorialTail, 1)

NewFactorialLoop ==
  \/ At("loop", 1) /\ Mult(P1, OUT, TMP) /\ Step
  \/ At("loop", 2) /\ Add(N1, INC, N2) /\ Step
  \/ At("loop", 3) /\ Mult(N2, TMP, OUT) /\ Step
  \/ At("loop", 4) /\ Add(P1, INC, P2) /\ Step
  \/ At("loop", 5) /\ Mult(P2, OUT, TMP) /\ Step
  \/ At("loop", 6) /\ Add(N2, INC, N1) /\ Step
  \/ At("loop", 7) /\ Mult(N1, TMP, OUT) /\ Step
  \/ /\ At("loop", 8)
     /\ IF n = loop_iter /\ remainder = 0 THEN Unl(OUT) ELSE Add(P2, INC, P1)
     /\ n' = n + 1
     /\ Go(IF n + 1 <= loop_iter THEN "loop" ELSE NewFactorialTail, 1)

(* One, two or three factors are left. *)
NewFactorialRest ==
  \/ At("tail", 1) /\ Mult(P1, OUT, TMP) /\ Step
  \/ At("tail", 2) /\ IF remainder = 1
                      THEN Unl(TMP) /\ Go("close", 1) /\ n' = n
                      ELSE Add(N1, INC, N2) /\ Step
  \/ At("tail", 3) /\ Mult(N2, TMP, OUT) /\ Step
  \/ At("tail", 4) /\ IF remainder = 2
                      THEN Unl(OUT) /\ Go("close", 1) /\ n' = n
                      ELSE Add(P1, INC, P2) /\ Step
  \/ At("tail", 5) /\ Mult(P2, OUT, TMP) /\ Step
  \/ At("tail", 6) /\ Unl(TMP) /\ Go("close", 1) /\ n' = n

NewFactorial ==
  \/ NewFactorialStart
  \/ /\ job.gen = "factorial" /\ Emitting
     /\ NewFactorialLoads \/ NewFactorialLoop \/ NewFactorialRest

-----------------------------------------------------------------------------
(* factorial_data.c: factorial_code_gen, two factors an iteration. *)

MUL == 2
RES == 4

OldFactorialStart == Start("old_factorial", 6 + (job.n - 1) * 8 + 2, <<1, 1>>, <<1>>)

(* The two factors of an iteration; also those of the odd tail. *)
OldFactorialPair(s) ==
  \/ At(s, 1) /\ Add(MUL, INC, RES) /\ Step
  \/ At(s, 2) /\ Mult(RES, OUT, TMP) /\ Step
  \/ At(s, 3) /\ Add(RES, INC, MUL) /\ Step

OldFactorialAfter(m) == Go(IF m <= job.n \div 2 THEN "loop"
                           ELSE IF job.n % 2 = 0 THEN "even" ELSE "odd", 1)

OldFactorialLoads ==
  \/ At("load", 1) /\ Loaab(OUT, MUL, <<>>, <<>>) /\ Step
  \/ At("load", 2) /\ Loaa(INC, <<>>) /\ n' = 2 /\ OldFactorialAfter(2)

OldFactorial ==
  \/ OldFactorialStart
  \/ /\ job.gen = "old_factorial" /\ Emitting
     /\ \/ OldFactorialLoads
        \/ OldFactorialPair("loop")
        \/ At("loop", 4) /\ Mult(MUL, TMP, OUT) /\ n' = n + 1 /\ OldFactorialAfter(n + 1)
        \/ At("even", 1) /\ Add(MUL, INC, RES) /\ Step
        \/ At("even", 2) /\ Mult(RES, OUT, TMP) /\ Step
        \/ At("even", 3) /\ Unl(TMP) /\ Go("close", 1) /\ n' = n
        \/ OldFactorialPair("odd")
        \/ At("odd", 4) /\ Mult(MUL, TMP, OUT) /\ Step
        \/ At("odd", 5) /\ Unl(OUT) /\ Go("close", 1) /\ n' = n

-----------------------------------------------------------------------------
(* powernn_data.c: OUT is multiplied by MULREG twice an iteration. *)

MULREG == 1
TMPREG == 2

(* Mutant: the unload of an odd argument is not counted.                   *)
PowerSizeEven == 4 + 8 * ((job.n - 1) \div 2) + (IF job.n % 2 = 0 THEN 6 ELSE 0)

PowerSize == 4 + 8 * ((job.n - 1) \div 2) + (IF job.n % 2 = 0 THEN 6 ELSE 2)

PowerAfter(m) == Go(IF m < (job.n - 1) \div 2 THEN "loop" ELSE "tail", 1)

PowerNN ==
  \/ Start("power", PowerSize, <<>>, <<>>)
  \/ /\ job.gen = "power" /\ Emitting
     /\ \/ /\ At("load", 1) /\ Loaab(OUT, MULREG, <<job.n>>, <<job.n>>)
           /\ n' = 0 /\ PowerAfter(0)
        \/ At("loop", 1) /\ Mult(OUT, MULREG, TMPREG) /\ Step
        \/ At("loop", 2) /\ Mult(TMPREG, MULREG, OUT) /\ n' = n + 1 /\ PowerAfter(n + 1)
        \/ At("tail", 1) /\ IF job.n % 2 = 0
                            THEN Mult(OUT, MULREG, TMPREG) /\ Step
                            ELSE Unl(OUT) /\ Go("close", 1) /\ n' = n
        \/ At("tail", 2) /\ Unl(TMPREG) /\ Go("close", 1) /\ n' = n

-----------------------------------------------------------------------------
(* addition_data.c: REPF sums of random numbers of growing length. *)

X == 0
Y == 1
Z == 2

Addition ==
  \/ Start("addition", REPF * 10, <<>>, <<>>)
  \/ /\ job.gen = "addition" /\ Emitting
     /\ \/ At("load", 1) /\ \E a, b \in Numbers : Loaab(X, Y, <<a>>, <<b>>)
                         /\ Step
        \/ At("load", 2) /\ Add(X, Y, Z) /\ Step
        \/ /\ At("load", 3) /\ Unl(Z)
           /\ n' = n + 1 /\ Go(IF n + 1 < REPF THEN "load" ELSE "close", 1)

-----------------------------------------------------------------------------
(* random_data.c: every register is loaded, then job.n instructions drawn. *)

Registers == 0 .. NUMREG - 1

(* Mutant: the third register is compared with the first one only.         *)
RandomOperationLoose ==
  \/ \E x \in Registers : \/ \E a \in Numbers : Loaa(x, <<a>>)
                          \/ \E b \in Numbers : Loab(x, <<b>>)
                          \/ Unl(x)
  \/ \E x \in Registers : \E y \in Registers \ {x} : \E a, b \in Numbers :
       Loaab(x, y, <<a>>, <<b>>)
  \/ \E x \in Registers : \E y \in Registers \ {x} : \E z \in Registers \ {x} :
       Mult(x, y, z) \/ Add(x, y, z) \/ Sub(x, y, z)

RandomOperation ==
  \/ \E x \in Registers : \/ \E a \in Numbers : Loaa(x, <<a>>)
                          \/ \E b \in Numbers : Loab(x, <<b>>)
                          \/ Unl(x)
  \/ \E x \in Registers : \E y \in Registers \ {x} : \E a, b \in Numbers :
       Loaab(x, y, <<a>>, <<b>>)
  \/ \E x \in Registers : \E y \in Registers \ {x} : \E z \in Registers \ {x, y} :
       Mult(x, y, z) \/ Add(x, y, z) \/ Sub(x, y, z)

Random ==
  \/ Start("random", 4, <<>>, <<>>)
  \/ /\ job.gen = "random" /\ Emitting
     /\ \/ /\ At("load", 1) /\ \E a \in Numbers : Loaa(n, <<a>>)
           /\ IF n + 1 < NUMREG THEN n' = n + 1 /\ UNCHANGED <<stage, step>>
                                ELSE n' = 0 /\ Go("main", 1)
        \/ /\ At("main", 1) /\ RandomOperation
           /\ n' = n + 1 /\ Go(IF n + 1 < job.n THEN "main" ELSE "close", 1)

-----------------------------------------------------------------------------
(* 1ddgf_data: the sum over m of (-1)^(m+k) C(m+n, 2m+1) C(2m, m+k).  The  *)
(* partial sums alternate between ALT and RESREG.                          *)

RESREG == 3
ALT    == 4

Magnitude(v) == IF v < 0 THEN -v ELSE v

CeilDiv(v, d) == -((-v) \div d)

(* binomial_mpa: the quotient is rounded up, the rest is not positive.     *)
Binomial(m, j) ==
  LET last == IF j > m - j THEN m - j ELSE j
      c[i \in 0 .. last] ==
        IF i = 0 THEN 1
        ELSE LET q == CeilDiv(c[i - 1], i)
                 r == c[i - 1] - q * i
             IN  q * (m - i + 1) + CeilDiv(r * (m - i + 1), i)
  IN  c[last]

(* Mutant: the parity of the first argument only.                          *)
scalar_dgf_cflf1_parity(m, j) == IF j < 0 \/ m <= j THEN 0 ELSE m % 2

(* Both arguments are unsigned here: a negative k is larger than any n.    *)
scalar_dgf_cflf1_std(m, j) == IF j < 0 \/ m <= j THEN 0 ELSE (m + j) % 2

DgfSize == ((job.n - 1) - Magnitude(job.k) + 1) * 12 + 4

DgfStart == Start("dgf", DgfSize, <<>>, <<>>)

(* out2res of the code: the sum is in ALT after an even number of terms.   *)
SumReg     == IF (n - Magnitude(job.k)) % 2 = 0 THEN ALT ELSE RESREG
NextSumReg == IF (n - Magnitude(job.k)) % 2 = 0 THEN RESREG ELSE ALT

(* The two numbers of a term, which go to the buses, and their product.    *)
mpz_num1 == Binomial(n + job.n, 2 * n + 1)
mpz_num2 == Binomial(2 * n, n + job.k)
mpz_tmp  == mpz_num1 * mpz_num2

DgfLoop ==
  \/ At("loop", 1) /\ Loaab(X, Y, <<mpz_num1>>, <<mpz_num2>>) /\ Step /\ UNCHANGED mpz_res
  \/ At("loop", 2) /\ Mult(X, Y, Z) /\ Step /\ UNCHANGED mpz_res
  \/ /\ At("loop", 3)
     /\ IF (n + job.k) % 2 = 1
        THEN Sub(SumReg, Z, NextSumReg) /\ mpz_res' = mpz_res - mpz_tmp
        ELSE Add(SumReg, Z, NextSumReg) /\ mpz_res' = mpz_res + mpz_tmp
     /\ n' = n + 1
     /\ Go(IF n + 1 <= job.n - 1 THEN "loop" ELSE "check", 1)

(* What is checked is the sum that the generator has computed itself, by   *)
(* its magnitude (mpz_get_ui).                                             *)
DgfReject ==
  /\ At("check", 1) /\ job.gen = "dgf"
  /\ Magnitude(mpz_res) # scalar_dgf_cflf1_std(job.n, job.k)
  /\ status' = "exit1"
  /\ UNCHANGED <<job, control, outputs, size_commands, buffer, machine, mpz_res>>

Dgf ==
  \/ DgfStart /\ UNCHANGED mpz_res
  \/ DgfReject
  \/ /\ job.gen = "dgf" /\ Emitting
     /\ \/ /\ At("load", 1) /\ Loaa(ALT, <<0>>)
           /\ n' = Magnitude(job.k)
           /\ Go(IF Magnitude(job.k) <= job.n - 1 THEN "loop" ELSE "check", 1)
           /\ UNCHANGED mpz_res
        \/ DgfLoop
        \/ /\ At("check", 1)
           /\ Magnitude(mpz_res) = scalar_dgf_cflf1_std(job.n, job.k)
           /\ Unl(SumReg) /\ Go("close", 1) /\ n' = n
           /\ UNCHANGED mpz_res

-----------------------------------------------------------------------------
Opening == Open({}) \/ \E f \in Files \cup {"md5sums.txt"} : Open({f})

Halted == status # "run" /\ UNCHANGED vars

Next ==
  \/ /\ \/ Opening \/ Close \/ Md5Sums \/ Halted
        \/ NewFactorial \/ OldFactorial \/ PowerNN \/ Addition \/ Random
     /\ UNCHANGED mpz_res
  \/ Dgf

Spec == Init /\ [][Next]_genvars

-----------------------------------------------------------------------------
(* Types. *)
TypeOK ==
  /\ job \in Jobs
  /\ status \in {"run", "done", "exit1", "exit255", "crash"} /\ mpz_res \in Int
  /\ step \in 1 .. 8 /\ n \in Nat
  /\ stream \in [Files -> {"none", "open", "closed"}]
  /\ sums \in {"none", "open", "closed"}
  /\ digest \in [Files -> {"none", "whole", "part"}]
  /\ {size_commands, num_command, emitted, delivered, loadsA, loadsB} \subseteq Nat
  /\ reg \in [Reg -> Int] /\ live \subseteq Reg

(* The value that 1ddgf_data asks for, by its definition. *)
Choose(m, j) == Cardinality({S \in SUBSET (1 .. m) : Cardinality(S) = j})

DgfSum(m, k) ==
  LET sum[i \in 0 .. m] ==
        IF i = 0 THEN 0
        ELSE sum[i-1] + (IF i - 1 < Magnitude(k) THEN 0
                         ELSE (IF (i - 1 + k) % 2 = 0 THEN 1 ELSE -1)
                              * Choose(i - 1 + m, 2 * i - 1)
                              * Choose(2 * (i - 1), i - 1 + k))
  IN  sum[m]

(* The program that a generator delivers computes what the generator is    *)
(* for, and unloads it once: the factorial, the power, the sums, the value *)
(* of the discrete Green's function.  (factorial_data 1 unloads nothing.)  *)
ResultRight ==
  status = "done" =>
    /\ job.gen = "factorial" /\ job.n >= 2 => out = <<Fact[job.n]>>
    /\ job.gen = "old_factorial" => out = <<Fact[job.n]>>
    /\ job.gen = "power" => out = <<Power[job.n][job.n]>>
    /\ job.gen = "addition" => out = [i \in 1 .. REPF |-> busA[i] + busB[i]]
    /\ job.gen = "dgf" => out = <<DgfSum(job.n, job.k)>>

(* The buffer is never written behind its end, and prog.bin holds the      *)
(* bytes of the program and no others: size_commands is computed from the  *)
(* argument before anything is emitted, and some generators write that     *)
(* many bytes whatever they have put into the buffer.                      *)
BufferFits ==
  /\ num_command <= (IF stage \in {"open", "start"} THEN 0 ELSE size_commands)
  /\ status = "done" => delivered = emitted

Sources == IF command[1] \in {"mult", "add", "sub"} THEN {command[2], command[3]}
           ELSE IF command[1] = "unl" THEN {command[2]} ELSE {}

(* No instruction reads a register that the program has not written, and   *)
(* none writes a register that it reads (which cpu_busybox.vhd frees too   *)
(* early), nor one register from both buses.                               *)
OperandsReady ==
  /\ Sources \subseteq live
  /\ command[1] \in {"mult", "add", "sub"} => command[4] \notin Sources
  /\ command[1] = "loaab" => command[2] # command[3]

(* Every number on a bus is taken by a load, and every load finds one: the *)
(* coprocessor stops with a load that waits for ever, or leaves the next   *)
(* program a number that is not its own.                                   *)
BusesUsedUp == status = "done" => loadsA = Len(busA) /\ loadsB = Len(busB)

(* What stands beside the name of a file in md5sums.txt is the digest of   *)
(* that file, as the program leaves it.  (Not so in powernn_data.c.)       *)
DigestsOfFiles == \A f \in Files : digest[f] # "part"

(* The check of 1ddgf_data rejects no sum for k >= 0: it ends with an      *)
(* error only if a file could not be opened or k is negative.              *)
RejectsOnlyNegative ==
  status = "exit1" => stage = "open" \/ (job.gen = "dgf" /\ job.k < 0)

(* The check of 1ddgf_data ("check if the result is correct") rejects no   *)
(* sum that is right.  (Not so for a negative k.)                          *)
RejectsOnlyWrong ==
  status = "exit1" /\ stage = "check" => mpz_res # DgfSum(job.n, job.k)

=============================================================================
