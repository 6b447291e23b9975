----------------------------- MODULE CpuMapper -----------------------------
(***************************************************************************)
(* The renaming of registers, cpu_mapper and its parts, a clock per step:  *)
(* which physical register stands behind each register of a program and    *)
(* behind the shadow register, kept as a number and once more as a one-hot *)
(* vector (here the set of its bits).                                      *)
(*                                                                         *)
(* Around it are the command register of cpu_prefetch, the decision to     *)
(* take an instruction, r_swap_pre of cpu_executer, and the adder, which   *)
(* writes the limbs of a difference and asks for a swap by a limb of ones  *)
(* (adder_carry_add_sub, all_ones).                                        *)
(*                                                                         *)
(* phys is what Emulator!phys is, the map as the host is told: exchanged   *)
(* for an instruction whose main result is negative.                       *)
(***************************************************************************)
EXTENDS CpuInstructions, Naturals, Sequences

CONSTANTS Differences,  \* results of a subtraction: which limbs are all ones;
                        \* the last limb is, if and only if it is negative
          Sums,         \* the same for results of an addition
          Ripe,         \* clocks from the command to its being taken, at least
          Latency,      \* clocks from there to the first limb, at least
          Settle        \* clocks from the last limb until the registers are
                        \* free and the next user of them is taken, at least

Kind == {"ones", "other"}

Negative(limbs) == limbs[Len(limbs)] = "ones"

ASSUME MapperAssumption ==
  /\ Differences \subseteq Seq(Kind) \ {<<>>}
  /\ Sums \subseteq Seq(Kind) \ {<<>>}
  /\ \A limbs \in Sums : ~ Negative(limbs)
  /\ Ripe \in Nat /\ Latency \in Nat /\ Settle \in Nat
  /\ \A i \in Program : i.op \in {"add", "mult"} => i.d \notin {i.r1, i.r2}

VARIABLES
  pre,      \* cpu_prefetch: the command and what is decoded of it
  age,      \* clocks the command has stood, up to Ripe
  taken,    \* pi_cmd_taken
  swapPre,  \* r_swap_pre of cpu_executer
  reg,      \* cpu_mapper_reg of every register
  mux,      \* registered outputs of the multiplexers, and the or gates
  swapper,  \* cpu_mapper_swapper
  a2m,      \* cpu_mapper_swapper_a2m: what a main register would get
  m2a,      \* cpu_mapper_swapper_m2a: what the shadow register would get
  adder,    \* the addition at work
  phys      \* the map as the emulator has it

vars == <<pre, age, taken, swapPre, reg, mux, swapper, a2m, m2a, adder, phys>>

Idle == [at |-> "idle", d |-> Shadow, sub |-> FALSE, limbs |-> <<>>, wait |-> 0]

Nop == [op |-> "nop", r1 |-> Shadow, r2 |-> Shadow, d |-> Shadow]

Exchange(f, r) == [f EXCEPT ![r] = f[Shadow], ![Shadow] = f[r]]

Init ==
  /\ pre = [cmd |-> Nop, dest |-> {}, used |-> {}, aux |-> FALSE, on |-> {}]
  /\ age = 0 /\ taken = FALSE /\ swapPre = FALSE
  /\ reg = [r \in AllReg |-> [num |-> r, oh |-> {r}, out |-> {}]]
  /\ mux = [r1 |-> Shadow, r2 |-> Shadow, d |-> Shadow, dOh |-> {},
            all |-> <<{}, {}>>]
  /\ swapper = [dest |-> {}, main |-> {}, shadow |-> FALSE]
  /\ a2m = [num |-> Shadow, oh |-> {}]
  /\ m2a = [num |-> Shadow, oh |-> {}]
  /\ adder = Idle
  /\ phys = [r \in AllReg |-> r]

-----------------------------------------------------------------------------
(* cpu_prefetch, the decision of cpu_blocker to take the command, and      *)
(* r_swap_pre.  The next command comes two clocks after the last was taken *)
(* or later, and the last stands until then.                               *)

Spent == Ripe + 1

Held == IF adder.at = "idle" THEN {} ELSE {adder.d, Shadow}

Decode(cmd) == pre' = [cmd  |-> cmd,
                       dest |-> {pre.cmd.d},
                       used |-> Uses(pre.cmd) \ {Shadow},
                       aux  |-> pre.cmd.op = "add",
                       on   |-> pre.used]

Stand == /\ Decode(pre.cmd)
         /\ age' = IF age < Ripe /\ pre.cmd # Nop THEN age + 1 ELSE age
         /\ taken' = FALSE

Take == /\ age = Ripe /\ pre.cmd # Nop
        /\ Uses(pre.cmd) \cap Held = {}
        /\ Decode(pre.cmd)
        /\ age' = Spent
        /\ taken' = TRUE

Fetch == /\ pre.cmd = Nop \/ (age = Spent /\ ~ taken)
         /\ \E i \in Program : Decode(i)
         /\ age' = 0
         /\ taken' = FALSE

Command == Stand \/ Take \/ Fetch

-----------------------------------------------------------------------------
(* The adder.  The signs of the operands decide whether it subtracts (they *)
(* differ for add, agree for sub): only then r_swap_pre is raised.         *)

Start == /\ taken /\ pre.cmd.op = "add"
         /\ \E sub \in BOOLEAN : \E limbs \in IF sub THEN Differences ELSE Sums :
              /\ adder' = [at |-> "wait", d |-> pre.cmd.d, sub |-> sub,
                           limbs |-> limbs, wait |-> Latency]
              /\ swapPre' = sub
              /\ phys' = IF sub /\ Negative(limbs) THEN Exchange(phys, pre.cmd.d)
                         ELSE phys

\* A clock before the first limb, or after the last one.
Wait == /\ adder.at \in {"wait", "settle"}
        /\ \/ adder.wait > 0 /\ adder' = [adder EXCEPT !.wait = @ - 1]
           \/ adder.wait = 0 /\ adder' = adder
           \/ adder.wait = 0 /\ adder.at = "wait"
              /\ adder' = [adder EXCEPT !.at = "limb"]
           \/ adder.wait = 0 /\ adder.at = "settle" /\ adder' = Idle

Limb == /\ adder.at = "limb"
        /\ adder' = IF Len(adder.limbs) > 1
                    THEN [adder EXCEPT !.limbs = Tail(@)]
                    ELSE [adder EXCEPT !.at = "settle", !.wait = Settle]

Rest == adder.at = "idle" /\ adder' = adder

Adder == \/ Start
         \/ /\ ~ (taken /\ pre.cmd.op = "add")
            /\ Wait \/ Limb \/ Rest
            /\ swapPre' = FALSE /\ phys' = phys

-----------------------------------------------------------------------------
(* cpu_mapper.  There is one shadow register (C_NUM_OF_SHADOW_REGISTERS),  *)
(* so r_aux_reg_index and the routes of the swapper never change.          *)

\* Mutant: pi_swap_post_en is not looked at.
SwapPostAny == adder.at = "limb"

\* pi_swap_post and pi_swap_post_en: any limb of ones.
SwapPost == adder.at = "limb" /\ Head(adder.limbs) = "ones"

\* Mutant: the destination is not latched but follows the command.
SwapperUnlatched == swapper' = [dest   |-> pre.dest,
                                main   |-> IF SwapPost THEN swapper.dest ELSE {},
                                shadow |-> SwapPost]

Swapper == swapper' = [dest   |-> IF swapPre THEN pre.dest ELSE swapper.dest,
                       main   |-> IF SwapPost THEN swapper.dest ELSE {},
                       shadow |-> SwapPost]

\* Mutant: the shadow register is not exchanged.
RegAfterOneSided(r) ==
  LET load == r \in swapper.main
      on   == IF r = Shadow THEN pre.aux ELSE r \in pre.on
      oh   == IF load THEN a2m.oh ELSE reg[r].oh
  IN  [num |-> IF load THEN a2m.num ELSE reg[r].num,
       oh  |-> oh,
       out |-> IF on THEN oh ELSE {}]

\* cpu_mapper_reg; the vector is put out only for registers in use.
RegAfter(r) ==
  LET load == IF r = Shadow THEN swapper.shadow ELSE r \in swapper.main
      on   == IF r = Shadow THEN pre.aux ELSE r \in pre.on
      new  == IF r = Shadow THEN m2a ELSE a2m
      oh   == IF load THEN new.oh ELSE reg[r].oh
  IN  [num |-> IF load THEN new.num ELSE reg[r].num,
       oh  |-> oh,
       out |-> IF on THEN oh ELSE {}]

\* Mutant: the vector for the shadow register is not latched.
OffersUnlatched ==
  /\ a2m' = [num |-> reg[Shadow].num, oh |-> reg[Shadow].out]
  /\ m2a' = [num |-> IF swapPre THEN mux.d ELSE m2a.num, oh |-> mux.dOh]

Offers ==
  /\ a2m' = [num |-> reg[Shadow].num, oh |-> reg[Shadow].out]
  /\ m2a' = IF swapPre THEN [num |-> mux.d, oh |-> mux.dOh] ELSE m2a

Outputs ==
  mux' = [r1  |-> reg[pre.cmd.r1].num, r2 |-> reg[pre.cmd.r2].num,
          d   |-> reg[pre.cmd.d].num, dOh |-> reg[pre.cmd.d].out,
          all |-> <<UNION {reg[r].out : r \in AllReg}, mux.all[1]>>]

Mapper == /\ Swapper /\ Offers /\ Outputs
          /\ reg' = [r \in AllReg |-> RegAfter(r)]

Clock == Command /\ Adder /\ Mapper

Spec == Init /\ [][Clock]_vars

-----------------------------------------------------------------------------
TypeOK ==
  /\ pre.cmd \in Program \cup {Nop}
  /\ age \in 0 .. Spent /\ taken \in BOOLEAN /\ swapPre \in BOOLEAN
  /\ reg \in [AllReg -> [num : AllReg, oh : SUBSET AllReg, out : SUBSET AllReg]]
  /\ swapper \in [dest : SUBSET Register, main : SUBSET Register, shadow : BOOLEAN]
  /\ a2m \in [num : AllReg, oh : SUBSET AllReg]
  /\ m2a \in [num : AllReg, oh : SUBSET AllReg]
  /\ phys \in [AllReg -> AllReg]

(* At no time two registers of a program, or one and the shadow register,  *)
(* are the same physical register: a swap, which is prepared by one event, *)
(* latched from registered multiplexers and performed by another, loses no *)
(* register.                                                               *)
MapsApart == \A r, s \in AllReg : reg[r].num = reg[s].num => r = s

(* When a command is taken, the physical registers of its operands and its *)
(* destination, both in the map and as they leave the multiplexers, are    *)
(* those of the emulator: what error_checker.vhd checks of the first two.  *)
NumbersAgree ==
  taken => LET i == pre.cmd
           IN  /\ \A r \in Uses(i) : reg[r].num = phys[r]
               /\ mux.r1 = phys[i.r1]
               /\ i.r2 \in Uses(i) => mux.r2 = phys[i.r2]
               /\ i.d \in Uses(i) => mux.d = phys[i.d]

(* The one-hot vectors may lose their register (see ClaimsAll), but never  *)
(* name another one: what the account of busy registers is given for a     *)
(* command belongs to that command.                                        *)
ClaimsNoOther ==
  /\ \A r \in AllReg : reg[r].oh \subseteq {reg[r].num}
  /\ taken => mux.all[2] \subseteq {phys[r] : r \in Uses(pre.cmd)}

(* The map changes only by exchanging the destination of a subtraction     *)
(* that was negative with the shadow register, and does so while the adder *)
(* still holds both.                                                       *)
Map == [r \in AllReg |-> reg[r].num]

ExchangesHeld == [][Map' # Map =>
                      /\ adder.at \in {"limb", "settle"}
                      /\ Map' = Exchange(Map, adder.d)
                      /\ Map' = phys]_vars

(* "PHYSICAL REGISTER ONE HOT OUT" (cpu_mapper.vhd:266): the account of    *)
(* busy registers is given all registers of the command that is taken.     *)
ClaimsAll == taken => mux.all[2] = {phys[r] : r \in Uses(pre.cmd)}
=============================================================================
