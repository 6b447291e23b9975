-------------------------- MODULE CpuMapperProofs --------------------------
(***************************************************************************)
(* For any registers, instructions and times: as long as limbs of ones     *)
(* occur in negative results only, and there in the last limb or the last  *)
(* two, the swaps of cpu_mapper are exchanges of two registers that the    *)
(* adder holds, lose no register, and give every instruction the physical  *)
(* registers that the emulator has.                                        *)
(***************************************************************************)
EXTENDS CpuMapper, SequenceTheorems, TLAPS

OnesLast(limbs) == \A i \in 1 .. Len(limbs) :
                     limbs[i] = "ones" => Negative(limbs) /\ i + 1 >= Len(limbs)

-----------------------------------------------------------------------------
(* The inductive invariant.                                                *)

\* The command, and that what is taken has no register of the adder.
CommandOK ==
  /\ pre.cmd \in Program \cup {Nop}
  /\ taken => /\ age = Spent
              /\ pre.cmd \in Program
              /\ Uses(pre.cmd) \cap Held = {}
              /\ mux.r1 = Map[pre.cmd.r1]
              /\ pre.cmd.r2 \in Uses(pre.cmd) => mux.r2 = Map[pre.cmd.r2]
              /\ pre.cmd.d \in Uses(pre.cmd) => mux.d = Map[pre.cmd.d]

\* No physical register is lost in what the emulator has.
PhysOK == /\ phys \in [AllReg -> AllReg]
          /\ \A r, s \in AllReg : phys[r] = phys[s] => r = s

\* What is to be known of the results, for those still to come.
LimbsOK == /\ adder.d \in Register
           /\ adder.limbs # <<>>
           /\ OnesLast(adder.limbs)
           /\ Negative(adder.limbs) => adder.sub

\* The map as it will be after the addition.
Settled == IF Negative(adder.limbs) THEN Exchange(Map, adder.d) ELSE Map

Latched == swapper.dest = {adder.d} /\ m2a.num = Map[adder.d]

Latching == pre.dest = {adder.d} /\ mux.d = Map[adder.d]

\* Where the loads of a swap come from and go to.
LoadsOK == swapper.main = IF swapper.shadow THEN {adder.d} ELSE {}

IdleOK == adder.at = "idle" => /\ ~ swapper.shadow /\ ~ swapPre
                               /\ phys = Map

WaitOK == adder.at = "wait" => /\ LimbsOK
                               /\ ~ swapper.shadow
                               /\ phys = Settled
                               /\ a2m.num = Map[Shadow]
                               /\ adder.sub => IF swapPre THEN Latching ELSE Latched

LimbOK == adder.at = "limb" => /\ LimbsOK
                               /\ ~ swapPre
                               /\ phys = Settled
                               /\ a2m.num = Map[Shadow]
                               /\ adder.sub => Latched
                               /\ swapper.shadow => Negative(adder.limbs) /\ Len(adder.limbs) = 1

SettleOK == adder.at = "settle" =>
              /\ adder.d \in Register
              /\ ~ swapPre
              /\ IF swapper.shadow
                 THEN /\ phys = [Map EXCEPT ![adder.d] = a2m.num,
                                            ![Shadow] = m2a.num]
                      /\ phys = Map \/ phys = Exchange(Map, adder.d)
                 ELSE phys = Map

AdderOK == adder \in [at : {"idle", "wait", "limb", "settle"}, d : AllReg,
                      sub : BOOLEAN, limbs : Seq(Kind), wait : Nat]

IInv == /\ AdderOK
        /\ CommandOK /\ PhysOK /\ LoadsOK
        /\ IdleOK /\ WaitOK /\ LimbOK /\ SettleOK

-----------------------------------------------------------------------------
(* Exchanges, results limb by limb, and what a clock does to the map.      *)

LEMMA ExchangeTwice ==
  ASSUME NEW f, f = [s \in AllReg |-> f[s]], NEW r \in Register
  PROVE  /\ Exchange(Exchange(f, r), r) = f
         /\ \A s \in AllReg \ {r, Shadow} : Exchange(f, r)[s] = f[s]
BY ProgramAssumption DEF Exchange, AllReg

LEMMA ExchangeKeepsApart ==
  ASSUME NEW f \in [AllReg -> AllReg], NEW r \in Register,
         \A s, t \in AllReg : f[s] = f[t] => s = t
  PROVE  /\ Exchange(f, r) \in [AllReg -> AllReg]
         /\ \A s, t \in AllReg : Exchange(f, r)[s] = Exchange(f, r)[t] => s = t
BY ProgramAssumption DEF Exchange, AllReg

LEMMA LimbsHaveLast ==
  ASSUME NEW l \in Seq(Kind) \ {<<>>}
  PROVE  Len(l) \in Nat \ {0}
BY EmptySeq

LEMMA HeadIsFirst ==
  ASSUME NEW l \in Seq(Kind) \ {<<>>}
  PROVE  Head(l) = l[1]
<1>1. Len(l) \in Nat \ {0}
  BY LimbsHaveLast
<1>2. 1 \in 1 .. Len(l) /\ Len(l) \in 1 .. Len(l)
  BY <1>1
<1>3. SubSeq(l, 1, Len(l)) = l
  BY SubSeqFull
<1>4. Head(SubSeq(l, 1, Len(l))) = l[1]
  BY <1>2, HeadTailOfSubSeq
<1> QED BY <1>3, <1>4

\* What is left of a result after a limb.
LEMMA LimbByLimb ==
  ASSUME NEW l \in Seq(Kind) \ {<<>>}, Len(l) > 1, OnesLast(l)
  PROVE  /\ Tail(l) \in Seq(Kind) \ {<<>>}
         /\ Len(Tail(l)) = Len(l) - 1
         /\ Negative(Tail(l)) <=> Negative(l)
         /\ OnesLast(Tail(l))
<1>1. /\ Tail(l) \in Seq(Kind) /\ Len(Tail(l)) = Len(l) - 1
      /\ \A i \in 1 .. Len(Tail(l)) : Tail(l)[i] = l[i + 1]
  BY HeadTailProperties
<1>2. Len(l) \in Nat
  BY LimbsHaveLast
<1>3. Tail(l) # <<>>
  <2>1. Len(<<>>) = 0
    BY EmptySeq
  <2>2. Len(Tail(l)) # 0
    BY <1>1, <1>2
  <2> QED BY <2>1, <2>2
<1>4. Negative(Tail(l)) <=> Negative(l)
  BY <1>1, <1>2 DEF Negative
<1>5. ASSUME NEW i \in 1 .. Len(Tail(l)), Tail(l)[i] = "ones"
      PROVE  Negative(Tail(l)) /\ i + 1 >= Len(Tail(l))
  <2>1. l[i + 1] = "ones" /\ i + 1 \in 1 .. Len(l)
    BY <1>1, <1>2, <1>5
  <2>2. (i + 1) + 1 >= Len(l)
    BY <2>1 DEF OnesLast
  <2>3. i + 1 >= Len(Tail(l))
    BY <1>1, <1>2, <2>2
  <2>4. Negative(Tail(l))
    BY <1>4, <2>1 DEF OnesLast
  <2> QED BY <2>3, <2>4
<1>6. OnesLast(Tail(l))
  BY <1>5 DEF OnesLast
<1> QED BY <1>1, <1>3, <1>4, <1>6

\* A limb of ones is that of a negative result, the last or the last but one.
LEMMA LimbOfOnes ==
  ASSUME NEW l \in Seq(Kind) \ {<<>>}, OnesLast(l), Head(l) = "ones"
  PROVE  Negative(l) /\ Len(l) \in {1, 2}
<1>1. Len(l) \in Nat \ {0}
  BY LimbsHaveLast
<1>2. Head(l) = l[1]
  BY <1>1, HeadIsFirst
<1>3. 1 \in 1 .. Len(l) /\ l[1] = "ones"
  BY <1>1, <1>2
<1>4. Negative(l)
  BY <1>3 DEF OnesLast
<1>5. 1 + 1 >= Len(l)
  BY <1>3 DEF OnesLast
<1>6. Len(l) = 1 \/ Len(l) = 2
  <2> DEFINE n == Len(l)
  <2>1. n \in Nat /\ n # 0 /\ 2 >= n
    BY <1>1, <1>5
  <2> HIDE DEF n
  <2>2. n = 1 \/ n = 2
    BY <2>1
  <2> QED BY <2>2 DEF n
<1> QED BY <1>4, <1>6

LEMMA LastLimb ==
  ASSUME NEW l \in Seq(Kind) \ {<<>>}, Len(l) = 1
  PROVE  (Head(l) = "ones") <=> Negative(l)
<1>1. Head(l) = l[1]
  BY HeadIsFirst
<1> QED BY <1>1 DEF Negative

LEMMA MapIsFunction ==
  ASSUME NEW r \in AllReg
  PROVE  Map[r] = reg[r].num
BY DEF Map

\* The map after a clock, from what cpu_mapper_reg loads.
LEMMA MapAfter ==
  ASSUME Mapper
  PROVE  Map' = [r \in AllReg |->
                   IF r = Shadow
                   THEN IF swapper.shadow THEN m2a.num ELSE Map[r]
                   ELSE IF r \in swapper.main THEN a2m.num ELSE Map[r]]
<1>1. reg' = [r \in AllReg |-> RegAfter(r)]
  BY DEF Mapper
<1>2. \A r \in AllReg : reg'[r].num = RegAfter(r).num
  BY <1>1
<1>3. \A r \in AllReg :
         RegAfter(r).num = IF r = Shadow
                           THEN IF swapper.shadow THEN m2a.num ELSE Map[r]
                           ELSE IF r \in swapper.main THEN a2m.num ELSE Map[r]
  BY DEF RegAfter, Map
<1>4. Map' = [r \in AllReg |-> reg'[r].num]
  BY DEF Map
<1> QED BY <1>2, <1>3, <1>4

LEMMA MapRests ==
  ASSUME Mapper, LoadsOK, ~ swapper.shadow
  PROVE  Map' = Map
<1>1. swapper.main = {}
  BY DEF LoadsOK
<1>2. Map = [r \in AllReg |-> Map[r]]
  BY DEF Map
<1> QED BY <1>1, <1>2, MapAfter

LEMMA MapLoads ==
  ASSUME Mapper, LoadsOK, swapper.shadow, adder.d \in Register
  PROVE  Map' = [Map EXCEPT ![adder.d] = a2m.num, ![Shadow] = m2a.num]
<1>1. swapper.main = {adder.d}
  BY DEF LoadsOK
<1>2. DOMAIN Map = AllReg /\ Map = [r \in AllReg |-> Map[r]]
  BY DEF Map
<1>3. adder.d # Shadow /\ adder.d \in AllReg /\ Shadow \in AllReg
  BY ProgramAssumption DEF AllReg
<1> QED BY <1>1, <1>2, <1>3, MapAfter

LEMMA MapIsTable == Map = [r \in AllReg |-> Map[r]]
BY DEF Map

\* A load gives the map that the emulator has.
LEMMA LoadsGivePhys ==
  ASSUME IInv, Mapper, swapper.shadow
  PROVE  /\ adder.at \in {"limb", "settle"} /\ adder.d \in Register
         /\ Map' = phys
         /\ phys = Map \/ phys = Exchange(Map, adder.d)
<1>1. adder.at \in {"limb", "settle"}
  BY DEF IInv, AdderOK, IdleOK, WaitOK
<1>2. LoadsOK
  BY DEF IInv
<1>3. CASE adder.at = "limb"
  <2>1. LimbsOK /\ phys = Settled /\ a2m.num = Map[Shadow]
    BY <1>3 DEF IInv, LimbOK
  <2>2. Negative(adder.limbs) /\ adder.sub
    BY <1>3, <2>1 DEF IInv, LimbOK, LimbsOK
  <2>3. m2a.num = Map[adder.d] /\ adder.d \in Register
    BY <1>3, <2>1, <2>2 DEF IInv, LimbOK, LimbsOK, Latched
  <2>4. Map' = Exchange(Map, adder.d)
    BY <1>2, <2>1, <2>3, MapLoads DEF Exchange
  <2> QED BY <1>1, <2>1, <2>2, <2>3, <2>4 DEF Settled
<1>4. CASE adder.at = "settle"
  <2>1. /\ adder.d \in Register
        /\ phys = [Map EXCEPT ![adder.d] = a2m.num, ![Shadow] = m2a.num]
        /\ phys = Map \/ phys = Exchange(Map, adder.d)
    BY <1>4 DEF IInv, SettleOK
  <2> QED BY <1>1, <1>2, <2>1, MapLoads
<1> QED BY <1>1, <1>3, <1>4

\* Before an addition is over, the emulator may be one exchange ahead.
LEMMA PhysNearMap ==
  ASSUME IInv
  PROVE  \/ phys = Map
         \/ /\ adder.at # "idle" /\ adder.d \in Register
            /\ phys = Exchange(Map, adder.d)
<1>1. CASE adder.at = "idle"
  BY <1>1 DEF IInv, IdleOK
<1>2. CASE adder.at = "wait"
  BY <1>2 DEF IInv, WaitOK, Settled, LimbsOK
<1>3. CASE adder.at = "limb"
  BY <1>3 DEF IInv, LimbOK, Settled, LimbsOK
<1>4. CASE adder.at = "settle"
  BY <1>4 DEF IInv, SettleOK
<1> QED BY <1>1, <1>2, <1>3, <1>4 DEF IInv, AdderOK

LEMMA FreeAgree ==
  ASSUME IInv, NEW r \in AllReg, r \notin Held
  PROVE  phys[r] = Map[r]
<1>1. CASE phys = Map
  BY <1>1
<1>2. CASE adder.at # "idle" /\ adder.d \in Register /\ phys = Exchange(Map, adder.d)
  <2>1. r \notin {adder.d, Shadow}
    BY <1>2 DEF Held
  <2> QED BY <1>2, <2>1, MapIsTable, ExchangeTwice
<1> QED BY <1>1, <1>2, PhysNearMap

\* The registers that the adder does not hold keep their physical register.
LEMMA FreeStay ==
  ASSUME IInv, Mapper, NEW r \in AllReg, r \notin Held
  PROVE  Map'[r] = Map[r]
<1>1. CASE swapper.shadow
  BY <1>1, LoadsGivePhys, FreeAgree
<1>2. CASE ~ swapper.shadow
  BY <1>2, MapRests DEF IInv
<1> QED BY <1>1, <1>2

LEMMA UsesFacts ==
  ASSUME NEW i \in Program
  PROVE  /\ i.r1 \in Register /\ i.r2 \in Register /\ i.d \in Register
         /\ i # Nop
         /\ Uses(i) \subseteq AllReg
         /\ i.r1 \in Uses(i)
         /\ i.op = "add" => Shadow \in Uses(i)
<1>1. /\ i.r1 \in Register /\ i.r2 \in Register /\ i.d \in Register
      /\ i.op \in Op /\ i.op # "nop"
  BY ProgramAssumption
<1>2. \A u \in Unit : ReadBy(u, i) \subseteq AllReg /\ WrittenBy(u, i) \subseteq AllReg
  BY <1>1 DEF ReadBy, WrittenBy, AllReg
<1>3. \E u \in Unit : i.r1 \in ReadBy(u, i) \cup WrittenBy(u, i)
  <2>1. CASE i.op \in {"unl", "add", "mult"}
    BY <2>1 DEF ReadBy, Unit, Engine
  <2>2. CASE i.op \in {"loaa", "loaab"}
    BY <2>2 DEF WrittenBy, Unit, Port
  <2>3. CASE i.op = "loab"
    BY <2>3 DEF WrittenBy, Unit, Port
  <2> QED BY <1>1, <2>1, <2>2, <2>3 DEF Op
<1>4. ASSUME i.op = "add"
      PROVE  Shadow \in WrittenBy("add", i) /\ "add" \in Unit
  BY <1>4 DEF WrittenBy, Unit, Engine
<1>5. i # Nop
  BY <1>1 DEF Nop
<1> QED BY <1>1, <1>2, <1>3, <1>4, <1>5 DEF Uses

\* What is asked of the multiplexers is put out a clock later.
LEMMA MuxAfter ==
  ASSUME Mapper, pre.cmd \in Program
  PROVE  /\ mux'.r1 = Map[pre.cmd.r1] /\ mux'.r2 = Map[pre.cmd.r2]
         /\ mux'.d = Map[pre.cmd.d]
<1>1. /\ mux'.r1 = reg[pre.cmd.r1].num /\ mux'.r2 = reg[pre.cmd.r2].num
      /\ mux'.d = reg[pre.cmd.d].num
  BY DEF Mapper, Outputs
<1>2. pre.cmd.r1 \in AllReg /\ pre.cmd.r2 \in AllReg /\ pre.cmd.d \in AllReg
  BY UsesFacts DEF AllReg
<1> QED BY <1>1, <1>2, MapIsFunction

-----------------------------------------------------------------------------
(* Every clock preserves the invariant.                                    *)

LEMMA Initially == Init => IInv
<1> SUFFICES ASSUME Init PROVE IInv
  OBVIOUS
<1>1. AdderOK
  BY EmptySeq DEF Init, AdderOK, Idle, AllReg
<1>2. CommandOK /\ LoadsOK /\ PhysOK
  BY DEF Init, CommandOK, LoadsOK, PhysOK
<1>3. phys = Map
  BY DEF Init, Map
<1>4. adder.at = "idle" /\ ~ swapper.shadow /\ ~ swapPre
  BY DEF Init, Idle
<1> QED BY <1>1, <1>2, <1>3, <1>4 DEF IInv, IdleOK, WaitOK, LimbOK, SettleOK

LEMMA AdderOKStep ==
  ASSUME IInv, Adder, Command
  PROVE  AdderOK'
<1>1. AdderOK
  BY DEF IInv
<1>2. CASE Start
  <2>1. PICK sub \in BOOLEAN, limbs \in Differences \cup Sums :
          adder' = [at |-> "wait", d |-> pre.cmd.d, sub |-> sub,
                    limbs |-> limbs, wait |-> Latency]
    BY <1>2 DEF Start
  <2>2. pre.cmd \in Program
    BY <1>2 DEF Start, IInv, CommandOK
  <2>3. pre.cmd.d \in AllReg
    BY <2>2, UsesFacts DEF AllReg
  <2>4. limbs \in Seq(Kind) /\ Latency \in Nat
    BY MapperAssumption
  <2> QED BY <2>1, <2>3, <2>4 DEF AdderOK
<1>3. CASE Wait
  <2>1. CASE adder.wait > 0 /\ adder' = [adder EXCEPT !.wait = @ - 1]
    BY <1>1, <2>1 DEF AdderOK
  <2>2. CASE adder' = adder
    BY <1>1, <2>2 DEF AdderOK
  <2>3. CASE adder' = [adder EXCEPT !.at = "limb"]
    BY <1>1, <2>3 DEF AdderOK
  <2>4. CASE adder' = Idle
    BY <2>4, EmptySeq DEF AdderOK, Idle, AllReg
  <2> QED BY <1>3, <2>1, <2>2, <2>3, <2>4 DEF Wait
<1>4. CASE Limb
  <2>1. CASE Len(adder.limbs) > 1 /\ adder' = [adder EXCEPT !.limbs = Tail(@)]
    <3>1. adder.limbs \in Seq(Kind)
      BY <1>1 DEF AdderOK
    <3>2. Len(<<>>) = 0
      BY EmptySeq
    <3>3. adder.limbs # <<>>
      BY <2>1, <3>2
    <3>4. Tail(adder.limbs) \in Seq(Kind)
      BY <3>1, <3>3, HeadTailProperties
    <3> QED BY <1>1, <2>1, <3>4 DEF AdderOK
  <2>2. CASE adder' = [adder EXCEPT !.at = "settle", !.wait = Settle]
    BY <1>1, <2>2, MapperAssumption DEF AdderOK
  <2> QED BY <1>4, <2>1, <2>2 DEF Limb
<1>5. CASE Rest
  BY <1>1, <1>5 DEF Rest, AdderOK
<1> QED BY <1>2, <1>3, <1>4, <1>5 DEF Adder

LEMMA StartFacts ==
  ASSUME IInv, Start, Command
  PROVE  /\ adder.at = "idle"
         /\ pre.cmd \in Program
         /\ ~ taken'
<1>1. taken /\ pre.cmd.op = "add"
  BY DEF Start
<1>2. age = Spent /\ pre.cmd \in Program /\ Uses(pre.cmd) \cap Held = {}
  BY <1>1 DEF IInv, CommandOK
<1>3. Shadow \notin Held
  BY <1>1, <1>2, UsesFacts
<1>4. adder.at = "idle"
  BY <1>3 DEF Held
<1>5. Spent # Ripe
  BY MapperAssumption DEF Spent
<1>6. ~ Take
  BY <1>2, <1>5 DEF Take
<1> QED BY <1>2, <1>4, <1>6 DEF Command, Stand, Fetch

\* The adder holds no register more, unless an addition starts.
LEMMA HeldShrinks ==
  ASSUME IInv, Adder, ~ Start
  PROVE  Held' \subseteq Held
<1>1. AdderOK
  BY DEF IInv
<1>2. CASE Wait
  BY <1>1, <1>2 DEF Wait, AdderOK, Held, Idle
<1>3. CASE Limb
  BY <1>1, <1>3 DEF Limb, AdderOK, Held
<1>4. CASE Rest
  BY <1>4 DEF Rest, Held
<1> QED BY <1>2, <1>3, <1>4 DEF Adder

LEMMA CommandOKStep ==
  ASSUME IInv, Clock
  PROVE  CommandOK'
<1> USE DEF Clock
<1>1. CommandOK
  BY DEF IInv
<1>2. CASE Stand
  BY <1>1, <1>2 DEF Stand, Decode, CommandOK
<1>3. CASE Fetch
  BY <1>3 DEF Fetch, Decode, CommandOK
<1>4. CASE Take
  <2>1. pre.cmd \in Program /\ pre'.cmd = pre.cmd /\ age' = Spent
    BY <1>1, <1>4 DEF Take, Decode, CommandOK
  <2>2. age = Ripe /\ Spent # Ripe
    BY <1>4, MapperAssumption DEF Take, Spent
  <2>3. ~ Start
    BY <1>1, <2>2 DEF Start, CommandOK
  <2>4. Uses(pre.cmd) \cap Held = {} /\ Held' \subseteq Held
    BY <1>4, <2>3, HeldShrinks DEF Take
  <2>5. \A r \in Uses(pre.cmd) : Map'[r] = Map[r]
    BY <2>1, <2>4, UsesFacts, FreeStay
  <2>6. /\ mux'.r1 = Map[pre.cmd.r1] /\ mux'.r2 = Map[pre.cmd.r2]
        /\ mux'.d = Map[pre.cmd.d]
    BY <2>1, MuxAfter
  <2>7. pre.cmd.r1 \in Uses(pre.cmd)
    BY <2>1, UsesFacts
  <2>8. Uses(pre'.cmd) \cap Held' = {}
    BY <2>1, <2>4
  <2> QED BY <2>1, <2>5, <2>6, <2>7, <2>8 DEF CommandOK
<1> QED BY <1>2, <1>3, <1>4 DEF Command

LEMMA PhysOKStep ==
  ASSUME IInv, Clock
  PROVE  PhysOK'
<1>1. PhysOK
  BY DEF IInv
<1>2. CASE phys' = phys
  BY <1>1, <1>2 DEF PhysOK
<1>3. CASE Start /\ phys' = Exchange(phys, pre.cmd.d)
  <2>1. pre.cmd.d \in Register
    BY <1>3, StartFacts, UsesFacts DEF Clock
  <2> QED BY <1>1, <1>3, <2>1, ExchangeKeepsApart DEF PhysOK
<1> QED BY <1>2, <1>3 DEF Clock, Adder, Start

\* A limb of ones is met in a state that is ready for the swap.
LEMMA SwapIsReady ==
  ASSUME IInv, SwapPost
  PROVE  /\ Negative(adder.limbs)
         /\ adder.d \in Register
         /\ Len(adder.limbs) = 1 \/ Len(adder.limbs) = 2
         /\ swapper.dest = {adder.d}
         /\ m2a.num = Map[adder.d]
         /\ a2m.num = Map[Shadow]
         /\ phys = Exchange(Map, adder.d)
<1>1. adder.at = "limb" /\ Head(adder.limbs) = "ones"
  BY DEF SwapPost
<1>2. LimbsOK /\ phys = Settled /\ a2m.num = Map[Shadow]
  BY <1>1 DEF IInv, LimbOK
<1>3. adder.limbs \in Seq(Kind) \ {<<>>}
  BY <1>2 DEF IInv, AdderOK, LimbsOK
<1>4. Negative(adder.limbs) /\ (Len(adder.limbs) = 1 \/ Len(adder.limbs) = 2)
  BY <1>1, <1>2, <1>3, LimbOfOnes DEF LimbsOK
<1>5. Latched
  BY <1>1, <1>2, <1>4 DEF IInv, LimbOK, LimbsOK
<1>6. phys = Exchange(Map, adder.d)
  BY <1>2, <1>4 DEF Settled
<1> QED BY <1>2, <1>4, <1>5, <1>6 DEF Latched, LimbsOK

LEMMA LoadsOKStep ==
  ASSUME IInv, Clock
  PROVE  LoadsOK'
<1>1. /\ swapper'.shadow = SwapPost
      /\ swapper'.main = IF SwapPost THEN swapper.dest ELSE {}
  BY DEF Clock, Mapper, Swapper
<1>2. CASE SwapPost
  <2>1. swapper.dest = {adder.d} /\ adder.at = "limb"
    BY <1>2, SwapIsReady DEF SwapPost
  <2>2. Adder /\ ~ Start
    BY <2>1, StartFacts DEF Clock
  <2>3. Limb
    BY <2>1, <2>2 DEF Adder, Wait, Rest
  <2>4. adder'.d = adder.d
    BY <2>3 DEF Limb, IInv, AdderOK
  <2> QED BY <1>1, <1>2, <2>1, <2>4 DEF LoadsOK
<1>3. CASE ~ SwapPost
  BY <1>1, <1>3 DEF LoadsOK
<1> QED BY <1>2, <1>3

LEMMA StartStep ==
  ASSUME IInv, Clock, Start,
         \A limbs \in Differences \cup Sums : OnesLast(limbs)
  PROVE  IdleOK' /\ WaitOK' /\ LimbOK' /\ SettleOK'
<1>1. PICK sub \in BOOLEAN, limbs \in Differences \cup Sums :
        /\ sub \/ limbs \in Sums
        /\ adder' = [at |-> "wait", d |-> pre.cmd.d, sub |-> sub,
                     limbs |-> limbs, wait |-> Latency]
        /\ swapPre' = sub
        /\ phys' = IF sub /\ Negative(limbs) THEN Exchange(phys, pre.cmd.d)
                   ELSE phys
  BY DEF Start
<1>2. adder.at = "idle" /\ pre.cmd \in Program
  BY StartFacts DEF Clock
<1>3. ~ swapper.shadow /\ phys = Map
  BY <1>2 DEF IInv, IdleOK
<1>4. Map' = Map
  BY <1>3, MapRests DEF IInv, Clock
<1>5. pre.cmd.d \in Register
  BY <1>2, UsesFacts
<1>6. limbs # <<>> /\ OnesLast(limbs)
  BY MapperAssumption
<1>7. Negative(limbs) => sub
  BY <1>1, MapperAssumption
<1>8. LimbsOK'
  BY <1>1, <1>5, <1>6, <1>7 DEF LimbsOK
<1>9. ~ swapper'.shadow
  BY <1>2 DEF Clock, Mapper, Swapper, SwapPost
<1>10. phys' = Settled'
  BY <1>1, <1>3, <1>4, <1>7 DEF Settled
<1>11. a2m'.num = Map'[Shadow]
  <2>1. a2m'.num = reg[Shadow].num
    BY DEF Clock, Mapper, Offers
  <2> QED BY <1>4, <2>1, MapIsFunction DEF AllReg
<1>12. Latching'
  <2>1. pre'.dest = {pre.cmd.d}
    BY DEF Clock, Command, Stand, Take, Fetch, Decode
  <2>2. mux'.d = Map[pre.cmd.d]
    BY <1>2, MuxAfter DEF Clock
  <2> QED BY <1>1, <1>4, <2>1, <2>2 DEF Latching
<1>13. WaitOK'
  BY <1>1, <1>8, <1>9, <1>10, <1>11, <1>12 DEF WaitOK
<1>14. adder'.at = "wait"
  BY <1>1
<1> QED BY <1>13, <1>14 DEF IdleOK, LimbOK, SettleOK

LEMMA RestStep ==
  ASSUME IInv, Clock, ~ Start, Rest
  PROVE  IdleOK' /\ WaitOK' /\ LimbOK' /\ SettleOK'
<1>1. adder.at = "idle" /\ adder'.at = "idle"
  BY DEF Rest
<1>2. ~ swapper.shadow /\ phys = Map
  BY <1>1 DEF IInv, IdleOK
<1>3. Map' = Map
  BY <1>2, MapRests DEF IInv, Clock
<1>4. ~ swapper'.shadow
  BY <1>1 DEF Clock, Mapper, Swapper, SwapPost
<1>5. swapPre' = FALSE /\ phys' = phys
  BY DEF Clock, Adder
<1> QED BY <1>1, <1>2, <1>3, <1>4, <1>5 DEF IdleOK, WaitOK, LimbOK, SettleOK

LEMMA BeforeLimbsStep ==
  ASSUME IInv, Clock, ~ Start, Wait, adder.at = "wait"
  PROVE  IdleOK' /\ WaitOK' /\ LimbOK' /\ SettleOK'
<1>1. /\ LimbsOK /\ ~ swapper.shadow /\ phys = Settled
      /\ adder.sub => IF swapPre THEN Latching ELSE Latched
  BY DEF IInv, WaitOK
<1>2. Map' = Map
  BY <1>1, MapRests DEF IInv, Clock
<1>3. ~ swapper'.shadow
  BY DEF Clock, Mapper, Swapper, SwapPost
<1>4. swapPre' = FALSE /\ phys' = phys
  BY DEF Clock, Adder
<1>5. /\ adder'.at \in {"wait", "limb"}
      /\ adder'.d = adder.d /\ adder'.sub = adder.sub
      /\ adder'.limbs = adder.limbs
  BY DEF Wait, IInv, AdderOK
<1>6. LimbsOK' /\ phys' = Settled'
  BY <1>1, <1>2, <1>4, <1>5 DEF LimbsOK, Settled
<1>7. a2m'.num = Map'[Shadow]
  <2>1. a2m'.num = reg[Shadow].num
    BY DEF Clock, Mapper, Offers
  <2> QED BY <1>2, <2>1, MapIsFunction DEF AllReg
<1>8. adder'.sub => Latched'
  <2>1. CASE swapPre
    BY <1>1, <1>2, <1>5, <2>1
    DEF Clock, Mapper, Swapper, Offers, Latching, Latched
  <2>2. CASE ~ swapPre
    BY <1>1, <1>2, <1>5, <2>2
    DEF Clock, Mapper, Swapper, Offers, Latched
  <2> QED BY <2>1, <2>2
<1>9. WaitOK'
  BY <1>3, <1>4, <1>6, <1>7, <1>8 DEF WaitOK
<1>10. LimbOK'
  BY <1>3, <1>4, <1>6, <1>7, <1>8 DEF LimbOK
<1> QED BY <1>5, <1>9, <1>10 DEF IdleOK, SettleOK

LEMMA AfterLimbsStep ==
  ASSUME IInv, Clock, ~ Start, Wait, adder.at = "settle"
  PROVE  IdleOK' /\ WaitOK' /\ LimbOK' /\ SettleOK'
<1>1. Map' = phys
  <2>1. CASE swapper.shadow
    BY <2>1, LoadsGivePhys DEF Clock
  <2>2. CASE ~ swapper.shadow
    BY <2>2, MapRests DEF IInv, SettleOK, Clock
  <2> QED BY <2>1, <2>2
<1>2. ~ swapper'.shadow
  BY DEF Clock, Mapper, Swapper, SwapPost
<1>3. swapPre' = FALSE /\ phys' = phys
  BY DEF Clock, Adder
<1>4. CASE adder' = Idle
  <2>1. adder'.at = "idle"
    BY <1>4 DEF Idle
  <2> QED BY <1>1, <1>2, <1>3, <2>1 DEF IdleOK, WaitOK, LimbOK, SettleOK
<1>5. CASE adder'.at = "settle" /\ adder'.d = adder.d
  <2>1. adder'.d \in Register
    BY <1>5 DEF IInv, SettleOK
  <2> QED BY <1>1, <1>2, <1>3, <1>5, <2>1 DEF IdleOK, WaitOK, LimbOK, SettleOK
<1>6. adder' = Idle \/ (adder'.at = "settle" /\ adder'.d = adder.d)
  BY DEF Wait, IInv, AdderOK
<1> QED BY <1>4, <1>5, <1>6

LEMMA LimbStep ==
  ASSUME IInv, Clock, ~ Start, Limb
  PROVE  IdleOK' /\ WaitOK' /\ LimbOK' /\ SettleOK'
<1>1. /\ adder.at = "limb" /\ LimbsOK /\ ~ swapPre
      /\ phys = Settled /\ a2m.num = Map[Shadow]
      /\ adder.sub => Latched
      /\ swapper.shadow => Negative(adder.limbs) /\ Len(adder.limbs) = 1
  BY DEF Limb, IInv, LimbOK
<1>2. adder.limbs \in Seq(Kind) \ {<<>>} /\ adder.d \in Register
  BY <1>1 DEF IInv, AdderOK, LimbsOK
<1>3. swapPre' = FALSE /\ phys' = phys
  BY DEF Clock, Adder
<1>4. /\ swapper'.dest = swapper.dest /\ swapper'.shadow = SwapPost
      /\ m2a' = m2a
  BY <1>1 DEF Clock, Mapper, Swapper, Offers
<1>5. a2m'.num = Map[Shadow]
  <2>1. a2m'.num = reg[Shadow].num
    BY DEF Clock, Mapper, Offers
  <2> QED BY <2>1, MapIsFunction DEF AllReg
<1>6. SwapPost <=> Head(adder.limbs) = "ones"
  BY <1>1 DEF SwapPost
<1>0. Len(adder.limbs) > 1 <=> Len(adder.limbs) # 1
  <2> DEFINE n == Len(adder.limbs)
  <2>1. n \in Nat \ {0}
    BY <1>2, LimbsHaveLast
  <2> HIDE DEF n
  <2>2. n > 1 <=> n # 1
    BY <2>1
  <2> QED BY <2>2 DEF n
<1>7. CASE Len(adder.limbs) # 1
  <2>1. ~ swapper.shadow
    BY <1>1, <1>7
  <2>2. Map' = Map
    BY <2>1, MapRests DEF IInv, Clock
  <2>3. adder' = [adder EXCEPT !.limbs = Tail(@)]
    BY <1>0, <1>7 DEF Limb
  <2>4. /\ adder'.at = "limb" /\ adder'.d = adder.d /\ adder'.sub = adder.sub
        /\ adder'.limbs = Tail(adder.limbs)
    BY <1>1, <2>3 DEF IInv, AdderOK
  <2>5. /\ adder'.limbs # <<>> /\ OnesLast(adder'.limbs)
        /\ Negative(adder'.limbs) <=> Negative(adder.limbs)
        /\ Len(adder'.limbs) = Len(adder.limbs) - 1
    BY <1>0, <1>1, <1>2, <1>7, <2>4, LimbByLimb DEF LimbsOK
  <2>6. LimbsOK'
    BY <1>1, <2>4, <2>5 DEF LimbsOK
  <2>7. phys' = Settled'
    BY <1>1, <1>3, <2>2, <2>4, <2>5 DEF Settled
  <2>8. adder'.sub => Latched'
    BY <1>1, <1>4, <2>2, <2>4 DEF Latched
  <2>9. SwapPost => Negative(adder'.limbs) /\ Len(adder'.limbs) = 1
    <3>1. SUFFICES ASSUME SwapPost
                   PROVE  Negative(adder'.limbs) /\ Len(adder'.limbs) = 1
      OBVIOUS
    <3>2. Negative(adder.limbs)
      BY <3>1, SwapIsReady
    <3>3. Len(adder.limbs) = 2
      BY <1>7, <3>1, SwapIsReady
    <3>4. Len(adder'.limbs) = 1
      BY <2>5, <3>3
    <3> QED BY <2>5, <3>2, <3>4
  <2>10. LimbOK'
    BY <1>3, <1>4, <1>5, <2>2, <2>6, <2>7, <2>8, <2>9 DEF LimbOK
  <2> QED BY <2>4, <2>10 DEF IdleOK, WaitOK, SettleOK
<1>8. CASE Len(adder.limbs) = 1
  <2>2. adder' = [adder EXCEPT !.at = "settle", !.wait = Settle]
    BY <1>0, <1>8 DEF Limb
  <2>3. adder'.at = "settle" /\ adder'.d = adder.d
    BY <2>2 DEF IInv, AdderOK
  <2>4. SwapPost <=> Negative(adder.limbs)
    BY <1>2, <1>6, <1>8, LastLimb
  <2>5. CASE ~ SwapPost
    <3>1. ~ swapper.shadow /\ phys = Map
      BY <1>1, <2>4, <2>5 DEF Settled
    <3>2. Map' = Map
      BY <3>1, MapRests DEF IInv, Clock
    <3>3. SettleOK'
      BY <1>2, <1>3, <1>4, <2>3, <2>5, <3>1, <3>2 DEF SettleOK
    <3> QED BY <2>3, <3>3 DEF IdleOK, WaitOK, LimbOK
  <2>6. CASE SwapPost
    <3>1. phys = Exchange(Map, adder.d) /\ m2a.num = Map[adder.d]
      BY <2>6, SwapIsReady
    <3>2. phys' = [Map EXCEPT ![adder'.d] = a2m'.num, ![Shadow] = m2a'.num]
      BY <1>3, <1>4, <1>5, <2>3, <3>1 DEF Exchange
    <3>3. CASE ~ swapper.shadow
      <4>1. Map' = Map
        BY <3>3, MapRests DEF IInv, Clock
      <4>2. phys' = [Map' EXCEPT ![adder'.d] = a2m'.num, ![Shadow] = m2a'.num]
        BY <3>2, <4>1
      <4>3. phys' = Exchange(Map', adder'.d)
        BY <1>3, <2>3, <3>1, <4>1
      <4>4. SettleOK'
        BY <1>2, <1>3, <2>3, <4>2, <4>3, <1>4, <2>6 DEF SettleOK
      <4> QED BY <2>3, <4>4 DEF IdleOK, WaitOK, LimbOK
    <3>4. CASE swapper.shadow
      <4>1. Map' = phys
        BY <3>4, LoadsGivePhys DEF Clock
      <4>2. phys' = [Map' EXCEPT ![adder'.d] = a2m'.num, ![Shadow] = m2a'.num]
        <5>1. adder.d \in AllReg /\ Shadow \in AllReg
          BY <1>2 DEF AllReg
        <5> QED BY <1>3, <2>3, <3>2, <4>1, <5>1, MapIsTable
      <4>3. phys' = Map'
        BY <1>3, <4>1
      <4>4. SettleOK'
        BY <1>2, <1>3, <2>3, <4>2, <4>3 DEF SettleOK
      <4> QED BY <2>3, <4>4 DEF IdleOK, WaitOK, LimbOK
    <3> QED BY <3>3, <3>4
  <2> QED BY <2>5, <2>6
<1> QED BY <1>7, <1>8

LEMMA MapperStep ==
  ASSUME \A limbs \in Differences \cup Sums : OnesLast(limbs)
  PROVE  IInv /\ [Clock]_vars => IInv'
<1> SUFFICES ASSUME IInv, [Clock]_vars PROVE IInv'
  OBVIOUS
<1>1. CASE Clock
  <2>1. AdderOK' /\ CommandOK' /\ PhysOK' /\ LoadsOK'
    BY <1>1, AdderOKStep, CommandOKStep, PhysOKStep, LoadsOKStep DEF Clock
  <2>2. IdleOK' /\ WaitOK' /\ LimbOK' /\ SettleOK'
    <3>1. CASE Start
      BY <1>1, <3>1, StartStep
    <3>2. CASE ~ Start /\ Wait
      BY <1>1, <3>2, BeforeLimbsStep, AfterLimbsStep DEF Wait
    <3>3. CASE ~ Start /\ Limb
      BY <1>1, <3>3, LimbStep
    <3>4. CASE ~ Start /\ Rest
      BY <1>1, <3>4, RestStep
    <3> QED BY <1>1, <3>1, <3>2, <3>3, <3>4 DEF Clock, Adder
  <2> QED BY <2>1, <2>2 DEF IInv
<1>2. CASE UNCHANGED vars
  <2>1. /\ pre' = pre /\ age' = age /\ taken' = taken /\ swapPre' = swapPre
        /\ reg' = reg /\ mux' = mux /\ swapper' = swapper /\ a2m' = a2m
        /\ m2a' = m2a /\ adder' = adder /\ phys' = phys
    BY <1>2 DEF vars
  <2>2. Map' = Map /\ Held' = Held
    BY <2>1 DEF Map, Held
  <2>3. AdderOK' /\ PhysOK' /\ LoadsOK'
    BY <2>1 DEF IInv, AdderOK, PhysOK, LoadsOK
  <2>4. CommandOK'
    BY <2>1, <2>2 DEF IInv, CommandOK
  <2>5. IdleOK' /\ SettleOK'
    BY <2>1, <2>2 DEF IInv, IdleOK, SettleOK
  <2>6. WaitOK' /\ LimbOK'
    BY <2>1, <2>2
    DEF IInv, WaitOK, LimbOK, LimbsOK, Settled, Latching, Latched
  <2> QED BY <2>3, <2>4, <2>5, <2>6 DEF IInv
<1> QED BY <1>1, <1>2

LEMMA InvMapsApart == IInv => MapsApart
<1> SUFFICES ASSUME IInv, NEW r \in AllReg, NEW s \in AllReg, Map[r] = Map[s]
             PROVE  r = s
  BY MapIsFunction DEF MapsApart
<1>1. PhysOK
  BY DEF IInv
<1>2. CASE phys = Map
  BY <1>1, <1>2 DEF PhysOK
<1>3. CASE adder.d \in Register /\ phys = Exchange(Map, adder.d)
  <2>1. Map = Exchange(phys, adder.d)
    BY <1>3, MapIsTable, ExchangeTwice
  <2> QED BY <1>1, <1>3, <2>1, ExchangeKeepsApart DEF PhysOK
<1> QED BY <1>2, <1>3, PhysNearMap

LEMMA InvNumbersAgree == IInv => NumbersAgree
<1> SUFFICES ASSUME IInv, taken PROVE NumbersAgree
  BY DEF NumbersAgree
<1>1. /\ pre.cmd \in Program
      /\ Uses(pre.cmd) \cap Held = {}
      /\ mux.r1 = Map[pre.cmd.r1]
      /\ pre.cmd.r2 \in Uses(pre.cmd) => mux.r2 = Map[pre.cmd.r2]
      /\ pre.cmd.d \in Uses(pre.cmd) => mux.d = Map[pre.cmd.d]
  BY DEF IInv, CommandOK
<1>2. \A r \in Uses(pre.cmd) : r \in AllReg /\ Map[r] = phys[r]
  BY <1>1, UsesFacts, FreeAgree
<1>3. \A r \in Uses(pre.cmd) : reg[r].num = phys[r]
  BY <1>2, MapIsFunction
<1>4. mux.r1 = phys[pre.cmd.r1]
  BY <1>1, <1>2, UsesFacts
<1> QED BY <1>1, <1>2, <1>3, <1>4 DEF NumbersAgree

LEMMA InvExchangesHeld ==
  IInv /\ [Clock]_vars => [Map' # Map =>
                             /\ adder.at \in {"limb", "settle"}
                             /\ Map' = Exchange(Map, adder.d)
                             /\ Map' = phys]_vars
<1> SUFFICES ASSUME IInv, Clock, Map' # Map
             PROVE  /\ adder.at \in {"limb", "settle"}
                    /\ Map' = Exchange(Map, adder.d)
                    /\ Map' = phys
  OBVIOUS
<1>1. swapper.shadow
  BY MapRests DEF IInv, Clock
<1> QED BY <1>1, LoadsGivePhys DEF Clock

-----------------------------------------------------------------------------
(* The theorems.  What they assume of the results is what the adder does   *)
(* not promise: a limb of ones may be anywhere (README).                   *)

\* The inductive invariant: what the swapper, the multiplexers and the map
\* have to do with the addition at work, in each of its phases.
THEOREM MapperInvariant ==
  ASSUME \A limbs \in Differences \cup Sums : OnesLast(limbs)
  PROVE  Spec => []IInv
<1>1. IInv /\ [Clock]_vars => IInv'
  BY MapperStep
<1> QED BY <1>1, Initially, PTL DEF Spec

\* At no time two registers of a program, or one and the shadow register,
\* are the same physical register (cpu_mapper.vhd).
THEOREM NothingLost ==
  ASSUME \A limbs \in Differences \cup Sums : OnesLast(limbs)
  PROVE  Spec => []MapsApart
<1>1. Spec => []IInv
  BY MapperInvariant
<1> QED BY <1>1, InvMapsApart, PTL

\* A command that is taken has the physical registers of the emulator
\* (error_checker.vhd, A_PHYS_REG).
THEOREM NumbersAlwaysAgree ==
  ASSUME \A limbs \in Differences \cup Sums : OnesLast(limbs)
  PROVE  Spec => []NumbersAgree
<1>1. Spec => []IInv
  BY MapperInvariant
<1> QED BY <1>1, InvNumbersAgree, PTL

\* The map changes only by exchanging two registers that the adder holds
\* (cpu_mapper_swapper.vhd).
THEOREM OnlyExchanges ==
  ASSUME \A limbs \in Differences \cup Sums : OnesLast(limbs)
  PROVE  Spec => ExchangesHeld
<1>1. Spec => []IInv
  BY MapperInvariant
<1> QED BY <1>1, InvExchangesHeld, PTL DEF Spec, ExchangesHeld

-----------------------------------------------------------------------------
(* The one-hot vectors.                                                    *)

\* Wherever a vector is kept, it names the register beside it or none.
VectorsOK ==
  /\ \A r \in AllReg : reg[r].oh \subseteq {reg[r].num} /\ reg[r].out \subseteq {reg[r].num}
  /\ mux.dOh \subseteq {mux.d}
  /\ a2m.oh \subseteq {a2m.num} /\ m2a.oh \subseteq {m2a.num}

\* How far the command has come in the pipeline of the vectors; what has left
\* the registers is what they have now, unless the adder may exchange them.
PipelineOK ==
  /\ age \in 0 .. Spent
  /\ age >= 1 => /\ pre.used = Uses(pre.cmd) \ {Shadow}
                 /\ pre.aux => pre.cmd.op = "add"
  /\ age >= 2 => pre.on = Uses(pre.cmd) \ {Shadow}
  /\ age >= 3 => \A r \in AllReg \ Uses(pre.cmd) : reg[r].out = {}
  /\ age >= 4 => \/ mux.all[1] \subseteq {Map[r] : r \in Uses(pre.cmd)}
                 \/ Uses(pre.cmd) \cap Held # {} /\ adder.at \in {"limb", "settle"}
  /\ adder.at = "settle" /\ adder.wait < Settle => ~ swapper.shadow
  /\ taken => mux.all[2] \subseteq {phys[r] : r \in Uses(pre.cmd)}

LEMMA NopUses == Uses(Nop) = {} /\ Nop.op # "add"
<1>1. Nop.op = "nop"
  BY DEF Nop
<1>2. \A u \in Unit : ReadBy(u, Nop) = {} /\ WrittenBy(u, Nop) = {}
  BY <1>1 DEF ReadBy, WrittenBy, Unit, Engine, Port
<1> QED BY <1>1, <1>2 DEF Uses

LEMMA VectorsInit == Init => VectorsOK /\ PipelineOK
<1> SUFFICES ASSUME Init PROVE VectorsOK /\ PipelineOK
  OBVIOUS
<1>1. VectorsOK
  BY DEF Init, VectorsOK
<1>2. PipelineOK
  BY MapperAssumption DEF Init, PipelineOK, Spent, Idle
<1> QED BY <1>1, <1>2

LEMMA VectorsStep ==
  ASSUME IInv, VectorsOK, Clock
  PROVE  VectorsOK'
<1>1. ASSUME NEW r \in AllReg
      PROVE  reg'[r].oh \subseteq {reg'[r].num} /\ reg'[r].out \subseteq {reg'[r].num}
  <2>1. reg'[r] = RegAfter(r)
    BY <1>1 DEF Clock, Mapper
  <2>2. RegAfter(r).oh \subseteq {RegAfter(r).num}
    BY <1>1 DEF VectorsOK, RegAfter
  <2>3. RegAfter(r).out \subseteq RegAfter(r).oh
    BY DEF RegAfter
  <2> QED BY <2>1, <2>2, <2>3
<1>2. a2m'.oh \subseteq {a2m'.num}
  <2>1. Shadow \in AllReg
    BY DEF AllReg
  <2> QED BY <2>1 DEF Clock, Mapper, Offers, VectorsOK
<1>3. m2a'.oh \subseteq {m2a'.num}
  BY DEF Clock, Mapper, Offers, VectorsOK
<1>4. mux'.dOh \subseteq {mux'.d}
  <2>1. pre.cmd.d \in AllReg
    BY UsesFacts DEF IInv, CommandOK, Nop, AllReg
  <2> QED BY <2>1 DEF Clock, Mapper, Outputs, VectorsOK
<1> QED BY <1>1, <1>2, <1>3, <1>4 DEF VectorsOK

LEMMA PipelineStep ==
  ASSUME Ripe >= 4, Settle >= 1, IInv, VectorsOK, PipelineOK, Clock
  PROVE  PipelineOK'
<1>1. /\ pre'.dest = {pre.cmd.d}
      /\ pre'.used = Uses(pre.cmd) \ {Shadow}
      /\ pre'.aux = (pre.cmd.op = "add")
      /\ pre'.on = pre.used
  BY DEF Clock, Command, Stand, Take, Fetch, Decode
<1>2. /\ Ripe \in Nat /\ Spent = Ripe + 1 /\ Settle \in Nat
      /\ age \in 0 .. Spent
  BY MapperAssumption DEF Spent, PipelineOK
<1>3. /\ age' \in 0 .. Spent
      /\ age' = 0 \/ (pre'.cmd = pre.cmd /\ age' <= age + 1 /\ (age' > age => age <= Ripe))
  <2>1. CASE Stand
    BY <1>2, <2>1 DEF Stand, Decode
  <2>2. CASE Take
    BY <1>2, <2>2 DEF Take, Decode
  <2>3. CASE Fetch
    BY <1>2, <2>3 DEF Fetch
  <2> QED BY <2>1, <2>2, <2>3 DEF Clock, Command
<1>4. age' >= 1 => /\ pre'.used = Uses(pre'.cmd) \ {Shadow}
                   /\ pre'.aux => pre'.cmd.op = "add"
  <2>1. pre'.aux => pre.cmd.op = "add"
    BY <1>1, Zenon
  <2>2. age' >= 1 => pre'.cmd = pre.cmd
    BY <1>3
  <2> QED BY <1>1, <2>1, <2>2
<1>5. age' >= 2 => pre'.on = Uses(pre'.cmd) \ {Shadow}
  BY <1>1, <1>2, <1>3 DEF PipelineOK
<1>6. ASSUME age' >= 3, NEW r \in AllReg \ Uses(pre'.cmd)
      PROVE  reg'[r].out = {}
  <2>1. age >= 2 /\ pre'.cmd = pre.cmd
    BY <1>2, <1>3, <1>6
  <2>2. /\ pre.on = Uses(pre.cmd) \ {Shadow}
        /\ pre.aux => pre.cmd.op = "add"
    BY <1>2, <2>1 DEF PipelineOK
  <2>3. r = Shadow => ~ pre.aux
    BY <1>6, <2>1, <2>2, UsesFacts, NopUses DEF IInv, CommandOK
  <2>4. RegAfter(r).out = {}
    BY <1>6, <2>1, <2>2, <2>3 DEF RegAfter
  <2> QED BY <2>4 DEF Clock, Mapper
<1>7. ASSUME age' >= 4
      PROVE  \/ mux'.all[1] \subseteq {Map'[r] : r \in Uses(pre'.cmd)}
             \/ Uses(pre'.cmd) \cap Held' # {} /\ adder'.at \in {"limb", "settle"}
  <2>1. age >= 3 /\ pre'.cmd = pre.cmd
    BY <1>2, <1>3, <1>7
  <2>2. mux'.all[1] \subseteq {Map[r] : r \in Uses(pre.cmd)}
    <3>1. mux'.all[1] = UNION {reg[r].out : r \in AllReg}
      BY DEF Clock, Mapper, Outputs
    <3>2. \A r \in AllReg \ Uses(pre.cmd) : reg[r].out = {}
      BY <1>2, <2>1 DEF PipelineOK
    <3>3. \A r \in AllReg : reg[r].out \subseteq {Map[r]}
      BY MapIsFunction DEF VectorsOK
    <3> QED BY <3>1, <3>2, <3>3
  <2>3. Uses(pre.cmd) \subseteq AllReg
    BY UsesFacts, NopUses DEF IInv, CommandOK
  <2>4. CASE ~ swapper.shadow
    <3>1. Map' = Map
      BY <2>4, MapRests DEF IInv, Clock
    <3> QED BY <2>1, <2>2, <3>1
  <2>5. CASE Uses(pre.cmd) \cap Held = {}
    <3>1. \A r \in Uses(pre.cmd) : Map'[r] = Map[r]
      BY <2>3, <2>5, FreeStay DEF Clock
    <3> QED BY <2>1, <2>2, <3>1
  <2>6. CASE swapper.shadow /\ Uses(pre.cmd) \cap Held # {}
    <3>1. adder.at \in {"limb", "settle"}
      BY <2>6, LoadsGivePhys DEF Clock
    <3>2. ~ Start
      BY <3>1, StartFacts DEF Clock
    <3>3. adder'.at \in {"limb", "settle"} /\ adder'.d = adder.d
      <4>1. CASE adder.at = "limb"
        BY <3>2, <4>1 DEF Clock, Adder, Wait, Limb, Rest, IInv, AdderOK
      <4>2. CASE adder.at = "settle"
        <5>1. adder.wait # 0
          BY <1>2, <2>6, <4>2 DEF PipelineOK
        <5> QED BY <3>2, <4>2, <5>1 DEF Clock, Adder, Wait, Limb, Rest, IInv, AdderOK
      <4> QED BY <3>1, <4>1, <4>2
    <3>4. Held' = Held
      BY <3>1, <3>3 DEF Held
    <3> QED BY <2>1, <2>6, <3>3, <3>4
  <2> QED BY <2>4, <2>5, <2>6
<1>8. ASSUME adder'.at = "settle", adder'.wait < Settle
      PROVE  ~ swapper'.shadow
  <2>1. SUFFICES ASSUME adder.at = "limb" PROVE FALSE
    BY DEF Clock, Mapper, Swapper, SwapPost
  <2>2. ~ Start
    BY <2>1, StartFacts DEF Clock
  <2>3. Limb
    BY <2>1, <2>2 DEF Clock, Adder, Wait, Rest
  <2>4. adder'.wait = Settle
    BY <1>8, <2>1, <2>3 DEF Limb, IInv, AdderOK
  <2> QED BY <1>2, <1>8, <2>4
<1>9. ASSUME taken'
      PROVE  mux'.all[2] \subseteq {phys'[r] : r \in Uses(pre'.cmd)}
  <2>1. Take
    BY <1>9 DEF Clock, Command, Stand, Fetch
  <2>2. age >= 4 /\ age # Spent /\ pre'.cmd = pre.cmd /\ Uses(pre.cmd) \cap Held = {}
    BY <1>2, <2>1 DEF Take, Decode
  <2>3. mux'.all[2] \subseteq {Map[r] : r \in Uses(pre.cmd)}
    <3>1. mux.all[1] \subseteq {Map[r] : r \in Uses(pre.cmd)}
      BY <2>2 DEF PipelineOK
    <3>2. mux'.all[2] = mux.all[1]
      BY DEF Clock, Mapper, Outputs
    <3> QED BY <3>1, <3>2
  <2>4. \A r \in Uses(pre.cmd) : Map[r] = phys[r]
    BY <2>2, FreeAgree, UsesFacts, NopUses DEF IInv, CommandOK
  <2>5. phys' = phys
    <3>1. ~ Start
      BY <2>2 DEF Start, IInv, CommandOK
    <3> QED BY <3>1 DEF Clock, Adder
  <2> QED BY <2>2, <2>3, <2>4, <2>5
<1> QED BY <1>3, <1>4, <1>5, <1>6, <1>7, <1>8, <1>9 DEF PipelineOK

\* The account of busy registers is never given a register that the command
\* taken does not use: the vectors are late and may be empty, but name no other,
\* if a command stands for four clocks and the adder settles for one.
THEOREM ClaimsNoOtherEver ==
  ASSUME \A limbs \in Differences \cup Sums : OnesLast(limbs),
         Ripe >= 4, Settle >= 1
  PROVE  Spec => []ClaimsNoOther
<1>1. IInv /\ VectorsOK /\ PipelineOK /\ [Clock]_vars => (VectorsOK /\ PipelineOK)'
  <2>1. CASE UNCHANGED vars
    BY <2>1 DEF vars, VectorsOK, PipelineOK, Map, Held
  <2> QED BY <2>1, VectorsStep, PipelineStep
<1>2. VectorsOK /\ PipelineOK => ClaimsNoOther
  BY DEF VectorsOK, PipelineOK, ClaimsNoOther
<1>3. Spec => []IInv
  BY MapperInvariant
<1> QED BY <1>1, <1>2, <1>3, VectorsInit, PTL DEF Spec

=============================================================================
