--------------------------- MODULE CpuIssueProofs ---------------------------
(***************************************************************************)
(* Theorems about CpuIssue.  The types and IssuedOnce hold for every       *)
(* program, every delay and any choice of coincidences left out; the later *)
(* ones under the conditions that Disciplined names.                       *)
(***************************************************************************)
EXTENDS CpuIssue, SequenceTheorems, TLAPS

-----------------------------------------------------------------------------
(* Types.                                                                  *)

LEMMA UsesType ==
  ASSUME NEW i \in Instr
  PROVE  /\ Uses(i) \subseteq AllReg
         /\ \A u \in Unit : /\ ReadBy(u, i) \subseteq AllReg
                          /\ WrittenBy(u, i) \subseteq AllReg
<1>1. i.r1 \in AllReg /\ i.r2 \in AllReg /\ i.d \in AllReg /\ Shadow \in AllReg
  BY DEF Instr, AllReg
<1>2. ASSUME NEW u \in Unit
      PROVE  ReadBy(u, i) \subseteq AllReg /\ WrittenBy(u, i) \subseteq AllReg
  BY <1>1 DEF ReadBy, WrittenBy
<1> QED
  BY <1>2 DEF Uses

LEMMA NopType == Nop \in Instr
BY DEF Nop, Instr, Op, AllReg

LEMMA TypeInit == Init => TypeOK
<1> SUFFICES ASSUME Init
             PROVE  TypeOK
  OBVIOUS
<1>1. /\ bus \in [cur : Instr, left : 0..2, valid : BOOLEAN]
      /\ sent \in 0..MaxInstr
  BY NopType, IssueAssumption DEF Init
<1>2. pre \in [cmd : Instr, op : Op, ready : BOOLEAN, processed : BOOLEAN,
               cmdReady : BOOLEAN, line : [1..5 -> SUBSET AllReg]]
  BY NopType DEF Init, Op
<1>3. blk \in [unit : BOOLEAN, vec : BOOLEAN, reg : BOOLEAN, ready : BOOLEAN,
               wait : 0..4, toExec : BOOLEAN, done : 0..4, taken : BOOLEAN]
  BY DEF Init
<1>4. box \in [busy : SUBSET AllReg, mode : [AllReg -> [write : BOOLEAN, by : 0..3]],
               offRead : SUBSET AllReg, offWrite : SUBSET AllReg,
               lastDly : BOOLEAN, unit : [{"add", "mult"} -> BOOLEAN],
               timer : [{"add", "mult"} -> Nat],
               done : [{"add", "mult"} -> BOOLEAN]]
  BY DEF Init
<1>5. claim \in [1..3 -> Instr]
  BY NopType DEF Init
<1>6. cmc \in [channel : Route, start : Engine \cup {"nop"},
               en : [Route -> BOOLEAN], oper : [Route -> Engine],
               last : [Route -> BOOLEAN]]
  BY DEF Init, Route, Engine
<1>7. eng \in [run : [Unit -> Nat], last : [Unit -> BOOLEAN],
               dead : SUBSET Port, unlBusy : BOOLEAN]
  BY DEF Init
<1>8. /\ fresh \in BOOLEAN
      /\ reads \in [Unit -> SUBSET AllReg]
      /\ writes \in [Unit -> SUBSET AllReg]
  BY DEF Init
<1> QED
  BY <1>1, <1>2, <1>3, <1>4, <1>5, <1>6, <1>7, <1>8 DEF TypeOK

LEMMA BusType ==
  ASSUME TypeOK, Host
  PROVE  /\ bus' \in [cur : Instr, left : 0..2, valid : BOOLEAN]
         /\ sent' \in 0..MaxInstr
<1>1. CASE Hold
  BY <1>1 DEF Hold, TypeOK
<1>2. CASE NextByte
  <2>1. PICK v \in BOOLEAN : bus' = [bus EXCEPT !.left = 1, !.valid = v]
    BY <1>2 DEF NextByte
  <2>2. bus \in [cur : Instr, left : 0..2, valid : BOOLEAN] /\ sent' = sent
    BY <1>2 DEF NextByte, TypeOK
  <2>3. bus' = [cur |-> bus.cur, left |-> 1, valid |-> v]
    BY <2>1, <2>2
  <2> QED
    BY <2>2, <2>3 DEF TypeOK
<1>3. CASE Resume
  <2>1. PICK v \in BOOLEAN : bus' = [bus EXCEPT !.valid = v]
    BY <1>3 DEF Resume
  <2>2. bus \in [cur : Instr, left : 0..2, valid : BOOLEAN] /\ sent' = sent
    BY <1>3 DEF Resume, TypeOK
  <2>3. bus' \in [cur : Instr, left : 0..2, valid : BOOLEAN]
    BY <2>1, <2>2
  <2> QED
    BY <2>2, <2>3 DEF TypeOK
<1>4. CASE Offer
  <2>1. PICK i \in IF sent = 0 THEN Starts ELSE Program :
               bus' = [cur |-> i, left |-> Bytes(i), valid |-> TRUE]
    BY <1>4 DEF Offer
  <2>2. i \in Instr
    BY <2>1, ProgramAssumption, IssueAssumption DEF Instr, AllReg
  <2>3. Bytes(i) \in 0..2
    BY DEF Bytes
  <2> QED
    BY <1>4, <2>1, <2>2, <2>3, IssueAssumption DEF Offer, TypeOK
<1>5. CASE Pause
  BY <1>5, NopType DEF Pause, TypeOK
<1> QED
  BY <1>1, <1>2, <1>3, <1>4, <1>5 DEF Host

LEMMA TypeStep == TypeOK /\ [Clock]_vars => TypeOK'
<1> SUFFICES ASSUME TypeOK, [Clock]_vars
             PROVE  TypeOK'
  OBVIOUS
<1>1. CASE UNCHANGED vars
  BY <1>1 DEF TypeOK, vars
<1>2. CASE Clock
  <2>1. /\ bus' \in [cur : Instr, left : 0..2, valid : BOOLEAN]
        /\ sent' \in 0..MaxInstr
    BY <1>2, BusType DEF Clock
  <2>2. /\ pre.cmd \in Instr /\ bus.cur \in Instr
        /\ Uses(pre.cmd) \subseteq AllReg
        /\ \A u \in Unit : /\ ReadBy(u, pre.cmd) \subseteq AllReg
                         /\ WrittenBy(u, pre.cmd) \subseteq AllReg
    BY UsesType DEF TypeOK
  <2>3. pre' \in [cmd : Instr, op : Op, ready : BOOLEAN, processed : BOOLEAN,
                  cmdReady : BOOLEAN, line : [1..5 -> SUBSET AllReg]]
    <3>1. pre.cmd.op \in Op
      BY <2>2 DEF Instr
    <3>2. ReadyAfter \in BOOLEAN /\ LastOffered \in BOOLEAN
      BY DEF ReadyAfter, LastOffered, TypeOK
    <3>3. [s \in 1..5 |-> IF s = 1 THEN Uses(pre.cmd) ELSE pre.line[s - 1]]
            \in [1..5 -> SUBSET AllReg]
      BY <2>2 DEF TypeOK
    <3> QED
      BY <1>2, <2>2, <3>1, <3>2, <3>3 DEF Clock, Prefetch, TypeOK
  <2>4. blk' \in [unit : BOOLEAN, vec : BOOLEAN, reg : BOOLEAN, ready : BOOLEAN,
                  wait : 0..4, toExec : BOOLEAN, done : 0..4, taken : BOOLEAN]
    <3>1. UnitBusy \in BOOLEAN
      BY DEF UnitBusy, TypeOK
    <3>2. WaitAfter \in 0..4
      BY DEF WaitAfter, TypeOK
    <3>3. (IF blk.taken THEN 0 ELSE IF blk.done = 4 THEN 4 ELSE blk.done + 1) \in 0..4
      BY DEF TypeOK
    <3> QED
      BY <1>2, <3>1, <3>2, <3>3 DEF Clock, Blocker, TypeOK
  <2>5. box' \in [busy : SUBSET AllReg,
                  mode : [AllReg -> [write : BOOLEAN, by : 0..3]],
                  offRead : SUBSET AllReg, offWrite : SUBSET AllReg,
                  lastDly : BOOLEAN, unit : [{"add", "mult"} -> BOOLEAN],
                  timer : [{"add", "mult"} -> Nat],
                  done : [{"add", "mult"} -> BOOLEAN]]
    <3>1. BusyAfter \in SUBSET AllReg
      BY DEF BusyAfter
    <3>2. ModeAfter \in [AllReg -> [write : BOOLEAN, by : 0..3]]
      <4>1. ASSUME NEW r \in AllReg
            PROVE  Mode(claim[2], r) \in [write : BOOLEAN, by : 0..3]
        BY DEF Mode, By
      <4> QED
        BY <4>1 DEF ModeAfter, TypeOK
    <3>3. UnitAfter \in [{"add", "mult"} -> BOOLEAN]
      BY DEF UnitAfter, Taken, TypeOK
    <3>4. ASSUME NEW u \in {"add", "mult"}
          PROVE  TimerAfter(u) \in Nat
      <4>1. box.timer[u] \in Nat /\ Delay(u) \in Nat
        BY IssueAssumption DEF TypeOK, Delay
      <4> QED
        BY <4>1 DEF TimerAfter
    <3>5. eng.last["add"] \in BOOLEAN
      BY DEF TypeOK, Unit, Engine
    <3>6. /\ [u \in {"add", "mult"} |-> TimerAfter(u)] \in [{"add", "mult"} -> Nat]
          /\ [u \in {"add", "mult"} |-> box.timer[u] = 1]
               \in [{"add", "mult"} -> BOOLEAN]
      BY <3>4
    <3> QED
      BY <1>2, <3>1, <3>2, <3>3, <3>5, <3>6 DEF Clock, Busybox
  <2>6. claim' \in [1..3 -> Instr]
    BY <1>2, <2>2, NopType DEF Clock, Busybox, TypeOK
  <2>7. cmc' \in [channel : Route, start : Engine \cup {"nop"},
                  en : [Route -> BOOLEAN], oper : [Route -> Engine],
                  last : [Route -> BOOLEAN]]
    <3>1. ChannelAfter \in Route
      BY DEF ChannelAfter, Route, TypeOK
    <3>2. (IF blk.taken /\ pre.cmd.op \in Engine THEN pre.cmd.op ELSE "nop")
            \in Engine \cup {"nop"}
      OBVIOUS
    <3> DEFINE Begins(c) == cmc.start # "nop" /\ cmc.channel = c
    <3>3. [c \in Route |-> Begins(c) \/ (cmc.en[c] /\ ~ cmc.last[c])]
            \in [Route -> BOOLEAN]
      OBVIOUS
    <3>4. [c \in Route |-> IF Begins(c) THEN cmc.start ELSE cmc.oper[c]]
            \in [Route -> Engine]
      BY DEF TypeOK
    <3>5. [c \in Route |-> cmc.en[c] /\ eng.last[cmc.oper[c]]]
            \in [Route -> BOOLEAN]
      OBVIOUS
    <3> QED
      BY <1>2, <3>1, <3>2, <3>3, <3>4, <3>5 DEF Clock, Switch
  <2>8. eng' \in [run : [Unit -> Nat], last : [Unit -> BOOLEAN],
                  dead : SUBSET Port, unlBusy : BOOLEAN]
    <3>1. PICK ends \in SUBSET MayEnd, gone \in BOOLEAN : Units(ends, gone)
      BY <1>2 DEF Clock
    <3>2. ASSUME NEW u \in Unit
          PROVE  RunAfter(u, ends) \in Nat
      <4>1. eng.run[u] \in Nat /\ Lead(u) \in Nat
        BY IssueAssumption DEF TypeOK, Lead
      <4> QED
        BY <4>1 DEF RunAfter
    <3>3. [u \in Unit |-> RunAfter(u, ends)] \in [Unit -> Nat]
      BY <3>2
    <3>4. [u \in Unit |-> u \in ends] \in [Unit -> BOOLEAN]
      OBVIOUS
    <3>5. eng.dead \cup {u \in ends \cap Port : LoadStart(u)} \in SUBSET Port
      BY DEF TypeOK
    <3>6. (claim[2].op = "unl" \/ (eng.unlBusy /\ ~ gone)) \in BOOLEAN
      OBVIOUS
    <3> QED
      BY <3>1, <3>3, <3>4, <3>5, <3>6 DEF Units
  <2>9. fresh' \in BOOLEAN
    BY <1>2 DEF Clock, History, AcceptLast, Accept, TypeOK
  <2>10. /\ reads' \in [Unit -> SUBSET AllReg]
         /\ writes' \in [Unit -> SUBSET AllReg]
    BY <1>2, <2>2 DEF Clock, History, TypeOK
  <2> QED
    BY <2>1, <2>3, <2>4, <2>5, <2>6, <2>7, <2>8, <2>9, <2>10 DEF TypeOK
<1> QED
  BY <1>1, <1>2

\* The type invariant: every counter and every set stays within its range.
THEOREM IssueTypes == Spec => []TypeOK
BY TypeInit, TypeStep, PTL DEF Spec

-----------------------------------------------------------------------------
(* What cpu_prefetch holds.                                                *)

\* While ready is given there is nothing to issue; a byte that makes an
\* instruction complete is pending or accepted when cmdReady or processed say
\* so; and the decision to take goes back to a cmdReady that still stands,
\* unless an instruction was taken meanwhile, which done tells.
Holding ==
  /\ fresh => ~ pre.ready
  /\ pre.ready => ~ pre.cmdReady
  /\ pre.processed \/ pre.cmdReady => fresh \/ LastOffered
  /\ ~ fresh /\ pre.cmd # Nop => pre.ready
  /\ blk.toExec => pre.cmdReady \/ blk.done # 4
  /\ blk.taken => pre.cmdReady

LEMMA HoldingInit == Init => Holding
BY DEF Init, Holding

\* A pending byte stays.
LEMMA Held ==
  ASSUME Clock, LastOffered, ~ pre.ready
  PROVE  LastOffered'
<1>1. Host
  BY DEF Clock
<1>2. ~ AcceptLast /\ bus.left = 1 /\ bus.valid
  BY DEF AcceptLast, Accept, LastOffered
<1>3. UNCHANGED bus
  BY <1>1, <1>2 DEF Host, Hold, NextByte, Resume, Offer, Pause, Accept
<1> QED
  BY <1>3 DEF LastOffered

LEMMA HoldingStep == TypeOK /\ Holding /\ [Clock]_vars => Holding'
<1> SUFFICES ASSUME TypeOK, Holding, [Clock]_vars
             PROVE  Holding'
  OBVIOUS
<1>1. CASE UNCHANGED vars
  BY <1>1 DEF Holding, vars, LastOffered
<1>2. CASE Clock
  <2>1. /\ pre'.cmd = IF AcceptLast THEN bus.cur ELSE pre.cmd
        /\ pre'.ready = (blk.taken \/ (pre.ready /\ ~ LastOffered))
        /\ pre'.processed = LastOffered
        /\ pre'.cmdReady = (~ blk.taken /\ (pre.cmdReady \/ pre.processed))
    BY <1>2 DEF Clock, Prefetch, ReadyAfter
  <2>2. /\ blk'.ready = pre.cmdReady
        /\ blk'.toExec = (blk.ready /\ pre.cmdReady /\ blk.wait = 0)
        /\ blk.taken => blk'.done = 0
        /\ blk'.taken => blk.toExec /\ ~ blk.taken /\ blk.done = 4
    BY <1>2 DEF Clock, Blocker
  <2>3. fresh' = (AcceptLast \/ (fresh /\ ~ blk.taken))
    BY <1>2 DEF Clock, History
  <2>4. AcceptLast <=> LastOffered /\ pre.ready
    BY DEF AcceptLast, Accept, LastOffered
  <2>5. /\ fresh \in BOOLEAN /\ pre.ready \in BOOLEAN
        /\ pre.processed \in BOOLEAN /\ pre.cmdReady \in BOOLEAN
        /\ blk.toExec \in BOOLEAN /\ blk.taken \in BOOLEAN
        /\ LastOffered \in BOOLEAN
    BY DEF TypeOK, LastOffered
  <2>6. LastOffered /\ ~ pre.ready => LastOffered'
    BY <1>2, Held
  <2>7. pre.ready => ~ blk.taken
    BY DEF Holding
  <2>8. pre'.processed \/ pre'.cmdReady => fresh' \/ LastOffered'
    BY <2>1, <2>3, <2>4, <2>6, <2>5 DEF Holding
  <2>9. fresh' => ~ pre'.ready
    BY <2>1, <2>3, <2>4, <2>7, <2>5 DEF Holding
  <2>10. pre'.ready => ~ pre'.cmdReady
    BY <2>1, <2>4, <2>5 DEF Holding
  <2>11. ~ fresh' /\ pre'.cmd # Nop => pre'.ready
    BY <2>1, <2>3, <2>4, <2>5 DEF Holding
  <2>12. blk'.toExec => pre'.cmdReady \/ blk'.done # 4
    BY <2>1, <2>2, <2>5 DEF Holding
  <2>13. blk'.taken => pre'.cmdReady
    BY <2>1, <2>2, <2>5 DEF Holding
  <2> QED
    BY <2>8, <2>9, <2>10, <2>11, <2>12, <2>13 DEF Holding
<1> QED
  BY <1>1, <1>2

\* No instruction is overwritten before it was issued, and none is issued
\* twice, however long the units work and however the host pauses.
THEOREM IssuedOnce == Spec => []OneAtATime
<1>1. Holding => OneAtATime
  BY DEF Holding, OneAtATime, AcceptLast, Accept
<1> QED
  BY <1>1, IssueTypes, HoldingInit, HoldingStep, PTL DEF Spec

-----------------------------------------------------------------------------
(* When an instruction is taken.                                           *)
(*                                                                         *)
(* Under the three conditions below no instruction is taken while a        *)
(* register or a unit it needs is in use.  They are those under which the  *)
(* code is used: the coincidences LoaderFree and NoStale do not happen, the*)
(* unloader is not done with a number before the fourth clock, and no      *)
(* instruction names one register in two parts that end at different times.*)

Disciplined ==
  /\ {"LoaderFree", "NoStale"} \subseteq Rules
  /\ UnlLead >= 4
  /\ \A i \in Program : /\ i.op \in {"add", "mult"} => i.d \notin {i.r1, i.r2}
                        /\ i.op = "loaab" => i.r1 # i.r2

\* The code of a unit in r_reg_*_busy_mode.
Code(u) == IF u = "add" THEN 0
           ELSE IF u = "mult" THEN 1
           ELSE IF u = "ldB" THEN 3 ELSE 2

\* Instructions are taken five clocks apart: done tells which claim is set.
Pace ==
  /\ blk.taken => blk.done = 4
  /\ \A s \in 1..3 : blk.done # s - 1 => claim[s] = Nop

\* What is executed was sent by the host; before that nothing is marked.
Commands ==
  /\ pre.cmd \in Program \cup {Nop}
  /\ pre.cmd = Nop => box.busy = {}
  /\ bus.left > 0 => bus.cur \in Program

\* The units: a unit that is not marked rests, and a marked one is in one of
\* four phases.
EngineOK(u) ==
  IF box.unit[u]
  THEN \/ eng.run[u] > 0 /\ ~ eng.last[u] /\ box.timer[u] = 0 /\ ~ box.done[u]
       \/ eng.run[u] = 0 /\ eng.last[u] /\ box.timer[u] = 0 /\ ~ box.done[u]
       \/ eng.run[u] = 0 /\ ~ eng.last[u] /\ box.timer[u] > 0 /\ ~ box.done[u]
          /\ reads[u] = {}
       \/ eng.run[u] = 0 /\ ~ eng.last[u] /\ box.timer[u] = 0 /\ box.done[u]
          /\ reads[u] = {}
  ELSE /\ eng.run[u] = 0 /\ ~ eng.last[u] /\ box.timer[u] = 0 /\ ~ box.done[u]
       /\ reads[u] = {} /\ writes[u] = {}

UnloaderOK ==
  /\ writes["unl"] = {}
  /\ reads["unl"] # {} => eng.run["unl"] > 0 \/ eng.last["unl"]
  /\ eng.run["unl"] > 0 \/ eng.last["unl"] =>
       eng.unlBusy \/ claim[1].op = "unl" \/ claim[2].op = "unl"

LoaderOK(u) ==
  /\ reads[u] = {}
  /\ eng.last[u] => eng.run[u] = 0
  /\ eng.run[u] > 0 \/ eng.last[u] =>
       /\ writes[u] # {}
       /\ \A s \in 1..3 : WrittenBy(u, claim[s]) = {}

UnitsOK == /\ \A u \in {"add", "mult"} : EngineOK(u)
           /\ UnloaderOK
           /\ \A u \in Port : LoaderOK(u)

UnitFree == /\ pre.cmd.op \in {"add", "mult"} => ~ box.unit[pre.cmd.op]
            /\ pre.cmd.op = "unl" => ~ eng.unlBusy

\* What a unit works on is what the instruction just taken wants of it.
Claims ==
  \A s \in 1..3 : \A u \in Unit :
    IF Needs(u, claim[s])
    THEN reads[u] \subseteq ReadBy(u, claim[s]) /\ writes[u] \subseteq WrittenBy(u, claim[s])
    ELSE (reads[u] \cup writes[u]) \cap Uses(claim[s]) = {}

\* The mode of a register in use is that of its user, two clocks after that
\* one was taken.
Modes ==
  \A u \in Unit : \A r \in AllReg \ (Uses(claim[1]) \cup Uses(claim[2])) :
    /\ r \in reads[u] => box.mode[r] = [write |-> FALSE, by |-> Code(u)]
    /\ r \in writes[u] => box.mode[r] = [write |-> TRUE, by |-> Code(u)]

\* A register is given free because the unit that its mode names has ended.
Resting(u, used) == used = {} \/ \E s \in 1..2 : Needs(u, claim[s])

Ends ==
  /\ box.lastDly => reads["add"] = {}
  /\ \A r \in AllReg \ Uses(claim[3]) : \A u \in Unit :
       box.mode[r].by = Code(u) =>
         /\ r \in box.offRead /\ u \in Engine => Resting(u, reads[u])
         /\ r \in box.offWrite /\ u # "unl" => Resting(u, writes[u])

\* The instruction taken d + 1 clocks ago does not end yet.
Lasts(i, d) ==
  \/ i = Nop /\ box.busy = {}
  \/ /\ i \in Program
     /\ \A u \in Unit : Needs(u, i) =>
          /\ ~ eng.last[u] /\ writes[u] = WrittenBy(u, i)
          /\ u \in Engine => /\ reads[u] = ReadBy(u, i)
                             /\ eng.run[u] + d >= IF u = "add" THEN 3 ELSE 4
          /\ u \in Port => eng.run[u] = 0

EndsNow(r) == IF box.mode[r].write THEN WriteEnds(box.mode[r].by)
              ELSE ReadEnds(box.mode[r].by)

Young ==
  /\ blk.done = 0 => pre.cmd = claim[1] /\ Lasts(claim[1], 0)
  /\ blk.done = 1 => pre.line[1] = Uses(claim[2]) /\ Lasts(claim[2], 1)
  /\ blk.done = 2 => pre.line[2] = Uses(claim[3]) /\ Lasts(claim[3], 2)
  /\ blk.done = 3 => \/ box.busy = {}
                     \/ \E r \in pre.line[3] \cap InUse : ~ EndsNow(r)

\* The instruction that cpu_blocker compares is that of cpu_prefetch, or the
\* one before, which is still marked then.
Older(w) ==
  \/ w = 4 /\ blk.done = 2
  \/ w = 3 /\ blk.done = 3
  \/ w = 2 /\ (box.busy = {} \/ \E r \in pre.line[4] \cap box.busy : ~ Freed(r))
  \/ w = 1 /\ (box.busy = {} \/ pre.line[5] \cap box.busy # {})

Settled == /\ pre.op = pre.cmd.op
           /\ \A k \in 1..5 : pre.line[k] = Uses(pre.cmd)

Lines ==
  /\ pre.ready /\ pre.processed => blk.done = 0
  /\ pre.cmdReady /\ ~ blk.ready => pre.line[1] = Uses(pre.cmd) \/ blk.done = 1
  /\ pre.cmdReady /\ blk.ready =>
       /\ pre.op = pre.cmd.op
       /\ \A k \in 1..5 : k + blk.wait <= 5 => pre.line[k] = Uses(pre.cmd)
       /\ \A k \in 2..5 : k + blk.wait = 6 =>
            pre.line[k] = Uses(pre.cmd) \/ Older(blk.wait)
  /\ pre.cmdReady /\ blk.toExec => Settled
  /\ blk.taken => Settled

\* What the signals of cpu_blocker say of the instruction.
Apart == box.busy \cap Uses(pre.cmd) = {}

Signals ==
  /\ pre.cmdReady /\ blk.ready /\ blk.wait = 0 /\ ~ blk.vec => Apart
  /\ pre.cmdReady /\ blk.toExec /\ ~ blk.reg => Apart
  /\ pre.cmdReady /\ blk.toExec /\ blk.done = 4 /\ ~ blk.unit => UnitFree
  /\ blk.taken => Apart /\ UnitFree

NotExcluded == \A rule \in Rules : ~ Excluded(rule)

IssueInv == /\ TypeOK /\ Holding /\ NotExcluded
            /\ Pace /\ Commands /\ UnitsOK /\ InUseIsBusy
            /\ Claims /\ Modes /\ Ends
            /\ Young /\ Lines /\ Signals

-----------------------------------------------------------------------------
(* Lemmas about instructions.                                              *)

LEMMA NopFacts ==
  /\ Nop.op = "nop" /\ Uses(Nop) = {}
  /\ \A u \in Unit : ~ Needs(u, Nop) /\ ReadBy(u, Nop) = {} /\ WrittenBy(u, Nop) = {}
<1>1. Nop.op = "nop"
  BY DEF Nop
<1>2. ASSUME NEW u \in Unit
      PROVE  ~ Needs(u, Nop) /\ ReadBy(u, Nop) = {} /\ WrittenBy(u, Nop) = {}
  BY <1>1 DEF Needs, ReadBy, WrittenBy, Unit, Engine, Port
<1> QED
  BY <1>1, <1>2 DEF Uses

LEMMA Parts ==
  ASSUME NEW i, NEW u \in Unit
  PROVE  /\ ReadBy(u, i) \subseteq Uses(i) /\ WrittenBy(u, i) \subseteq Uses(i)
         /\ ~ Needs(u, i) => ReadBy(u, i) = {} /\ WrittenBy(u, i) = {}
BY DEF Uses, Needs, ReadBy

LEMMA ProgramFacts ==
  ASSUME NEW i \in Program
  PROVE  /\ i.op \in Op \ {"nop"} /\ i # Nop
         /\ i.r1 \in Register /\ i.r2 \in Register /\ i.d \in Register
         /\ Shadow \notin Register
         /\ i.r1 \in Uses(i) /\ \E u \in Unit : Needs(u, i)
<1>1. /\ i.op \in Op \ {"nop"} /\ Shadow \notin Register
      /\ i.r1 \in Register /\ i.r2 \in Register /\ i.d \in Register
  BY ProgramAssumption
<1>2. PICK u \in Unit : i.r1 \in ReadBy(u, i) \cup WrittenBy(u, i)
  <2>1. CASE i.op \in Engine
    BY <2>1 DEF ReadBy, Unit
  <2>2. CASE i.op \in {"loaa", "loaab"}
    BY <2>2 DEF WrittenBy, Unit, Port
  <2>3. CASE i.op = "loab"
    BY <2>3 DEF WrittenBy, Unit, Port
  <2> QED
    BY <1>1, <2>1, <2>2, <2>3 DEF Op, Engine
<1>3. Needs(u, i)
  BY <1>2 DEF Needs, ReadBy
<1> QED
  BY <1>1, <1>2, <1>3, NopFacts DEF Uses

\* The mode of a register says by whom and in which part it is used.
LEMMA ModeOf ==
  ASSUME Disciplined, NEW i \in Program, NEW u \in Unit, NEW r
  PROVE  /\ r \in ReadBy(u, i) => Mode(i, r) = [write |-> FALSE, by |-> Code(u)]
         /\ r \in WrittenBy(u, i) => Mode(i, r) = [write |-> TRUE, by |-> Code(u)]
<1>1. /\ i.op \in {"add", "mult"} => i.d \notin {i.r1, i.r2}
      /\ i.op = "loaab" => i.r1 # i.r2
      /\ Shadow \notin {i.r1, i.r2, i.d}
  BY ProgramFacts DEF Disciplined
<1>2. ASSUME r \in ReadBy(u, i)
      PROVE  Mode(i, r) = [write |-> FALSE, by |-> Code(u)]
  <2>1. i.op = u /\ i.op \in Op
    BY <1>2, ProgramFacts DEF ReadBy
  <2>2. u \in Engine
    BY <2>1 DEF Op, Unit, Port
  <2>3. By(i, r) = Code(u)
    BY <2>1, <2>2 DEF By, Code, Engine
  <2> QED
    BY <1>2, <2>1, <2>2, <2>3 DEF Mode
<1>3. ASSUME r \in WrittenBy(u, i)
      PROVE  Mode(i, r) = [write |-> TRUE, by |-> Code(u)]
  <2>1. CASE u = "ldA"
    BY <1>3, <2>1 DEF WrittenBy, Mode, By, Code, Engine
  <2>2. CASE u = "ldB"
    BY <1>1, <1>3, <2>2 DEF WrittenBy, Mode, By, Code, Engine
  <2>3. CASE u \in {"add", "mult"}
    <3>1. i.op = u /\ r \notin ReadBy(u, i)
      BY <1>1, <1>3, <2>3 DEF WrittenBy, ReadBy
    <3> QED
      BY <2>3, <3>1 DEF Mode, By, Code
  <2> QED
    BY <1>3, <2>1, <2>2, <2>3 DEF WrittenBy, Unit, Engine, Port
<1> QED
  BY <1>2, <1>3

-----------------------------------------------------------------------------
(* A clock, register by register.                                          *)

LEMMA PrefetchClock ==
  ASSUME Clock
  PROVE  /\ pre'.cmd = IF AcceptLast THEN bus.cur ELSE pre.cmd
         /\ pre'.op = pre.cmd.op
         /\ pre'.ready <=> ReadyAfter
         /\ pre'.processed <=> LastOffered
         /\ pre'.cmdReady <=> (~ blk.taken /\ (pre.cmdReady \/ pre.processed))
         /\ pre'.line[1] = Uses(pre.cmd)
         /\ \A k \in 2..5 : pre'.line[k] = pre.line[k - 1]
<1>1. /\ pre'.cmd = IF AcceptLast THEN bus.cur ELSE pre.cmd
      /\ pre'.op = pre.cmd.op
      /\ pre'.ready = ReadyAfter
      /\ pre'.processed = LastOffered
      /\ pre'.cmdReady = (~ blk.taken /\ (pre.cmdReady \/ pre.processed))
      /\ pre'.line = [s \in 1..5 |-> IF s = 1 THEN Uses(pre.cmd)
                                    ELSE pre.line[s - 1]]
  BY DEF Clock, Prefetch
<1>2. pre'.line[1] = Uses(pre.cmd) /\ \A k \in 2..5 : pre'.line[k] = pre.line[k - 1]
  BY <1>1
<1> QED
  BY <1>1, <1>2, Zenon

LEMMA BlockerClock ==
  ASSUME Clock
  PROVE  /\ blk'.unit <=> UnitBusy
         /\ blk'.vec <=> (box.busy \cap pre.line[5] # {})
         /\ blk'.reg <=> blk.vec
         /\ blk'.ready <=> pre.cmdReady
         /\ blk'.wait = WaitAfter
         /\ blk'.toExec <=> (blk.ready /\ pre.cmdReady /\ blk.wait = 0)
         /\ blk'.done = IF blk.taken THEN 0
                        ELSE IF blk.done = 4 THEN 4 ELSE blk.done + 1
         /\ blk'.taken <=> (/\ ~ blk.unit /\ ~ blk.reg /\ blk.toExec
                            /\ ~ blk.taken /\ blk.done = 4)
BY DEF Clock, Blocker

LEMMA BusyboxClock ==
  ASSUME Clock
  PROVE  /\ box'.busy = BusyAfter
         /\ box'.mode = ModeAfter
         /\ box'.offRead = {r \in AllReg : ReadEnds(box.mode[r].by)}
         /\ box'.offWrite = {r \in AllReg : WriteEnds(box.mode[r].by)}
         /\ box'.lastDly <=> eng.last["add"]
         /\ \A u \in {"add", "mult"} :
              /\ box'.unit[u] <=> (Taken(u) \/ (box.unit[u] /\ ~ box.done[u]))
              /\ box'.timer[u] = TimerAfter(u)
              /\ box'.done[u] <=> (box.timer[u] = 1)
         /\ claim'[1] = IF blk.taken THEN pre.cmd ELSE Nop
         /\ claim'[2] = claim[1] /\ claim'[3] = claim[2]
<1>1. /\ box'.busy = BusyAfter
      /\ box'.mode = ModeAfter
      /\ box'.offRead = {r \in AllReg : ReadEnds(box.mode[r].by)}
      /\ box'.offWrite = {r \in AllReg : WriteEnds(box.mode[r].by)}
      /\ box'.lastDly = eng.last["add"]
      /\ box'.unit = UnitAfter
      /\ box'.timer = [u \in {"add", "mult"} |-> TimerAfter(u)]
      /\ box'.done = [u \in {"add", "mult"} |-> box.timer[u] = 1]
      /\ claim' = [s \in 1..3 |-> IF s > 1 THEN claim[s - 1]
                                  ELSE IF blk.taken THEN pre.cmd ELSE Nop]
  BY DEF Clock, Busybox
<1>2. ASSUME NEW u \in {"add", "mult"}
      PROVE  /\ box'.unit[u] = (Taken(u) \/ (box.unit[u] /\ ~ box.done[u]))
             /\ box'.timer[u] = TimerAfter(u)
             /\ box'.done[u] = (box.timer[u] = 1)
  BY <1>1, Zenon DEF UnitAfter
<1>3. /\ claim'[1] = IF blk.taken THEN pre.cmd ELSE Nop
      /\ claim'[2] = claim[1] /\ claim'[3] = claim[2]
  BY <1>1
<1> QED
  BY <1>1, <1>2, <1>3, Zenon

LEMMA UnitsClock ==
  ASSUME Clock
  PROVE  \E ends \in SUBSET MayEnd, gone \in BOOLEAN :
           /\ gone => eng.unlBusy /\ eng.run["unl"] = 0 /\ ~ eng.last["unl"]
           /\ \A u \in Unit : eng'.run[u] = RunAfter(u, ends)
           /\ \A u \in Unit : eng'.last[u] <=> (u \in ends)
           /\ eng'.unlBusy <=> (claim[2].op = "unl" \/ (eng.unlBusy /\ ~ gone))
<1>1. PICK ends \in SUBSET MayEnd, gone \in BOOLEAN : Units(ends, gone)
  BY DEF Clock
<1> QED
  BY <1>1 DEF Units

LEMMA HistoryClock ==
  ASSUME Clock, NEW u \in Unit
  PROVE  /\ reads'[u] = IF blk.taken /\ Needs(u, pre.cmd) THEN ReadBy(u, pre.cmd)
                        ELSE IF eng.last[u] THEN {} ELSE reads[u]
         /\ writes'[u] = IF blk.taken /\ Needs(u, pre.cmd) THEN WrittenBy(u, pre.cmd)
                         ELSE IF IF u \in Port THEN eng.last[u]
                                 ELSE u # "unl" /\ box.done[u]
                              THEN {} ELSE writes[u]
BY DEF Clock, History

-----------------------------------------------------------------------------
(* The invariant holds at the start.                                       *)

LEMMA IssueInvInit == Init => IssueInv
<1> SUFFICES ASSUME Init PROVE IssueInv
  OBVIOUS
<1>1. TypeOK /\ Holding
  BY TypeInit, HoldingInit
<1>2. /\ pre.cmd = Nop /\ pre.cmdReady = FALSE /\ pre.processed = FALSE
      /\ blk.taken = FALSE /\ blk.done = 4
      /\ box.busy = {} /\ box.offRead = {} /\ box.offWrite = {} /\ box.lastDly = FALSE
      /\ bus.left = 0 /\ claim = [s \in 1..3 |-> Nop]
      /\ reads = [u \in Unit |-> {}] /\ writes = [u \in Unit |-> {}]
      /\ eng.run = [u \in Unit |-> 0] /\ eng.last = [u \in Unit |-> FALSE]
      /\ box.unit = [u \in {"add", "mult"} |-> FALSE]
      /\ box.timer = [u \in {"add", "mult"} |-> 0]
      /\ box.done = [u \in {"add", "mult"} |-> FALSE]
  BY DEF Init
<1>3. NotExcluded
  BY <1>2 DEF NotExcluded, Excluded, Freed
<1>4. Pace /\ Commands
  BY <1>2 DEF Pace, Commands
<1>5. UnitsOK
  BY <1>2 DEF UnitsOK, EngineOK, UnloaderOK, LoaderOK, Unit, Engine, Port
<1>6. InUseIsBusy
  BY <1>2 DEF InUseIsBusy, InUse
<1>7. Claims
  BY <1>2, NopFacts DEF Claims
<1>8. Modes /\ Ends
  BY <1>2 DEF Modes, Ends
<1>9. Young /\ Lines /\ Signals
  BY <1>2 DEF Young, Lines, Signals
<1> QED
  BY <1>1, <1>3, <1>4, <1>5, <1>6, <1>7, <1>8, <1>9 DEF IssueInv

-----------------------------------------------------------------------------
(* What the invariant says of the moment in which an instruction is taken, *)
(* and of the moment in which a register is given free.                    *)

LEMMA WhenTaken ==
  ASSUME Disciplined, IssueInv, blk.taken
  PROVE  /\ blk.done = 4 /\ \A s \in 1..3 : claim[s] = Nop
         /\ ~ AcceptLast
         /\ pre.op = pre.cmd.op /\ pre.line[5] = Uses(pre.cmd)
         /\ Uses(pre.cmd) \cap InUse = {}
         /\ \A u \in Unit : Needs(u, pre.cmd) =>
              /\ reads[u] = {} /\ writes[u] = {} /\ eng.run[u] = 0 /\ ~ eng.last[u]
              /\ u \in Engine => pre.cmd.op = u
         /\ pre.cmd.op = "unl" => ~ eng.unlBusy
<1>1. blk.done = 4 /\ \A s \in 1..3 : claim[s] = Nop
  BY DEF IssueInv, Pace
<1>2. ~ AcceptLast
  BY DEF IssueInv, Holding, AcceptLast, Accept
<1>3. pre.op = pre.cmd.op /\ pre.line[5] = Uses(pre.cmd)
  BY DEF IssueInv, Lines, Settled
<1>4. Uses(pre.cmd) \cap InUse = {}
  BY DEF IssueInv, Signals, Apart, InUseIsBusy
<1>5. UnitFree
  BY DEF IssueInv, Signals
<1>6. pre.cmd.op \in Op
  BY DEF IssueInv, TypeOK, Instr
<1>7. ASSUME NEW u \in Unit, Needs(u, pre.cmd)
      PROVE  /\ reads[u] = {} /\ writes[u] = {} /\ eng.run[u] = 0 /\ ~ eng.last[u]
             /\ u \in Engine => pre.cmd.op = u
  <2>1. CASE u \in {"add", "mult"}
    <3>1. pre.cmd.op = u
      BY <1>7, <2>1 DEF Needs, WrittenBy
    <3>2. EngineOK(u) /\ ~ box.unit[u]
      BY <1>5, <2>1, <3>1 DEF UnitFree, IssueInv, UnitsOK
    <3> QED
      BY <3>1, <3>2 DEF EngineOK
  <2>2. CASE u = "unl"
    <3>1. pre.cmd.op = "unl"
      BY <1>7, <2>2 DEF Needs, WrittenBy
    <3>2. ~ eng.unlBusy
      BY <1>5, <3>1 DEF UnitFree
    <3>3. claim[1].op = "nop" /\ claim[2].op = "nop"
      BY <1>1, NopFacts
    <3>4. UnloaderOK /\ eng.run["unl"] \in Nat
      BY DEF IssueInv, UnitsOK, TypeOK, Unit, Engine
    <3> QED
      BY <2>2, <3>1, <3>2, <3>3, <3>4 DEF UnloaderOK
  <2>3. CASE u \in Port
    <3>1. WrittenBy(u, pre.cmd) # {}
      BY <1>6, <1>7, <2>3 DEF Needs, Port, Op
    <3>2. ~ Excluded("LoaderFree")
      BY DEF IssueInv, NotExcluded, Disciplined
    <3>3. writes[u] = {}
      BY <2>3, <3>1, <3>2 DEF Excluded, Loads
    <3>4. LoaderOK(u) /\ eng.run[u] \in Nat
      BY <2>3 DEF IssueInv, UnitsOK, TypeOK
    <3> QED
      BY <2>3, <3>3, <3>4 DEF LoaderOK, Port, Engine
  <2> QED
    BY <2>1, <2>2, <2>3 DEF Unit, Engine
<1> QED
  BY <1>1, <1>2, <1>3, <1>4, <1>5, <1>7 DEF UnitFree

\* No register in use is given free.
LEMMA WhenFreed ==
  ASSUME Disciplined, IssueInv, NEW r \in AllReg, Freed(r)
  PROVE  r \notin InUse
<1>1. ~ Excluded("NoStale")
  BY DEF IssueInv, NotExcluded, Disciplined
<1>2. \A s \in 1..3 : r \notin Uses(claim[s])
  BY <1>1 DEF Excluded
<1>. r \in AllReg \ (Uses(claim[1]) \cup Uses(claim[2])) /\ r \in AllReg \ Uses(claim[3])
  BY <1>2
<1>3. ASSUME NEW u \in Unit, r \in reads[u]
      PROVE  FALSE
  <2>1. box.mode[r] = [write |-> FALSE, by |-> Code(u)]
    BY <1>2, <1>3 DEF IssueInv, Modes
  <2>2. r \in box.offRead
    BY <2>1 DEF Freed
  <2>3. u \in Engine
    BY <1>3 DEF IssueInv, UnitsOK, LoaderOK, Unit
  <2>4. Resting(u, reads[u])
    BY <1>2, <2>1, <2>2, <2>3 DEF IssueInv, Ends
  <2>5. PICK s \in 1..2 : Needs(u, claim[s])
    BY <1>3, <2>4 DEF Resting
  <2>6. r \in ReadBy(u, claim[s])
    BY <1>3, <2>5 DEF IssueInv, Claims
  <2> QED
    BY <1>2, <2>6, Parts
<1>4. ASSUME NEW u \in Unit, r \in writes[u]
      PROVE  FALSE
  <2>1. box.mode[r] = [write |-> TRUE, by |-> Code(u)]
    BY <1>2, <1>4 DEF IssueInv, Modes
  <2>2. r \in box.offWrite
    BY <2>1 DEF Freed
  <2>3. u # "unl"
    BY <1>4 DEF IssueInv, UnitsOK, UnloaderOK
  <2>4. Resting(u, writes[u])
    BY <1>2, <2>1, <2>2, <2>3 DEF IssueInv, Ends
  <2>5. PICK s \in 1..2 : Needs(u, claim[s])
    BY <1>4, <2>4 DEF Resting
  <2>6. r \in WrittenBy(u, claim[s])
    BY <1>4, <2>5 DEF IssueInv, Claims
  <2> QED
    BY <1>2, <2>6, Parts
<1> QED
  BY <1>3, <1>4 DEF InUse

\* A command that waits is not replaced, and no flag is set meanwhile.
LEMMA WhenWaiting ==
  ASSUME IssueInv, Clock, pre'.cmdReady \/ blk'.taken, pre.cmdReady \/ blk'.taken
  PROVE  /\ pre.cmdReady /\ ~ blk.taken /\ ~ AcceptLast
         /\ pre'.cmd = pre.cmd /\ pre'.op = pre.cmd.op
         /\ box'.busy = {r \in box.busy : ~ Freed(r)}
         /\ \A u \in {"add", "mult"} : box'.unit[u] => box.unit[u]
<1>1. pre.cmdReady /\ ~ blk.taken
  BY PrefetchClock, BlockerClock DEF IssueInv, Holding
<1>2. ~ AcceptLast
  BY <1>1 DEF IssueInv, Holding, AcceptLast, Accept
<1>3. pre'.cmd = pre.cmd /\ pre'.op = pre.cmd.op
  BY <1>2, PrefetchClock
<1>4. box'.busy = {r \in box.busy : ~ Freed(r)}
  <2>1. box.busy \subseteq AllReg
    BY DEF IssueInv, TypeOK
  <2> QED
    BY <1>1, <2>1, BusyboxClock DEF BusyAfter
<1>5. \A u \in {"add", "mult"} : box'.unit[u] => box.unit[u]
  BY <1>1, BusyboxClock DEF Taken
<1> QED
  BY <1>1, <1>2, <1>3, <1>4, <1>5

-----------------------------------------------------------------------------
(* A clock preserves each part of the invariant.                           *)

LEMMA PaceStep ==
  ASSUME Disciplined, IssueInv, Clock
  PROVE  Pace'
<1>1. blk.done \in 0..4 /\ Pace
  BY DEF IssueInv, TypeOK
<1>. \A s \in 1..3 : s = 1 \/ s = 2 \/ s = 3
  OBVIOUS
<1>2. CASE blk.taken
  <2>1. blk'.done = 0 /\ ~ blk'.taken
    BY <1>2, BlockerClock
  <2>2. claim'[2] = Nop /\ claim'[3] = Nop
    BY <1>2, WhenTaken, BusyboxClock
  <2> QED
    BY <2>1, <2>2 DEF Pace
<1>3. CASE ~ blk.taken
  <2>1. /\ blk'.done = IF blk.done = 4 THEN 4 ELSE blk.done + 1
        /\ blk'.taken => blk.done = 4
    BY <1>3, BlockerClock
  <2>2. claim'[1] = Nop /\ claim'[2] = claim[1] /\ claim'[3] = claim[2]
    BY <1>3, BusyboxClock
  <2>3. /\ blk.done # 0 => claim[1] = Nop
        /\ blk.done # 1 => claim[2] = Nop
    BY <1>1 DEF Pace
  <2> QED
    BY <1>1, <2>1, <2>2, <2>3 DEF Pace
<1> QED
  BY <1>2, <1>3

LEMMA CommandsStep ==
  ASSUME Disciplined, IssueInv, Clock
  PROVE  Commands'
<1>1. Commands /\ box.busy \subseteq AllReg
  BY DEF IssueInv, TypeOK
<1>2. bus'.left > 0 => bus'.cur \in Program
  <2>1. Host /\ bus \in [cur : Instr, left : 0..2, valid : BOOLEAN]
    BY DEF Clock, IssueInv, TypeOK
  <2>2. CASE Hold
    BY <1>1, <2>2 DEF Hold, Commands
  <2>3. CASE NextByte \/ Resume
    <3>0. /\ bus.left = 1 \/ bus.left = 2
          /\ \E v \in BOOLEAN : \/ bus' = [bus EXCEPT !.left = 1, !.valid = v]
                              \/ bus' = [bus EXCEPT !.valid = v]
      BY <2>3, Zenon DEF NextByte, Resume
    <3>1. bus.left > 0
      BY <3>0
    <3>2. bus'.cur = bus.cur
      <4>1. ASSUME NEW v, bus' = [bus EXCEPT !.left = 1, !.valid = v]
            PROVE  bus'.cur = bus.cur
        BY <2>1, <4>1
      <4>2. ASSUME NEW v, bus' = [bus EXCEPT !.valid = v]
            PROVE  bus'.cur = bus.cur
        BY <2>1, <4>2
      <4> QED
        BY <3>0, <4>1, <4>2, Zenon
    <3> QED
      BY <1>1, <3>1, <3>2 DEF Commands
  <2>4. CASE Offer
    <3>1. PICK i \in Program : bus' = [cur |-> i, left |-> Bytes(i), valid |-> TRUE]
      BY <2>4, IssueAssumption DEF Offer
    <3> QED
      BY <3>1
  <2>5. CASE Pause
    BY <2>5 DEF Pause
  <2> QED
    BY <2>1, <2>2, <2>3, <2>4, <2>5 DEF Host
<1>3. pre'.cmd \in Program \cup {Nop}
  BY <1>1, PrefetchClock DEF Commands, AcceptLast
<1>4. ASSUME pre'.cmd = Nop PROVE box'.busy = {}
  <2>1. pre.cmd = Nop
    <3>1. CASE AcceptLast
      BY <1>1, <1>4, <3>1, PrefetchClock, ProgramFacts DEF Commands, AcceptLast
    <3>2. CASE ~ AcceptLast
      BY <1>4, <3>2, PrefetchClock
    <3> QED
      BY <3>1, <3>2
  <2>2. blk.taken => pre.line[5] = {}
    BY <2>1, WhenTaken, NopFacts
  <2> QED
    BY <1>1, <2>1, <2>2, BusyboxClock DEF Commands, BusyAfter
<1> QED
  BY <1>2, <1>3, <1>4 DEF Commands

\* What a unit works on: the instruction taken, or part of what it had.
LEMMA UsageStep ==
  ASSUME Clock, NEW u \in Unit
  PROVE  IF blk.taken /\ Needs(u, pre.cmd)
         THEN reads'[u] = ReadBy(u, pre.cmd) /\ writes'[u] = WrittenBy(u, pre.cmd)
         ELSE reads'[u] \subseteq reads[u] /\ writes'[u] \subseteq writes[u]
BY HistoryClock

LEMMA EngineStep ==
  ASSUME Disciplined, IssueInv, Clock, NEW u \in {"add", "mult"}
  PROVE  EngineOK(u)'
<1>1. PICK ends \in SUBSET MayEnd :
        /\ eng'.run[u] = RunAfter(u, ends)
        /\ eng'.last[u] <=> (u \in ends)
  BY UnitsClock DEF Unit, Engine
<1>2. u \in ends => eng.run[u] = 1
  BY <1>1 DEF MayEnd
<1>3. /\ box'.unit[u] <=> (Taken(u) \/ (box.unit[u] /\ ~ box.done[u]))
      /\ box'.timer[u] = TimerAfter(u)
      /\ box'.done[u] <=> (box.timer[u] = 1)
  BY BusyboxClock
<1>4. /\ u \in Unit /\ u \in Engine /\ u \notin Port /\ u # "unl"
      /\ eng.run[u] \in Nat /\ box.timer[u] \in Nat
      /\ Lead(u) \in Nat \ {0} /\ Delay(u) \in Nat \ {0}
      /\ EngineOK(u)
  BY IssueAssumption DEF IssueInv, TypeOK, UnitsOK, Unit, Engine, Port, Lead, Delay
<1>5. CASE Taken(u)
  <2>1. Needs(u, pre.cmd) /\ blk.taken
    BY <1>5, WhenTaken DEF Taken, Needs
  <2>2. eng.run[u] = 0 /\ ~ eng.last[u]
    BY <1>4, <2>1, WhenTaken
  <2>3. box.timer[u] = 0
    <3>1. UnitFree
      BY <2>1 DEF IssueInv, Signals
    <3>2. ~ box.unit[u]
      BY <1>5, <2>1, <3>1, WhenTaken DEF UnitFree, Taken
    <3> QED
      BY <1>4, <3>2 DEF EngineOK
  <2>4. eng'.run[u] = Lead(u) /\ ~ eng'.last[u]
    BY <1>1, <1>2, <1>4, <1>5, <2>2 DEF RunAfter
  <2>5. box'.timer[u] = 0 /\ ~ box'.done[u] /\ box'.unit[u]
    BY <1>3, <1>5, <2>2, <2>3 DEF TimerAfter
  <2> QED
    BY <1>4, <2>4, <2>5 DEF EngineOK
<1>6. CASE ~ Taken(u)
  <2>0. ~ (blk.taken /\ Needs(u, pre.cmd))
    BY <1>4, <1>6, WhenTaken DEF Taken
  <2>1. /\ reads'[u] = IF eng.last[u] THEN {} ELSE reads[u]
        /\ writes'[u] = IF box.done[u] THEN {} ELSE writes[u]
    BY <1>4, <2>0, HistoryClock
  <2>2. eng'.run[u] = IF u \in ends THEN 0
                      ELSE IF eng.run[u] > 1 THEN eng.run[u] - 1 ELSE eng.run[u]
    BY <1>1, <1>4, <1>6 DEF RunAfter
  <2>3. CASE ~ box.unit[u]
    <3>1. eng'.run[u] = 0 /\ ~ eng'.last[u]
      BY <1>1, <1>2, <1>4, <2>2, <2>3 DEF EngineOK
    <3>2. box'.timer[u] = 0 /\ ~ box'.done[u] /\ ~ box'.unit[u]
      BY <1>3, <1>4, <1>6, <2>3 DEF EngineOK, TimerAfter
    <3>3. reads'[u] = {} /\ writes'[u] = {}
      BY <1>4, <2>1, <2>3 DEF EngineOK
    <3> QED
      BY <3>1, <3>2, <3>3 DEF EngineOK
  <2>4. CASE box.unit[u]
    <3>1. CASE eng.run[u] > 0 /\ ~ eng.last[u] /\ box.timer[u] = 0 /\ ~ box.done[u]
      <4>1. box'.timer[u] = 0 /\ ~ box'.done[u] /\ box'.unit[u]
        BY <1>3, <2>4, <3>1 DEF TimerAfter
      <4>2. \/ eng'.run[u] > 0 /\ ~ eng'.last[u]
            \/ eng'.run[u] = 0 /\ eng'.last[u]
        BY <1>1, <1>4, <2>2, <3>1
      <4> QED
        BY <4>1, <4>2 DEF EngineOK
    <3>2. CASE eng.run[u] = 0 /\ eng.last[u] /\ box.timer[u] = 0 /\ ~ box.done[u]
      <4>1. box'.timer[u] > 0 /\ ~ box'.done[u] /\ box'.unit[u]
        BY <1>3, <1>4, <2>4, <3>2 DEF TimerAfter
      <4>2. eng'.run[u] = 0 /\ ~ eng'.last[u] /\ reads'[u] = {}
        BY <1>1, <1>2, <2>1, <2>2, <3>2
      <4> QED
        BY <4>1, <4>2 DEF EngineOK
    <3>3. CASE /\ eng.run[u] = 0 /\ ~ eng.last[u] /\ box.timer[u] > 0 /\ ~ box.done[u]
               /\ reads[u] = {}
      <4>1. /\ box'.unit[u]
            /\ box'.timer[u] = box.timer[u] - 1
            /\ box'.done[u] <=> (box.timer[u] = 1)
        BY <1>3, <1>4, <2>4, <3>3 DEF TimerAfter
      <4>2. eng'.run[u] = 0 /\ ~ eng'.last[u] /\ reads'[u] = {}
        BY <1>1, <1>2, <2>1, <2>2, <3>3
      <4> QED
        BY <1>4, <3>3, <4>1, <4>2 DEF EngineOK
    <3>4. CASE /\ eng.run[u] = 0 /\ ~ eng.last[u] /\ box.timer[u] = 0 /\ box.done[u]
               /\ reads[u] = {}
      <4>1. ~ box'.unit[u] /\ box'.timer[u] = 0 /\ ~ box'.done[u]
        BY <1>3, <1>6, <3>4 DEF TimerAfter
      <4>2. /\ eng'.run[u] = 0 /\ ~ eng'.last[u] /\ reads'[u] = {} /\ writes'[u] = {}
        BY <1>1, <1>2, <2>1, <2>2, <3>4
      <4> QED
        BY <4>1, <4>2 DEF EngineOK
    <3> QED
      BY <1>4, <2>4, <3>1, <3>2, <3>3, <3>4 DEF EngineOK
  <2> QED
    BY <2>3, <2>4
<1> QED
  BY <1>5, <1>6

LEMMA UnloaderStep ==
  ASSUME Disciplined, IssueInv, Clock
  PROVE  UnloaderOK'
<1> DEFINE u == "unl"
<1>1. PICK ends \in SUBSET MayEnd, gone \in BOOLEAN :
        /\ gone => eng.unlBusy /\ eng.run["unl"] = 0 /\ ~ eng.last["unl"]
        /\ eng'.run["unl"] = RunAfter("unl", ends)
        /\ eng'.last["unl"] <=> ("unl" \in ends)
        /\ eng'.unlBusy <=> (claim[2].op = "unl" \/ (eng.unlBusy /\ ~ gone))
  BY UnitsClock DEF Unit, Engine
<1>2. "unl" \in ends => eng.run["unl"] = 1
  BY <1>1 DEF MayEnd
<1>3. /\ u \in Unit /\ u \in Engine /\ u \notin Port
      /\ eng.run[u] \in Nat /\ Lead(u) \in Nat \ {0} /\ UnloaderOK
  BY IssueAssumption DEF IssueInv, TypeOK, UnitsOK, Unit, Engine, Port, Lead
<1>4. claim'[2] = claim[1] /\ claim'[1] = IF blk.taken THEN pre.cmd ELSE Nop
  BY BusyboxClock
<1>5. writes'[u] = {}
  BY <1>3, HistoryClock DEF WrittenBy, UnloaderOK
<1>6. CASE Taken(u)
  <2>1. blk.taken /\ pre.cmd.op = u /\ Needs(u, pre.cmd)
    BY <1>6, WhenTaken DEF Taken, Needs
  <2>2. eng'.run[u] = Lead(u)
    BY <1>1, <1>3, <1>6 DEF RunAfter
  <2> QED
    BY <1>3, <1>4, <1>5, <2>1, <2>2 DEF UnloaderOK
<1>7. CASE ~ Taken(u)
  <2>0. ~ (blk.taken /\ Needs(u, pre.cmd))
    BY <1>3, <1>7, WhenTaken DEF Taken
  <2>1. reads'[u] = IF eng.last[u] THEN {} ELSE reads[u]
    BY <1>3, <2>0, HistoryClock
  <2>2. eng'.run[u] = IF u \in ends THEN 0
                      ELSE IF eng.run[u] > 1 THEN eng.run[u] - 1 ELSE eng.run[u]
    BY <1>1, <1>3, <1>7 DEF RunAfter
  <2>3. reads'[u] # {} => eng'.run[u] > 0 \/ eng'.last[u]
    BY <1>1, <1>3, <2>1, <2>2 DEF UnloaderOK
  <2>4. eng'.run[u] > 0 \/ eng'.last[u] => eng.run[u] > 0
    BY <1>1, <1>2, <1>3, <2>2
  <2>5. eng.run[u] > 0 => eng'.unlBusy \/ claim'[2].op = u
    BY <1>1, <1>3, <1>4 DEF UnloaderOK
  <2> QED
    BY <1>5, <2>3, <2>4, <2>5 DEF UnloaderOK
<1> QED
  BY <1>6, <1>7

LEMMA LoaderStep ==
  ASSUME Disciplined, IssueInv, Clock, NEW u \in Port
  PROVE  LoaderOK(u)'
<1>1. PICK ends \in SUBSET MayEnd :
        /\ eng'.run[u] = RunAfter(u, ends)
        /\ eng'.last[u] <=> (u \in ends)
  BY UnitsClock DEF Unit
<1>2. u \in ends => eng.run[u] = 1
  BY <1>1 DEF MayEnd
<1>3. /\ u \in Unit /\ u \notin Engine /\ eng.run[u] \in Nat /\ LoaderOK(u)
  BY DEF IssueInv, TypeOK, UnitsOK, Unit, Engine, Port
<1>4. /\ claim'[1] = IF blk.taken THEN pre.cmd ELSE Nop
      /\ claim'[2] = claim[1] /\ claim'[3] = claim[2]
  BY BusyboxClock
<1>5. reads'[u] = {}
  <2>1. pre.cmd.op # u
    BY DEF IssueInv, TypeOK, Instr, Op, Port
  <2> QED
    BY <1>3, <2>1, HistoryClock DEF ReadBy, LoaderOK
<1>6. eng'.last[u] => eng'.run[u] = 0
  BY <1>1, <1>3 DEF RunAfter
<1>. \A s \in 1..3 : s = 1 \/ s = 2 \/ s = 3
  OBVIOUS
<1>. WrittenBy(u, Nop) = {}
  BY <1>3, NopFacts
<1>7. ASSUME eng'.run[u] > 0 \/ eng'.last[u]
      PROVE  /\ writes'[u] # {}
             /\ \A s \in 1..3 : WrittenBy(u, claim'[s]) = {}
  <2>1. CASE eng.run[u] > 0
    <3>1. /\ ~ eng.last[u] /\ writes[u] # {}
          /\ \A s \in 1..3 : WrittenBy(u, claim[s]) = {}
      BY <1>3, <2>1 DEF LoaderOK
    <3>2. blk.taken => ~ Needs(u, pre.cmd)
      BY <1>3, <3>1, WhenTaken
    <3>3. blk.taken => WrittenBy(u, pre.cmd) = {}
      BY <1>3, <3>2, Parts
    <3>4. writes'[u] = writes[u]
      BY <1>3, <3>1, <3>2, HistoryClock
    <3> QED
      BY <1>4, <3>1, <3>3, <3>4
  <2>2. CASE ~ (eng.run[u] > 0)
    <3>1. u \notin ends /\ eng.run[u] = 0 /\ LoadStart(u)
      BY <1>1, <1>2, <1>3, <1>7, <2>2 DEF RunAfter
    <3>2. WrittenBy(u, claim[3]) # {}
      BY <3>1 DEF LoadStart
    <3>3. blk.done = 2 /\ claim[1] = Nop /\ claim[2] = Nop /\ ~ blk.taken
      <4>1. claim[3] # Nop
        BY <3>2
      <4> QED
        BY <4>1 DEF IssueInv, Pace
    <3>4. Needs(u, claim[3]) /\ Lasts(claim[3], 2) /\ claim[3] # Nop
      BY <3>2, <3>3 DEF Needs, IssueInv, Young
    <3>5. ~ eng.last[u] /\ writes[u] = WrittenBy(u, claim[3])
      BY <1>3, <3>4 DEF Lasts
    <3>6. writes'[u] = writes[u]
      BY <1>3, <3>3, <3>5, HistoryClock
    <3> QED
      BY <1>4, <3>2, <3>3, <3>5, <3>6
  <2> QED
    BY <2>1, <2>2
<1> QED
  BY <1>5, <1>6, <1>7 DEF LoaderOK

LEMMA UnitsStep ==
  ASSUME Disciplined, IssueInv, Clock
  PROVE  UnitsOK'
BY EngineStep, UnloaderStep, LoaderStep DEF UnitsOK

LEMMA InUseStep ==
  ASSUME Disciplined, IssueInv, Clock
  PROVE  InUseIsBusy'
<1>1. box'.busy = BusyAfter /\ reads \in [Unit -> SUBSET AllReg]
      /\ writes \in [Unit -> SUBSET AllReg] /\ pre.cmd \in Instr
  BY BusyboxClock DEF IssueInv, TypeOK
<1>2. ASSUME NEW u \in Unit, NEW r \in reads'[u] \cup writes'[u]
      PROVE  r \in BusyAfter
  <2>1. CASE blk.taken /\ Needs(u, pre.cmd)
    <3>1. r \in Uses(pre.cmd)
      BY <1>2, <2>1, UsageStep, Parts
    <3>2. r \in AllReg /\ r \in pre.line[5]
      BY <1>1, <2>1, <3>1, UsesType, WhenTaken
    <3> QED
      BY <2>1, <3>2 DEF BusyAfter
  <2>2. CASE ~ (blk.taken /\ Needs(u, pre.cmd))
    <3>1. r \in reads[u] \cup writes[u]
      BY <1>2, <2>2, UsageStep
    <3>2. r \in InUse /\ r \in AllReg
      BY <1>1, <3>1 DEF InUse
    <3>3. r \in box.busy /\ ~ Freed(r)
      BY <3>2, WhenFreed DEF IssueInv, InUseIsBusy
    <3> QED
      BY <3>2, <3>3 DEF BusyAfter
  <2> QED
    BY <2>1, <2>2
<1> QED
  BY <1>1, <1>2 DEF InUseIsBusy, InUse

LEMMA ClaimsStep ==
  ASSUME Disciplined, IssueInv, Clock
  PROVE  Claims'
<1>1. /\ claim'[1] = IF blk.taken THEN pre.cmd ELSE Nop
      /\ claim'[2] = claim[1] /\ claim'[3] = claim[2]
      /\ Claims
  BY BusyboxClock DEF IssueInv
<1> DEFINE Fits(i, u) ==
      IF Needs(u, i)
      THEN reads'[u] \subseteq ReadBy(u, i) /\ writes'[u] \subseteq WrittenBy(u, i)
      ELSE (reads'[u] \cup writes'[u]) \cap Uses(i) = {}
<1>2. ASSUME NEW u \in Unit PROVE Fits(Nop, u)
  BY NopFacts
<1>3. ASSUME NEW u \in Unit, blk.taken PROVE Fits(pre.cmd, u)
  <2>1. Uses(pre.cmd) \cap (reads[u] \cup writes[u]) = {}
    BY <1>3, WhenTaken DEF InUse
  <2> QED
    BY <1>3, <2>1, UsageStep
<1>4. ASSUME NEW u \in Unit, NEW s \in {1, 2} PROVE Fits(claim[s], u)
  <2>1. CASE blk.taken
    <3>1. claim[s] = Nop
      BY <2>1, WhenTaken
    <3> QED
      BY <1>2, <3>1
  <2>2. CASE ~ blk.taken
    <3>1. reads'[u] \subseteq reads[u] /\ writes'[u] \subseteq writes[u]
      BY <2>2, UsageStep
    <3>2. IF Needs(u, claim[s])
          THEN reads[u] \subseteq ReadBy(u, claim[s])
               /\ writes[u] \subseteq WrittenBy(u, claim[s])
          ELSE (reads[u] \cup writes[u]) \cap Uses(claim[s]) = {}
      BY <1>1 DEF Claims
    <3> QED
      BY <3>1, <3>2
  <2> QED
    BY <2>1, <2>2
<1>5. ASSUME NEW s \in 1..3, NEW u \in Unit PROVE Fits(claim'[s], u)
  <2>1. CASE s = 1
    BY <1>1, <1>2, <1>3, <2>1
  <2>2. CASE s = 2
    BY <1>1, <1>4, <2>2
  <2>3. CASE s = 3
    BY <1>1, <1>4, <2>3
  <2> QED
    BY <2>1, <2>2, <2>3
<1> QED
  BY <1>5 DEF Claims

\* The instructions taken lately.
LEMMA ClaimOf ==
  ASSUME IssueInv, NEW s \in 1..3, claim[s] # Nop
  PROVE  blk.done = s - 1 /\ claim[s] \in Program /\ Lasts(claim[s], s - 1)
<1>1. blk.done = s - 1
  BY DEF IssueInv, Pace
<1>2. Lasts(claim[s], s - 1)
  <2>1. CASE s = 1
    BY <1>1, <2>1 DEF IssueInv, Young
  <2>2. CASE s = 2
    BY <1>1, <2>2 DEF IssueInv, Young
  <2>3. CASE s = 3
    BY <1>1, <2>3 DEF IssueInv, Young
  <2> QED
    BY <2>1, <2>2, <2>3
<1> QED
  BY <1>1, <1>2 DEF Lasts

LEMMA ModesStep ==
  ASSUME Disciplined, IssueInv, Clock
  PROVE  Modes'
<1>1. /\ claim'[1] = IF blk.taken THEN pre.cmd ELSE Nop
      /\ claim'[2] = claim[1]
      /\ box'.mode = ModeAfter
      /\ Modes /\ Claims
  BY BusyboxClock DEF IssueInv
<1>2. ASSUME NEW u \in Unit,
             NEW r \in AllReg \ (Uses(claim'[1]) \cup Uses(claim'[2]))
      PROVE  /\ r \in reads'[u] => box'.mode[r] = [write |-> FALSE, by |-> Code(u)]
             /\ r \in writes'[u] => box'.mode[r] = [write |-> TRUE, by |-> Code(u)]
  <2>1. r \notin Uses(claim[1]) /\ (blk.taken => r \notin Uses(pre.cmd))
    BY <1>1
  <2>2. (r \in reads'[u] => r \in reads[u]) /\ (r \in writes'[u] => r \in writes[u])
    <3>1. CASE blk.taken /\ Needs(u, pre.cmd)
      BY <2>1, <3>1, UsageStep, Parts
    <3>2. CASE ~ (blk.taken /\ Needs(u, pre.cmd))
      BY <3>2, UsageStep
    <3> QED
      BY <3>1, <3>2
  <2>3. CASE r \in Uses(claim[2])
    <3>1. box'.mode[r] = Mode(claim[2], r)
      BY <1>1, <2>3 DEF ModeAfter
    <3>2. claim[2] \in Program
      <4>1. claim[2] # Nop
        BY <2>3, NopFacts
      <4> QED
        BY <4>1, ClaimOf
    <3>3. /\ r \in reads[u] => r \in ReadBy(u, claim[2])
          /\ r \in writes[u] => r \in WrittenBy(u, claim[2])
      BY <1>1, <2>3 DEF Claims
    <3> QED
      BY <2>2, <3>1, <3>2, <3>3, ModeOf
  <2>4. CASE r \notin Uses(claim[2])
    <3>1. box'.mode[r] = box.mode[r]
      BY <1>1, <2>4 DEF ModeAfter
    <3>2. r \in AllReg \ (Uses(claim[1]) \cup Uses(claim[2]))
      BY <2>1, <2>4
    <3>3. /\ r \in reads[u] => box.mode[r] = [write |-> FALSE, by |-> Code(u)]
          /\ r \in writes[u] => box.mode[r] = [write |-> TRUE, by |-> Code(u)]
      BY <1>1, <3>2 DEF Modes
    <3> QED
      BY <2>2, <3>1, <3>3
  <2> QED
    BY <2>3, <2>4
<1> QED
  BY <1>2, Zenon DEF Modes

LEMMA EndsStep ==
  ASSUME Disciplined, IssueInv, Clock
  PROVE  Ends'
<1>1. /\ claim'[1] = IF blk.taken THEN pre.cmd ELSE Nop
      /\ claim'[3] = claim[2]
      /\ box'.mode = ModeAfter
      /\ box'.offRead = {r \in AllReg : ReadEnds(box.mode[r].by)}
      /\ box'.offWrite = {r \in AllReg : WriteEnds(box.mode[r].by)}
      /\ box'.lastDly <=> eng.last["add"]
      /\ Ends
  BY BusyboxClock DEF IssueInv
<1>2. ASSUME NEW u \in Unit, eng.last[u]
      PROVE  reads'[u] = {}
  <2>1. ~ (blk.taken /\ Needs(u, pre.cmd))
    BY <1>2, WhenTaken
  <2> QED
    BY <1>2, <2>1, HistoryClock
<1>3. box'.lastDly => reads'["add"] = {}
  BY <1>1, <1>2 DEF Unit, Engine
<1>4. ASSUME NEW u \in Unit, reads[u] = {} \/ eng.last[u]
      PROVE  reads'[u] = {} \/ Needs(u, claim'[1])
  BY <1>1, <1>4, HistoryClock
<1>5. ASSUME NEW u \in Unit, IF u \in Port THEN eng.last[u] ELSE u # "unl" /\ box.done[u]
      PROVE  writes'[u] = {} \/ Needs(u, claim'[1])
  BY <1>1, <1>5, HistoryClock
<1>6. ASSUME NEW r \in AllReg \ Uses(claim'[3]), NEW u \in Unit,
             box'.mode[r].by = Code(u)
      PROVE  /\ r \in box'.offRead /\ u \in Engine =>
                  reads'[u] = {} \/ Needs(u, claim'[1])
             /\ r \in box'.offWrite /\ u # "unl" =>
                  writes'[u] = {} \/ Needs(u, claim'[1])
  <2>1. box.mode[r].by = Code(u)
    BY <1>1, <1>6 DEF ModeAfter
  <2>2. ASSUME r \in box'.offRead, u \in Engine
        PROVE  reads[u] = {} \/ eng.last[u]
    <3>1. ReadEnds(Code(u))
      BY <1>1, <2>1, <2>2
    <3> QED
      BY <1>1, <2>2, <3>1 DEF ReadEnds, Code, Engine, Ends
  <2>3. ASSUME r \in box'.offWrite, u # "unl"
        PROVE  IF u \in Port THEN eng.last[u] ELSE u # "unl" /\ box.done[u]
    <3>1. WriteEnds(Code(u))
      BY <1>1, <2>1, <2>3
    <3> QED
      BY <2>3, <3>1 DEF WriteEnds, Code, Unit, Engine, Port
  <2> QED
    BY <1>4, <1>5, <2>2, <2>3
<1> QED
  BY <1>3, <1>6 DEF Ends, Resting, Code

\* An instruction goes on, as long as it is too young to end.
LEMMA LastsOn ==
  ASSUME IssueInv, Clock, ~ blk.taken, claim[3] = Nop,
         NEW i, NEW d \in 0..1, Lasts(i, d)
  PROVE  \/ i = Nop /\ box'.busy = {}
         \/ /\ i \in Program
            /\ \A u \in Unit : Needs(u, i) =>
                 /\ ~ eng'.last[u] /\ writes'[u] = WrittenBy(u, i)
                 /\ u \in Engine => /\ reads'[u] = ReadBy(u, i)
                                    /\ eng'.run[u] + d + 1 >= IF u = "add" THEN 3 ELSE 4
                 /\ u \in Port => eng'.run[u] = 0
<1>1. CASE i = Nop /\ box.busy = {}
  BY <1>1, BusyboxClock DEF BusyAfter
<1>2. CASE i \in Program /\ i # Nop
  <2>1. ASSUME NEW u \in Unit, Needs(u, i)
        PROVE  /\ ~ eng'.last[u] /\ writes'[u] = WrittenBy(u, i)
               /\ u \in Engine => /\ reads'[u] = ReadBy(u, i)
                                  /\ eng'.run[u] + d + 1 >= IF u = "add" THEN 3 ELSE 4
               /\ u \in Port => eng'.run[u] = 0
    <3>1. PICK ends \in SUBSET MayEnd :
            /\ eng'.run[u] = RunAfter(u, ends)
            /\ eng'.last[u] <=> (u \in ends)
      BY UnitsClock
    <3>2. u \in ends => eng.run[u] = 1
      BY <3>1 DEF MayEnd
    <3>3. /\ ~ eng.last[u] /\ eng.run[u] \in Nat /\ writes[u] = WrittenBy(u, i)
          /\ u \in Engine => /\ reads[u] = ReadBy(u, i)
                             /\ eng.run[u] + d >= IF u = "add" THEN 3 ELSE 4
          /\ u \in Port => eng.run[u] = 0
      BY <1>2, <2>1 DEF Lasts, IssueInv, TypeOK
    <3>4. CASE u \in Engine
      <4>1. u \notin Port /\ ~ Taken(u) /\ eng.run[u] > 1
        BY <3>3, <3>4 DEF Engine, Port, Taken
      <4>2. u \notin ends /\ eng'.run[u] = eng.run[u] - 1
        BY <3>1, <3>2, <4>1 DEF RunAfter
      <4>3. u # "unl" => ~ box.done[u]
        BY <3>4, <4>1 DEF IssueInv, UnitsOK, EngineOK, Engine
      <4>4. reads'[u] = reads[u] /\ writes'[u] = writes[u]
        BY <3>3, <4>1, <4>3, HistoryClock
      <4> QED
        BY <3>1, <3>3, <3>4, <4>1, <4>2, <4>4
    <3>5. CASE u \in Port
      <4>1. u \notin Engine /\ u \notin ends /\ ~ LoadStart(u)
        BY <3>2, <3>3, <3>5, NopFacts DEF Engine, Port, LoadStart
      <4>2. eng'.run[u] = 0
        BY <3>1, <3>3, <3>5, <4>1 DEF RunAfter
      <4>3. writes'[u] = writes[u]
        BY <3>3, <3>5, HistoryClock
      <4> QED
        BY <3>1, <3>3, <3>5, <4>1, <4>2, <4>3
    <3> QED
      BY <3>4, <3>5 DEF Unit
  <2> QED
    BY <1>2, <2>1
<1>3. \/ i = Nop /\ box.busy = {}
      \/ i \in Program /\ i # Nop
  <2>1. \A j \in Program : j # Nop
    BY ProgramFacts
  <2>2. \/ i = Nop /\ box.busy = {}
        \/ i \in Program
    BY Zenon DEF Lasts
  <2> QED
    BY <2>1, <2>2
<1> QED
  BY <1>1, <1>2, <1>3

LEMMA YoungStep ==
  ASSUME Disciplined, IssueInv, Clock, Commands'
  PROVE  Young'
<1>1. /\ blk'.done = IF blk.taken THEN 0
                     ELSE IF blk.done = 4 THEN 4 ELSE blk.done + 1
      /\ blk.done \in 0..4
  BY BlockerClock DEF IssueInv, TypeOK
<1>2. /\ claim'[1] = IF blk.taken THEN pre.cmd ELSE Nop
      /\ claim'[2] = claim[1] /\ claim'[3] = claim[2]
  BY BusyboxClock
<1>3. ASSUME blk'.done = 0
      PROVE  pre'.cmd = claim'[1] /\ Lasts(claim[1], 0)'
  <2>1. blk.taken
    BY <1>1, <1>3
  <2>2. pre'.cmd = pre.cmd /\ claim'[1] = pre.cmd
    BY <1>2, <2>1, WhenTaken, PrefetchClock
  <2>3. CASE pre.cmd = Nop
    <3>1. box'.busy = {}
      BY <2>2, <2>3 DEF Commands
    <3> QED
      BY <2>2, <2>3, <3>1 DEF Lasts
  <2>4. CASE pre.cmd \in Program
    <3>1. ASSUME NEW u \in Unit, Needs(u, pre.cmd)
          PROVE  /\ ~ eng'.last[u] /\ writes'[u] = WrittenBy(u, pre.cmd)
                 /\ u \in Engine => /\ reads'[u] = ReadBy(u, pre.cmd)
                                    /\ eng'.run[u] + 0 >= IF u = "add" THEN 3 ELSE 4
                 /\ u \in Port => eng'.run[u] = 0
      <4>1. PICK ends \in SUBSET MayEnd :
              /\ eng'.run[u] = RunAfter(u, ends)
              /\ eng'.last[u] <=> (u \in ends)
        BY UnitsClock
      <4>2. /\ eng.run[u] = 0 /\ u \notin ends
            /\ u \in Engine => Taken(u)
        BY <2>1, <3>1, <4>1, WhenTaken DEF MayEnd, Taken
      <4>3. reads'[u] = ReadBy(u, pre.cmd) /\ writes'[u] = WrittenBy(u, pre.cmd)
        BY <2>1, <3>1, UsageStep
      <4>4. CASE u \in Engine
        <5>1. eng'.run[u] = Lead(u) /\ u \notin Port
          BY <4>1, <4>2, <4>4 DEF RunAfter, Engine, Port
        <5>2. UnlLead \in Nat /\ UnlLead >= 4
          BY IssueAssumption DEF Disciplined
        <5> QED
          BY <4>1, <4>2, <4>3, <4>4, <5>1, <5>2 DEF Lead, Engine
      <4>5. CASE u \in Port
        <5>1. u \notin Engine /\ ~ LoadStart(u)
          BY <2>1, <4>5, WhenTaken, NopFacts DEF LoadStart, Engine, Port
        <5> QED
          BY <4>1, <4>2, <4>3, <4>5, <5>1 DEF RunAfter
      <4> QED
        BY <4>4, <4>5 DEF Unit
    <3> QED
      BY <2>2, <2>4, <3>1 DEF Lasts
  <2> QED
    BY <2>2, <2>3, <2>4 DEF IssueInv, Commands
<1>4. ASSUME blk'.done = 1
      PROVE  pre'.line[1] = Uses(claim'[2]) /\ Lasts(claim[2], 1)'
  <2>1. ~ blk.taken /\ blk.done = 0
    BY <1>1, <1>4
  <2>2. pre.cmd = claim[1] /\ Lasts(claim[1], 0) /\ claim[3] = Nop
    BY <2>1 DEF IssueInv, Young, Pace
  <2>3. pre'.line[1] = Uses(claim'[2])
    BY <1>2, <2>2, PrefetchClock
  <2>4. Lasts(claim[2], 1)'
    <3>1. PICK i : i = claim[1]
      OBVIOUS
    <3>2. Lasts(i, 0) /\ claim'[2] = i
      BY <1>2, <2>2, <3>1
    <3>3. \/ i = Nop /\ box'.busy = {}
          \/ /\ i \in Program
             /\ \A u \in Unit : Needs(u, i) =>
                  /\ ~ eng'.last[u] /\ writes'[u] = WrittenBy(u, i)
                  /\ u \in Engine => /\ reads'[u] = ReadBy(u, i)
                                     /\ eng'.run[u] + 0 + 1 >= IF u = "add" THEN 3 ELSE 4
                  /\ u \in Port => eng'.run[u] = 0
      BY <2>1, <2>2, <3>2, LastsOn
    <3>4. \A u \in Unit : eng'.run[u] \in Nat
      BY TypeStep DEF IssueInv, TypeOK
    <3>5. Lasts(i, 1)'
      BY <3>3, <3>4 DEF Lasts
    <3> QED
      BY <3>2, <3>5
  <2> QED
    BY <2>3, <2>4
<1>5. ASSUME blk'.done = 2
      PROVE  pre'.line[2] = Uses(claim'[3]) /\ Lasts(claim[3], 2)'
  <2>1. ~ blk.taken /\ blk.done = 1
    BY <1>1, <1>5
  <2>2. pre.line[1] = Uses(claim[2]) /\ Lasts(claim[2], 1) /\ claim[3] = Nop
    BY <2>1 DEF IssueInv, Young, Pace
  <2>3. pre'.line[2] = Uses(claim'[3])
    BY <1>2, <2>2, PrefetchClock
  <2>4. Lasts(claim[3], 2)'
    <3>1. PICK i : i = claim[2]
      OBVIOUS
    <3>2. Lasts(i, 1) /\ claim'[3] = i
      BY <1>2, <2>2, <3>1
    <3>3. \/ i = Nop /\ box'.busy = {}
          \/ /\ i \in Program
             /\ \A u \in Unit : Needs(u, i) =>
                  /\ ~ eng'.last[u] /\ writes'[u] = WrittenBy(u, i)
                  /\ u \in Engine => /\ reads'[u] = ReadBy(u, i)
                                     /\ eng'.run[u] + 1 + 1 >= IF u = "add" THEN 3 ELSE 4
                  /\ u \in Port => eng'.run[u] = 0
      BY <2>1, <2>2, <3>2, LastsOn
    <3>4. \A u \in Unit : eng'.run[u] \in Nat
      BY TypeStep DEF IssueInv, TypeOK
    <3>5. Lasts(i, 2)'
      BY <3>3, <3>4 DEF Lasts
    <3> QED
      BY <3>2, <3>5
  <2> QED
    BY <2>3, <2>4
<1>6. ASSUME blk'.done = 3
      PROVE  \/ box'.busy = {}
             \/ \E r \in pre'.line[3] \cap InUse' : ~ EndsNow(r)'
  <2>1. ~ blk.taken /\ blk.done = 2
    BY <1>1, <1>6
  <2>2. /\ pre.line[2] = Uses(claim[3]) /\ Lasts(claim[3], 2)
        /\ claim[1] = Nop /\ claim[2] = Nop
    BY <2>1 DEF IssueInv, Young, Pace
  <2>3. CASE claim[3] = Nop
    BY <2>1, <2>2, <2>3, BusyboxClock, ProgramFacts DEF Lasts, BusyAfter
  <2>4. CASE claim[3] \in Program
    <3>1. PICK u \in Unit : Needs(u, claim[3])
      BY <2>4, ProgramFacts
    <3>2. PICK ends \in SUBSET MayEnd : eng'.last[u] <=> (u \in ends)
      BY UnitsClock
    <3>3. /\ ~ eng.last[u] /\ eng.run[u] \in Nat
          /\ u \in Engine => /\ reads[u] = ReadBy(u, claim[3])
                             /\ eng.run[u] + 2 >= IF u = "add" THEN 3 ELSE 4
          /\ writes[u] = WrittenBy(u, claim[3])
          /\ u \in Port => eng.run[u] = 0
      <4>1. claim[3] # Nop
        BY <2>4, ProgramFacts
      <4> QED
        BY <2>2, <3>1, <4>1 DEF Lasts, IssueInv, TypeOK
    <3>4. reads'[u] = reads[u] /\ (u \in Port => writes'[u] = writes[u])
      BY <2>1, <3>3, HistoryClock
    <3>5. pre'.line[3] = Uses(claim[3])
      BY <2>2, PrefetchClock
    <3>6. box'.mode = box.mode
      <4>1. Uses(claim[2]) = {}
        BY <2>2, NopFacts
      <4>2. box.mode = [r \in AllReg |-> box.mode[r]]
        BY DEF IssueInv, TypeOK
      <4> QED
        BY <4>1, <4>2, BusyboxClock DEF ModeAfter
    <3>7. CASE u \in Engine
      <4>1. claim[3].op = u
        BY <2>4, <3>1, <3>7, ProgramFacts DEF Needs, WrittenBy, Engine
      <4>2. claim[3].r1 \in reads[u]
        BY <3>3, <3>7, <4>1 DEF ReadBy
      <4>3. claim[3].r1 \in AllReg
        BY <2>4, ProgramFacts DEF AllReg
      <4>4. box'.mode[claim[3].r1] = [write |-> FALSE, by |-> Code(u)]
        BY <2>2, <3>6, <4>2, <4>3, NopFacts DEF IssueInv, Modes
      <4>5. ~ (eng'.last[u] /\ u # "add") /\ (u = "add" => ~ box'.lastDly)
        BY <3>2, <3>3, <3>7, BusyboxClock DEF MayEnd
      <4>6. PICK r \in AllReg : r = claim[3].r1
        BY <4>3
      <4>7. box'.mode[r] = [write |-> FALSE, by |-> Code(u)]
        BY <4>4, <4>6
      <4>8. ~ ReadEnds(box.mode[r].by)'
        BY <3>7, <4>5, <4>7 DEF ReadEnds, Code, Engine
      <4>9. ~ EndsNow(r)'
        BY <4>7, <4>8 DEF EndsNow
      <4> QED
        BY <3>3, <3>4, <3>5, <3>7, <4>2, <4>6, <4>9, Parts DEF InUse
    <3>8. CASE u \in Port
      <4>1. PICK r \in AllReg : r \in writes[u]
        <5>1. WrittenBy(u, claim[3]) # {}
          BY <2>4, <3>1, <3>8, ProgramFacts DEF Needs, Op, Port
        <5> QED
          BY <3>3, <3>8, <5>1 DEF IssueInv, TypeOK
      <4>2. box'.mode[r] = [write |-> TRUE, by |-> Code(u)]
        BY <2>2, <3>6, <4>1, NopFacts DEF IssueInv, Modes
      <4>3. ~ eng'.last[u]
        BY <3>2, <3>3, <3>8 DEF MayEnd
      <4>4. ~ WriteEnds(box.mode[r].by)'
        BY <3>8, <4>2, <4>3 DEF WriteEnds, Code, Port
      <4>5. ~ EndsNow(r)'
        BY <4>2, <4>4 DEF EndsNow
      <4> QED
        BY <3>3, <3>4, <3>5, <3>8, <4>1, <4>5, Parts DEF InUse
    <3> QED
      BY <3>7, <3>8 DEF Unit
  <2> QED
    BY <2>2, <2>3, <2>4 DEF Lasts
<1> QED
  BY <1>3, <1>4, <1>5, <1>6 DEF Young

\* The proof that the instruction before is still marked, a clock later.
LEMMA OlderStep ==
  ASSUME Disciplined, IssueInv, Clock, ~ blk.taken, NEW w \in 2..4, Older(w)
  PROVE  /\ w = 4 => blk'.done = 3
         /\ w = 3 => \/ box'.busy = {}
                     \/ \E r \in pre'.line[4] \cap box'.busy : ~ Freed(r)'
         /\ w = 2 => box'.busy = {} \/ pre'.line[5] \cap box'.busy # {}
<1>1. /\ box'.busy = {r \in box.busy : ~ Freed(r)}
      /\ box.busy \subseteq AllReg
  <2>1. box.busy \subseteq AllReg
    BY DEF IssueInv, TypeOK
  <2> QED
    BY <2>1, BusyboxClock DEF BusyAfter
<1>2. CASE w = 4
  BY <1>2, BlockerClock DEF Older
<1>3. CASE w = 3
  <2>1. blk.done = 3
    BY <1>3 DEF Older
  <2>2. CASE box.busy = {}
    BY <1>1, <1>3, <2>2
  <2>3. CASE box.busy # {}
    <3>1. PICK r \in pre.line[3] \cap InUse : ~ EndsNow(r)
      BY <2>1, <2>3 DEF IssueInv, Young
    <3>2. r \in box.busy /\ r \in AllReg
      BY <1>1, <3>1 DEF IssueInv, InUseIsBusy
    <3>3. r \in box'.busy /\ r \in pre'.line[4]
      BY <1>1, <3>1, <3>2, WhenFreed, PrefetchClock
    <3>4. box'.mode[r] = box.mode[r]
      <4>1. Uses(claim[2]) = {}
        BY <2>1, NopFacts DEF IssueInv, Pace
      <4> QED
        BY <3>2, <4>1, BusyboxClock DEF ModeAfter
    <3>5. ~ Freed(r)'
      BY <3>1, <3>2, <3>4, BusyboxClock DEF Freed, EndsNow
    <3> QED
      BY <1>3, <3>3, <3>5
  <2> QED
    BY <2>2, <2>3
<1>4. CASE w = 2
  BY <1>1, <1>4, PrefetchClock DEF Older
<1> QED
  BY <1>2, <1>3, <1>4

LEMMA LinesStep ==
  ASSUME Disciplined, IssueInv, Clock
  PROVE  Lines'
<1>1. /\ blk'.done = IF blk.taken THEN 0
                     ELSE IF blk.done = 4 THEN 4 ELSE blk.done + 1
      /\ blk'.ready <=> pre.cmdReady
      /\ blk'.wait = WaitAfter
      /\ blk'.toExec <=> (blk.ready /\ pre.cmdReady /\ blk.wait = 0)
      /\ blk'.taken <=> (/\ ~ blk.unit /\ ~ blk.reg /\ blk.toExec
                         /\ ~ blk.taken /\ blk.done = 4)
      /\ blk.wait \in 0..4 /\ blk.done \in 0..4
  BY BlockerClock DEF IssueInv, TypeOK
<1>2. /\ pre'.cmd = IF AcceptLast THEN bus.cur ELSE pre.cmd
      /\ pre'.ready <=> ReadyAfter
      /\ pre'.processed <=> LastOffered
      /\ pre'.cmdReady <=> (~ blk.taken /\ (pre.cmdReady \/ pre.processed))
      /\ pre'.line[1] = Uses(pre.cmd)
      /\ \A k \in 2..5 : pre'.line[k] = pre.line[k - 1]
  BY PrefetchClock
<1>3. Lines /\ Holding
  BY DEF IssueInv
<1>4. pre'.ready /\ pre'.processed => blk'.done = 0
  BY <1>1, <1>2 DEF ReadyAfter
<1>5. ASSUME pre'.cmdReady, ~ blk'.ready
      PROVE  pre'.line[1] = Uses(pre'.cmd) \/ blk'.done = 1
  <2>1. ~ blk.taken /\ ~ pre.cmdReady /\ pre.processed
    BY <1>1, <1>2, <1>5
  <2>2. CASE AcceptLast
    <3>1. blk.done = 0
      BY <1>3, <2>1, <2>2 DEF AcceptLast, Accept, Lines
    <3> QED
      BY <1>1, <2>1, <3>1
  <2>3. CASE ~ AcceptLast
    BY <1>2, <2>3
  <2> QED
    BY <2>2, <2>3
<1>6. ASSUME pre'.cmdReady, blk'.ready
      PROVE  /\ pre'.op = pre'.cmd.op
             /\ \A k \in 1..5 : k + blk'.wait <= 5 => pre'.line[k] = Uses(pre'.cmd)
             /\ \A k \in 2..5 : k + blk'.wait = 6 =>
                  pre'.line[k] = Uses(pre'.cmd) \/ Older(blk.wait)'
  <2>1. pre.cmdReady /\ ~ blk.taken /\ pre'.cmd = pre.cmd /\ pre'.op = pre.cmd.op
    BY <1>1, <1>6, WhenWaiting
  <2>2. CASE ~ blk.ready
    <3>1. blk'.wait = 4
      BY <1>1, <2>1, <2>2 DEF WaitAfter
    <3>2. pre'.line[2] = pre.line[1]
      BY <1>2
    <3>3. pre'.line[2] = Uses(pre.cmd) \/ blk'.done = 2
      BY <1>1, <1>3, <2>1, <2>2, <3>2 DEF Lines
    <3>4. blk'.done = 2 => Older(blk.wait)'
      BY <3>1 DEF Older
    <3> QED
      BY <1>2, <2>1, <3>1, <3>3, <3>4
  <2>3. CASE blk.ready
    <3>1. blk'.wait = IF blk.wait = 0 THEN 0 ELSE blk.wait - 1
      BY <1>1, <2>3 DEF WaitAfter
    <3>2. /\ \A k \in 1..5 : k + blk.wait <= 5 => pre.line[k] = Uses(pre.cmd)
          /\ \A k \in 2..5 : k + blk.wait = 6 =>
               pre.line[k] = Uses(pre.cmd) \/ Older(blk.wait)
      BY <1>3, <2>1, <2>3 DEF Lines
    <3>3. ASSUME NEW k \in 1..5, k + blk'.wait <= 5
          PROVE  pre'.line[k] = Uses(pre'.cmd)
      <4>1. CASE k = 1
        BY <1>2, <2>1, <4>1
      <4>2. CASE k # 1
        <5>1. k \in 2..5 /\ k - 1 \in 1..5 /\ (k - 1) + blk.wait <= 5
          BY <1>1, <3>1, <3>3, <4>2
        <5>2. pre'.line[k] = pre.line[k - 1] /\ pre.line[k - 1] = Uses(pre.cmd)
          BY <1>2, <3>2, <5>1
        <5> QED
          BY <2>1, <5>2
      <4> QED
        BY <4>1, <4>2
    <3>4. ASSUME NEW k \in 2..5, k + blk'.wait = 6,
                 pre'.line[k] # Uses(pre'.cmd)
          PROVE  Older(blk.wait)'
      <4>1. /\ blk.wait \in 2..4 /\ k - 1 \in 2..5 /\ (k - 1) + blk.wait = 6
            /\ blk'.wait = blk.wait - 1
        BY <1>1, <3>1, <3>4
      <4>2. pre'.line[k] = pre.line[k - 1]
        BY <1>2
      <4>3. Older(blk.wait)
        BY <2>1, <3>2, <3>4, <4>1, <4>2
      <4>4. PICK w \in 2..4 : w = blk.wait
        BY <4>1
      <4>5. Older(w) /\ blk'.wait = w - 1
        BY <4>1, <4>3, <4>4
      <4> QED
        BY <2>1, <4>5, OlderStep DEF Older
    <3> QED
      BY <2>1, <3>3, <3>4
  <2> QED
    BY <2>2, <2>3
<1>7. ASSUME pre'.cmdReady, blk'.toExec
      PROVE  Settled'
  <2>1. pre.cmdReady /\ ~ blk.taken /\ pre'.cmd = pre.cmd /\ pre'.op = pre.cmd.op
    BY <1>1, <1>7, WhenWaiting
  <2>2. \A k \in 1..5 : k <= 5 => pre.line[k] = Uses(pre.cmd)
    BY <1>1, <1>3, <1>7, <2>1 DEF Lines
  <2>3. ASSUME NEW k \in 1..5 PROVE pre'.line[k] = Uses(pre'.cmd)
    BY <1>2, <2>1, <2>2
  <2> QED
    BY <2>1, <2>3 DEF Settled
<1>8. ASSUME blk'.taken
      PROVE  Settled'
  <2>1. blk.toExec /\ ~ blk.taken /\ pre.cmdReady
    BY <1>1, <1>3, <1>8 DEF Holding
  <2>2. pre'.cmd = pre.cmd /\ pre'.op = pre.cmd.op /\ Settled
    BY <1>3, <1>8, <2>1, WhenWaiting DEF Lines
  <2>3. ASSUME NEW k \in 1..5 PROVE pre'.line[k] = Uses(pre'.cmd)
    BY <1>2, <2>2 DEF Settled
  <2> QED
    BY <2>2, <2>3 DEF Settled
<1> QED
  BY <1>4, <1>5, <1>6, <1>7, <1>8 DEF Lines

LEMMA SignalsStep ==
  ASSUME Disciplined, IssueInv, Clock
  PROVE  Signals'
<1>1. /\ blk'.done = IF blk.taken THEN 0
                     ELSE IF blk.done = 4 THEN 4 ELSE blk.done + 1
      /\ blk'.unit <=> UnitBusy
      /\ blk'.vec <=> (box.busy \cap pre.line[5] # {})
      /\ blk'.reg <=> blk.vec
      /\ blk'.ready <=> pre.cmdReady
      /\ blk'.wait = WaitAfter
      /\ blk'.toExec <=> (blk.ready /\ pre.cmdReady /\ blk.wait = 0)
      /\ blk'.taken <=> (/\ ~ blk.unit /\ ~ blk.reg /\ blk.toExec
                         /\ ~ blk.taken /\ blk.done = 4)
      /\ blk.wait \in 0..4 /\ blk.done \in 0..4
  BY BlockerClock DEF IssueInv, TypeOK
<1>2. Lines /\ Signals /\ Holding
  BY DEF IssueInv
<1>3. ASSUME Apart, pre'.cmd = pre.cmd, box'.busy = {r \in box.busy : ~ Freed(r)}
      PROVE  Apart'
  BY <1>3 DEF Apart
<1>4. ASSUME UnitFree, pre'.cmd = pre.cmd, claim[2] = Nop,
             \A u \in {"add", "mult"} : box'.unit[u] => box.unit[u]
      PROVE  UnitFree'
  <2>1. eng'.unlBusy => eng.unlBusy
    BY <1>4, UnitsClock, NopFacts
  <2> QED
    BY <1>4, <2>1 DEF UnitFree
<1>5. ASSUME pre'.cmdReady, blk'.ready, blk'.wait = 0, ~ blk'.vec
      PROVE  Apart'
  <2>1. /\ pre.cmdReady /\ pre'.cmd = pre.cmd
        /\ box'.busy = {r \in box.busy : ~ Freed(r)}
    BY <1>1, <1>5, WhenWaiting
  <2>2. blk.ready /\ blk.wait \in 0..1
    BY <1>1, <1>5, <2>1 DEF WaitAfter
  <2>3. box.busy \cap pre.line[5] = {}
    BY <1>1, <1>5
  <2>4. pre.line[5] = Uses(pre.cmd) \/ box.busy = {}
    <3>1. CASE blk.wait = 0
      BY <1>2, <2>1, <2>2, <3>1 DEF Lines
    <3>2. CASE blk.wait = 1
      <4>1. pre.line[5] = Uses(pre.cmd) \/ Older(blk.wait)
        BY <1>2, <2>1, <2>2, <3>2 DEF Lines
      <4> QED
        BY <2>3, <3>2, <4>1 DEF Older
    <3> QED
      BY <2>2, <3>1, <3>2
  <2>5. Apart
    BY <2>3, <2>4 DEF Apart
  <2> QED
    BY <1>3, <2>1, <2>5
<1>6. ASSUME pre'.cmdReady, blk'.toExec, ~ blk'.reg
      PROVE  Apart'
  <2>1. Apart
    BY <1>1, <1>2, <1>6 DEF Signals
  <2>2. pre'.cmd = pre.cmd /\ box'.busy = {r \in box.busy : ~ Freed(r)}
    BY <1>1, <1>6, WhenWaiting
  <2> QED
    BY <1>3, <2>1, <2>2
<1>7. ASSUME pre'.cmdReady, blk'.toExec, blk'.done = 4, ~ blk'.unit
      PROVE  UnitFree'
  <2>1. /\ pre.cmdReady /\ ~ blk.taken /\ pre'.cmd = pre.cmd
        /\ \A u \in {"add", "mult"} : box'.unit[u] => box.unit[u]
    BY <1>1, <1>7, WhenWaiting
  <2>2. pre.op = pre.cmd.op /\ ~ UnitBusy
    BY <1>1, <1>2, <1>7, <2>1 DEF Lines
  <2>3. UnitFree
    BY <2>2 DEF UnitFree, UnitBusy
  <2>4. claim[2] = Nop
    <3>1. blk.done # 1
      BY <1>1, <1>7, <2>1
    <3> QED
      BY <3>1 DEF IssueInv, Pace
  <2> QED
    BY <1>4, <2>1, <2>3, <2>4
<1>8. ASSUME blk'.taken
      PROVE  Apart' /\ UnitFree'
  <2>1. /\ blk.toExec /\ ~ blk.reg /\ ~ blk.unit /\ blk.done = 4 /\ pre.cmdReady
    BY <1>1, <1>2, <1>8 DEF Holding
  <2>2. /\ pre'.cmd = pre.cmd /\ box'.busy = {r \in box.busy : ~ Freed(r)}
        /\ \A u \in {"add", "mult"} : box'.unit[u] => box.unit[u]
    BY <1>8, <2>1, WhenWaiting
  <2>3. Apart /\ UnitFree
    BY <1>2, <2>1 DEF Signals
  <2>4. claim[2] = Nop
    BY <2>1 DEF IssueInv, Pace
  <2> QED
    BY <1>3, <1>4, <2>2, <2>3, <2>4
<1> QED
  BY <1>5, <1>6, <1>7, <1>8 DEF Signals

LEMMA IssueInvStep == Disciplined /\ IssueInv /\ [Clock]_vars => IssueInv'
<1> SUFFICES ASSUME Disciplined, IssueInv, [Clock]_vars
             PROVE  IssueInv'
  OBVIOUS
<1>1. TypeOK' /\ Holding'
  BY TypeStep, HoldingStep DEF IssueInv
<1>2. CASE Clock
  <2>1. NotExcluded'
    BY <1>2 DEF Clock, NotExcluded
  <2>2. Pace' /\ Commands'
    BY <1>2, PaceStep, CommandsStep
  <2>3. UnitsOK' /\ InUseIsBusy'
    BY <1>2, UnitsStep, InUseStep
  <2>4. Claims' /\ Modes' /\ Ends'
    BY <1>2, ClaimsStep, ModesStep, EndsStep
  <2>5. Young' /\ Lines' /\ Signals'
    BY <1>2, <2>2, YoungStep, LinesStep, SignalsStep
  <2> QED
    BY <1>1, <2>1, <2>2, <2>3, <2>4, <2>5 DEF IssueInv
<1>3. CASE UNCHANGED vars
  <2>1. NotExcluded' /\ Pace' /\ Commands'
    BY <1>3 DEF vars, IssueInv, NotExcluded, Excluded, Loads, Freed, Pace, Commands
  <2>2. UnitsOK' /\ InUseIsBusy'
    BY <1>3 DEF vars, IssueInv, UnitsOK, EngineOK, UnloaderOK, LoaderOK,
                InUseIsBusy, InUse
  <2>3. Claims' /\ Modes' /\ Ends'
    BY <1>3 DEF vars, IssueInv, Claims, Modes, Ends, Resting
  <2>4. Young'
    BY <1>3 DEF vars, IssueInv, Young, Lasts, EndsNow, ReadEnds, WriteEnds, InUse
  <2>5. Lines' /\ Signals'
    BY <1>3 DEF vars, IssueInv, Lines, Older, Settled, Signals, Apart, UnitFree, Freed
  <2> QED
    BY <1>1, <2>1, <2>2, <2>3, <2>4, <2>5 DEF IssueInv
<1> QED
  BY <1>2, <1>3

LEMMA IssueInvAlways ==
  ASSUME Disciplined
  PROVE  Spec => []IssueInv
BY IssueInvInit, IssueInvStep, PTL DEF Spec

\* No instruction is taken while a register it needs is in use or a unit it
\* needs at work, whatever the program, the delays and the pauses of the host.
THEOREM TakenSafelyAlways ==
  ASSUME Disciplined
  PROVE  Spec => []TakenSafely
<1>1. Disciplined /\ IssueInv => TakenSafely
  BY WhenTaken DEF TakenSafely
<1> QED
  BY <1>1, IssueInvAlways, PTL

\* A register in use stays marked, whatever else ends meanwhile.
THEOREM InUseIsBusyAlways ==
  ASSUME Disciplined
  PROVE  Spec => []InUseIsBusy
<1>1. IssueInv => InUseIsBusy
  BY DEF IssueInv
<1> QED
  BY <1>1, IssueInvAlways, PTL

-----------------------------------------------------------------------------
(* The control part implements the scoreboard.                             *)

LEMMA Pairs ==
  ASSUME NEW a, NEW b, NEW c
  PROVE  /\ << >> \o << >> = << >> /\ << >> \o <<b>> = <<b>> /\ <<a>> \o << >> = <<a>>
         /\ <<a>> \o <<b>> = <<a, b>> /\ <<a, b>> \o << >> = <<a, b>>
         /\ Head(<<a>>) = a /\ Head(<<a, b>>) = a
         /\ Tail(<<a>>) = << >> /\ Tail(<<a, b>>) = <<b>>
         /\ <<a>> # << >> /\ <<a, b>> # << >>
<1>1. /\ <<a>> # << >> /\ <<a, b>> # << >>
      /\ Head(<<a>>) = a /\ Head(<<a, b>>) = a
      /\ Tail(<<a>>) = << >> /\ Tail(<<a, b>>) = <<b>>
  OBVIOUS
<1>2. << >> \o << >> = << >>
  OBVIOUS
<1>4. << >> \o <<b>> = <<b>>
  OBVIOUS
<1>5. <<a>> \o << >> = <<a>>
  OBVIOUS
<1>3. <<a>> \o <<b>> = <<a, b>>
  <2>0. /\ <<a>> \in Seq({a, b}) /\ <<b>> \in Seq({a, b}) /\ <<a, b>> \in Seq({a, b})
        /\ Len(<<a>>) = 1 /\ Len(<<b>>) = 1
    OBVIOUS
  <2>7. <<a>> \o <<b>> \in Seq({a, b})
    BY <2>0
  <2>1. PICK p \in Seq({a, b}) : p = <<a>> \o <<b>>
    BY <2>7, Zenon
  <2>2. PICK q \in Seq({a, b}) : q = <<a, b>>
    BY <2>0, Zenon
  <2>3. Len(p) = 2 /\ p[1] = a /\ p[2] = b
    BY <2>0, <2>1
  <2>4. Len(q) = 2 /\ q[1] = a /\ q[2] = b
    BY <2>2
  <2>5. p \in [1..2 -> {a, b}] /\ q \in [1..2 -> {a, b}]
    BY <2>3, <2>4
  <2>6. p = q
    BY <2>3, <2>4, <2>5
  <2> QED
    BY <2>1, <2>2, <2>6
<1>6. <<a, b>> \o << >> = <<a, b>>
  OBVIOUS
<1> QED
  BY <1>1, <1>2, <1>3, <1>4, <1>5, <1>6

\* The part of the queue that is in cpu_prefetch, and the part on the stream.
Fetched == IF fresh THEN <<pre.cmd>> ELSE << >>
Coming == IF bus.left > 0 THEN <<bus.cur>> ELSE << >>

\* A clock adds at most one instruction, at the end.
LEMMA ComingStep ==
  ASSUME TypeOK, Holding, Clock, Commands'
  PROVE  \E new \in B!Sent : /\ AcceptLast => Coming' = new
                             /\ ~ AcceptLast => Coming' = Coming \o new
<1>1. /\ Host /\ bus \in [cur : Instr, left : 0..2, valid : BOOLEAN]
      /\ AcceptLast => bus.left = 1 /\ bus.valid /\ pre.ready
  BY DEF Clock, TypeOK, AcceptLast, Accept
<1>2. << >> \in B!Sent /\ \A i \in Program : <<i>> \in B!Sent
  BY Zenon DEF B!Sent
<1>3. Coming \o << >> = Coming
  BY Pairs DEF Coming
<1>4. CASE Coming' = Coming /\ ~ AcceptLast
  BY <1>2, <1>3, <1>4
<1>5. CASE bus.left = 0 \/ AcceptLast
  <2>1. Coming' \in B!Sent
    <3>1. bus'.left > 0 => bus'.cur \in Program
      BY DEF Commands
    <3> QED
      BY <1>2, <3>1 DEF Coming
  <2>2. ~ AcceptLast => Coming = << >>
    BY <1>5 DEF Coming
  <2>3. << >> \o Coming' = Coming'
    BY Pairs DEF Coming
  <2> QED
    BY <2>1, <2>2, <2>3
<1>6. ASSUME Hold \/ NextByte \/ Resume
      PROVE  Coming' = Coming /\ ~ AcceptLast
  <2>1. CASE Hold
    BY <1>1, <2>1 DEF Hold, Coming
  <2>2. CASE NextByte
    <3>1. PICK v \in BOOLEAN : bus' = [bus EXCEPT !.left = 1, !.valid = v]
      BY <2>2, Zenon DEF NextByte
    <3>2. bus'.cur = bus.cur /\ bus'.left = 1 /\ bus.left = 2
      BY <1>1, <2>2, <3>1 DEF NextByte
    <3> QED
      BY <1>1, <3>2 DEF Coming
  <2>3. CASE Resume
    <3>1. PICK v \in BOOLEAN : bus' = [bus EXCEPT !.valid = v]
      BY <2>3, Zenon DEF Resume
    <3>2. bus'.cur = bus.cur /\ bus'.left = bus.left /\ ~ bus.valid
      BY <1>1, <2>3, <3>1 DEF Resume
    <3> QED
      BY <1>1, <3>2 DEF Coming
  <2> QED
    BY <1>6, <2>1, <2>2, <2>3
<1> QED
  BY <1>1, <1>4, <1>5, <1>6 DEF Host, Offer, Pause

\* The scoreboard speaks of the same instructions.
LEMMA SameInstructions ==
  /\ B!Unit = Unit /\ B!AllReg = AllReg
  /\ \A i, u : /\ B!ReadBy(u, i) = ReadBy(u, i) /\ B!WrittenBy(u, i) = WrittenBy(u, i)
             /\ (B!Needs(u, i) <=> Needs(u, i))
  /\ \A i : B!Uses(i) = Uses(i)
  /\ B!InUse = InUse
<1>1. B!Unit = Unit /\ B!AllReg = AllReg
  BY DEF B!Unit, B!Engine, B!Port, B!AllReg, Unit, Engine, Port, AllReg
<1>2. ASSUME NEW i, NEW u
      PROVE  B!ReadBy(u, i) = ReadBy(u, i) /\ B!WrittenBy(u, i) = WrittenBy(u, i)
  BY DEF B!ReadBy, B!WrittenBy, ReadBy, WrittenBy
<1>3. ASSUME NEW i, NEW u
      PROVE  B!Needs(u, i) <=> Needs(u, i)
  BY <1>2 DEF B!Needs, Needs
<1>4. ASSUME NEW i
      PROVE  B!Uses(i) = Uses(i)
  BY <1>1, <1>2 DEF B!Uses, Uses
<1>5. B!InUse = InUse
  BY <1>1 DEF B!InUse, InUse
<1> QED
  BY <1>1, <1>2, <1>3, <1>4, <1>5

LEMMA BoardStep ==
  ASSUME Disciplined, IssueInv, [Clock]_vars, IssueInv'
  PROVE  [B!BoardNext]_(B!boardVars)
<1>1. CASE UNCHANGED vars
  BY <1>1 DEF vars, Queue, B!boardVars
<1>2. CASE Clock
  <2>1. /\ reads' \in [Unit -> SUBSET AllReg] /\ writes' \in [Unit -> SUBSET AllReg]
        /\ TypeOK /\ Holding /\ Commands'
    BY DEF IssueInv, TypeOK
  <2>2. PICK new \in B!Sent : /\ AcceptLast => Coming' = new
                              /\ ~ AcceptLast => Coming' = Coming \o new
    BY <1>2, <2>1, ComingStep
  <2>3. Queue = Fetched \o Coming /\ Queue' = Fetched' \o Coming'
    BY Zenon DEF Queue, Fetched, Coming
  <2>4. /\ fresh' <=> (AcceptLast \/ (fresh /\ ~ blk.taken))
        /\ pre'.cmd = IF AcceptLast THEN bus.cur ELSE pre.cmd
        /\ AcceptLast => ~ fresh /\ ~ blk.taken /\ bus.left = 1
    BY <1>2, <2>1, PrefetchClock DEF Clock, History, Holding, AcceptLast, Accept
  <2>5. (Fetched \o Coming) \o new = Fetched \o (Coming \o new)
    <3>1. PICK S : S = {pre.cmd, bus.cur} \cup Program
      OBVIOUS
    <3>2. \A a \in S : << >> \in Seq(S) /\ <<a>> \in Seq(S)
      OBVIOUS
    <3>3. Fetched \in Seq(S) /\ Coming \in Seq(S)
      BY <3>1, <3>2 DEF Fetched, Coming
    <3>4. new \in Seq(S)
      BY <3>1, <3>2 DEF B!Sent
    <3> QED
      BY <3>3, <3>4, ConcatAssociative
  <2>6. ASSUME NEW u \in Unit, ~ (blk.taken /\ Needs(u, pre.cmd))
        PROVE  B!Proceed(u)
    BY <1>2, <2>6, HistoryClock DEF B!Proceed
  <2>7. CASE AcceptLast
    <3>1. Fetched = << >> /\ Fetched' = <<bus.cur>> /\ Coming = <<bus.cur>>
      BY <2>4, <2>7 DEF Fetched, Coming
    <3>2. Queue' = Queue \o new
      BY <2>2, <2>3, <2>7, <3>1, Pairs
    <3>3. \A u \in Unit : B!Proceed(u)
      BY <2>4, <2>6, <2>7
    <3> QED
      BY <2>1, <3>2, <3>3, SameInstructions DEF B!BoardNext
  <2>8. CASE ~ AcceptLast /\ ~ (blk.taken /\ fresh)
    <3>1. Fetched' = Fetched
      BY <2>1, <2>4, <2>8 DEF Fetched, TypeOK
    <3>2. Queue' = Queue \o new
      BY <2>2, <2>3, <2>5, <2>8, <3>1
    <3>3. \A u \in Unit : B!Proceed(u)
      <4>1. blk.taken => pre.cmd = Nop
        BY <2>1, <2>8 DEF Holding
      <4> QED
        BY <2>6, <4>1, NopFacts
    <3> QED
      BY <2>1, <3>2, <3>3, SameInstructions DEF B!BoardNext
  <2>9. CASE ~ AcceptLast /\ blk.taken /\ fresh
    <3>1. Fetched' = << >> /\ Fetched = <<pre.cmd>>
      BY <2>4, <2>9 DEF Fetched
    <3>2. /\ Queue # << >> /\ Head(Queue) = pre.cmd
          /\ Tail(Queue) = Coming
      <4>1. CASE Coming = << >>
        <5>1. Queue = <<pre.cmd>>
          BY <2>3, <3>1, <4>1, Pairs
        <5> QED
          BY <4>1, <5>1, Pairs
      <4>2. CASE Coming = <<bus.cur>>
        <5>1. Queue = <<pre.cmd, bus.cur>>
          BY <2>3, <3>1, <4>2, Pairs
        <5> QED
          BY <4>2, <5>1, Pairs
      <4> QED
        BY <4>1, <4>2 DEF Coming
    <3>3. Queue' = Tail(Queue) \o new
      <4>1. << >> \o (Coming \o new) = Coming \o new
        BY Pairs DEF Coming, B!Sent
      <4> QED
        BY <2>2, <2>3, <2>9, <3>1, <3>2, <4>1
    <3>4. B!Free(pre.cmd)
      <4>1. /\ Uses(pre.cmd) \cap InUse = {}
            /\ \A u \in Unit : Needs(u, pre.cmd) => reads[u] = {} /\ writes[u] = {}
        BY <2>9, WhenTaken
      <4>2. B!Uses(pre.cmd) \cap B!InUse = {}
        BY <4>1, SameInstructions
      <4>3. ASSUME NEW u \in B!Unit, B!Needs(u, pre.cmd)
            PROVE  reads[u] = {} /\ writes[u] = {}
        <5>1. u \in Unit /\ Needs(u, pre.cmd)
          BY <4>3, SameInstructions, Zenon
        <5> QED
          BY <4>1, <5>1
      <4> QED
        BY <4>2, <4>3, Zenon DEF B!Free
    <3>5. ASSUME NEW u \in Unit
          PROVE  IF Needs(u, pre.cmd)
                 THEN /\ reads'[u] = ReadBy(u, pre.cmd)
                      /\ writes'[u] = WrittenBy(u, pre.cmd)
                 ELSE B!Proceed(u)
      BY <1>2, <2>6, <2>9, UsageStep
    <3>6. B!Issue
      <4>1. PICK i : i = Head(Queue) /\ i = pre.cmd
        BY <3>2
      <4>2. ASSUME NEW u \in B!Unit
            PROVE  IF B!Needs(u, i) THEN /\ reads'[u] = B!ReadBy(u, i)
                                         /\ writes'[u] = B!WrittenBy(u, i)
                                    ELSE B!Proceed(u)
        <5>1. /\ u \in Unit /\ (B!Needs(u, i) <=> Needs(u, i))
              /\ B!ReadBy(u, i) = ReadBy(u, i) /\ B!WrittenBy(u, i) = WrittenBy(u, i)
          BY SameInstructions, Zenon
        <5>2. IF Needs(u, i) THEN /\ reads'[u] = ReadBy(u, i)
                                  /\ writes'[u] = WrittenBy(u, i)
                             ELSE B!Proceed(u)
          BY <3>5, <4>1, <5>1
        <5> QED
          BY <5>1, <5>2, Zenon
      <4> QED
        BY <3>2, <3>4, <4>1, <4>2, Zenon DEF B!Issue
    <3> QED
      BY <2>1, <3>3, <3>6, SameInstructions DEF B!BoardNext
  <2> QED
    BY <2>7, <2>8, <2>9
<1> QED
  BY <1>1, <1>2

\* The control part issues what the host sends, each instruction once and in
\* the order sent, none before the registers and the units it needs are free.
THEOREM ImplementsScoreboard ==
  ASSUME Disciplined
  PROVE  Spec => IsScoreboard
<1>1. Init => B!BoardInit
  BY SameInstructions DEF Init, B!BoardInit, Queue
<1>2. IssueInv /\ IssueInv' /\ [Clock]_vars => [B!BoardNext]_(B!boardVars)
  BY BoardStep
<1> QED
  BY <1>1, <1>2, IssueInvAlways, PTL DEF Spec, IsScoreboard, B!Board

-----------------------------------------------------------------------------
(* No mark is left behind.                                                 *)

\* A marked register is in use, or on its way to be given free.
Accounted ==
  \A r \in box.busy :
    \/ r \in InUse
    \/ Freed(r)
    \/ box.lastDly /\ box.mode[r] = [write |-> FALSE, by |-> 0]

LEMMA AccountedInit == Init => Accounted
BY DEF Init, Accounted

\* What an instruction taken in the last three clocks uses is in use.
LEMMA YoungInUse ==
  ASSUME IssueInv, NEW s \in 1..3, NEW r \in Uses(claim[s])
  PROVE  r \in InUse
<1>1. claim[s] # Nop
  BY NopFacts
<1>2. claim[s] \in Program /\ Lasts(claim[s], s - 1)
  BY <1>1, ClaimOf
<1>3. PICK u \in Unit : r \in ReadBy(u, claim[s]) \cup WrittenBy(u, claim[s])
  BY DEF Uses
<1>4. Needs(u, claim[s])
  BY <1>3, Parts
<1>5. /\ writes[u] = WrittenBy(u, claim[s])
      /\ u \in Engine => reads[u] = ReadBy(u, claim[s])
  BY <1>1, <1>2, <1>4 DEF Lasts
<1>6. u \in Port => ReadBy(u, claim[s]) = {}
  <2>1. claim[s].op \in Op
    BY <1>2, ProgramFacts
  <2> QED
    BY <2>1 DEF ReadBy, Op, Port
<1> QED
  BY <1>3, <1>5, <1>6 DEF InUse, Unit

\* While a unit ends, no instruction taken in the last three clocks uses what it
\* gives free.
LEMMA WhenEnding ==
  ASSUME IssueInv, NEW u \in Unit, NEW s \in 1..3,
         eng.last[u] \/ (u \in {"add", "mult"} /\ box.done[u])
  PROVE  (reads[u] \cup writes[u]) \cap Uses(claim[s]) = {}
<1>1. SUFFICES ASSUME Needs(u, claim[s]) PROVE FALSE
  BY DEF IssueInv, Claims
<1>2. claim[s] # Nop
  BY <1>1, NopFacts
<1>3. /\ ~ eng.last[u]
      /\ u \in Engine => eng.run[u] + (s - 1) >= IF u = "add" THEN 3 ELSE 4
  BY <1>1, <1>2, ClaimOf DEF Lasts
<1>4. u \in {"add", "mult"} => eng.run[u] > 0 /\ EngineOK(u)
  BY <1>3 DEF IssueInv, TypeOK, UnitsOK, Unit, Engine
<1> QED
  BY <1>3, <1>4 DEF EngineOK

LEMMA AccountedStep ==
  ASSUME Disciplined, IssueInv, Accounted, Clock
  PROVE  Accounted'
<1>1. /\ box'.busy = BusyAfter /\ box'.mode = ModeAfter
      /\ box'.offRead = {r \in AllReg : ReadEnds(box.mode[r].by)}
      /\ box'.offWrite = {r \in AllReg : WriteEnds(box.mode[r].by)}
      /\ box'.lastDly <=> eng.last["add"]
      /\ reads \in [Unit -> SUBSET AllReg] /\ writes \in [Unit -> SUBSET AllReg]
      /\ pre.cmd \in Instr
  BY BusyboxClock DEF IssueInv, TypeOK
<1>2. SUFFICES ASSUME NEW r \in BusyAfter, r \notin InUse'
               PROVE  \/ Freed(r)'
                      \/ box'.lastDly /\ box'.mode[r] = [write |-> FALSE, by |-> 0]
  BY <1>1 DEF Accounted
<1>3. r \in AllReg
  BY <1>2 DEF BusyAfter
<1>4. ~ (blk.taken /\ r \in pre.line[5])
  <2>1. SUFFICES ASSUME blk.taken, r \in Uses(pre.cmd) PROVE FALSE
    BY WhenTaken
  <2>2. PICK u \in Unit : r \in ReadBy(u, pre.cmd) \cup WrittenBy(u, pre.cmd)
    BY <2>1 DEF Uses
  <2>3. Needs(u, pre.cmd)
    BY <2>2, Parts
  <2> QED
    BY <1>2, <2>1, <2>2, <2>3, UsageStep DEF InUse
<1>5. r \in box.busy /\ ~ Freed(r)
  BY <1>2, <1>4 DEF BusyAfter
<1>6. CASE r \in InUse
  <2>1. PICK u \in Unit : r \in reads[u] \cup writes[u]
    BY <1>6 DEF InUse
  <2>2. ~ (blk.taken /\ Needs(u, pre.cmd))
    BY <2>1, WhenTaken
  <2>3. \/ r \in reads[u] /\ eng.last[u]
        \/ r \in writes[u] /\ IF u \in Port THEN eng.last[u]
                              ELSE u # "unl" /\ box.done[u]
    BY <1>2, <2>1, <2>2, HistoryClock DEF InUse
  <2>4. r \notin Uses(claim[1]) /\ r \notin Uses(claim[2])
    BY <2>1, <2>3, WhenEnding DEF Unit, Engine
  <2>5. box'.mode[r] = box.mode[r]
    BY <1>1, <1>3, <2>4 DEF ModeAfter
  <2>6. /\ r \in reads[u] => box.mode[r] = [write |-> FALSE, by |-> Code(u)]
        /\ r \in writes[u] => box.mode[r] = [write |-> TRUE, by |-> Code(u)]
    BY <1>3, <2>4 DEF IssueInv, Modes
  <2>7. CASE r \in reads[u] /\ eng.last[u]
    <3>1. u \in Engine
      BY <2>7 DEF IssueInv, UnitsOK, LoaderOK, Unit
    <3>2. CASE u = "add"
      BY <1>1, <2>5, <2>6, <2>7, <3>2 DEF Code
    <3>3. CASE u # "add"
      <4>1. box.mode[r] = [write |-> FALSE, by |-> Code(u)] /\ ReadEnds(Code(u))
        BY <2>6, <2>7, <3>1, <3>3 DEF ReadEnds, Code, Engine
      <4>2. r \in box'.offRead
        BY <1>1, <1>3, <4>1
      <4> QED
        BY <2>5, <4>1, <4>2 DEF Freed
    <3> QED
      BY <3>2, <3>3
  <2>8. CASE r \in writes[u] /\ IF u \in Port THEN eng.last[u]
                                ELSE u # "unl" /\ box.done[u]
    <3>1. box.mode[r] = [write |-> TRUE, by |-> Code(u)] /\ WriteEnds(Code(u))
      BY <2>6, <2>8 DEF WriteEnds, Code, Unit, Engine, Port
    <3>2. r \in box'.offWrite
      BY <1>1, <1>3, <3>1
    <3> QED
      BY <2>5, <3>1, <3>2 DEF Freed
  <2> QED
    BY <2>3, <2>7, <2>8
<1>7. CASE r \notin InUse
  <2>1. box.lastDly /\ box.mode[r] = [write |-> FALSE, by |-> 0]
    BY <1>5, <1>7 DEF Accounted
  <2>2. r \notin Uses(claim[2])
    BY <1>7, YoungInUse
  <2>3. box'.mode[r] = box.mode[r]
    BY <1>1, <1>3, <2>2 DEF ModeAfter
  <2>4. r \in box'.offRead
    BY <1>1, <1>3, <2>1 DEF ReadEnds
  <2> QED
    BY <2>1, <2>3, <2>4 DEF Freed
<1> QED
  BY <1>6, <1>7

\* No register stays marked when nothing is at work and no signal on its way:
\* the account loses none of the events by which it is balanced.
THEOREM NothingLeaksEver ==
  ASSUME Disciplined
  PROVE  Spec => []NothingLeaks
<1>1. Disciplined /\ IssueInv /\ Accounted /\ [Clock]_vars => Accounted'
  <2>1. CASE UNCHANGED vars
    BY <2>1 DEF vars, Accounted, InUse, Freed
  <2> QED
    BY <2>1, AccountedStep
<1>2. Accounted => NothingLeaks
  BY DEF Accounted, NothingLeaks, Quiet, Freed
<1> QED
  BY <1>1, <1>2, AccountedInit, IssueInvAlways, PTL DEF Spec

-----------------------------------------------------------------------------
(* Routes.                                                                 *)

\* Unit u is about to get the route chosen for it, or has one that will not be
\* taken from it.
Routed(u) ==
  \/ cmc.start = u /\ eng.run[u] > 1
  \/ \E c \in Route : cmc.en[c] /\ cmc.oper[c] = u /\ ~ cmc.last[c]

Routes ==
  /\ \A u \in Engine : /\ eng.last[u] => eng.run[u] = 0
                       /\ eng.run[u] > 0 \/ eng.last[u] => Routed(u)
  /\ cmc.start # "nop" => blk.done = 0 /\ ~ cmc.en[cmc.channel]

LEMMA RoutesInit == Init => Routes
BY DEF Init, Routes, Unit, Engine, Port

LEMMA RoutesStep ==
  ASSUME Disciplined, "RouteFree" \in Rules, IssueInv, Routes, Clock
  PROVE  Routes'
<1> DEFINE Starting(c) == cmc.start # "nop" /\ cmc.channel = c
<1>1. /\ cmc'.channel = ChannelAfter
      /\ cmc'.start = IF blk.taken /\ pre.cmd.op \in Engine THEN pre.cmd.op ELSE "nop"
      /\ \A c \in Route :
           /\ cmc'.en[c] = (Starting(c) \/ (cmc.en[c] /\ ~ cmc.last[c]))
           /\ cmc'.oper[c] = IF Starting(c) THEN cmc.start ELSE cmc.oper[c]
           /\ cmc'.last[c] = (cmc.en[c] /\ eng.last[cmc.oper[c]])
  BY Zenon DEF Clock, Switch
<1>2. /\ cmc.channel \in Route /\ cmc.start \in Engine \cup {"nop"}
      /\ \A c \in Route : /\ cmc.en[c] \in BOOLEAN /\ cmc.last[c] \in BOOLEAN
                          /\ cmc.oper[c] \in Engine
      /\ \A u \in Unit : eng.run[u] \in Nat /\ eng.last[u] \in BOOLEAN
      /\ blk.taken \in BOOLEAN
  BY DEF IssueInv, TypeOK
<1>3. ASSUME blk.taken, pre.cmd.op \in Engine
      PROVE  /\ cmc.start = "nop" /\ ~ cmc'.en[cmc'.channel]
             /\ cmc'.channel \in Route
  <2>1. cmc.start = "nop"
    BY <1>3, WhenTaken DEF Routes
  <2>2. ~ (cmc.en[0] /\ cmc.en[1])
    <3>1. ~ Excluded("RouteFree")
      BY DEF IssueInv, NotExcluded
    <3> QED
      BY <1>3, <3>1 DEF Excluded
  <2>3. ChannelAfter \in Route /\ ~ cmc.en[ChannelAfter]
    BY <1>2, <1>3, <2>2 DEF ChannelAfter, Route
  <2> QED
    BY <1>1, <2>1, <2>3
<1>4. cmc'.start # "nop" => blk'.done = 0 /\ ~ cmc'.en[cmc'.channel]
  BY <1>1, <1>3, BlockerClock
<1>5. ASSUME NEW u \in Engine
      PROVE  /\ eng'.last[u] => eng'.run[u] = 0
             /\ eng'.run[u] > 0 \/ eng'.last[u] => Routed(u)'
  <2>1. PICK ends \in SUBSET MayEnd :
          /\ eng'.run[u] = RunAfter(u, ends)
          /\ eng'.last[u] <=> (u \in ends)
    BY UnitsClock DEF Unit
  <2>2. u \in ends => eng.run[u] = 1
    BY <2>1 DEF MayEnd
  <2>3. u \in Unit /\ u \notin Port
    BY DEF Unit, Engine, Port
  <2>4. CASE Taken(u)
    <3>1. blk.taken /\ pre.cmd.op = u /\ Needs(u, pre.cmd)
      BY <2>4, WhenTaken DEF Taken, Needs
    <3>2. eng.run[u] = 0
      BY <2>3, <3>1, WhenTaken
    <3>3. Lead(u) > 1
      BY IssueAssumption DEF Disciplined, Lead
    <3>4. eng'.run[u] > 1 /\ ~ eng'.last[u]
      BY <2>1, <2>2, <2>4, <3>2, <3>3 DEF RunAfter
    <3>5. cmc'.start = u
      BY <1>1, <3>1
    <3> QED
      BY <3>4, <3>5 DEF Routed
  <2>5. CASE ~ Taken(u)
    <3>1. eng'.run[u] = IF u \in ends THEN 0
                        ELSE IF eng.run[u] > 1 THEN eng.run[u] - 1 ELSE eng.run[u]
      BY <2>1, <2>3, <2>5 DEF RunAfter
    <3>2. eng'.last[u] => eng'.run[u] = 0
      BY <2>1, <3>1
    <3>3. ASSUME eng'.run[u] > 0 \/ eng'.last[u]
          PROVE  Routed(u)'
      <4>1. eng.run[u] > 0 /\ ~ eng.last[u] /\ Routed(u)
        BY <1>2, <2>1, <2>2, <2>3, <3>1, <3>3 DEF Routes
      <4>2. CASE cmc.start = u
        <5>1. Starting(cmc.channel) /\ ~ cmc.en[cmc.channel]
          BY <4>2 DEF Routes, Engine
        <5>2. /\ cmc'.en[cmc.channel] /\ cmc'.oper[cmc.channel] = u
              /\ ~ cmc'.last[cmc.channel]
          BY <1>1, <1>2, <4>2, <5>1
        <5>3. PICK c \in Route : c = cmc.channel
          BY <1>2
        <5> QED
          BY <5>2, <5>3 DEF Routed
      <4>3. CASE cmc.start # u
        <5>1. PICK c \in Route : cmc.en[c] /\ cmc.oper[c] = u /\ ~ cmc.last[c]
          BY <4>1, <4>3 DEF Routed
        <5>2. ~ Starting(c)
          BY <5>1 DEF Routes
        <5>3. cmc'.en[c] /\ cmc'.oper[c] = u /\ ~ cmc'.last[c]
          BY <1>1, <4>1, <5>1, <5>2
        <5> QED
          BY <5>3 DEF Routed
      <4> QED
        BY <4>2, <4>3
    <3> QED
      BY <3>2, <3>3
  <2> QED
    BY <2>4, <2>5
<1> QED
  BY <1>4, <1>5 DEF Routes

\* A unit that may end, or does, has a route of its own, if none is started
\* while both are in use.
THEOREM HasRouteAlways ==
  ASSUME Disciplined, "RouteFree" \in Rules
  PROVE  Spec => []HasRoute
<1>1. Disciplined /\ "RouteFree" \in Rules /\ IssueInv /\ Routes /\ [Clock]_vars => Routes'
  <2>1. CASE UNCHANGED vars
    BY <2>1 DEF vars, Routes, Routed
  <2> QED
    BY <2>1, RoutesStep
<1>2. Routes => HasRoute
  BY DEF Routes, Routed, HasRoute
<1> QED
  BY <1>1, <1>2, RoutesInit, IssueInvAlways, PTL DEF Spec

=============================================================================
