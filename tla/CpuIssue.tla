------------------------------ MODULE CpuIssue ------------------------------
(***************************************************************************)
(* The control part of the coprocessor, clock by clock: cpu_prefetch takes *)
(* instructions from the host, cpu_blocker holds them back until what they *)
(* need is free, cpu_busybox keeps that account, cpu_executer and          *)
(* cpu_cmc_switch start the units and give them a route to the registers.  *)
(* Every variable is a set of registers (flip-flops), Clock is the rising  *)
(* edge.  Not determined by the state are: when the host offers a byte,    *)
(* and how long a unit works (that depends on the sizes of the numbers).   *)
(*                                                                         *)
(* Registers of numbers have their logical names.  The swap that the       *)
(* adder may order (cpu_mapper) exchanges the destination and the shadow   *)
(* register while add holds both, so the names stay valid.                 *)
(***************************************************************************)
EXTENDS CpuInstructions, Naturals, Sequences

CONSTANTS Starts,       \* instructions a program may begin with
          MaxInstr,     \* bound: instructions the host sends
          AddDelay,     \* clocks from the last operand of add to its result
          MultDelay,    \* the same for mult
          UnlLead,      \* clocks from start to last operand of unl, at least
          Rules         \* the coincidences left out (see Excluded)

ASSUME IssueAssumption ==
  /\ Starts \subseteq Program
  /\ MaxInstr \in Nat
  /\ AddDelay \in Nat \ {0} /\ MultDelay \in Nat \ {0}
  /\ UnlLead \in Nat \ {0}
  /\ Rules \subseteq {"LoaderFree", "RouteFree", "NoStale"}

VARIABLES
  bus,    \* the host: instruction on the control stream, bytes left, valid
  sent,   \* how many instructions the host has begun to send
  pre,    \* cpu_prefetch
  blk,    \* cpu_blocker
  box,    \* cpu_busybox
  claim,  \* the instruction taken one, two, three clocks ago
  cmc,    \* routes: r_cmc_channel of cpu_executer, and cpu_cmc_switch
  eng,    \* the counters of the units, and the loaders
  fresh,  \* history: the instruction in pre has not been taken yet
  reads,  \* history: registers unit u still reads from
  writes  \* history: registers unit u has still to write to

vars == <<bus, sent, pre, blk, box, claim, cmc, eng, fresh, reads, writes>>

Nop == [op |-> "nop", r1 |-> Shadow, r2 |-> Shadow, d |-> Shadow]
Route == {0, 1}

-----------------------------------------------------------------------------
(* The instruction word.                                                   *)

Bytes(i) == IF i.op \in {"loaab", "add", "mult"} THEN 2 ELSE 1

\* r_reg_*_busy_mode for register r: is it written, and by whom (code of the
\* unit: 0 adder, 1 multiplier, 2 unloader or loader A, 3 loader B).  The first
\* operand prevails over the second, an operand over a destination.
By(i, r) ==
  IF i.op = "add" THEN 0
  ELSE IF i.op = "mult" THEN 1
  ELSE IF i.op = "loab" \/ (i.op = "loaab" /\ r # i.r1) THEN 3
  ELSE 2

\* Mutant: destinations are given free together with the operands.
ModeAllRead(i, r) == [write |-> i.op \notin Engine, by |-> By(i, r)]

Mode(i, r) ==
  [write |-> ~ (i.op \in Engine /\ r \in ReadBy(i.op, i)), by |-> By(i, r)]

\* Clocks from the start of a unit until it may be done with the operands.
Lead(u) == IF u = "add" THEN 3 ELSE IF u = "mult" THEN 7 ELSE UnlLead

Delay(u) == IF u = "add" THEN AddDelay ELSE MultDelay

-----------------------------------------------------------------------------
Init ==
  /\ bus = [cur |-> Nop, left |-> 0, valid |-> FALSE]
  /\ sent = 0
  /\ pre = [cmd |-> Nop, op |-> "nop", ready |-> FALSE, processed |-> FALSE,
            cmdReady |-> FALSE, line |-> [s \in 1..5 |-> {}]]
  /\ blk = [unit |-> FALSE, vec |-> FALSE, reg |-> FALSE, ready |-> FALSE,
            wait |-> 0, toExec |-> FALSE, done |-> 4, taken |-> FALSE]
  /\ box = [busy |-> {}, mode |-> [r \in AllReg |-> [write |-> FALSE, by |-> 0]],
            offRead |-> {}, offWrite |-> {}, lastDly |-> FALSE,
            unit |-> [u \in {"add", "mult"} |-> FALSE],
            timer |-> [u \in {"add", "mult"} |-> 0],
            done |-> [u \in {"add", "mult"} |-> FALSE]]
  /\ claim = [s \in 1..3 |-> Nop]
  /\ cmc = [channel |-> 1, start |-> "nop", en |-> [c \in Route |-> FALSE],
            oper |-> [c \in Route |-> "add"], last |-> [c \in Route |-> FALSE]]
  /\ eng = [run |-> [u \in Unit |-> 0], last |-> [u \in Unit |-> FALSE],
            dead |-> {}, unlBusy |-> FALSE]
  /\ fresh = FALSE
  /\ reads = [u \in Unit |-> {}]
  /\ writes = [u \in Unit |-> {}]

-----------------------------------------------------------------------------
(* The host.  It holds a byte until it is accepted, and may pause then.    *)

Accept == bus.valid /\ pre.ready
AcceptLast == Accept /\ bus.left = 1

Hold == /\ bus.valid /\ ~ pre.ready
        /\ UNCHANGED <<bus, sent>>

\* The rest of the instruction, now or later.
NextByte == /\ bus.left = 2 /\ Accept
            /\ \E v \in BOOLEAN : bus' = [bus EXCEPT !.left = 1, !.valid = v]
            /\ UNCHANGED sent

Resume == /\ bus.left = 1 /\ ~ bus.valid
          /\ \E v \in BOOLEAN : bus' = [bus EXCEPT !.valid = v]
          /\ UNCHANGED sent

\* Another instruction, or none at present.
Offer == /\ bus.left = 0 \/ AcceptLast
         /\ sent < MaxInstr
         /\ \E i \in IF sent = 0 THEN Starts ELSE Program :
              bus' = [cur |-> i, left |-> Bytes(i), valid |-> TRUE]
         /\ sent' = sent + 1

Pause == /\ bus.left = 0 \/ AcceptLast
         /\ bus' = [cur |-> Nop, left |-> 0, valid |-> FALSE]
         /\ UNCHANGED sent

Host == Hold \/ NextByte \/ Resume \/ Offer \/ Pause

-----------------------------------------------------------------------------
(* cpu_prefetch, and the stages of cpu_mapper in "line".  r_cmd is shifted *)
(* with every byte; the model changes it with the last one, since nobody   *)
(* looks at it before.                                                     *)

\* Mutant: the last byte counts only when it is accepted.
LastOfferedGated == AcceptLast

LastOffered == bus.valid /\ bus.left = 1

\* Mutant: the next instruction is accepted at once.
ReadyAfterAlways == blk.taken \/ pre.ready

ReadyAfter == blk.taken \/ (pre.ready /\ ~ LastOffered)

Prefetch ==
  pre' = [cmd |-> IF AcceptLast THEN bus.cur ELSE pre.cmd,
          op |-> pre.cmd.op,
          ready |-> ReadyAfter,
          processed |-> LastOffered,
          cmdReady |-> ~ blk.taken /\ (pre.cmdReady \/ pre.processed),
          line |-> [s \in 1..5 |-> IF s = 1 THEN Uses(pre.cmd)
                                   ELSE pre.line[s - 1]]]

-----------------------------------------------------------------------------
(* cpu_blocker.  What it compares is older than the decision: the busy     *)
(* flags of units by one clock, those of registers by two, the registers   *)
(* of the instruction by another five; hence the waits.                    *)

UnitBusy ==
  \/ pre.op \in {"add", "mult"} /\ box.unit[pre.op]
  \/ pre.op = "unl" /\ (eng.unlBusy \/ box.unit["add"])

\* Mutant: two clocks of delay only.
WaitAfterShort == IF pre.cmdReady /\ ~ blk.ready THEN 2
                  ELSE IF blk.wait = 0 THEN 0 ELSE blk.wait - 1

\* c_cmd_pre_delay_width clocks after the instruction has become ready.
WaitAfter == IF pre.cmdReady /\ ~ blk.ready THEN 4
             ELSE IF blk.wait = 0 THEN 0 ELSE blk.wait - 1

Blocker ==
  blk' = [unit |-> UnitBusy,
          vec |-> box.busy \cap pre.line[5] # {},
          reg |-> blk.vec,
          ready |-> pre.cmdReady,
          wait |-> WaitAfter,
          toExec |-> blk.ready /\ pre.cmdReady /\ blk.wait = 0,
          done |-> IF blk.taken THEN 0
                   ELSE IF blk.done = 4 THEN 4 ELSE blk.done + 1,
          taken |-> /\ ~ blk.unit /\ ~ blk.reg /\ blk.toExec
                    /\ ~ blk.taken /\ blk.done = 4]

-----------------------------------------------------------------------------
(* cpu_busybox.                                                            *)

Taken(u) == blk.taken /\ pre.op = u

\* The register is given free: by a reader or by a writer, as its mode says.
Freed(r) == r \in IF box.mode[r].write THEN box.offWrite ELSE box.offRead

\* Mutant: the end of unl is forgotten.
ReadEndsNoUnl(k) == (k = 0 /\ box.lastDly) \/ (k = 1 /\ eng.last["mult"])

ReadEnds(k) == \/ k = 0 /\ box.lastDly
               \/ k = 1 /\ eng.last["mult"]
               \/ k = 2 /\ eng.last["unl"]

WriteEnds(k) == \/ k = 0 /\ box.done["add"]
                \/ k = 1 /\ box.done["mult"]
                \/ k = 2 /\ eng.last["ldA"]
                \/ k = 3 /\ eng.last["ldB"]

BusyAfter == {r \in AllReg : \/ blk.taken /\ r \in pre.line[5]
                             \/ r \in box.busy /\ ~ Freed(r)}

UnitAfter == [u \in {"add", "mult"} |-> Taken(u) \/ (box.unit[u] /\ ~ box.done[u])]

\* The mode is adopted two clocks later than the flag is set.
ModeAfter == [r \in AllReg |-> IF r \in Uses(claim[2]) THEN Mode(claim[2], r)
                               ELSE box.mode[r]]

TimerAfter(u) == IF box.unit[u] /\ eng.last[u] THEN Delay(u) + 1
                 ELSE IF box.timer[u] = 0 THEN 0 ELSE box.timer[u] - 1

Busybox ==
  /\ box' = [busy |-> BusyAfter,
             mode |-> ModeAfter,
             offRead |-> {r \in AllReg : ReadEnds(box.mode[r].by)},
             offWrite |-> {r \in AllReg : WriteEnds(box.mode[r].by)},
             lastDly |-> eng.last["add"],
             unit |-> UnitAfter,
             timer |-> [u \in {"add", "mult"} |-> TimerAfter(u)],
             done |-> [u \in {"add", "mult"} |-> box.timer[u] = 1]]
  /\ claim' = [s \in 1..3 |-> IF s > 1 THEN claim[s - 1]
                              ELSE IF blk.taken THEN pre.cmd ELSE Nop]

-----------------------------------------------------------------------------
(* Routes.  An instruction gets the route that is free, the other one than *)
(* last time if both are; loads pass through this choice, too.             *)

\* Mutant: the routes are used by turns.
ChannelAfterToggle == IF blk.taken THEN 1 - cmc.channel ELSE cmc.channel

ChannelAfter ==
  IF ~ blk.taken THEN cmc.channel
  ELSE IF cmc.en[0] = cmc.en[1]
       THEN IF cmc.en[0] THEN 0 ELSE 1 - cmc.channel
       ELSE IF cmc.en[0] THEN 1 ELSE 0

Switch ==
  LET Starting(c) == cmc.start # "nop" /\ cmc.channel = c
  IN  cmc' = [channel |-> ChannelAfter,
              start |-> IF blk.taken /\ pre.cmd.op \in Engine THEN pre.cmd.op
                        ELSE "nop",
              en |-> [c \in Route |-> Starting(c) \/ (cmc.en[c] /\ ~ cmc.last[c])],
              oper |-> [c \in Route |-> IF Starting(c) THEN cmc.start
                                        ELSE cmc.oper[c]],
              last |-> [c \in Route |-> cmc.en[c] /\ eng.last[cmc.oper[c]]]]

-----------------------------------------------------------------------------
(* Units.  run[u] counts down to 1 and stays there until the unit is done  *)
(* (ends), which may be any time then.  A loader is started three clocks   *)
(* after the instruction was taken; a start is lost while it is at work,   *)
(* and in the very clock of its last word it stops the loader for good.    *)

LoadStart(u) == WrittenBy(u, claim[3]) # {}

RunAfter(u, ends) ==
  IF u \in Engine /\ Taken(u) THEN Lead(u)
  ELSE IF u \in ends THEN 0
  ELSE IF u \in Port /\ LoadStart(u) /\ eng.run[u] = 0 /\ u \notin eng.dead THEN 2
  ELSE IF eng.run[u] > 1 THEN eng.run[u] - 1
  ELSE eng.run[u]

MayEnd == {u \in Unit : eng.run[u] = 1}

\* The unloader is busy until the last word has left on its stream (gone).
Units(ends, gone) ==
  /\ gone => eng.unlBusy /\ eng.run["unl"] = 0 /\ ~ eng.last["unl"]
  /\ eng' = [run |-> [u \in Unit |-> RunAfter(u, ends)],
             last |-> [u \in Unit |-> u \in ends],
             dead |-> eng.dead \cup {u \in ends \cap Port : LoadStart(u)},
             unlBusy |-> claim[2].op = "unl" \/ (eng.unlBusy /\ ~ gone)]

History ==
  /\ fresh' = (AcceptLast \/ (fresh /\ ~ blk.taken))
  /\ reads' = [u \in Unit |->
       IF blk.taken /\ Needs(u, pre.cmd) THEN ReadBy(u, pre.cmd)
       ELSE IF eng.last[u] THEN {} ELSE reads[u]]
  /\ writes' = [u \in Unit |->
       IF blk.taken /\ Needs(u, pre.cmd) THEN WrittenBy(u, pre.cmd)
       ELSE IF IF u \in Port THEN eng.last[u] ELSE u # "unl" /\ box.done[u]
            THEN {} ELSE writes[u]]

-----------------------------------------------------------------------------
(* Coincidences that the code leaves to chance; a run may leave them out.  *)

Loads == {u \in Port : WrittenBy(u, pre.cmd) # {}}

Excluded(rule) ==
  \/ /\ rule = "LoaderFree"    \* a load is taken while its loader works
     /\ blk.taken /\ \E u \in Loads : writes[u] # {}
  \/ /\ rule = "RouteFree"     \* a unit is started while both routes are used
     /\ blk.taken /\ pre.cmd.op \in Engine /\ cmc.en[0] /\ cmc.en[1]
  \/ /\ rule = "NoStale"       \* a register is freed as its previous mode says
     /\ \E s \in 1..3 : \E r \in Uses(claim[s]) : Freed(r)

Clock ==
  /\ Host
  /\ Prefetch
  /\ Blocker
  /\ Busybox
  /\ Switch
  /\ \E ends \in SUBSET MayEnd, gone \in BOOLEAN : Units(ends, gone)
  /\ History
  /\ \A rule \in Rules : ~ Excluded(rule)'

Spec == Init /\ [][Clock]_vars

-----------------------------------------------------------------------------
InUse == UNION {reads[u] \cup writes[u] : u \in Unit}

\* Type invariant.
TypeOK ==
  /\ bus \in [cur : Instr, left : 0..2, valid : BOOLEAN]
  /\ sent \in 0..MaxInstr
  /\ pre \in [cmd : Instr, op : Op, ready : BOOLEAN, processed : BOOLEAN,
              cmdReady : BOOLEAN, line : [1..5 -> SUBSET AllReg]]
  /\ blk \in [unit : BOOLEAN, vec : BOOLEAN, reg : BOOLEAN, ready : BOOLEAN,
              wait : 0..4, toExec : BOOLEAN, done : 0..4, taken : BOOLEAN]
  /\ box \in [busy : SUBSET AllReg, mode : [AllReg -> [write : BOOLEAN, by : 0..3]],
              offRead : SUBSET AllReg, offWrite : SUBSET AllReg,
              lastDly : BOOLEAN, unit : [{"add", "mult"} -> BOOLEAN],
              timer : [{"add", "mult"} -> Nat],
              done : [{"add", "mult"} -> BOOLEAN]]
  /\ claim \in [1..3 -> Instr]
  /\ cmc \in [channel : Route, start : Engine \cup {"nop"},
              en : [Route -> BOOLEAN], oper : [Route -> Engine],
              last : [Route -> BOOLEAN]]
  /\ eng \in [run : [Unit -> Nat], last : [Unit -> BOOLEAN],
              dead : SUBSET Port, unlBusy : BOOLEAN]
  /\ fresh \in BOOLEAN
  /\ reads \in [Unit -> SUBSET AllReg]
  /\ writes \in [Unit -> SUBSET AllReg]

\* When an instruction is taken, no register it needs is in use and no unit it
\* needs at work: what the account of busy flags, the waits of cpu_blocker and
\* the lengths of the pipelines are for.
TakenSafely ==
  blk.taken => /\ Uses(pre.cmd) \cap InUse = {}
               /\ \A u \in Unit : Needs(u, pre.cmd) => reads[u] = {} /\ writes[u] = {}
               /\ pre.cmd.op = "unl" => ~ eng.unlBusy

\* cpu_prefetch holds one instruction: the next is not accepted before it has
\* been taken, and it is not taken again.  (Before the first one it is taken
\* once with the no-operation that r_cmd holds after configuration.)
OneAtATime ==
  /\ AcceptLast => ~ fresh
  /\ blk.taken => fresh \/ pre.cmd = Nop

\* A register is marked busy as long as a unit reads from it or writes to it.
InUseIsBusy == InUse \subseteq box.busy

\* Each unit that reads has a route of its own.
HasRoute ==
  \A u \in Engine : eng.run[u] = 1 \/ eng.last[u] =>
                      \E c \in Route : cmc.en[c] /\ cmc.oper[c] = u

\* No register stays marked without a reason: at work, just taken, or a signal
\* that will free it is on its way.
Quiet == /\ InUse = {} /\ ~ blk.taken
         /\ \A s \in 1..3 : claim[s] = Nop
         /\ \A u \in Unit : ~ eng.last[u]
         /\ ~ box.lastDly
NothingLeaks == Quiet /\ box.offRead \cup box.offWrite = {} => box.busy = {}

\* What the host has sent and the coprocessor has not yet issued.
Queue == (IF fresh THEN <<pre.cmd>> ELSE << >>)
           \o (IF bus.left > 0 THEN <<bus.cur>> ELSE << >>)

B == INSTANCE Scoreboard WITH queue <- Queue

\* The control part implements the scoreboard: no instruction is lost, issued
\* twice or out of order, and none is issued too early.
IsScoreboard == B!Board

-----------------------------------------------------------------------------
(* Fairness: the clock runs; the host sends the rest of an instruction it  *)
(* has begun, and the numbers to load; the counters of the units end; the  *)
(* stream of the unloader is read.                                         *)

FairSpec ==
  /\ Spec
  /\ WF_vars(Clock)
  /\ WF_vars(Clock /\ bus.left > 0 /\ bus'.valid)
  /\ \A u \in Unit : WF_vars(Clock /\ eng'.last[u])
  /\ WF_vars(Clock /\ eng.unlBusy /\ ~ eng'.unlBusy)

\* Whatever the host has sent is issued: the coprocessor starts, no wait lasts
\* for ever and no busy flag is left behind.
AllIssued == (Queue # << >>) ~> (blk.taken /\ fresh)

=============================================================================
