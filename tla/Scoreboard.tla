----------------------------- MODULE Scoreboard -----------------------------
(***************************************************************************)
(* What the control part of the coprocessor promises to the host: the      *)
(* instructions sent are issued in the order sent, each of them once, and  *)
(* none while a register it needs is in use by an earlier one or a unit it *)
(* needs is still at work.  Instructions overlap otherwise: a unit may     *)
(* release the operands before it has delivered the result.                *)
(*                                                                         *)
(* A step is a period of the clock, in which an instruction may be sent,   *)
(* one issued, and any number of units may be done with reading, writing.  *)
(***************************************************************************)
EXTENDS CpuInstructions, Sequences

VARIABLES queue,        \* instructions sent and not yet issued
          reads,        \* reads[u]: registers unit u reads from
          writes        \* writes[u]: registers unit u writes to

boardVars == <<queue, reads, writes>>

InUse == UNION {reads[u] \cup writes[u] : u \in Unit}

\* Instruction i neither shares a register with those at work nor a unit.
Free(i) ==
  /\ Uses(i) \cap InUse = {}
  /\ \A u \in Unit : Needs(u, i) => reads[u] = {} /\ writes[u] = {}

BoardInit == /\ queue = << >>
             /\ reads = [u \in Unit |-> {}]
             /\ writes = [u \in Unit |-> {}]

\* Unit u goes on or is done with (part of) its work.
Proceed(u) == /\ reads'[u] \in {reads[u], {}}
              /\ writes'[u] \in {writes[u], {}}

\* The head of the queue is issued.
Issue == /\ queue # << >>
         /\ Free(Head(queue))
         /\ \A u \in Unit :
              IF Needs(u, Head(queue))
              THEN /\ reads'[u] = ReadBy(u, Head(queue))
                   /\ writes'[u] = WrittenBy(u, Head(queue))
              ELSE Proceed(u)

\* The host sends one instruction more, or none.
Sent == {<< >>} \cup {<<i>> : i \in Program}

BoardNext ==
  /\ reads' \in [Unit -> SUBSET AllReg]
  /\ writes' \in [Unit -> SUBSET AllReg]
  /\ \E new \in Sent :
       \/ Issue /\ queue' = Tail(queue) \o new
       \/ (\A u \in Unit : Proceed(u)) /\ queue' = queue \o new

Board == BoardInit /\ [][BoardNext]_boardVars

=============================================================================
