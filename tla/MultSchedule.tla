---------------------------- MODULE MultSchedule ----------------------------
(***************************************************************************)
(* mult_regs_address of dpi_module.c: the order in which the multiplier    *)
(* wants the limbs of its operands, column by column of the product        *)
(* (limbs A[x], B[y] of one column have the same x + y), and the control   *)
(* signals that go with it.  The helper program mult_regs_address.cpp      *)
(* prints the same order.  An action is one pass of an inner loop.         *)
(***************************************************************************)
EXTENDS Integers, FiniteSets

CONSTANT Limbs             (* lengths of the operands                      *)

ASSUME LimbsAssumption == Limbs \subseteq Nat \ {0}

VARIABLES
  A_size, B_size,
  A_start_addr, B_start_addr,      (* where the column starts              *)
  A_curr_addr, B_curr_addr,        (* the next pair of limbs               *)
  up_cycle,                        (* length of a growing or shrinking one *)
  phase, inner, j, i,              (* the loops and their counters         *)
  counter,                         (* pairs written so far                 *)
  Aind, Bind,                      (* pair number 1, 2, ... of the order   *)
  cycle, addr_init_up, last,       (* signals, number 0, 1, ...            *)
  init_up_A_cnt, init_up_B_cnt

sizes   == <<A_size, B_size>>
address == <<A_start_addr, B_start_addr, A_curr_addr, B_curr_addr, up_cycle>>
loop    == <<phase, inner, j, i>>
order   == <<counter, Aind, Bind>>
signals == <<cycle, addr_init_up, last, init_up_A_cnt, init_up_B_cnt>>
mvars   == <<sizes, address, loop, order, signals>>

smaller == IF A_size > B_size THEN B_size ELSE A_size
greater == IF A_size > B_size THEN A_size ELSE B_size

(* The arrays have one entry more than there are pairs. *)
Entry == 0 .. A_size * B_size

(* The static variables before the first call.                             *)
ScheduleInit ==
  /\ A_size = 0 /\ B_size = 0
  /\ A_start_addr = 0 /\ B_start_addr = 0 /\ A_curr_addr = 0 /\ B_curr_addr = 0
  /\ up_cycle = 0 /\ counter = 0
  /\ phase = "ordered" /\ inner = FALSE /\ j = 0 /\ i = 0
  /\ Aind = [k \in Entry |-> 0] /\ Bind = [k \in Entry |-> 0]
  /\ cycle = [k \in Entry |-> 0] /\ addr_init_up = [k \in Entry |-> 0]
  /\ last = [k \in Entry |-> 0]
  /\ init_up_A_cnt = 1 /\ init_up_B_cnt = 1

(* m_init and the first loop of mult_regs_address, for operands of Alimbs  *)
(* and Blimbs limbs.  The caller clears Aind and Bind.                     *)
Start(Alimbs, Blimbs) ==
  /\ phase = "ordered"
  /\ A_size' = Alimbs /\ B_size' = Blimbs
  /\ A_start_addr' = -1 /\ B_start_addr' = 0 /\ A_curr_addr' = 0 /\ B_curr_addr' = 0
  /\ up_cycle' = 0 /\ counter' = 0
  /\ phase' = "up" /\ inner' = FALSE /\ j' = 0 /\ i' = 0
  /\ LET cleared == [k \in 0 .. Alimbs * Blimbs |-> 0] IN
     /\ Aind' = cleared /\ Bind' = cleared
     /\ cycle' = cleared /\ addr_init_up' = cleared /\ last' = cleared
  /\ init_up_A_cnt' = 1 /\ init_up_B_cnt' = 1

-----------------------------------------------------------------------------
(* A column starts. *)

(* The first pair of a column is (a, b). *)
StartAt(a, b) == /\ A_start_addr' = a /\ A_curr_addr' = a
                 /\ B_start_addr' = b /\ B_curr_addr' = b
                 /\ i' = 0 /\ inner' = TRUE
                 /\ UNCHANGED <<sizes, up_cycle, phase, j, order, signals>>

UpColumn == /\ phase = "up" /\ ~inner /\ j < smaller
            /\ StartAt(A_start_addr + 1, B_start_addr)

(* Mutant: both starts move when A is longer, too.                         *)
FlatColumnBoth ==
  /\ phase = "flat" /\ ~inner /\ j < greater
  /\ StartAt(IF A_start_addr < A_size - 1 THEN A_start_addr + 1 ELSE A_start_addr,
             IF B_start_addr < B_size - 1 THEN B_start_addr + 1 ELSE B_start_addr)

FlatColumn ==
  /\ phase = "flat" /\ ~inner /\ j < greater
  /\ StartAt(IF A_start_addr < A_size - 1 THEN A_start_addr + 1 ELSE A_start_addr,
             IF B_start_addr < B_size - 1 /\ B_size >= A_size
             THEN B_start_addr + 1 ELSE B_start_addr)

DownColumn == /\ phase = "down" /\ ~inner /\ j < smaller - 1
              /\ StartAt(A_start_addr, B_start_addr + 1)

(* The number of pairs in the column. *)
Length == IF phase = "up" THEN up_cycle + 1
          ELSE IF phase = "flat" THEN smaller ELSE up_cycle

(* m_get_indices and m_modify_addr. *)
Pair ==
  /\ inner /\ i < Length
  /\ counter' = counter + 1
  /\ Aind' = [Aind EXCEPT ![counter + 1] = A_curr_addr]
  /\ Bind' = [Bind EXCEPT ![counter + 1] = B_curr_addr]
  /\ A_curr_addr' = A_curr_addr - 1
  /\ B_curr_addr' = B_curr_addr + 1
  /\ i' = i + 1
  /\ UNCHANGED <<sizes, A_start_addr, B_start_addr, up_cycle, phase, inner, j, signals>>

EndColumn ==
  /\ inner /\ ~(i < Length)
  /\ inner' = FALSE /\ j' = j + 1
  /\ up_cycle' = IF phase = "up" THEN up_cycle + 1
                 ELSE IF phase = "flat" THEN up_cycle ELSE up_cycle - 1
  /\ UNCHANGED <<sizes, A_start_addr, B_start_addr, A_curr_addr, B_curr_addr, phase, i,
                 order, signals>>

-----------------------------------------------------------------------------
(* From one loop to the next. *)

Turn(p) == /\ phase' = p /\ inner' = FALSE
           /\ UNCHANGED <<sizes, A_start_addr, B_start_addr, A_curr_addr, B_curr_addr, order>>

EndUp == /\ phase = "up" /\ ~inner /\ ~(j < smaller)
         /\ Turn("flat") /\ j' = smaller /\ UNCHANGED <<i, up_cycle, signals>>

EndFlat == /\ phase = "flat" /\ ~inner /\ ~(j < greater)
           /\ Turn("down") /\ j' = 0 /\ up_cycle' = up_cycle - 1 /\ UNCHANGED <<i, signals>>

EndDown == /\ phase = "down" /\ ~inner /\ ~(j < smaller - 1)
           /\ last' = [last EXCEPT ![counter] = 1]
           /\ Turn("cycle") /\ i' = 0
           /\ UNCHANGED <<j, up_cycle, cycle, addr_init_up, init_up_A_cnt, init_up_B_cnt>>

(* Pair k + 1 is the first of its column. *)
StartsColumn(k) == Aind[k + 1] > Aind[k] \/ A_size = 1 \/ B_size = 1

MarkCycle == /\ phase = "cycle" /\ i < counter
             /\ cycle' = IF StartsColumn(i) THEN [cycle EXCEPT ![i] = 1] ELSE cycle
             /\ i' = i + 1
             /\ UNCHANGED <<sizes, address, phase, inner, j, order, addr_init_up, last,
                            init_up_A_cnt, init_up_B_cnt>>

EndCycle == /\ phase = "cycle" /\ ~(i < counter)
            /\ Turn("init") /\ i' = 1 /\ UNCHANGED <<j, up_cycle, signals>>

(* Mutant: the start of B moves as soon as the column is as long as B.     *)
MarkInitUpB ==
  /\ phase = "init" /\ i < counter
  /\ IF cycle[i] = 1 /\ init_up_B_cnt < B_size
     THEN /\ addr_init_up' = [addr_init_up EXCEPT ![i - 1] = 2]
          /\ init_up_B_cnt' = init_up_B_cnt + 1
          /\ UNCHANGED init_up_A_cnt
     ELSE IF cycle[i] = 1 /\ init_up_A_cnt < A_size
     THEN /\ addr_init_up' = [addr_init_up EXCEPT ![i - 1] = 1]
          /\ init_up_A_cnt' = init_up_A_cnt + 1
          /\ UNCHANGED init_up_B_cnt
     ELSE UNCHANGED <<addr_init_up, init_up_A_cnt, init_up_B_cnt>>
  /\ i' = i + 1
  /\ UNCHANGED <<sizes, address, phase, inner, j, order, cycle, last>>

(* The start of a column moves along A first, then along B. *)
MarkInitUp ==
  /\ phase = "init" /\ i < counter
  /\ IF cycle[i] = 1 /\ init_up_A_cnt < A_size
     THEN /\ addr_init_up' = [addr_init_up EXCEPT ![i - 1] = 1]
          /\ init_up_A_cnt' = init_up_A_cnt + 1
          /\ UNCHANGED init_up_B_cnt
     ELSE IF cycle[i] = 1 /\ init_up_B_cnt < B_size
     THEN /\ addr_init_up' = [addr_init_up EXCEPT ![i - 1] = 2]
          /\ init_up_B_cnt' = init_up_B_cnt + 1
          /\ UNCHANGED init_up_A_cnt
     ELSE UNCHANGED <<addr_init_up, init_up_A_cnt, init_up_B_cnt>>
  /\ i' = i + 1
  /\ UNCHANGED <<sizes, address, phase, inner, j, order, cycle, last>>

EndInit == /\ phase = "init" /\ ~(i < counter)
           /\ Turn("ordered")
           /\ cycle' = [cycle EXCEPT ![0] = 1]
           /\ UNCHANGED <<j, i, up_cycle, addr_init_up, last, init_up_A_cnt, init_up_B_cnt>>

Column == UpColumn \/ FlatColumn \/ DownColumn

Addresses == Column \/ Pair \/ EndColumn \/ EndUp \/ EndFlat \/ EndDown

Marks == MarkCycle \/ EndCycle \/ MarkInitUp \/ EndInit

Reorder == Addresses \/ Marks

ScheduleNext == (\E Alimbs, Blimbs \in Limbs : Start(Alimbs, Blimbs)) \/ Reorder

ScheduleSpec == ScheduleInit /\ [][ScheduleNext]_mvars

-----------------------------------------------------------------------------
(* Types; no entry is written behind the arrays.                           *)
ScheduleTypeOK ==
  /\ A_size \in Limbs \cup {0} /\ B_size \in Limbs \cup {0}
  /\ phase \in {"up", "flat", "down", "cycle", "init", "ordered"}
  /\ inner \in BOOLEAN /\ i \in Nat /\ j \in Nat /\ up_cycle \in Nat
  /\ counter \in Entry
  /\ Aind \in [Entry -> Nat] /\ Bind \in [Entry -> Nat]
  /\ cycle \in [Entry -> {0, 1}] /\ addr_init_up \in [Entry -> {0, 1, 2}]
  /\ last \in [Entry -> {0, 1}]

(* The order visits every pair of limbs once, and no limb that there is    *)
(* not.                                                                    *)
EachPairOnce ==
  /\ \A k \in 1 .. counter : Aind[k] \in 0 .. A_size - 1 /\ Bind[k] \in 0 .. B_size - 1
  /\ \A k, m \in 1 .. counter : Aind[k] = Aind[m] /\ Bind[k] = Bind[m] => k = m
  /\ phase \in {"cycle", "init", "ordered"} =>
       \A x \in 0 .. A_size - 1, y \in 0 .. B_size - 1 :
         \E k \in 1 .. counter : Aind[k] = x /\ Bind[k] = y

(* A column is complete before the next one begins, and within a column    *)
(* the unit goes up B and down A by one limb at a time: it has counters,   *)
(* not addresses.                                                          *)
ColumnByColumn ==
  \A k \in 1 .. counter - 1 :
    \/ Aind[k + 1] = Aind[k] - 1 /\ Bind[k + 1] = Bind[k] + 1
    \/ /\ Aind[k + 1] + Bind[k + 1] = Aind[k] + Bind[k] + 1
       /\ Aind[k] = 0 \/ Bind[k] = B_size - 1
       /\ Aind[k + 1] = A_size - 1 \/ Bind[k + 1] = 0

(* A register whose address is loaded from a start counter where cycle is  *)
(* set, and whose start counter counts where addr_init_up says so, as in   *)
(* reg_addressing_unit.vhd, stands at the first pair of every column.      *)
SignalsReplayStarts ==
  phase = "ordered" =>
    \A s \in 0 .. counter - 1 :
      /\ (cycle[s] = 1) <=> (s = 0 \/ Aind[s + 1] + Bind[s + 1] > Aind[s] + Bind[s])
      /\ cycle[s] = 1 =>
           /\ Aind[s + 1] = Cardinality({t \in 0 .. s - 1 : addr_init_up[t] = 1})
           /\ Bind[s + 1] = Cardinality({t \in 0 .. s - 1 : addr_init_up[t] = 2})
=============================================================================
