------------------------- MODULE MultScheduleProofs -------------------------
(***************************************************************************)
(* The order of the multiplier visits every pair of limbs once, column by  *)
(* column, and stays within its arrays, for operands of any lengths.       *)
(*                                                                         *)
(* For the order the inductive invariant has two parts.  Shape says where  *)
(* the column being visited starts, how long it is and how many pairs have *)
(* been written, as functions of the loop counter.  Visited says which     *)
(* pairs have been written: those of the columns before, and of this       *)
(* column those with a smaller index into B.  SignalsOK says how far the   *)
(* signals made from that order are right.                                 *)
(*                                                                         *)
(* TestData uses that order: its behaviours are behaviours of MultSchedule *)
(* (OrderedBySchedule), and since the order visits every pair once and by  *)
(* columns, the stream adds up to the product of the operands.  That takes *)
(* lemmas about sums over finite sets, powers of two and the limbs of a    *)
(* number, for limbs of any number of digits.                              *)
(***************************************************************************)
EXTENDS TestData, FiniteSetsExt, FiniteSetTheorems, TLAPS

Loops == {"up", "flat", "down"}

Positive == A_size \in Nat \ {0} /\ B_size \in Nat \ {0}

(* Columns begun, within the loop. *)
Begun == IF inner THEN j + 1 ELSE j

(* Pairs written of the column being visited. *)
Written == IF inner THEN i ELSE 0

Addressed ==
  /\ A_start_addr \in Int /\ B_start_addr \in Int
  /\ A_curr_addr \in Int /\ B_curr_addr \in Int

UpShape ==
  /\ j \in 0 .. smaller /\ (inner => j < smaller)
  /\ up_cycle = j
  /\ A_start_addr = Begun - 1 /\ B_start_addr = 0
  /\ 2 * counter = j * (j + 1) + 2 * Written

FlatCount == 2 * counter = 2 * smaller * j - smaller * smaller + smaller + 2 * Written

FlatShape ==
  /\ j \in smaller .. greater /\ (inner => j < greater)
  /\ up_cycle = smaller
  /\ A_start_addr = (IF A_size > B_size THEN Begun - 1 ELSE A_size - 1)
  /\ B_start_addr = (IF A_size > B_size THEN 0 ELSE Begun - A_size)
  /\ FlatCount

DownShape ==
  /\ j \in 0 .. smaller - 1 /\ (inner => j < smaller - 1)
  /\ up_cycle = smaller - 1 - j
  /\ A_start_addr = A_size - 1
  /\ B_start_addr = B_size - smaller + Begun
  /\ 2 * counter = 2 * smaller * greater - up_cycle * (up_cycle + 1) + 2 * Written

InColumn ==
  inner => /\ phase \in Loops /\ i \in 0 .. Length
           /\ A_curr_addr = A_start_addr - i
           /\ B_curr_addr = B_start_addr + i

Shape ==
  /\ phase \in Loops => Positive
  /\ phase = "up" => UpShape
  /\ phase = "flat" => FlatShape
  /\ phase = "down" => DownShape
  /\ InColumn

(* The pair (x, y) comes before the next one to be written. *)
Before(x, y) ==
  IF inner THEN \/ x + y < A_curr_addr + B_curr_addr
                \/ x + y = A_curr_addr + B_curr_addr /\ y < B_curr_addr
  ELSE x + y <= A_start_addr + B_start_addr

RangeA == 0 .. A_size - 1
RangeB == 0 .. B_size - 1

IndicesExist == \A k \in 1 .. counter : Aind[k] \in RangeA /\ Bind[k] \in RangeB

NoneTwice == \A k, m \in 1 .. counter : Aind[k] = Aind[m] /\ Bind[k] = Bind[m] => k = m

WrittenBefore == phase \in Loops => \A k \in 1 .. counter : Before(Aind[k], Bind[k])

BeforeWritten ==
  \A x \in RangeA, y \in RangeB :
    (phase \in Loops => Before(x, y)) =>
      \E k \in 1 .. counter : Aind[k] = x /\ Bind[k] = y

(* Where the last pair written stands to the next one. *)
LastWritten ==
  phase \in Loops /\ counter > 0 =>
    IF inner /\ i > 0
    THEN Aind[counter] = A_curr_addr + 1 /\ Bind[counter] = B_curr_addr - 1
    ELSE /\ Aind[counter] + Bind[counter]
              = A_start_addr + B_start_addr - (IF inner THEN 1 ELSE 0)
         /\ Aind[counter] = 0 \/ Bind[counter] = B_size - 1

Visited == /\ IndicesExist /\ NoneTwice /\ WrittenBefore /\ BeforeWritten
           /\ ColumnByColumn /\ LastWritten

IInv == ScheduleTypeOK /\ Addressed /\ Shape /\ Visited

-----------------------------------------------------------------------------
(* Arithmetic. *)

LEMMA SmallerFacts ==
  ASSUME Positive
  PROVE  /\ smaller \in Nat \ {0} /\ greater \in Nat \ {0} /\ smaller <= greater
         /\ smaller * greater = A_size * B_size
         /\ smaller <= A_size /\ smaller <= B_size
         /\ A_size > B_size => smaller = B_size /\ greater = A_size
         /\ ~(A_size > B_size) => smaller = A_size /\ greater = B_size
<1>1. CASE A_size > B_size
  BY <1>1 DEF Positive, smaller, greater
<1>2. CASE ~(A_size > B_size)
  BY <1>2 DEF Positive, smaller, greater
<1> QED BY <1>1, <1>2

LEMMA ProductMonotone ==
  ASSUME NEW p \in Nat, NEW q \in Nat, NEW r \in Nat, q <= r
  PROVE  p * q <= p * r /\ q * p <= r * p
<1> DEFINE d == r - q
<1>1. d \in Nat /\ r = q + d
  OBVIOUS
<1>2. p * d \in Nat /\ p * r = p * q + p * d /\ r * p = q * p + p * d
  BY <1>1
<1> QED BY <1>2

(* The pairs of the growing columns, up to column jj, fit. *)
LEMMA GrowingFits ==
  ASSUME NEW s \in Nat \ {0}, NEW g \in Nat \ {0}, s <= g, NEW jj \in Nat, jj < s
  PROVE  jj * (jj + 1) + 2 * (jj + 1) <= 2 * (s * g)
<1>1. (jj + 1) * (jj + 2) <= (jj + 1) * (s + 1)
  BY ProductMonotone
<1>2. (jj + 1) * (s + 1) <= s * (s + 1)
  BY ProductMonotone
<1>3. s * (s + 1) <= s * (2 * g)
  <2>1. s + 1 <= 2 * g
    OBVIOUS
  <2> QED BY <2>1, ProductMonotone
<1> QED BY <1>1, <1>2, <1>3

LEMMA MiddleFits ==
  ASSUME NEW s \in Nat \ {0}, NEW g \in Nat \ {0}, NEW jj \in Nat, jj < g
  PROVE  2 * s * jj - s * s + s + 2 * s <= 2 * (s * g)
<1>1. s * (jj + 1) <= s * g
  BY ProductMonotone
<1>2. s * 1 <= s * s
  BY ProductMonotone
<1> QED BY <1>1, <1>2

LEMMA ShrinkingFits ==
  ASSUME NEW p \in Nat, NEW r \in Nat \ {0}
  PROVE  2 * p - r * (r + 1) + 2 * r <= 2 * p
<1>1. r * 2 <= r * (r + 1)
  BY ProductMonotone
<1> QED BY <1>1

LEMMA OneMore ==
  ASSUME NEW n \in Nat, NEW k \in Nat, NEW x \in Int, 2 * n = x + 2 * k
  PROVE  2 * (n + 1) = x + 2 * (k + 1)
OBVIOUS

LEMMA Halved ==
  ASSUME NEW n \in Nat, NEW p \in Nat, NEW x \in Int, 2 * (n + 1) <= x, x <= 2 * p
  PROVE  n + 1 <= p
OBVIOUS

-----------------------------------------------------------------------------
(* What Shape says of the column being visited. *)

(* The limbs to be asked for exist, the entry to be written exists, and    *)
(* the column ends at an end of an operand.                                *)
ColumnFits ==
  /\ i \in Nat /\ Length \in Nat \ {0}
  /\ i < Length => /\ A_curr_addr \in RangeA /\ B_curr_addr \in RangeB
                   /\ counter + 1 <= A_size * B_size
  /\ ~(i < Length) => i = Length /\ (A_curr_addr = -1 \/ B_curr_addr = B_size)
  /\ A_start_addr = A_size - 1 \/ B_start_addr = 0
  /\ A_curr_addr + B_curr_addr = A_start_addr + B_start_addr

LEMMA InnerFacts ==
  ASSUME ScheduleTypeOK, Addressed, Shape, inner
  PROVE  ColumnFits
<1> Positive
  BY DEF Shape, InColumn
<1>1. /\ i \in Nat /\ i \in 0 .. Length /\ counter \in Nat /\ phase \in Loops
      /\ A_curr_addr = A_start_addr - i /\ B_curr_addr = B_start_addr + i
      /\ A_start_addr \in Int /\ B_start_addr \in Int /\ Written = i /\ Begun = j + 1
  BY DEF ScheduleTypeOK, Addressed, Shape, InColumn, Written, Begun, Entry
<1>2. CASE phase = "up"
  <2>1. /\ j \in Nat /\ j < smaller /\ Length = j + 1 /\ A_start_addr = j /\ B_start_addr = 0
        /\ 2 * counter = j * (j + 1) + 2 * i
    BY <1>1, <1>2, SmallerFacts DEF Shape, UpShape, Length
  <2>2. j * (j + 1) + 2 * (j + 1) <= 2 * (A_size * B_size)
    BY <2>1, SmallerFacts, GrowingFits
  <2>3. i < Length => counter + 1 <= A_size * B_size
    <3> SUFFICES ASSUME i < Length PROVE counter + 1 <= A_size * B_size
      OBVIOUS
    <3>1. 2 * (counter + 1) <= j * (j + 1) + 2 * (j + 1)
      BY <1>1, <2>1
    <3>2. j * (j + 1) + 2 * (j + 1) \in Int /\ A_size * B_size \in Nat
      BY <2>1 DEF Positive
    <3> QED BY <1>1, <2>2, <3>1, <3>2, Halved
  <2> QED BY <1>1, <2>1, <2>3, SmallerFacts DEF ColumnFits, RangeA, RangeB, Positive
<1>3. CASE phase = "flat"
  <2>1. /\ j \in Nat /\ j < greater /\ Length = smaller /\ smaller <= j
        /\ A_start_addr = (IF A_size > B_size THEN j ELSE A_size - 1)
        /\ B_start_addr = (IF A_size > B_size THEN 0 ELSE j + 1 - A_size)
        /\ 2 * counter = 2 * smaller * j - smaller * smaller + smaller + 2 * i
    BY <1>1, <1>3, SmallerFacts DEF Shape, FlatShape, FlatCount, Length
  <2>2. 2 * smaller * j - smaller * smaller + smaller + 2 * smaller <= 2 * (A_size * B_size)
    BY <2>1, SmallerFacts, MiddleFits
  <2>3. i < Length => counter + 1 <= A_size * B_size
    <3> SUFFICES ASSUME i < Length PROVE counter + 1 <= A_size * B_size
      OBVIOUS
    <3>0. smaller \in Nat /\ smaller * j \in Nat /\ smaller * smaller \in Nat /\ A_size * B_size \in Nat
      BY <2>1, SmallerFacts DEF Positive
    <3>1. 2 * (counter + 1) <= 2 * smaller * j - smaller * smaller + smaller + 2 * smaller
      BY <1>1, <2>1, <3>0
    <3>2. 2 * smaller * j - smaller * smaller + smaller + 2 * smaller \in Int
      BY <2>1, <3>0
    <3> QED BY <1>1, <2>2, <3>0, <3>1, <3>2, Halved
  <2>4. CASE A_size > B_size
    BY <1>1, <2>1, <2>3, <2>4, SmallerFacts DEF ColumnFits, RangeA, RangeB, Positive
  <2>5. CASE ~(A_size > B_size)
    BY <1>1, <2>1, <2>3, <2>5, SmallerFacts DEF ColumnFits, RangeA, RangeB, Positive
  <2> QED BY <2>4, <2>5
<1>4. CASE phase = "down"
  <2>1. /\ j \in Nat /\ j < smaller - 1 /\ Length = smaller - 1 - j /\ up_cycle = Length
        /\ A_start_addr = A_size - 1 /\ B_start_addr = B_size - smaller + j + 1
        /\ 2 * counter = 2 * smaller * greater - up_cycle * (up_cycle + 1) + 2 * i
    BY <1>1, <1>4, SmallerFacts DEF Shape, DownShape, Length
  <2>2. /\ Length \in Nat \ {0} /\ A_size * B_size \in Nat
        /\ 2 * smaller * greater = 2 * (A_size * B_size)
    <3>1. smaller \in Nat /\ greater \in Nat /\ smaller * greater = A_size * B_size
      BY SmallerFacts
    <3>2. 2 * smaller * greater = 2 * (smaller * greater)
      BY <3>1
    <3>3. A_size * B_size \in Nat
      BY DEF Positive
    <3> QED BY <2>1, <3>1, <3>2, <3>3
  <2>3. i < Length => counter + 1 <= A_size * B_size
    <3> SUFFICES ASSUME i < Length PROVE counter + 1 <= A_size * B_size
      OBVIOUS
    <3>1. 2 * (A_size * B_size) - Length * (Length + 1) + 2 * Length <= 2 * (A_size * B_size)
      BY <2>2, ShrinkingFits
    <3>2. 2 * counter = 2 * (A_size * B_size) - Length * (Length + 1) + 2 * i
      BY <2>1, <2>2
    <3>3. Length * (Length + 1) \in Nat
      BY <2>2
    <3>4. 2 * (counter + 1) <= 2 * (A_size * B_size) - Length * (Length + 1) + 2 * Length
      BY <1>1, <2>2, <3>2, <3>3
    <3> QED BY <1>1, <2>2, <3>1, <3>3, <3>4
  <2> QED BY <1>1, <2>1, <2>2, <2>3, SmallerFacts DEF ColumnFits, RangeA, RangeB, Positive
<1> QED BY <1>1, <1>2, <1>3, <1>4 DEF Loops

(* A new column is the next one, and starts at an end of an operand.       *)
NextColumn ==
  /\ phase' = phase /\ phase \in Loops
  /\ inner' /\ i' = 0 /\ A_curr_addr' = A_start_addr' /\ B_curr_addr' = B_start_addr'
  /\ A_start_addr' \in Int /\ B_start_addr' \in Int
  /\ A_start_addr' + B_start_addr' = A_start_addr + B_start_addr + 1
  /\ A_start_addr' = A_size - 1 \/ B_start_addr' = 0

LEMMA ColumnFacts ==
  ASSUME ScheduleTypeOK, Addressed, Shape, Column
  PROVE  NextColumn /\ Shape'
<1> Positive /\ ~inner /\ Positive'
  BY DEF Shape, Column, UpColumn, FlatColumn, DownColumn, Loops, StartAt, sizes, Positive
<1>0. /\ j \in Nat /\ counter \in Nat /\ A_start_addr \in Int /\ B_start_addr \in Int
      /\ Written = 0 /\ Begun = j
  BY DEF ScheduleTypeOK, Addressed, Written, Begun, Entry
<1>1. /\ UNCHANGED <<sizes, up_cycle, phase, j, order, signals>>
      /\ i' = 0 /\ inner' = TRUE
      /\ A_curr_addr' = A_start_addr' /\ B_curr_addr' = B_start_addr'
  BY DEF Column, UpColumn, FlatColumn, DownColumn, StartAt
<1>2. /\ smaller' = smaller /\ greater' = greater /\ counter' = counter
      /\ Written' = 0 /\ Begun' = j + 1 /\ Length' = Length
      /\ A_size' = A_size /\ B_size' = B_size
  BY <1>1 DEF smaller, greater, sizes, order, Written, Begun, Length
<1>3. CASE UpColumn
  <2>1. phase = "up" /\ j < smaller /\ A_start_addr' = A_start_addr + 1 /\ B_start_addr' = B_start_addr
    BY <1>3 DEF UpColumn, StartAt
  <2>2. UpShape /\ A_start_addr = j - 1 /\ B_start_addr = 0 /\ Length = j + 1
    BY <1>0, <2>1 DEF Shape, UpShape, Length
  <2>3. UpShape'
    BY <1>0, <1>1, <1>2, <2>1, <2>2 DEF UpShape
  <2> QED BY <1>0, <1>1, <1>2, <2>1, <2>2, <2>3 DEF NextColumn, Shape, InColumn, Loops
<1>4. CASE FlatColumn
  <2>1. /\ phase = "flat" /\ j < greater
        /\ A_start_addr' = (IF A_start_addr < A_size - 1 THEN A_start_addr + 1 ELSE A_start_addr)
        /\ B_start_addr' = (IF B_start_addr < B_size - 1 /\ B_size >= A_size
                            THEN B_start_addr + 1 ELSE B_start_addr)
    BY <1>4 DEF FlatColumn, StartAt
  <2>2. FlatShape /\ smaller <= j /\ Length = smaller
    BY <1>0, <2>1, SmallerFacts DEF Shape, FlatShape, Length
  <2>3. CASE A_size > B_size
    <3>1. A_start_addr = j - 1 /\ B_start_addr = 0
      BY <1>0, <2>2, <2>3 DEF FlatShape
    <3>2. A_start_addr' = j /\ B_start_addr' = 0
      BY <1>0, <2>1, <2>3, <3>1, SmallerFacts DEF Positive
    <3>3. FlatShape'
      BY <1>0, <1>1, <1>2, <2>1, <2>2, <2>3, <3>2 DEF FlatShape, FlatCount
    <3> QED BY <1>0, <1>1, <1>2, <2>1, <2>2, <3>1, <3>2, <3>3, SmallerFacts
            DEF NextColumn, Shape, InColumn, Loops
  <2>4. CASE ~(A_size > B_size)
    <3>1. A_start_addr = A_size - 1 /\ B_start_addr = j - A_size
      BY <1>0, <2>2, <2>4 DEF FlatShape
    <3>2. A_start_addr' = A_size - 1 /\ B_start_addr' = j + 1 - A_size
      BY <1>0, <2>1, <2>4, <3>1, SmallerFacts DEF Positive
    <3>3. FlatShape'
      <4>1. FlatCount'
        BY <1>0, <1>1, <1>2, <2>2 DEF FlatShape, FlatCount
      <4>2. j' \in smaller' .. greater' /\ j' < greater' /\ up_cycle' = smaller'
        BY <1>0, <1>1, <1>2, <2>1, <2>2 DEF FlatShape
      <4>3. A_start_addr' = A_size' - 1 /\ B_start_addr' = Begun' - A_size'
        BY <1>0, <1>2, <3>2 DEF Positive
      <4>4. ~(A_size' > B_size')
        BY <1>2, <2>4
      <4> QED BY <4>1, <4>2, <4>3, <4>4 DEF FlatShape
    <3> QED BY <1>0, <1>1, <1>2, <2>1, <2>2, <3>1, <3>2, <3>3, SmallerFacts
            DEF NextColumn, Shape, InColumn, Loops, Positive
  <2> QED BY <2>3, <2>4
<1>5. CASE DownColumn
  <2>1. phase = "down" /\ j < smaller - 1 /\ A_start_addr' = A_start_addr /\ B_start_addr' = B_start_addr + 1
    BY <1>5 DEF DownColumn, StartAt
  <2>2. DownShape /\ A_start_addr = A_size - 1 /\ B_start_addr = B_size - smaller + j
    BY <1>0, <2>1 DEF Shape, DownShape
  <2>3. DownShape'
    BY <1>0, <1>1, <1>2, <2>1, <2>2, SmallerFacts DEF DownShape, Positive
  <2>4. 0 \in 0 .. Length
    BY <1>0, <2>1, <2>2, SmallerFacts DEF DownShape, Length
  <2> QED BY <1>0, <1>1, <1>2, <2>1, <2>2, <2>3, <2>4 DEF NextColumn, Shape, InColumn, Loops
<1> QED BY <1>3, <1>4, <1>5 DEF Column

-----------------------------------------------------------------------------
(* Shape is kept by the other steps of the loops. *)

LEMMA PairShape ==
  ASSUME ScheduleTypeOK, Addressed, Shape, Pair
  PROVE  Shape'
<1>1. /\ inner /\ i < Length /\ counter' = counter + 1 /\ i' = i + 1
      /\ A_curr_addr' = A_curr_addr - 1 /\ B_curr_addr' = B_curr_addr + 1
      /\ UNCHANGED <<sizes, A_start_addr, B_start_addr, up_cycle, phase, inner, j>>
  BY DEF Pair
<1>2. /\ i \in 0 .. Length /\ i \in Nat /\ Length \in Nat /\ counter \in Nat /\ j \in Nat
      /\ A_start_addr \in Int /\ B_start_addr \in Int /\ up_cycle \in Nat
  BY <1>1, InnerFacts DEF ScheduleTypeOK, Addressed, Shape, InColumn, Entry, ColumnFits
<1>3. /\ Length' = Length /\ smaller' = smaller /\ greater' = greater /\ Begun' = Begun
      /\ Written = i /\ Written' = i + 1 /\ A_size' = A_size /\ B_size' = B_size
  BY <1>1 DEF Length, smaller, greater, Begun, Written, sizes
<1>4. Positive /\ Positive' /\ phase \in Loops /\ phase' \in Loops
  BY <1>1 DEF Shape, InColumn, Positive, sizes
<1>6. InColumn'
  BY <1>1, <1>2, <1>3, <1>4 DEF Shape, InColumn
<1>7. smaller \in Nat /\ greater \in Nat
  BY <1>4, SmallerFacts
<1>8. UpShape => UpShape'
  <2> SUFFICES ASSUME UpShape PROVE UpShape'
    OBVIOUS
  <2>1. j * (j + 1) \in Nat /\ 2 * counter = j * (j + 1) + 2 * i
    BY <1>2, <1>3 DEF UpShape
  <2>2. 2 * counter' = j * (j + 1) + 2 * (i + 1)
    BY <1>1, <1>2, <2>1, OneMore
  <2> QED BY <1>1, <1>3, <2>2 DEF UpShape
<1>9. FlatShape => FlatShape'
  <2> SUFFICES ASSUME FlatShape PROVE FlatShape'
    OBVIOUS
  <2> DEFINE x == 2 * smaller * j - smaller * smaller + smaller
  <2>1. x \in Int /\ 2 * counter = x + 2 * i
    BY <1>2, <1>3, <1>7 DEF FlatShape, FlatCount
  <2> HIDE DEF x
  <2>2. 2 * counter' = x + 2 * (i + 1)
    BY <1>1, <1>2, <2>1, OneMore
  <2> USE DEF x
  <2>3. FlatCount'
    BY <1>1, <1>3, <2>2 DEF FlatCount
  <2> QED BY <1>1, <1>3, <2>3 DEF FlatShape
<1>10. DownShape => DownShape'
  <2> SUFFICES ASSUME DownShape PROVE DownShape'
    OBVIOUS
  <2> DEFINE x == 2 * smaller * greater - up_cycle * (up_cycle + 1)
  <2>1. x \in Int /\ 2 * counter = x + 2 * i
    BY <1>2, <1>3, <1>7 DEF DownShape
  <2> HIDE DEF x
  <2>2. 2 * counter' = x + 2 * (i + 1)
    BY <1>1, <1>2, <2>1, OneMore
  <2> USE DEF x
  <2> QED BY <1>1, <1>3, <2>2 DEF DownShape
<1> QED BY <1>1, <1>4, <1>6, <1>8, <1>9, <1>10 DEF Shape

LEMMA EndColumnShape ==
  ASSUME ScheduleTypeOK, Addressed, Shape, EndColumn
  PROVE  Shape' /\ up_cycle' \in Nat /\ phase \in Loops
<1>1. /\ inner /\ ~(i < Length) /\ ~inner' /\ j' = j + 1
      /\ up_cycle' = (IF phase = "up" THEN up_cycle + 1
                      ELSE IF phase = "flat" THEN up_cycle ELSE up_cycle - 1)
      /\ UNCHANGED <<sizes, A_start_addr, B_start_addr, phase, counter>>
  BY DEF EndColumn, order
<1>2. /\ i = Length /\ i \in Nat /\ counter \in Nat /\ j \in Nat /\ up_cycle \in Nat
      /\ A_start_addr \in Int /\ B_start_addr \in Int
  BY <1>1, InnerFacts DEF ScheduleTypeOK, Addressed, Entry, ColumnFits
<1>3. /\ smaller' = smaller /\ greater' = greater /\ Begun' = j + 1 /\ Begun = j + 1
      /\ Written = i /\ Written' = 0 /\ A_size' = A_size /\ B_size' = B_size
  BY <1>1 DEF smaller, greater, Begun, Written, sizes
<1>4. Positive /\ Positive' /\ phase \in Loops /\ phase' \in Loops /\ InColumn'
  BY <1>1 DEF Shape, InColumn, Positive, sizes
<1>5. smaller \in Nat \ {0} /\ greater \in Nat
  BY <1>4, SmallerFacts
<1>6. CASE phase = "up"
  <2>1. UpShape /\ Length = j + 1
    BY <1>6 DEF Shape, UpShape, Length
  <2>2. 2 * counter = j * (j + 1) + 2 * (j + 1)
    BY <1>2, <1>3, <2>1 DEF UpShape
  <2>3. 2 * counter = (j + 1) * (j + 1 + 1) + 2 * 0
    BY <1>2, <2>2
  <2>4. UpShape'
    BY <1>1, <1>2, <1>3, <1>5, <1>6, <2>1, <2>3 DEF UpShape
  <2> QED BY <1>1, <1>2, <1>4, <1>6, <2>4 DEF Shape
<1>7. CASE phase = "flat"
  <2>1. FlatShape /\ Length = smaller
    BY <1>7 DEF Shape, Length
  <2>2. 2 * counter = 2 * smaller * j - smaller * smaller + smaller + 2 * smaller
    BY <1>2, <1>3, <2>1 DEF FlatShape, FlatCount
  <2>3. 2 * smaller * (j + 1) = 2 * smaller * j + 2 * smaller /\ 2 * smaller * j \in Int
        /\ smaller * smaller \in Int
    BY <1>2, <1>5
  <2>4. 2 * counter = 2 * smaller * (j + 1) - smaller * smaller + smaller + 2 * 0
    BY <1>2, <1>5, <2>2, <2>3
  <2>5. FlatCount'
    BY <1>1, <1>3, <2>4 DEF FlatCount
  <2>6. FlatShape'
    BY <1>1, <1>2, <1>3, <1>5, <1>7, <2>1, <2>5 DEF FlatShape
  <2> QED BY <1>1, <1>2, <1>4, <1>7, <2>6 DEF Shape
<1>8. CASE phase = "down"
  <2>1. DownShape /\ Length = up_cycle /\ up_cycle = smaller - 1 - j /\ j < smaller - 1
    BY <1>1, <1>8 DEF Shape, Length, DownShape
  <2>2. up_cycle' = up_cycle - 1 /\ up_cycle' \in Nat /\ up_cycle = up_cycle' + 1
    BY <1>1, <1>2, <1>5, <1>8, <2>1
  <2>3. 2 * counter = 2 * smaller * greater - up_cycle * (up_cycle + 1) + 2 * up_cycle
    BY <1>2, <1>3, <2>1 DEF DownShape
  <2>4. /\ up_cycle * (up_cycle + 1) \in Int /\ 2 * smaller * greater \in Int
        /\ (up_cycle - 1) * (up_cycle - 1 + 1) = up_cycle * (up_cycle + 1) - 2 * up_cycle
    BY <1>2, <1>5
  <2>5. 2 * counter = 2 * smaller * greater - (up_cycle - 1) * (up_cycle - 1 + 1) + 2 * 0
    BY <1>2, <2>3, <2>4
  <2>6. 2 * counter' = 2 * smaller' * greater' - up_cycle' * (up_cycle' + 1) + 2 * Written'
    BY <1>1, <1>3, <2>2, <2>5
  <2>7. DownShape'
    BY <1>1, <1>2, <1>3, <1>5, <1>8, <2>1, <2>2, <2>6 DEF DownShape
  <2> QED BY <1>1, <1>4, <1>8, <2>2, <2>7 DEF Shape
<1> QED BY <1>4, <1>6, <1>7, <1>8 DEF Loops

LEMMA EndUpShape ==
  ASSUME ScheduleTypeOK, Addressed, Shape, EndUp
  PROVE  Shape' /\ j' \in Nat
<1>1. /\ phase = "up" /\ ~inner /\ ~(j < smaller) /\ phase' = "flat" /\ ~inner' /\ j' = smaller
      /\ UNCHANGED <<sizes, A_start_addr, B_start_addr, up_cycle, counter>>
  BY DEF EndUp, Turn, order
<1>2. Positive /\ Positive' /\ InColumn' /\ UpShape
  BY <1>1 DEF Shape, InColumn, Positive, sizes, Loops
<1>3. /\ smaller' = smaller /\ greater' = greater /\ Begun' = smaller /\ Begun = j
      /\ Written = 0 /\ Written' = 0 /\ A_size' = A_size /\ B_size' = B_size
  BY <1>1 DEF smaller, greater, Begun, Written, sizes
<1>4. j = smaller /\ smaller \in Nat \ {0} /\ smaller <= greater /\ greater \in Nat
  BY <1>1, <1>2, SmallerFacts DEF UpShape
<1>5. FlatCount'
  <2>1. 2 * counter = smaller * (smaller + 1) + 2 * 0
    BY <1>2, <1>3, <1>4 DEF UpShape
  <2>2. smaller * (smaller + 1) + 2 * 0 = 2 * smaller * smaller - smaller * smaller + smaller + 2 * 0
    BY <1>4
  <2>3. 2 * counter = 2 * smaller * smaller - smaller * smaller + smaller + 2 * 0
    BY <2>1, <2>2
  <2> QED BY <1>1, <1>3, <2>3 DEF FlatCount
<1>6. FlatShape'
  <2>1. A_start_addr' = smaller - 1 /\ B_start_addr' = 0 /\ up_cycle' = smaller
    BY <1>1, <1>2, <1>3, <1>4 DEF UpShape
  <2>2. CASE A_size > B_size
    BY <1>1, <1>3, <1>4, <1>5, <2>1, <2>2 DEF FlatShape
  <2>3. CASE ~(A_size > B_size)
    <3>1. smaller = A_size /\ smaller - A_size = 0
      BY <1>2, <2>3, SmallerFacts DEF Positive
    <3> QED BY <1>1, <1>2, <1>3, <1>4, <1>5, <2>1, <2>3, <3>1 DEF FlatShape, Positive
  <2> QED BY <2>2, <2>3
<1> QED BY <1>1, <1>2, <1>4, <1>6 DEF Shape

LEMMA EndFlatShape ==
  ASSUME ScheduleTypeOK, Addressed, Shape, EndFlat
  PROVE  Shape' /\ up_cycle' \in Nat
<1>1. /\ phase = "flat" /\ ~inner /\ ~(j < greater) /\ phase' = "down" /\ ~inner' /\ j' = 0
      /\ up_cycle' = up_cycle - 1
      /\ UNCHANGED <<sizes, A_start_addr, B_start_addr, counter>>
  BY DEF EndFlat, Turn, order
<1>2. Positive /\ Positive' /\ InColumn' /\ FlatShape
  BY <1>1 DEF Shape, InColumn, Positive, sizes, Loops
<1>3. /\ smaller' = smaller /\ greater' = greater /\ Begun' = 0 /\ Begun = j
      /\ Written = 0 /\ Written' = 0 /\ A_size' = A_size /\ B_size' = B_size
  BY <1>1 DEF smaller, greater, Begun, Written, sizes
<1>4. j = greater /\ smaller \in Nat \ {0} /\ smaller <= greater /\ greater \in Nat
      /\ up_cycle = smaller
  BY <1>1, <1>2, SmallerFacts DEF FlatShape
<1>5. 2 * counter' = 2 * smaller' * greater' - up_cycle' * (up_cycle' + 1) + 2 * Written'
  <2>1. 2 * counter = 2 * smaller * greater - smaller * smaller + smaller + 2 * 0
    BY <1>2, <1>3, <1>4 DEF FlatShape, FlatCount
  <2>2. (smaller - 1) * (smaller - 1 + 1) = smaller * smaller - smaller
        /\ smaller * smaller \in Int /\ 2 * smaller * greater \in Int
    BY <1>4
  <2>3. 2 * counter = 2 * smaller * greater - (smaller - 1) * (smaller - 1 + 1) + 2 * 0
    BY <1>4, <2>1, <2>2
  <2> QED BY <1>1, <1>3, <1>4, <2>3
<1>6. A_start_addr' = A_size - 1 /\ B_start_addr' = B_size - smaller
  <2>1. CASE A_size > B_size
    <3>1. A_start_addr = greater - 1 /\ B_start_addr = 0 /\ greater = A_size /\ smaller = B_size
      BY <1>2, <1>3, <1>4, <2>1, SmallerFacts DEF FlatShape
    <3> QED BY <1>1, <1>2, <3>1 DEF Positive
  <2>2. CASE ~(A_size > B_size)
    <3>1. A_start_addr = A_size - 1 /\ B_start_addr = greater - A_size /\ greater = B_size
          /\ smaller = A_size
      BY <1>2, <1>3, <1>4, <2>2, SmallerFacts DEF FlatShape
    <3> QED BY <1>1, <1>2, <3>1 DEF Positive
  <2> QED BY <2>1, <2>2
<1>7. DownShape'
  BY <1>1, <1>2, <1>3, <1>4, <1>5, <1>6 DEF DownShape, Positive
<1> QED BY <1>1, <1>2, <1>4, <1>7 DEF Shape

-----------------------------------------------------------------------------
(* Visited is kept. *)

(* Between columns nothing is written, and what comes before the first     *)
(* pair of a new column are the pairs of the columns done.                 *)
LEMMA ColumnVisits ==
  ASSUME ScheduleTypeOK, Addressed, Shape, Visited, Column
  PROVE  Visited'
<1> Positive /\ ~inner
  BY DEF Shape, Column, UpColumn, FlatColumn, DownColumn, Loops
<1>1. NextColumn
  BY ColumnFacts
<1>2. /\ A_size' = A_size /\ B_size' = B_size /\ counter' = counter /\ Aind' = Aind /\ Bind' = Bind
  BY DEF Column, UpColumn, FlatColumn, DownColumn, StartAt, sizes, order
<1>3. counter \in Nat /\ phase \in Loops
  BY <1>1 DEF ScheduleTypeOK, Entry, NextColumn
<1>4. RangeA' = RangeA /\ RangeB' = RangeB
  BY <1>2 DEF RangeA, RangeB
<1>5. /\ A_start_addr' \in Int /\ B_start_addr' \in Int
      /\ A_start_addr' + B_start_addr' = A_start_addr + B_start_addr + 1
      /\ A_start_addr' = A_size - 1 \/ B_start_addr' = 0
      /\ A_start_addr \in Int /\ B_start_addr \in Int
  BY <1>1 DEF NextColumn, Addressed
<1>6. ASSUME NEW x \in RangeA, NEW y \in RangeB
      PROVE  Before(x, y)' <=> Before(x, y)
  <2> DEFINE p == A_start_addr
             q == B_start_addr
             pp == A_start_addr'
             qq == B_start_addr'
  <2>1. /\ x \in Nat /\ x <= A_size - 1 /\ y \in Nat /\ A_size \in Nat
        /\ p \in Int /\ q \in Int /\ pp \in Int /\ qq \in Int /\ pp + qq = p + q + 1
        /\ pp = A_size - 1 \/ qq = 0
    <3>1. /\ x \in Nat /\ x <= A_size - 1 /\ y \in Nat /\ A_size \in Nat
      BY DEF RangeA, RangeB, Positive
    <3> QED BY <1>5, <3>1
  <2>2. Before(x, y)' <=> (x + y < pp + qq \/ (x + y = pp + qq /\ y < qq))
    BY <1>1 DEF Before, NextColumn
  <2>3. Before(x, y) <=> x + y <= p + q
    BY DEF Before
  <2> HIDE DEF p, q, pp, qq
  <2>4. CASE qq = 0
    BY <2>1, <2>2, <2>3, <2>4
  <2>5. CASE pp = A_size - 1
    BY <2>1, <2>2, <2>3, <2>5
  <2> QED BY <2>1, <2>4, <2>5
<1>7. IndicesExist' /\ NoneTwice' /\ ColumnByColumn'
  BY <1>2, <1>4 DEF Visited, IndicesExist, NoneTwice, ColumnByColumn
<1>8. WrittenBefore'
  <2> SUFFICES ASSUME NEW k \in 1 .. counter PROVE Before(Aind[k], Bind[k])'
    BY <1>2 DEF WrittenBefore
  <2>1. Aind[k] \in RangeA /\ Bind[k] \in RangeB
    BY DEF Visited, IndicesExist
  <2>2. Before(Aind[k], Bind[k])
    BY <1>3 DEF Visited, WrittenBefore
  <2>3. PICK x \in RangeA, y \in RangeB : x = Aind[k] /\ y = Bind[k]
    BY <2>1
  <2>4. Before(x, y)'
    BY <1>6, <2>2, <2>3
  <2>5. x + y < A_curr_addr' + B_curr_addr' \/ (x + y = A_curr_addr' + B_curr_addr' /\ y < B_curr_addr')
    BY <1>1, <2>4 DEF Before, NextColumn
  <2> QED BY <1>1, <1>2, <2>3, <2>5 DEF Before, NextColumn
<1>9. BeforeWritten'
  BY <1>1, <1>2, <1>3, <1>4, <1>6 DEF Visited, BeforeWritten, NextColumn
<1>10. LastWritten'
  <2> SUFFICES ASSUME counter > 0
               PROVE  /\ Aind[counter] + Bind[counter] = A_start_addr' + B_start_addr' - 1
                      /\ Aind[counter] = 0 \/ Bind[counter] = B_size - 1
    BY <1>1, <1>2 DEF LastWritten, NextColumn
  <2>1. /\ Aind[counter] + Bind[counter] = A_start_addr + B_start_addr
        /\ Aind[counter] = 0 \/ Bind[counter] = B_size - 1
    <3>1. A_start_addr + B_start_addr - 0 = A_start_addr + B_start_addr
      BY <1>5
    <3> QED BY <1>3, <3>1 DEF Visited, LastWritten
  <2>2. A_start_addr + B_start_addr = A_start_addr' + B_start_addr' - 1
    <3> DEFINE p == A_start_addr
               q == B_start_addr
               pp == A_start_addr'
               qq == B_start_addr'
    <3>1. p \in Int /\ q \in Int /\ pp \in Int /\ qq \in Int /\ pp + qq = p + q + 1
      BY <1>5
    <3> HIDE DEF p, q, pp, qq
    <3>2. p + q = pp + qq - 1
      BY <3>1
    <3> QED BY <3>2 DEF p, q, pp, qq
  <2> QED BY <2>1, <2>2
<1> QED BY <1>7, <1>8, <1>9, <1>10 DEF Visited

(* A pair is written behind those before it, and is none of them.          *)
LEMMA PairVisits ==
  ASSUME ScheduleTypeOK, Addressed, Shape, Visited, Pair
  PROVE  Visited' /\ ScheduleTypeOK' /\ Addressed'
<1>1. /\ inner /\ inner' /\ i < Length /\ counter' = counter + 1 /\ i' = i + 1
      /\ A_curr_addr' = A_curr_addr - 1 /\ B_curr_addr' = B_curr_addr + 1
      /\ Aind' = [Aind EXCEPT ![counter + 1] = A_curr_addr]
      /\ Bind' = [Bind EXCEPT ![counter + 1] = B_curr_addr]
      /\ UNCHANGED <<sizes, A_start_addr, B_start_addr, up_cycle, phase, inner, j, signals>>
  BY DEF Pair
<1>2. ColumnFits /\ Positive /\ phase \in Loops
  BY <1>1, InnerFacts DEF Shape, InColumn
<1>3. /\ counter \in Nat /\ counter \in Entry /\ i \in Nat /\ A_start_addr \in Int /\ B_start_addr \in Int
      /\ A_curr_addr \in RangeA /\ B_curr_addr \in RangeB
      /\ A_curr_addr \in Nat /\ B_curr_addr \in Nat /\ counter + 1 \in Entry
      /\ Aind \in [Entry -> Nat] /\ Bind \in [Entry -> Nat]
  <2>1. A_size * B_size \in Nat /\ counter \in 0 .. A_size * B_size
    BY <1>2 DEF ScheduleTypeOK, Entry, Positive
  <2> QED BY <1>1, <1>2, <2>1 DEF ScheduleTypeOK, Addressed, Entry, ColumnFits, RangeA, RangeB, Positive
<1>4. A_size' = A_size /\ B_size' = B_size /\ Entry' = Entry /\ RangeA' = RangeA /\ RangeB' = RangeB
  BY <1>1 DEF sizes, Entry, RangeA, RangeB
<1>5. /\ \A k \in 1 .. counter : Aind'[k] = Aind[k] /\ Bind'[k] = Bind[k]
      /\ Aind'[counter + 1] = A_curr_addr /\ Bind'[counter + 1] = B_curr_addr
  <2>1. \A k \in 1 .. counter : k \in Entry /\ k # counter + 1
    <3>1. A_size * B_size \in Nat /\ counter \in 0 .. A_size * B_size
      BY <1>2, <1>3 DEF Entry, Positive
    <3> QED BY <1>3, <3>1 DEF Entry
  <2> QED BY <1>1, <1>3, <2>1
<1>6. \A k \in 1 .. counter + 1 : k \in 1 .. counter \/ k = counter + 1
  BY <1>3
<1>7. ASSUME NEW k \in 1 .. counter
      PROVE  /\ Aind[k] \in RangeA /\ Bind[k] \in RangeB
             /\ \/ Aind[k] + Bind[k] < A_curr_addr + B_curr_addr
                \/ Aind[k] + Bind[k] = A_curr_addr + B_curr_addr /\ Bind[k] < B_curr_addr
  BY <1>1, <1>2 DEF Visited, IndicesExist, WrittenBefore, Before
<1>8. IndicesExist'
  BY <1>1, <1>3, <1>4, <1>5, <1>6, <1>7 DEF IndicesExist
<1>9. NoneTwice'
  <2>1. \A k \in 1 .. counter : ~(Aind[k] = A_curr_addr /\ Bind[k] = B_curr_addr)
    BY <1>3, <1>7 DEF RangeA, RangeB
  <2>2. \A k, m \in 1 .. counter : Aind[k] = Aind[m] /\ Bind[k] = Bind[m] => k = m
    BY DEF Visited, NoneTwice
  <2> SUFFICES ASSUME NEW k \in 1 .. counter + 1, NEW m \in 1 .. counter + 1,
                      Aind'[k] = Aind'[m], Bind'[k] = Bind'[m]
               PROVE  k = m
    BY <1>1 DEF NoneTwice
  <2>3. CASE k \in 1 .. counter /\ m \in 1 .. counter
    BY <1>5, <2>2, <2>3
  <2>4. CASE k \in 1 .. counter /\ m = counter + 1
    BY <1>5, <2>1, <2>4
  <2>5. CASE k = counter + 1 /\ m \in 1 .. counter
    BY <1>5, <2>1, <2>5
  <2> QED BY <1>6, <2>3, <2>4, <2>5
<1>10. WrittenBefore'
  <2> SUFFICES ASSUME NEW k \in 1 .. counter + 1
               PROVE  \/ Aind'[k] + Bind'[k] < A_curr_addr' + B_curr_addr'
                      \/ Aind'[k] + Bind'[k] = A_curr_addr' + B_curr_addr' /\ Bind'[k] < B_curr_addr'
    BY <1>1 DEF WrittenBefore, Before
  <2>1. A_curr_addr' + B_curr_addr' = A_curr_addr + B_curr_addr /\ B_curr_addr < B_curr_addr'
    BY <1>1, <1>3
  <2>2. CASE k \in 1 .. counter
    BY <1>1, <1>3, <1>5, <1>7, <2>1, <2>2 DEF RangeB
  <2>3. CASE k = counter + 1
    BY <1>1, <1>5, <2>1, <2>3
  <2> QED BY <1>6, <2>2, <2>3
<1>11. BeforeWritten'
  <2> SUFFICES ASSUME NEW x \in RangeA, NEW y \in RangeB, Before(x, y)'
               PROVE  \E k \in 1 .. counter + 1 : Aind'[k] = x /\ Bind'[k] = y
    BY <1>1, <1>2, <1>4 DEF BeforeWritten
  <2>1. \/ x + y < A_curr_addr + B_curr_addr
        \/ x + y = A_curr_addr + B_curr_addr /\ y < B_curr_addr + 1
    BY <1>1, <1>3 DEF Before
  <2>2. CASE Before(x, y)
    <3>1. PICK k \in 1 .. counter : Aind[k] = x /\ Bind[k] = y
      BY <1>2, <2>2 DEF Visited, BeforeWritten
    <3>2. k \in 1 .. counter + 1
      BY <1>3
    <3> QED BY <1>5, <3>1, <3>2
  <2>3. CASE ~Before(x, y)
    <3>1. x = A_curr_addr /\ y = B_curr_addr
      BY <1>1, <1>3, <2>1, <2>3 DEF Before, RangeA, RangeB
    <3>2. counter + 1 \in 1 .. counter + 1
      BY <1>3
    <3> QED BY <1>5, <3>1, <3>2
  <2> QED BY <2>2, <2>3
<1>12. LastWritten'
  <2>1. i + 1 > 0
    BY <1>3
  <2>2. A_curr_addr = A_curr_addr' + 1 /\ B_curr_addr = B_curr_addr' - 1
    BY <1>1, <1>3
  <2> QED BY <1>1, <1>5, <2>1, <2>2 DEF LastWritten
<1>13. ColumnByColumn'
  <2> SUFFICES ASSUME NEW k \in 1 .. counter
               PROVE  \/ Aind'[k + 1] = Aind'[k] - 1 /\ Bind'[k + 1] = Bind'[k] + 1
                      \/ /\ Aind'[k + 1] + Bind'[k + 1] = Aind'[k] + Bind'[k] + 1
                         /\ Aind'[k] = 0 \/ Bind'[k] = B_size - 1
                         /\ Aind'[k + 1] = A_size - 1 \/ Bind'[k + 1] = 0
    BY <1>1, <1>3, <1>4 DEF ColumnByColumn
  <2>1. CASE k < counter
    <3>1. k \in 1 .. counter - 1 /\ k + 1 \in 1 .. counter
      BY <1>3, <2>1
    <3> QED BY <1>5, <3>1 DEF Visited, ColumnByColumn
  <2>2. CASE k = counter
    <3>0. counter > 0 /\ Aind[counter] \in Nat /\ Bind[counter] \in Nat
      BY <1>3, <2>2
    <3>1. CASE i > 0
      <4>1. Aind[counter] = A_curr_addr + 1 /\ Bind[counter] = B_curr_addr - 1
        BY <1>1, <1>2, <3>0, <3>1 DEF Visited, LastWritten
      <4> QED BY <1>3, <1>5, <2>2, <4>1
    <3>2. CASE ~(i > 0)
      <4>1. /\ Aind[counter] + Bind[counter] = A_start_addr + B_start_addr - 1
            /\ Aind[counter] = 0 \/ Bind[counter] = B_size - 1
        BY <1>1, <1>2, <3>0, <3>2 DEF Visited, LastWritten
      <4>2. i = 0 /\ A_curr_addr = A_start_addr - i /\ B_curr_addr = B_start_addr + i
        BY <1>1, <1>3, <3>2 DEF Shape, InColumn
      <4>3. A_curr_addr = A_start_addr /\ B_curr_addr = B_start_addr
        BY <1>3, <4>2
      <4>4. A_curr_addr = A_size - 1 \/ B_curr_addr = 0
        BY <1>2, <4>3 DEF ColumnFits
      <4>5. A_curr_addr + B_curr_addr = Aind[counter] + Bind[counter] + 1
        BY <1>3, <3>0, <4>1, <4>3
      <4> QED BY <1>5, <2>2, <4>1, <4>4, <4>5
    <3> QED BY <3>1, <3>2
  <2> QED BY <1>3, <2>1, <2>2
<1>14. ScheduleTypeOK'
  <2>1. Aind' \in [Entry -> Nat] /\ Bind' \in [Entry -> Nat]
    BY <1>1, <1>3
  <2> QED BY <1>1, <1>3, <1>4, <2>1 DEF ScheduleTypeOK, sizes, signals
<1>15. Addressed'
  BY <1>1, <1>3 DEF Addressed
<1> QED BY <1>8, <1>9, <1>10, <1>11, <1>12, <1>13, <1>14, <1>15 DEF Visited

(* What holds of the order alone is kept by a step that writes no pair.    *)
LEMMA OrderKept ==
  ASSUME Visited, UNCHANGED <<sizes, order>>
  PROVE  /\ IndicesExist' /\ NoneTwice' /\ ColumnByColumn'
         /\ RangeA' = RangeA /\ RangeB' = RangeB /\ Entry' = Entry
         /\ A_size' = A_size /\ B_size' = B_size
         /\ counter' = counter /\ Aind' = Aind /\ Bind' = Bind
<1>1. /\ A_size' = A_size /\ B_size' = B_size
      /\ counter' = counter /\ Aind' = Aind /\ Bind' = Bind
  BY DEF sizes, order
<1>2. RangeA' = RangeA /\ RangeB' = RangeB /\ Entry' = Entry
  BY <1>1 DEF RangeA, RangeB, Entry
<1> QED BY <1>1, <1>2 DEF Visited, IndicesExist, NoneTwice, ColumnByColumn

(* At the end of a column the pairs of this column are all written.        *)
LEMMA EndColumnVisits ==
  ASSUME ScheduleTypeOK, Addressed, Shape, Visited, EndColumn
  PROVE  Visited'
<1>1. /\ inner /\ ~inner' /\ ~(i < Length) /\ phase' = phase
      /\ A_start_addr' = A_start_addr /\ B_start_addr' = B_start_addr
      /\ UNCHANGED <<sizes, order>>
  BY DEF EndColumn
<1>2. ColumnFits /\ Positive /\ phase \in Loops
  BY <1>1, InnerFacts DEF Shape, InColumn
<1>3. /\ A_curr_addr \in Int /\ B_curr_addr \in Int
      /\ A_start_addr \in Int /\ B_start_addr \in Int
      /\ A_curr_addr + B_curr_addr = A_start_addr + B_start_addr
      /\ A_curr_addr = -1 \/ B_curr_addr = B_size
      /\ i > 0
  BY <1>1, <1>2 DEF Addressed, ColumnFits
<1>4. ASSUME NEW x \in RangeA, NEW y \in RangeB
      PROVE  Before(x, y)' <=> Before(x, y)
  <2> DEFINE p == A_curr_addr
             q == B_curr_addr
             s == A_start_addr + B_start_addr
  <2>1. /\ x \in Nat /\ y \in Nat /\ y <= B_size - 1 /\ B_size \in Nat
        /\ p \in Int /\ q \in Int /\ s \in Int /\ p + q = s
        /\ p = -1 \/ q = B_size
    BY <1>2, <1>3 DEF RangeA, RangeB, Positive
  <2>2. Before(x, y)' <=> x + y <= s
    BY <1>1 DEF Before
  <2>3. Before(x, y) <=> (x + y < p + q \/ (x + y = p + q /\ y < q))
    BY <1>1 DEF Before
  <2> HIDE DEF p, q, s
  <2>4. CASE p = -1
    BY <2>1, <2>2, <2>3, <2>4
  <2>5. CASE q = B_size
    BY <2>1, <2>2, <2>3, <2>5
  <2> QED BY <2>1, <2>4, <2>5
<1>5. WrittenBefore'
  <2> SUFFICES ASSUME NEW k \in 1 .. counter
               PROVE  Aind[k] + Bind[k] <= A_start_addr + B_start_addr
    BY <1>1, OrderKept DEF WrittenBefore, Before
  <2>1. Aind[k] \in RangeA /\ Bind[k] \in RangeB /\ Before(Aind[k], Bind[k])
    BY <1>2 DEF Visited, IndicesExist, WrittenBefore
  <2>2. PICK x \in RangeA, y \in RangeB : x = Aind[k] /\ y = Bind[k]
    BY <2>1
  <2>3. Before(x, y)'
    BY <1>4, <2>1, <2>2
  <2> QED BY <1>1, <2>2, <2>3 DEF Before
<1>6. BeforeWritten'
  BY <1>1, <1>2, <1>4, OrderKept DEF Visited, BeforeWritten
<1>7. LastWritten'
  <2> SUFFICES ASSUME counter > 0
               PROVE  /\ Aind[counter] + Bind[counter] = A_start_addr + B_start_addr
                      /\ Aind[counter] = 0 \/ Bind[counter] = B_size - 1
    <3>1. A_start_addr + B_start_addr - 0 = A_start_addr + B_start_addr
      BY <1>3
    <3> QED BY <1>1, <3>1, OrderKept DEF LastWritten
  <2>1. Aind[counter] = A_curr_addr + 1 /\ Bind[counter] = B_curr_addr - 1
    BY <1>1, <1>2, <1>3 DEF Visited, LastWritten
  <2>2. A_curr_addr + 1 + (B_curr_addr - 1) = A_start_addr + B_start_addr
    BY <1>3
  <2> QED BY <1>3, <2>1, <2>2
<1> QED BY <1>1, <1>5, <1>6, <1>7, OrderKept DEF Visited

(* Between two loops what comes before the next pair stays the same.       *)
LEMMA TurnVisits ==
  ASSUME Visited, EndUp \/ EndFlat, Addressed
  PROVE  Visited'
<1>1. /\ ~inner /\ ~inner' /\ phase \in Loops /\ phase' \in Loops
      /\ A_start_addr' = A_start_addr /\ B_start_addr' = B_start_addr
      /\ UNCHANGED <<sizes, order>>
  BY DEF EndUp, EndFlat, Turn, Loops
<1>2. WrittenBefore' /\ BeforeWritten'
  BY <1>1, OrderKept DEF Visited, WrittenBefore, BeforeWritten, Before
<1>3. LastWritten'
  BY <1>1, OrderKept DEF Visited, LastWritten
<1> QED BY <1>1, <1>2, <1>3, OrderKept DEF Visited

(* When the last column is done, every pair comes before the next one.     *)
LEMMA EndDownVisits ==
  ASSUME ScheduleTypeOK, Addressed, Shape, Visited, EndDown
  PROVE  Visited'
<1>1. /\ phase = "down" /\ ~inner /\ ~(j < smaller - 1) /\ phase' \notin Loops
      /\ UNCHANGED <<sizes, order>>
  BY DEF EndDown, Turn, Loops
<1>2. Positive /\ DownShape /\ phase \in Loops
  BY <1>1 DEF Shape, Loops
<1>3. A_start_addr + B_start_addr = A_size - 1 + (B_size - 1)
  <2>1. j = smaller - 1 /\ smaller \in Nat /\ A_size \in Nat /\ B_size \in Nat
    <3>1. j \in 0 .. smaller - 1
      BY <1>2 DEF DownShape
    <3>2. smaller \in Nat /\ A_size \in Nat /\ B_size \in Nat
      BY <1>2, SmallerFacts DEF Positive
    <3> QED BY <1>1, <3>1, <3>2
  <2>2. A_start_addr = A_size - 1 /\ B_start_addr = B_size - smaller + j
    BY <1>1, <1>2 DEF DownShape, Begun
  <2> QED BY <2>1, <2>2
<1>4. \A x \in RangeA, y \in RangeB : Before(x, y)
  BY <1>1, <1>2, <1>3 DEF Before, RangeA, RangeB, Positive
<1>5. BeforeWritten'
  BY <1>1, <1>2, <1>4, OrderKept DEF Visited, BeforeWritten
<1> QED BY <1>1, <1>5, OrderKept DEF Visited, WrittenBefore, LastWritten

-----------------------------------------------------------------------------
(* The invariant is inductive. *)

LEMMA IInvInit ==
  ASSUME ScheduleInit
  PROVE  IInv
<1>1. 0 * 0 = 0 /\ Entry = 0 .. 0 /\ RangeA = {} /\ RangeB = {}
  BY DEF ScheduleInit, Entry, RangeA, RangeB
<1>2. ScheduleTypeOK /\ Addressed
  <2>1. /\ Aind \in [Entry -> Nat] /\ Bind \in [Entry -> Nat]
        /\ cycle \in [Entry -> {0, 1}] /\ addr_init_up \in [Entry -> {0, 1, 2}]
        /\ last \in [Entry -> {0, 1}]
    BY DEF ScheduleInit
  <2>2. counter \in Entry
    BY <1>1 DEF ScheduleInit
  <2>3. /\ A_size = 0 /\ B_size = 0 /\ phase = "ordered" /\ inner = FALSE
        /\ j = 0 /\ i = 0 /\ up_cycle = 0
    BY DEF ScheduleInit
  <2>4. Addressed
    BY DEF ScheduleInit, Addressed
  <2> QED BY <2>1, <2>2, <2>3, <2>4 DEF ScheduleTypeOK
<1>3. Shape
  BY DEF ScheduleInit, Shape, InColumn, Loops
<1>4. 1 .. counter = {}
  BY DEF ScheduleInit
<1>5. Visited
  BY <1>1, <1>4 DEF ScheduleInit, Visited, IndicesExist, NoneTwice, WrittenBefore, BeforeWritten,
                    ColumnByColumn, LastWritten, Loops
<1> QED BY <1>2, <1>3, <1>5 DEF IInv

LEMMA StartIInv ==
  ASSUME NEW Alimbs \in Limbs, NEW Blimbs \in Limbs, Start(Alimbs, Blimbs)
  PROVE  IInv'
<1>1. /\ A_size' = Alimbs /\ B_size' = Blimbs /\ Alimbs \in Nat \ {0} /\ Blimbs \in Nat \ {0}
      /\ A_start_addr' = -1 /\ B_start_addr' = 0 /\ A_curr_addr' = 0 /\ B_curr_addr' = 0
      /\ up_cycle' = 0 /\ counter' = 0 /\ phase' = "up" /\ ~inner' /\ inner' \in BOOLEAN
      /\ j' = 0 /\ i' = 0
  BY LimbsAssumption DEF Start
<1>2. Entry' = 0 .. Alimbs * Blimbs /\ Alimbs * Blimbs \in Nat
  BY <1>1 DEF Entry
<1>3. ScheduleTypeOK' /\ Addressed'
  <2>1. /\ Aind' \in [Entry' -> Nat] /\ Bind' \in [Entry' -> Nat]
        /\ cycle' \in [Entry' -> {0, 1}] /\ addr_init_up' \in [Entry' -> {0, 1, 2}]
        /\ last' \in [Entry' -> {0, 1}]
    BY <1>2 DEF Start
  <2> QED BY <1>1, <1>2, <2>1 DEF ScheduleTypeOK, Addressed
<1>4. Shape'
  <2>1. Positive' /\ Begun' = 0 /\ Written' = 0
    BY <1>1 DEF Positive, Begun, Written
  <2>2. smaller' \in Nat
    BY <1>1 DEF smaller
  <2>3. UpShape'
    BY <1>1, <2>1, <2>2 DEF UpShape
  <2> QED BY <1>1, <2>1, <2>3 DEF Shape, InColumn
<1>5. (1 .. counter)' = {} /\ (1 .. counter - 1)' = {}
  BY <1>1
<1>6. BeforeWritten'
  <2>1. \A x \in RangeA', y \in RangeB' : ~Before(x, y)'
    BY <1>1 DEF Before, RangeA, RangeB
  <2> QED BY <1>1, <2>1 DEF BeforeWritten, Loops
<1>7. Visited'
  BY <1>1, <1>5, <1>6 DEF Visited, IndicesExist, NoneTwice, WrittenBefore, ColumnByColumn, LastWritten
<1> QED BY <1>3, <1>4, <1>7 DEF IInv

LEMMA AddressesIInv ==
  ASSUME IInv, Addresses
  PROVE  IInv'
<1> ScheduleTypeOK /\ Addressed /\ Shape /\ Visited
  BY DEF IInv
<1>1. CASE Column
  <2>1. NextColumn /\ Shape' /\ Visited'
    BY <1>1, ColumnFacts, ColumnVisits
  <2>2. i' = 0 /\ inner' = TRUE /\ UNCHANGED <<sizes, up_cycle, phase, j, order, signals>>
    BY <1>1 DEF Column, UpColumn, FlatColumn, DownColumn, StartAt
  <2>3. ScheduleTypeOK'
    BY <2>2 DEF ScheduleTypeOK, Entry, sizes, order, signals
  <2>4. Addressed'
    BY <2>1 DEF NextColumn, Addressed
  <2> QED BY <2>1, <2>3, <2>4 DEF IInv
<1>2. CASE Pair
  BY <1>2, PairShape, PairVisits DEF IInv
<1>3. CASE EndColumn
  <2>1. Shape' /\ Visited'
    BY <1>3, EndColumnShape, EndColumnVisits
  <2>2. /\ UNCHANGED <<sizes, phase, i, order, signals>> /\ inner' = FALSE /\ j' = j + 1
        /\ UNCHANGED <<A_start_addr, B_start_addr, A_curr_addr, B_curr_addr>>
    BY <1>3 DEF EndColumn
  <2>3. up_cycle' \in Nat
    <3>1. inner /\ up_cycle \in Nat /\ Length \in Nat \ {0}
      BY <1>3, InnerFacts DEF EndColumn, ColumnFits, ScheduleTypeOK
    <3>2. phase \in Loops
      BY <3>1 DEF Shape, InColumn
    <3>3. phase = "down" => up_cycle > 0
      BY <3>1 DEF Length
    <3> QED BY <1>3, <3>1, <3>2, <3>3 DEF EndColumn, Loops
  <2>4. ScheduleTypeOK'
    <3>1. j' \in Nat /\ i' \in Nat /\ inner' \in BOOLEAN
      <4>1. j' = j + 1 /\ i' = i
        BY <1>3 DEF EndColumn
      <4>2. j' \in Nat /\ i' \in Nat
        BY <4>1 DEF ScheduleTypeOK
      <4>3. inner' \in BOOLEAN
        BY <1>3, Zenon DEF EndColumn
      <4> QED BY <4>2, <4>3
    <3>2. /\ A_size' = A_size /\ B_size' = B_size /\ phase' = phase /\ counter' = counter
          /\ Aind' = Aind /\ Bind' = Bind /\ cycle' = cycle /\ addr_init_up' = addr_init_up
          /\ last' = last /\ Entry' = Entry
      BY <2>2 DEF Entry, sizes, order, signals
    <3> QED BY <2>3, <3>1, <3>2 DEF ScheduleTypeOK
  <2> QED BY <2>1, <2>2, <2>4 DEF IInv, Addressed
<1>4. CASE EndUp
  <2>1. Shape' /\ Visited' /\ j' \in Nat
    BY <1>4, EndUpShape, TurnVisits
  <2>2. /\ phase' = "flat" /\ inner' = FALSE
        /\ UNCHANGED <<sizes, A_start_addr, B_start_addr, A_curr_addr, B_curr_addr, order,
                       i, up_cycle, signals>>
    BY <1>4 DEF EndUp, Turn
  <2> QED BY <2>1, <2>2 DEF IInv, ScheduleTypeOK, Addressed, Entry, sizes, order, signals
<1>5. CASE EndFlat
  <2>1. Shape' /\ Visited' /\ up_cycle' \in Nat
    BY <1>5, EndFlatShape, TurnVisits
  <2>2. /\ phase' = "down" /\ inner' = FALSE /\ j' = 0
        /\ UNCHANGED <<sizes, A_start_addr, B_start_addr, A_curr_addr, B_curr_addr, order,
                       i, signals>>
    BY <1>5 DEF EndFlat, Turn
  <2> QED BY <2>1, <2>2 DEF IInv, ScheduleTypeOK, Addressed, Entry, sizes, order, signals
<1>6. CASE EndDown
  <2>1. Visited'
    BY <1>6, EndDownVisits
  <2>2. /\ phase' = "cycle" /\ inner' = FALSE /\ i' = 0 /\ last' = [last EXCEPT ![counter] = 1]
        /\ UNCHANGED <<sizes, A_start_addr, B_start_addr, A_curr_addr, B_curr_addr, order,
                       j, up_cycle, cycle, addr_init_up>>
    BY <1>6 DEF EndDown, Turn
  <2>3. Shape'
    BY <2>2 DEF Shape, InColumn, Loops
  <2>4. last' \in [Entry -> {0, 1}]
    BY <2>2 DEF ScheduleTypeOK
  <2> QED BY <2>1, <2>2, <2>3, <2>4 DEF IInv, ScheduleTypeOK, Addressed, Entry, sizes, order
<1> QED BY <1>1, <1>2, <1>3, <1>4, <1>5, <1>6 DEF Addresses

LEMMA MarksIInv ==
  ASSUME IInv, Marks
  PROVE  IInv'
<1> ScheduleTypeOK /\ Addressed /\ Shape /\ Visited
  BY DEF IInv
<1>1. /\ phase \notin Loops /\ phase' \notin Loops /\ ~inner
      /\ phase' \in {"cycle", "init", "ordered"} /\ inner' = FALSE
      /\ UNCHANGED <<sizes, order, j, up_cycle, last>>
      /\ UNCHANGED <<A_start_addr, B_start_addr, A_curr_addr, B_curr_addr>>
  <2>1. phase \in {"cycle", "init"}
    BY DEF Marks, MarkCycle, EndCycle, MarkInitUp, EndInit
  <2>2. ~inner /\ inner = FALSE
    BY <2>1 DEF Shape, InColumn, Loops, ScheduleTypeOK
  <2> QED BY <2>1, <2>2 DEF Marks, MarkCycle, EndCycle, MarkInitUp, EndInit, Turn, Loops, signals, address
<1>2. i' \in Nat
  BY DEF Marks, MarkCycle, EndCycle, MarkInitUp, EndInit, ScheduleTypeOK
<1>3. cycle' \in [Entry -> {0, 1}]
  BY DEF Marks, MarkCycle, EndCycle, MarkInitUp, EndInit, ScheduleTypeOK, signals
<1>4. addr_init_up' \in [Entry -> {0, 1, 2}]
  BY DEF Marks, MarkCycle, EndCycle, MarkInitUp, EndInit, ScheduleTypeOK, signals
<1>5. ScheduleTypeOK' /\ Addressed'
  BY <1>1, <1>2, <1>3, <1>4 DEF ScheduleTypeOK, Addressed, Entry, sizes, order
<1>6. Shape'
  BY <1>1 DEF Shape, InColumn, Loops
<1>7. Visited'
  BY <1>1, OrderKept DEF Visited, WrittenBefore, BeforeWritten, LastWritten
<1> QED BY <1>5, <1>6, <1>7 DEF IInv

LEMMA IInvStep ==
  ASSUME IInv, [ScheduleNext]_mvars
  PROVE  IInv'
<1>1. CASE Addresses
  BY <1>1, AddressesIInv
<1>2. CASE Marks
  BY <1>2, MarksIInv
<1>3. CASE \E Alimbs, Blimbs \in Limbs : Start(Alimbs, Blimbs)
  BY <1>3, StartIInv
<1>4. CASE UNCHANGED mvars
  BY <1>4 DEF IInv, ScheduleTypeOK, Addressed, Shape, Visited, Entry, Positive, UpShape, FlatShape,
              DownShape, InColumn, FlatCount, smaller, greater, Begun, Written, Length, Loops,
              IndicesExist, NoneTwice, WrittenBefore, BeforeWritten, LastWritten, ColumnByColumn,
              Before, RangeA, RangeB, mvars, sizes, address, loop, order, signals
<1> QED BY <1>1, <1>2, <1>3, <1>4 DEF ScheduleNext, Reorder

LEMMA IInvAlways == ScheduleSpec => []IInv
BY IInvInit, IInvStep, PTL DEF ScheduleSpec

(* The indices and signals keep their types and counter stays in the       *)
(* arrays: mult_regs_address writes nothing behind their last entry,       *)
(* whatever the lengths of the operands.                                   *)
THEOREM StaysInArrays == ScheduleSpec => []ScheduleTypeOK
<1>1. IInv => ScheduleTypeOK
  BY DEF IInv
<1> QED BY <1>1, IInvAlways, PTL

(* The order mult_regs_address computes visits every pair of limbs once,   *)
(* and no limb that there is not, for operands of any lengths.             *)
THEOREM VisitsOnce == ScheduleSpec => []EachPairOnce
<1>1. IInv => EachPairOnce
  BY DEF IInv, Visited, IndicesExist, NoneTwice, BeforeWritten, EachPairOnce, Loops, RangeA, RangeB
<1> QED BY <1>1, IInvAlways, PTL

(* The order is column by column and, in a column, from one limb to its    *)
(* neighbour, for operands of any lengths.                                 *)
THEOREM VisitsByColumn == ScheduleSpec => []ColumnByColumn
<1>1. IInv => ColumnByColumn
  BY DEF IInv, Visited
<1> QED BY <1>1, IInvAlways, PTL

-----------------------------------------------------------------------------
(* The control signals.  They are computed from the finished order; the    *)
(* number of the column decides where a column starts, and how often the   *)
(* start counters have counted up to there.                                *)

Col(s) == Aind[s + 1] + Bind[s + 1]

(* The place along A where column c starts. *)
PlaceA(col) == IF col < A_size THEN col ELSE A_size - 1

FirstPair == counter > 0 => Aind[1] = 0 /\ Bind[1] = 0

Ups(s, signal) == {t \in 0 .. s - 1 : addr_init_up[t] = signal}

Counted(s) == /\ Cardinality(Ups(s, 1)) = PlaceA(Col(s))
              /\ Cardinality(Ups(s, 2)) = Col(s) - PlaceA(Col(s))

NotYetUp == /\ \A t \in Entry : addr_init_up[t] = 0
            /\ init_up_A_cnt = 1 /\ init_up_B_cnt = 1

CycleMarked ==
  /\ i \in 0 .. counter
  /\ \A s \in 0 .. counter - 1 : cycle[s] = 1 <=> s < i /\ StartsColumn(s)

InitMarked ==
  /\ i \in 1 .. counter
  /\ \A s \in 0 .. counter - 1 : cycle[s] = 1 <=> StartsColumn(s)
  /\ \A t \in Entry : t >= i - 1 => addr_init_up[t] = 0
  /\ init_up_A_cnt = PlaceA(Col(i - 1)) + 1
  /\ init_up_B_cnt = Col(i - 1) - PlaceA(Col(i - 1)) + 1
  /\ \A s \in 0 .. i - 1 : Counted(s)

SignalsOK ==
  /\ FirstPair
  /\ phase # "ordered" => Positive
  /\ phase \in Loops => NotYetUp /\ \A s \in Entry : cycle[s] = 0
  /\ phase = "cycle" => NotYetUp /\ CycleMarked
  /\ phase = "init" => InitMarked
  /\ SignalsReplayStarts

(* Indices of the pair that entry s of the signals goes with. *)
LEMMA PairIndices ==
  ASSUME ScheduleTypeOK, Visited, Positive, NEW s \in 0 .. counter - 1
  PROVE  /\ s \in Nat /\ s + 1 \in Nat /\ counter \in Nat /\ s \in Entry
         /\ Aind[s + 1] \in Nat /\ Aind[s + 1] <= A_size - 1
         /\ Bind[s + 1] \in Nat /\ Bind[s + 1] <= B_size - 1
         /\ Col(s) \in Nat /\ Col(s) <= A_size + B_size - 2
<1>1. A_size * B_size \in Nat /\ counter \in 0 .. A_size * B_size
  BY DEF ScheduleTypeOK, Entry, Positive
<1>2. s \in Nat /\ s + 1 \in 1 .. counter /\ counter \in Nat /\ s \in Entry
  BY <1>1 DEF Entry
<1>3. Aind[s + 1] \in RangeA /\ Bind[s + 1] \in RangeB
  BY <1>2 DEF Visited, IndicesExist
<1> QED BY <1>2, <1>3 DEF Positive, RangeA, RangeB, Col

LEMMA PlaceFacts ==
  ASSUME Positive, NEW col \in Nat
  PROVE  /\ PlaceA(col) \in Nat /\ PlaceA(col) <= A_size - 1 /\ PlaceA(col) <= col
         /\ PlaceA(0) = 0
         /\ PlaceA(col) < A_size - 1 => PlaceA(col) = col /\ PlaceA(col + 1) = col + 1
         /\ PlaceA(col) = A_size - 1 => PlaceA(col + 1) = A_size - 1
BY DEF Positive, PlaceA

(* From one pair to the next: within a column, or to the next one.  Then   *)
(* the index into A grows, unless one of the operands has a single limb.   *)
LEMMA ColumnTest ==
  ASSUME ScheduleTypeOK, Visited, Positive, NEW s \in 1 .. counter - 1
  PROVE  /\ StartsColumn(s) <=> Col(s) = Col(s - 1) + 1
         /\ ~StartsColumn(s) <=> Col(s) = Col(s - 1)
<1>1. /\ s \in 0 .. counter - 1 /\ s - 1 \in 0 .. counter - 1 /\ s - 1 + 1 = s /\ s \in Int
  BY DEF ScheduleTypeOK, Entry
<1>2. /\ Aind[s + 1] \in Nat /\ Aind[s + 1] <= A_size - 1
      /\ Bind[s + 1] \in Nat /\ Bind[s + 1] <= B_size - 1
  BY <1>1, PairIndices
<1>3. /\ Aind[s] \in Nat /\ Aind[s] <= A_size - 1
      /\ Bind[s] \in Nat /\ Bind[s] <= B_size - 1
  BY <1>1, PairIndices, Zenon
<1>4. Col(s) = Aind[s + 1] + Bind[s + 1] /\ Col(s - 1) = Aind[s] + Bind[s]
  BY <1>1 DEF Col
<1>5. \/ Aind[s + 1] = Aind[s] - 1 /\ Bind[s + 1] = Bind[s] + 1
      \/ /\ Aind[s + 1] + Bind[s + 1] = Aind[s] + Bind[s] + 1
         /\ Aind[s] = 0 \/ Bind[s] = B_size - 1
         /\ Aind[s + 1] = A_size - 1 \/ Bind[s + 1] = 0
  BY DEF Visited, ColumnByColumn
<1> QED BY <1>2, <1>3, <1>4, <1>5 DEF StartsColumn, Positive

(* Where a column starts. *)
LEMMA ColumnPlace ==
  ASSUME ScheduleTypeOK, Visited, Positive, FirstPair, NEW s \in 0 .. counter - 1,
         s = 0 \/ StartsColumn(s)
  PROVE  Aind[s + 1] = PlaceA(Col(s)) /\ Bind[s + 1] = Col(s) - PlaceA(Col(s))
<1>1. /\ Aind[s + 1] \in Nat /\ Aind[s + 1] <= A_size - 1
      /\ Bind[s + 1] \in Nat /\ Bind[s + 1] <= B_size - 1
      /\ s \in Nat /\ counter \in Nat
  BY PairIndices
<1>2. CASE s = 0
  BY <1>1, <1>2 DEF FirstPair, Col, PlaceA, Positive
<1>3. CASE s # 0
  <2>1. s \in 1 .. counter - 1 /\ StartsColumn(s)
    BY <1>1, <1>3
  <2>2. Col(s) = Col(s - 1) + 1
    BY <2>1, ColumnTest
  <2>3. Aind[s + 1] = A_size - 1 \/ Bind[s + 1] = 0
    <3>1. /\ Aind[s] \in Nat /\ Bind[s] \in Nat
          /\ Col(s - 1) = Aind[s] + Bind[s]
      <4>1. s - 1 \in 0 .. counter - 1 /\ s - 1 + 1 = s
        BY <1>1, <2>1
      <4> QED BY <4>1, PairIndices, Zenon DEF Col
    <3>2. \/ Aind[s + 1] = Aind[s] - 1 /\ Bind[s + 1] = Bind[s] + 1
          \/ Aind[s + 1] = A_size - 1 \/ Bind[s + 1] = 0
      BY <2>1 DEF Visited, ColumnByColumn
    <3> QED BY <1>1, <2>2, <3>1, <3>2 DEF Col
  <2> QED BY <1>1, <2>3 DEF Col, PlaceA, Positive
<1> QED BY <1>2, <1>3

(* While pairs are being written the signals keep their first values.      *)
LEMMA AddressesSignals ==
  ASSUME IInv, IInv', SignalsOK, Addresses
  PROVE  SignalsOK'
<1>1. /\ phase \in Loops /\ Positive /\ UNCHANGED sizes
      /\ UNCHANGED <<cycle, addr_init_up, init_up_A_cnt, init_up_B_cnt>>
      /\ phase' \in Loops \/ (EndDown /\ phase' = "cycle")
  <2>1. CASE Column
    BY <2>1 DEF Column, UpColumn, FlatColumn, DownColumn, StartAt, Loops, IInv, Shape, signals
  <2>2. CASE Pair \/ EndColumn
    BY <2>2 DEF Pair, EndColumn, Loops, IInv, Shape, InColumn, signals
  <2>3. CASE EndUp \/ EndFlat \/ EndDown
    BY <2>3 DEF EndUp, EndFlat, EndDown, Turn, Loops, IInv, Shape, signals
  <2> QED BY <2>1, <2>2, <2>3 DEF Addresses
<1>2. Entry' = Entry /\ Positive' /\ phase' # "ordered" /\ NotYetUp /\ NotYetUp'
      /\ \A s \in Entry : cycle[s] = 0
  BY <1>1 DEF Entry, Positive, sizes, Loops, SignalsOK, NotYetUp
<1>3. FirstPair'
  <2>1. CASE Pair
    <3>1. /\ counter' = counter + 1 /\ inner /\ i < Length
          /\ Aind' = [Aind EXCEPT ![counter + 1] = A_curr_addr]
          /\ Bind' = [Bind EXCEPT ![counter + 1] = B_curr_addr]
      BY <2>1 DEF Pair
    <3>2. A_curr_addr \in RangeA /\ B_curr_addr \in RangeB /\ counter + 1 \in Entry
      <4>1. ColumnFits
        BY <3>1, InnerFacts DEF IInv
      <4>2. A_size * B_size \in Nat /\ counter \in 0 .. A_size * B_size
        BY <1>1 DEF IInv, ScheduleTypeOK, Entry, Positive
      <4>3. i < Length /\ counter + 1 <= A_size * B_size
        BY <3>1, <4>1 DEF ColumnFits
      <4>4. counter + 1 \in Entry
        BY <4>2, <4>3 DEF Entry
      <4> QED BY <3>1, <4>1, <4>4 DEF ColumnFits
    <3>3. counter \in Nat /\ Aind \in [Entry -> Nat] /\ Bind \in [Entry -> Nat]
      BY <1>1 DEF IInv, ScheduleTypeOK, Entry, Positive
    <3>4. CASE counter = 0
      <4>1. 0 \in RangeA /\ 0 \in RangeB
        BY <1>1 DEF RangeA, RangeB, Positive
      <4>2. ~Before(0, 0)
        BY <1>1, <3>4, <4>1 DEF IInv, Visited, BeforeWritten
      <4>3. A_curr_addr = 0 /\ B_curr_addr = 0
        BY <1>1, <3>1, <3>2, <4>2 DEF Before, RangeA, RangeB, Positive
      <4> QED BY <3>1, <3>2, <3>3, <3>4, <4>3 DEF FirstPair
    <3>5. CASE counter # 0
      <4>1. 1 \in Entry /\ 1 # counter + 1 /\ counter > 0
        <5>1. A_size * B_size \in Nat /\ counter + 1 \in 0 .. A_size * B_size
          BY <1>1, <3>2 DEF Entry, Positive
        <5> QED BY <3>3, <3>5, <5>1 DEF Entry
      <4>2. Aind'[1] = Aind[1] /\ Bind'[1] = Bind[1]
        BY <3>1, <3>3, <4>1
      <4> QED BY <4>1, <4>2 DEF FirstPair, SignalsOK
    <3> QED BY <3>4, <3>5
  <2>2. CASE ~Pair
    BY <2>2 DEF Addresses, Column, UpColumn, FlatColumn, DownColumn, StartAt, EndColumn,
                EndUp, EndFlat, EndDown, Turn, order, FirstPair, SignalsOK
  <2> QED BY <2>1, <2>2
<1>4. phase' = "cycle" => CycleMarked'
  <2> SUFFICES ASSUME EndDown PROVE CycleMarked'
    BY <1>1 DEF Loops
  <2>1. i' = 0 /\ counter' = counter /\ counter \in Nat
    BY <1>1 DEF EndDown, Turn, order, IInv, ScheduleTypeOK, Entry, Positive
  <2>2. \A s \in 0 .. counter - 1 : s \in Entry /\ ~(s < 0)
    BY <1>1 DEF IInv, ScheduleTypeOK, Entry, Positive
  <2> QED BY <1>1, <1>2, <2>1, <2>2 DEF CycleMarked
<1> QED BY <1>1, <1>2, <1>3, <1>4 DEF SignalsOK, SignalsReplayStarts, Loops

(* The first pass over the order marks the columns. *)
LEMMA MarkCycleSignals ==
  ASSUME IInv, IInv', SignalsOK, MarkCycle
  PROVE  SignalsOK'
<1>1. /\ phase = "cycle" /\ phase' = "cycle" /\ Positive /\ NotYetUp /\ CycleMarked /\ FirstPair
      /\ i < counter /\ i' = i + 1
      /\ cycle' = (IF StartsColumn(i) THEN [cycle EXCEPT ![i] = 1] ELSE cycle)
      /\ UNCHANGED <<sizes, order, addr_init_up, init_up_A_cnt, init_up_B_cnt>>
  BY DEF MarkCycle, SignalsOK
<1>2. ScheduleTypeOK /\ Visited
  BY DEF IInv
<1>3. /\ Positive' /\ FirstPair' /\ NotYetUp' /\ Entry' = Entry
      /\ \A s : StartsColumn(s)' <=> StartsColumn(s)
      /\ counter' = counter
  BY <1>1 DEF Positive, FirstPair, NotYetUp, Entry, sizes, order, StartsColumn
<1>4. i \in 0 .. counter - 1 /\ i' \in 0 .. counter /\ counter \in Nat /\ i \in Nat
  BY <1>1, <1>2 DEF CycleMarked, ScheduleTypeOK, Entry, Positive
<1>5. \A s \in 0 .. counter - 1 : s \in Entry
  BY <1>1, <1>2, PairIndices
<1>6. ASSUME NEW s \in 0 .. counter - 1
      PROVE  cycle'[s] = 1 <=> s < i' /\ StartsColumn(s)
  <2>1. s \in Entry /\ (cycle[s] = 1 <=> s < i /\ StartsColumn(s))
    BY <1>1, <1>5 DEF CycleMarked
  <2>2. cycle \in [Entry -> {0, 1}]
    BY <1>2 DEF ScheduleTypeOK
  <2>3. CASE s = i
    BY <1>1, <1>4, <2>1, <2>2, <2>3
  <2>4. CASE s # i
    BY <1>1, <1>4, <2>1, <2>2, <2>4
  <2> QED BY <2>3, <2>4
<1>7. CycleMarked'
  BY <1>3, <1>4, <1>6 DEF CycleMarked
<1> QED BY <1>1, <1>3, <1>7 DEF SignalsOK, SignalsReplayStarts, Loops

LEMMA EndCycleSignals ==
  ASSUME IInv, IInv', SignalsOK, EndCycle
  PROVE  SignalsOK'
<1>1. /\ phase = "cycle" /\ phase' = "init" /\ Positive /\ NotYetUp /\ CycleMarked /\ FirstPair
      /\ ~(i < counter) /\ i' = 1
      /\ UNCHANGED <<sizes, order, signals>>
  BY DEF EndCycle, Turn, SignalsOK
<1>2. ScheduleTypeOK /\ Visited
  BY DEF IInv
<1>3. /\ Positive' /\ FirstPair' /\ Entry' = Entry /\ counter' = counter
      /\ A_size' = A_size /\ Aind' = Aind /\ Bind' = Bind
      /\ cycle' = cycle /\ addr_init_up' = addr_init_up
      /\ init_up_A_cnt' = init_up_A_cnt /\ init_up_B_cnt' = init_up_B_cnt
      /\ \A s : StartsColumn(s)' <=> StartsColumn(s)
  BY <1>1 DEF Positive, FirstPair, Entry, sizes, order, signals, StartsColumn
<1>4. counter \in Nat \ {0} /\ i = counter
  <2>1. \E k \in 1 .. counter : Aind[k] = 0 /\ Bind[k] = 0
    BY <1>1, <1>2 DEF Visited, BeforeWritten, Loops, RangeA, RangeB, Positive
  <2> QED BY <1>1, <1>2, <2>1 DEF CycleMarked, ScheduleTypeOK, Entry, Positive
<1>5. Aind[1] = 0 /\ Bind[1] = 0 /\ 0 + 1 = 1 /\ Col(0) = 0 /\ PlaceA(0) = 0
  BY <1>1, <1>4, PlaceFacts DEF FirstPair, Col
<1>6. \A signal \in {1, 2} : Ups(0, signal) = {} /\ Cardinality(Ups(0, signal)) = 0
  BY FS_EmptySet DEF Ups
<1>7. Counted(0)
  BY <1>5, <1>6 DEF Counted
<1>8. (\A s : Col(s)' = Col(s)) /\ (\A col : PlaceA(col)' = PlaceA(col))
      /\ (\A s : Counted(s)' <=> Counted(s))
  BY <1>3 DEF Col, PlaceA, Counted, Ups
<1>9. InitMarked'
  <2>1. i' \in 1 .. counter' /\ i' - 1 = 0
    BY <1>1, <1>3, <1>4
  <2>2. \A s \in 0 .. counter' - 1 : cycle'[s] = 1 <=> StartsColumn(s)'
    BY <1>1, <1>3, <1>4 DEF CycleMarked
  <2>3. \A t \in Entry' : addr_init_up'[t] = 0
    BY <1>1, <1>3 DEF NotYetUp
  <2>4. init_up_A_cnt' = PlaceA(Col(0)) + 1 /\ init_up_B_cnt' = Col(0) - PlaceA(Col(0)) + 1
    BY <1>1, <1>3, <1>5 DEF NotYetUp
  <2>5. \A s \in 0 .. 0 : Counted(s)
    BY <1>7
  <2> QED BY <1>8, <2>1, <2>2, <2>3, <2>4, <2>5 DEF InitMarked
<1> QED BY <1>1, <1>3, <1>9 DEF SignalsOK, SignalsReplayStarts, Loops

(* The second pass counts them: along A as long as there are limbs, then   *)
(* along B, of which there are enough for all columns.                     *)
LEMMA MarkInitUpSignals ==
  ASSUME IInv, IInv', SignalsOK, MarkInitUp
  PROVE  SignalsOK'
<1>1. /\ phase = "init" /\ phase' = "init" /\ Positive /\ InitMarked /\ FirstPair
      /\ i < counter /\ i' = i + 1
      /\ UNCHANGED <<sizes, order, cycle>>
  BY DEF MarkInitUp, SignalsOK
<1>2. ScheduleTypeOK /\ Visited
  BY DEF IInv
<1>3. /\ Positive' /\ FirstPair' /\ Entry' = Entry /\ counter' = counter /\ cycle' = cycle
      /\ A_size' = A_size /\ Aind' = Aind /\ Bind' = Bind
      /\ \A s : StartsColumn(s)' <=> StartsColumn(s)
  BY <1>1 DEF Positive, FirstPair, Entry, sizes, order, StartsColumn
<1>4. /\ i \in 1 .. counter - 1 /\ i' \in 1 .. counter /\ counter \in Nat /\ i \in Nat /\ i' - 1 = i
      /\ i - 1 \in Nat /\ i - 1 + 1 = i /\ i \in 0 .. counter - 1 /\ i - 1 \in 0 .. counter - 1
  BY <1>1, <1>2 DEF InitMarked, ScheduleTypeOK, Entry, Positive
<1>5. (\A s : Col(s)' = Col(s)) /\ (\A col : PlaceA(col)' = PlaceA(col))
  BY <1>3 DEF Col, PlaceA
<1> DEFINE before == Col(i - 1)
<1>6. /\ before \in Nat /\ Col(i) \in Nat /\ Col(i) <= A_size + B_size - 2
      /\ i - 1 \in Entry /\ A_size \in Nat \ {0} /\ B_size \in Nat \ {0}
  <2>1. before \in Nat /\ i - 1 \in Entry
    BY <1>1, <1>2, <1>4, PairIndices, Zenon
  <2>2. Col(i) \in Nat /\ Col(i) <= A_size + B_size - 2
    BY <1>1, <1>2, <1>4, PairIndices, Zenon
  <2> QED BY <1>1, <2>1, <2>2 DEF Positive
<1>7. /\ cycle[i] = 1 => Col(i) = before + 1
      /\ cycle[i] # 1 => Col(i) = before
  BY <1>1, <1>2, <1>4, ColumnTest DEF InitMarked
<1>8. /\ init_up_A_cnt = PlaceA(before) + 1 /\ init_up_B_cnt = before - PlaceA(before) + 1
      /\ \A s \in 0 .. i - 1 : Counted(s)
      /\ \A t \in Entry : t >= i - 1 => addr_init_up[t] = 0
      /\ addr_init_up \in [Entry -> {0, 1, 2}] /\ addr_init_up' \in [Entry -> {0, 1, 2}]
  BY <1>1, <1>2, <1>3 DEF InitMarked, IInv, ScheduleTypeOK
<1>9. /\ PlaceA(before) \in Nat /\ PlaceA(before) <= A_size - 1
      /\ PlaceA(before) < A_size - 1 => PlaceA(before) = before /\ PlaceA(before + 1) = before + 1
      /\ PlaceA(before) = A_size - 1 => PlaceA(before + 1) = A_size - 1
  BY <1>1, <1>6, PlaceFacts
<1> HIDE DEF before
<1>10. addr_init_up[i - 1] = 0
  BY <1>4, <1>6, <1>8
(* The three cases: what the step counts. *)
<1>11. /\ init_up_A_cnt' = PlaceA(Col(i)) + 1
       /\ init_up_B_cnt' = Col(i) - PlaceA(Col(i)) + 1
       /\ \A t \in Entry : t # i - 1 => addr_init_up'[t] = addr_init_up[t]
       /\ addr_init_up'[i - 1] = 1 => PlaceA(Col(i)) = PlaceA(before) + 1 /\ Col(i) = before + 1
       /\ addr_init_up'[i - 1] = 2 => PlaceA(Col(i)) = PlaceA(before) /\ Col(i) = before + 1
       /\ addr_init_up'[i - 1] = 0 => Col(i) = before
  <2>1. CASE cycle[i] = 1 /\ init_up_A_cnt < A_size
    <3>1. /\ addr_init_up' = [addr_init_up EXCEPT ![i - 1] = 1]
          /\ init_up_A_cnt' = init_up_A_cnt + 1 /\ init_up_B_cnt' = init_up_B_cnt
      BY <2>1 DEF MarkInitUp
    <3>2. addr_init_up'[i - 1] = 1
      BY <1>6, <1>8, <3>1
    <3>3. \A t \in Entry : t # i - 1 => addr_init_up'[t] = addr_init_up[t]
      BY <1>8, <3>1
    <3>4. /\ PlaceA(before) = before /\ Col(i) = before + 1 /\ PlaceA(Col(i)) = before + 1
      BY <1>6, <1>7, <1>8, <1>9, <2>1
    <3> QED BY <1>6, <1>8, <3>1, <3>2, <3>3, <3>4
  <2>2. CASE cycle[i] = 1 /\ ~(init_up_A_cnt < A_size)
    <3>1. /\ PlaceA(before) = A_size - 1 /\ Col(i) = before + 1 /\ PlaceA(Col(i)) = A_size - 1
      BY <1>6, <1>7, <1>8, <1>9, <2>2
    <3>2. init_up_B_cnt < B_size
      BY <1>6, <1>8, <3>1
    <3>3. /\ addr_init_up' = [addr_init_up EXCEPT ![i - 1] = 2]
          /\ init_up_B_cnt' = init_up_B_cnt + 1 /\ init_up_A_cnt' = init_up_A_cnt
      BY <2>2, <3>2 DEF MarkInitUp
    <3>4. addr_init_up'[i - 1] = 2
      BY <1>6, <1>8, <3>3
    <3>5. \A t \in Entry : t # i - 1 => addr_init_up'[t] = addr_init_up[t]
      BY <1>8, <3>3
    <3> QED BY <1>6, <1>8, <3>1, <3>3, <3>4, <3>5
  <2>3. CASE cycle[i] # 1
    <3>1. UNCHANGED <<addr_init_up, init_up_A_cnt, init_up_B_cnt>>
      BY <2>3 DEF MarkInitUp
    <3> QED BY <1>7, <1>8, <1>10, <2>3, <3>1
  <2> QED BY <2>1, <2>2, <2>3
<1>12. ASSUME NEW s \in 0 .. i - 1
       PROVE  Counted(s)'
  <2>1. \A t \in 0 .. s - 1 : t \in Entry /\ t # i - 1
    <3>1. \A t \in 0 .. s - 1 : t \in 0 .. counter - 1 /\ t # i - 1
      BY <1>4
    <3> QED BY <1>1, <1>2, <3>1, PairIndices
  <2>2. \A signal : Ups(s, signal)' = Ups(s, signal)
    BY <1>11, <2>1 DEF Ups
  <2>3. Counted(s)
    BY <1>8
  <2> QED BY <1>5, <2>2, <2>3 DEF Counted
<1>13. \A s \in {i} : Counted(s)'
  <2> SUFFICES ASSUME NEW m, m = i PROVE Counted(m)'
    OBVIOUS
  <2>1. Counted(m - 1)'
    BY <1>4, <1>12
  <2>2. /\ Cardinality(Ups(m - 1, 1)') = PlaceA(before)
        /\ Cardinality(Ups(m - 1, 2)') = before - PlaceA(before)
    BY <1>5, <2>1 DEF Counted, before
  <2>3. ASSUME NEW signal
        PROVE  /\ addr_init_up'[m - 1] = signal =>
                    Cardinality(Ups(m, signal)') = Cardinality(Ups(m - 1, signal)') + 1
               /\ addr_init_up'[m - 1] # signal => Ups(m, signal)' = Ups(m - 1, signal)'
    <3>1. IsFiniteSet(0 .. m - 1 - 1) /\ Ups(m - 1, signal)' \subseteq 0 .. m - 1 - 1
      <4>1. 0 \in Int /\ m - 1 - 1 \in Int
        BY <1>4
      <4>2. IsFiniteSet(0 .. m - 1 - 1)
        BY <4>1, FS_Interval
      <4> QED BY <4>2 DEF Ups
    <3>2. 0 .. m - 1 = (0 .. m - 1 - 1) \cup {m - 1} /\ m - 1 \notin 0 .. m - 1 - 1
      BY <1>4
    <3>3. addr_init_up'[m - 1] = signal => Ups(m, signal)' = Ups(m - 1, signal)' \cup {m - 1}
      BY <3>2 DEF Ups
    <3>4. addr_init_up'[m - 1] # signal => Ups(m, signal)' = Ups(m - 1, signal)'
      BY <3>2 DEF Ups
    <3>5. IsFiniteSet(Ups(m - 1, signal)') /\ m - 1 \notin Ups(m - 1, signal)'
      BY <3>1, <3>2, FS_Subset
    <3> QED BY <3>3, <3>4, <3>5, FS_AddElement
  <2>4. addr_init_up'[m - 1] \in {0, 1, 2}
    BY <1>6, <1>8
  <2>5. /\ Cardinality(Ups(m, 1)') = PlaceA(Col(i))
        /\ Cardinality(Ups(m, 2)') = Col(i) - PlaceA(Col(i))
    <3>1. CASE addr_init_up'[m - 1] = 1
      BY <1>6, <1>9, <1>11, <2>2, <2>3, <3>1
    <3>2. CASE addr_init_up'[m - 1] = 2
      BY <1>6, <1>9, <1>11, <2>2, <2>3, <3>2
    <3>3. CASE addr_init_up'[m - 1] = 0
      BY <1>6, <1>9, <1>11, <2>2, <2>3, <3>3
    <3> QED BY <2>4, <3>1, <3>2, <3>3
  <2> QED BY <1>5, <2>5 DEF Counted
<1>14. InitMarked'
  <2>1. \A s \in 0 .. i' - 1 : Counted(s)'
    <3>1. \A s \in 0 .. i : s \in 0 .. i - 1 \/ s = i
      BY <1>4
    <3> QED BY <1>4, <1>12, <1>13, <3>1
  <2>2. \A t \in Entry : t >= i' - 1 => addr_init_up'[t] = 0
    <3>1. \A t \in Entry : t \in Int
      BY <1>6 DEF Entry
    <3>2. \A t \in Entry : t >= i => t >= i - 1 /\ t # i - 1
      BY <1>4, <3>1
    <3> QED BY <1>4, <1>8, <1>11, <3>2
  <2>3. \A s \in 0 .. counter - 1 : cycle'[s] = 1 <=> StartsColumn(s)'
    BY <1>1, <1>3 DEF InitMarked
  <2> QED BY <1>3, <1>4, <1>5, <1>11, <2>1, <2>2, <2>3 DEF InitMarked
<1> QED BY <1>1, <1>3, <1>14 DEF SignalsOK, SignalsReplayStarts, Loops

(* At the end the signals say what the counters of the unit need to know.  *)
LEMMA EndInitSignals ==
  ASSUME IInv, IInv', SignalsOK, EndInit
  PROVE  SignalsOK'
<1>1. /\ phase = "init" /\ phase' = "ordered" /\ Positive /\ InitMarked /\ FirstPair
      /\ ~(i < counter) /\ cycle' = [cycle EXCEPT ![0] = 1]
      /\ UNCHANGED <<sizes, order, addr_init_up>>
  BY DEF EndInit, Turn, SignalsOK
<1>2. ScheduleTypeOK /\ Visited
  BY DEF IInv
<1>3. /\ FirstPair' /\ counter' = counter /\ Aind' = Aind /\ Bind' = Bind
      /\ addr_init_up' = addr_init_up
  BY <1>1 DEF FirstPair, sizes, order
<1>4. i = counter /\ counter \in Nat \ {0}
  BY <1>1, <1>2 DEF InitMarked, ScheduleTypeOK, Entry, Positive
<1>5. ASSUME NEW s \in 0 .. counter - 1
      PROVE  /\ (cycle'[s] = 1) <=> (s = 0 \/ Aind[s + 1] + Bind[s + 1] > Aind[s] + Bind[s])
             /\ cycle'[s] = 1 =>
                  /\ Aind[s + 1] = Cardinality({t \in 0 .. s - 1 : addr_init_up[t] = 1})
                  /\ Bind[s + 1] = Cardinality({t \in 0 .. s - 1 : addr_init_up[t] = 2})
  <2>1. s \in Nat /\ s \in Entry /\ 0 \in Entry
    <3>1. 0 \in 0 .. counter - 1
      BY <1>4
    <3> QED BY <1>1, <1>2, <3>1, PairIndices
  <2>2. cycle'[s] = 1 <=> s = 0 \/ StartsColumn(s)
    <3>1. cycle[s] = 1 <=> StartsColumn(s)
      BY <1>1 DEF InitMarked
    <3>2. cycle'[s] = IF s = 0 THEN 1 ELSE cycle[s]
      BY <1>1, <1>2, <2>1 DEF ScheduleTypeOK
    <3> QED BY <3>1, <3>2
  <2>3. s # 0 => (StartsColumn(s) <=> Aind[s + 1] + Bind[s + 1] > Aind[s] + Bind[s])
    <3> SUFFICES ASSUME s # 0
                 PROVE  StartsColumn(s) <=> Aind[s + 1] + Bind[s + 1] > Aind[s] + Bind[s]
      OBVIOUS
    <3>1. s \in 1 .. counter - 1 /\ s - 1 + 1 = s /\ s - 1 \in 0 .. counter - 1
      BY <1>4, <2>1
    <3>2. /\ StartsColumn(s) <=> Col(s) = Col(s - 1) + 1
          /\ ~StartsColumn(s) <=> Col(s) = Col(s - 1)
      BY <1>1, <1>2, <3>1, ColumnTest
    <3>3. Col(s - 1) \in Nat /\ Col(s) \in Nat
      BY <1>1, <1>2, <3>1, PairIndices
    <3>4. Col(s - 1) = Aind[s] + Bind[s] /\ Col(s) = Aind[s + 1] + Bind[s + 1]
      BY <3>1 DEF Col
    <3> QED BY <3>2, <3>3, <3>4
  <2>4. cycle'[s] = 1 => Aind[s + 1] = PlaceA(Col(s)) /\ Bind[s + 1] = Col(s) - PlaceA(Col(s))
    BY <1>1, <1>2, <2>2, ColumnPlace
  <2>5. Counted(s)
    BY <1>1, <1>4 DEF InitMarked
  <2> QED BY <2>2, <2>3, <2>4, <2>5 DEF Counted, Ups
<1>6. SignalsReplayStarts'
  BY <1>3, <1>5 DEF SignalsReplayStarts
<1> QED BY <1>1, <1>3, <1>6 DEF SignalsOK, Loops

LEMMA StartSignals ==
  ASSUME NEW Alimbs \in Limbs, NEW Blimbs \in Limbs, Start(Alimbs, Blimbs)
  PROVE  SignalsOK'
<1>1. /\ phase' = "up" /\ counter' = 0 /\ A_size' = Alimbs /\ B_size' = Blimbs
      /\ Alimbs \in Nat \ {0} /\ Blimbs \in Nat \ {0}
      /\ cycle' = [k \in 0 .. Alimbs * Blimbs |-> 0]
      /\ addr_init_up' = [k \in 0 .. Alimbs * Blimbs |-> 0]
      /\ init_up_A_cnt' = 1 /\ init_up_B_cnt' = 1
  BY LimbsAssumption DEF Start
<1>2. Entry' = 0 .. Alimbs * Blimbs
  BY <1>1 DEF Entry
<1>3. Positive' /\ FirstPair' /\ NotYetUp' /\ \A s \in Entry' : cycle'[s] = 0
  BY <1>1, <1>2 DEF Positive, FirstPair, NotYetUp
<1> QED BY <1>1, <1>3 DEF SignalsOK, SignalsReplayStarts

LEMMA SignalsStep ==
  ASSUME IInv, IInv', SignalsOK, [ScheduleNext]_mvars
  PROVE  SignalsOK'
<1>1. CASE UNCHANGED mvars
  <2>1. /\ A_size' = A_size /\ B_size' = B_size /\ phase' = phase /\ i' = i
        /\ counter' = counter /\ Aind' = Aind /\ Bind' = Bind
        /\ cycle' = cycle /\ addr_init_up' = addr_init_up
        /\ init_up_A_cnt' = init_up_A_cnt /\ init_up_B_cnt' = init_up_B_cnt
    BY <1>1 DEF mvars, sizes, loop, order, signals
  <2>2. /\ FirstPair' = FirstPair /\ Positive' = Positive /\ Entry' = Entry
        /\ NotYetUp' = NotYetUp /\ SignalsReplayStarts' = SignalsReplayStarts
    BY <2>1 DEF FirstPair, Positive, Entry, NotYetUp, SignalsReplayStarts
  <2>3. CycleMarked' = CycleMarked
    BY <2>1 DEF CycleMarked, StartsColumn
  <2>4. InitMarked' = InitMarked
    BY <2>1, <2>2 DEF InitMarked, StartsColumn, Col, PlaceA, Counted, Ups
  <2> QED BY <2>1, <2>2, <2>3, <2>4 DEF SignalsOK
<1> QED BY <1>1, AddressesSignals, MarkCycleSignals, EndCycleSignals, MarkInitUpSignals,
           EndInitSignals, StartSignals DEF ScheduleNext, Reorder, Marks

LEMMA SignalsAlways == ScheduleSpec => []SignalsOK
<1>1. ScheduleInit => SignalsOK
  BY DEF ScheduleInit, SignalsOK, FirstPair, Loops, SignalsReplayStarts
<1> QED BY <1>1, SignalsStep, IInvAlways, PTL DEF ScheduleSpec

(* The signals mult_regs_address hands to the bench make counters that     *)
(* know nothing of the order start every column where the order does, for  *)
(* operands of any lengths.                                                *)
THEOREM SignalsTellStarts == ScheduleSpec => []SignalsReplayStarts
<1>1. SignalsOK => SignalsReplayStarts
  BY DEF SignalsOK
<1> QED BY <1>1, SignalsAlways, PTL

-----------------------------------------------------------------------------
(* Sums over finite sets. *)

LEMMA SetInduction ==
  ASSUME NEW S, 0 \in S, \A k \in Nat : k \in S => k + 1 \in S
  PROVE  Nat \subseteq S
<1> SUFFICES ASSUME NEW n \in Nat, n \notin S
             PROVE  FALSE
  OBVIOUS
<1> DEFINE A == S \cap (0 .. n)
           f == [k \in A |-> k + 1]
<1>1. IsFiniteSet(A)
  <2>1. IsFiniteSet(0 .. n) /\ A \in SUBSET (0 .. n)
    BY FS_Interval
  <2> HIDE DEF A
  <2> QED BY <2>1, FS_Subset
<1>2. f \in [A -> A]
  <2> SUFFICES ASSUME NEW k \in A PROVE k + 1 \in A
    OBVIOUS
  <2> QED OBVIOUS
<1>3. f \in Injection(A, A)
  BY <1>2 DEF Injection, IsInjective
<1>4. f \in Surjection(A, A)
  <2> HIDE DEF f, A
  <2> QED BY <1>1, <1>3, FS_Injection
<1>5. 0 \in A
  OBVIOUS
<1>6. \E k \in A : f[k] = 0
  BY <1>4, <1>5 DEF Surjection
<1> QED BY <1>6

(* What holds for a subset as soon as it holds for all smaller ones.       *)
LEMMA SubsetInduction ==
  ASSUME NEW S, IsFiniteSet(S), NEW Fam,
         \A T \in SUBSET S : (\A U \in SUBSET T : U # T => U \in Fam) => T \in Fam
  PROVE  \A T \in SUBSET S : T \in Fam
<1> DEFINE P == {n \in Nat : \A T \in SUBSET S : Cardinality(T) <= n => T \in Fam}
<1>0. \A T \in SUBSET S : IsFiniteSet(T) /\ Cardinality(T) \in Nat
  BY FS_Subset, FS_CardinalityType
<1>1. ASSUME NEW T \in SUBSET S, NEW U \in SUBSET T, U # T
      PROVE  Cardinality(U) < Cardinality(T) /\ U \in SUBSET S
  <2>1. IsFiniteSet(T) /\ IsFiniteSet(U) /\ Cardinality(U) \in Nat /\ Cardinality(T) \in Nat
    BY <1>0
  <2>2. Cardinality(U) <= Cardinality(T) /\ (Cardinality(U) = Cardinality(T) => U = T)
    BY <2>1, FS_Subset
  <2> QED BY <1>1, <2>1, <2>2
<1>2. 0 \in P
  <2> SUFFICES ASSUME NEW T \in SUBSET S, Cardinality(T) <= 0 PROVE T \in Fam
    OBVIOUS
  <2>1. \A U \in SUBSET T : U = T
    BY <1>0, <1>1
  <2> QED BY <2>1
<1>3. ASSUME NEW n \in Nat, n \in P PROVE n + 1 \in P
  <2> SUFFICES ASSUME NEW T \in SUBSET S, Cardinality(T) <= n + 1 PROVE T \in Fam
    OBVIOUS
  <2>1. ASSUME NEW U \in SUBSET T, U # T PROVE U \in Fam
    <3>1. Cardinality(U) <= n /\ U \in SUBSET S
      BY <1>0, <1>1, <2>1
    <3> QED BY <1>3, <3>1
  <2> QED BY <2>1
<1> HIDE DEF P
<1>4. Nat \subseteq P
  BY <1>2, <1>3, SetInduction
<1> SUFFICES ASSUME NEW T \in SUBSET S PROVE T \in Fam
  OBVIOUS
<1>5. Cardinality(T) \in P
  BY <1>0, <1>4
<1>6. PICK n \in Nat : n = Cardinality(T)
  BY <1>0
<1> QED BY <1>5, <1>6 DEF P

Chosen(s) == CHOOSE x \in s : TRUE

Adds(g, f, S) ==
  g = [s \in SUBSET S |-> IF s = {} THEN 0 ELSE f[Chosen(s)] + g[s \ {Chosen(s)}]]

LEMMA SumUnfold ==
  ASSUME NEW f, NEW S
  PROVE  SumFunctionOnSet(f, S) = (CHOOSE g : Adds(g, f, S))[S]
BY Zenon DEF SumFunctionOnSet, FoldFunctionOnSet, MapThenFoldSet, Adds, Chosen

(* The equations of Adds up to the sets of n members.                      *)
AddsUpTo(g, f, S, n) ==
  \A T \in SUBSET S : Cardinality(T) <= n =>
    g[T] = IF T = {} THEN 0 ELSE f[Chosen(T)] + g[T \ {Chosen(T)}]

LEMMA SumExists ==
  ASSUME NEW f, NEW S, IsFiniteSet(S)
  PROVE  \E g : Adds(g, f, S)
<1> DEFINE P == {n \in Nat : \E g : AddsUpTo(g, f, S, n)}
<1>0. \A T \in SUBSET S : IsFiniteSet(T) /\ Cardinality(T) \in Nat
  BY FS_Subset, FS_CardinalityType
<1>1. 0 \in P
  <2> DEFINE g == [T \in SUBSET S |-> 0]
  <2>1. \A T \in SUBSET S : Cardinality(T) <= 0 => T = {}
    BY <1>0, FS_EmptySet
  <2>2. AddsUpTo(g, f, S, 0)
    BY <2>1 DEF AddsUpTo
  <2> QED BY <2>2, Zenon
<1>2. ASSUME NEW n \in Nat, n \in P PROVE n + 1 \in P
  <2>1. PICK g : AddsUpTo(g, f, S, n)
    BY <1>2, Zenon
  <2> DEFINE h == [T \in SUBSET S |->
                     IF Cardinality(T) <= n THEN g[T]
                     ELSE IF T = {} THEN 0 ELSE f[Chosen(T)] + g[T \ {Chosen(T)}]]
  <2>2. ASSUME NEW T \in SUBSET S, Cardinality(T) <= n + 1, T # {}
        PROVE  T \ {Chosen(T)} \in SUBSET S /\ Cardinality(T \ {Chosen(T)}) <= n
    <3>1. Chosen(T) \in T
      BY <2>2 DEF Chosen
    <3>2. Cardinality(T \ {Chosen(T)}) = Cardinality(T) - 1
      BY <1>0, <3>1, FS_RemoveElement
    <3> QED BY <1>0, <2>2, <3>2
  <2>3. ASSUME NEW T \in SUBSET S, Cardinality(T) <= n + 1
        PROVE  h[T] = IF T = {} THEN 0 ELSE f[Chosen(T)] + h[T \ {Chosen(T)}]
    <3>1. CASE T = {}
      <4>1. Cardinality(T) <= n
        BY <3>1, FS_EmptySet
      <4>2. g[T] = 0
        BY <2>1, <3>1, <4>1 DEF AddsUpTo
      <4> QED BY <3>1, <4>1, <4>2
    <3>2. CASE T # {}
      <4>1. h[T \ {Chosen(T)}] = g[T \ {Chosen(T)}]
        BY <2>2, <2>3, <3>2
      <4>2. CASE Cardinality(T) <= n
        BY <2>1, <3>2, <4>1, <4>2 DEF AddsUpTo
      <4>3. CASE ~(Cardinality(T) <= n)
        BY <3>2, <4>1, <4>3
      <4> QED BY <4>2, <4>3
    <3> QED BY <3>1, <3>2
  <2>4. AddsUpTo(h, f, S, n + 1)
    <3> HIDE DEF h
    <3> QED BY <2>3, Zenon DEF AddsUpTo
  <2>5. n + 1 \in Nat
    OBVIOUS
  <2> HIDE DEF h
  <2> QED BY <2>4, <2>5, Zenon
<1> HIDE DEF P
<1>3. Cardinality(S) \in P
  <2>1. Cardinality(S) \in Nat
    BY FS_CardinalityType
  <2>2. Nat \subseteq P
    BY <1>1, <1>2, SetInduction
  <2> QED BY <2>1, <2>2
<1>4. PICK g : AddsUpTo(g, f, S, Cardinality(S))
  BY <1>3, Zenon DEF P
<1> DEFINE h == [T \in SUBSET S |-> g[T]]
<1>5. ASSUME NEW T \in SUBSET S
      PROVE  h[T] = IF T = {} THEN 0 ELSE f[Chosen(T)] + h[T \ {Chosen(T)}]
  <2>1. Cardinality(T) <= Cardinality(S)
    BY FS_Subset
  <2>2. g[T] = IF T = {} THEN 0 ELSE f[Chosen(T)] + g[T \ {Chosen(T)}]
    BY <1>4, <2>1 DEF AddsUpTo
  <2>3. T \ {Chosen(T)} \in SUBSET S
    OBVIOUS
  <2> QED BY <2>2, <2>3
<1>6. Adds(h, f, S)
  <2>1. h = [T \in SUBSET S |-> IF T = {} THEN 0 ELSE f[Chosen(T)] + h[T \ {Chosen(T)}]]
    BY <1>5
  <2> QED BY <2>1, Zenon DEF Adds
<1> QED BY <1>6, Zenon

LEMMA SumsAgree ==
  ASSUME NEW f, NEW S, IsFiniteSet(S), NEW g, Adds(g, f, S),
         NEW T \in SUBSET S, NEW h, Adds(h, f, T)
  PROVE  h[T] = g[T]
<1> DEFINE Fam == {U \in SUBSET T : h[U] = g[U]}
<1>1. IsFiniteSet(T)
  BY FS_Subset
<1>2. ASSUME NEW U \in SUBSET T, \A V \in SUBSET U : V # U => V \in Fam
      PROVE  U \in Fam
  <2>1. /\ h[U] = IF U = {} THEN 0 ELSE f[Chosen(U)] + h[U \ {Chosen(U)}]
        /\ g[U] = IF U = {} THEN 0 ELSE f[Chosen(U)] + g[U \ {Chosen(U)}]
    BY DEF Adds
  <2>2. CASE U = {}
    BY <2>1, <2>2
  <2>3. CASE U # {}
    <3>1. Chosen(U) \in U
      BY <2>3 DEF Chosen
    <3>2. U \ {Chosen(U)} \in Fam
      BY <1>2, <3>1
    <3> QED BY <2>1, <2>3, <3>2
  <2> QED BY <2>2, <2>3
<1> HIDE DEF Fam
<1>3. T \in Fam
  BY <1>1, <1>2, SubsetInduction
<1> QED BY <1>3 DEF Fam

(* A sum over a finite set: that of nothing, and that of a member and the  *)
(* rest.                                                                   *)
LEMMA SumRecurrence ==
  ASSUME NEW f, NEW S, IsFiniteSet(S)
  PROVE  /\ S = {} => SumFunctionOnSet(f, S) = 0
         /\ S # {} => SumFunctionOnSet(f, S)
                        = f[Chosen(S)] + SumFunctionOnSet(f, S \ {Chosen(S)})
<1> DEFINE R == S \ {Chosen(S)}
<1>1. PICK g : g = CHOOSE any : Adds(any, f, S)
  OBVIOUS
<1>2. PICK h : h = CHOOSE any : Adds(any, f, R)
  OBVIOUS
<1>3. IsFiniteSet(R) /\ R \in SUBSET S
  BY FS_Subset
<1>4. Adds(g, f, S) /\ Adds(h, f, R)
  BY <1>1, <1>2, <1>3, SumExists, Zenon
<1>5. SumFunctionOnSet(f, S) = g[S] /\ SumFunctionOnSet(f, R) = h[R]
  BY <1>1, <1>2, SumUnfold, Zenon
<1>6. h[R] = g[R]
  <2> HIDE DEF R
  <2> QED BY <1>3, <1>4, SumsAgree
<1>7. g[S] = IF S = {} THEN 0 ELSE f[Chosen(S)] + g[R]
  <2>1. S \in SUBSET S
    OBVIOUS
  <2> QED BY <1>4, <2>1 DEF Adds
<1> QED BY <1>5, <1>6, <1>7

LEMMA SumInt ==
  ASSUME NEW f, NEW S, IsFiniteSet(S), \A x \in S : f[x] \in Int
  PROVE  SumFunctionOnSet(f, S) \in Int
<1> DEFINE Fam == {T \in SUBSET S : SumFunctionOnSet(f, T) \in Int}
<1>1. ASSUME NEW T \in SUBSET S, \A U \in SUBSET T : U # T => U \in Fam
      PROVE  T \in Fam
  <2>1. IsFiniteSet(T)
    BY FS_Subset
  <2>2. CASE T = {}
    <3>1. SumFunctionOnSet(f, T) = 0
      BY <2>1, <2>2, SumRecurrence
    <3> QED BY <3>1
  <2>3. CASE T # {}
    <3>1. Chosen(T) \in T
      BY <2>3 DEF Chosen
    <3>2. T \ {Chosen(T)} \in Fam
      BY <1>1, <3>1
    <3>3. SumFunctionOnSet(f, T) = f[Chosen(T)] + SumFunctionOnSet(f, T \ {Chosen(T)})
      BY <2>1, <2>3, SumRecurrence
    <3> QED BY <3>1, <3>2, <3>3
  <2> QED BY <2>2, <2>3
<1> HIDE DEF Fam
<1>2. S \in Fam
  BY <1>1, SubsetInduction
<1> QED BY <1>2 DEF Fam

(* Any member may be taken out first.                                      *)
LEMMA SumRemove ==
  ASSUME NEW f, NEW S, IsFiniteSet(S), \A x \in S : f[x] \in Int, NEW x \in S
  PROVE  SumFunctionOnSet(f, S) = f[x] + SumFunctionOnSet(f, S \ {x})
<1> DEFINE Fam == {T \in SUBSET S : \A z \in T :
                     SumFunctionOnSet(f, T) = f[z] + SumFunctionOnSet(f, T \ {z})}
<1>1. ASSUME NEW T \in SUBSET S, \A U \in SUBSET T : U # T => U \in Fam
      PROVE  T \in Fam
  <2> SUFFICES ASSUME NEW z \in T
               PROVE  SumFunctionOnSet(f, T) = f[z] + SumFunctionOnSet(f, T \ {z})
    OBVIOUS
  <2> DEFINE y == Chosen(T)
             R == T \ {y, z}
  <2>1. y \in T
    BY DEF Chosen
  <2>2. SumFunctionOnSet(f, T) = f[y] + SumFunctionOnSet(f, T \ {y})
    <3>1. IsFiniteSet(T) /\ T # {}
      BY FS_Subset
    <3> QED BY <3>1, SumRecurrence
  <2>3. CASE y = z
    BY <2>2, <2>3
  <2>4. CASE y # z
    <3>1. T \ {y} \in Fam /\ T \ {z} \in Fam
      BY <1>1, <2>1
    <3>2. /\ SumFunctionOnSet(f, T \ {y}) = f[z] + SumFunctionOnSet(f, (T \ {y}) \ {z})
          /\ SumFunctionOnSet(f, T \ {z}) = f[y] + SumFunctionOnSet(f, (T \ {z}) \ {y})
      BY <2>1, <2>4, <3>1
    <3>3. (T \ {y}) \ {z} = R /\ (T \ {z}) \ {y} = R
      OBVIOUS
    <3>4. IsFiniteSet(R) /\ \A u \in R : f[u] \in Int
      BY FS_Subset
    <3> HIDE DEF y, R
    <3>5. SumFunctionOnSet(f, R) \in Int
      BY <3>4, SumInt
    <3>6. f[y] \in Int /\ f[z] \in Int
      BY <2>1
    <3>7. /\ SumFunctionOnSet(f, T \ {y}) = f[z] + SumFunctionOnSet(f, R)
          /\ SumFunctionOnSet(f, T \ {z}) = f[y] + SumFunctionOnSet(f, R)
      BY <3>2, <3>3, Zenon
    <3> QED BY <2>2, <3>5, <3>6, <3>7
  <2> QED BY <2>3, <2>4
<1> HIDE DEF Fam
<1>2. S \in Fam
  BY <1>1, SubsetInduction
<1> QED BY <1>2 DEF Fam

(* A sum grows by one term with each member.                               *)
LEMMA SumAdd ==
  ASSUME NEW f, NEW S, IsFiniteSet(S), NEW x, x \notin S,
         \A z \in S \cup {x} : f[z] \in Int
  PROVE  SumFunctionOnSet(f, S \cup {x}) = SumFunctionOnSet(f, S) + f[x]
<1>1. IsFiniteSet(S \cup {x})
  BY FS_AddElement
<1>2. (S \cup {x}) \ {x} = S
  OBVIOUS
<1>3. SumFunctionOnSet(f, S \cup {x}) = f[x] + SumFunctionOnSet(f, (S \cup {x}) \ {x})
  BY <1>1, SumRemove
<1>4. SumFunctionOnSet(f, S) \in Int /\ f[x] \in Int
  BY SumInt
<1>5. SumFunctionOnSet(f, S \cup {x}) = f[x] + SumFunctionOnSet(f, S)
  BY <1>2, <1>3, Zenon
<1> QED BY <1>4, <1>5

(* What holds of the empty set and is kept by adding a member.             *)
LEMMA FiniteInduction ==
  ASSUME NEW S, IsFiniteSet(S), NEW Fam, {} \in Fam,
         \A T \in SUBSET S : \A x \in S \ T : T \in Fam => T \cup {x} \in Fam
  PROVE  S \in Fam
<1>1. ASSUME NEW T \in SUBSET S, \A U \in SUBSET T : U # T => U \in Fam
      PROVE  T \in Fam
  <2>1. CASE T = {}
    BY <2>1
  <2>2. CASE T # {}
    <3>1. PICK x : x \in T
      BY <2>2
    <3>2. T \ {x} \in Fam /\ T \ {x} \in SUBSET S /\ x \in S \ (T \ {x})
      BY <1>1, <3>1
    <3>3. T = (T \ {x}) \cup {x}
      BY <3>1
    <3> QED BY <3>2, <3>3
  <2> QED BY <2>1, <2>2
<1> QED BY <1>1, SubsetInduction

(* Equal terms, equal sums; the terms of f may be reached by another index.*)
LEMMA SumReindex ==
  ASSUME NEW S, IsFiniteSet(S), NEW f, NEW T, NEW h \in Bijection(S, T), NEW g,
         \A x \in S : g[x] = f[h[x]], \A y \in T : f[y] \in Int
  PROVE  SumFunctionOnSet(g, S) = SumFunctionOnSet(f, T)
<1> DEFINE Image(U) == {h[x] : x \in U}
           Fam == {U \in SUBSET S : SumFunctionOnSet(g, U) = SumFunctionOnSet(f, Image(U))}
<1>0. /\ h \in [S -> T] /\ \A x, y \in S : h[x] = h[y] => x = y
      /\ \A y \in T : \E x \in S : h[x] = y
  BY DEF Bijection, Injection, Surjection, IsInjective
<1>1. {} \in Fam
  <2>1. IsFiniteSet({}) /\ Image({}) = {}
    BY FS_EmptySet
  <2>2. SumFunctionOnSet(g, {}) = 0 /\ SumFunctionOnSet(f, {}) = 0
    BY <2>1, SumRecurrence
  <2> QED BY <2>1, <2>2
<1>2. ASSUME NEW U \in SUBSET S, NEW x \in S \ U, U \in Fam
      PROVE  U \cup {x} \in Fam
  <2>1. Image(U \cup {x}) = Image(U) \cup {h[x]}
    OBVIOUS
  <2>2. h[x] \notin Image(U)
    BY <1>0
  <2>3. IsFiniteSet(U) /\ IsFiniteSet(Image(U))
    <3>1. IsFiniteSet(U)
      BY FS_Subset
    <3>2. [z \in U |-> h[z]] \in Surjection(U, Image(U))
      BY DEF Surjection
    <3> QED BY <3>1, <3>2, FS_Surjection
  <2>4. Image(U) \subseteq T /\ h[x] \in T
    BY <1>0
  <2>5. SumFunctionOnSet(f, Image(U) \cup {h[x]}) = SumFunctionOnSet(f, Image(U)) + f[h[x]]
    <3> HIDE DEF Image
    <3>1. \A y \in Image(U) \cup {h[x]} : f[y] \in Int
      BY <2>4
    <3> QED BY <2>2, <2>3, <3>1, SumAdd
  <2>6. SumFunctionOnSet(g, U \cup {x}) = SumFunctionOnSet(g, U) + g[x]
    <3>1. \A z \in U \cup {x} : g[z] \in Int
      BY <1>0
    <3> QED BY <2>3, <3>1, SumAdd
  <2>7. SumFunctionOnSet(g, U) = SumFunctionOnSet(f, Image(U)) /\ g[x] = f[h[x]]
    BY <1>2
  <2> HIDE DEF Image
  <2> QED BY <2>1, <2>5, <2>6, <2>7
<1> HIDE DEF Fam
<1>3. S \in Fam
  BY <1>1, <1>2, FiniteInduction
<1>4. SumFunctionOnSet(g, S) = SumFunctionOnSet(f, Image(S))
  BY <1>3 DEF Fam
<1>5. Image(S) = T
  BY <1>0
<1> QED BY <1>4, <1>5

LEMMA SumEqual ==
  ASSUME NEW S, IsFiniteSet(S), NEW f, NEW g,
         \A x \in S : g[x] = f[x] /\ f[x] \in Int
  PROVE  SumFunctionOnSet(g, S) = SumFunctionOnSet(f, S)
<1> DEFINE h == [x \in S |-> x]
<1>1. h \in Bijection(S, S)
  BY DEF Bijection, Injection, Surjection, IsInjective
<1>2. \A x \in S : g[x] = f[h[x]]
  OBVIOUS
<1> HIDE DEF h
<1> QED BY <1>1, <1>2, SumReindex

LEMMA SumOfNone ==
  ASSUME NEW f
  PROVE  SumFunctionOnSet(f, {}) = 0
<1>1. IsFiniteSet({})
  BY FS_EmptySet
<1> QED BY <1>1, SumRecurrence

LEMMA SumNext ==
  ASSUME NEW n \in Nat, NEW f, \A k \in 0 .. n : f[k] \in Int
  PROVE  SumFunctionOnSet(f, 0 .. n) = SumFunctionOnSet(f, 0 .. n - 1) + f[n]
<1>1. IsFiniteSet(0 .. n - 1)
  BY FS_Interval
<1>2. n \notin 0 .. n - 1 /\ 0 .. n = (0 .. n - 1) \cup {n}
  OBVIOUS
<1>3. SumFunctionOnSet(f, (0 .. n - 1) \cup {n}) = SumFunctionOnSet(f, 0 .. n - 1) + f[n]
  <2>1. \A z \in (0 .. n - 1) \cup {n} : f[z] \in Int
    BY <1>2
  <2> QED BY <1>1, <1>2, <2>1, SumAdd
<1> QED BY <1>2, <1>3, Zenon

LEMMA SumUnion ==
  ASSUME NEW S, IsFiniteSet(S), NEW T, IsFiniteSet(T), S \cap T = {},
         NEW f, \A x \in S \cup T : f[x] \in Int
  PROVE  SumFunctionOnSet(f, S \cup T) = SumFunctionOnSet(f, S) + SumFunctionOnSet(f, T)
<1> DEFINE Fam == {U \in SUBSET T : SumFunctionOnSet(f, S \cup U)
                                       = SumFunctionOnSet(f, S) + SumFunctionOnSet(f, U)}
<1>1. {} \in Fam
  <2>1. SumFunctionOnSet(f, S) \in Int /\ SumFunctionOnSet(f, {}) = 0
    BY SumInt, SumOfNone
  <2>2. S \cup {} = S
    OBVIOUS
  <2>3. SumFunctionOnSet(f, S) = SumFunctionOnSet(f, S) + SumFunctionOnSet(f, {})
    BY <2>1
  <2>4. SumFunctionOnSet(f, S \cup {}) = SumFunctionOnSet(f, S) + SumFunctionOnSet(f, {})
    BY <2>2, <2>3, Zenon
  <2> QED BY <2>4, Zenon
<1>2. ASSUME NEW U \in SUBSET T, NEW x \in T \ U, U \in Fam
      PROVE  U \cup {x} \in Fam
  <2>1. IsFiniteSet(U) /\ IsFiniteSet(S \cup U)
    BY FS_Subset, FS_Union
  <2>2. x \notin S \cup U /\ x \notin U
    OBVIOUS
  <2>3. (S \cup U) \cup {x} = S \cup (U \cup {x})
    OBVIOUS
  <2>4. SumFunctionOnSet(f, (S \cup U) \cup {x}) = SumFunctionOnSet(f, S \cup U) + f[x]
    BY <2>1, <2>2, SumAdd
  <2>5. SumFunctionOnSet(f, U \cup {x}) = SumFunctionOnSet(f, U) + f[x]
    BY <2>1, <2>2, SumAdd
  <2>6. SumFunctionOnSet(f, S \cup U) = SumFunctionOnSet(f, S) + SumFunctionOnSet(f, U)
    BY <1>2
  <2>7. SumFunctionOnSet(f, S) \in Int /\ SumFunctionOnSet(f, U) \in Int /\ f[x] \in Int
    BY <2>1, SumInt
  <2>8. SumFunctionOnSet(f, S \cup (U \cup {x})) = SumFunctionOnSet(f, S \cup U) + f[x]
    BY <2>3, <2>4, Zenon
  <2>9. SumFunctionOnSet(f, S \cup (U \cup {x}))
          = SumFunctionOnSet(f, S) + SumFunctionOnSet(f, U \cup {x})
    BY <2>5, <2>6, <2>7, <2>8
  <2>10. U \cup {x} \in SUBSET T
    OBVIOUS
  <2> QED BY <2>9, <2>10, Zenon
<1> HIDE DEF Fam
<1>3. T \in Fam
  BY <1>1, <1>2, FiniteInduction
<1> QED BY <1>3 DEF Fam

LEMMA SumScale ==
  ASSUME NEW S, IsFiniteSet(S), NEW k \in Int, NEW f, NEW g,
         \A x \in S : f[x] \in Int /\ g[x] = k * f[x]
  PROVE  SumFunctionOnSet(g, S) = k * SumFunctionOnSet(f, S)
<1> DEFINE Fam == {U \in SUBSET S : SumFunctionOnSet(g, U) = k * SumFunctionOnSet(f, U)}
<1>1. {} \in Fam
  <2>1. SumFunctionOnSet(g, {}) = 0 /\ SumFunctionOnSet(f, {}) = 0
    BY SumOfNone
  <2> QED BY <2>1
<1>2. ASSUME NEW U \in SUBSET S, NEW x \in S \ U, U \in Fam
      PROVE  U \cup {x} \in Fam
  <2>1. IsFiniteSet(U)
    BY FS_Subset
  <2>2. \A z \in S : f[z] \in Int /\ g[z] \in Int
    OBVIOUS
  <2>3. /\ SumFunctionOnSet(f, U \cup {x}) = SumFunctionOnSet(f, U) + f[x]
        /\ SumFunctionOnSet(g, U \cup {x}) = SumFunctionOnSet(g, U) + g[x]
    BY <2>1, <2>2, SumAdd
  <2>4. PICK m \in Int : m = SumFunctionOnSet(f, U)
    BY <2>1, <2>2, SumInt
  <2>5. PICK y \in Int : y = f[x] /\ g[x] = k * y
    BY <2>2
  <2>6. SumFunctionOnSet(g, U) = k * m
    BY <1>2, <2>4
  <2>7. k * (m + y) = k * m + k * y
    OBVIOUS
  <2>8. SumFunctionOnSet(g, U \cup {x}) = k * SumFunctionOnSet(f, U \cup {x})
    BY <2>3, <2>4, <2>5, <2>6, <2>7
  <2> QED BY <2>8
<1> HIDE DEF Fam
<1>3. S \in Fam
  BY <1>1, <1>2, FiniteInduction
<1> QED BY <1>3 DEF Fam

(* A product of two sums is the sum of all products.                       *)
LEMMA SumProduct ==
  ASSUME NEW X, IsFiniteSet(X), NEW Y, IsFiniteSet(Y), NEW f, NEW g, NEW F,
         \A x \in X : f[x] \in Int, \A y \in Y : g[y] \in Int,
         \A x \in X, y \in Y : F[<<x, y>>] = f[x] * g[y]
  PROVE  SumFunctionOnSet(F, X \X Y) = SumFunctionOnSet(f, X) * SumFunctionOnSet(g, Y)
<1> DEFINE Fam == {U \in SUBSET X : SumFunctionOnSet(F, U \X Y)
                                       = SumFunctionOnSet(f, U) * SumFunctionOnSet(g, Y)}
<1>0. PICK t \in Int : t = SumFunctionOnSet(g, Y)
  BY SumInt
<1>1. {} \in Fam
  <2>1. SumFunctionOnSet(F, {}) = 0 /\ SumFunctionOnSet(f, {}) = 0
    BY SumOfNone
  <2>2. {} \X Y = {}
    OBVIOUS
  <2>3. SumFunctionOnSet(F, {} \X Y) = 0
    BY <2>1, <2>2, Zenon
  <2>4. SumFunctionOnSet(f, {}) * SumFunctionOnSet(g, Y) = 0
    BY <1>0, <2>1
  <2>5. SumFunctionOnSet(F, {} \X Y) = SumFunctionOnSet(f, {}) * SumFunctionOnSet(g, Y)
    BY <2>3, <2>4, Zenon
  <2> QED BY <2>5, Zenon
<1>2. ASSUME NEW U \in SUBSET X, NEW x \in X \ U, U \in Fam
      PROVE  U \cup {x} \in Fam
  <2> DEFINE row == {x} \X Y
             h == [y \in Y |-> <<x, y>>]
             e == [y \in Y |-> F[<<x, y>>]]
  <2>1. IsFiniteSet(U) /\ IsFiniteSet(U \X Y) /\ IsFiniteSet(row)
    <3>1. IsFiniteSet(U) /\ IsFiniteSet({x})
      BY FS_Subset, FS_Singleton
    <3> QED BY <3>1, FS_Product
  <2>2. \A p \in X \X Y : F[p] \in Int
    <3> SUFFICES ASSUME NEW z \in X, NEW y \in Y PROVE F[<<z, y>>] \in Int
      OBVIOUS
    <3>1. PICK u \in Int, v \in Int : u = f[z] /\ v = g[y]
      OBVIOUS
    <3>2. u * v \in Int
      OBVIOUS
    <3> QED BY <3>1, <3>2
  <2>3. (U \cup {x}) \X Y = (U \X Y) \cup row /\ (U \X Y) \cap row = {}
    OBVIOUS
  <2>4. SumFunctionOnSet(F, (U \X Y) \cup row)
          = SumFunctionOnSet(F, U \X Y) + SumFunctionOnSet(F, row)
    <3>1. \A p \in (U \X Y) \cup row : F[p] \in Int
      BY <2>2
    <3> HIDE DEF row
    <3> QED BY <2>1, <2>3, <3>1, SumUnion
  <2>5. SumFunctionOnSet(e, Y) = SumFunctionOnSet(F, row)
    <3>1. h \in Bijection(Y, row)
      BY DEF Bijection, Injection, Surjection, IsInjective
    <3>2. \A y \in Y : e[y] = F[h[y]]
      OBVIOUS
    <3>3. \A p \in row : F[p] \in Int
      BY <2>2
    <3> HIDE DEF h, e, row
    <3> QED BY <3>1, <3>2, <3>3, SumReindex
  <2>6. SumFunctionOnSet(e, Y) = f[x] * SumFunctionOnSet(g, Y)
    <3>1. \A y \in Y : g[y] \in Int /\ e[y] = f[x] * g[y]
      OBVIOUS
    <3>2. f[x] \in Int
      OBVIOUS
    <3> HIDE DEF e
    <3> QED BY <3>1, <3>2, SumScale
  <2>7. SumFunctionOnSet(f, U \cup {x}) = SumFunctionOnSet(f, U) + f[x]
    BY <2>1, SumAdd
  <2>8. PICK m \in Int : m = SumFunctionOnSet(f, U)
    BY <2>1, SumInt
  <2>9. PICK k \in Int : k = f[x]
    OBVIOUS
  <2>10. SumFunctionOnSet(F, U \X Y) = m * t
    BY <1>0, <1>2, <2>8
  <2>11. SumFunctionOnSet(F, row) = k * t
    <3> HIDE DEF row, e
    <3> QED BY <1>0, <2>5, <2>6, <2>9, Zenon
  <2>12. (m + k) * t = m * t + k * t
    OBVIOUS
  <2> HIDE DEF row, h, e
  <2>13. SumFunctionOnSet(F, (U \cup {x}) \X Y) = m * t + k * t
    BY <2>3, <2>4, <2>10, <2>11, Zenon
  <2>14. SumFunctionOnSet(f, U \cup {x}) * SumFunctionOnSet(g, Y) = (m + k) * t
    BY <1>0, <2>7, <2>8, <2>9, Zenon
  <2>15. SumFunctionOnSet(F, (U \cup {x}) \X Y)
           = SumFunctionOnSet(f, U \cup {x}) * SumFunctionOnSet(g, Y)
    BY <2>12, <2>13, <2>14, Zenon
  <2>16. U \cup {x} \in SUBSET X
    OBVIOUS
  <2> QED BY <2>15, <2>16, Zenon
<1> HIDE DEF Fam
<1>3. X \in Fam
  BY <1>1, <1>2, FiniteInduction
<1> QED BY <1>3 DEF Fam

-----------------------------------------------------------------------------
(* Powers of the base. *)

Doubling(g, n) == g[0] = 1 /\ \A d \in 1 .. n : g[d] = 2 * g[d - 1]

LEMMA DoublingExists ==
  ASSUME NEW n \in Nat
  PROVE  \E g : Doubling(g, n)
<1> DEFINE P == {m \in Nat : \E g : Doubling(g, m)}
<1>1. 0 \in P
  <2>1. Doubling([d \in {0} |-> 1], 0)
    BY DEF Doubling
  <2> QED BY <2>1
<1>2. ASSUME NEW m \in Nat, m \in P PROVE m + 1 \in P
  <2>1. PICK g : Doubling(g, m)
    BY <1>2
  <2> DEFINE h == [d \in 0 .. m + 1 |-> IF d = m + 1 THEN 2 * g[m] ELSE g[d]]
  <2>2. h[0] = 1
    BY <2>1 DEF Doubling
  <2>3. ASSUME NEW d \in 1 .. m + 1 PROVE h[d] = 2 * h[d - 1]
    <3>1. CASE d = m + 1
      BY <3>1
    <3>2. CASE d # m + 1
      <4>1. d \in 1 .. m /\ d \in 0 .. m + 1 /\ d - 1 \in 0 .. m + 1 /\ d - 1 # m + 1
        BY <3>2
      <4>2. g[d] = 2 * g[d - 1]
        BY <2>1, <4>1 DEF Doubling
      <4> QED BY <3>2, <4>1, <4>2
    <3> QED BY <3>1, <3>2
  <2>4. Doubling(h, m + 1)
    <3> HIDE DEF h
    <3> QED BY <2>2, <2>3 DEF Doubling
  <2>5. m + 1 \in Nat
    OBVIOUS
  <2> HIDE DEF h
  <2> QED BY <2>4, <2>5, Zenon
<1> HIDE DEF P
<1>3. n \in P
  BY <1>1, <1>2, SetInduction
<1> QED BY <1>3 DEF P

LEMMA DoublingsAgree ==
  ASSUME NEW n \in Nat, NEW m \in Nat, NEW g, NEW h, Doubling(g, n), Doubling(h, m),
         NEW k \in Nat, k <= n, k <= m
  PROVE  g[k] = h[k]
<1> DEFINE P == {l \in Nat : l <= n /\ l <= m => g[l] = h[l]}
<1>1. 0 \in P
  BY DEF Doubling
<1>2. ASSUME NEW l \in Nat, l \in P PROVE l + 1 \in P
  <2> SUFFICES ASSUME l + 1 <= n, l + 1 <= m PROVE g[l + 1] = h[l + 1]
    OBVIOUS
  <2>1. g[l] = h[l]
    BY <1>2
  <2>2. l + 1 \in 1 .. n /\ l + 1 \in 1 .. m /\ (l + 1) - 1 = l
    OBVIOUS
  <2>3. g[l + 1] = 2 * g[l] /\ h[l + 1] = 2 * h[l]
    BY <2>2 DEF Doubling
  <2> QED BY <2>1, <2>3
<1> HIDE DEF P
<1>3. k \in P
  BY <1>1, <1>2, SetInduction
<1> QED BY <1>3 DEF P

LEMMA PowerRule ==
  /\ Power2[0] = 1
  /\ \A d \in Nat : Power2[d + 1] = 2 * Power2[d]
  /\ \A d \in Nat : Power2[d] \in Nat \ {0}
<1> DEFINE Good(f) == f = [d \in Nat |-> IF d = 0 THEN 1 ELSE 2 * f[d - 1]]
           row == [d \in Nat |-> CHOOSE g : Doubling(g, d)]
           F == [d \in Nat |-> row[d][d]]
<1>1. \A d \in Nat : Doubling(row[d], d)
  BY DoublingExists
<1>2. F[0] = 1
  BY <1>1 DEF Doubling
<1>3. ASSUME NEW d \in Nat, d # 0 PROVE F[d] = 2 * F[d - 1]
  <2>1. Doubling(row[d], d) /\ Doubling(row[d - 1], d - 1) /\ d - 1 \in Nat
    BY <1>1, <1>3
  <2>2. row[d][d] = 2 * row[d][d - 1]
    <3>1. d \in 1 .. d
      BY <1>3
    <3> HIDE DEF row
    <3> QED BY <2>1, <3>1 DEF Doubling
  <2>3. row[d][d - 1] = row[d - 1][d - 1]
    <3> HIDE DEF row
    <3> QED BY <2>1, DoublingsAgree
  <2>4. F[d] = row[d][d] /\ F[d - 1] = row[d - 1][d - 1]
    <3> HIDE DEF row
    <3> QED BY <2>1
  <2> QED BY <2>2, <2>3, <2>4
<1>4. Good(F)
  <2>1. F = [d \in Nat |-> F[d]]
    OBVIOUS
  <2> HIDE DEF F
  <2>2. \A d \in Nat : d # 0 => F[d] = 2 * F[d - 1]
    BY <1>3, Zenon
  <2>3. \A d \in Nat : F[d] = IF d = 0 THEN 1 ELSE 2 * F[d - 1]
    BY <1>2, <2>2
  <2> QED BY <2>1, <2>3
<1>5. Power2 = CHOOSE f : Good(f)
  BY DEF Power2
<1>6. Good(Power2)
  <2> HIDE DEF F, Good
  <2> QED BY <1>4, <1>5, Zenon
<1>7. \A d \in Nat : Power2[d] = IF d = 0 THEN 1 ELSE 2 * Power2[d - 1]
  BY <1>6
<1>8. Power2[0] = 1
  BY <1>7
<1>9. \A d \in Nat : Power2[d + 1] = 2 * Power2[d]
  <2> SUFFICES ASSUME NEW d \in Nat PROVE Power2[d + 1] = 2 * Power2[d]
    OBVIOUS
  <2>1. d + 1 \in Nat /\ d + 1 # 0 /\ (d + 1) - 1 = d
    OBVIOUS
  <2>2. Power2[d + 1] = 2 * Power2[(d + 1) - 1]
    BY <1>7, <2>1
  <2> QED BY <2>1, <2>2
<1> HIDE DEF Good, row, F
<1>10. \A d \in Nat : Power2[d] \in Nat \ {0}
  <2> DEFINE P == {d \in Nat : Power2[d] \in Nat \ {0}}
  <2>1. 0 \in P
    BY <1>8
  <2>2. ASSUME NEW d \in Nat, d \in P PROVE d + 1 \in P
    BY <1>9, <2>2
  <2> HIDE DEF P
  <2>3. Nat \subseteq P
    BY <2>1, <2>2, SetInduction
  <2> QED BY <2>3 DEF P
<1> QED BY <1>8, <1>9, <1>10

LEMMA PowerSum ==
  ASSUME NEW x \in Nat, NEW y \in Nat
  PROVE  Power2[x + y] = Power2[x] * Power2[y]
<1> DEFINE P == {d \in Nat : Power2[x + d] = Power2[x] * Power2[d]}
<1>0. PICK p \in Nat : p = Power2[x]
  BY PowerRule
<1>1. 0 \in P
  BY <1>0, PowerRule
<1>2. ASSUME NEW d \in Nat, d \in P PROVE d + 1 \in P
  <2>1. PICK q \in Nat : q = Power2[d]
    BY PowerRule
  <2>2. Power2[x + d] = p * q
    BY <1>0, <1>2, <2>1
  <2>3. x + d \in Nat /\ x + (d + 1) = (x + d) + 1
    OBVIOUS
  <2>4. Power2[(x + d) + 1] = 2 * Power2[x + d] /\ Power2[d + 1] = 2 * Power2[d]
    BY <2>3, PowerRule
  <2>5. 2 * (p * q) = p * (2 * q)
    OBVIOUS
  <2>6. Power2[x + (d + 1)] = 2 * (p * q)
    BY <2>2, <2>3, <2>4, Zenon
  <2>7. Power2[x] * Power2[d + 1] = p * (2 * q)
    BY <1>0, <2>1, <2>4, Zenon
  <2>8. Power2[x + (d + 1)] = Power2[x] * Power2[d + 1] /\ d + 1 \in Nat
    BY <2>5, <2>6, <2>7
  <2> QED BY <2>8, Zenon
<1> HIDE DEF P
<1>3. y \in P
  BY <1>1, <1>2, SetInduction
<1> QED BY <1>3 DEF P

LEMMA PowerGrows ==
  ASSUME NEW x \in Nat, NEW y \in Nat
  PROVE  /\ x <= y => Power2[x] <= Power2[y]
         /\ Power2[x] < Power2[y] => x < y
         /\ x < y => 2 * Power2[x] <= Power2[y]
<1>1. ASSUME NEW u \in Nat, NEW v \in Nat, u <= v PROVE Power2[u] <= Power2[v]
  <2>1. v - u \in Nat /\ u + (v - u) = v
    BY <1>1
  <2>2. Power2[v] = Power2[u] * Power2[v - u]
    BY <2>1, PowerSum
  <2>3. PICK p \in Nat \ {0}, q \in Nat \ {0} : p = Power2[u] /\ q = Power2[v - u]
    BY <2>1, PowerRule
  <2>4. p * q >= p
    OBVIOUS
  <2> QED BY <2>2, <2>3, <2>4
<1>2. Power2[x] \in Nat /\ Power2[y] \in Nat
  BY PowerRule
<1>3. Power2[x] < Power2[y] => x < y
  BY <1>1, <1>2
<1>4. x < y => 2 * Power2[x] <= Power2[y]
  <2> SUFFICES ASSUME x < y PROVE 2 * Power2[x] <= Power2[y]
    OBVIOUS
  <2>1. Power2[x + 1] = 2 * Power2[x] /\ x + 1 \in Nat /\ x + 1 <= y
    BY PowerRule
  <2>2. Power2[x + 1] <= Power2[y]
    BY <1>1, <2>1
  <2> QED BY <2>1, <2>2
<1> QED BY <1>1, <1>3, <1>4

(* The number of digits of a number.                                       *)
LEMMA DigitsFit ==
  ASSUME NEW m \in Nat
  PROVE  /\ Digits(m) \in Nat \ {0}
         /\ m < Power2[Digits(m)]
         /\ \A d \in Nat \ {0} : m < Power2[d] => Digits(m) <= d
<1> DEFINE Fits(n, d) == Power2[d - 1] <= n /\ n < Power2[d]
           P == {n \in Nat : n # 0 => \E d \in 1 .. n : Fits(n, d)}
<1>1. 0 \in P
  OBVIOUS
<1>2. ASSUME NEW n \in Nat, n \in P PROVE n + 1 \in P
  <2>1. CASE n = 0
    <3>1. Power2[1 - 1] = 1 /\ Power2[1] = 2
      <4>1. Power2[0 + 1] = 2 * Power2[0]
        BY PowerRule
      <4> QED BY <4>1, PowerRule
    <3>2. Fits(1, 1) /\ 1 \in 1 .. 1
      BY <3>1
    <3>3. \E d \in 1 .. 1 : Fits(1, d)
      BY <3>2
    <3> QED BY <2>1, <3>3
  <2>2. CASE n # 0
    <3>1. PICK d \in 1 .. n : Fits(n, d)
      BY <1>2, <2>2
    <3>2. /\ Power2[d] \in Nat /\ Power2[d - 1] \in Nat
          /\ Power2[d + 1] = 2 * Power2[d] /\ Power2[d] \in Nat \ {0}
      BY PowerRule
    <3>3. CASE n + 1 < Power2[d]
      <4>1. Fits(n + 1, d) /\ d \in 1 .. n + 1
        BY <3>1, <3>2, <3>3
      <4>2. \E e \in 1 .. n + 1 : Fits(n + 1, e)
        BY <4>1, Zenon
      <4> QED BY <4>2
    <3>4. CASE ~(n + 1 < Power2[d])
      <4>1. n + 1 = Power2[d]
        BY <3>1, <3>2, <3>4
      <4>2. (d + 1) - 1 = d
        OBVIOUS
      <4>3. Fits(n + 1, d + 1) /\ d + 1 \in 1 .. n + 1
        BY <3>2, <4>1, <4>2
      <4>4. \E e \in 1 .. n + 1 : Fits(n + 1, e)
        BY <4>3, Zenon
      <4> QED BY <4>4
    <3> QED BY <3>3, <3>4
  <2> QED BY <2>1, <2>2
<1> HIDE DEF P
<1>3. m \in P
  BY <1>1, <1>2, SetInduction
<1>4. CASE m = 0
  <2>1. Digits(m) = 1
    BY <1>4 DEF Digits
  <2>2. Power2[0 + 1] = 2 * Power2[0] /\ Power2[0] = 1
    BY PowerRule
  <2> QED BY <1>4, <2>1, <2>2
<1>5. CASE m # 0
  <2>1. \E d \in 1 .. m : Fits(m, d)
    BY <1>3, <1>5 DEF P
  <2>2. Digits(m) = CHOOSE d \in 1 .. m : Fits(m, d)
    BY <1>5 DEF Digits
  <2>3. Digits(m) \in 1 .. m /\ Fits(m, Digits(m))
    <3> HIDE DEF Fits
    <3> QED BY <2>1, <2>2
  <2> SUFFICES ASSUME NEW d \in Nat \ {0}, m < Power2[d] PROVE Digits(m) <= d
    BY <2>3
  <2>4. PICK e \in Nat : e = Digits(m) - 1
    BY <2>3
  <2>5. Power2[e] < Power2[d]
    <3>1. Power2[e] \in Nat /\ Power2[d] \in Nat /\ Power2[e] <= m
      BY <2>3, <2>4, PowerRule
    <3> QED BY <3>1
  <2>6. e < d
    BY <2>5, PowerGrows
  <2> QED BY <2>3, <2>4, <2>6
<1> QED BY <1>4, <1>5

-----------------------------------------------------------------------------
(* Limbs. *)

LEMMA WeightRule ==
  /\ BASE \in Nat /\ BASE >= 2
  /\ Weight(0) = 1
  /\ \A k \in Nat : Weight(k) \in Nat \ {0} /\ Weight(k + 1) = Weight(k) * BASE
<1>0. LimbDigits \in Nat \ {0}
  BY TestDataAssumption
<1>1. BASE \in Nat /\ BASE >= 2
  <2>1. 0 < LimbDigits /\ LimbDigits \in Nat
    BY <1>0
  <2>2. 2 * Power2[0] <= Power2[LimbDigits]
    BY <2>1, PowerGrows
  <2> QED BY <1>0, <2>2, PowerRule DEF BASE
<1>2. Weight(0) = 1
  <2>1. LimbDigits * 0 = 0
    BY <1>0
  <2>2. Power2[LimbDigits * 0] = 1
    BY <2>1, PowerRule, Zenon
  <2> QED BY <2>2, Zenon DEF Weight
<1>3. ASSUME NEW k \in Nat
      PROVE  Weight(k) \in Nat \ {0} /\ Weight(k + 1) = Weight(k) * BASE
  <2>1. PICK d \in Nat : d = LimbDigits * k
    BY <1>0
  <2>2. LimbDigits * (k + 1) = d + LimbDigits
    BY <1>0, <2>1
  <2>3. Power2[d + LimbDigits] = Power2[d] * Power2[LimbDigits]
    BY <1>0, PowerSum
  <2>4. Weight(k) = Power2[d] /\ Weight(k + 1) = Power2[d + LimbDigits]
    BY <2>1, <2>2, Zenon DEF Weight
  <2>5. Power2[d] \in Nat \ {0}
    BY PowerRule
  <2> QED BY <2>3, <2>4, <2>5, Zenon DEF BASE
<1> QED BY <1>1, <1>2, <1>3

LEMMA WeightSum ==
  ASSUME NEW x \in Nat, NEW y \in Nat
  PROVE  Weight(x + y) = Weight(x) * Weight(y)
<1>0. LimbDigits \in Nat \ {0}
  BY TestDataAssumption
<1>1. PICK d \in Nat, e \in Nat : d = LimbDigits * x /\ e = LimbDigits * y
  BY <1>0
<1>2. LimbDigits * (x + y) = d + e
  BY <1>0, <1>1
<1>3. Power2[d + e] = Power2[d] * Power2[e]
  BY PowerSum
<1> QED BY <1>1, <1>2, <1>3, Zenon DEF Weight

LEMMA WeightGrows ==
  ASSUME NEW x \in Nat, NEW y \in Nat, x <= y
  PROVE  Weight(x) <= Weight(y)
<1>0. LimbDigits \in Nat
  BY TestDataAssumption
<1>1. PICK d \in Nat, e \in Nat : d = LimbDigits * x /\ e = LimbDigits * y
  BY <1>0
<1>2. d <= e
  <2>1. y - x \in Nat /\ y = x + (y - x)
    OBVIOUS
  <2>2. LimbDigits * (y - x) \in Nat
    BY <1>0, <2>1
  <2>3. LimbDigits * y = LimbDigits * x + LimbDigits * (y - x)
    BY <1>0
  <2> QED BY <1>1, <2>2, <2>3
<1>3. Power2[d] <= Power2[e]
  BY <1>2, PowerGrows
<1> QED BY <1>1, <1>3, Zenon DEF Weight

LEMMA Division ==
  ASSUME NEW x \in Nat, NEW y \in Nat \ {0}
  PROVE  /\ x \div y \in Nat /\ x % y \in 0 .. y - 1
         /\ x = y * (x \div y) + (x % y)
OBVIOUS

LEMMA Quotient ==
  ASSUME NEW x \in Nat, NEW y \in Nat \ {0}, NEW q \in Nat, NEW r \in 0 .. y - 1,
         x = y * q + r
  PROVE  x \div y = q /\ x % y = r
<1>1. PICK p \in Nat, s \in 0 .. y - 1 : p = x \div y /\ s = x % y /\ x = y * p + s
  BY Division
<1>2. y * (p - q) = r - s
  BY <1>1
<1>3. p = q
  <2>1. CASE p > q
    <3>1. y * (p - q) >= y
      <4>1. p - q - 1 \in Nat
        BY <2>1
      <4>2. y * (p - q - 1) \in Nat
        BY <4>1
      <4>3. y * (p - q) = y + y * (p - q - 1)
        OBVIOUS
      <4> QED BY <4>2, <4>3
    <3> QED BY <1>2, <3>1
  <2>2. CASE q > p
    <3>1. y * (q - p) >= y
      <4>1. q - p - 1 \in Nat
        BY <2>2
      <4>2. y * (q - p - 1) \in Nat
        BY <4>1
      <4>3. y * (q - p) = y + y * (q - p - 1)
        OBVIOUS
      <4> QED BY <4>2, <4>3
    <3>2. y * (q - p) = s - r
      BY <1>1
    <3> QED BY <3>1, <3>2
  <2> QED BY <2>1, <2>2
<1> QED BY <1>1, <1>3

(* Dividing twice.                                                         *)
LEMMA QuotientTwice ==
  ASSUME NEW x \in Nat, NEW y \in Nat \ {0}, NEW z \in Nat \ {0}
  PROVE  x \div (y * z) = (x \div y) \div z
<1>1. PICK p \in Nat, s \in 0 .. y - 1 : p = x \div y /\ x = y * p + s
  BY Division
<1>2. PICK q \in Nat, r \in 0 .. z - 1 : q = p \div z /\ p = z * q + r
  BY Division
<1>3. PICK t \in Nat : t = y * r /\ t <= y * (z - 1)
  <2>1. z - 1 - r \in Nat /\ y * (z - 1 - r) \in Nat
    OBVIOUS
  <2>2. y * (z - 1) = y * r + y * (z - 1 - r)
    OBVIOUS
  <2> QED BY <2>1, <2>2
<1>4. PICK w \in Nat \ {0} : w = y * z
  <2>1. y * (z - 1) \in Nat
    <3>1. z - 1 \in Nat
      OBVIOUS
    <3> QED BY <3>1
  <2>2. y * z = y * (z - 1) + y
    OBVIOUS
  <2>3. y * z \in Nat \ {0}
    BY <2>1, <2>2
  <2> QED BY <2>3
<1>5. y * (z - 1) = w - y
  BY <1>4
<1>6. t + s \in 0 .. w - 1
  BY <1>3, <1>5
<1>7. x = w * q + (t + s)
  <2>1. y * (z * q + r) = (y * z) * q + y * r
    OBVIOUS
  <2>2. y * p = w * q + t
    BY <1>2, <1>3, <1>4, <2>1, Zenon
  <2>3. PICK u \in Nat : u = w * q
    OBVIOUS
  <2> QED BY <1>1, <2>2, <2>3
<1>8. x \div w = q
  BY <1>6, <1>7, Quotient
<1> QED BY <1>1, <1>2, <1>4, <1>8

LEMMA LimbType ==
  ASSUME NEW m \in Nat, NEW k \in Nat
  PROVE  Limb(m, k) \in Nat /\ Limb(m, k) < BASE
<1>1. BASE \in Nat \ {0} /\ Weight(k) \in Nat \ {0}
  BY WeightRule
<1>2. PICK q \in Nat : q = m \div Weight(k)
  BY <1>1, Division
<1>3. q % BASE \in 0 .. BASE - 1
  BY <1>1, Division
<1> QED BY <1>1, <1>2, <1>3 DEF Limb

(* The first k limbs of a number.                                          *)
LEMMA LimbsBelow ==
  ASSUME NEW m \in Nat, NEW F, \A k \in Nat : F[k] = Limb(m, k) * Weight(k), NEW l \in Nat
  PROVE  m = SumFunctionOnSet(F, 0 .. l - 1) + Weight(l) * (m \div Weight(l))
<1> DEFINE P == {k \in Nat : m = SumFunctionOnSet(F, 0 .. k - 1) + Weight(k) * (m \div Weight(k))}
<1>0. \A k \in Nat : F[k] \in Int
  <2> SUFFICES ASSUME NEW k \in Nat PROVE F[k] \in Int
    OBVIOUS
  <2>1. PICK u \in Nat, v \in Nat : u = Limb(m, k) /\ v = Weight(k)
    BY LimbType, WeightRule
  <2>2. u * v \in Int /\ F[k] = u * v
    BY <2>1
  <2> QED BY <2>2
<1>1. 0 \in P
  <2>1. 0 .. 0 - 1 = {}
    OBVIOUS
  <2>2. SumFunctionOnSet(F, 0 .. 0 - 1) = 0
    BY <2>1, SumOfNone, Zenon
  <2>3. m \div 1 = m
    <3>1. m = 1 * m + 0 /\ 0 \in 0 .. 1 - 1 /\ 1 \in Nat \ {0}
      OBVIOUS
    <3> QED BY <3>1, Quotient
  <2>4. m = 0 + 1 * (m \div 1)
    BY <2>3
  <2>5. m = SumFunctionOnSet(F, 0 .. 0 - 1) + Weight(0) * (m \div Weight(0))
    BY <2>2, <2>4, WeightRule, Zenon
  <2> QED BY <2>5
<1>2. ASSUME NEW k \in Nat, k \in P PROVE k + 1 \in P
  <2>1. PICK w \in Nat \ {0}, c0 \in Nat \ {0} :
          w = Weight(k) /\ c0 = BASE /\ Weight(k + 1) = w * c0
    BY WeightRule
  <2>2. PICK q \in Nat : q = m \div w
    BY Division
  <2>3. PICK p \in Nat, r \in Nat : p = q \div c0 /\ r = q % c0 /\ q = c0 * p + r
    <3>1. q \div c0 \in Nat /\ q % c0 \in 0 .. c0 - 1 /\ q = c0 * (q \div c0) + (q % c0)
      BY Division
    <3>2. q % c0 \in Nat
      BY <3>1
    <3> QED BY <3>1, <3>2, Zenon
  <2>4. F[k] = r * w
    BY <2>1, <2>2, <2>3 DEF Limb
  <2>5. m \div (w * c0) = p
    BY <2>2, <2>3, QuotientTwice
  <2>6. SumFunctionOnSet(F, 0 .. k) = SumFunctionOnSet(F, 0 .. k - 1) + F[k]
    BY <1>0, SumNext
  <2>7. PICK t \in Int : t = SumFunctionOnSet(F, 0 .. k - 1)
    <3>1. IsFiniteSet(0 .. k - 1) /\ \A z \in 0 .. k - 1 : F[z] \in Int
      BY <1>0, FS_Interval
    <3> QED BY <3>1, SumInt
  <2>8. m = t + w * q
    BY <1>2, <2>1, <2>2, <2>7
  <2>9. w * (c0 * p + r) = (w * c0) * p + r * w
    OBVIOUS
  <2>10. m = (t + r * w) + (w * c0) * p
    <3>1. PICK u \in Int, v \in Int : u = (w * c0) * p /\ v = r * w
      OBVIOUS
    <3> QED BY <2>3, <2>8, <2>9, <3>1
  <2>11. SumFunctionOnSet(F, 0 .. k) = t + r * w
    BY <2>4, <2>6, <2>7, Zenon
  <2>12. (k + 1) - 1 = k /\ k + 1 \in Nat
    OBVIOUS
  <2>13. m = SumFunctionOnSet(F, 0 .. (k + 1) - 1) + Weight(k + 1) * (m \div Weight(k + 1))
    BY <2>1, <2>5, <2>10, <2>11, <2>12, Zenon
  <2> QED BY <2>12, <2>13, Zenon
<1> HIDE DEF P
<1>3. l \in P
  BY <1>1, <1>2, SetInduction
<1> QED BY <1>3 DEF P

(* A number is the value of its limbs.                                     *)
LEMMA LimbsValue ==
  ASSUME NEW m \in Nat, NEW l \in Nat, m < Weight(l), NEW F,
         \A k \in 0 .. l - 1 : F[k] = Limb(m, k) * Weight(k)
  PROVE  SumFunctionOnSet(F, 0 .. l - 1) = m
<1> DEFINE G == [k \in Nat |-> Limb(m, k) * Weight(k)]
<1>1. \A k \in Nat : G[k] = Limb(m, k) * Weight(k) /\ G[k] \in Int
  <2> SUFFICES ASSUME NEW k \in Nat PROVE G[k] \in Int
    OBVIOUS
  <2>1. PICK u \in Nat, v \in Nat : u = Limb(m, k) /\ v = Weight(k)
    BY LimbType, WeightRule
  <2>2. u * v \in Int /\ G[k] = u * v
    BY <2>1
  <2> QED BY <2>2
<1> HIDE DEF G
<1>2. m = SumFunctionOnSet(G, 0 .. l - 1) + Weight(l) * (m \div Weight(l))
  BY <1>1, LimbsBelow
<1>3. m \div Weight(l) = 0
  <2>1. PICK w \in Nat \ {0} : w = Weight(l)
    BY WeightRule
  <2>2. m = w * 0 + m /\ m \in 0 .. w - 1
    BY <2>1
  <2>3. m \div w = 0
    BY <2>2, Quotient
  <2> QED BY <2>1, <2>3
<1>4. IsFiniteSet(0 .. l - 1)
  BY FS_Interval
<1>5. SumFunctionOnSet(F, 0 .. l - 1) = SumFunctionOnSet(G, 0 .. l - 1)
  <2>1. \A k \in 0 .. l - 1 : F[k] = G[k] /\ G[k] \in Int
    BY <1>1
  <2> QED BY <1>4, <2>1, SumEqual
<1>6. SumFunctionOnSet(G, 0 .. l - 1) \in Int
  BY <1>1, <1>4, SumInt
<1>7. Weight(l) \in Nat
  BY WeightRule
<1> QED BY <1>2, <1>3, <1>5, <1>6, <1>7

LEMMA CeilRule ==
  ASSUME NEW x \in Nat \ {0}, NEW y \in Nat \ {0}
  PROVE  /\ Ceil(x, y) \in Nat \ {0}
         /\ x <= y * Ceil(x, y)
         /\ \A p \in Nat : x <= y * p => Ceil(x, y) <= p
<1>1. PICK q \in Nat, r \in 0 .. y - 1 : q = Ceil(x, y) /\ x + y - 1 = y * q + r
  <2>1. x + y - 1 \in Nat
    OBVIOUS
  <2> QED BY <2>1, Division DEF Ceil
<1>2. x <= y * q
  BY <1>1
<1>3. q # 0
  BY <1>2
<1>4. ASSUME NEW p \in Nat, x <= y * p PROVE q <= p
  <2> SUFFICES ASSUME q >= p + 1 PROVE FALSE
    OBVIOUS
  <2>1. y * (q - (p + 1)) \in Nat
    <3>1. q - (p + 1) \in Nat
      OBVIOUS
    <3> QED BY <3>1
  <2>2. y * q = y * p + y + y * (q - (p + 1))
    OBVIOUS
  <2> QED BY <1>1, <1>4, <2>1, <2>2
<1> QED BY <1>1, <1>2, <1>3, <1>4

(* The limbs of a number without leading zeros.                            *)
LEMMA LengthFits ==
  ASSUME NEW m \in Nat
  PROVE  /\ Length_c(m) \in Nat \ {0}
         /\ m < Weight(Length_c(m))
         /\ \A p \in Nat \ {0} : m < Weight(p) => Length_c(m) <= p
<1>0. LimbDigits \in Nat \ {0}
  BY TestDataAssumption
<1>1. PICK d \in Nat \ {0} : d = Digits(m) /\ m < Power2[d]
  BY DigitsFit
<1>2. PICK l \in Nat \ {0} : l = Length_c(m) /\ d <= LimbDigits * l
  BY <1>0, <1>1, CeilRule DEF Length_c
<1>3. m < Weight(l)
  <2>1. PICK e \in Nat : e = LimbDigits * l
    BY <1>0
  <2>2. Power2[d] <= Power2[e] /\ Power2[d] \in Nat /\ Power2[e] \in Nat
    BY <1>2, <2>1, PowerGrows, PowerRule
  <2> QED BY <1>1, <2>1, <2>2 DEF Weight
<1>4. ASSUME NEW p \in Nat \ {0}, m < Weight(p) PROVE l <= p
  <2>1. PICK e \in Nat \ {0} : e = LimbDigits * p
    BY <1>0
  <2>2. d <= e
    BY <1>1, <1>4, <2>1, DigitsFit DEF Weight
  <2> QED BY <1>0, <1>1, <1>2, <2>1, <2>2, CeilRule DEF Length_c
<1> QED BY <1>2, <1>3, <1>4

-----------------------------------------------------------------------------
(* Arrays of the bench. *)

LEMMA CellsEnough ==
  ASSUME NEW p \in Limbs, NEW q \in Limbs
  PROVE  /\ p \in Nat \ {0} /\ q \in Nat \ {0}
         /\ p * q \in Nat \ {0} /\ p * q \in Cells
         /\ p + q \in Cells /\ Longer(p, q) + 1 \in Cells
<1>1. /\ p \in Nat \ {0} /\ q \in Nat \ {0} /\ MAX_PREC \in Nat
      /\ p <= MAX_PREC /\ q <= MAX_PREC
  BY TestDataAssumption
<1>2. PICK n \in Nat : n = p * q
  BY <1>1
<1>3. PICK m \in Nat : m = MAX_PREC * MAX_PREC
  BY <1>1
<1>4. n <= m
  <2>1. p * q <= p * MAX_PREC
    BY <1>1, ProductMonotone
  <2>2. p * MAX_PREC <= MAX_PREC * MAX_PREC
    BY <1>1, ProductMonotone
  <2>3. p * MAX_PREC \in Nat
    BY <1>1
  <2> QED BY <1>2, <1>3, <2>1, <2>2, <2>3
<1>5. p + q <= n + 1
  <2>1. (p - 1) * (q - 1) \in Nat
    <3>1. p - 1 \in Nat /\ q - 1 \in Nat
      BY <1>1
    <3> QED BY <3>1
  <2>2. (p - 1) * (q - 1) = n - p - q + 1
    BY <1>1, <1>2
  <2> QED BY <1>1, <2>1, <2>2
<1>6. MAX_PREC <= m
  <2>1. 1 <= MAX_PREC
    BY <1>1
  <2>2. MAX_PREC * 1 <= MAX_PREC * MAX_PREC
    BY <1>1, <2>1, ProductMonotone
  <2> QED BY <1>1, <1>3, <2>2
<1>7. Cells = 0 .. m + 1
  BY <1>3 DEF Cells
<1>8. n # 0
  BY <1>1, <1>5
<1>9. Longer(p, q) \in Nat /\ Longer(p, q) <= MAX_PREC
  BY <1>1 DEF Longer
<1> QED BY <1>1, <1>2, <1>4, <1>5, <1>6, <1>7, <1>8, <1>9

LEMMA CellsBelow ==
  ASSUME NEW l \in Cells
  PROVE  l \in Nat /\ 0 .. l - 1 \subseteq Cells
BY TestDataAssumption DEF Cells

(* Where the bench stops reading is where the mark was set.                *)
LEMMA MarkFound ==
  ASSUME NEW n \in Nat \ {0}, n - 1 \in Cells, NEW array
  PROVE  LastMark(Marked(n, array)) = n - 1
<1> DEFINE new == Marked(n, array)
<1>1. 0 .. n - 1 \subseteq Cells
  BY TestDataAssumption DEF Cells
<1>2. new[n - 1] = 1 /\ \A k \in 0 .. n - 2 : new[k] = 0
  BY <1>1 DEF Marked
<1> HIDE DEF new
<1>3. \A k \in Cells : new[k] = 1 /\ (\A m \in 0 .. k - 1 : new[m] = 0) => k = n - 1
  <2> SUFFICES ASSUME NEW k \in Cells, new[k] = 1, \A m \in 0 .. k - 1 : new[m] = 0
               PROVE  k = n - 1
    OBVIOUS
  <2>1. k \in Nat
    BY TestDataAssumption DEF Cells
  <2>2. ~(k < n - 1)
    BY <1>2, <2>1
  <2>3. ~(n - 1 < k)
    BY <1>2, <2>1
  <2> QED BY <2>1, <2>2, <2>3
<1>4. \A m \in 0 .. (n - 1) - 1 : new[m] = 0
  BY <1>2
<1>5. \E k \in Cells : new[k] = 1 /\ \A m \in 0 .. k - 1 : new[m] = 0
  BY <1>2, <1>4, Zenon
<1>6. LastMark(new) = n - 1
  BY <1>3, <1>5, Zenon DEF LastMark
<1> QED BY <1>6 DEF new

(* An array that holds the limbs of a number is worth that number.         *)
LEMMA ArrayValue ==
  ASSUME NEW m \in Nat, NEW l \in Nat, m < Weight(l), NEW array,
         \A k \in 0 .. l - 1 : array[k] = Limb(m, k)
  PROVE  Value(array, l) = m
<1> DEFINE F == [k \in 0 .. l - 1 |-> array[k] * Weight(k)]
<1>1. \A k \in 0 .. l - 1 : F[k] = Limb(m, k) * Weight(k)
  OBVIOUS
<1>2. DOMAIN F = 0 .. l - 1
  OBVIOUS
<1>3. Value(array, l) = SumFunctionOnSet(F, DOMAIN F)
  BY Zenon DEF Value, SumFunction
<1> HIDE DEF F
<1>4. SumFunctionOnSet(F, 0 .. l - 1) = m
  BY <1>1, LimbsValue
<1> QED BY <1>2, <1>3, <1>4

(* The same with one more cell on top of the limbs.                        *)
LEMMA ArrayValueOnTop ==
  ASSUME NEW m \in Nat, NEW l \in Nat, m < Weight(l), NEW array,
         \A k \in 0 .. l - 1 : array[k] = Limb(m, k), NEW top \in Nat, array[l] = top
  PROVE  Value(array, l + 1) = m + top * Weight(l)
<1> DEFINE F == [k \in 0 .. (l + 1) - 1 |-> array[k] * Weight(k)]
<1>0. (l + 1) - 1 = l
  OBVIOUS
<1>1. /\ \A k \in 0 .. l - 1 : F[k] = Limb(m, k) * Weight(k)
      /\ F[l] = top * Weight(l)
  OBVIOUS
<1>2. DOMAIN F = 0 .. l
  BY <1>0
<1>3. Value(array, l + 1) = SumFunctionOnSet(F, DOMAIN F)
  BY Zenon DEF Value, SumFunction
<1> HIDE DEF F
<1>4. SumFunctionOnSet(F, 0 .. l - 1) = m
  BY <1>1, LimbsValue
<1>5. \A k \in 0 .. l : F[k] \in Int
  <2> SUFFICES ASSUME NEW k \in 0 .. l PROVE F[k] \in Int
    OBVIOUS
  <2>1. k \in Nat /\ (k \in 0 .. l - 1 \/ k = l)
    OBVIOUS
  <2>2. PICK u \in Nat, v \in Nat : u = Limb(m, k) /\ v = Weight(k)
    BY <2>1, LimbType, WeightRule
  <2>3. F[k] = u * v \/ F[k] = top * v
    BY <1>1, <2>1, <2>2, Zenon
  <2> QED BY <2>3
<1>6. SumFunctionOnSet(F, 0 .. l) = SumFunctionOnSet(F, 0 .. l - 1) + F[l]
  BY <1>5, SumNext
<1> QED BY <1>1, <1>2, <1>3, <1>4, <1>6, Zenon

LEMMA LimbAbove ==
  ASSUME NEW m \in Nat, NEW k \in Nat, m < Weight(k)
  PROVE  Limb(m, k) = 0
<1>1. PICK w \in Nat \ {0} : w = Weight(k)
  BY WeightRule
<1>2. m = w * 0 + m /\ m \in 0 .. w - 1
  BY <1>1
<1>3. m \div w = 0
  BY <1>2, Quotient
<1>4. PICK r \in Nat \ {0} : r = BASE
  BY WeightRule
<1>5. 0 = r * 0 + 0 /\ 0 \in 0 .. r - 1
  OBVIOUS
<1>6. 0 % r = 0
  BY <1>5, Quotient
<1> QED BY <1>1, <1>3, <1>4, <1>6 DEF Limb

LEMMA Converted ==
  ASSUME NEW m, NEW digits, NEW prec, NEW array, NEW n \in Nat, NEW l \in Nat,
         n = Longer(prec, Ceil(digits, LimbDigits)), l <= n, l \in Cells
  PROVE  \A k \in 0 .. l - 1 : Convert(m, digits, prec, array)[k] = Limb(m, k)
BY CellsBelow DEF Convert

(* What a number in the array shows that has as many limbs as it takes.    *)
LEMMA NumberShown ==
  ASSUME NEW m \in Nat, NEW array, Length_c(m) \in Cells
  PROVE  /\ Length_c(m) \in Nat \ {0}
         /\ \A k \in 0 .. Length_c(m) - 1 :
              Convert(m, Digits(m), Length_c(m), array)[k] = Limb(m, k)
         /\ Value(Convert(m, Digits(m), Length_c(m), array), Length_c(m)) = m
<1>1. PICK l \in Nat \ {0} : l = Length_c(m) /\ m < Weight(l)
  BY LengthFits
<1>2. l = Longer(l, Ceil(Digits(m), LimbDigits))
  BY <1>1 DEF Length_c, Longer
<1>3. \A k \in 0 .. l - 1 : Convert(m, Digits(m), l, array)[k] = Limb(m, k)
  BY <1>1, <1>2, Converted
<1>4. Value(Convert(m, Digits(m), l, array), l) = m
  BY <1>1, <1>3, ArrayValue
<1> QED BY <1>1, <1>3, <1>4

(* The sum of two numbers has at most one limb more than they.             *)
LEMMA SumFits ==
  ASSUME NEW p \in Limbs, NEW q \in Limbs, NEW x \in Nat, NEW y \in Nat,
         x < Weight(p), y < Weight(q)
  PROVE  Length_c(x + y) \in Cells
<1>1. p \in Nat \ {0} /\ q \in Nat \ {0} /\ Longer(p, q) + 1 \in Cells
  BY CellsEnough
<1>2. PICK n \in Nat \ {0} : n = Longer(p, q) /\ p <= n /\ q <= n
  BY <1>1 DEF Longer
<1>3. PICK w \in Nat \ {0}, r \in Nat \ {0} :
        w = Weight(n) /\ r = BASE /\ r >= 2 /\ Weight(n + 1) = w * r
  BY WeightRule
<1>4. Weight(p) <= w /\ Weight(q) <= w /\ Weight(p) \in Nat /\ Weight(q) \in Nat
  BY <1>1, <1>2, <1>3, WeightGrows, WeightRule
<1>5. w * 2 <= w * r
  BY <1>3, ProductMonotone
<1>6. x + y < Weight(n + 1)
  <2>1. w * r \in Nat
    OBVIOUS
  <2> QED BY <1>3, <1>4, <1>5, <2>1
<1>7. Length_c(x + y) \in Nat /\ Length_c(x + y) <= n + 1
  <2>1. x + y \in Nat /\ n + 1 \in Nat \ {0}
    OBVIOUS
  <2> QED BY <1>6, <2>1, LengthFits
<1> QED BY <1>1, <1>2, <1>7, TestDataAssumption DEF Cells

(* The operands of a call.                                                 *)
LEMMA DrawnNumbers ==
  ASSUME NEW p \in Nat, NEW n \in Drawn(p)
  PROVE  n \in Nat /\ n < Weight(p)
BY TestDataAssumption DEF Drawn

LEMMA AdditionResult ==
  ASSUME Addition
  PROVE  call' = "add" /\ ResultBelowPrec'
<1>1. /\ call' = "add" /\ a_prec' \in Limbs /\ b_prec' \in Limbs
      /\ num_a' \in Drawn(a_prec') /\ num_b' \in Drawn(b_prec')
  BY DEF Addition, Draw
<1>2. PICK x \in Nat, y \in Nat :
        x = num_a' /\ y = num_b' /\ x < Weight(a_prec') /\ y < Weight(b_prec')
  BY <1>1, CellsEnough, DrawnNumbers
<1>3. PICK sum \in Nat : sum = x + y
  OBVIOUS
<1>4. /\ c' = Convert(sum, Digits(sum), Length_c(sum), c)
      /\ c_prec' = Length_c(sum)
  BY <1>2, <1>3 DEF Addition
<1>5. Length_c(sum) \in Cells
  BY <1>1, <1>2, <1>3, SumFits
<1>6. Value(c', c_prec') = sum
  BY <1>4, <1>5, NumberShown
<1> QED BY <1>1, <1>2, <1>3, <1>6 DEF ResultBelowPrec, Value

LEMMA Extended ==
  ASSUME NEW d \in Nat, NEW n \in Nat, d < Weight(n), n \in Cells, Length_c(d) \in Cells,
         NEW array
  PROVE  Value(Extend(d, FALSE, n, array), n + 1) = d
<1> DEFINE new == Extend(d, FALSE, n, array)
<1>1. PICK l \in Nat \ {0} : l = Length_c(d) /\ d < Weight(l)
  BY LengthFits
<1>2. ASSUME NEW k \in 0 .. (n + 1) - 1 PROVE new[k] = Limb(d, k)
  <2>1. k \in Nat /\ k \in Cells /\ k <= n
    BY CellsBelow
  <2>2. CASE k >= l
    <3>1. new[k] = 0
      BY <1>1, <2>1, <2>2 DEF Extend
    <3>2. d < Weight(k)
      <4>1. Weight(l) <= Weight(k) /\ Weight(l) \in Nat /\ Weight(k) \in Nat
        BY <2>1, <2>2, WeightGrows, WeightRule
      <4> QED BY <1>1, <4>1
    <3> QED BY <2>1, <3>1, <3>2, LimbAbove
  <2>3. CASE k < l
    <3>1. new[k] = Convert(d, Digits(d), l, array)[k]
      BY <1>1, <2>1, <2>3 DEF Extend
    <3>2. k \in 0 .. l - 1
      BY <2>1, <2>3
    <3> QED BY <1>1, <3>1, <3>2, NumberShown
  <2>4. k >= l \/ k < l
    BY <2>1
  <2> QED BY <2>2, <2>3, <2>4, Zenon
<1>3. d < Weight(n + 1) /\ n + 1 \in Nat
  <2>1. Weight(n) <= Weight(n + 1) /\ Weight(n) \in Nat /\ Weight(n + 1) \in Nat
    BY WeightGrows, WeightRule
  <2> QED BY <2>1
<1> HIDE DEF new
<1>4. Value(new, n + 1) = d
  BY <1>2, <1>3, ArrayValue
<1> QED BY <1>4 DEF new

LEMMA ExtendedNegative ==
  ASSUME NEW d \in Nat, NEW n \in Nat, Length_c(d) = n, n \in Cells, NEW array
  PROVE  Value(Extend(d, TRUE, n, array), n + 1) = d + (BASE - 1) * Weight(n)
<1> DEFINE new == Extend(d, TRUE, n, array)
<1>1. d < Weight(n)
  BY LengthFits
<1>2. ASSUME NEW k \in 0 .. n - 1 PROVE new[k] = Limb(d, k)
  <2>1. k \in Cells /\ k \notin n .. n
    BY CellsBelow
  <2>2. new[k] = Convert(d, Digits(d), n, array)[k]
    BY <2>1 DEF Extend
  <2> QED BY <2>2, NumberShown
<1>3. new[n] = BASE - 1
  BY DEF Extend
<1>4. BASE - 1 \in Nat
  BY WeightRule
<1> HIDE DEF new
<1>5. Value(new, n + 1) = d + (BASE - 1) * Weight(n)
  BY <1>1, <1>2, <1>3, <1>4, ArrayValueOnTop
<1> QED BY <1>5 DEF new

(* The two results of a subtraction x - y, x < y, as the bench reads them. *)
BelowZero(x, y, n, array) == Value(Extend(Difference(x, y, n), TRUE, n, array), n + 1)
AboveZero(y, x, n, array) == Value(Extend(Difference(y, x, n), FALSE, n, array), n + 1)

(* A difference and its opposite, on n limbs.                              *)
LEMMA Opposites ==
  ASSUME NEW x \in Nat, NEW y \in Nat, NEW n \in Nat \ {0}, x < y, y < Weight(n),
         n \in Cells, Length_c(Difference(x, y, n)) = n
  PROVE  \A array, other :
           /\ (BelowZero(x, y, n, array) + AboveZero(y, x, n, other)) % Weight(n + 1) = 0
           /\ (AboveZero(y, x, n, other) + BelowZero(x, y, n, array)) % Weight(n + 1) = 0
<1> TAKE array, other
<1>1. PICK w \in Nat \ {0}, r \in Nat \ {0} : w = Weight(n) /\ r = BASE /\ Weight(n + 1) = w * r
  BY WeightRule
<1>2. PICK d \in Nat : d = y - x
  OBVIOUS
<1>3. Difference(y, x, n) = d /\ Difference(x, y, n) = w - d
  BY <1>1, <1>2 DEF Difference
<1>4. w - d \in Nat /\ d < w
  BY <1>1, <1>2
<1>5. Value(Extend(w - d, TRUE, n, array), n + 1) = (w - d) + (r - 1) * w
  <2>1. PICK e \in Nat : e = w - d
    BY <1>4
  <2>2. Length_c(e) = n
    BY <1>3, <2>1
  <2>3. Value(Extend(e, TRUE, n, array), n + 1) = e + (BASE - 1) * Weight(n)
    BY <2>2, ExtendedNegative
  <2> QED BY <1>1, <2>1, <2>3
<1>6. Length_c(d) \in Cells
  <2>1. Length_c(d) \in Nat /\ Length_c(d) <= n
    BY <1>1, <1>4, LengthFits
  <2> QED BY <2>1, TestDataAssumption DEF Cells
<1>7. Value(Extend(d, FALSE, n, other), n + 1) = d
  BY <1>1, <1>4, <1>6, Extended
<1>8. /\ ((w - d) + (r - 1) * w) + d = w * r
      /\ d + ((w - d) + (r - 1) * w) = w * r
  <2>1. (r - 1) * w = w * r - w
    OBVIOUS
  <2> QED BY <2>1
<1>9. (w * r) % (w * r) = 0
  <2>1. PICK z \in Nat \ {0} : z = w * r
    BY <1>1, WeightRule
  <2>2. z = z * 1 + 0 /\ 0 \in 0 .. z - 1
    BY <2>1
  <2>3. z % z = 0
    BY <2>2, Quotient
  <2> QED BY <2>1, <2>3
<1>10. /\ BelowZero(x, y, n, array) = (w - d) + (r - 1) * w
       /\ AboveZero(y, x, n, other) = d
  BY <1>3, <1>5, <1>7, Zenon DEF BelowZero, AboveZero
<1> QED BY <1>1, <1>8, <1>9, <1>10, Zenon

LEMMA SubtractionResult ==
  ASSUME Subtraction
  PROVE  call' = "subtract" /\ DifferencesOpposite'
<1>1. /\ call' = "subtract" /\ a_prec' \in Limbs /\ b_prec' \in Limbs
      /\ num_a' \in Drawn(a_prec') /\ num_b' \in Drawn(b_prec')
  BY DEF Subtraction, Draw
<1>2. PICK n : n = Longer(a_prec', b_prec')
  OBVIOUS
<1>3. /\ c' = Extend(Difference(num_a', num_b', n), num_a' < num_b', n, c)
      /\ c_ext' = Extend(Difference(num_b', num_a', n), num_b' < num_a', n, c_ext)
      /\ c_last' = Marked(n + 1, c_last)
  BY <1>2 DEF Subtraction
<1>4. PICK x \in Nat, y \in Nat :
        x = num_a' /\ y = num_b' /\ x < Weight(a_prec') /\ y < Weight(b_prec')
  BY <1>1, CellsEnough, DrawnNumbers
<1>5. n \in Nat \ {0} /\ n \in Cells /\ x < Weight(n) /\ y < Weight(n)
  <2>1. /\ a_prec' \in Nat \ {0} /\ b_prec' \in Nat \ {0} /\ n + 1 \in Cells
    BY <1>1, <1>2, CellsEnough
  <2>2. n \in Nat \ {0} /\ a_prec' <= n /\ b_prec' <= n
    BY <1>2, <2>1 DEF Longer
  <2>3. /\ Weight(a_prec') <= Weight(n) /\ Weight(b_prec') <= Weight(n)
        /\ Weight(a_prec') \in Nat /\ Weight(b_prec') \in Nat /\ Weight(n) \in Nat
    BY <2>1, <2>2, WeightGrows, WeightRule
  <2> QED BY <1>4, <2>1, <2>2, <2>3, TestDataAssumption DEF Cells
<1>6. LastMark(c_last') + 1 = n + 1
  <2>1. n + 1 \in Nat \ {0} /\ (n + 1) - 1 = n
    BY <1>5
  <2> QED BY <1>3, <1>5, <2>1, MarkFound
<1> DEFINE Sum == Value(c', n + 1) + Value(c_ext', n + 1)
<1>7. ASSUME x < y, Length_c(Difference(x, y, n)) = n
      PROVE  Sum % Weight(n + 1) = 0
  <2>1. (num_a' < num_b') = TRUE /\ (num_b' < num_a') = FALSE
    BY <1>4, <1>7
  <2>2. /\ Value(c', n + 1) = BelowZero(x, y, n, c)
        /\ Value(c_ext', n + 1) = AboveZero(y, x, n, c_ext)
    BY <1>3, <1>4, <2>1 DEF BelowZero, AboveZero
  <2> QED BY <1>5, <1>7, <2>2, Opposites
<1>8. ASSUME y < x, Length_c(Difference(y, x, n)) = n
      PROVE  Sum % Weight(n + 1) = 0
  <2>1. (num_a' < num_b') = FALSE /\ (num_b' < num_a') = TRUE
    BY <1>4, <1>8
  <2>2. /\ Value(c_ext', n + 1) = BelowZero(y, x, n, c_ext)
        /\ Value(c', n + 1) = AboveZero(x, y, n, c)
    BY <1>3, <1>4, <2>1 DEF BelowZero, AboveZero
  <2> QED BY <1>5, <1>8, <2>2, Opposites
<1>9. ASSUME x = y PROVE Sum % Weight(n + 1) = 0
  <2>1. (num_a' < num_b') = FALSE /\ (num_b' < num_a') = FALSE
    BY <1>4, <1>9
  <2>2. Difference(x, y, n) = 0 /\ Difference(y, x, n) = 0
    BY <1>9 DEF Difference
  <2>3. c' = Extend(0, FALSE, n, c) /\ c_ext' = Extend(0, FALSE, n, c_ext)
    BY <1>3, <1>4, <2>1, <2>2
  <2>4. 0 < Weight(n) /\ Weight(n) \in Nat /\ Weight(n + 1) \in Nat \ {0}
    BY <1>5, WeightRule
  <2>5. Length_c(0) \in Cells
    <3>1. Length_c(0) \in Nat /\ Length_c(0) <= n
      BY <1>5, <2>4, LengthFits
    <3> QED BY <1>5, <3>1, TestDataAssumption DEF Cells
  <2>6. Value(c', n + 1) = 0 /\ Value(c_ext', n + 1) = 0
    BY <1>5, <2>3, <2>4, <2>5, Extended
  <2>7. PICK z \in Nat \ {0} : z = Weight(n + 1)
    BY <2>4
  <2>8. 0 = z * 0 + 0 /\ 0 \in 0 .. z - 1
    BY <2>7
  <2>9. 0 % z = 0
    BY <2>8, Quotient
  <2> QED BY <2>6, <2>7, <2>9
<1>10. ASSUME Length_c(Difference(IF x < y THEN x ELSE y, IF x < y THEN y ELSE x, n)) = n
       PROVE  Sum % Weight(n + 1) = 0
  <2>1. CASE x < y
    BY <1>7, <1>10, <2>1
  <2>2. CASE y < x
    <3>1. ~(x < y)
      BY <2>2
    <3> QED BY <1>8, <1>10, <2>2, <3>1
  <2>3. CASE x = y
    BY <1>9, <2>3
  <2>4. x < y \/ y < x \/ x = y
    OBVIOUS
  <2> QED BY <2>1, <2>2, <2>3, <2>4, Zenon
<1> HIDE DEF Sum
<1>11. Sum = Value(c', LastMark(c_last') + 1) + Value(c_ext', LastMark(c_last') + 1)
  BY <1>6 DEF Sum
<1>12. DifferencesOpposite'
  BY <1>2, <1>4, <1>10, <1>11, Zenon DEF DifferencesOpposite
<1> QED BY <1>1, <1>12

-----------------------------------------------------------------------------
(* The stream of a finished order. *)

(* What is known of a finished order.                                      *)
Finished ==
  /\ Positive /\ counter = A_size * B_size
  /\ IndicesExist /\ NoneTwice
  /\ \A x \in RangeA, y \in RangeB : \E k \in 1 .. counter : Aind[k] = x /\ Bind[k] = y
  /\ ColumnByColumn /\ FirstPair
  /\ \A s \in 0 .. counter - 1 :
       cycle[s] = 1 <=> s = 0 \/ Aind[s + 1] + Bind[s + 1] > Aind[s] + Bind[s]

LEMMA OrderFinished ==
  ASSUME IInv, SignalsOK, phase = "ordered", Positive
  PROVE  Finished
<1>1. /\ IndicesExist /\ NoneTwice /\ ColumnByColumn /\ FirstPair
      /\ \A x \in RangeA, y \in RangeB : \E k \in 1 .. counter : Aind[k] = x /\ Bind[k] = y
  BY DEF IInv, Visited, BeforeWritten, SignalsOK, Loops
<1>2. \A s \in 0 .. counter - 1 :
        cycle[s] = 1 <=> s = 0 \/ Aind[s + 1] + Bind[s + 1] > Aind[s] + Bind[s]
  BY DEF SignalsOK, SignalsReplayStarts
<1>3. counter \in Nat
  BY DEF IInv, ScheduleTypeOK, Entry, Positive
<1>4. counter = A_size * B_size
  <2> DEFINE h == [k \in 1 .. counter |-> <<Aind[k], Bind[k]>>]
  <2>1. h \in [1 .. counter -> RangeA \X RangeB]
    BY <1>1 DEF IndicesExist
  <2>2. ASSUME NEW k \in 1 .. counter, NEW m \in 1 .. counter, h[k] = h[m]
        PROVE  k = m
    BY <1>1, <2>2 DEF NoneTwice
  <2>3. ASSUME NEW p \in RangeA \X RangeB
        PROVE  \E k \in 1 .. counter : h[k] = p
    <3>1. PICK x \in RangeA, y \in RangeB : p = <<x, y>>
      OBVIOUS
    <3>2. PICK k \in 1 .. counter : Aind[k] = x /\ Bind[k] = y
      BY <1>1
    <3> QED BY <3>1, <3>2
  <2> HIDE DEF h
  <2>4. h \in Bijection(1 .. counter, RangeA \X RangeB)
    BY <2>1, <2>2, <2>3 DEF Bijection, Injection, IsInjective, Surjection
  <2>5. /\ IsFiniteSet(RangeA) /\ Cardinality(RangeA) = A_size
        /\ IsFiniteSet(RangeB) /\ Cardinality(RangeB) = B_size
    BY FS_Interval DEF RangeA, RangeB, Positive
  <2>6. Cardinality(RangeA \X RangeB) = A_size * B_size
    BY <2>5, FS_Product
  <2>7. IsFiniteSet(1 .. counter) /\ Cardinality(1 .. counter) = counter
    BY <1>3, FS_Interval
  <2>8. Cardinality(RangeA \X RangeB) = counter
    BY <2>4, <2>7, FS_Bijection DEF ExistsBijection
  <2> QED BY <2>6, <2>8
<1> QED BY <1>1, <1>2, <1>4 DEF Finished

LEMMA FinishedIndices ==
  ASSUME Finished, NEW s \in 0 .. counter - 1
  PROVE  /\ counter \in Nat \ {0} /\ s \in Nat /\ s + 1 \in 1 .. counter
         /\ Aind[s + 1] \in 0 .. A_size - 1 /\ Bind[s + 1] \in 0 .. B_size - 1
         /\ Col(s) \in Nat
<1>1. counter \in Nat \ {0}
  BY DEF Finished, Positive
<1>2. s \in Nat /\ s + 1 \in 1 .. counter
  BY <1>1
<1> QED BY <1>1, <1>2 DEF Finished, IndicesExist, RangeA, RangeB, Col, Positive

(* From one entry to the next the column stays or is the next one.         *)
LEMMA NextEntry ==
  ASSUME Finished, NEW s \in Nat, s + 1 <= counter - 1
  PROVE  Col(s + 1) = Col(s) \/ Col(s + 1) = Col(s) + 1
<1>1. s \in 0 .. counter - 1 /\ s + 1 \in 0 .. counter - 1 /\ s + 1 \in 1 .. counter - 1
  BY DEF Finished, Positive
<1>2. /\ Aind[s + 1] \in Nat /\ Bind[s + 1] \in Nat
      /\ Aind[(s + 1) + 1] \in Nat /\ Bind[(s + 1) + 1] \in Nat
  BY <1>1, FinishedIndices
<1>3. \/ Aind[(s + 1) + 1] = Aind[s + 1] - 1 /\ Bind[(s + 1) + 1] = Bind[s + 1] + 1
      \/ Aind[(s + 1) + 1] + Bind[(s + 1) + 1] = Aind[s + 1] + Bind[s + 1] + 1
  BY <1>1 DEF Finished, ColumnByColumn
<1> QED BY <1>2, <1>3 DEF Col

LEMMA ColumnsGrow ==
  ASSUME Finished, NEW s \in 0 .. counter - 1, NEW t \in 0 .. counter - 1, t <= s
  PROVE  Col(t) <= Col(s)
<1> DEFINE P == {d \in Nat : t + d <= counter - 1 => Col(t) <= Col(t + d)}
<1>0. counter \in Nat /\ t \in Nat /\ s \in Nat
  BY FinishedIndices
<1>1. 0 \in P
  BY <1>0, FinishedIndices
<1>2. ASSUME NEW d \in Nat, d \in P PROVE d + 1 \in P
  <2> SUFFICES ASSUME t + (d + 1) <= counter - 1 PROVE Col(t) <= Col(t + (d + 1))
    OBVIOUS
  <2>1. t + d \in Nat /\ (t + d) + 1 = t + (d + 1) /\ t + d \in 0 .. counter - 1
    BY <1>0
  <2>2. Col(t) <= Col(t + d)
    BY <1>2, <2>1
  <2>3. Col(t) \in Nat /\ Col(t + d) \in Nat
    BY <2>1, FinishedIndices
  <2>4. Col((t + d) + 1) = Col(t + d) \/ Col((t + d) + 1) = Col(t + d) + 1
    BY <2>1, NextEntry
  <2> QED BY <2>1, <2>2, <2>3, <2>4
<1> HIDE DEF P
<1>3. s - t \in P
  <2>1. s - t \in Nat
    BY <1>0
  <2> QED BY <1>1, <1>2, <2>1, SetInduction
<1>4. t + (s - t) = s
  BY <1>0
<1> QED BY <1>3, <1>4 DEF P

(* Cycle is set at the columns passed.                                     *)
LEMMA ColumnCounted ==
  ASSUME Finished, NEW s \in 0 .. counter - 1
  PROVE  Cardinality({t \in 1 .. s : cycle[t] = 1}) = Col(s)
<1> DEFINE Set(n) == {t \in 1 .. n : cycle[t] = 1}
           P == {n \in Nat : n <= counter - 1 => Cardinality(Set(n)) = Col(n)}
<1>0. counter \in Nat \ {0} /\ s \in Nat
  BY FinishedIndices
<1>1. 0 \in P
  <2>1. Set(0) = {}
    OBVIOUS
  <2>2. Col(0) = 0
    BY <1>0 DEF Finished, FirstPair, Col
  <2> QED BY <2>1, <2>2, FS_EmptySet
<1>2. ASSUME NEW n \in Nat, n \in P PROVE n + 1 \in P
  <2> SUFFICES ASSUME n + 1 <= counter - 1 PROVE Cardinality(Set(n + 1)) = Col(n + 1)
    OBVIOUS
  <2>1. n \in 0 .. counter - 1 /\ n + 1 \in 0 .. counter - 1 /\ n + 1 # 0
    BY <1>0
  <2>2. Cardinality(Set(n)) = Col(n)
    BY <1>2, <2>1
  <2>3. IsFiniteSet(Set(n)) /\ n + 1 \notin Set(n)
    <3>1. IsFiniteSet(1 .. n)
      BY FS_Interval
    <3>2. Set(n) \in SUBSET (1 .. n)
      OBVIOUS
    <3>3. IsFiniteSet(Set(n))
      BY <3>1, <3>2, FS_Subset
    <3> QED BY <3>3
  <2>4. cycle[n + 1] = 1 <=> Col(n + 1) > Col(n)
    BY <2>1 DEF Finished, Col
  <2>5. Col(n) \in Nat /\ (Col(n + 1) = Col(n) \/ Col(n + 1) = Col(n) + 1)
    BY <2>1, FinishedIndices, NextEntry
  <2>6. CASE cycle[n + 1] = 1
    <3>1. Set(n + 1) = Set(n) \cup {n + 1}
      BY <2>6
    <3>2. Cardinality(Set(n + 1)) = Cardinality(Set(n)) + 1
      <4> HIDE DEF Set
      <4> QED BY <2>3, <3>1, FS_AddElement
    <3> QED BY <2>2, <2>4, <2>5, <2>6, <3>2
  <2>7. CASE cycle[n + 1] # 1
    <3>1. Set(n + 1) = Set(n)
      BY <2>7
    <3>2. Col(n + 1) = Col(n)
      BY <2>4, <2>5, <2>7
    <3> QED BY <2>2, <3>1, <3>2
  <2> QED BY <2>6, <2>7
<1> HIDE DEF P
<1>3. s \in P
  BY <1>0, <1>1, <1>2, SetInduction
<1> QED BY <1>0, <1>3 DEF P

(* The entry of the pair of limbs that lies opposite.                      *)
Opposite(s) == CHOOSE t \in 0 .. counter - 1 :
                 Aind[t + 1] = A_size - 1 - Aind[s + 1] /\ Bind[t + 1] = B_size - 1 - Bind[s + 1]

LEMMA OppositeEntry ==
  ASSUME Finished, NEW s \in 0 .. counter - 1
  PROVE  /\ Opposite(s) \in 0 .. counter - 1
         /\ Aind[Opposite(s) + 1] = A_size - 1 - Aind[s + 1]
         /\ Bind[Opposite(s) + 1] = B_size - 1 - Bind[s + 1]
         /\ Col(Opposite(s)) = A_size + B_size - 2 - Col(s)
<1>1. /\ Aind[s + 1] \in 0 .. A_size - 1 /\ Bind[s + 1] \in 0 .. B_size - 1
      /\ A_size \in Nat \ {0} /\ B_size \in Nat \ {0} /\ counter \in Nat
  BY FinishedIndices DEF Finished, Positive
<1>2. PICK x \in RangeA, y \in RangeB : x = A_size - 1 - Aind[s + 1] /\ y = B_size - 1 - Bind[s + 1]
  BY <1>1 DEF RangeA, RangeB
<1>3. PICK k \in 1 .. counter : Aind[k] = x /\ Bind[k] = y
  BY DEF Finished
<1>4. k - 1 \in 0 .. counter - 1 /\ (k - 1) + 1 = k
  BY <1>1
<1>5. \E t \in 0 .. counter - 1 :
        Aind[t + 1] = A_size - 1 - Aind[s + 1] /\ Bind[t + 1] = B_size - 1 - Bind[s + 1]
  <2>1. Aind[(k - 1) + 1] = x /\ Bind[(k - 1) + 1] = y
    BY <1>3, <1>4
  <2>2. PICK t \in 0 .. counter - 1 : t = k - 1
    BY <1>4
  <2>3. Aind[t + 1] = A_size - 1 - Aind[s + 1] /\ Bind[t + 1] = B_size - 1 - Bind[s + 1]
    BY <1>2, <2>1, <2>2
  <2> QED BY <2>3
<1>6. /\ Opposite(s) \in 0 .. counter - 1
      /\ Aind[Opposite(s) + 1] = A_size - 1 - Aind[s + 1]
      /\ Bind[Opposite(s) + 1] = B_size - 1 - Bind[s + 1]
  BY <1>5, Zenon DEF Opposite
<1> QED BY <1>1, <1>6 DEF Col

LEMMA OppositesDiffer ==
  ASSUME Finished, NEW s \in 0 .. counter - 1, NEW t \in 0 .. counter - 1,
         Opposite(s) = Opposite(t)
  PROVE  s = t
<1>1. /\ Aind[s + 1] \in 0 .. A_size - 1 /\ Bind[s + 1] \in 0 .. B_size - 1
      /\ Aind[t + 1] \in 0 .. A_size - 1 /\ Bind[t + 1] \in 0 .. B_size - 1
      /\ s + 1 \in 1 .. counter /\ t + 1 \in 1 .. counter
      /\ A_size \in Nat \ {0} /\ B_size \in Nat \ {0} /\ counter \in Nat
  BY FinishedIndices DEF Finished, Positive
<1>2. /\ A_size - 1 - Aind[s + 1] = A_size - 1 - Aind[t + 1]
      /\ B_size - 1 - Bind[s + 1] = B_size - 1 - Bind[t + 1]
  <2>1. /\ Aind[Opposite(s) + 1] = A_size - 1 - Aind[s + 1]
        /\ Bind[Opposite(s) + 1] = B_size - 1 - Bind[s + 1]
    BY OppositeEntry
  <2>2. /\ Aind[Opposite(t) + 1] = A_size - 1 - Aind[t + 1]
        /\ Bind[Opposite(t) + 1] = B_size - 1 - Bind[t + 1]
    BY OppositeEntry
  <2> QED BY <2>1, <2>2, Zenon
<1>3. Aind[s + 1] = Aind[t + 1] /\ Bind[s + 1] = Bind[t + 1]
  BY <1>1, <1>2
<1>4. s + 1 = t + 1
  BY <1>1, <1>3 DEF Finished, NoneTwice
<1> QED BY <1>4

(* The columns are as many from the first as from the last.                *)
LEMMA ColumnsMirror ==
  ASSUME Finished, NEW s \in 0 .. counter - 1
  PROVE  Col(s) + Col(counter - 1 - s) = A_size + B_size - 2
<1>1. /\ A_size \in Nat \ {0} /\ B_size \in Nat \ {0} /\ counter \in Nat \ {0} /\ s \in Nat
      /\ Col(s) \in Nat
  BY FinishedIndices DEF Finished, Positive
<1>2. PICK m \in 0 .. counter - 1 : m = counter - 1 - s
  BY <1>1
<1>3. Col(m) \in Nat /\ m \in Nat
  BY FinishedIndices
<1>4. ASSUME Col(s) + Col(m) < A_size + B_size - 2 PROVE FALSE
  <2> DEFINE h == [t \in 0 .. s |-> Opposite(t)]
  <2>1. ASSUME NEW t \in 0 .. s PROVE Opposite(t) \in m + 1 .. counter - 1
    <3>1. t \in 0 .. counter - 1 /\ t <= s
      BY <1>1
    <3>2. /\ Col(t) <= Col(s) /\ Col(t) \in Nat
          /\ Opposite(t) \in 0 .. counter - 1
          /\ Col(Opposite(t)) = A_size + B_size - 2 - Col(t)
      BY <3>1, ColumnsGrow, FinishedIndices, OppositeEntry
    <3>3. Col(m) < Col(Opposite(t))
      BY <1>1, <1>3, <1>4, <3>2
    <3>4. ~(Opposite(t) <= m)
      <4> SUFFICES ASSUME Opposite(t) <= m PROVE FALSE
        OBVIOUS
      <4>1. Col(Opposite(t)) <= Col(m)
        BY <3>2, ColumnsGrow
      <4> QED BY <1>1, <1>3, <3>2, <3>3, <4>1
    <3> QED BY <1>1, <1>3, <3>2, <3>4
  <2>2. h \in [0 .. s -> m + 1 .. counter - 1]
    BY <2>1
  <2>3. /\ IsFiniteSet(0 .. s) /\ Cardinality(0 .. s) = s + 1
        /\ IsFiniteSet(m + 1 .. counter - 1) /\ Cardinality(m + 1 .. counter - 1) = s
    <3>1. m + 1 \in Int /\ counter - 1 \in Int /\ counter - 1 = m + s
      BY <1>1, <1>2
    <3>2. Cardinality(m + 1 .. counter - 1)
            = (IF m + 1 > counter - 1 THEN 0 ELSE (counter - 1) - (m + 1) + 1)
      BY <3>1, FS_Interval
    <3>3. Cardinality(m + 1 .. counter - 1) = s
      BY <1>1, <1>3, <3>1, <3>2
    <3>4. Cardinality(0 .. s) = s + 1
      BY <1>1, FS_Interval
    <3> QED BY <1>1, <3>1, <3>3, <3>4, FS_Interval
  <2>4. \A t, u \in 0 .. s : h[t] = h[u] => t = u
    <3> SUFFICES ASSUME NEW t \in 0 .. s, NEW u \in 0 .. s, h[t] = h[u] PROVE t = u
      OBVIOUS
    <3>1. t \in 0 .. counter - 1 /\ u \in 0 .. counter - 1
      BY <1>1
    <3> QED BY <3>1, OppositesDiffer
  <2> HIDE DEF h
  <2>5. Cardinality(m + 1 .. counter - 1) < Cardinality(0 .. s)
    BY <1>1, <2>3
  <2>6. \E t, u \in 0 .. s : t # u /\ h[t] = h[u]
    BY <2>2, <2>3, <2>5, FS_PigeonHole
  <2> QED BY <2>4, <2>6, Zenon
<1>5. ASSUME Col(s) + Col(m) > A_size + B_size - 2 PROVE FALSE
  <2> DEFINE h == [t \in s .. counter - 1 |-> Opposite(t)]
  <2>1. ASSUME NEW t \in s .. counter - 1 PROVE Opposite(t) \in 0 .. m - 1
    <3>1. t \in 0 .. counter - 1 /\ s <= t
      BY <1>1
    <3>2. /\ Col(s) <= Col(t) /\ Col(t) \in Nat
          /\ Opposite(t) \in 0 .. counter - 1
          /\ Col(Opposite(t)) = A_size + B_size - 2 - Col(t)
      BY <3>1, ColumnsGrow, FinishedIndices, OppositeEntry
    <3>3. Col(Opposite(t)) < Col(m)
      BY <1>1, <1>3, <1>5, <3>2
    <3>4. ~(m <= Opposite(t))
      <4> SUFFICES ASSUME m <= Opposite(t) PROVE FALSE
        OBVIOUS
      <4>1. Col(m) <= Col(Opposite(t))
        BY <3>2, ColumnsGrow
      <4> QED BY <1>1, <1>3, <3>2, <3>3, <4>1
    <3> QED BY <1>1, <1>3, <3>2, <3>4
  <2>2. h \in [s .. counter - 1 -> 0 .. m - 1]
    BY <2>1
  <2>3. /\ IsFiniteSet(s .. counter - 1) /\ Cardinality(s .. counter - 1) = m + 1
        /\ IsFiniteSet(0 .. m - 1) /\ Cardinality(0 .. m - 1) = m
    <3>1. m - 1 \in Int /\ counter - 1 \in Int /\ counter - 1 = m + s
      BY <1>1, <1>2
    <3>2. Cardinality(s .. counter - 1)
            = (IF s > counter - 1 THEN 0 ELSE (counter - 1) - s + 1)
      BY <1>1, <3>1, FS_Interval
    <3>3. Cardinality(s .. counter - 1) = m + 1
      BY <1>1, <1>3, <3>1, <3>2
    <3>4. Cardinality(0 .. m - 1) = m
      BY <1>3, FS_Interval
    <3> QED BY <1>1, <3>1, <3>3, <3>4, FS_Interval
  <2>4. \A t, u \in s .. counter - 1 : h[t] = h[u] => t = u
    <3> SUFFICES ASSUME NEW t \in s .. counter - 1, NEW u \in s .. counter - 1, h[t] = h[u]
                 PROVE  t = u
      OBVIOUS
    <3>1. t \in 0 .. counter - 1 /\ u \in 0 .. counter - 1
      BY <1>1
    <3> QED BY <3>1, OppositesDiffer
  <2> HIDE DEF h
  <2>5. Cardinality(0 .. m - 1) < Cardinality(s .. counter - 1)
    BY <1>3, <2>3
  <2>6. \E t, u \in s .. counter - 1 : t # u /\ h[t] = h[u]
    BY <2>2, <2>3, <2>5, FS_PigeonHole
  <2> QED BY <2>4, <2>6, Zenon
<1> QED BY <1>1, <1>2, <1>3, <1>4, <1>5

(* Limb x of one number times limb y of the other, at their column.        *)
AreProducts(F, m, n, p, q) ==
  \A x \in 0 .. p - 1, y \in 0 .. q - 1 :
    F[<<x, y>>] = Limb(m, x) * Limb(n, y) * Weight(x + y)

LEMMA ProductOfLimbs ==
  ASSUME NEW m \in Nat, NEW n \in Nat, NEW p \in Nat, NEW q \in Nat,
         m < Weight(p), n < Weight(q), NEW F, AreProducts(F, m, n, p, q)
  PROVE  SumFunctionOnSet(F, (0 .. p - 1) \X (0 .. q - 1)) = m * n
<1> DEFINE f == [x \in 0 .. p - 1 |-> Limb(m, x) * Weight(x)]
           g == [y \in 0 .. q - 1 |-> Limb(n, y) * Weight(y)]
<1>1. \A x \in 0 .. p - 1 : f[x] = Limb(m, x) * Weight(x) /\ f[x] \in Int
  <2> SUFFICES ASSUME NEW x \in 0 .. p - 1 PROVE f[x] \in Int
    OBVIOUS
  <2>1. PICK u \in Nat, v \in Nat : u = Limb(m, x) /\ v = Weight(x)
    <3>1. x \in Nat
      OBVIOUS
    <3> QED BY <3>1, LimbType, WeightRule
  <2>2. u * v \in Int /\ f[x] = u * v
    BY <2>1
  <2> QED BY <2>2
<1>2. \A y \in 0 .. q - 1 : g[y] = Limb(n, y) * Weight(y) /\ g[y] \in Int
  <2> SUFFICES ASSUME NEW y \in 0 .. q - 1 PROVE g[y] \in Int
    OBVIOUS
  <2>1. PICK u \in Nat, v \in Nat : u = Limb(n, y) /\ v = Weight(y)
    <3>1. y \in Nat
      OBVIOUS
    <3> QED BY <3>1, LimbType, WeightRule
  <2>2. u * v \in Int /\ g[y] = u * v
    BY <2>1
  <2> QED BY <2>2
<1> HIDE DEF f, g
<1>3. ASSUME NEW x \in 0 .. p - 1, NEW y \in 0 .. q - 1
      PROVE  F[<<x, y>>] = f[x] * g[y]
  <2>1. x \in Nat /\ y \in Nat
    OBVIOUS
  <2>2. PICK u \in Nat, v \in Nat, w \in Nat, z \in Nat :
          u = Limb(m, x) /\ v = Limb(n, y) /\ w = Weight(x) /\ z = Weight(y)
    BY <2>1, LimbType, WeightRule
  <2>3. Weight(x + y) = w * z
    BY <2>1, <2>2, WeightSum
  <2>4. (u * v) * (w * z) = (u * w) * (v * z)
    OBVIOUS
  <2>5. F[<<x, y>>] = Limb(m, x) * Limb(n, y) * Weight(x + y)
    BY DEF AreProducts
  <2> QED BY <1>1, <1>2, <2>2, <2>3, <2>4, <2>5, Zenon
<1>4. IsFiniteSet(0 .. p - 1) /\ IsFiniteSet(0 .. q - 1)
  BY FS_Interval
<1>5. SumFunctionOnSet(F, (0 .. p - 1) \X (0 .. q - 1))
        = SumFunctionOnSet(f, 0 .. p - 1) * SumFunctionOnSet(g, 0 .. q - 1)
  <2>1. PICK X, Y : X = 0 .. p - 1 /\ Y = 0 .. q - 1
    OBVIOUS
  <2>2. /\ IsFiniteSet(X) /\ IsFiniteSet(Y)
        /\ \A x \in X : f[x] \in Int
        /\ \A y \in Y : g[y] \in Int
        /\ \A x \in X, y \in Y : F[<<x, y>>] = f[x] * g[y]
    BY <1>1, <1>2, <1>3, <1>4, <2>1
  <2>3. SumFunctionOnSet(F, X \X Y) = SumFunctionOnSet(f, X) * SumFunctionOnSet(g, Y)
    BY <2>2, SumProduct
  <2> QED BY <2>1, <2>3
<1>6. SumFunctionOnSet(f, 0 .. p - 1) = m
  BY <1>1, LimbsValue
<1>7. SumFunctionOnSet(g, 0 .. q - 1) = n
  BY <1>2, LimbsValue
<1> QED BY <1>5, <1>6, <1>7

(* The products of a stream in a finished order, each at the column that   *)
(* cycle has counted, add up to the product.                               *)
LEMMA StreamSum ==
  ASSUME Finished, NEW m \in Nat, NEW n \in Nat, m < Weight(A_size), n < Weight(B_size), NEW G,
         \A s \in 0 .. counter - 1 :
           G[s] = Streamed(m, A_size, Aind, s) * Streamed(n, B_size, Bind, s) * Weight(Col(s))
  PROVE  SumFunctionOnSet(G, 0 .. counter - 1) = m * n
<1> DEFINE Pairs == (0 .. A_size - 1) \X (0 .. B_size - 1)
           Entries == 0 .. counter - 1
           F == [p \in Pairs |-> Limb(m, p[1]) * Limb(n, p[2]) * Weight(p[1] + p[2])]
           h == [s \in Entries |->
                   <<A_size - 1 - Aind[counter - s], B_size - 1 - Bind[counter - s]>>]
<1>1. /\ A_size \in Nat \ {0} /\ B_size \in Nat \ {0} /\ counter \in Nat \ {0}
      /\ counter = A_size * B_size
  BY DEF Finished, Positive
<1>2. ASSUME NEW s \in Entries
      PROVE  /\ counter - s \in 1 .. counter
             /\ Aind[counter - s] \in 0 .. A_size - 1 /\ Bind[counter - s] \in 0 .. B_size - 1
             /\ Col(s) = (A_size - 1 - Aind[counter - s]) + (B_size - 1 - Bind[counter - s])
  <2>1. PICK t \in 0 .. counter - 1 : t = counter - 1 - s /\ t + 1 = counter - s
    BY <1>1
  <2>2. /\ Aind[counter - s] \in 0 .. A_size - 1 /\ Bind[counter - s] \in 0 .. B_size - 1
        /\ counter - s \in 1 .. counter
    BY <2>1, FinishedIndices
  <2>3. Col(s) \in Nat /\ Col(s) + Col(t) = A_size + B_size - 2
    BY <2>1, FinishedIndices, ColumnsMirror
  <2>4. Col(t) = Aind[counter - s] + Bind[counter - s]
    BY <2>1, Zenon DEF Col
  <2> QED BY <1>1, <2>2, <2>3, <2>4
<1>3. h \in [Entries -> Pairs]
  <2> SUFFICES ASSUME NEW s \in Entries
               PROVE  <<A_size - 1 - Aind[counter - s], B_size - 1 - Bind[counter - s]>> \in Pairs
    OBVIOUS
  <2>1. /\ Aind[counter - s] \in 0 .. A_size - 1 /\ Bind[counter - s] \in 0 .. B_size - 1
    BY <1>2
  <2>2. A_size - 1 - Aind[counter - s] \in 0 .. A_size - 1
    BY <1>1, <2>1
  <2>3. B_size - 1 - Bind[counter - s] \in 0 .. B_size - 1
    BY <1>1, <2>1
  <2> QED BY <2>2, <2>3
<1>4. ASSUME NEW s \in Entries, NEW t \in Entries, h[s] = h[t] PROVE s = t
  <2>1. /\ A_size - 1 - Aind[counter - s] = A_size - 1 - Aind[counter - t]
        /\ B_size - 1 - Bind[counter - s] = B_size - 1 - Bind[counter - t]
    BY <1>4
  <2>2. Aind[counter - s] = Aind[counter - t] /\ Bind[counter - s] = Bind[counter - t]
    <3>1. /\ Aind[counter - s] \in Int /\ Bind[counter - s] \in Int
          /\ Aind[counter - t] \in Int /\ Bind[counter - t] \in Int
      BY <1>2
    <3> QED BY <1>1, <2>1, <3>1
  <2>3. counter - s = counter - t
    BY <1>2, <2>2 DEF Finished, NoneTwice
  <2> QED BY <1>1, <2>3
<1>5. ASSUME NEW p \in Pairs PROVE \E s \in Entries : h[s] = p
  <2>1. PICK x \in RangeA, y \in RangeB : p = <<A_size - 1 - x, B_size - 1 - y>>
    <3>1. PICK u \in 0 .. A_size - 1, v \in 0 .. B_size - 1 : p = <<u, v>>
      OBVIOUS
    <3>2. A_size - 1 - u \in RangeA /\ B_size - 1 - v \in RangeB
      BY <1>1 DEF RangeA, RangeB
    <3>3. A_size - 1 - (A_size - 1 - u) = u /\ B_size - 1 - (B_size - 1 - v) = v
      BY <1>1
    <3> QED BY <3>1, <3>2, <3>3
  <2>2. PICK k \in 1 .. counter : Aind[k] = x /\ Bind[k] = y
    BY DEF Finished
  <2>3. PICK s \in Entries : s = counter - k /\ counter - s = k
    BY <1>1
  <2>4. h[s] = p
    BY <2>1, <2>2, <2>3
  <2> QED BY <2>4
<1>6. \A s \in Entries : G[s] = F[h[s]]
  <2> SUFFICES ASSUME NEW s \in Entries PROVE G[s] = F[h[s]]
    OBVIOUS
  <2>1. PICK x \in 0 .. A_size - 1, y \in 0 .. B_size - 1 :
          /\ x = A_size - 1 - Aind[counter - s] /\ y = B_size - 1 - Bind[counter - s]
          /\ Col(s) = x + y
    BY <1>1, <1>2
  <2>2. Streamed(m, A_size, Aind, s) = Limb(m, x) /\ Streamed(n, B_size, Bind, s) = Limb(n, y)
    BY <1>1, <2>1 DEF Streamed
  <2>3. h[s] = <<x, y>> /\ <<x, y>> \in Pairs
    BY <2>1
  <2>4. F[<<x, y>>] = Limb(m, x) * Limb(n, y) * Weight(x + y)
    BY <2>3
  <2>5. G[s] = Limb(m, x) * Limb(n, y) * Weight(x + y)
    BY <2>1, <2>2
  <2> QED BY <2>3, <2>4, <2>5, Zenon
<1>7. \A x \in 0 .. A_size - 1, y \in 0 .. B_size - 1 :
        F[<<x, y>>] = Limb(m, x) * Limb(n, y) * Weight(x + y)
  OBVIOUS
<1>8. \A p \in Pairs : F[p] \in Int
  <2> SUFFICES ASSUME NEW p \in Pairs PROVE F[p] \in Int
    OBVIOUS
  <2>1. PICK x \in Nat, y \in Nat : p = <<x, y>>
    OBVIOUS
  <2>2. PICK u \in Nat, v \in Nat, w \in Nat :
          u = Limb(m, x) /\ v = Limb(n, y) /\ w = Weight(x + y)
    <3>1. x + y \in Nat
      OBVIOUS
    <3> QED BY <3>1, LimbType, WeightRule
  <2>3. F[p] = u * v * w
    BY <2>1, <2>2
  <2>4. u * v * w \in Int
    OBVIOUS
  <2> QED BY <2>3, <2>4
<1> HIDE DEF F, h
<1>9. h \in Bijection(Entries, Pairs)
  BY <1>3, <1>4, <1>5 DEF Bijection, Injection, IsInjective, Surjection
<1>10. IsFiniteSet(Entries)
  BY <1>1, FS_Interval
<1>11. SumFunctionOnSet(G, Entries) = SumFunctionOnSet(F, Pairs)
  <2>1. PICK X, Y : X = Entries /\ Y = Pairs
    OBVIOUS
  <2>2. /\ IsFiniteSet(X) /\ h \in Bijection(X, Y)
        /\ \A s \in X : G[s] = F[h[s]]
        /\ \A p \in Y : F[p] \in Int
    BY <1>6, <1>8, <1>9, <1>10, <2>1
  <2>3. SumFunctionOnSet(G, X) = SumFunctionOnSet(F, Y)
    BY <2>2, SumReindex
  <2> QED BY <2>1, <2>3
<1>12. SumFunctionOnSet(F, Pairs) = m * n
  <2>1. AreProducts(F, m, n, A_size, B_size)
    BY <1>7 DEF AreProducts
  <2>2. A_size \in Nat /\ B_size \in Nat
    BY <1>1
  <2> QED BY <2>1, <2>2, ProductOfLimbs
<1> QED BY <1>11, <1>12

-----------------------------------------------------------------------------
(* Between the order and what is delivered the operands stay as drawn.     *)
Prepared ==
  call = "multiply" =>
    /\ A_size = a_prec /\ B_size = b_prec /\ a_prec \in Limbs /\ b_prec \in Limbs
    /\ num_a \in Drawn(a_prec) /\ num_b \in Drawn(b_prec)

DataInv == Prepared /\ StreamMultiplies /\ DifferencesOpposite /\ ResultBelowPrec

LEMMA ScheduleStep ==
  ASSUME [TestDataNext]_tvars
  PROVE  [ScheduleNext]_mvars
<1>1. CASE Addition
  BY <1>1 DEF Addition
<1>2. CASE Subtraction
  BY <1>2 DEF Subtraction
<1>3. CASE Multiplication
  <2>1. a_prec' \in Limbs /\ b_prec' \in Limbs /\ Start(a_prec', b_prec')
    BY <1>3 DEF Multiplication, Draw
  <2>2. \E Alimbs, Blimbs \in Limbs : Start(Alimbs, Blimbs)
    BY <2>1, Zenon
  <2> QED BY <2>2, Zenon DEF ScheduleNext
<1>4. CASE Order
  BY <1>4, Zenon DEF Order, ScheduleNext
<1>5. CASE Deliver
  BY <1>5 DEF Deliver
<1>6. CASE UNCHANGED tvars
  BY <1>6 DEF tvars
<1> QED BY <1>1, <1>2, <1>3, <1>4, <1>5, <1>6 DEF TestDataNext

(* The calls of the test data keep to the order's specification: every     *)
(* multiplication starts mult_regs_address once the call before is done    *)
(* with it.                                                                *)
THEOREM OrderedBySchedule == TestDataSpec => ScheduleSpec
<1>1. TestDataInit => ScheduleInit
  BY DEF TestDataInit
<1> QED BY <1>1, ScheduleStep, PTL DEF TestDataSpec, ScheduleSpec

LEMMA DeliverResult ==
  ASSUME IInv, SignalsOK, Prepared, Deliver
  PROVE  call' = "multiplied" /\ StreamMultiplies' /\ ResultBelowPrec'
<1>1. /\ call = "multiply" /\ phase = "ordered" /\ call' = "multiplied"
      /\ A_size = a_prec /\ B_size = b_prec /\ a_prec \in Limbs /\ b_prec \in Limbs
      /\ num_a \in Drawn(a_prec) /\ num_b \in Drawn(b_prec)
      /\ num_a' = num_a /\ num_b' = num_b /\ a_prec' = a_prec /\ b_prec' = b_prec
      /\ cycle' = cycle
  BY DEF Deliver, Prepared, operands, mvars, signals
<1>2. PICK p \in Limbs, q \in Limbs : p = a_prec /\ q = b_prec
  BY <1>1
<1>3. /\ p \in Nat \ {0} /\ q \in Nat \ {0} /\ p * q \in Nat \ {0}
      /\ p * q \in Cells /\ p + q \in Cells
  BY CellsEnough
<1>4. PICK x \in Nat, y \in Nat :
        x = num_a /\ y = num_b /\ x < Weight(p) /\ y < Weight(q)
  BY <1>1, <1>2, <1>3, DrawnNumbers
<1>5. PICK pairs \in Nat \ {0}, product \in Nat : pairs = p * q /\ product = x * y
  BY <1>3
<1>6. Finished /\ counter = pairs
  <2>1. Positive
    BY <1>1, <1>2, <1>3 DEF Positive
  <2>2. Finished
    BY <1>1, <2>1, OrderFinished
  <2>3. counter = p * q
    BY <1>1, <1>2, <2>2, Zenon DEF Finished
  <2> QED BY <1>5, <2>2, <2>3
<1>7. /\ a' = [k \in Cells |-> IF k < pairs THEN Streamed(x, p, Aind, k) ELSE a[k]]
      /\ b' = [k \in Cells |-> IF k < pairs THEN Streamed(y, q, Bind, k) ELSE b[k]]
      /\ a_last' = Marked(pairs, a_last) /\ b_last' = Marked(pairs, b_last)
      /\ c' = Convert(product, LimbDigits * (p + q), Length_c(product), c)
      /\ c_last' = Marked(Length_c(product), c_last)
  BY <1>1, <1>2, <1>4, <1>5 DEF Deliver
<1>8. pairs - 1 \in Cells /\ 0 .. pairs - 1 \subseteq Cells
  BY <1>3, <1>5, CellsBelow
<1>9. LastMark(a_last') = pairs - 1 /\ LastMark(b_last') = pairs - 1
  BY <1>7, <1>8, MarkFound
<1>10. product < Weight(p + q)
  <2>1. PICK v \in Nat \ {0}, w \in Nat \ {0} : v = Weight(p) /\ w = Weight(q)
    BY <1>3, WeightRule
  <2>2. Weight(p + q) = v * w
    BY <1>3, <2>1, WeightSum
  <2>3. x * y <= x * w /\ x * w < v * w
    <3>1. x * y <= x * w
      BY <1>4, <2>1, ProductMonotone
    <3>2. w * (x + 1) <= w * v
      BY <1>4, <2>1, ProductMonotone
    <3>3. w * (x + 1) = x * w + w /\ w * v = v * w /\ x * w \in Nat /\ v * w \in Nat
      BY <2>1
    <3> QED BY <3>1, <3>2, <3>3
  <2>4. x * w \in Nat /\ v * w \in Nat
    BY <2>1
  <2> QED BY <1>5, <2>2, <2>3, <2>4
<1>11. PICK l \in Nat \ {0} : l = Length_c(product) /\ l <= p + q /\ product < Weight(l)
  BY <1>3, <1>10, LengthFits
<1>12. \A k \in 0 .. p + q - 1 : c'[k] = Limb(product, k)
  <2>1. PICK n \in Nat \ {0} : n = p + q
    BY <1>3
  <2>2. Ceil(LimbDigits * n, LimbDigits) = n
    <3>1. LimbDigits \in Nat \ {0}
      BY TestDataAssumption
    <3>2. LimbDigits * n + LimbDigits - 1 = LimbDigits * n + (LimbDigits - 1)
      BY <3>1
    <3>3. LimbDigits - 1 \in 0 .. LimbDigits - 1 /\ LimbDigits * n + LimbDigits - 1 \in Nat
      BY <3>1
    <3> QED BY <3>1, <3>2, <3>3, Quotient DEF Ceil
  <2>3. n = Longer(l, Ceil(LimbDigits * n, LimbDigits))
    BY <1>11, <2>1, <2>2 DEF Longer
  <2>4. \A k \in 0 .. n - 1 : Convert(product, LimbDigits * n, l, c)[k] = Limb(product, k)
    BY <1>3, <2>1, <2>3, Converted
  <2>5. c' = Convert(product, LimbDigits * n, l, c)
    BY <1>7, <1>11, <2>1
  <2>6. \A k \in 0 .. n - 1 : c'[k] = Limb(product, k)
    BY <2>4, <2>5
  <2> QED BY <1>3, <2>1, <2>6
<1>13. Value(c', p + q) = product
  BY <1>3, <1>10, <1>12, ArrayValue
<1>14. ResultBelowPrec'
  <2>1. l - 1 \in Cells
    BY <1>3, <1>11, TestDataAssumption DEF Cells
  <2>2. LastMark(c_last') + 1 = l
    BY <1>7, <1>11, <2>1, MarkFound
  <2>3. Value(c', l) = product
    <3>1. \A k \in 0 .. l - 1 : c'[k] = Limb(product, k)
      BY <1>3, <1>11, <1>12
    <3> QED BY <1>11, <3>1, ArrayValue
  <2>4. Value(c', LastMark(c_last') + 1) = num_a' * num_b'
    BY <1>1, <1>4, <1>5, <2>2, <2>3, Zenon
  <2> QED BY <1>1, <2>4, Zenon DEF ResultBelowPrec, Value
<1>15. StreamMultiplies'
  <2> DEFINE column(s) == Cardinality({t \in 1 .. s : cycle[t] = 1})
             G == [s \in 0 .. pairs - 1 |-> a'[s] * b'[s] * Weight(column(s))]
  <2>1. ASSUME NEW s \in 0 .. pairs - 1
        PROVE  G[s] = Streamed(x, p, Aind, s) * Streamed(y, q, Bind, s) * Weight(Col(s))
    <3>1. column(s) = Col(s)
      BY <1>6, ColumnCounted
    <3>2. s \in Cells /\ s < pairs
      BY <1>8
    <3>3. a'[s] = Streamed(x, p, Aind, s) /\ b'[s] = Streamed(y, q, Bind, s)
      BY <1>7, <3>2
    <3> HIDE DEF column
    <3> QED BY <3>1, <3>3
  <2>2. DOMAIN G = 0 .. pairs - 1
    OBVIOUS
  <2>3. SumFunction(G) = SumFunctionOnSet(G, DOMAIN G)
    BY Zenon DEF SumFunction
  <2> HIDE DEF G
  <2>4. SumFunctionOnSet(G, 0 .. pairs - 1) = x * y
    BY <1>1, <1>2, <1>4, <1>6, <2>1, StreamSum
  <2>5. SumFunction(G) = Value(c', p + q)
    BY <1>5, <1>13, <2>2, <2>3, <2>4
  <2>6. SumFunction([s \in 0 .. LastMark(a_last') |-> a'[s] * b'[s] * Weight(column(s))])
          = Value(c', a_prec' + b_prec')
    BY <1>1, <1>2, <1>9, <2>5 DEF G
  <2> QED BY <1>1, <1>9, <2>6 DEF StreamMultiplies
<1> QED BY <1>1, <1>14, <1>15

LEMMA SizesKept ==
  ASSUME Reorder
  PROVE  A_size' = A_size /\ B_size' = B_size
BY DEF Reorder, Addresses, Column, UpColumn, FlatColumn, DownColumn, StartAt, Pair, EndColumn,
       EndUp, EndFlat, EndDown, Turn, Marks, MarkCycle, EndCycle, MarkInitUp, EndInit, sizes

LEMMA DataInit ==
  ASSUME TestDataInit
  PROVE  DataInv
BY DEF TestDataInit, DataInv, Prepared, StreamMultiplies, DifferencesOpposite, ResultBelowPrec

LEMMA DataStep ==
  ASSUME IInv, SignalsOK, DataInv, [TestDataNext]_tvars
  PROVE  DataInv'
<1>1. CASE Addition
  <2>1. call' = "add" /\ ResultBelowPrec'
    BY <1>1, AdditionResult
  <2>2. Prepared' /\ StreamMultiplies' /\ DifferencesOpposite'
    BY <2>1 DEF Prepared, StreamMultiplies, DifferencesOpposite
  <2> QED BY <2>1, <2>2 DEF DataInv
<1>2. CASE Subtraction
  <2>1. call' = "subtract" /\ DifferencesOpposite'
    BY <1>2, SubtractionResult
  <2>2. Prepared' /\ StreamMultiplies' /\ ResultBelowPrec'
    BY <2>1 DEF Prepared, StreamMultiplies, ResultBelowPrec
  <2> QED BY <2>1, <2>2 DEF DataInv
<1>3. CASE Multiplication
  <2>1. /\ call' = "multiply" /\ a_prec' \in Limbs /\ b_prec' \in Limbs
        /\ num_a' \in Drawn(a_prec') /\ num_b' \in Drawn(b_prec')
        /\ A_size' = a_prec' /\ B_size' = b_prec'
    BY <1>3 DEF Multiplication, Draw, Start
  <2>2. Prepared'
    BY <2>1 DEF Prepared
  <2>3. StreamMultiplies' /\ DifferencesOpposite' /\ ResultBelowPrec'
    BY <2>1 DEF StreamMultiplies, DifferencesOpposite, ResultBelowPrec
  <2> QED BY <2>2, <2>3 DEF DataInv
<1>4. CASE Order
  <2>1. /\ call = "multiply" /\ call' = call /\ a_prec' = a_prec /\ b_prec' = b_prec
        /\ num_a' = num_a /\ num_b' = num_b /\ A_size' = A_size /\ B_size' = B_size
    BY <1>4, SizesKept DEF Order, operands
  <2>2. Prepared'
    BY <2>1 DEF DataInv, Prepared
  <2>3. StreamMultiplies' /\ DifferencesOpposite' /\ ResultBelowPrec'
    BY <2>1 DEF StreamMultiplies, DifferencesOpposite, ResultBelowPrec
  <2> QED BY <2>2, <2>3 DEF DataInv
<1>5. CASE Deliver
  <2>1. call' = "multiplied" /\ StreamMultiplies' /\ ResultBelowPrec'
    BY <1>5, DeliverResult DEF DataInv
  <2>2. Prepared' /\ DifferencesOpposite'
    BY <2>1 DEF Prepared, DifferencesOpposite
  <2> QED BY <2>1, <2>2 DEF DataInv
<1>6. CASE UNCHANGED tvars
  <2>1. /\ UNCHANGED <<call, a_prec, b_prec, num_a, num_b, a, b, a_last, b_last, c, c_prec>>
        /\ UNCHANGED <<c_last, c_ext, A_size, B_size, cycle>>
    BY <1>6 DEF tvars, mvars, sizes, signals, operands, arrays
  <2>2. Prepared'
    BY <2>1 DEF DataInv, Prepared
  <2>3. StreamMultiplies'
    BY <2>1 DEF DataInv, StreamMultiplies, Value
  <2>4. DifferencesOpposite'
    BY <2>1 DEF DataInv, DifferencesOpposite, Value
  <2>5. ResultBelowPrec'
    BY <2>1 DEF DataInv, ResultBelowPrec, Value
  <2> QED BY <2>2, <2>3, <2>4, <2>5 DEF DataInv
<1> QED BY <1>1, <1>2, <1>3, <1>4, <1>5, <1>6 DEF TestDataNext

LEMMA DataAlways == TestDataSpec => []DataInv
<1>1. TestDataSpec => [](IInv /\ SignalsOK)
  BY OrderedBySchedule, IInvAlways, SignalsAlways, PTL
<1> QED BY <1>1, DataInit, DataStep, PTL DEF TestDataSpec

(* What the stream of limbs that tbGenTestDataMultiplicationIntegerSeedSrup *)
(* delivers multiplies to is the product it expects, for operands of any    *)
(* lengths, limbs of any size and any numbers that may be drawn.            *)
THEOREM StreamIsProduct == TestDataSpec => []StreamMultiplies
<1>1. DataInv => StreamMultiplies
  BY DEF DataInv
<1> QED BY <1>1, DataAlways, PTL

(* The two results of tbGenTestDataSubtractionIntegerSeedSrup are opposite *)
(* numbers, for operands of any lengths whose complement has no zero limb  *)
(* on top.                                                                 *)
THEOREM ResultsOpposite == TestDataSpec => []DifferencesOpposite
<1>1. DataInv => DifferencesOpposite
  BY DEF DataInv
<1> QED BY <1>1, DataAlways, PTL

(* The limbs that the bench reads are the sum or the product, whatever the *)
(* arrays held before and whatever the lengths of the operands.            *)
THEOREM ReadsResult == TestDataSpec => []ResultBelowPrec
<1>1. DataInv => ResultBelowPrec
  BY DEF DataInv
<1> QED BY <1>1, DataAlways, PTL
=============================================================================
