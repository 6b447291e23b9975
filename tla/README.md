# A formal model of the integer-MPA coprocessor

The repository holds a coprocessor for integers of arbitrary precision (VHDL),
an emulator of it on GMP integers (`emusrup`, C), a debugger that puts the
emulator behind a SystemVerilog test bench, and the programs that write code
and data for it.  This directory holds TLA+ models of it, their TLC
configurations and the theorems proved about them with TLAPS.

Run, in this directory: `tlc -config MCEmulator.cfg MCEmulator` (and so on
for each `.cfg`), `tlapm EmulatorProofs.tla` (and so on for each `*Proofs`).

## 1. The parts of the system

| part | source | state | operations |
|------|--------|-------|------------|
| emulator | `src/software/emusrup/emusrup.c` (`emulate`, `execute_instruction`), `common/read_fun.c` | 16 registers and a shadow register, their physical numbers `phys`, program counter, bus counters | ten instructions, loading of numbers, exit on faulty input |
| timing model | `emusrup/time_maker.c` | countdowns of 16 registers, 2 routes, 7 units; the clock | `exec_cmd`, `time_to_termination` |
| DPI debugger | `emusrup.c` 1376–4127, `common/write_fun.c` | shared memory (register slots, precisions, signs, physical numbers, instruction, process id, control word), a semaphore, two processes | `tbEmusrupStart/Proceed/Check*/Stop`, the child's polling loop |
| LFSR numbers | `common/lfsr.c` | none between calls | size to LFSR state and back; arrays into LFSR order |
| DPI test data | `software/DPI/dpi_module` | arrays of the bench, which outlive a call | operands and expected results for the adder and multiplier benches; order in which the multiplier wants its limbs |
| program generators | `software/data_apps` | nine streams, a list of digests, a buffer for the program | programs for factorials, powers, sums, random data and the discrete Green's function (1D-DGF), with the numbers they load |
| runtimes, helpers | `software/runtimes`, `helpers`, `vhdl_gens` | – | host programs, file converters, VHDL generators |
| CPU | `firmware/src/blocks/core/cpu` | fetched instruction, busy flags of registers and units, map of logical to physical registers, running counters | prefetch, block, take, execute, swap |
| data path | `core/register`, `adder`, `multiplier`, `loader` | memories, pipelines, streams | read, write, add, multiply, load, unload |
| looper, library | `core_looper`, `firmware/src/common` | – | wiring to vendor cores; counters, multiplexers |

How they interact.  A program and two bus files drive the emulator; for each
instruction `execute_instruction` computes on GMP integers and calls the timing
model.  `debug_instruction` is a second copy of that function which also keeps
a copy of the registers in shared memory.  The test bench (`core_dpi_TB.sv`,
C test programs) steps it with `tbEmusrupProceed`, and compares its registers
with those of the simulated coprocessor.  The coprocessor itself renames: its
adder computes a result and, for the shadow register, the opposite difference,
and if the first is negative the two physical registers change roles.  The
emulator imitates that, so that even physical numbers can be compared.  Inside
the coprocessor the account of busy registers (`cpu_busybox`) is kept by physical
register, and is told by `cpu_mapper`, as a one-hot vector, which registers a
command names.

What is hard, and where the models look:

* two processes, one control word, one semaphore; polling at both ends; five or
  more critical sections per step; the emulator may exit in the middle of one;
* swaps: an error shows only after a sequence of instructions, in another
  register than the one it happened to;
* destinations that are also operands: several places use an operand after it
  was overwritten;
* timing: countdowns relative to a moving clock;
* boundaries: the largest number (511 limbs) and the size 1 of the LFSR;
* programs that are written without being executed: registers reused by a
  generator, numbers of a bus that a load finds or does not find, buffers whose
  size is computed before they are filled;
* in hardware: a swap is prepared by one event, latched from registered
  multiplexers and performed by another, with other commands in between;
* in hardware: instructions in flight against an account of busy registers and
  units, in pipelines whose lengths have to fit each other.

`PROJECT.json` lists the hazards line by line.

## 2. The modules

| module | models | state and actions in the code's terms |
|--------|--------|----------------------------------------|
| `SrupMachine` | what a programmer is promised: registers of integers, ten instructions | abstract specification; `command` says which instruction was executed on which operands, so a step must have the result of that very instruction; `portA`, `portB` are what the buses offer |
| `Emulator` | `emulate`, `execute_instruction`, `read_int_number` | variables are those of the C function; one action per instruction, `AddSub` for the two tables, `LoadFault` and `DecodeFault` for the exits, `EndEmulation` |
| `TimeMaker` | `time_maker.c` and the calls made of it | `timer` stands for the 26 globals; `Occupies` is the switch of `check_and_calculate_time_jump`, `Spent` is `spend_time`, `Extra` is `add_extras`; one action per kind of call. `until`, `written`, `loaded` are history |
| `DpiDebugger` | the test bench's calls and the child process | `pc[p]` is the function process `p` is in; `Enter` is `sem_wait`, `Leave` is `sem_post`; an action between them for the work of each `read_shm_*`/`write_shm_*`; `todo` is what is left to do of a `debug_instruction` |
| `Lfsr` | `num2lfsr`, `lfsr2num` | one round of each loop per step |
| `ProgramFiles` | what the generators have in common: `emu_open`/`emu_close` of the streams, the byte buffer, `md5sum_print` | `num_command` counts the bytes in the buffer of `size_commands` bytes, `emitted` and `delivered` those of the program and of `prog.bin`; `busA`, `busB` are the numbers written; `reg`, `live`, `out` and the load counters follow what the program computes while it is written (history) |
| `ProgramGen` | `factorial_data.c` (new and old generator), `powernn_data.c`, `addition_data.c`, `random_data.c`, `1ddgf_data` | an action is one instruction emitted, with the test that says what comes next; `stage`, `step` and `n` are the place in the generator and its loop counter; registers and loop bounds are those of the code |
| `MultSchedule` | `mult_regs_address` and its helpers, `m_init`, `m_get_indices`, `m_modify_addr` | the static variables of `dpi_module.c` under their names; an action is one pass of an inner loop |
| `TestData` | `tbGenTestDataAddition/Subtraction/MultiplicationIntegerSeedSrup` and the conversions between strings and arrays of limbs | the arrays `a`, `b`, `c`, `c_ext` and their `last` marks as the bench keeps them from call to call; composed with `MultSchedule`, which puts the stream of a multiplication in order |
| `CpuMapper` | `cpu_mapper`, `cpu_mapper_reg`, `cpu_mapper_swapper`; the command register, the decision to take, `r_swap_pre` and the adder as far as the mapper sees them | `reg[r]` is a `cpu_mapper_reg` with its number and one-hot vector, `mux` the registered multiplexers, `swapper`, `a2m`, `m2a` the latches of a swap; `Clock` is the rising edge; `phys` is `Emulator!phys`, the map as the host is told |
| `CpuInstructions` | what each instruction of the coprocessor reads, writes and needs | the busy modes and uses of registers in `cpu_prefetch` |
| `Scoreboard` | what the control part promises the host: instructions in order, each once, none before what it needs is free | abstract specification; `reads[u]`, `writes[u]` are the registers a unit is at work on |
| `CpuIssue` | `cpu_prefetch`, `cpu_blocker`, `cpu_busybox`, the starts and routes of `cpu_executer`, `cpu_cmc_switch`, the counters of the units and the starts of the loaders | one variable per entity, with its flip-flops as fields; `Clock` is the rising edge, and has a conjunct per entity; `Host` is the sender (`prog_loader`), `Units` the ends of the units; `fresh`, `reads`, `writes` are history |
| `*Proofs` | theorems about each | |
| `MC*` | values of the constants for TLC | |

Abstractions:

* `Emulator`: the program is not stored; its bytes are read once and in order,
  so each is chosen when fetched. A number of a bus is a record of its size in
  the header, its value and what is wrong with its header. Bus counters count
  words of eight bytes. Integers beyond `Value` are not explored by the run
  (GMP has no bound); the theorems hold for any `Value`, `Int` included.
* `TimeMaker`: operand sizes are inputs, so the module covers every program.
* `DpiDebugger`: a register's content is the identity of the number (which
  instruction made it and as which of its two results) and its number of limbs.
  Sizes of results range over all that the arithmetic allows, and more: any
  number may have either sign, so all branches of the tables are taken. The
  slots' bytes are abstracted to "holds this number" or "partly cleared"; the
  limbs by which a write exceeds its slot are counted, as is what is behind.
  Waiting with `usleep` has no state. The process id has no effect but in
  `waitpid`.
* `ProgramFiles`, `ProgramGen`: the text, simulator and binary forms of a file
  are written together and kept once. A random number is a member of `Numbers`.
  The factorial and the powers, which the properties compare with, are constant
  functions (`Fact`, `Power`) with their recursion as an assumption.
* `TestData`: a limb has `LimbDigits` digits of base 2, for 16 of base 16. A
  random number is a member of `Numbers`, which holds numbers with leading zero
  limbs and numbers all of whose digits are set. `MAX_PREC` is the parameter of the
  benches that their arrays are made for; operands are not longer. The powers of
  the base (`Weight`) are a recursive function (`Power2`).
* `CpuMapper`: a one-hot vector is the set of its bits. `add` stands for `add`
  and `sub`, since only whether the signs make it subtract matters here (`sub`).
  Of a limb only whether it is all ones is kept. `Ripe` is the least time a
  command stands before it is taken, `Latency` that from taking it to the
  adder's first limb, `Settle` that from the last limb to the destination
  being free. As in `CpuIssue` no instruction has its destination among its
  sources. What keeps a command from being taken while the adder holds one of its
  registers is a guard of `Take`: it is what `CpuIssue` is about.
* `CpuIssue`: how long a unit works depends on the sizes of numbers and is left
  open, from the least number of clocks on (`Lead`; for `unl` the constant
  `UnlLead`: an unload of n limbs has a lead of n+1, so 4 means three limbs or
  more). The delays of the results (27 and 54 clocks) are constants.
  `sub` is `add`. Registers have their logical names: a swap exchanges the
  destination and the shadow register while the adder holds both
  (`CpuMapper!ExchangesHeld`), so what is busy under a name stays busy. That is
  so for numbers of registers. The one-hot vectors can miss a register (section
  6, 11), and then the account is short of what this module says it holds. `r_cmd` changes with the last byte only, as
  nobody looks at it before. Numbers come over the buses without a gap. No
  instruction has its destination among its sources (the code's own to do,
  `cpu_busybox.vhd:24`), and programs consist of whole instructions without
  `zero` and `set1`.  `line` is the delay from `r_cmd` to the one-hot vector of
  all registers, through prefetch, mapper and its gate.
* All software parts stop where the process exits: nothing it leaves is read again.

## 3. The runs

| run | question | bounds, and why they are enough |
|-----|----------|---------------------------------|
| `emulator` | does the arithmetic with its swaps implement plain integers; is `phys` a permutation; are the bus counters right | three registers: enough for two operands and a different destination, for a register not involved, and for two destinations to compete for the shadow register; values −2..2 give every case of both tables (`<`, `=`, `>` and every sign, zero included); programs of 10 bytes: two long instructions and a short one, so two swaps after a load, up to five short ones; bus files with a number that has a leading zero limb, a negative one, the end of the file and faulty headers (the remaining exit codes differ in the number only; the type theorem covers them) |
| `time_maker` | are countdowns what remains of reservations; are resources exclusive; are operands ready; does the total cover the last result | two registers (same and different operands), sizes 0 and 7 (a zero has no limbs; `7*7` exceeds all other delays), instructions issued up to clock 20, so that three or more are in flight |
| `dpi` | one instruction per call; registers seen are exact; memory guarded | two logical registers and the shadow register, programs of 0 and 3 instructions of every kind, faults included; slots of 16 limbs, which three instructions on numbers of one limb cannot fill |
| `dpi_live` | does `Stop` return; does `Proceed` return unless the emulator exits on faulty input | programs of 0 to 2 instructions of three kinds, among them a fault: between them one that writes once, one that writes twice and swaps, and one that exits |
| `cpu` | is the account of busy flags exact, is what is issued free, does each unit have its route; does the control part implement the scoreboard | four registers and the shadow register, six instructions of every kind with operands that depend on each other, programs of four that begin with a load or an unload, any pauses, any lengths; delays of 2 and 3 clocks, so that results meet the next issue; without the coincidences below |
| `cpu_live` | is everything issued | programs of three, all coincidences allowed; one load, which waits for itself |
| `cpu_start` | violated (section 6) | the real delays of 27 and 54 clocks |
| `mapper` | do the numbers of registers agree with the emulator's whenever a command is taken; is no register lost or shared; does the map change only under the adder | three registers and the shadow register, four instructions that rename the same register again and read what was renamed; any order, any pauses; differences of two and three limbs, positive and negative, the latter with one or two limbs of ones at the top. `Ripe`, `Latency`, `Settle` are 4, 1 and 1 instead of 7, 19 and 12: shorter times mean more overlap. The theorems hold for any |
| `mapper_ones` | violated (section 6) | the code's own 7, 19 and 12 clocks |
| `program_gen` | does the program compute what its generator is for; do the buffer and the buses come out even; are operands there | arguments 1 to 9: both parities and every remainder of the factors taken three or four at a time, each loop passed not at all, once and more often; 1D-DGF for n up to 6 and every k from −n to n; three registers instead of 16 and three sums instead of nine, so that random programs use a register as operand and destination; any of the streams may fail to open |
| `test_data` | does the order of limbs visit each pair once and by columns; do the results of the bench come out right whatever call was made before | operands of 1 to 4 limbs: equal lengths, either longer, and one limb; limbs of two binary digits; two calls one after the other, of any two kinds and lengths |
| `lfsr` | does the conversion round-trip | the real length and taps, every size from 1 to 511: complete |

Bounds by name: `Value`, `BusFiles`, `ProgSizes` (Emulator), `Sizes`,
`MaxTime` (TimeMaker), `SlotLimbs`, `LoadLimbs`, `ProgLens`, `Kinds`
(DpiDebugger), `Program`, `Starts`, `MaxInstr`, `AddDelay`, `MultDelay`, `UnlLead`
(CpuIssue), `Program`, `Differences`, `Sums`, `Ripe`, `Latency`, `Settle`
(CpuMapper), `MaxN`, `Jobs`, `REPF`, `NUMREG`, `Numbers` (ProgramGen), `Limbs`,
`Numbers`, `LimbDigits`, `MAX_PREC`, `MaxCalls` (TestData).

Where the times of `CpuMapper` come from: the last limb leaves the adder 19 clocks
after the last of its operands is asked for; the map has changed two clocks
later; the destination is free, and a command that waits for it taken, 34 clocks
after the same event at the earliest. `r_swap_pre` comes one clock after the
command is taken, and a command stands in its register for eight clocks or more
before that. The run `mapper` excludes limbs of ones within a positive
difference, which are a finding of their own (section 6, 10).

Three coincidences are findings of their own (section 6), and would hide all
else in the run `cpu`: a load for a loader at work, a unit started while both
routes are used, a register freed in the three clocks before its mode is
adopted. The constant `Rules` names those that a run does not enter: a state in
which one would happen has no successor to it, which is why deadlock is not
checked there. `cpu_live` leaves out none. What `cpu`
shows is: with these three repaired, and with unloads of three limbs or more,
the rest is right.

Deadlock is checked for `DpiDebugger`, whose two processes might wait for each
other, with `Ended` for its proper end, in `cpu_live`, in `mapper`, and in
`program_gen` and `test_data`, where `Halted` and `Done` stand for the end.  The
other modules are of sequential programs that stop: at the end of the program,
on a fault, at the bound of the clock, or on return.

The type invariants are theorems (section 5) and hold in every run; no run
spends its time on them.

## 4. Fairness

`DpiDebugger!FairSpec` is used for `dpi_live` only.  Weak fairness of `Bench`
and of `Emu`: a process inside a function goes on, since the operating system
runs it; no call (`tbEmusrupProceed`, ...) is fair, since the bench need not make
one.  Strong fairness of `Enter(p)`: each process polls in a loop that maps and
opens the memory and the semaphore anew each time, so the semaphore is free
again and again and its holder never gets it back without delay; POSIX does not
promise that a waiter is never passed over, but the scheduler would have to time
every attempt badly for ever. Without it `StopReturns` fails trivially.

`CpuIssue!FairSpec` is used for `cpu_live` and `cpu_start`. Weak fairness of
`Clock`: the clock runs. Of `Clock` with a byte valid while an instruction is
incomplete: the host sends what it has begun (`prog_loader` sends its file
without end); nothing obliges it to begin another. Of `Clock` with the
end of unit `u`, for each: counters of limbs count down, and a program comes with
the numbers it loads. Of `Clock` with the unloader's last word gone: the stream
is read (by DMA).

## 5. What is proved

All theorems are for every value of the constants under the named assumption of
each module.

* **Emulator** (`EmulatorProofs`). The type invariant is inductive. `phys` is a
  permutation because the only change is an exchange of two entries. That
  `Emulator` implements `SrupMachine` needs no invariant beyond the type: each
  action maps to one action of the machine, and the proof of `AddSub` goes
  through the twelve cases of `Main`/`Second`, first before the swap and then
  after it. `RenamesOnBorrow` follows from the same cases and from the
  permutation, since the content of a physical register is well defined only if
  just one logical register has it. `BusAligned` (`CountersAligned`) says that the counter of a bus is
  where the next number begins. That position is a sum over the headers before
  it, a function defined by recursion: that it exists, and so satisfies its
  equations, is proved by induction on the length of the bus file.
* **TimeMaker** (`TimeMakerProofs`). `Remainder` is inductive: `spend_time`
  subtracts from every countdown the time by which the clock advances, cut off
  at zero. `NoOverlap` follows from it, from the fact that the wait is at
  least each countdown needed, and for the routes from the choice of a free one.
  `ResultsReady` needs in addition that a register's reservation lasts at least
  until its result is delivered (`written[r] <= until[r]`); it is this invariant
  that `loab` breaks, so `loaded` is not part of it.
  `TotalCoversResults` (theorem `TotalIsLastResult`) follows from `Remainder` and
  `written[r] <= until[r]` once the maximum that the total is made of is known to
  exist: the countdowns stay below a bound (`Bounded`), and a bounded set of
  naturals has a greatest element by the well-foundedness of the naturals.
* **DpiDebugger** (`DpiDebuggerProofs`). `Handshake` is the inductive
  invariant: it ties together where both processes are, the semaphore
  (1 minus the number of processes inside), the control word and the two
  counters `instr` and `steps`. `MemoryGuarded`, `OneStepPerCall` and
  `QuietBetweenSteps` follow. `ViewIsCurrent` (`ViewFollows`) needs the list of
  writes and swaps that an instruction has still to make: `ViewInv` says in which
  registers the copy may differ from the emulator at each of them, and that those
  that are left bring the same content (before a swap, also the shadow register's
  precision, which is wrong at other times). It is true only as long as
  no write clears more than its slot (`Fits`), which the code does not check and
  section 6, 3 and 4, shows to fail for the largest numbers; that premise is an
  assumption about the whole behaviour in `ViewFollows` and `CheckStaysExact`.
  `LargeSlots` discharges it from the constants: if an instruction at most
  doubles the limbs and the slots hold twice what the longest program can reach
  (`LimbsSuffice`), every behaviour fits (`SizesInv`). TLC evaluates for the run
  `dpi` that its slots do (`RunsFit`).
* **CpuIssue** (`CpuIssueProofs`). The type invariant is inductive. That an
  instruction is neither overwritten nor issued twice (`OneAtATime`) needs
  `Holding`: while ready is up there is nothing to issue; a decision to take
  goes back to a `cmdReady` that still stands, unless an instruction was
  taken in the last four clocks, which `done` tells; and whenever `processed`
  or `cmdReady` is up, an instruction is held or its last byte is offered,
  and an offered byte stays until it is accepted (`Held`). It holds with any
  delays and with all coincidences.
  `TakenSafely`, `InUseIsBusy` and the refinement of `Scoreboard`
  (`TakenSafelyAlways`, `InUseIsBusyAlways`, `ImplementsScoreboard`) hold for every
  program and all delays under the conditions in `Disciplined`: `LoaderFree` and
  `NoStale` are among the `Rules`, `UnlLead >= 4`, and no instruction names one
  register in two parts. Section 6, 6 to 8, shows for the first three that the
  theorems are false without them. `IssueInv` is the inductive invariant. The
  account is sound because a register in use is marked, has the mode of its user
  from two clocks after the instruction was taken (`Modes`), and is given free
  only by a signal of that user (`Ends`). The comparison is sound because what
  `cpu_blocker` sees is a known number of clocks old: `Lines` says for each value
  of the wait which stages of the pipeline hold the registers of the instruction
  that waits. The last stage may still hold those of the one before; then
  that one is too young to be done with all its registers (`Young`, `Older`),
  which makes the comparison find a register marked, and wait.
  `NothingLeaks` (`NothingLeaksEver`) needs in addition that a marked register is in
  use or its signal on its way (`Accounted`); `HasRoute` (`HasRouteAlways`) needs
  `"RouteFree"` too, and that the route of a unit has not been told to close while
  the unit is at work (`Routes`).
* **Lfsr** (`LfsrProofs`). One backward round undoes one forward round, for any
  length and any taps that contain the last position: the bit shifted out is
  recovered from the parity. The register is never zero since a shift that gave
  zero would have come from zero. `RoundTrip` (`SizesComeBack`) holds for every
  register and taps with the full period of `MaxRounds` (`FullPeriod`): while
  the loops run, the register is at the place of its orbit that the counter
  says, so `lfsr2num` stops after exactly the rounds that were made. That the
  taps of length 9 have it is computed by TLC (`PeriodOfTaps`).
* **ProgramGen** (`ProgramGenProofs`). `PlacesKept`: for every place of the
  generators that multiply (both factorials, the powers) an invariant says what
  each register in use holds, as a function of the loop counter, how many bytes
  have been emitted, and how many numbers are on the buses and how many of them
  taken. It is needed because the result alone says nothing about a loop half
  done. `DrawnInv` is the same for the other three, whose operands are drawn
  or follow from n and k: how many numbers are on the buses, which sum is in
  which register, how much of the unrolled loop is behind. `ResultRight`,
  `BufferFits` and `BusesUsedUp` are theorems for all six generators and every
  argument (`ResultAlwaysRight`, `BufferAlwaysFits`, `BusesAlwaysUsedUp`).
  `RejectsOnlyNegative` (`OnlyNegativeRejected`) needs that the sum that
  `1ddgf_data` programs, an alternating sum of products of two binomials, is what
  the closed form of its check says. `BinomialIsChoose`: `binomial_mpa` computes
  the number of subsets, since after each of its divisions the value is again a
  binomial, by Pascal's rule. `DgfIsGreen`: in three neighbouring sums the
  summands combine to differences of one function (`TermsDiffer`), so the sums
  obey S(m+2,k) = S(m+1,k-1) + S(m+1,k+1) - S(m,k), and the closed form obeys it, too.
  `OperandsReady` is proved for all six generators (`OperandsAlwaysReady`): `Needs`
  names for every place the registers that must have been written by then, and
  since a register once written stays so, the values do not matter.
  `1ddgf_data` computes its sum twice, in the program it writes and in `mpz_res`,
  and checks the second: that both are the same is part of `DgfInv`, so the
  result that a program unloads is the one that was checked.
* **MultSchedule** (`MultScheduleProofs`). `Shape` gives where the column
  starts, its length and the number of pairs written, as functions of the loop
  counter, in each of the three loops (growing, level and shrinking columns);
  `Visited` says that the pairs written are exactly those before the next one in
  the order of columns. Both are inductive together. From them: no entry is
  written behind the arrays (`StaysInArrays`), each pair is visited once
  (`VisitsOnce`), by columns (`VisitsByColumn`), for all lengths.
  `SignalsOK` adds what the control signals have told so far: how far the starts
  of columns have been marked (`CycleMarked`), and that up to each pair the two
  kinds of increments have been given as often as the start of its column says
  (`Counted`). That a unit which counts them replays the starts of the columns
  (`SignalsTellStarts`) is read off from it.
* **TestData** (also `MultScheduleProofs`). `OrderedBySchedule`: a behaviour of
  `TestData` is one of `MultSchedule`, so what is proved of the order holds in it. The
  inductive invariant `DataInv` adds to the three properties only `Prepared`: until
  the order is finished the operands are those drawn. What makes the proofs long
  is arithmetic, for limbs of any size and operands of any length. `LimbsValue`: a
  number below the given power of the base is the sum of its limbs with their weights.
  `SumProduct`, `SumReindex`, `SumUnion`: sums over finite sets multiply out, do not
  depend on how the set is indexed, and can be split. `ColumnsMirror`: the
  streams deliver the order from its end, with limbs counted from the top, while
  `cycle` is delivered from its beginning. They still fit, since the columns of a
  pair and of the one as far from the other end always add up to the same: in an
  order by columns that visits each pair once, too few columns would leave more
  pairs opposite than there are places.
  With `VisitsOnce`, which makes the entries of the stream and the pairs of limbs
  correspond one to one, and `VisitsByColumn`, the stream adds up to the result
  (`StreamIsProduct`). `ReadsResult` is that each call overwrites the limbs below the
  length of its result; `ResultsOpposite` that a difference and its complement,
  both filled up by their sign, cancel at the length read.
* **CpuMapper** (`CpuMapperProofs`). The inductive invariant `IInv` goes by the
  phase of the addition (idle, waiting for its first limb, within it, settling):
  what the swapper has latched is the destination of the addition at work; the
  values that the registers would load are, for a register about to be exchanged,
  those of `phys`; every register that the adder does not hold has the number
  that `phys` gives it. `NumbersAlwaysAgree` needs all of it, since the map and
  `phys` do differ while an addition is at work. The theorems hold for any
  `Ripe`, `Latency` and `Settle`, and assume that the only limbs of ones are among
  the last two of a negative difference (`OnesLast`); without that they are false
  (section 6, 10).
  `ClaimsNoOther` (`ClaimsNoOtherEver`) needs `Ripe >= 4` and `Settle >= 1` besides,
  the times with which it is checked: `PipelineOK` follows the vectors from the
  registers to the account of busy registers, clock by clock as the command
  stands, and says that what is on the way belongs to its registers unless the
  adder may still exchange them, in which case the command is not taken.

The library's induction theorems take an operator as a parameter and cannot be
used with these provers. Where induction is needed it is made by counting
(`SetInduction` in `EmulatorProofs`, `ProgramGenProofs` and `MultScheduleProofs`): a set of naturals
with 0 and the successors of its members leaves out no n, since on its part below
n taking the successor would be an injection of a finite set into itself that
misses 0.

Only model-checked: the liveness properties, which with `ENABLED` are beyond the
prover. Every safety property and every action property of a passing run is a
theorem.

Every property of a passing run also has a mutant: an operator next to the
definition it replaces, marked "Mutant", with a plausible bug, for which TLC
reports the property violated.

## 6. Where the code disagrees with its documentation

Those without a run are reproduced with the configuration that is given.

1. `loab` is timed as if it loaded register 0 with nothing
   (`emusrup.c:582` passes the register as regA, `time_maker.c:108` looks at
   regB). Take `time_maker` with `PROPERTY LoabReady`.
2. `tbEmusrupProceed` never returns when the emulator exits on faulty input in
   that step (`emusrup.c:3723`). Take `dpi_live` with `PROPERTY StepReturns`.
3. `add`/`sub` of numbers of the full 511 limbs clear eight bytes behind the
   shadow register's slot, where the precisions of registers 0 and 1 are. Take
   `dpi` with `SlotLimbs = 2` (for the 511 of the code), `LoadLimbs <-
   TwoLimbs`, `ProgLens <- Lens`, `Kinds <- AddKinds`; `ViewIsCurrent` is
   violated.
4. `mult` with the destination among its operands counts the limbs to clear
   after the operand has been overwritten, and for a long number clears into the
   next register's slot. As 3, with `LoadLimbs <- OneLimb`, `Kinds <- MulKinds`.
5. After reset the coprocessor gives no ready before it has taken an
   instruction, and it takes the first only when a byte with `last` is offered: a
   program whose first instruction has two bytes, such as that of
   `addition_data.c`, never starts (`cpu_prefetch.vhd:139`): run `cpu_start`.
6. A waiting byte counts as processed before it is accepted
   (`cpu_prefetch.vhd:170`), so the wait of `cpu_blocker` is short by what it
   waited. After an unload of one or two limbs the next instruction can be
   compared with the registers of that unload, and taken although its own are
   in use. No run of its own: take `cpu` with `Program <- AfterUnload`,
   `Starts <- AfterUnloadStarts`, `UnlLead = 2`; `TakenSafely` is violated.
7. Nothing waits for a loader (`cpu_blocker.vhd:91`): a load issued while its
   loader is at work for another register is lost. Take `cpu` with
   `Program <- TwoLoads`, `Starts <- TwoLoads`, `MaxInstr = 3`, `AddDelay = 27`,
   `MultDelay = 54`, without `"LoaderFree"`; `TakenSafely` is violated.
8. A register is marked busy two clocks before the mode that says by which
   event it is freed (`cpu_busybox.vhd:287`); an event of its previous user
   in between cancels the mark. As 7, with `Rules = {"LoaderFree",
   "RouteFree"}` and `MaxInstr = 4`; `InUseIsBusy` is violated.
9. Nothing waits for a route (`cpu_executer.vhd:227`): a third unit takes route 0
   from another. Take `cpu` with a register `r4`, `Program <- ThreeUnits`,
   `Starts <- AfterUnloadStarts` and without `"RouteFree"`; `HasRoute` is violated.
10. The mapper is told to swap by any limb of ones that the adder writes, not by
    the last one (`cpu.vhd:295`): a positive difference with such a limb below
    its top exchanges two registers whose numbers the host does not exchange, and
    later instructions use the wrong ones: run `mapper_ones`. Three limbs of ones in a
    row, in a negative difference, leave two registers with the same physical one: `mapper` with
    `Differences <- LongOnes`; `MapsApart` is violated.
11. "PHYSICAL REGISTER ONE HOT OUT" (`cpu_mapper.vhd:266`) is not always the
    vector of the registers named: that of the shadow register is put out for
    instructions that use it only (`cpu_mapper_reg.vhd:91`), and a swap copies what
    is put out. After a negative difference, if the next command is no
    addition, a register is left with an empty vector, and the account of busy
    registers does not see it. Take `mapper_ones` with `Differences <- Plain` and
    the invariant `ClaimsAll`. What remains true is `ClaimsNoOther`: a register
    may be missed, but none is taken for another.
12. `scalar_dgf_cflf1_std`, with which `1ddgf_data` checks its sum, takes k as an
    unsigned number (`srup_code_gen.c:77`): a negative k is larger than n, the value
    asked for is 0, and where |k| < n and n+k is odd the right sum, 1, is rejected and
    no program delivered. Take `program_gen` with `INVARIANT RejectsOnlyWrong`. That
    it rejects nothing for k >= 0 is the theorem `OnlyNegativeRejected`.
13. `powernn_data` closes seven of its nine streams and then digests nine files
    (`powernn_data.c:233-278`): the digests of the binary bus files are not those of
    the files that the program leaves. The other generators close all nine. Take
    `program_gen` with `INVARIANT DigestsOfFiles`.

Met in passing, without a property of their own (the first two are in
`ProgramGen` and `ProgramFiles` as the code has them):

* `factorial_data 1` unloads nothing; the generator it replaced would write
  behind its buffer for 1, and the one in use allocates four bytes too many.
* the list of digests is looked at for being opened in `addition_data.c` only.
* `mult_regs_address` clears `cycle[0..A*B]`, one entry more than the array of
  `multiplier_dpi_TB.sv` has.
* the limb of an addition above its result keeps what an earlier call left there
  (`TestData`: `ResultBelowPrec` speaks of the limbs below `c_prec` only), and
  the fill of a negative difference begins too low where the complement has a zero
  top limb (excluded in `DifferencesOpposite`).
* `tbEmusrupCheckShadow` compares the shadow register's number with `NUMALLREG`.
* the loader loses or repeats a limb when its stream has a gap, and takes the
  sign when the last word is there; the unloader expects a sink that is always
  ready; `core_looper_wrapper` connects a port that its core does not have.

## 7. What is not modelled, and the plan

Not planned, and why: text output and verbosity, formatting of files, `md5sum`
itself, the Qt program writer, host runtimes, helpers, VHDL generators, simulator
scripts and vendor wiring keep no state that outlives a call, or none of this
repository's making; `emulate_in_background` and the `REGZERO` and `EMUOPT`
variants are not built. `cpu_cmc` and the followers, the loader, unloader,
registers, adder and multiplier appear in `CpuIssue` and `CpuMapper` only by their
times and by the events they give; their data paths (carries over small limbs,
accumulation in DSP blocks, block RAM) are pipelines of vendor primitives whose
widths would have to be cut to fit a model checker.

Of modelled parts the following is left out: in the debugger the content of
numbers; in `lfsr.c` the conversion of arrays; of the number files what no
emulator run reads; in `dpi_module.c` the printing of vectors and the random
generators; in the control part `zero`, `set1` and broken programs.

Plan, most important first:

1. The composition of `CpuMapper` with `CpuIssue`: an account of busy registers by
   physical register, with the vectors that the mapper gives.
2. `Loader`/`Unloader`: streams with back-pressure; no word is lost or
   duplicated; abstract specification: a queue.
3. `RegisterCtrl`, `Adder`: read/write modes; carries over small limbs against
   the integer sum.
4. `LfsrArrays`: `arr2lfsrf` and `lfsrf2arr` are inverse; `limbs2lfsr`.
