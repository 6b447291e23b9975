---------------------------- MODULE ProgramFiles ----------------------------
(***************************************************************************)
(* What the program generators of data_apps have in common: nine output    *)
(* streams and a list of digests, a buffer into which the bytes of the     *)
(* program are put one instruction after the other, and two buses.  The    *)
(* three forms of each file (text, simulator input, binary) are written    *)
(* together; what is on a bus is kept once, as the sequence of its numbers.*)
(*                                                                         *)
(* A program has no jumps, so what it computes is followed while it is     *)
(* written: reg, live, out and the two load counters say where the         *)
(* coprocessor stands after the instructions emitted so far.  They are     *)
(* history variables; no generator reads them.                             *)
(***************************************************************************)
EXTENDS Integers, Sequences

Reg == 0 .. 15

Files == {"prog.asm", "busA.asm", "busB.asm", "prog.sim", "busA.sim", "busB.sim",
          "prog.bin", "busA.bin", "busB.bin"}

VARIABLES
  job,                        (* the generator and its arguments           *)
  status,                     (* "run", "done", "exit1", "exit255", "crash"*)
  stage, step, n,             (* the place in the generator, loop counter  *)
  stream,                     (* stream[f]: "none", "open", "closed"       *)
  sums,                       (* likewise, for md5sums.txt                 *)
  digest,                     (* digest[f]: "none", or of a "whole" file or*)
                              (* of a file that is still being written     *)
  size_commands, num_command, (* the buffer and how much of it is in use   *)
  emitted, delivered,         (* bytes of program emitted; in prog.bin     *)
  busA, busB,                 (* the numbers written to either bus         *)
  command,                    (* the instruction emitted last              *)
  loadsA, loadsB,             (* numbers a run would have taken so far     *)
  reg, live, out              (* its registers, those it has written, what *)
                              (* it has unloaded                           *)

control == <<stage, step, n>>
outputs == <<stream, sums, digest>>
buffer  == <<num_command, emitted, delivered>>
machine == <<command, busA, busB, loadsA, loadsB, reg, live, out>>
vars    == <<job, status, control, outputs, size_commands, buffer, machine>>

At(s, k) == status = "run" /\ stage = s /\ step = k

Go(s, k) == stage' = s /\ step' = k

Step == step' = step + 1 /\ UNCHANGED <<stage, n>>

(* Everything an emission leaves alone. *)
Emitting == UNCHANGED <<job, status, outputs, size_commands>>

-----------------------------------------------------------------------------
(* Emission of an instruction. *)

(* The bytes of one instruction.  The random generator starts its small    *)
(* buffer anew for each and writes it to prog.bin at once.                 *)
Put(instruction, bytes) ==
  /\ command' = instruction
  /\ emitted' = emitted + bytes
  /\ IF job.gen = "random" THEN /\ num_command' = bytes
                                /\ delivered' = delivered + bytes
                           ELSE /\ num_command' = num_command + bytes
                                /\ UNCHANGED delivered

Arithmetic(z, v) == /\ reg' = [reg EXCEPT ![z] = v]
                    /\ live' = live \cup {z}
                    /\ UNCHANGED <<busA, busB, loadsA, loadsB, out>>

Mult(x, y, z) == Put(<<"mult", x, y, z>>, 4) /\ Arithmetic(z, reg[x] * reg[y])
Add(x, y, z)  == Put(<<"add", x, y, z>>, 4) /\ Arithmetic(z, reg[x] + reg[y])
Sub(x, y, z)  == Put(<<"sub", x, y, z>>, 4) /\ Arithmetic(z, reg[x] - reg[y])

Unl(x) == /\ Put(<<"unl", x>>, 2)
          /\ out' = Append(out, reg[x])
          /\ UNCHANGED <<busA, busB, loadsA, loadsB, reg, live>>

(* A load, together with the numbers the generator writes for it.  It will *)
(* take the next number of its bus, whichever that is.                     *)
Loaa(x, as) == /\ Put(<<"loaa", x>>, 2)
               /\ busA' = busA \o as
               /\ loadsA' = loadsA + 1
               /\ reg' = [reg EXCEPT ![x] = busA'[loadsA + 1]]
               /\ live' = live \cup {x}
               /\ UNCHANGED <<busB, loadsB, out>>

Loab(x, bs) == /\ Put(<<"loab", x>>, 2)
               /\ busB' = busB \o bs
               /\ loadsB' = loadsB + 1
               /\ reg' = [reg EXCEPT ![x] = busB'[loadsB + 1]]
               /\ live' = live \cup {x}
               /\ UNCHANGED <<busA, loadsA, out>>

Loaab(x, y, as, bs) ==
  /\ Put(<<"loaab", x, y>>, 4)
  /\ busA' = busA \o as
  /\ busB' = busB \o bs
  /\ loadsA' = loadsA + 1
  /\ loadsB' = loadsB + 1
  /\ reg' = [reg EXCEPT ![x] = busA'[loadsA + 1], ![y] = busB'[loadsB + 1]]
  /\ live' = live \cup {x, y}
  /\ out' = out

-----------------------------------------------------------------------------
(* Opening, closing and digests. *)

FilesInit == /\ status = "run" /\ stage = "open" /\ step = 1 /\ n = 0
             /\ stream = [f \in Files |-> "none"] /\ sums = "none"
             /\ digest = [f \in Files |-> "none"]
             /\ size_commands = 0 /\ num_command = 0 /\ emitted = 0 /\ delivered = 0
             /\ busA = <<>> /\ busB = <<>> /\ loadsA = 0 /\ loadsB = 0
             /\ command = <<"none">>
             /\ reg = [r \in Reg |-> 0] /\ live = {} /\ out = <<>>

(* All streams are opened first.  One of the nine that cannot be opened    *)
(* ends the program; only addition_data.c looks at the list of digests.    *)
Open(failed) ==
  /\ At("open", 1)
  /\ stream' = [f \in Files |-> IF f \in failed THEN "none" ELSE "open"]
  /\ sums' = IF "md5sums.txt" \in failed THEN "none" ELSE "open"
  /\ IF \/ failed \cap Files # {}
        \/ job.gen = "addition" /\ failed # {}
     THEN status' = "exit1" /\ UNCHANGED control
     ELSE Go("start", 1) /\ UNCHANGED <<status, n>>
  /\ UNCHANGED <<job, digest, size_commands, buffer, machine>>

(* The streams a generator closes before it computes digests.  powernn_data*)
(* leaves the other two to the end of the program.                         *)
ClosedFiles == IF job.gen = "power" THEN Files \ {"busA.bin", "busB.bin"}
               ELSE Files

(* How much of the buffer is written to prog.bin.                          *)
Delivered == IF job.gen = "random" THEN delivered
             ELSE IF job.gen \in {"factorial", "power"} THEN num_command
             ELSE size_commands

Close == /\ At("close", 1)
         /\ stream' = [f \in Files |-> IF f \in ClosedFiles THEN "closed" ELSE stream[f]]
         /\ delivered' = Delivered
         /\ Go("md5", 1)
         /\ UNCHANGED <<job, status, n, sums, digest, size_commands, num_command,
                        emitted, machine>>

(* md5sum_print opens a file by its name and digests what is on the disk:  *)
(* of a stream that is still open that is not, or not all of, its content. *)
(* The first line printed to a list that was not opened ends the program,  *)
(* and so does a file that cannot be opened or looked at again.            *)
Md5Sums ==
  /\ At("md5", 1)
  /\ \/ sums = "none" /\ status' = "crash" /\ UNCHANGED <<digest, sums>>
     \/ sums # "none" /\ status' = "exit255" /\ UNCHANGED <<digest, sums>>
     \/ /\ sums # "none"
        /\ digest' = [f \in Files |-> IF stream[f] = "closed" THEN "whole" ELSE "part"]
        /\ sums' = "closed"
        /\ status' = "done"
  /\ UNCHANGED <<job, control, stream, size_commands, buffer, machine>>

=============================================================================
