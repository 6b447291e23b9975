---------------------------- MODULE MCCpuMapper ----------------------------
(* Constants of CpuMapper for TLC.                                         *)
EXTENDS CpuMapper

I(op, a, b, c) == [op |-> op, r1 |-> a, r2 |-> b, d |-> c]

Renaming == {I("add", "r0", "r1", "r2"), I("add", "r2", "r2", "r0"),
             I("mult", "r0", "r2", "r1"), I("unl", "r2", "r2", "r2")}

\* Results of up to three limbs whose ones are the last one or two.
Plain == {<<"other", "other">>, <<"other", "ones">>, <<"ones", "ones">>,
          <<"other", "other", "ones">>}
\* Also 2^64 - 1, whose first limb is ones.
LowOnes == Plain \cup {<<"ones", "other">>}
\* Also -1 in two limbs and that of the sign.
LongOnes == Plain \cup {<<"ones", "ones", "ones">>}
NoOnes == {<<"other", "other">>}
=============================================================================
