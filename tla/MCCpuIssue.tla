----------------------------- MODULE MCCpuIssue -----------------------------
(* Constants of CpuIssue for TLC.                                          *)
EXTENDS CpuIssue

I(op, a, b, c) == [op |-> op, r1 |-> a, r2 |-> b, d |-> c]

\* Every kind of instruction, with operands that depend on each other.
Mixed == {I("loaa", "r0", "r0", "r0"), I("loab", "r1", "r1", "r1"),
          I("loaab", "r3", "r1", "r3"),
          I("unl", "r2", "r2", "r2"), I("add", "r0", "r1", "r2"),
          I("mult", "r3", "r3", "r1")}
MixedStarts == {I("loaa", "r0", "r0", "r0"), I("unl", "r2", "r2", "r2")}

\* Instructions of which any two share a register or a unit, or overlap; the
\* only load of port A waits for itself.
Flowing == {I("loaa", "r0", "r0", "r0"), I("unl", "r0", "r0", "r0"),
            I("unl", "r2", "r2", "r2"), I("add", "r0", "r1", "r2"),
            I("mult", "r1", "r1", "r3")}
FlowingStarts == {i \in Flowing : Bytes(i) = 1}

\* addition_data.c: loads both operands, adds, unloads the sum.
Addition == {I("loaab", "r0", "r1", "r0"), I("add", "r0", "r1", "r2"),
             I("unl", "r2", "r2", "r2")}
AdditionStarts == {I("loaab", "r0", "r1", "r0")}

\* A multiplication followed by an unload and a load.
AfterUnload == {I("mult", "r0", "r0", "r1"), I("unl", "r2", "r2", "r2"),
                I("loaa", "r1", "r1", "r1")}
AfterUnloadStarts == {I("unl", "r2", "r2", "r2")}

\* Loads of two registers over the same port.
TwoLoads == {I("loaa", "r0", "r0", "r0"), I("loaa", "r1", "r1", "r1"),
             I("unl", "r0", "r0", "r0")}

\* Three units with registers of their own.
ThreeUnits == {I("mult", "r0", "r0", "r1"), I("unl", "r2", "r2", "r2"),
               I("add", "r3", "r3", "r4")}
=============================================================================
