---------------------------- MODULE MCProgramGen ----------------------------
(* Small arguments for every generator; random_data with three registers. *)
EXTENDS ProgramGen

MCMaxN == 9

MCFact[m \in 0 .. MCMaxN] == IF m = 0 THEN 1 ELSE m * MCFact[m - 1]

MCPower == [m \in 1 .. MCMaxN |->
              LET p[i \in 1 .. m] == IF i = 1 THEN m ELSE p[i - 1] * m IN p]

MCJobs == [gen : {"factorial", "power"}, n : 1 .. 9, k : {0}]
     \cup [gen : {"old_factorial"}, n : 2 .. 9, k : {0}]
     \cup [gen : {"addition"}, n : {1}, k : {0}]
     \cup [gen : {"random"}, n : {2}, k : {0}]
     \cup {j \in [gen : {"dgf"}, n : 1 .. 6, k : -6 .. 6] : -j.n <= j.k /\ j.k <= j.n}
=============================================================================
