---------------------------- MODULE MCMultiAgent ----------------------------
(* MultiAgent for TLC: names and calls are interchangeable. *)
EXTENDS MultiAgent, TLC

AgentSymmetry == Permutations(Names) \cup Permutations(Calls)
=============================================================================
