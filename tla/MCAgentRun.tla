----------------------------- MODULE MCAgentRun -----------------------------
(* AgentRun for TLC: every call of a reply comes with the same id, so that *)
(* the second one is repaired.  A lone image call stands for an exclusive  *)
(* tool that is run; `denied` is one that is answered without being run.   *)
EXTENDS AgentRun

\* Two images do not fit a compaction that allows three tokens.
MCWeight == ("one" :> 1) @@ ("two" :> 1) @@ ("[image]" :> 2)
MCIds == {<<"provider">>}
MCErrors ==
    {[exceeded |-> FALSE, status |-> "5xx", network |-> FALSE],
     [exceeded |-> FALSE, status |-> "429", network |-> FALSE],
     [exceeded |-> FALSE, status |-> "4xx", network |-> FALSE]}
=============================================================================
