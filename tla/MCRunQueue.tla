------------------------------ MODULE MCRunQueue ------------------------------
(* Small instances of RunQueue for TLC. *)
EXTENDS RunQueue

\* Requests against the worker; the shutdown of a session; runs that return early
\* and files that cannot be written; goals with both; another agent's close,
\* and its message while the session is deleted.
MCEnvironments ==
    {[requests |-> {"text", "history", "cancel"}, faults |-> {}],
     [requests |-> {"history", "agent_text"}, faults |-> {}],
     [requests |-> {"text", "cancel", "evict", "delete"}, faults |-> {}],
     [requests |-> {"text", "cancel"}, faults |-> {"early", "iofail"}],
     [requests |-> {"text", "goal_set", "goal_clear"}, faults |-> {"early", "iofail"}],
     [requests |-> {"text", "goal_set", "goal_clear", "evict"}, faults |-> {}],
     [requests |-> {"text", "cancel", "agent_close"}, faults |-> {}],
     [requests |-> {"agent_text", "delete"}, faults |-> {}]}
=============================================================================
