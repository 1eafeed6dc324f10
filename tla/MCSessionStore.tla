--------------------------- MODULE MCSessionStore ---------------------------
(* Small instances of SessionStore for TLC. *)
EXTENDS SessionTranscript

CONSTANTS b1, b2

MCBody == {b1, b2}

System(b) == [role |-> "system", body |-> b]
User(b)   == [role |-> "user", body |-> b]

\* A new session starts with its preamble, a fork with a transcript as well.
MCInitialMessages == {<<System(b1)>>, <<System(b1), User(b1)>>}

Assistant(b) == [role |-> "assistant", body |-> b]
Hidden(b) == [role |-> "hidden", body |-> b]

MCRecordable == {User(b1), Assistant(b1)}
MCWithHidden == {User(b1), Hidden(b1)}

\* A preamble of the same length, and a longer one that needs a fresh id.
MCPreambles == {<<System(b2)>>, <<System(b1), System(b2)>>}
=============================================================================
