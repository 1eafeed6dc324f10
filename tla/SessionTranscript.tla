--------------------------- MODULE SessionTranscript ---------------------------
(***************************************************************************)
(* SessionStore as an implementation of Transcript.  What is durable is    *)
(* what events.jsonl alone replays to, whatever load takes from the        *)
(* snapshot; a session exists once it has a snapshot; and what is shown is *)
(* the transcript in memory.                                               *)
(***************************************************************************)
EXTENDS SessionStore

VARIABLE kept       \* the log's replay, derived in every state

Kept(lines) == LET st == Replay(EmptyState, lines)
               IN  [entries |-> Entries(st), last |-> st.last_seq]

\* "No session" is not a session.
ASSUME KeptAssumption == NULL \notin [entries : SUBSET (Nat \X Message), last : Nat]

KeptInit == Init /\ kept = Kept(log)
KeptNext == Next /\ kept' = Kept(log')
KeptSpec == KeptInit /\ [][KeptNext]_<<vars, kept>>

Abstract == INSTANCE Transcript WITH
    TranscriptMessage <- Message, Absent <- NULL,
    durable <- IF snap = NULL THEN NULL ELSE kept,
    shown   <- IF mem = NULL THEN NULL ELSE Entries(mem)

\* The store implements Transcript: appends, applies, meta and snapshot writes, crashes
\* between them, failed writes and loads amount to events recorded one by one, shown
\* afterwards, and shown again after a crash.
ImplementsTranscript == Abstract!TranscriptSpec
=============================================================================
