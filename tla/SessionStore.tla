---------------------------- MODULE SessionStore ----------------------------
(***************************************************************************)
(* One session of FileSessionStore (crates/kiliax-core/src/session.rs) and *)
(* the operations LiveSession performs on it under its session mutex       *)
(* (crates/kiliax-server/src/state/live_session.rs).                       *)
(*                                                                         *)
(* The mutex makes the operations sequential, but each is several file     *)
(* writes with awaits between them: append the event line, apply it to     *)
(* memory, write meta.json, sometimes write snapshot.json and meta.json.   *)
(* Every such write is a step of its own here, and between two steps the   *)
(* process may die, a write may fail, or the future that performs the      *)
(* operation may be dropped.                                               *)
(***************************************************************************)
EXTENDS SessionLog

CONSTANTS CheckpointEvery,   \* FileSessionStore::checkpoint_every
          InitialMessages,   \* what sessions are created with: a set of sequences
          Preambles,         \* what build_preamble may return: a set of sequences
          Recordable,        \* the messages runs record
          Operations,        \* the operations of this instance, a subset of OpName
          MaxSeq,            \* bound on last_seq and on the length of the log
          Faults             \* the faults of this instance, a subset of Fault

OpName == {"message", "outcome", "goal", "edit", "regenerate", "settings", "compact"}

(***************************************************************************)
(* crash   the process dies between two writes                             *)
(* iofail  a write fails and writes nothing                                *)
(* torn    the process dies inside append_event_line: part of the line, or *)
(*         all of it without its newline, is in the file                   *)
(* drop    the HTTP server drops the handler's future (its client went     *)
(*         away) between two awaits; the live session survives             *)
(* legacy  the snapshot was written by an older version that inserted a    *)
(*         message without an id                                           *)
(***************************************************************************)
Fault == {"crash", "iofail", "torn", "drop", "legacy"}

ASSUME CheckpointEveryAssumption == CheckpointEvery \in Nat \ {0}
ASSUME BoundAssumption == MaxSeq \in Nat
ASSUME ChoiceAssumption == Operations \subseteq OpName /\ Faults \subseteq Fault
ASSUME NullAssumption ==
    /\ NULL \notin Body /\ NULL \notin State /\ NULL \notin Nat
    /\ NULL \notin Message /\ NULL \notin Checkpoint /\ NULL \notin Goal
ASSUME MessagesAssumption ==
    /\ InitialMessages \subseteq Seq(Message)
    /\ Recordable \subseteq {m \in Message : m.role # "system"}
    /\ Preambles \subseteq Seq([role : {"system"}, body : Body])

VARIABLES
    log,      \* the lines of events.jsonl
    ended,    \* events.jsonl is empty or ends with a newline
    snap,     \* snapshot.json, NULL if there is none
    meta,     \* the last_seq that meta.json carries, NULL if there is no file
    mem,      \* the SessionState behind LiveSession::session, NULL if not loaded
    pc,       \* where the operation that holds the mutex is
    op,       \* that operation
    regen,    \* a regenerate request between its check and its truncation
    unsaved   \* memory has a preamble that no snapshot has (history variable)

disk == <<log, ended, snap, meta>>
vars == <<log, ended, snap, meta, mem, pc, op, regen, unsaved>>

Pc == {"idle", "create", "create_snapshot",
       "append", "apply", "meta", "snapshot", "snapshot_meta"}

\* todo: events still to record; save: a checkpoint follows them; by: whose
\* future runs the operation.
Op == [todo : Seq(Event), save : BOOLEAN, by : {"worker", "handler", "resume"}]

NoOp == [todo |-> <<>>, save |-> FALSE, by |-> "worker"]

NoSession == /\ log = <<>> /\ ended = TRUE /\ snap = NULL /\ meta = NULL
             /\ mem = NULL /\ pc = "idle" /\ op = NoOp
             /\ regen = NULL /\ unsaved = FALSE

EmptyState == [messages |-> <<>>, message_ids |-> <<>>,
               context_checkpoint |-> NULL, title |-> NULL, outcome |-> {},
               goal |-> NULL, last_seq |-> 0, last_snapshot_seq |-> 0]

MessageLines(ms) == [i \in 1..Len(ms) |-> EventLine(i, MessageEvent(ms[i]))]

\* A session on disk whose snapshot holds a system message that has no id.
LegacySession(ms) ==
    LET st == [Replay(EmptyState, MessageLines(ms)) EXCEPT
                   !.last_snapshot_seq = Len(ms)]
    IN  /\ log = MessageLines(ms) /\ ended = TRUE
        /\ \E b \in Body :
              snap = [st EXCEPT !.messages = <<[role |-> "system", body |-> b]>> \o @]
        /\ meta = Len(ms)
        /\ mem = NULL /\ pc = "idle" /\ op = NoOp
        /\ regen = NULL /\ unsaved = FALSE

Init == \/ NoSession
        \/ "legacy" \in Faults /\ \E ms \in InitialMessages : LegacySession(ms)

-----------------------------------------------------------------------------
\* FileSessionStore::create

Create ==
    /\ pc = "idle" /\ mem = NULL /\ log = <<>> /\ snap = NULL /\ meta = NULL
    /\ \E ms \in InitialMessages :
          /\ Len(ms) <= MaxSeq
          /\ op' = [NoOp EXCEPT !.todo = [i \in 1..Len(ms) |-> MessageEvent(ms[i])],
                                !.by = "handler"]
    /\ pc' = "create"
    /\ UNCHANGED <<disk, mem, regen, unsaved>>

CreateAppend ==
    /\ pc = "create" /\ op.todo # <<>>
    /\ log' = AppendTo(log, ended, EventLine(Len(log) + 1, Head(op.todo)))
    /\ ended' = TRUE
    /\ op' = [op EXCEPT !.todo = Tail(@)]
    /\ UNCHANGED <<snap, meta, mem, pc, regen, unsaved>>

CreateMeta ==
    /\ pc = "create" /\ op.todo = <<>>
    /\ meta' = Len(log)
    /\ pc' = "create_snapshot"
    /\ UNCHANGED <<log, ended, snap, mem, op, regen, unsaved>>

\* The state create returns is the state the initial messages replay to.
CreateSnapshot ==
    /\ pc = "create_snapshot"
    /\ LET st == [Replay(EmptyState, log) EXCEPT !.last_snapshot_seq = Len(log)]
       IN  snap' = st /\ mem' = st
    /\ pc' = "idle" /\ op' = NoOp
    /\ UNCHANGED <<log, ended, meta, regen, unsaved>>

\* FileSessionStore::delete, after ServerState::delete_session has shut the
\* live session down.
Delete ==
    /\ pc = "idle" /\ mem = NULL /\ (log # <<>> \/ meta # NULL)
    /\ log' = <<>> /\ ended' = TRUE /\ snap' = NULL /\ meta' = NULL
    /\ regen' = NULL
    /\ UNCHANGED <<mem, pc, op, unsaved>>

-----------------------------------------------------------------------------
\* The operations.  Each takes the mutex (pc = "idle") and becomes a list of
\* events to record, possibly followed by a checkpoint.

Ready(n) == /\ pc = "idle" /\ mem # NULL
            /\ mem.last_seq + n <= MaxSeq /\ Len(log) + n <= MaxSeq

Start(events, save, by) ==
    /\ op' = [todo |-> events, save |-> save /\ events # <<>>, by |-> by]
    /\ pc' = IF events # <<>> THEN "append" ELSE "snapshot"
    /\ UNCHANGED disk

\* LiveSession::record_message, from run_one and handle_agent_event
RecordMessage ==
    /\ Ready(1)
    /\ \E m \in Recordable : Start(<<MessageEvent(m)>>, FALSE, "worker")
    /\ UNCHANGED <<mem, regen, unsaved>>

\* record_finish / record_error, at the end of run_one
RecordOutcome ==
    /\ Ready(1)
    /\ \E t \in {"finish", "error"} : Start(<<Plain(t)>>, FALSE, "worker")
    /\ UNCHANGED <<mem, regen, unsaved>>

\* add_goal_usage and GoalBackend::complete_goal
RecordGoalProgress ==
    /\ Ready(1) /\ mem.goal # NULL
    /\ \E ev \in {Plain("goal_usage"), GoalCompleted(mem.goal)} :
          Start(<<ev>>, FALSE, "worker")
    /\ UNCHANGED <<mem, regen, unsaved>>

\* LiveSession::set_goal, clear_goal
ChangeGoal ==
    /\ Ready(1)
    /\ \E ev \in {GoalSet, Plain("goal_cleared")} : Start(<<ev>>, TRUE, "handler")
    /\ UNCHANGED <<mem, regen, unsaved>>

UserMessageIds(st) ==
    {st.message_ids[i] : i \in {k \in 1..Len(st.messages) :
                                   st.messages[k].role \in {"user", "hidden"}}}

VisibleUserMessageIds(st) ==
    {st.message_ids[i] : i \in {k \in 1..Len(st.messages) : st.messages[k].role = "user"}}

\* apply_edit_user_message.  The session's lifecycle lock keeps edit and
\* regenerate requests apart from each other, and only those.
EditUserMessage ==
    /\ Ready(2) /\ regen = NULL
    /\ \E id \in UserMessageIds(mem), b \in Body :
          Start(<<MessageEdit(id, [role |-> "user", body |-> b]), TruncateAfter(id)>>,
                TRUE, "handler")
    /\ UNCHANGED <<mem, regen, unsaved>>

\* apply_regenerate_after_user_message checks under the mutex, releases it, and
\* takes it again to truncate.
CheckRegenerate ==
    /\ Ready(1) /\ regen = NULL
    /\ \E id \in VisibleUserMessageIds(mem) : regen' = id
    /\ UNCHANGED <<disk, mem, pc, op, unsaved>>

Regenerate ==
    /\ Ready(1) /\ regen # NULL
    /\ Start(<<TruncateAfter(regen)>>, TRUE, "handler")
    /\ regen' = NULL
    /\ UNCHANGED <<mem, unsaved>>

\* patch_settings and from_state write the settings into meta and checkpoint.
PatchSettings ==
    /\ Ready(0)
    /\ Start(<<>>, TRUE, "handler")
    /\ UNCHANGED <<mem, regen, unsaved>>

\* apply_settings_now
ApplySettings ==
    /\ Ready(0)
    /\ \E p \in Preambles, by \in {"worker", "handler"} :
          /\ ReplacePreamble(mem, p).last_seq <= MaxSeq
          /\ mem' = ReplacePreamble(mem, p)
          /\ Start(<<>>, TRUE, by)
    /\ unsaved' = TRUE
    /\ UNCHANGED regen

LastId(st) == IF st.message_ids = <<>> THEN 0
              ELSE st.message_ids[Len(st.message_ids)]

\* compact_session_context, from the point where it takes the mutex
CompactContext ==
    /\ Ready(1)
    /\ \E p \in Preambles :
          LET st == ReplacePreamble(mem, p)
          IN  /\ st.last_seq + 1 <= MaxSeq
              /\ mem' = st
              /\ Start(<<ContextCheckpoint([base |-> LastId(st),
                                            covers |-> Entries(st)])>>,
                       TRUE, "worker")
    /\ unsaved' = TRUE
    /\ UNCHANGED regen

-----------------------------------------------------------------------------
\* record_event and checkpoint, one write per step

\* What the operation does when a record or a checkpoint has returned Ok.
Advance ==
    \/ op.todo # <<>> /\ pc' = "append" /\ op' = op
    \/ op.todo = <<>> /\ op.save /\ pc' = "snapshot" /\ op' = [op EXCEPT !.save = FALSE]
    \/ op.todo = <<>> /\ ~op.save /\ pc' = "idle" /\ op' = NoOp

NewLine == EventLine(mem.last_seq + 1, Head(op.todo))

AppendEventLine ==
    /\ pc = "append"
    /\ log' = AppendTo(log, ended, NewLine)
    /\ ended' = TRUE
    /\ pc' = "apply"
    /\ UNCHANGED <<snap, meta, mem, op, regen, unsaved>>

Apply ==
    /\ pc = "apply"
    /\ mem' = ApplyEvent(mem, Head(op.todo), mem.last_seq + 1)
    /\ op' = [op EXCEPT !.todo = Tail(@)]
    /\ pc' = "meta"
    /\ UNCHANGED <<disk, regen, unsaved>>

WriteMeta ==
    /\ pc = "meta"
    /\ meta' = mem.last_seq
    /\ IF mem.last_seq - mem.last_snapshot_seq >= CheckpointEvery
       THEN pc' = "snapshot" /\ op' = op
       ELSE Advance
    /\ UNCHANGED <<log, ended, snap, mem, regen, unsaved>>

WriteSnapshot ==
    /\ pc = "snapshot"
    /\ mem' = [mem EXCEPT !.last_snapshot_seq = mem.last_seq]
    /\ snap' = mem'
    /\ pc' = "snapshot_meta"
    /\ unsaved' = FALSE
    /\ UNCHANGED <<log, ended, meta, op, regen>>

WriteSnapshotMeta ==
    /\ pc = "snapshot_meta"
    /\ meta' = mem.last_seq
    /\ Advance
    /\ UNCHANGED <<log, ended, snap, mem, regen, unsaved>>

-----------------------------------------------------------------------------
\* load, and LiveSession::from_state, which checkpoints what it loaded

Recovered == Replay(ReplayBase(snap), log)

Load ==
    /\ pc = "idle" /\ mem = NULL /\ snap # NULL
    /\ ~Unreadable(log, ended)
    /\ mem' = Recovered
    /\ pc' = "snapshot" /\ op' = [NoOp EXCEPT !.by = "resume"]
    /\ UNCHANGED <<disk, regen, unsaved>>

-----------------------------------------------------------------------------
\* Faults

Busy == pc # "idle"

Creating == pc \in {"create", "create_snapshot"}

\* The process dies; a regenerate request in flight dies with it.
Crash ==
    /\ "crash" \in Faults /\ (mem # NULL \/ Busy)
    /\ mem' = NULL /\ pc' = "idle" /\ op' = NoOp /\ regen' = NULL
    /\ unsaved' = FALSE
    /\ UNCHANGED disk

\* Mutant: memory is changed before the line is appended.
WriteFailsAfterApply ==
    /\ "iofail" \in Faults
    /\ pc \in {"append", "meta", "snapshot", "snapshot_meta"}
    /\ mem' = CASE op.by = "resume"  -> NULL
                [] pc = "append" -> ApplyEvent(mem, Head(op.todo), mem.last_seq + 1)
                [] pc = "snapshot" /\ op.by # "resume" ->
                      [mem EXCEPT !.last_snapshot_seq = mem.last_seq]
                [] OTHER -> mem
    /\ unsaved' = (unsaved /\ op.by # "resume")
    /\ pc' = "idle" /\ op' = NoOp
    /\ UNCHANGED <<disk, regen>>

\* A write returns Err; the operation returns it (`?`).  checkpoint has already
\* set last_snapshot_seq.  A resume that fails leaves no live session.
WriteFails ==
    /\ "iofail" \in Faults
    /\ pc \in {"append", "meta", "snapshot", "snapshot_meta"}
    /\ mem' = CASE op.by = "resume"  -> NULL
                [] pc = "snapshot" /\ op.by # "resume" ->
                      [mem EXCEPT !.last_snapshot_seq = mem.last_seq]
                [] OTHER -> mem
    /\ unsaved' = (unsaved /\ op.by # "resume")
    /\ pc' = "idle" /\ op' = NoOp
    /\ UNCHANGED <<disk, regen>>

\* The process dies inside append_event_line.
TornCrash ==
    /\ "torn" \in Faults /\ pc = "append"
    /\ \E line \in {BadLine, NewLine} : log' = AppendTo(log, ended, line)
    /\ ended' = FALSE
    /\ mem' = NULL /\ pc' = "idle" /\ op' = NoOp /\ regen' = NULL
    /\ unsaved' = FALSE
    /\ UNCHANGED <<snap, meta>>

\* The future of a handler's operation is dropped at an await.
DropHandler ==
    /\ "drop" \in Faults
    /\ \/ /\ op.by = "handler" /\ Busy /\ ~Creating
          /\ pc' = "idle" /\ op' = NoOp /\ UNCHANGED regen
       \/ regen # NULL /\ regen' = NULL /\ UNCHANGED <<pc, op>>
    /\ UNCHANGED <<disk, mem, unsaved>>

-----------------------------------------------------------------------------
Operation ==
    \/ "message" \in Operations /\ RecordMessage
    \/ "outcome" \in Operations /\ RecordOutcome
    \/ "goal" \in Operations /\ (RecordGoalProgress \/ ChangeGoal)
    \/ "edit" \in Operations /\ EditUserMessage
    \/ "regenerate" \in Operations /\ CheckRegenerate
    \/ "settings" \in Operations /\ (PatchSettings \/ ApplySettings)
    \/ "compact" \in Operations /\ CompactContext

Next ==
    \/ Create \/ CreateAppend \/ CreateMeta \/ CreateSnapshot \/ Delete
    \/ Operation \/ Regenerate
    \/ AppendEventLine \/ Apply \/ WriteMeta \/ WriteSnapshot \/ WriteSnapshotMeta
    \/ Load
    \/ Crash \/ WriteFails \/ TornCrash \/ DropHandler

Spec == Init /\ [][Next]_vars
-----------------------------------------------------------------------------
(***************************************************************************)
(* Properties                                                              *)
(***************************************************************************)

\* Types of all variables; the state in memory is present exactly while an
\* operation that needs it runs.
TypeOK ==
    /\ log \in Seq(Line) /\ ended \in BOOLEAN
    /\ snap \in State \cup {NULL} /\ meta \in Nat \cup {NULL}
    /\ mem \in State \cup {NULL}
    /\ pc \in Pc /\ op \in Op
    /\ regen \in Nat \cup {NULL} /\ unsaved \in BOOLEAN
    /\ pc \in {"append", "apply", "meta", "snapshot", "snapshot_meta"} => mem # NULL
    /\ pc \in {"append", "apply"} => op.todo # <<>>

\* SessionState keeps messages and message_ids the same length, each id once,
\* none above last_seq, and transcript ids ascending, whatever sequence of
\* edits, truncations, preamble swaps, crashes and reloads produced it.
Aligned(st) ==
    /\ Len(st.messages) = Len(st.message_ids)
    /\ \A i \in 1..Len(st.message_ids) : st.message_ids[i] <= st.last_seq
    /\ \A i, j \in 1..Len(st.message_ids) :
          i # j => st.message_ids[i] # st.message_ids[j]
    /\ \A i, j \in PreambleEnd(st.messages) + 1..Len(st.messages) :
          i < j => st.message_ids[i] < st.message_ids[j]

IdsAligned == mem # NULL => Aligned(mem)

\* What load ignores: the position of the snapshot itself.
Core(st) == [st EXCEPT !.last_snapshot_seq = 0]

\* The state the operation in progress has made durable.
Durable == IF pc = "apply" THEN ApplyEvent(mem, Head(op.todo), mem.last_seq + 1) ELSE mem

\* Whatever was written so far, a load of the files gives exactly the state in
\* memory: no recorded event is lost, duplicated or applied twice by the
\* snapshot/replay split, at any point between two writes.  (A preamble swap
\* whose snapshot has not been written is the one thing memory has first.)
RecoveryExact ==
    mem # NULL /\ ~unsaved /\ snap # NULL /\ ~Unreadable(log, ended)
        => Core(Recovered) = Core(Durable)

\* The transcript in memory is the one events.jsonl alone replays to: the
\* snapshot never contributes a message, and none is missing from the log.
LogIsSourceOfTruth ==
    mem # NULL /\ pc = "idle" => Entries(mem) = Entries(Replay(EmptyState, log))

\* meta.json, which list() reads, never counts an event that load cannot find.
MetaNotAhead ==
    meta # NULL /\ snap # NULL /\ ~Unreadable(log, ended)
        => meta <= Recovered.last_seq

\* An edit whose truncation was never recorded (the process stopped between
\* the two events).
CutEdit ==
    \E i \in 1..Len(log) :
        /\ log[i].event.type = "edit"
        /\ ~\E j \in i + 1..Len(log) : /\ log[j].event.type = "truncate"
                                       /\ log[j].event.id = log[i].event.id

\* The context checkpoint sent to the model summarises only messages that are
\* still in the transcript, with the text they have there: a truncation or an
\* edit inside the summarised part drops the checkpoint.
CheckpointFresh ==
    mem # NULL /\ pc = "idle" /\ ~CutEdit /\ mem.context_checkpoint # NULL
        => mem.context_checkpoint.covers \subseteq Entries(mem)

\* Following next_before through the pages of read_message_page shows every
\* visible message of the session in memory once, in order, edited as in memory.
PagesShowTranscript ==
    mem # NULL /\ pc = "idle" /\ ended /\ (\A i \in 1..Len(log) : log[i].ok)
        => \A limit \in 1..2 : WalkPages(log, limit) = DisplayEntries(mem)

\* load tolerates an events.jsonl that the crash cut off inside its last line:
\* what it recovers is the state before that event, or the state after it when
\* only the newline is missing.
TornTailTolerated ==
    [][ TornCrash /\ ended /\ ~Unreadable(log, ended) =>
          /\ ~Unreadable(log', ended')
          /\ Recovered' \in {Recovered,
                             ApplyEvent(Recovered, Head(op.todo), mem.last_seq + 1)}
      ]_vars
=============================================================================
