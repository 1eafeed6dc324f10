----------------------------- MODULE SessionLog -----------------------------
(***************************************************************************)
(* The data of a persisted session and the pure functions over it, from    *)
(* crates/kiliax-core/src/session.rs: what an event does to a session      *)
(* (apply_event), how a session is rebuilt from snapshot.json and          *)
(* events.jsonl (replay_events_after_snapshot), how the visible history is *)
(* paged backwards out of events.jsonl (read_message_page), and how the    *)
(* server swaps the system preamble (preamble.rs).                         *)
(*                                                                         *)
(* A message is a role and a body.  "hidden" is a user message with        *)
(* hidden = true, "assistant" stands for assistant and tool messages.  A   *)
(* context checkpoint keeps, for the summary it stores, the set of         *)
(* messages the summary was made from.  Timestamps, settings and the       *)
(* denormalised message_count are left out: no event reads them.           *)
(***************************************************************************)
EXTENDS Naturals, Sequences

CONSTANTS Body,   \* message texts (all non-empty after trimming)
          NULL    \* Option::None

Role == {"system", "user", "hidden", "assistant"}

Message == [role : Role, body : Body]

Goal == [status : {"active", "complete"}, used : Nat]

Checkpoint == [base : Nat, covers : SUBSET (Nat \X Message)]

EventType == {"message", "edit", "truncate", "checkpoint", "finish", "error",
              "goal_set", "goal_cleared", "goal_completed", "goal_usage"}

(***************************************************************************)
(* One record shape for all events; the fields an event does not have are  *)
(* NULL (or 0).                                                            *)
(***************************************************************************)
AnyEvent == [type : EventType, id : Nat, message : Message \cup {NULL},
             checkpoint : Checkpoint \cup {NULL}, goal : Goal \cup {NULL}]

Event == {e \in AnyEvent :
            /\ e.type \in {"message", "edit"} => e.message # NULL
            /\ e.type = "checkpoint" => e.checkpoint # NULL
            /\ e.type \in {"goal_set", "goal_completed"} => e.goal # NULL}

Plain(type) == [type |-> type, id |-> 0, message |-> NULL,
                checkpoint |-> NULL, goal |-> NULL]

MessageEvent(m)      == [Plain("message") EXCEPT !.message = m]
MessageEdit(id, m)   == [Plain("edit") EXCEPT !.id = id, !.message = m]
TruncateAfter(id)    == [Plain("truncate") EXCEPT !.id = id]
ContextCheckpoint(c) == [Plain("checkpoint") EXCEPT !.checkpoint = c]
GoalSet              == [Plain("goal_set") EXCEPT
                           !.goal = [status |-> "active", used |-> 0]]
GoalCompleted(g)     == [Plain("goal_completed") EXCEPT
                           !.goal = [g EXCEPT !.status = "complete"]]

\* SessionState with the part of SessionMeta that events change.  outcome is
\* the set of the fields last_finish_reason / last_error that are Some(_).
State == [messages : Seq(Message), message_ids : Seq(Nat),
          context_checkpoint : Checkpoint \cup {NULL},
          title : Body \cup {NULL},
          outcome : SUBSET {"finish", "error"},
          goal : Goal \cup {NULL},
          last_seq : Nat, last_snapshot_seq : Nat]

-----------------------------------------------------------------------------
\* apply_event

\* Iterator::position: the first index that holds id, 0 for None.
Position(ids, id) ==
    IF \E i \in 1..Len(ids) : ids[i] = id
    THEN CHOOSE i \in 1..Len(ids) : ids[i] = id /\ \A j \in 1..(i - 1) : ids[j] # id
    ELSE 0

\* The first visible user message names the session.
ApplyMessage(st, seq, m) ==
    [st EXCEPT !.messages = Append(@, m),
               !.message_ids = Append(@, seq),
               !.title = IF @ = NULL /\ m.role = "user" THEN m.body ELSE @]

ApplyEdit(st, id, m) ==
    LET i == Position(st.message_ids, id)
    IN  IF i = 0 THEN st
        ELSE [st EXCEPT !.messages = [@ EXCEPT ![i] = m],
                        !.title = IF i = 1 /\ m.role = "user" THEN m.body ELSE @]

\* Mutant: a checkpoint whose base is the truncated message itself survives.
ApplyTruncateKeepsBase(st, id) ==
    LET i == Position(st.message_ids, id)
        c == st.context_checkpoint
    IN  IF i = 0 THEN st
        ELSE [st EXCEPT !.messages = SubSeq(@, 1, i),
                        !.message_ids = SubSeq(@, 1, i),
                        !.outcome = {},
                        !.context_checkpoint =
                            IF c # NULL /\ c.base > id THEN NULL ELSE c]

ApplyTruncate(st, id) ==
    LET i == Position(st.message_ids, id)
        c == st.context_checkpoint
    IN  IF i = 0 THEN st
        ELSE [st EXCEPT !.messages = SubSeq(@, 1, i),
                        !.message_ids = SubSeq(@, 1, i),
                        !.outcome = {},
                        !.context_checkpoint =
                            IF c # NULL /\ c.base >= id THEN NULL ELSE c]

ApplyGoalUsage(st) ==
    LET g == st.goal
    IN  IF g = NULL THEN st ELSE [st EXCEPT !.goal = [g EXCEPT !.used = g.used + 1]]

\* apply_event(state, event, ts_ms, seq)
ApplyEvent(st0, ev, seq) ==
    LET st == [st0 EXCEPT !.last_seq = IF seq > @ THEN seq ELSE @]
    IN  CASE ev.type = "message"        -> ApplyMessage(st, seq, ev.message)
          [] ev.type = "edit"           -> ApplyEdit(st, ev.id, ev.message)
          [] ev.type = "truncate"       -> ApplyTruncate(st, ev.id)
          [] ev.type = "checkpoint"     -> [st EXCEPT !.context_checkpoint = ev.checkpoint]
          [] ev.type = "finish"         -> [st EXCEPT !.outcome = @ \cup {"finish"}]
          [] ev.type = "error"          -> [st EXCEPT !.outcome = @ \cup {"error"}]
          [] ev.type = "goal_set"       -> [st EXCEPT !.goal = ev.goal]
          [] ev.type = "goal_cleared"   -> [st EXCEPT !.goal = NULL]
          [] ev.type = "goal_completed" -> [st EXCEPT !.goal = ev.goal]
          [] ev.type = "goal_usage"     -> ApplyGoalUsage(st)

-----------------------------------------------------------------------------
\* events.jsonl: a sequence of lines.  A line with ok = FALSE is text that
\* does not parse as one event.

Line == [ok : BOOLEAN, seq : Nat, event : Event]

EventLine(seq, ev) == [ok |-> TRUE, seq |-> seq, event |-> ev]
BadLine            == [ok |-> FALSE, seq |-> 0, event |-> Plain("error")]

(***************************************************************************)
(* append_event_line opens the file in append mode and writes the JSON and *)
(* then a newline.  When the file does not end with a newline the text is  *)
(* glued to the last line, and the two together are not one JSON value.    *)
(***************************************************************************)
AppendTo(lines, ended, line) ==
    IF ended THEN Append(lines, line)
             ELSE [lines EXCEPT ![Len(lines)] = BadLine]

\* Mutant: every line must parse.
UnreadableStrict(lines, ended) == \E i \in 1..Len(lines) : ~lines[i].ok

\* The line at which replay returns Err(Deserialize): one that does not parse,
\* except for a last line with no newline, at which replay just stops.
Unreadable(lines, ended) ==
    \E i \in 1..Len(lines) : ~lines[i].ok /\ (ended \/ i < Len(lines))

ReplayLine(st, line, snapshot_seq) ==
    IF ~line.ok \/ line.seq <= snapshot_seq THEN st
    ELSE ApplyEvent(st, line.event, line.seq)

\* replay_events_after_snapshot on a readable log: the states after 0, 1, ...
\* lines, and the last of them.
ReplayStates(st, lines) ==
    LET h[i \in 0..Len(lines)] ==
            IF i = 0 THEN st
            ELSE ReplayLine(h[i - 1], lines[i], st.last_snapshot_seq)
    IN  h

Replay(st, lines) == ReplayStates(st, lines)[Len(lines)]

\* load, when the snapshot's ids and messages have different lengths: only the
\* settings and the title of the snapshot are kept.
EmptiedForRebuild(st) ==
    [st EXCEPT !.messages = <<>>, !.message_ids = <<>>,
               !.context_checkpoint = NULL, !.outcome = {}, !.goal = NULL,
               !.last_seq = 0, !.last_snapshot_seq = 0]

ReplayBase(snapshot) ==
    IF Len(snapshot.message_ids) # Len(snapshot.messages)
    THEN EmptiedForRebuild(snapshot) ELSE snapshot

-----------------------------------------------------------------------------
\* replace_preamble_with_ids: the leading system messages are replaced; the new
\* ones take over the old ids by position and fresh ids after that.

PreambleEnd(messages) ==
    IF \E i \in 1..Len(messages) : messages[i].role # "system"
    THEN (CHOOSE i \in 1..Len(messages) :
              messages[i].role # "system"
              /\ \A j \in 1..(i - 1) : messages[j].role = "system") - 1
    ELSE Len(messages)

\* Mutant: fresh ids are handed out without counting them.
ReplacePreambleReusesSeq(st, preamble) ==
    LET end  == PreambleEnd(st.messages)
        n    == Len(preamble)
        kept == IF end < n THEN end ELSE n
        ids  == [i \in 1..n |-> IF i <= end THEN st.message_ids[i]
                                            ELSE st.last_seq + (i - kept)]
    IN  [st EXCEPT !.messages = preamble \o SubSeq(@, end + 1, Len(@)),
                   !.message_ids = ids \o SubSeq(@, end + 1, Len(@))]

\* Mutant: the splice takes one message too many.
ReplacePreambleEatsMessage(st, preamble) ==
    LET end  == PreambleEnd(st.messages)
        n    == Len(preamble)
        kept == IF end < n THEN end ELSE n
        ids  == [i \in 1..n |-> IF i <= end THEN st.message_ids[i]
                                            ELSE st.last_seq + (i - kept)]
    IN  [st EXCEPT !.messages = preamble \o SubSeq(@, end + 2, Len(@)),
                   !.message_ids = ids \o SubSeq(@, end + 2, Len(@)),
                   !.last_seq = @ + (n - kept)]

ReplacePreamble(st, preamble) ==
    LET end  == PreambleEnd(st.messages)
        n    == Len(preamble)
        kept == IF end < n THEN end ELSE n
        ids  == [i \in 1..n |-> IF i <= end THEN st.message_ids[i]
                                            ELSE st.last_seq + (i - kept)]
    IN  [st EXCEPT !.messages = preamble \o SubSeq(@, end + 1, Len(@)),
                   !.message_ids = ids \o SubSeq(@, end + 1, Len(@)),
                   !.last_seq = @ + (n - kept)]

\* Transcript messages with their ids: what is not preamble.
Entries(st) ==
    {<<st.message_ids[i], st.messages[i]>> :
        i \in {k \in 1..Len(st.messages) : st.messages[k].role # "system"}}

-----------------------------------------------------------------------------
\* read_message_page: a reverse scan of events.jsonl.

IsDisplayMessage(m) == m.role \in {"user", "assistant"}

\* The accumulator of handle_message_page_line; cutoff NULL is None.
PageAcc(edits, cutoff, collected) ==
    [edits |-> edits, cutoff |-> cutoff, collected |-> collected]

\* before = NULL is the first page (u64::MAX in the code).
Before(id, before) == before = NULL \/ id < before

DeletedByLaterTruncate(id, cutoff) == cutoff # NULL /\ id > cutoff

\* Mutant: the cutoff is the truncation met last.
LastCutoff(cutoff, id) == id

\* The cutoff is the smallest of the truncations met so far.
LowerCutoff(cutoff, id) == IF cutoff = NULL \/ id < cutoff THEN id ELSE cutoff

\* handle_message_page_line.  edits is the HashMap latest_edits as a set of pairs.
HandlePageLine(acc, line, before, limit) ==
    LET ev == line.event IN
    CASE ev.type = "truncate" ->
           [acc EXCEPT !.cutoff = LowerCutoff(@, ev.id)]
      [] ev.type = "edit" ->
           IF \/ ~Before(ev.id, before)
              \/ DeletedByLaterTruncate(ev.id, acc.cutoff)
              \/ \E e \in acc.edits : e[1] = ev.id
           THEN acc
           ELSE [acc EXCEPT !.edits = @ \cup {<<ev.id, ev.message>>}]
      [] ev.type = "message" ->
           IF \/ Len(acc.collected) > limit
              \/ ~Before(line.seq, before)
              \/ DeletedByLaterTruncate(line.seq, acc.cutoff)
           THEN acc
           ELSE LET edited == {e \in acc.edits : e[1] = line.seq}
                    m == IF edited = {} THEN ev.message
                         ELSE (CHOOSE e \in edited : TRUE)[2]
                    rest == [acc EXCEPT !.edits = @ \ edited]
                IN  IF IsDisplayMessage(m)
                    THEN [rest EXCEPT !.collected = <<<<line.seq, m>>>> \o @]
                    ELSE rest
      [] OTHER -> acc

\* The accumulators after 0, 1, ... lines from the end; the scan stops when it has
\* one message more than the page.
PageScan(lines, limit, before) ==
    LET n == Len(lines)
        scan[k \in 0..n] ==
            IF k = 0 THEN PageAcc({}, NULL, <<>>)
            ELSE LET acc == scan[k - 1]
                 IN  IF Len(acc.collected) > limit THEN acc
                     ELSE HandlePageLine(acc, lines[n + 1 - k], before, limit)
    IN  scan

\* read_message_page(limit, before) on a log whose lines all parse.
ReadMessagePage(lines, limit, before) ==
    LET all == PageScan(lines, limit, before)[Len(lines)].collected
        older == Len(all) > limit
    IN  [items |-> IF older THEN Tail(all) ELSE all,
         next_before |-> IF older THEN all[2][1] ELSE NULL]

\* What a client has after 0, 1, ... pages when it follows next_before from the
\* newest page, oldest message first.
WalkStates(lines, limit) ==
    LET walk[k \in 0..Len(lines) + 1] ==
            IF k = 0 THEN [seen |-> <<>>, before |-> NULL, done |-> FALSE]
            ELSE LET w == walk[k - 1]
                     page == ReadMessagePage(lines, limit, w.before)
                 IN  IF w.done THEN w
                     ELSE [seen |-> page.items \o w.seen,
                           before |-> page.next_before,
                           done |-> page.next_before = NULL]
    IN  walk

WalkPages(lines, limit) == WalkStates(lines, limit)[Len(lines) + 1].seen

\* The visible messages of a session in memory among its first 0, 1, ... messages,
\* and all of them.
DisplayPrefixes(st) ==
    LET shown[i \in 0..Len(st.messages)] ==
            IF i = 0 THEN <<>>
            ELSE LET before == shown[i - 1]
                 IN  IF IsDisplayMessage(st.messages[i])
                     THEN Append(before, <<st.message_ids[i], st.messages[i]>>)
                     ELSE before
    IN  shown

DisplayEntries(st) == DisplayPrefixes(st)[Len(st.messages)]
=============================================================================
