----------------------------- MODULE EventStream -----------------------------
(***************************************************************************)
(* The events of one live session: how they are numbered, stored and       *)
(* published (alloc_event_id, emit_event_with_persistence and              *)
(* handle_agent_event in state/live_session.rs), and how a client follows  *)
(* them (http/handlers/events.rs).                                         *)
(*                                                                         *)
(* An emission takes a number first and then, in separate steps, writes    *)
(* the event to events_api.jsonl (durable kinds only) and a newline after  *)
(* it, pushes it on the ring, raises last_event_id and sends it on the     *)
(* broadcast channel.  The worker and the request handlers emit side by    *)
(* side, without a lock: their lines can run into each other, and a line   *)
(* that is not one event is skipped by everybody who reads the file.  A    *)
(* client reads a backlog and subscribes afterwards.                       *)
(***************************************************************************)
EXTENDS Naturals, Sequences, SequencesExt, FiniteSets

CONSTANTS Clients,     \* SSE and WebSocket clients
          RingSizes,   \* values of server.events_ring_size
          Capacity,    \* of the broadcast channel
          Faults,      \* a subset of {"restart", "iofail", "resize"}
          MaxId,       \* bound on event ids
          MaxShared,   \* bound on event ids while a client is connected, and on the
                       \* ids of the handlers' events
          MaxFaults,   \* bound on faults and configuration changes
          NULL         \* Option::None

ASSUME EventBounds == MaxId \in Nat /\ MaxShared \in 0..MaxId /\ MaxFaults \in Nat /\ Capacity \in Nat \ {0} /\ RingSizes \subseteq Nat
ASSUME EventFaults == Faults \subseteq {"restart", "iofail", "resize"}

Id == 1..MaxId

(***************************************************************************)
(* The kinds of events.  "goal" stands for every event a handler emits     *)
(* (goal, settings, edit, cancel) and for the worker's own goal usage.     *)
(***************************************************************************)
Kind == {"step_start", "thinking", "assistant", "message", "tool_call",
         "tool_result", "step_end", "retry", "run_end", "goal"}
Ephemeral == {"thinking", "assistant", "retry"}

\* A published event: whether it is kept in the file is all that matters of its kind.
Event == [id : Id, durable : BOOLEAN]
Emitted(e) == [id |-> e.id, durable |-> e.kind \notin Ephemeral]

VARIABLES
    next_event_id,  \* LiveSession::next_event_id
    log,            \* events_api.jsonl: the finished lines that hold one event; lines
                    \* that hold anything else are left out, as every reader does
    unfinished,     \* events_api.jsonl: what is behind the last newline, NULL for half
                    \* an event
    ring,           \* events_ring
    ring_size,      \* events_ring_size
    last_event_id,  \* SessionStatus::last_event_id
    sent,           \* what this live session has sent on events_tx, in order
    stream,         \* stream_snapshot
    last,           \* the last agent event of the run in progress
    emit,           \* the emission each task has in progress
    client,         \* each client
    output,         \* what the model has produced since the output was last
                    \* settled: the events of each part (history variable)
    faults,         \* faults and configuration changes so far
    pushed          \* the ids in the order of their pushes, whether the ring was on, and
                    \* whether their append met no other (history variable)

file == <<log, unfinished>>
published == <<file, ring, last_event_id, sent, pushed>>
vars == <<next_event_id, log, unfinished, ring, ring_size, last_event_id, sent, stream, last,
          emit, client, faults, output, pushed>>

Task == {"worker", "handler"}

\* `alone' is history: no other append was between its two writes, or cut there, when
\* this one wrote, and no other wrote before this one's newline.
EmitAt == {"apply", "append", "newline", "push", "send", "settle"}
Emission == [ev : [id : Id, kind : Kind], at : EmitAt, size : RingSizes, alone : BOOLEAN]

ClientAt == {"off", "backlog", "subscribe", "streaming"}
Client == [at : ClientAt, after : 0..MaxId, got : Seq(Event), base : SUBSET Event,
           from : Nat, rx : Nat, pos : Nat]
NoClient == [at |-> "off", after |-> 0, got |-> <<>>, base |-> {},
             from |-> 0, rx |-> 0, pos |-> 0]

Output == [thinking : Seq(Nat), assistant : Seq(Nat), tools : Seq(Nat)]
Snapshot == [last : Nat, started : BOOLEAN, out : Output]
ASSUME NothingIsNull == NULL \notin Emission \cup Snapshot \cup Event

NoOutput == [thinking |-> <<>>, assistant |-> <<>>, tools |-> <<>>]
EmptySnapshot(id) == [last |-> id, started |-> FALSE, out |-> NoOutput]

Init ==
    /\ next_event_id = 0 /\ log = <<>> /\ unfinished = <<>> /\ ring = <<>> /\ ring_size \in RingSizes
    /\ last_event_id = 0 /\ sent = <<>> /\ stream = NULL /\ last = "run_end"
    /\ emit = [t \in Task |-> NULL] /\ client = [c \in Clients |-> NoClient]
    /\ output = NoOutput /\ pushed = <<>> /\ faults = 0

-----------------------------------------------------------------------------
\* The stream snapshot

Raise(s, id) == [s EXCEPT !.last = IF id > @ THEN id ELSE @]

\* ensure_stream_snapshot (a run has one; run_one clears it between runs)
EnsureSnapshot(id) == IF stream = NULL THEN EmptySnapshot(id) ELSE Raise(stream, id)

\* What handle_agent_event does to the snapshot when it takes an id for the event.
OnAlloc(e) ==
    CASE e.kind \in {"step_start", "thinking", "assistant", "tool_call"} -> EnsureSnapshot(e.id)
      [] e.kind = "retry" -> NULL
      [] OTHER -> stream

\* The tool calls of a snapshot that a tool result leaves: all but the one it answers.
WithoutCall(calls) == IF calls = <<>> THEN calls ELSE Tail(calls)

\* apply_thinking_delta, apply_assistant_delta, apply_tool_call, finish_tool_call and
\* bump_stream_snapshot, under a second acquisition of the snapshot's mutex.
OnApply(s, e) ==
    IF s = NULL THEN NULL
    ELSE LET r == Raise(s, e.id)
         IN  CASE e.kind = "thinking" ->
                    IF s.started THEN r ELSE [r EXCEPT !.out.thinking = Append(@, e.id)]
               [] e.kind = "assistant" ->
                    [r EXCEPT !.started = TRUE, !.out.assistant = Append(@, e.id)]
               [] e.kind = "tool_call" -> [r EXCEPT !.out.tools = Append(@, e.id)]
               [] e.kind = "tool_result" -> [r EXCEPT !.out.tools = WithoutCall(@)]
               [] e.kind = "step_end" -> r
               [] OTHER -> s

\* What the model has said, whatever the snapshot holds: a retry discards it, a
\* recorded message settles it, a tool result ends a call.
Produced(o, e) ==
    CASE e.kind = "thinking" ->
           IF o.assistant # <<>> THEN o ELSE [o EXCEPT !.thinking = Append(@, e.id)]
      [] e.kind = "assistant" -> [o EXCEPT !.assistant = Append(@, e.id)]
      [] e.kind = "tool_call" -> [o EXCEPT !.tools = Append(@, e.id)]
      [] e.kind = "tool_result" -> [o EXCEPT !.tools = WithoutCall(@)]
      [] e.kind \in {"retry", "run_end"} -> NoOutput
      [] OTHER -> o

-----------------------------------------------------------------------------
\* Emissions

(***************************************************************************)
(* The order of a run's events: run_stream's steps.  The deltas of a step  *)
(* precede its message, tool calls and results follow it; a retry takes    *)
(* the step back to its beginning; run_one ends the run at any point (a    *)
(* cancel, an error).                                                      *)
(***************************************************************************)
Follows(k) ==
    CASE k = "step_start" -> last \in {"run_end", "step_end"}
      [] k \in {"thinking", "assistant", "retry"} ->
            last \in {"step_start", "thinking", "assistant", "retry"}
      [] k = "message" -> last \in {"step_start", "thinking", "assistant"}
      [] k = "tool_call" -> last \in {"message", "tool_call", "tool_result"}
      [] k = "tool_result" -> last \in {"tool_call", "tool_result"} /\ output.tools # <<>>
      [] k = "step_end" -> last \in {"message", "tool_result"} /\ output.tools = <<>>
      [] k = "goal" -> last \in {"message", "retry", "step_end"}
      [] k = "run_end" -> last # "run_end"

Fault(f) == f \in Faults /\ faults < MaxFaults /\ faults' = faults + 1

Enter(t, e, at) == emit' = [emit EXCEPT ![t] = [ev |-> e, at |-> at, size |-> ring_size, alone |-> TRUE]]

Room == next_event_id < IF \A c \in Clients : client[c].at = "off" THEN MaxId ELSE MaxShared

\* alloc_event_id, and the first acquisition of the snapshot's mutex
AllocAgentEvent(k) ==
    LET e == [id |-> next_event_id + 1, kind |-> k]
    IN  /\ emit["worker"] = NULL /\ Room /\ Follows(k)
        /\ next_event_id' = next_event_id + 1
        /\ stream' = IF k = "run_end" THEN NULL ELSE OnAlloc(e)
        /\ last' = IF k = "goal" THEN last ELSE k
        /\ output' = Produced(output, e)
        /\ Enter("worker", e, "apply")
        /\ UNCHANGED <<faults, published, ring_size, client>>

\* set_goal, clear_goal, apply_settings_now and the other handlers
AllocHandlerEvent ==
    /\ emit["handler"] = NULL /\ next_event_id < MaxShared
    /\ next_event_id' = next_event_id + 1
    /\ Enter("handler", [id |-> next_event_id + 1, kind |-> "goal"], "append")
    /\ UNCHANGED <<faults, published, ring_size, stream, last, client, output>>

\* Mutant: the snapshot is raised to the event and the event left out.
ApplySnapshotMissing ==
    /\ emit["worker"] # NULL /\ emit["worker"].at = "apply"
    /\ LET e == emit["worker"].ev
       IN  /\ stream' = IF stream = NULL THEN NULL ELSE Raise(stream, e.id)
           /\ Enter("worker", e, IF e.kind \notin Ephemeral THEN "append" ELSE "push")
    /\ UNCHANGED <<faults, next_event_id, published, ring_size, last, client, output>>

ApplySnapshot ==
    /\ emit["worker"] # NULL /\ emit["worker"].at = "apply"
    /\ LET e == emit["worker"].ev
       IN  /\ stream' = OnApply(stream, e)
           /\ Enter("worker", e, IF e.kind \notin Ephemeral THEN "append" ELSE "push")
    /\ UNCHANGED <<faults, next_event_id, published, ring_size, last, client, output>>

\* A piece of the file is written; an append that waits to write its newline is no
\* longer alone.
Write(t, piece, emission) ==
    /\ unfinished' = Append(unfinished, piece)
    /\ emit' = [u \in Task |->
          IF u = t THEN emission
          ELSE IF emit[u] # NULL /\ emit[u].at = "newline" THEN [emit[u] EXCEPT !.alone = FALSE]
          ELSE emit[u]]

\* append_event, the first write: the event's JSON
WriteEvent(t) ==
    /\ emit[t] # NULL /\ emit[t].at = "append"
    /\ Write(t, Emitted(emit[t].ev),
             [emit[t] EXCEPT !.at = "newline", !.alone = unfinished = <<>>])
    /\ UNCHANGED <<faults, next_event_id, log, ring, ring_size, last_event_id, sent, pushed,
                   stream, last, client, output>>

\* A line that parses: one event and nothing else.
IsEvent(line) == Len(line) = 1 /\ line[1] # NULL

\* append_event, the second write: the newline ends whatever line it finds.
FinishLine(t) ==
    /\ emit[t] # NULL /\ emit[t].at = "newline"
    /\ log' = IF IsEvent(unfinished) THEN Append(log, unfinished[1]) ELSE log
    /\ unfinished' = <<>>
    /\ emit' = [emit EXCEPT ![t].at = "push", ![t].size = ring_size]
    /\ UNCHANGED <<faults, next_event_id, ring, ring_size, last_event_id, sent, pushed, stream,
                   last, client, output>>

\* Either write fails, the first perhaps after a part of it, or the handler's future is
\* dropped there: emit_event does not go on, nor does the run of the worker.
AppendFails(t) ==
    /\ Fault("iofail")
    /\ emit[t] # NULL /\ emit[t].at \in {"append", "newline"}
    /\ \/ emit' = [emit EXCEPT ![t] = NULL] /\ UNCHANGED unfinished
       \/ emit[t].at = "append" /\ Write(t, NULL, NULL)
    /\ last' = IF t = "worker" THEN "run_end" ELSE last
    /\ UNCHANGED <<next_event_id, log, ring, last_event_id, sent, pushed, ring_size, stream,
                   client, output>>

\* The ring keeps the last `size` events; size was read before the ring was locked.
LastOf(s, n) == SubSeq(s, IF Len(s) > n THEN Len(s) - n + 1 ELSE 1, Len(s))

PushRing(t) ==
    /\ emit[t] # NULL /\ emit[t].at = "push"
    /\ ring' = IF emit[t].size > 0 THEN LastOf(Append(ring, Emitted(emit[t].ev)), emit[t].size)
                                   ELSE ring
    /\ pushed' = Append(pushed, [id |-> emit[t].ev.id, kept |-> emit[t].size > 0,
                                 alone |-> emit[t].alone])
    /\ emit' = [emit EXCEPT ![t].at = "send"]
    /\ UNCHANGED <<faults, next_event_id, file, ring_size, last_event_id, sent, stream, last,
                   client, output>>

\* last_event_id, then the channel: nothing between the two steps reads either twice.
SendEvent(t) ==
    /\ emit[t] # NULL /\ emit[t].at = "send"
    /\ last_event_id' = IF emit[t].ev.id > last_event_id THEN emit[t].ev.id ELSE last_event_id
    /\ sent' = Append(sent, Emitted(emit[t].ev))
    /\ emit' = [emit EXCEPT ![t] = IF @.ev.kind = "message" THEN [@ EXCEPT !.at = "settle"]
                                                            ELSE NULL]
    /\ UNCHANGED <<faults, next_event_id, file, ring, ring_size, pushed, stream, last, client,
                   output>>

\* After the message's event the snapshot is dropped.
SettleMessage ==
    /\ emit["worker"] # NULL /\ emit["worker"].at = "settle"
    /\ stream' = NULL /\ output' = NoOutput
    /\ emit' = [emit EXCEPT !["worker"] = NULL]
    /\ UNCHANGED <<faults, next_event_id, published, ring_size, last, client>>

\* on_config_updated: the new size, and the ring cut to it
ResizeRing(n) ==
    /\ Fault("resize") /\ n # ring_size
    /\ ring_size' = n
    /\ ring' = LastOf(ring, n)
    /\ UNCHANGED <<next_event_id, file, last_event_id, sent, pushed, stream, last, emit,
                   client, output>>

-----------------------------------------------------------------------------
\* What a reader makes of the file: a last line without a newline is read like the others.
Readable == IF IsEvent(unfinished) THEN Append(log, unfinished[1]) ELSE log

\* A new process: read_last_event_id finds the highest id in the file.

\* Mutant: the events in the file are counted; ephemeral ones have numbers too.
LastLoggedCount == Len(Readable)

LastLogged == IF Readable = <<>> THEN 0
              ELSE CHOOSE n \in {e.id : e \in ToSet(Readable)} :
                      \A e \in ToSet(Readable) : e.id <= n

\* The connections break with the process; a client remembers what it was sent.
Restart ==
    /\ Fault("restart")
    /\ next_event_id' = LastLogged /\ last_event_id' = LastLogged
    /\ ring' = <<>> /\ sent' = <<>> /\ pushed' = <<>>
    /\ stream' = NULL /\ last' = "run_end" /\ output' = NoOutput
    /\ emit' = [t \in Task |-> NULL]
    /\ client' = [c \in Clients |-> NoClient]
    /\ UNCHANGED <<file, ring_size>>

-----------------------------------------------------------------------------
\* Clients

\* The events of s with an id above n, in their order: SelectSeq, as a function that
\* can be reasoned about.
After(s, n) ==
    LET f[i \in 0..Len(s)] == IF i = 0 THEN <<>>
                              ELSE IF s[i].id > n THEN Append(f[i - 1], s[i])
                              ELSE f[i - 1]
    IN  f[Len(s)]

\* read_events_after
FileAfter(n) == After(Readable, n)

\* Mutant: the ring is trusted however late it begins.
BacklogRingFirst(n) ==
    IF ring = <<>> THEN FileAfter(n) ELSE After(ring, n)

\* backlog_after, or the file when the ring is empty or begins too late
Backlog(n) ==
    IF ring = <<>> \/ n + 1 < Head(ring).id
    THEN FileAfter(n)
    ELSE After(ring, n)

\* A client starts from the beginning, or from the session it has just fetched:
\* the snapshot's id, or the status's when there is no snapshot.
Connect(c) ==
    /\ client[c].at = "off" /\ next_event_id < MaxShared
    /\ \E n \in {0, IF stream # NULL THEN stream.last ELSE last_event_id} :
          client' = [client EXCEPT ![c] = [NoClient EXCEPT !.at = "backlog", !.after = n]]
    /\ UNCHANGED <<faults, next_event_id, published, ring_size, stream, last, emit, output>>

\* events_backlog_after
ReadBacklog(c) ==
    /\ client[c].at = "backlog"
    /\ LET back == Backlog(client[c].after)
       IN  client' = [client EXCEPT ![c] =
              [@ EXCEPT !.at = "subscribe", !.got = back, !.base = ToSet(back),
                        !.from = Len(sent)]]
    /\ UNCHANGED <<faults, next_event_id, published, ring_size, stream, last, emit, output>>

\* subscribe_events
Subscribe(c) ==
    /\ client[c].at = "subscribe"
    /\ client' = [client EXCEPT ![c] =
          [@ EXCEPT !.at = "streaming", !.rx = Len(sent), !.pos = Len(sent)]]
    /\ UNCHANGED <<faults, next_event_id, published, ring_size, stream, last, emit, output>>

Receive(c) ==
    /\ client[c].at = "streaming" /\ client[c].pos < Len(sent)
    /\ Len(sent) - client[c].pos <= Capacity
    /\ client' = [client EXCEPT ![c].pos = @ + 1,
                                ![c].got = Append(@, sent[client[c].pos + 1])]
    /\ UNCHANGED <<faults, next_event_id, published, ring_size, stream, last, emit, output>>

\* Mutant: a receiver that fell behind goes on with the oldest event still there.
LagContinue(c) ==
    /\ client[c].at = "streaming" /\ Len(sent) - client[c].pos > Capacity
    /\ client' = [client EXCEPT ![c].pos = Len(sent) - Capacity]
    /\ UNCHANGED <<faults, next_event_id, published, ring_size, stream, last, emit, output>>

\* RecvError::Lagged: events_lagged is sent and the stream ends.
Lag(c) ==
    /\ client[c].at = "streaming" /\ Len(sent) - client[c].pos > Capacity
    /\ client' = [client EXCEPT ![c] = NoClient]
    /\ UNCHANGED <<faults, next_event_id, published, ring_size, stream, last, emit, output>>

Disconnect(c) ==
    /\ client[c].at = "streaming"
    /\ client' = [client EXCEPT ![c] = NoClient]
    /\ UNCHANGED <<faults, next_event_id, published, ring_size, stream, last, emit, output>>

-----------------------------------------------------------------------------
Emit(t) == WriteEvent(t) \/ FinishLine(t) \/ AppendFails(t) \/ PushRing(t) \/ SendEvent(t)

ClientStep(c) == Connect(c) \/ ReadBacklog(c) \/ Subscribe(c) \/ Receive(c) \/ Lag(c)
                 \/ Disconnect(c)

Next == \/ \E k \in Kind : AllocAgentEvent(k)
        \/ AllocHandlerEvent \/ ApplySnapshot \/ SettleMessage
        \/ \E t \in Task : Emit(t)
        \/ \E n \in RingSizes : ResizeRing(n)
        \/ Restart
        \/ \E c \in Clients : ClientStep(c)

Spec == Init /\ [][Next]_vars
-----------------------------------------------------------------------------
(***************************************************************************)
(* Properties                                                              *)
(***************************************************************************)

\* Types of all variables; the ring never outgrows the largest configured size.
TypeOK ==
    /\ next_event_id \in 0..MaxId /\ last_event_id \in 0..MaxId
    /\ log \in Seq(Event) /\ unfinished \in Seq(Event \cup {NULL}) /\ ring \in Seq(Event) /\ sent \in Seq(Event)
    /\ \E n \in RingSizes : Len(ring) <= n
    /\ faults \in 0..MaxFaults /\ ring_size \in RingSizes /\ pushed \in Seq([id : Id, kept : BOOLEAN, alone : BOOLEAN])
    /\ stream # NULL => stream.last \in Id /\ stream.started \in BOOLEAN
    /\ last \in Kind
    /\ \A t \in Task : emit[t] = NULL \/ emit[t] \in Emission
    /\ client \in [Clients -> Client]

\* An event whose append met another: the two may share a line, which nobody can read.
Glued(id) == \E i \in 1..Len(pushed) : pushed[i].id = id /\ ~pushed[i].alone

\* An event that a client may have seen survives a restart: it has a line of its own in
\* the file before it is in the ring or on the channel, unless its append met another,
\* or one that was cut short; while no write fails, only an append in progress leaves the
\* file in the middle of a line.  The id of a new event is never one that a reader of the
\* file, the ring or the channel already has (an id whose line was spoilt may be given
\* out again by the next process).
DurableBeforeVisible ==
    /\ \A e \in ToSet(ring) \cup ToSet(sent) : e.durable => e \in ToSet(log) \/ Glued(e.id)
    /\ faults = 0 /\ unfinished # <<>> => \E t \in Task : emit[t] # NULL /\ emit[t].at = "newline"
    /\ \A e \in ToSet(Readable) \cup ToSet(ring) \cup ToSet(sent) : e.id <= next_event_id
    /\ IsInjective([i \in 1..Len(Readable) |-> Readable[i].id])

\* An event overtaken in the ring: one with a smaller id was pushed after it.
Overtook(id) ==
    \E i, j \in 1..Len(pushed) : i < j /\ pushed[i].id = id /\ pushed[j].id < id

\* An event published while the ring was switched off, after one that went into it.
Bypassed(id) ==
    \E i, j \in 1..Len(pushed) :
        i < j /\ pushed[i].kept /\ pushed[j].id = id /\ ~pushed[j].kept

\* The handlers read the backlog and subscribe afterwards.  What a client that follows
\* the stream from event n misses is exactly what was sent between these two steps, what
\* was pushed ahead of a smaller id or past a ring being switched off, or what the file
\* lost because two appends met; nothing else is lost, whatever the ring held and however
\* often it overflowed.
LossOnlyInWindow ==
    \A c \in Clients :
        client[c].at = "streaming" =>
            \A i \in 1..client[c].rx :
                LET e == sent[i]
                IN  e.durable /\ e.id > client[c].after =>
                        \/ e \in client[c].base
                        \/ i > client[c].from
                        \/ Overtook(e.id) \/ Bypassed(e.id) \/ Glued(e.id)

\* A stream never skips an event without saying so: a client that is still connected
\* has received its backlog and then everything sent since it subscribed, in order.
NoSilentGap ==
    \A c \in Clients :
        client[c].at = "streaming" =>
            LET n == client[c].pos - client[c].rx
            IN  /\ n <= Len(client[c].got)
                /\ SubSeq(client[c].got, Len(client[c].got) - n + 1, Len(client[c].got))
                       = SubSeq(sent, client[c].rx + 1, client[c].pos)
                /\ Len(client[c].got) - n = Cardinality(client[c].base)

\* The snapshot with the piece it is about to take: handle_agent_event raises its id under
\* one acquisition of the mutex and adds the piece under the next.
Pending == IF emit["worker"] # NULL /\ emit["worker"].at = "apply"
           THEN OnApply(stream, emit["worker"].ev) ELSE stream

\* Whoever opens the session in the middle of an answer gets what the model has produced
\* since the last retry or recorded message, but for the one piece whose id the snapshot
\* already covers and which it has not yet taken: a client that fetches between the two
\* steps misses this piece, and no other.  No piece is in the snapshot with an id that it
\* does not cover, so that none is received twice.
SnapshotIsOutput ==
    stream # NULL =>
        /\ Pending.out = output
        /\ \A part \in {stream.out.thinking, stream.out.assistant, stream.out.tools} :
              \A i \in 1..Len(part) : part[i] <= stream.last
=============================================================================
