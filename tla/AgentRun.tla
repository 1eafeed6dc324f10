------------------------------- MODULE AgentRun -------------------------------
(***************************************************************************)
(* One run of an agent: the task spawned by AgentRuntime::run_stream       *)
(* (kiliax-core runtime.rs) asks the model, forwards its reply, executes   *)
(* the tools it calls and sends events into a bounded channel; the session *)
(* (live_session.rs run_one) reads the channel, records the messages and   *)
(* may stop reading at any time.  The task may compact the context before  *)
(* a step, and it outlives the run that was cancelled: the next run of the *)
(* session starts while it still winds down.                               *)
(*                                                                         *)
(* `out` holds the events the task is about to send one by one; the task   *)
(* takes no other step while it has some, as every send is awaited.        *)
(***************************************************************************)
EXTENDS History, TLC

CONSTANTS
    MaxSteps,        \* options.max_steps
    MaxRetries,      \* attempts of one request before a transient error is final
    MaxRate,         \* the same for a rate limit of a run; a goal has MaxRetries
    MaxCalls,        \* bound: calls of a run
    MaxCompactions,  \* bound: compactions of a run
    ChanCap,         \* capacity of the event channel (64 in the code)
    Tools,           \* the tools a reply may call
    Budget,          \* what the user texts of a compaction may weigh together
    Weight,          \* tokens of a text
    Ids,             \* the ids a provider gives its calls (<<>>: none)
    Errors           \* request failures: [exceeded, status, network]

ASSUME RunAssumption ==
    /\ MaxSteps \in Nat \ {0} /\ MaxRetries \in Nat \ {0} /\ MaxRate \in 0..MaxRetries
    /\ MaxCalls \in Nat /\ MaxCompactions \in Nat /\ ChanCap \in Nat \ {0}
    /\ Budget \in Nat /\ \A x \in DOMAIN Weight : Weight[x] \in Nat
    /\ Tools \subseteq {"read", "image", "edit", "denied"}
    /\ Errors \subseteq [exceeded : BOOLEAN, status : {"none", "429", "4xx", "5xx"},
                          network : BOOLEAN]

VARIABLES
    mode,        \* "run" or "goal": options.retry_mode
    pc,          \* where the task is
    step,        \* steps begun
    attempt,     \* attempts of the current request
    msgs,        \* the task's own messages
    reply,       \* the reply being received
    todo,        \* calls of the reply not yet grouped
    group,       \* the calls being executed
    result,      \* result[k]: what became of group[k]
    out, chan,   \* events to send, and sent but not read
    open,        \* the receiver exists
    reader,      \* "reading", "stopped" or "gone"
    verdict,     \* how the run ended for the session
    cancel,      \* cancel_rx says true
    rec,         \* the session's recorded messages
    base,        \* base_message_id of the context checkpoint
    compacted,   \* the checkpoint's messages
    next,        \* the session's next run has recorded its input
    covered,     \* ghost: what the compactions summarised
    from,        \* ghost: the checkpoint msgs were rebuilt from, and what was
                 \* unread then; its base is 0 while they hold the whole history
    stray,       \* ghost: a checkpoint was written after the receiver was dropped
    compactions, \* compactions asked for
    called       \* calls received

task == <<pc, step, attempt, reply, todo, group, result>>
session == <<reader, verdict, cancel, rec, next>>
checkpoint == <<base, compacted, covered, from, stray, compactions>>
vars == <<mode, task, msgs, out, chan, open, session, checkpoint, called>>

-----------------------------------------------------------------------------
Event(k, m) == [kind |-> k, message |-> m]
Plain(k) == Event(k, <<>>)
\* Mutant: A failed send of a retry event is ignored like the others.
FatalNoRetry(ev) == ev.kind \in {"step_start", "delta"}

\* A failed send of one of these ends the task; of any other it is ignored.
Fatal(ev) == ev.kind \in {"step_start", "delta", "retry"}
Carries(ev) == ev.kind \in {"assistant", "result"}
Payloads(evs) == LET own == SelectSeq(evs, Carries)
                 IN  [i \in 1..Len(own) |-> own[i].message]

NoReply == [text |-> <<>>, calls |-> <<>>, saw |-> FALSE]

\* A reply's ids may be absent or repeated: normalize_tool_call_ids gives such
\* a call an id of its own.
NormalizeIds(calls) ==
    LET used(k) == \E j \in 1..k-1 : calls[j].id = calls[k].id
        bad(k) == calls[k].id = <<>> \/ used(k)
    IN  [k \in 1..Len(calls) |->
            IF bad(k) THEN [calls[k] EXCEPT !.id = <<"call_step", step, k>>] ELSE calls[k]]

Parallel(tool) == tool \in {"read", "image"}
Allowed(tool) == tool # "denied"

\* group_tool_calls: a run of parallel calls, or one exclusive call.
FirstGroup(calls) ==
    LET exclusive == {k \in 1..Len(calls) : ~Parallel(calls[k].tool)}
        end == IF exclusive = {} THEN Len(calls) + 1
               ELSE CHOOSE k \in exclusive : \A j \in exclusive : k <= j
    IN  IF end = 1 THEN <<calls[1]>> ELSE SubSeq(calls, 1, end - 1)

\* execute_to_messages; an error becomes the text of the answer.
ToolMessages(call, outcome) ==
    <<Answer(call.id, outcome)>>
        \o IF call.tool = "image" /\ outcome = "ok" THEN <<User("image")>> ELSE <<>>

\* classify_llm_error: a full context is final whatever its status; without a
\* status, what the error says of the network decides.
Classify(e) ==
    CASE e.exceeded -> "final"
      [] ~e.exceeded /\ e.status = "429" -> "rate"
      [] ~e.exceeded /\ e.status = "5xx" -> "transient"
      [] ~e.exceeded /\ e.status = "none" /\ e.network -> "transient"
      [] OTHER -> "final"

\* retry_decision: a goal retries a transient error and an empty reply for ever.
Retryable(kind) ==
    \/ kind = "transient" /\ (mode = "goal" \/ attempt < MaxRetries)
    \/ kind = "rate" /\ attempt < IF mode = "goal" THEN MaxRetries ELSE MaxRate

Context == IF base = 0 THEN rec ELSE ModelContext(rec, base, compacted)

Init ==
    /\ mode \in {"run", "goal"}
    /\ pc = "step" /\ step = 0 /\ attempt = 1
    /\ reply = NoReply /\ todo = <<>> /\ group = <<>> /\ result = <<>>
    /\ rec = <<User("one")>> /\ msgs = rec
    /\ out = <<>> /\ chan = <<>> /\ open = TRUE
    /\ reader = "reading" /\ verdict = "none" /\ cancel = FALSE
    /\ base = 0 /\ compacted = <<>>
    /\ next = FALSE
    /\ covered = {} /\ from = [base |-> 0, compacted |-> <<>>, lag |-> <<>>] /\ stray = FALSE
    /\ compactions = 0 /\ called = 0

-----------------------------------------------------------------------------
(* The task: sending *)

Finish(evs) == pc' = "ending" /\ out' = evs

\* The task is over and its locals are gone; HistoryAgrees compares its messages
\* with what a reader that is still there recorded.
EndTask ==
    /\ pc' = "ended" /\ out' = <<>>
    /\ reply' = NoReply /\ todo' = <<>> /\ result' = <<>>
    /\ group' = IF open THEN group ELSE <<>>
    /\ step' = 0 /\ attempt' = 1
    /\ msgs' = IF open THEN msgs ELSE <<>>

Send ==
    /\ out # <<>>
    /\ \/ /\ open /\ Len(chan) < ChanCap
          /\ chan' = Append(chan, Head(out)) /\ out' = Tail(out)
          /\ UNCHANGED <<task, msgs>>
       \/ /\ ~open /\ ~Fatal(Head(out))
          /\ out' = Tail(out)
          /\ UNCHANGED <<task, msgs, chan>>
       \/ /\ ~open /\ Fatal(Head(out))
          /\ EndTask
          /\ UNCHANGED chan
    /\ UNCHANGED <<mode, open, session, checkpoint, called>>

TaskEnds ==
    /\ pc = "ending" /\ out = <<>>
    /\ EndTask
    /\ UNCHANGED <<mode, chan, open, session, checkpoint, called>>

(* The task: a step *)

StartStep ==
    /\ pc \in {"step", "compacted"} /\ out = <<>>
    /\ IF step = MaxSteps
       THEN Finish(<<Plain("error")>>) /\ UNCHANGED <<step, attempt, msgs>>
       ELSE /\ msgs' = Sanitize(msgs)
            /\ step' = step + 1 /\ attempt' = 1
            /\ out' = <<Plain("step_start")>>
            /\ pc' = "request"
    /\ UNCHANGED <<mode, reply, todo, group, result, chan, open, session, checkpoint, called>>

\* The handler is asked to compact; the summary is written by the model from
\* the task's messages.
CompactAsk ==
    /\ pc = "step" /\ out = <<>> /\ step < MaxSteps
    /\ compactions < MaxCompactions
    /\ pc' = "compacting"
    /\ compactions' = compactions + 1
    /\ UNCHANGED <<mode, step, attempt, msgs, reply, todo, group, result, out, chan,
                   open, session, base, compacted, covered, from, stray, called>>

\* The summary request failed, or the checkpoint could not be appended to the
\* session's log.
CompactFails ==
    /\ pc = "compacting"
    /\ pc' = "compacted"
    /\ UNCHANGED <<mode, step, attempt, msgs, reply, todo, group, result, out, chan,
                   open, session, checkpoint, called>>

\* Mutant: The base is the id the next message will get.
CheckpointBaseNext == Len(rec) + 1

\* The base is the last message recorded when the summary is there, whoever
\* recorded it.
CheckpointBase == Len(rec)

\* The session has the checkpoint, in its log and in memory.
RecordCheckpoint ==
    /\ base' = CheckpointBase
    /\ compacted' = Append(Fitting(RealUsers(msgs), Budget, Weight), Summary)
    /\ covered' = covered \cup {msgs[i] : i \in 1..Len(msgs)}
    /\ stray' = (stray \/ ~open)

CompactWrite ==
    /\ pc = "compacting"
    /\ pc' = "compacted"
    /\ RecordCheckpoint
    /\ msgs' = ModelContext(rec, base', compacted')
    /\ from' = [base |-> base', compacted |-> compacted', lag |-> Payloads(chan)]
    /\ UNCHANGED <<mode, step, attempt, reply, todo, group, result, out, chan, open,
                   session, called, compactions>>

\* The checkpoint is recorded and storing the session after it fails: the error
\* hides the new context from the task, which goes on with all its messages.
CompactStoreFails ==
    /\ pc = "compacting"
    /\ pc' = "compacted"
    /\ RecordCheckpoint
    /\ UNCHANGED <<mode, step, attempt, msgs, reply, todo, group, result, out, chan, open,
                   session, called, compactions, from>>

(* The task: a request *)

RetryOrFail(kind) ==
    IF Retryable(kind)
    THEN pc' = "waiting" /\ out' = <<Plain("retry")>>
    ELSE Finish(<<Plain("error")>>)

ConnectFails(e) ==
    /\ pc = "request" /\ out = <<>>
    /\ RetryOrFail(Classify(e))
    /\ UNCHANGED <<mode, step, attempt, msgs, reply, todo, group, result, chan, open,
                   session, checkpoint, called>>

Connect ==
    /\ pc = "request" /\ out = <<>>
    /\ pc' = "stream" /\ reply' = NoReply
    /\ UNCHANGED <<mode, step, attempt, msgs, todo, group, result, out, chan, open,
                   session, checkpoint, called>>

\* A retry waits for its delay or for the cancel flag.
RetryNow ==
    /\ pc = "waiting" /\ out = <<>>
    /\ attempt' = IF attempt < MaxRetries THEN attempt + 1 ELSE attempt
    /\ pc' = "request"
    /\ UNCHANGED <<mode, step, msgs, reply, todo, group, result, out, chan, open,
                   session, checkpoint, called>>

RetryCancelled ==
    /\ pc = "waiting" /\ out = <<>> /\ cancel
    /\ Finish(<<Plain("cancelled")>>)
    /\ UNCHANGED <<mode, step, attempt, msgs, reply, todo, group, result, chan, open,
                   session, checkpoint, called>>

(* The task: the reply *)

\* Further pieces of the text would be sent as the first is.
ReceiveText(piece) ==
    /\ pc = "stream" /\ out = <<>> /\ reply.text = <<>>
    /\ reply' = [reply EXCEPT !.text = Append(@, piece), !.saw = TRUE]
    /\ out' = <<Plain("delta")>>
    /\ UNCHANGED <<mode, pc, step, attempt, msgs, todo, group, result, chan, open,
                   session, checkpoint, called>>

ReceiveCall(tool, id) ==
    /\ pc = "stream" /\ out = <<>> /\ called < MaxCalls
    /\ called' = called + 1
    /\ reply' = [reply EXCEPT !.calls = Append(@, [id |-> id, tool |-> tool]), !.saw = TRUE]
    /\ UNCHANGED <<mode, pc, step, attempt, msgs, todo, group, result, out, chan, open,
                   session, checkpoint>>

\* After the first chunk an error is final.  (The one request a provider sends
\* again by itself, with reasoning content, is ProviderRequests'.)
StreamFails(e) ==
    /\ pc = "stream" /\ out = <<>>
    /\ RetryOrFail(IF reply.saw THEN "final" ELSE Classify(e))
    /\ reply' = NoReply
    /\ UNCHANGED <<mode, step, attempt, msgs, todo, group, result, chan, open,
                   session, checkpoint, called>>

StreamCancelled ==
    /\ pc = "stream" /\ out = <<>> /\ ~open
    /\ Finish(<<Plain("cancelled")>>)
    /\ UNCHANGED <<mode, step, attempt, msgs, reply, todo, group, result, chan, open,
                   session, checkpoint, called>>

\* Mutant: The assistant message is built before its ids are normalised.
SettledRaw == Assistant(reply.text, reply.calls)

\* The reply as a message.
Settled == Assistant(reply.text, NormalizeIds(reply.calls))

StreamEnds(stop) ==
    LET message == Settled IN
    /\ pc = "stream" /\ out = <<>>
    /\ CASE ~reply.saw -> RetryOrFail("transient") /\ UNCHANGED <<msgs, todo>>
         [] reply.saw /\ IsEmptyMessage(message) ->
              /\ IF stop /\ Retryable("transient")
                 THEN RetryOrFail("transient")
                 ELSE IF open THEN Finish(<<Plain("error")>>) ELSE Finish(<<>>)
              /\ UNCHANGED <<msgs, todo>>
         [] reply.saw /\ ~IsEmptyMessage(message) /\ ~open ->
              Finish(<<>>) /\ UNCHANGED <<msgs, todo>>
         [] OTHER ->
              /\ msgs' = Append(msgs, message)
              /\ todo' = message.calls
              /\ IF message.calls = <<>>
                 THEN Finish(<<Event("assistant", message), Plain("step_end"), Plain("done")>>)
                 ELSE out' = <<Event("assistant", message)>> /\ pc' = "group"
    /\ reply' = NoReply
    /\ attempt' = IF pc' = "waiting" THEN attempt ELSE 1
    /\ UNCHANGED <<mode, step, group, result, chan, open,
                   session, checkpoint, called>>

(* The task: the tools *)

BeginGroup ==
    /\ pc = "group" /\ out = <<>>
    /\ IF todo = <<>>
       THEN pc' = "step" /\ out' = <<Plain("step_end")>> /\ UNCHANGED <<todo, group>>
       ELSE IF ~open
            THEN Finish(<<>>) /\ UNCHANGED <<todo, group>>
            ELSE /\ group' = FirstGroup(todo)
                 /\ todo' = SubSeq(todo, Len(group') + 1, Len(todo))
                 /\ out' = [k \in 1..Len(group') |-> Plain("call")]
                 /\ pc' = "spawn"
    /\ UNCHANGED <<mode, step, attempt, msgs, reply, result, chan, open,
                   session, checkpoint, called>>

Results(call, outcome) ==
    LET ms == ToolMessages(call, outcome)
    IN  [i \in 1..Len(ms) |-> Event("result", ms[i])]

Denied == {k \in 1..Len(group) : ~Allowed(group[k].tool)}

\* A tool the policy denies is answered without being run.  Errors become
\* answers: nothing in the program asks for ToolErrorMode::FailFast.
SpawnTools ==
    /\ pc = "spawn" /\ out = <<>>
    /\ result' = [k \in 1..Len(group) |-> IF k \in Denied THEN "error" ELSE "running"]
    /\ out' = IF Denied = {} THEN <<>> ELSE Results(group[1], "error")
    /\ pc' = "tools"
    /\ UNCHANGED <<mode, step, attempt, msgs, reply, todo, group, chan, open,
                   session, checkpoint, called>>

\* A tool answers: its messages are sent as they come.  A group of several
\* looks at the receiver first, and dropping it aborts the others.
ToolAnswers(k, outcome) ==
    /\ pc = "tools" /\ out = <<>> /\ result[k] = "running"
    /\ CASE Len(group) > 1 /\ ~open -> Finish(<<>>) /\ UNCHANGED result
         [] outcome = "panic" /\ Len(group) > 1 /\ open ->
              Finish(<<Plain("error")>>) /\ UNCHANGED result
         [] OTHER ->
              /\ outcome # "panic"
              /\ result' = [result EXCEPT ![k] = outcome]
              /\ out' = Results(group[k], outcome)
              /\ UNCHANGED pc
    /\ UNCHANGED <<mode, step, attempt, msgs, reply, todo, group, chan, open,
                   session, checkpoint, called>>

\* The group's messages join the task's in the order of the calls.
EndGroup ==
    /\ pc = "tools" /\ out = <<>>
    /\ \A k \in 1..Len(group) : result[k] # "running"
    /\ msgs' = msgs \o FlattenSeq([k \in 1..Len(group) |-> ToolMessages(group[k], result[k])])
    /\ group' = <<>> /\ result' = <<>>
    /\ pc' = "group"
    /\ UNCHANGED <<mode, step, attempt, reply, todo, out, chan, open,
                   session, checkpoint, called>>

-----------------------------------------------------------------------------
(* The session *)

\* handle_agent_event: messages are recorded.  What it shows of a reply in
\* progress is EventStream's.
Handle(ev) ==
    /\ rec' = IF Carries(ev) THEN Append(rec, ev.message) ELSE rec
    /\ verdict' = IF ev.kind \in {"done", "error", "cancelled"} THEN ev.kind ELSE verdict
    /\ reader' = IF ev.kind \in {"error", "cancelled"} THEN "stopped" ELSE reader

ReadEvent ==
    /\ reader = "reading" /\ chan # <<>>
    /\ Handle(Head(chan))
    /\ chan' = Tail(chan)
    /\ UNCHANGED <<mode, task, msgs, out, open, cancel, next, checkpoint, called>>

Closed ==
    /\ reader = "reading" /\ chan = <<>> /\ pc = "ended"
    /\ reader' = "stopped"
    /\ verdict' = IF verdict = "none" THEN "eof" ELSE verdict
    /\ UNCHANGED <<mode, task, msgs, out, chan, open, cancel, rec, next,
                   checkpoint, called>>

Cancel ==
    /\ reader = "reading" /\ ~cancel
    /\ cancel' = TRUE
    /\ UNCHANGED <<mode, task, msgs, out, chan, open, reader, verdict, rec, next,
                   checkpoint, called>>

SeeCancel ==
    /\ reader = "reading" /\ cancel
    /\ reader' = "stopped" /\ verdict' = "cancelled"
    /\ UNCHANGED <<mode, task, msgs, out, chan, open, cancel, rec, next,
                   checkpoint, called>>

\* Recording or emitting an event failed: run_one returns.
HandleFails ==
    /\ reader = "reading" /\ chan # <<>>
    /\ reader' = "stopped" /\ verdict' = "failed"
    /\ UNCHANGED <<mode, task, msgs, out, chan, open, cancel, rec, next,
                   checkpoint, called>>

\* run_one returns and drops the stream.
DropStream ==
    /\ reader = "stopped"
    /\ reader' = "gone" /\ verdict' = "none"
    /\ open' = FALSE /\ chan' = <<>>
    /\ UNCHANGED <<mode, task, msgs, out, cancel, rec, next,
                   checkpoint, called>>

\* The next run of the session records its input; it is sent Context.
NextInput ==
    /\ reader = "gone" /\ ~next
    /\ rec' = Append(rec, User("two"))
    /\ next' = TRUE
    /\ UNCHANGED <<mode, task, msgs, out, chan, open, reader, verdict, cancel,
                   checkpoint, called>>

-----------------------------------------------------------------------------
\* What the task does by itself, and what it waits for: the summary of a
\* compaction, its tools, the provider.
TaskStep ==
    \/ Send \/ TaskEnds \/ StartStep \/ Connect \/ RetryNow \/ RetryCancelled
    \/ StreamCancelled \/ BeginGroup \/ SpawnTools \/ EndGroup
CompactStep == CompactAsk \/ CompactWrite \/ CompactFails \/ CompactStoreFails
ToolStep ==
    \E k \in 1..Len(group), o \in {"ok", "error", "panic"} :
        k \in DOMAIN result /\ ToolAnswers(k, o)
ProviderStep ==
    \/ \E e \in Errors : ConnectFails(e) \/ StreamFails(e)
    \/ \E p \in {"text", "blank"} : ReceiveText(p)
    \/ \E t \in Tools, id \in Ids : ReceiveCall(t, id)
    \/ \E stop \in BOOLEAN : StreamEnds(stop)
SessionStep ==
    ReadEvent \/ Closed \/ Cancel \/ SeeCancel \/ HandleFails \/ DropStream
        \/ NextInput

Finished == pc = "ended" /\ next /\ UNCHANGED vars

Next == TaskStep \/ CompactStep \/ ToolStep \/ ProviderStep \/ SessionStep \/ Finished

\* The task runs: its sends, its delays and the end of a closed stream wait for
\* nobody else.  A summary request and a tool may never answer, and nothing is
\* asked of the provider's stream or of the session.
Spec == Init /\ [][Next]_vars /\ WF_vars(TaskStep)

-----------------------------------------------------------------------------
(* Properties *)

\* Two histories are the same request when they agree on everything but the
\* order of attached images, which the session learns in completion order.
NonUser(ms) == SelectSeq(ms, LAMBDA m : m.kind # "user")
SameRequest(a, b) ==
    /\ NonUser(a) = NonUser(b)
    /\ \A i \in 1..Len(a) : Cardinality({j \in 1..Len(a) : a[j] = a[i]})
                              = Cardinality({j \in 1..Len(b) : b[j] = a[i]})
    /\ Len(a) = Len(b)

\* What the session recorded of a run that ended by itself rebuilds the request
\* the task would have sent next: no answer lost, none attached to another
\* call, although answers arrive in completion order, ids are repaired and the
\* context may have been compacted while the session was behind by `from.lag`.
\* The checkpoint is the one the task went on from: after a compaction whose
\* last store step failed the session's next run starts from the checkpoint
\* while this task kept the whole history, and the two are different requests
\* made of the same recorded messages.
HistoryAgrees ==
    (reader = "stopped" /\ verdict \in {"done", "error"} /\ group = <<>>) =>
        IF from.base = 0
        THEN SameRequest(Sanitize(rec), Sanitize(msgs))
        ELSE SameRequest(
                Sanitize(ModelContext(rec, from.base, from.compacted)),
                Sanitize(from.compacted \o from.lag
                           \o SubSeq(msgs, Len(from.compacted) + 1, Len(msgs))))

\* A checkpoint hides a recorded message only if it was in the history handed to
\* the summary.  The one exception is the input of the session's next run, when
\* the checkpoint is that of a run the session had already left; of that run's
\* own messages none is hidden even then.  And however much of the history the
\* model finds too long, what is left of it is one a model accepts: every call
\* answered, every answer with its call.
CompactionCovers ==
    /\ \A i \in 1..base : i <= Len(rec) =>
          rec[i] \in covered \/ (stray /\ rec[i] = User("two"))
    /\ pc = "compacting" =>
          \A k \in 0..Len(msgs) : Sanitize(Shed(msgs, k)) = Shed(msgs, k)

\* What the task may wait for although its run is over: the summary request has
\* neither a timeout nor a look at the cancellation, and a tool has the time it
\* takes (a shell command without timeout_ms, a call of an MCP server).
Hanging ==
    \/ pc = "compacting"
    \/ pc = "tools" /\ \E k \in DOMAIN result : result[k] = "running"

\* A run the session has left winds down, whatever the provider does: from some
\* point on its task has ended, or hangs for good in a summary request or a
\* tool.  Retries for ever, a silent stream and a full channel do not keep it.
CancelEnds == <>[](open \/ pc = "ended" \/ Hanging)
=============================================================================
