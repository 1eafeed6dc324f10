------------------------------- MODULE History -------------------------------
(***************************************************************************)
(* What the model is sent: the messages of a conversation, the repair that *)
(* runs before every request (kiliax-core history.rs), the compacted       *)
(* history (compact.rs) and the context a session rebuilds from a          *)
(* checkpoint (live_session.rs).                                           *)
(*                                                                         *)
(* A message is a record whose `kind` is                                   *)
(*   "system"     the preamble: system and developer messages;             *)
(*   "user"       [text, hidden], or an image attached by view_image;      *)
(*   "assistant"  [text, calls]: text a sequence of pieces, calls a        *)
(*                sequence of [id, tool];                                  *)
(*   "tool"       [id, text]: the answer to the call with that id.         *)
(***************************************************************************)
EXTENDS Naturals, FiniteSets, Sequences, SequencesExt

System(t) == [kind |-> "system", text |-> t]
User(t) == [kind |-> "user", text |-> t, hidden |-> FALSE]
Assistant(t, cs) == [kind |-> "assistant", text |-> t, calls |-> cs]
Answer(id, t) == [kind |-> "tool", id |-> id, text |-> t]

IsAssistant(m) == m.kind = "assistant"
IsTool(m) == m.kind = "tool"
IsPreamble(m) == m.kind = "system"
HasCalls(m) == IsAssistant(m) /\ m.calls # <<>>

\* The text of blank pieces only: trim leaves nothing of it.
Blank(text) == \A i \in 1..Len(text) : text[i] = "blank"
IsEmptyMessage(m) == IsAssistant(m) /\ Blank(m.text) /\ m.calls = <<>>

Repaired == "error: missing tool response message (repaired)"

-----------------------------------------------------------------------------
(* sanitize_history_for_next_request *)

\* The messages between an assistant message and the next one.
Segment(ms, i) ==
    LET next == {j \in i+1..Len(ms) : IsAssistant(ms[j])}
        end == IF next = {} THEN Len(ms) + 1 ELSE CHOOSE j \in next : \A k \in next : j <= k
    IN  SubSeq(ms, i + 1, end - 1)

\* The answer to calls[k]: a call whose id occurred before takes the next
\* answer with that id, and one that is left over is repaired.
AnswerTo(calls, k, tools) ==
    LET id == calls[k].id
        rank == Cardinality({j \in 1..k : calls[j].id = id})
        matching == SelectSeq(tools, LAMBDA t : t.id = id)
    IN  IF rank <= Len(matching) THEN matching[rank] ELSE Answer(id, Repaired)

Answers(calls, tools) == [k \in 1..Len(calls) |-> AnswerTo(calls, k, tools)]

\* The last assistant message before position i has calls: position i belongs
\* to its segment and is moved with it.
InSegment(ms, i) ==
    LET before == {j \in 1..i-1 : IsAssistant(ms[j])}
    IN  /\ before # {}
        /\ HasCalls(ms[CHOOSE j \in before : \A k \in before : k <= j])

Emitted(ms, i) ==
    LET m == ms[i]
        segment == Segment(ms, i)
    IN  CASE HasCalls(m) ->
                 <<m>> \o Answers(m.calls, SelectSeq(segment, IsTool))
                       \o SelectSeq(segment, LAMBDA x : ~IsTool(x))
          [] IsAssistant(m) -> IF IsEmptyMessage(m) THEN <<>> ELSE <<m>>
          [] OTHER -> IF InSegment(ms, i) \/ IsTool(m) THEN <<>> ELSE <<m>>

Sanitize(ms) == FlattenSeq([i \in 1..Len(ms) |-> Emitted(ms, i)])

-----------------------------------------------------------------------------
(* compact.rs: the messages of a compaction request, and its result *)

\* remove_matching_tool_results_at: drops the answers to `calls` in the run of
\* tool messages that starts at idx.
RemoveResultsAt(ms, idx, calls) ==
    LET stop == {j \in idx..Len(ms) : ~IsTool(ms[j])}
        end == IF stop = {} THEN Len(ms) + 1 ELSE CHOOSE j \in stop : \A k \in stop : j <= k
        ids == {calls[k].id : k \in 1..Len(calls)}
    IN  SubSeq(ms, 1, idx - 1)
          \o SelectSeq(SubSeq(ms, idx, end - 1), LAMBDA m : m.id \notin ids)
          \o SubSeq(ms, end, Len(ms))

\* remove_matching_assistant_tool_call
RemoveCallOf(ms, id) ==
    LET owners == {j \in 1..Len(ms) : HasCalls(ms[j])
                      /\ \E k \in 1..Len(ms[j].calls) : ms[j].calls[k].id = id}
        j == CHOOSE j \in owners : \A k \in owners : j <= k
    IN  IF owners = {} THEN ms ELSE RemoveResultsAt(RemoveAt(ms, j), j, ms[j].calls)

Droppable(ms) == {i \in 1..Len(ms) : ~IsPreamble(ms[i])}

\* drop_oldest_non_preamble_item_preserving_tool_pair
DropOldest(ms) ==
    LET i == CHOOSE i \in Droppable(ms) : \A k \in Droppable(ms) : i <= k
        rest == RemoveAt(ms, i)
    IN  CASE HasCalls(ms[i]) -> RemoveResultsAt(rest, i, ms[i].calls)
          [] IsTool(ms[i]) -> RemoveCallOf(rest, ms[i].id)
          [] OTHER -> rest

\* run_compaction: the history is repaired, and each time the model finds it
\* too long its oldest message goes.
Shed(ms, k) ==
    LET left[n \in 0..k] ==
            IF n = 0 THEN Sanitize(ms)
            ELSE IF Droppable(left[n - 1]) = {} THEN left[n - 1] ELSE DropOldest(left[n - 1])
    IN  left[k]

\* collect_real_user_texts: hidden messages, earlier summaries and blank texts
\* are left out; an attached image becomes a text that names it.
TextOf(m) == IF m.text = "image" THEN "[image]" ELSE m.text
RealUsers(ms) ==
    LET real(m) == /\ m.kind = "user"
                   /\ ~m.hidden
                   /\ m.text \notin {"summary", "blank"}
        users == SelectSeq(ms, real)
    IN  [i \in 1..Len(users) |-> User(TextOf(users[i]))]

\* build_compacted_user_history: the newest user texts that fit the budget,
\* the first that does not fit cut to what is left, and the summary.
Fitting(users, budget, weight) ==
    LET n == Len(users)
        cost[i \in 1..n+1] == IF i = n + 1 THEN 0 ELSE weight[users[i].text] + cost[i + 1]
        fits == {i \in 1..n : cost[i] <= budget}
        first == IF fits = {} THEN n + 1 ELSE CHOOSE i \in fits : \A k \in fits : i <= k
        cut == IF first > 1 /\ cost[first] < budget
               THEN <<[users[first - 1] EXCEPT !.text = "cut"]>> ELSE <<>>
    IN  cut \o SubSeq(users, first, n)

Summary == User("summary")

-----------------------------------------------------------------------------
(* The context of a session with a checkpoint: *)

\* Preamble, the checkpoint's messages, and what was recorded after its base.
ModelContext(ms, base, compacted) ==
    SelectSeq(ms, IsPreamble) \o compacted
        \o SelectSeq(SubSeq(ms, base + 1, Len(ms)), LAMBDA m : ~IsPreamble(m))
=============================================================================
