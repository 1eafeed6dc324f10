------------------------------ MODULE Providers ------------------------------
(***************************************************************************)
(* One call of a model through kiliax-llm: the request, which Chat resends *)
(* once when the server wants reasoning it did not get, then the reply,    *)
(* whole or as a stream of server events that each API's handler turns     *)
(* into chunks, and the assistant message the runtime makes of the chunks. *)
(*                                                                         *)
(* The server is external: a reply is [blocks, end] (ProviderRequests),    *)
(* and a stream of it sends a call's arguments in the way `style` says,    *)
(* or is cut anywhere.                                                     *)
(***************************************************************************)
EXTENDS ProviderRequests

CONSTANTS
    Exchanges       \* conversations, and the replies a server makes to them

Styles(a) == CASE a = "messages" -> {"deltas", "whole"}
               [] a = "responses" -> {"deltas", "whole", "ids"}
               [] OTHER -> {"deltas", "legacy"}

VARIABLES
    api, past, reply, style,    \* the call
    streaming,      \* chat_stream, not chat
    official,       \* the route is OpenAI's own
    demanding,      \* the server wants reasoning: "never", "with calls" or "always"
    patched,        \* the body was given reasoning
    resent,         \* it was sent a second time
    phase,          \* "request", "stream", "ok", "refused" or "error"
    pos,            \* server events handled
    decoder,        \* the state of the stream handler
    chunks,         \* the chunks the runtime received
    answer          \* the response of `chat`

callVars == <<api, past, reply, style, streaming, official, demanding>>
vars == <<callVars, patched, resent, phase, pos, decoder, chunks, answer>>

-----------------------------------------------------------------------------
(* What the server sends (external) *)

IsCall(b) == b.type = "call"
HasCall(r) == \E i \in 1..Len(r.blocks) : IsCall(r.blocks[i])

Event(ev, i, x) == [ev |-> ev, idx |-> i, at |-> "index", x |-> x]
EachPiece(ev, i, pieces) == [k \in 1..Len(pieces) |-> Event(ev, i, pieces[k])]
Located(sty, es) ==
    IF sty = "ids" THEN [k \in 1..Len(es) |-> [es[k] EXCEPT !.at = "item"]] ELSE es

MessagesBlock(i, b, sty) ==
    LET empty == CASE IsCall(b) /\ sty = "deltas" -> [b EXCEPT !.args = <<"{", "}">>]
                   [] IsCall(b) -> b
                   [] b.type = "thinking" -> Thinking(<<>>, FALSE)
                   [] OTHER -> Text(<<>>)
        pieces == CASE ~IsCall(b) -> EachPiece(b.type \o "_delta", i, b.text)
                    [] sty = "deltas" -> EachPiece("input_json_delta", i, b.args)
                    [] OTHER -> <<>>
        signature == IF b.type = "thinking" /\ b.signed
                     THEN <<Event("signature_delta", i, "signature")>> ELSE <<>>
    IN  <<Event("content_block_start", i, empty)>> \o pieces \o signature
          \o <<Event("content_block_stop", i, "")>>
ResponsesItem(i, b, sty) ==
    LET empty == IF IsCall(b) THEN [b EXCEPT !.args = <<>>] ELSE [b EXCEPT !.text = <<>>]
        pieces == CASE ~IsCall(b) -> EachPiece(b.type \o "_delta", i, b.text)
                    [] sty = "whole" -> <<>>
                    [] OTHER -> EachPiece("arguments_delta", i, b.args)
                                  \o <<Event("arguments_done", i, b.args)>>
    IN  <<Event("item_added", i, empty)>> \o Located(sty, pieces)
          \o <<Event("item_done", i, b)>>
ChatDeltas(i, b, sty) ==
    IF IsCall(b) THEN <<Event("call_start", i, b)>> \o EachPiece("call_args", i, b.args)
    ELSE EachPiece(b.type \o "_delta", i, b.text)

ServerEvents ==
    LET n == Len(reply.blocks)
        body(f(_, _, _)) == FlattenSeq([i \in 1..n |-> f(i, reply.blocks[i], style)])
    IN  CASE api = "messages" -> body(MessagesBlock) \o
                 <<Event("message_delta", 0, reply.end), Event("message_stop", 0, "")>>
          [] api = "responses" -> <<Event("created", 0, "")>> \o body(ResponsesItem)
                 \o <<Event("completed", 0, reply)>>
          [] OTHER -> body(ChatDeltas) \o <<Event("finish", 0, reply.end), Event("[DONE]", 0, "")>>

-----------------------------------------------------------------------------
(* Chunks *)

Delta(i, id, name, args) == [idx |-> i, id |-> id, name |-> name, args |-> args]
Chunk == [content |-> <<>>, thinking |-> <<>>, calls |-> <<>>, finish |-> "none", meta |-> NoMeta]
Content(p) == [Chunk EXCEPT !.content = <<p>>]
ThinkingChunk(p) == [Chunk EXCEPT !.thinking = <<p>>]
CallChunk(i, id, name, args) ==
    [Chunk EXCEPT !.calls = <<Delta(i, id, name, args)>>]

\* What a handler does with an event: its state after it, the chunks it sends,
\* and whether the stream is over.
Does(st, cs) == [st |-> st, chunks |-> cs, stop |-> FALSE]
Stop(st) == [st |-> st, chunks |-> <<>>, stop |-> TRUE]

Placed(f, i, v) == [k \in DOMAIN f \cup {i} |-> IF k = i THEN v ELSE f[k]]
Drop(f, i) == [k \in DOMAIN f \ {i} |-> f[k]]
EntryOr(f, i, default) == IF i \in DOMAIN f THEN f[i] ELSE default
Sorted(S) == SelectSeq([i \in 1..8 |-> i], LAMBDA i : i \in S)
ByIndex(f) == LET ks == Sorted(DOMAIN f) IN [k \in 1..Len(ks) |-> f[ks[k]]]

-----------------------------------------------------------------------------
(* Messages: thinking and tool blocks are buffered by index *)

MetaOf(thinking) ==
    LET own == SelectSeq(ByIndex(thinking), LAMBDA b : ~Blank(b.text))
    IN  IF own = <<>> THEN NoMeta ELSE [api |-> "messages", blocks |-> own]
WithMeta(st, c) == [c EXCEPT !.meta = MetaOf(st.thinking)]

BlockStart(st, e) ==
    CASE e.x.type = "call" ->
             Does([st EXCEPT !.tools = Placed(@, e.idx, [initial |-> e.x, json |-> <<>>])], <<>>)
      [] e.x.type = "thinking" -> Does([st EXCEPT !.thinking = Placed(@, e.idx, e.x)], <<>>)
      [] OTHER -> Does(st, IF e.x.text = <<>> THEN <<>>
                           ELSE <<WithMeta(st, [Chunk EXCEPT !.content = e.x.text])>>)

BlockDelta(st, e) ==
    LET thought == EntryOr(st.thinking, e.idx, Thinking(<<>>, FALSE))
        thinking == [st EXCEPT !.thinking = Placed(@, e.idx, [thought EXCEPT !.text = Append(@, e.x)])]
    IN  CASE e.ev = "text_delta" -> Does(st, <<WithMeta(st, Content(e.x))>>)
          [] e.ev = "input_json_delta" ->
                 Does([st EXCEPT !.tools[e.idx].json = Append(@, e.x)], <<>>)
          [] e.ev = "thinking_delta" -> Does(thinking, <<WithMeta(thinking, ThinkingChunk(e.x))>>)
          [] OTHER -> Does([st EXCEPT !.thinking = Placed(@, e.idx, [thought EXCEPT !.signed = TRUE])], <<>>)

\* Mutant: the pieces are added to what the block began with.
BlockStopAppends(st, e) ==
    LET buf == st.tools[e.idx]
        rest == [st EXCEPT !.tools = Drop(@, e.idx)]
    IN  IF e.idx \in DOMAIN st.thinking \/ e.idx \notin DOMAIN st.tools THEN Does(st, <<>>)
        ELSE Does(rest, <<WithMeta(rest, CallChunk(e.idx, buf.initial.id,
                              ToInternal(buf.initial.name), buf.initial.args \o buf.json))>>)

\* The whole call is sent when its block ends; without pieces the arguments
\* are those the block began with.
BlockStop(st, e) ==
    LET buf == st.tools[e.idx]
        args == IF buf.json = <<>> THEN buf.initial.args ELSE buf.json
        rest == [st EXCEPT !.tools = Drop(@, e.idx)]
    IN  IF e.idx \in DOMAIN st.thinking \/ e.idx \notin DOMAIN st.tools THEN Does(st, <<>>)
        ELSE Does(rest, <<WithMeta(rest, CallChunk(e.idx, buf.initial.id,
                                                   ToInternal(buf.initial.name), args))>>)

MessagesEvent(st, e) ==
    CASE e.ev = "content_block_start" -> BlockStart(st, e)
      [] e.ev = "content_block_stop" -> BlockStop(st, e)
      [] e.ev = "message_delta" -> Does(st, <<WithMeta(st, [Chunk EXCEPT !.finish = e.x])>>)
      [] e.ev = "message_stop" -> Stop(st)
      [] OTHER -> BlockDelta(st, e)

-----------------------------------------------------------------------------
(* Responses: the output items so far, and which had argument deltas *)

IndexOf(st, e) == IF e.at = "index" \/ e.idx \in DOMAIN st.items THEN e.idx ELSE 0
Remember(st, i, b) == [st EXCEPT !.items = Placed(@, i, b)]

ItemAdded(st, e) ==
    Does(Remember(st, e.idx, e.x),
         IF IsCall(e.x) THEN <<CallChunk(e.idx, e.x.id, ToInternal(e.x.name), <<>>)>> ELSE <<>>)
ItemDone(st, e) ==
    Does(Remember(st, e.idx, e.x),
         IF IsCall(e.x) /\ e.idx \notin st.seen /\ e.x.args # <<>>
         THEN <<CallChunk(e.idx, e.x.id, ToInternal(e.x.name), e.x.args)>> ELSE <<>>)

\* Only an item that was added has arguments to add to.
AppendArguments(st, i, piece) ==
    IF i \in DOMAIN st.items THEN [st EXCEPT !.items[i].args = Append(@, piece)] ELSE st
SetArguments(st, i, args) ==
    IF i \in DOMAIN st.items THEN [st EXCEPT !.items[i].args = args] ELSE st

ArgumentsDelta(st, e) ==
    LET i == IndexOf(st, e)
        noted == [st EXCEPT !.seen = @ \cup {i}]
    IN  IF i = 0 THEN Does(st, <<>>)
        ELSE Does(AppendArguments(noted, i, e.x), <<CallChunk(i, "none", "none", <<e.x>>)>>)
ArgumentsDone(st, e) ==
    LET i == IndexOf(st, e)
        set == SetArguments(st, i, e.x)
    IN  CASE i = 0 -> Does(st, <<>>)
          [] i \in st.seen -> Does(set, <<>>)
          [] OTHER -> Does(set, <<CallChunk(i, "none", "none", e.x)>>)

\* finish_reason_from_response
FinishReason(calls, end) == IF calls THEN "tool_calls" ELSE end

\* The output of a response replaces what was gathered.
Absorb(st, output) == [st EXCEPT !.items = output]

\* The final response is what goes back to the server.
Completed(st, e) ==
    LET now == Absorb(st, e.x.blocks)
        output == ByIndex(now.items)
        calls == \E i \in 1..Len(output) : IsCall(output[i])
        meta == IF output = <<>> THEN NoMeta ELSE [api |-> "responses", blocks |-> output]
    IN  Does(now, <<[Chunk EXCEPT !.finish = FinishReason(calls, e.x.end), !.meta = meta]>>)

ResponsesEvent(st, e) ==
    CASE e.ev = "created" -> Does(Absorb(st, <<>>), <<>>)
      [] e.ev = "item_added" -> ItemAdded(st, e)
      [] e.ev = "item_done" -> ItemDone(st, e)
      [] e.ev = "text_delta" -> Does(st, <<Content(e.x)>>)
      [] e.ev = "thinking_delta" -> Does(st, <<ThinkingChunk(e.x)>>)
      [] e.ev = "arguments_delta" -> ArgumentsDelta(st, e)
      [] e.ev = "arguments_done" -> ArgumentsDone(st, e)
      [] OTHER -> Completed(st, e)

-----------------------------------------------------------------------------
(* Chat: every event is a chunk; a legacy function_call has no id or index *)

ChatEvent(st, e) ==
    LET legacy == style = "legacy"
        i == IF legacy THEN 1 ELSE e.idx
    IN  CASE e.ev = "text_delta" -> Does(st, <<Content(e.x)>>)
          [] e.ev = "thinking_delta" -> Does(st, <<ThinkingChunk(e.x)>>)
          [] e.ev = "call_start" ->
                 Does(st, <<CallChunk(i, IF legacy THEN "none" ELSE e.x.id,
                                      ToInternal(e.x.name), <<>>)>>)
          [] e.ev = "call_args" -> Does(st, <<CallChunk(i, "none", "none", <<e.x>>)>>)
          [] e.ev = "finish" -> Does(st, <<[Chunk EXCEPT !.finish = e.x]>>)
          [] OTHER -> Stop(st)

Handle(st, e) ==
    CASE api = "messages" -> MessagesEvent(st, e)
      [] api = "responses" -> ResponsesEvent(st, e)
      [] OTHER -> ChatEvent(st, e)

-----------------------------------------------------------------------------
(* The message of a stream (runtime/streaming.rs) *)

Made(n) == <<"made1", "made2", "made3", "made4">>[n]
LastOf(s, default) ==
    LET given == SelectSeq(s, LAMBDA x : x # default)
    IN  IF given = <<>> THEN default ELSE given[Len(given)]

\* merge_tool_call_delta: the last id and name, all the arguments.
CallAt(deltas, i) ==
    LET own == SelectSeq(deltas, LAMBDA d : d.idx = i)
        id == LastOf([k \in 1..Len(own) |-> own[k].id], "none")
    IN  Call(IF id = "none" THEN Made(i) ELSE id,
             LastOf([k \in 1..Len(own) |-> own[k].name], "none"),
             FlattenSeq([k \in 1..Len(own) |-> own[k].args]))

\* normalize_tool_call_ids
NormalIds(calls) ==
    [k \in 1..Len(calls) |->
        IF calls[k].id = "none" \/ \E j \in 1..k-1 : calls[j].id = calls[k].id
        THEN [calls[k] EXCEPT !.id = Made(k)] ELSE calls[k]]

\* drive_stream_step: thinking that comes after text is not recorded.
Assembled(cs) ==
    LET deltas == FlattenSeq([k \in 1..Len(cs) |-> cs[k].calls])
        indices == Sorted({deltas[k].idx : k \in 1..Len(deltas)})
        spoken == {k \in 1..Len(cs) : cs[k].content # <<>>}
        before == {k \in 1..Len(cs) : \A j \in spoken : k <= j}
    IN  Said(FlattenSeq([k \in 1..Len(cs) |-> cs[k].content]),
             FlattenSeq([k \in 1..Len(cs) |-> IF k \in before THEN cs[k].thinking ELSE <<>>]),
             NormalIds([k \in 1..Len(indices) |-> CallAt(deltas, indices[k])]),
             LastOf([k \in 1..Len(cs) |-> cs[k].meta], NoMeta))
FinishOf(cs) == LastOf([k \in 1..Len(cs) |-> cs[k].finish], "none")

-----------------------------------------------------------------------------
(* The message of a whole response *)

OfType(blocks, type) == SelectSeq(blocks, LAMBDA b : b.type = type)
InternalCalls(blocks) ==
    LET cs == OfType(blocks, "call")
    IN  NormalIds([k \in 1..Len(cs) |-> Call(cs[k].id, ToInternal(cs[k].name), cs[k].args)])

\* append_string_field: a line of its own for each text.
JoinedLines(blocks) ==
    FlattenSeq([k \in 1..Len(blocks) |->
        IF k = 1 THEN blocks[k].text ELSE <<"newline">> \o blocks[k].text])

\* chat_response_from_anthropic: reasoning is kept with calls only.
WholeMessages(r) ==
    LET thoughts == OfType(r.blocks, "thinking")
    IN  Said(Pieces(OfType(r.blocks, "text")),
             IF HasCall(r) THEN Pieces(thoughts) ELSE <<>>, InternalCalls(r.blocks),
             IF thoughts = <<>> THEN NoMeta ELSE [api |-> "messages", blocks |-> thoughts])
WholeResponses(r) ==
    Said(JoinedLines(OfType(r.blocks, "text")),
         IF HasCall(r) THEN JoinedLines(OfType(r.blocks, "thinking")) ELSE <<>>,
         InternalCalls(r.blocks),
         IF r.blocks = <<>> THEN NoMeta ELSE [api |-> "responses", blocks |-> r.blocks])

\* The server gives a Chat message as fields; a legacy call has no id.
WholeChat(r) ==
    LET calls == InternalCalls(r.blocks)
    IN  Said(Pieces(OfType(r.blocks, "text")), Pieces(OfType(r.blocks, "thinking")),
             IF style = "legacy" THEN [k \in 1..Len(calls) |-> [calls[k] EXCEPT !.id = Made(k)]]
             ELSE calls, NoMeta)

Whole(r) ==
    CASE api = "messages" -> [message |-> WholeMessages(r), finish |-> r.end]
      [] api = "responses" -> [message |-> WholeResponses(r), finish |-> FinishReason(HasCall(r), r.end)]
      [] OTHER -> [message |-> WholeChat(r), finish |-> r.end]
NoAnswer == [message |-> Said(<<>>, <<>>, <<>>, NoMeta), finish |-> "none"]

-----------------------------------------------------------------------------
Init ==
    /\ api \in APIs
    /\ \E x \in Exchanges : past = x[1] /\ reply = x[2]
    /\ style \in Styles(api)
    /\ style = "legacy" => Len(OfType(reply.blocks, "call")) <= 1
    /\ streaming \in BOOLEAN /\ official \in BOOLEAN
    /\ demanding \in {"never", "with calls", "always"}
    /\ api # "chat" => ~official
    /\ demanding # "never" => api = "chat" /\ \E i \in 1..Len(past) : HasCalls(past[i])
    /\ patched = InjectsReasoning(api, official) /\ resent = FALSE
    /\ phase = "request" /\ pos = 0 /\ chunks = <<>> /\ answer = NoAnswer
    /\ decoder = [thinking |-> <<>>, tools |-> <<>>, items |-> <<>>, seen |-> {}]

Lacks ==
    \/ demanding = "always"
    \/ demanding = "with calls" /\ ReasoningMissing(ReasoningSent(Sanitize(past), patched))

\* A request that cannot be built never leaves.
NotBuilt ==
    /\ phase = "request" /\ ~Buildable(api, Sanitize(past))
    /\ phase' = "error"
    /\ UNCHANGED <<callVars, patched, resent, pos, decoder, chunks, answer>>

\* The server complains of missing reasoning: patch the body and send it once
\* more.
Complain ==
    /\ phase = "request" /\ Buildable(api, Sanitize(past)) /\ Lacks
    /\ IF resent THEN phase' = "refused" /\ UNCHANGED <<patched, resent>>
       ELSE resent' = TRUE /\ patched' = TRUE /\ UNCHANGED phase
    /\ UNCHANGED <<callVars, pos, decoder, chunks, answer>>

Answered ==
    phase = "request" /\ Buildable(api, Sanitize(past)) /\ ~Lacks

\* Any other refusal is the call's error.
Reject ==
    /\ Answered
    /\ phase' = "error"
    /\ UNCHANGED <<callVars, patched, resent, pos, decoder, chunks, answer>>

AnswerWhole ==
    /\ Answered /\ ~streaming
    /\ phase' = "ok" /\ answer' = Whole(reply)
    /\ UNCHANGED <<callVars, patched, resent, pos, decoder, chunks>>

OpenStream ==
    /\ Answered /\ streaming
    /\ phase' = "stream"
    /\ UNCHANGED <<callVars, patched, resent, pos, decoder, chunks, answer>>

\* One event of the stream; the last one ends it.
Receive ==
    /\ phase = "stream" /\ pos < Len(ServerEvents)
    /\ LET done == Handle(decoder, ServerEvents[pos + 1])
       IN  /\ decoder' = done.st
           /\ chunks' = chunks \o done.chunks
           /\ pos' = pos + 1
           /\ phase' = IF done.stop \/ pos' = Len(ServerEvents) THEN "ok" ELSE "stream"
    /\ UNCHANGED <<callVars, patched, resent, answer>>

\* The connection ends where the stream does not: the same end, unless nothing
\* was received.
CutStream ==
    /\ phase = "stream"
    /\ phase' = IF chunks = <<>> THEN "error" ELSE "ok"
    /\ UNCHANGED <<callVars, patched, resent, pos, decoder, chunks, answer>>

\* An error event, or a broken connection: the step fails.
Break ==
    /\ phase = "stream"
    /\ phase' = "error"
    /\ UNCHANGED <<callVars, patched, resent, pos, decoder, chunks, answer>>

Next == NotBuilt \/ Complain \/ Reject \/ AnswerWhole \/ OpenStream \/ Receive \/ CutStream \/ Break

Spec == Init /\ [][Next]_vars

-----------------------------------------------------------------------------
Message == IF streaming THEN Assembled(chunks) ELSE answer.message
StreamEnded == phase = "ok" /\ streaming /\ pos = Len(ServerEvents)

\* What of a message does not depend on how it came: the words, the calls, the
\* ids the server gave.
Substance(m) ==
    [words |-> SelectSeq(m.text, LAMBDA p : p \notin {"newline", "blank"}),
     calls |-> [k \in 1..Len(m.calls) |-> [name |-> m.calls[k].name, args |-> m.calls[k].args]]]
GivenIds(m) == {m.calls[k].id : k \in 1..Len(m.calls)} \cap {"c1", "c2"}

\* A stream that ran to its end gives what the whole response gives: the same
\* words, calls and arguments, ids, thinking blocks and finish reason
\* (anthropic.rs 975, openai_responses.rs 930, byot.rs 187, streaming.rs 46).
\* Wherever it is cut, what was made of it is the beginning of the reply: no
\* word and no argument is doubled, reordered or given to another call.
SameAs(whole) ==
    /\ Substance(Message) = Substance(whole)
    /\ GivenIds(Message) = GivenIds(whole)
    /\ SelectSeq(Message.meta.blocks, LAMBDA b : b.type # "thinking" \/ ~Blank(b.text))
         = SelectSeq(whole.meta.blocks, LAMBDA b : b.type # "thinking" \/ ~Blank(b.text))
BeginningOf(blocks) ==
    LET calls == OfType(blocks, "call")
    IN  /\ IsPrefix(Message.text, Pieces(OfType(blocks, "text")))
        /\ Len(Message.calls) <= Len(calls)
        /\ \A k \in 1..Len(Message.calls) :
               /\ Message.calls[k].name = ToInternal(calls[k].name)
               /\ IsPrefix(Message.calls[k].args, calls[k].args)
StreamIsWhole ==
    /\ StreamEnded => SameAs(Whole(reply).message) /\ FinishOf(chunks) = Whole(reply).finish
    /\ streaming => BeginningOf(reply.blocks)

\* The next request, to this API or, after a change of model, to another one.
AnswersTo(m) == [k \in 1..Len(m.calls) |-> Answer(m.calls[k].id, "out")]
Later(n) == Sanitize(past \o <<Message>> \o SubSeq(AnswersTo(Message), 1, n))
IdsGoBack(m) == m.meta.api = "responses" =>
    SelectSeq(m.meta.blocks, IsCall) = [k \in 1..Len(m.calls) |-> NamedOnWire(ToolUse(m.calls[k]))]

Tools == {"read", "web_search"}

\* After a reply, the next request of every API says the whole conversation
\* (each message's words, each call once, by its tool's name, with its
\* arguments and its answer), Messages finds the answers where it wants them,
\* and only broken arguments or content keep it from being built
\* (anthropic.rs 479, openai_responses.rs 332, lib.rs 459).
NextSaysAll ==
    phase = "ok" /\ IdsGoBack(Message) =>
        \A to \in APIs : \A n \in {0, Len(Message.calls)} :
            /\ Buildable(to, Later(n)) =>
                   /\ SaysAll(to, Later(n))
                   /\ NamesOffered(to, Later(n), Tools)
                   /\ to = "messages" => AnsweredNext(Wire(to, Later(n)))
            /\ ((\A k \in 1..Len(Message.calls) : IsJson(Message.calls[k].args))
                  /\ Buildable(to, Sanitize(past))) => Buildable(to, Later(n))

\* A server that wants reasoning with every message that has calls gets it, by
\* the second request at the latest (patches.rs 44, lib.rs 925).
ReasoningSupplied == phase = "refused" => demanding = "always"
=============================================================================
