--------------------------- MODULE ProviderRequests ---------------------------
(***************************************************************************)
(* What each provider API is sent for a conversation (kiliax-llm): the     *)
(* Anthropic Messages API ("messages"), the OpenAI Responses API           *)
(* ("responses") and the Chat Completions API ("chat").                    *)
(*                                                                         *)
(* A conversation is a sequence of History messages, whose user content is *)
(* a text or a sequence of parts and whose assistant messages carry        *)
(*   text       pieces of text,          reasoning  pieces of thinking,    *)
(*   calls      [id, name, args], args the pieces of a JSON text,          *)
(*   meta       what the provider wants back: [api, blocks].               *)
(* A request is a sequence of wire messages [role, blocks].                *)
(***************************************************************************)
EXTENDS History

APIs == {"messages", "responses", "chat"}

Call(id, name, args) == [id |-> id, name |-> name, args |-> args]
NoMeta == [api |-> "none", blocks |-> <<>>]
Said(text, reasoning, calls, meta) ==
    [kind |-> "assistant", text |-> text, reasoning |-> reasoning, calls |-> calls, meta |-> meta]

\* Blocks: of a reply, and of a wire message.
Text(pieces) == [type |-> "text", text |-> pieces]
Thinking(pieces, signed) == [type |-> "thinking", text |-> pieces, signed |-> signed]
ToolUse(c) == [type |-> "call", id |-> c.id, name |-> c.name, args |-> c.args]
Result(m) == [type |-> "answer", id |-> m.id, text |-> <<m.text>>]
Part(p) == [type |-> "part", part |-> p]
Bad == [type |-> "bad"]
Dot == Part("dot")

\* One JSON object and nothing after it.
IsJson(args) ==
    /\ args # <<>> /\ args[1] = "{" /\ args[Len(args)] = "}"
    /\ \A i \in 2..Len(args)-1 : args[i] \notin {"{", "}"}

-----------------------------------------------------------------------------
(* Tool names: web_search is a built-in name of some providers, so it has    *)
(* another one on the wire.                                                  *)

ToWire(n) == IF n = "web_search" THEN "kiliax_web_search" ELSE n
ToInternal(n) == IF n = "kiliax_web_search" THEN "web_search" ELSE n
NamedOnWire(b) == IF b.type = "call" THEN [b EXCEPT !.name = ToWire(b.name)] ELSE b

WireTools(tools) == {ToWire(n) : n \in tools}

\* The choice sent: none without tools, and Chat leaves out the default.
ToWireChoice(choice, tools) == IF tools = {} THEN "absent" ELSE ToWire(choice)
ChatChoice(choice, tools) == IF choice = "auto" THEN "absent" ELSE ToWireChoice(choice, tools)
WireChoice(api, choice, tools) ==
    IF api = "chat" THEN ChatChoice(choice, tools) ELSE ToWireChoice(choice, tools)

-----------------------------------------------------------------------------
(* User content *)

\* A path that names an image: an address, inline data, or a file that is
\* there, is not too large and is of a kind the API knows.
MessagesImage == {"http", "data", "png"}
OpenAiImage == {"http", "data", "bare_data", "png", "bmp"}

\* A PDF has a name, its media type and raw base64 data.
FileOk == {"pdf"}

\* Blank parts are left out; content of nothing else is refused, as is content
\* with a part that is not what it should be.
Kept(content) == SelectSeq(content.parts, LAMBDA p : p # "blank")
PartBlocks(content, taken) ==
    [i \in 1..Len(Kept(content)) |->
        IF Kept(content)[i] = "text" \/ Kept(content)[i] \in taken THEN Part(Kept(content)[i]) ELSE Bad]

MessagesPart == MessagesImage \cup FileOk
MessagesUser(content) ==
    IF Kept(content) = <<>> THEN <<Bad>> ELSE PartBlocks(content, MessagesPart)

\* OpenAI's APIs want a text with every image or file: a dot will do.
OpenAiPart == OpenAiImage \cup FileOk
ChatUser(content) ==
    CASE Kept(content) = <<>> -> <<Bad>>
      [] \A i \in 1..Len(Kept(content)) : Kept(content)[i] # "text" ->
             <<Dot>> \o PartBlocks(content, OpenAiPart)
      [] OTHER -> PartBlocks(content, OpenAiPart)
ResponsesUser(content) == ChatUser(content)

-----------------------------------------------------------------------------
(* Assistant messages *)

TextBlock(m) == IF Blank(m.text) THEN <<>> ELSE <<Text(m.text)>>
CallBlock(api, c) ==
    IF api = "messages" /\ ~IsJson(c.args) THEN Bad ELSE NamedOnWire(ToolUse(c))
CallBlocks(api, m) == [k \in 1..Len(m.calls) |-> CallBlock(api, m.calls[k])]

\* assistant_thinking_blocks: the blocks the API sent, else the reasoning.
ThinkingBlocks(m) ==
    LET own == IF m.meta.api = "messages"
               THEN SelectSeq(m.meta.blocks, LAMBDA b : b.type = "thinking" /\ ~Blank(b.text))
               ELSE <<>>
    IN  CASE own # <<>> -> own
          [] ~Blank(m.reasoning) -> <<Thinking(m.reasoning, FALSE)>>
          [] OTHER -> <<>>

\* The Responses API takes back its own output items as they were.
OwnOutput(m) == IF m.meta.api = "responses" THEN m.meta.blocks ELSE <<>>

MessagesAssistant(m) == ThinkingBlocks(m) \o TextBlock(m) \o CallBlocks("messages", m)
ChatAssistant(m) == TextBlock(m) \o CallBlocks("chat", m)
ResponsesAssistant(m) ==
    IF OwnOutput(m) # <<>>
    THEN [i \in 1..Len(OwnOutput(m)) |-> NamedOnWire(OwnOutput(m)[i])]
    ELSE TextBlock(m) \o CallBlocks("responses", m)

NotEmpty(blocks) == IF blocks = <<>> THEN <<Bad>> ELSE blocks

-----------------------------------------------------------------------------
(* Requests *)

One(role, blocks) == <<[role |-> role, blocks |-> blocks]>>

\* Messages groups a run of answers in a message of the user.
RunEnd(ms, i) ==
    LET stops == {j \in i+1..Len(ms) : ~IsTool(ms[j])}
    IN  IF stops = {} THEN Len(ms) ELSE (CHOOSE j \in stops : \A k \in stops : j <= k) - 1
\* Mutant: each answer is a message of its own.
AnswerAlone(ms, i) == One("user", <<Result(ms[i])>>)
AnswerRun(ms, i) ==
    IF i > 1 /\ IsTool(ms[i-1]) THEN <<>>
    ELSE One("user", [k \in 1..RunEnd(ms, i)-i+1 |-> Result(ms[i+k-1])])
MessagesWire(ms, i) ==
    CASE ms[i].kind = "user" -> One("user", MessagesUser(ms[i].text))
      [] IsAssistant(ms[i]) -> One("assistant", NotEmpty(MessagesAssistant(ms[i])))
      [] IsTool(ms[i]) -> AnswerRun(ms, i)
      [] OTHER -> <<>>

\* Responses has items, not messages, for what the assistant did.
ResponsesWire(ms, i) ==
    LET items == NotEmpty(ResponsesAssistant(ms[i]))
    IN  CASE ms[i].kind = "user" -> One("user", ResponsesUser(ms[i].text))
          [] IsAssistant(ms[i]) -> [k \in 1..Len(items) |->
                                       [role |-> "assistant", blocks |-> <<items[k]>>]]
          [] IsTool(ms[i]) -> One("tool", <<Result(ms[i])>>)
          [] OTHER -> <<>>

ChatWire(ms, i) ==
    CASE ms[i].kind = "user" -> One("user", ChatUser(ms[i].text))
      [] IsAssistant(ms[i]) -> One("assistant", NotEmpty(ChatAssistant(ms[i])))
      [] IsTool(ms[i]) -> One("tool", <<Result(ms[i])>>)
      [] OTHER -> One("system", <<Part(ms[i].text)>>)

Wire(api, ms) ==
    FlattenSeq([i \in 1..Len(ms) |->
        CASE api = "messages" -> MessagesWire(ms, i)
          [] api = "responses" -> ResponsesWire(ms, i)
          [] OTHER -> ChatWire(ms, i)])

\* A message that cannot be expressed, or a conversation of none, is refused.
Buildable(api, ms) ==
    /\ \A i \in 1..Len(Wire(api, ms)) : \A k \in 1..Len(Wire(api, ms)[i].blocks) :
           Wire(api, ms)[i].blocks[k] # Bad
    /\ api # "chat" => Wire(api, ms) # <<>>

-----------------------------------------------------------------------------
(* The reasoning some Chat servers want with every message that has calls *)

\* should_inject_reasoning_content: every route but OpenAI's own.
InjectsReasoning(api, official) == api = "chat" /\ ~official

\* Mutant: a call without recorded reasoning is left as it is.
ReasoningRecorded(m) == m.reasoning
\* inject_reasoning_content_for_tool_calls: the reasoning that was recorded, or
\* a single space; nothing that is not blank is replaced.
ReasoningContent(m) == IF Blank(m.reasoning) THEN <<"space">> ELSE m.reasoning
ReasoningSent(ms, patched) ==
    [i \in {k \in 1..Len(ms) : HasCalls(ms[k])} |->
        IF patched THEN ReasoningContent(ms[i]) ELSE <<>>]
ReasoningMissing(sent) == \E i \in DOMAIN sent : sent[i] = <<>>

-----------------------------------------------------------------------------
(* What a request says, whatever the API *)

Flat(api, ms) == LET w == Wire(api, ms) IN FlattenSeq([i \in 1..Len(w) |-> w[i].blocks])
Pieces(blocks) == FlattenSeq([i \in 1..Len(blocks) |-> blocks[i].text])

CallsSaid(blocks) == SelectSeq(blocks, LAMBDA b : b.type \in {"call", "answer"})
PartsSaid(blocks) == SelectSeq(blocks, LAMBDA b : b.type = "part" /\ b # Dot)
WordsSaid(blocks) == SelectSeq(Pieces(SelectSeq(blocks, LAMBDA b : b.type = "text")),
                               LAMBDA p : p \notin {"blank", "newline"})

\* The blocks a message stands for.
Meant(m) ==
    CASE m.kind = "user" ->
             LET kept == SelectSeq(m.text.parts, LAMBDA p : p # "blank")
             IN  [i \in 1..Len(kept) |-> Part(kept[i])]
      [] m.kind = "assistant" ->
             <<Text(m.text)>> \o [k \in 1..Len(m.calls) |-> NamedOnWire(ToolUse(m.calls[k]))]
      [] m.kind = "tool" -> <<Result(m)>>
      [] OTHER -> <<>>
MeantBy(ms) == FlattenSeq([i \in 1..Len(ms) |-> Meant(ms[i])])

SaysAll(api, ms) ==
    LET meant == MeantBy(ms)
        said == Flat(api, SelectSeq(ms, LAMBDA m : ~IsPreamble(m)))
    IN  /\ CallsSaid(said) = CallsSaid(meant)
        /\ PartsSaid(said) = PartsSaid(meant)
        /\ WordsSaid(said) = WordsSaid(meant)

\* Calls go by the names their tools are offered by, and so does a forced one.
NamesOffered(api, ms, tools) ==
    /\ \A i \in 1..Len(Flat(api, ms)) :
           Flat(api, ms)[i].type = "call" => Flat(api, ms)[i].name \in WireTools(tools)
    /\ \A n \in tools : WireChoice(api, n, tools) \in WireTools(tools)

\* Messages wants the answers of all calls of a message in the next one.
Ids(blocks, type) == {blocks[k].id : k \in {j \in 1..Len(blocks) : blocks[j].type = type}}
AnsweredNext(w) ==
    \A i \in 1..Len(w) :
        LET called == Ids(w[i].blocks, "call")
        IN  called # {} => /\ i < Len(w)
                           /\ w[i+1].role = "user"
                           /\ Ids(w[i+1].blocks, "answer") = called
=============================================================================
