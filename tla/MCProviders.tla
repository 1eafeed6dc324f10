----------------------------- MODULE MCProviders -----------------------------
(* Replies of up to three blocks, and conversations that are hard to send.   *)
EXTENDS Providers

CallBlk(id, name, args) == ToolUse(Call(id, name, args))
Blocks == {Thinking(<<"t">>, TRUE), Text(<<"a", "b">>),
           CallBlk("c1", "kiliax_web_search", <<"{", "k", "}">>),
           CallBlk("c2", "read", <<"{", "}">>),
           CallBlk("none", "read", <<"{", "v", "}">>)}
UserOf(parts) == User([parts |-> parts])
Plain == <<System("rules"), UserOf(<<"text">>)>>
Past(text, reasoning, calls) == Said(text, reasoning, calls, NoMeta)
Asked == <<Call("p1", "read", <<"{", "}">>), Call("p2", "web_search", <<"{", "k", "}">>)>>

OddPasts ==
    {<<UserOf(<<"blank", "png">>), Past(<<"blank">>, <<"t">>, Asked), Answer("p2", "o")>>,
     <<UserOf(<<"pdf">>), Past(<<"a">>, <<>>, Asked), Answer("p1", "o"), Answer("p2", "o"),
       UserOf(<<"http">>)>>,
     <<UserOf(<<"bmp", "text">>)>>,
     <<System("rules")>>,
     <<UserOf(<<"blank">>)>>,
     <<UserOf(<<"text">>), Past(<<>>, <<>>, <<Call("p1", "read", <<"{">>)>>), Answer("p1", "o")>>}

Reply(bs, end) ==
    [blocks |-> bs, end |-> IF end = "stop" /\ \E i \in 1..Len(bs) : IsCall(bs[i])
                            THEN "tool_calls" ELSE end]
BlockSeqs == {bs \in UNION {[1..n -> Blocks] : n \in 1..3} :
                 \A i, j \in 1..Len(bs) : i # j /\ IsCall(bs[i]) => bs[i] # bs[j]}
AllReplies == {Reply(bs, "stop") : bs \in BlockSeqs} \cup {Reply(<<Text(<<"a">>)>>, "length")}

\* Any reply to a plain conversation, one with a call to an odd one.
OneCall == Reply(<<Text(<<"a", "b">>), CallBlk("c1", "read", <<"{", "}">>)>>, "stop")
MCExchanges == ({Plain} \X AllReplies) \cup (OddPasts \X {OneCall})
==============================================================================
