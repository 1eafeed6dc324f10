-------------------------------- MODULE MCAdmin --------------------------------
(***************************************************************************)
(* Keeping a server: a behaviour is about the commands that start and stop *)
(* it, or about the requests that change its configuration.  The two share *)
(* only the configured token and port, which no request of the model       *)
(* changes.                                                                *)
(***************************************************************************)
EXTENDS ConfigAdmin, Daemon

VARIABLE subject

-----------------------------------------------------------------------------
(* Instances *)

A == <<"a">>
B == <<"b">>
MCNameOrder == <<A, B, <<"default">>>>
M == <<"m">>
C == <<"claude">>
Model(id, max) == [NewModel(id) EXCEPT !.max = max]
Provider(api, models) == [api |-> api, url |-> <<"u">>, key |-> None, models |-> models]
File(default, providers, single) ==
    [default |-> default, providers |-> providers, single |-> single,
     web |-> None, tavily |-> <<"t">>, steps |-> None, toggles |-> <<>>]
MCFiles == {
    File(A \o M, A :> Provider("chat", <<Model(M, 7), NewModel(C)>>)
                 @@ B :> Provider("messages", <<NewModel(C), Model(M, 8)>>), None),
    File(M, <<>>, Provider("chat", <<NewModel(M), Model(<<"a", "m">>, 9)>>)),
    File(None, A :> Provider("responses", <<>>) @@ B :> Provider("chat", <<Model(<<"a", "m">>, 9)>>), None),
    File(None, A :> Provider("chat", <<>>), Provider("chat", <<>>))}

Change == [kind |-> "providers", default |-> Keep, delete |-> <<>>, upsert |-> <<>>]
Put(name) == [name |-> name, api |-> Keep, url |-> Keep, key |-> Keep, models |-> Keep]
Listed(id, limit) == [id |-> id, limit |-> limit]
MCPatches == {
    [Change EXCEPT !.delete = <<A>>],
    [Change EXCEPT !.upsert = <<[Put(A) EXCEPT !.models = <<Listed(M, 5), Listed(C, Keep), Listed(M, 0)>>]>>],
    [Change EXCEPT !.upsert = <<[Put(A) EXCEPT !.models = <<Listed(M, Keep), Listed(M, 5)>>]>>],
    [Change EXCEPT !.upsert = <<[Put(B) EXCEPT !.models = <<>>], [Put(A) EXCEPT !.api = "messages"]>>],
    [Change EXCEPT !.default = BlankText, !.delete = <<B>>, !.upsert = <<[Put(B) EXCEPT !.url = <<"v">>]>>],
    [Change EXCEPT !.default = <<"c", "m">>, !.upsert = <<[Put(A) EXCEPT !.key = BlankText]>>],
    [Change EXCEPT !.default = <<"b", "a", "m">>],
    [kind |-> "steps", steps |-> 3], [kind |-> "steps", steps |-> 0],
    [kind |-> "toggle", id |-> <<"s">>, enable |-> TRUE]}

MCSettings == {[token |-> 0, port |-> NoValue, foreign |-> {}],
               [token |-> NoValue, port |-> NoValue, foreign |-> {}],
               [token |-> NoValue, port |-> NoValue, foreign |-> {1}],
               [token |-> 0, port |-> 2, foreign |-> {1}]}

-----------------------------------------------------------------------------
MCInit ==
    /\ AdminInit /\ DaemonInit
    /\ subject \in {"config", "daemon"}
    /\ subject = "daemon" => disk = CHOOSE f \in Files : Load(f).ok
    /\ subject = "config" => setting.token = 0 /\ foreign = {}

MCNext ==
    \/ subject = "config" /\ AdminNext /\ UNCHANGED <<daemonVars, subject>>
    \/ subject = "daemon" /\ BoundedNext /\ UNCHANGED <<adminVars, subject>>

MCSpec == MCInit /\ [][MCNext]_<<adminVars, daemonVars, subject>>

AdminSymmetry == Permutations(Commands) \cup Permutations(Admins)
=============================================================================
