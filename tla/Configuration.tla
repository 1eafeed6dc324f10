----------------------------- MODULE Configuration -----------------------------
(***************************************************************************)
(* The configuration file: how its text becomes the configuration in       *)
(* force, how a model id is routed to a provider, and what a patch of the  *)
(* providers makes of it.  A name is the sequence of its parts between     *)
(* slashes; the sections that only carry values are `steps` (the runtime   *)
(* limits), `toggles` (skills and custom tools) and `web`.                 *)
(***************************************************************************)
EXTENDS Naturals, Sequences, FiniteSets, SequencesExt

CONSTANTS None,         \* an absent value
          Keep,         \* a field a patch does not mention
          NameOrder     \* the provider names, in the order of the map

Names == Range(NameOrder)
BlankText == <<"">>

\* A model as the file lists it: its id, its output limit, which no request can change, and its
\* compaction limit, which stands for every setting a request can change.
NewModel(id) == [id |-> id, max |-> None, limit |-> None]

-----------------------------------------------------------------------------
(* Routes *)

Lists(p, name, id) == \E i \in DOMAIN p.models : p.models[i].id \in {id, name \o id}

\* The provider and the model a full or a bare id may stand for, when the providers settle it.
Candidates(c, id) ==
    LET known == DOMAIN c.providers
        owners == {n \in known : Lists(c.providers[n], n, id)}
    IN  IF Len(id) > 1 /\ <<Head(id)>> \in known THEN {[name |-> <<Head(id)>>, model |-> Tail(id)]}
        ELSE IF Cardinality(known) = 1 THEN {[name |-> n, model |-> id] : n \in known}
        ELSE IF Cardinality(owners) = 1 THEN {[name |-> n, model |-> id] : n \in owners}
        ELSE {}

\* The routes of an id: one, or none when it cannot be resolved.
Routes(c, id) ==
    IF id = BlankText \/ (Len(id) > 1 /\ (Head(id) = "" \/ Tail(id) = BlankText)) THEN {}
    ELSE {r \in Candidates(c, id) : \/ c.providers[r.name].models = <<>>
                                    \/ Lists(c.providers[r.name], r.name, r.model)}

-----------------------------------------------------------------------------
(* From the text to the configuration *)

\* The shorthand for a single provider, and the older place of the web search key.
ResolveFile(f) ==
    [default |-> f.default,
     providers |-> IF f.single = None THEN f.providers ELSE <<"default">> :> f.single,
     web |-> IF f.web = None THEN f.tavily ELSE f.web,
     steps |-> f.steps, toggles |-> f.toggles]

\* The first model any provider lists.
FirstModel(providers) ==
    LET named == {i \in DOMAIN NameOrder : /\ NameOrder[i] \in DOMAIN providers
                                           /\ \E m \in Range(providers[NameOrder[i]].models) : m.id # BlankText}
        name == NameOrder[CHOOSE i \in named : \A j \in named : i <= j]
    IN  IF named = {} THEN None
        ELSE name \o Head(SelectSeq(providers[name].models, LAMBDA m : m.id # BlankText)).id

Dangling(c) == c.default = None \/ Routes(c, c.default) = {}

Normalize(c) ==
    LET first == FirstModel(c.providers)
    IN  IF Dangling(c) /\ first # None THEN [c EXCEPT !.default = first] ELSE c

IsClaude(id) == Last(id) = "claude"

ProviderValid(n, p) ==
    /\ n # BlankText /\ p.url # BlankText /\ p.key # BlankText
    /\ \A m \in Range(p.models) :
          /\ m.id # BlankText /\ m.limit # 0 /\ m.max # 0
          /\ p.api = "messages" /\ ~IsClaude(m.id) => m.max # None

Valid(c) ==
    /\ DOMAIN c.providers # {}
    /\ \A n \in DOMAIN c.providers : ProviderValid(n, c.providers[n])
    /\ c.default # None => Routes(c, c.default) # {}
    /\ c.steps # 0 /\ c.web # BlankText

\* Loading: a text with both forms of providers is refused, and what is left is made whole
\* before it is judged.
Load(f) ==
    LET c == Normalize(ResolveFile(f))
    IN  [ok |-> ~(f.single # None /\ DOMAIN f.providers # {}) /\ Valid(c),
         config |-> c, normalized |-> c # ResolveFile(f)]

\* A configuration as text.
Serialized(c) ==
    [default |-> c.default, providers |-> c.providers, single |-> None,
     web |-> c.web, tavily |-> None, steps |-> c.steps, toggles |-> c.toggles]

-----------------------------------------------------------------------------
(* Patches of the providers *)

Or(value, old) == IF value = Keep THEN old ELSE value

\* What the provider had under an id: the last entry, which replaces earlier ones in the table
\* of old models.
HadModel(old, id) ==
    LET at == {i \in DOMAIN old : old[i].id = id}
    IN  IF at = {} THEN NewModel(id) ELSE old[CHOOSE i \in at : \A j \in at : j <= i]

\* The models a patch lists, each once, on top of what the provider had.
PatchModels(old, patches) ==
    LET Known(ms, id) == \E i \in DOMAIN ms : ms[i].id = id
        Add(ms, m) == IF Known(ms, m.id) THEN ms
                      ELSE Append(ms, [HadModel(old, m.id) EXCEPT !.limit = Or(m.limit, @)])
    IN  FoldLeft(Add, <<>>, patches)

NewProvider == [api |-> "chat", url |-> BlankText, key |-> None, models |-> <<>>]

\* Of entries with one id only the first is applied, and judged.
ModelsOk(ms) ==
    \A i \in DOMAIN ms :
        /\ ms[i].id # BlankText
        /\ (\A j \in 1..i-1 : ms[j].id # ms[i].id) => ms[i].limit # 0

UpsertOk(providers, u) ==
    /\ u.name # BlankText /\ u.url # BlankText /\ u.key # BlankText
    /\ u.api \in {Keep, "chat", "responses", "messages"}
    /\ u.name \notin DOMAIN providers => u.url # Keep
    /\ u.models # Keep => ModelsOk(u.models)

Upserted(providers, u) ==
    LET had == IF u.name \in DOMAIN providers THEN providers[u.name] ELSE NewProvider
    IN  u.name :> [api |-> Or(u.api, had.api), url |-> Or(u.url, had.url), key |-> Or(u.key, had.key),
                   models |-> IF u.models = Keep THEN had.models ELSE PatchModels(had.models, u.models)]
        @@ providers

Without(providers, name) == [n \in DOMAIN providers \ {name} |-> providers[n]]

\* What a patch of the providers asks for: the outcome, and whether it was accepted so far.
PatchProviders(c, patch) ==
    LET default == IF patch.default = BlankText THEN None ELSE Or(patch.default, c.default)
        Delete(s, n) == [ok |-> s.ok /\ n # BlankText /\ n \in DOMAIN s.providers,
                         providers |-> Without(s.providers, n)]
        Upsert(s, u) == [ok |-> s.ok /\ UpsertOk(s.providers, u),
                         providers |-> IF UpsertOk(s.providers, u) THEN Upserted(s.providers, u)
                                       ELSE s.providers]
        deleted == FoldLeft(Delete, [ok |-> TRUE, providers |-> c.providers], patch.delete)
        done == FoldLeft(Upsert, deleted, patch.upsert)
    IN  [ok |-> done.ok, config |-> [c EXCEPT !.default = default, !.providers = done.providers]]

\* A patch of the runtime limits, and of the skills or the custom tools.
PatchSteps(c, steps) == [ok |-> steps # 0, config |-> [c EXCEPT !.steps = steps]]
PatchToggles(c, id, enable) ==
    [ok |-> id # BlankText, config |-> [c EXCEPT !.toggles = id :> enable @@ @]]
=============================================================================
