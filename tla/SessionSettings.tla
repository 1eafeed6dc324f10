--------------------------- MODULE SessionSettings ---------------------------
(***************************************************************************)
(* The settings of one live session: the copy in memory, the copy in       *)
(* meta.json, the configuration of the tool engine and the preamble built  *)
(* from them, against the server's configuration (state/mod.rs,            *)
(* state/live_session.rs, state/server_state.rs).                          *)
(*                                                                         *)
(* Handlers change the settings or the configuration; when no run is       *)
(* active they apply the change themselves, otherwise they leave           *)
(* settings_dirty and the worker applies it after the run.  No lock is     *)
(* held from one of these steps to the next.                               *)
(*                                                                         *)
(* "model" stands for everything only the preamble uses (agent, model,     *)
(* skills, workspace roots), "custom" for the custom tools, "mcp" for the  *)
(* MCP servers.                                                            *)
(***************************************************************************)
EXTENDS Naturals, FiniteSets, Functions

CONSTANTS Handlers,   \* concurrent requests
          Configs,    \* configurations an administrator may write
          Patches,    \* settings patches clients send
          Overrides,  \* overrides of runs
          MaxOps,     \* bound on requests
          MaxRuns,    \* bound on runs
          NULL        \* Option::None

Worker == "worker"

ASSUME SettingsBounds == MaxOps \in Nat /\ MaxRuns \in Nat /\ Worker \notin Handlers

\* What loading and patching leave: the default model of a configuration is one of its own.
ASSUME ConfigsResolve ==
    \A c \in Configs :
        /\ c = [mcp |-> [s \in DOMAIN c.mcp |-> c.mcp[s]], default |-> c.default,
                models |-> c.models, custom |-> c.custom]
        /\ c.default \in c.models

VARIABLES
    config,    \* ServerState::config
    settings,  \* LiveSession::settings
    meta,      \* SessionMeta of the session, in memory and in meta.json
    tools,     \* the configuration of the session's ToolEngine
    preamble,  \* what the preamble was built from
    dirty,     \* settings_dirty
    running,   \* SessionStatus::run_state is not Idle
    run,       \* run_one in progress, NoRun when the worker is in none
    act,       \* what each actor is doing
    ops, runs, \* requests and runs so far
    overlap,   \* two settings changes were in progress at once (history)
    straddled, \* an idle apply was in progress when the run began (history)
    slipped    \* an idle apply came between the run's reading of the configuration and
               \* its status, and the configuration had changed (history)

session == <<config, settings, meta, tools, preamble>>
history == <<overlap, straddled, slipped>>
vars == <<session, dirty, running, run, act, ops, runs, history>>

Actors == Handlers \cup {Worker}
Idle == [at |-> "none", cfg |-> NULL, set |-> NULL]
NoRun == [at |-> "none", cfg |-> NULL, over |-> NULL, base |-> NULL, eff |-> NULL]
NoMeta == [model |-> NULL, custom |-> NULL, mcp |-> << >>]

-----------------------------------------------------------------------------
\* Pure operations

Or(x, default) == IF x = NULL THEN default ELSE x

\* enable of every configured server: the given one, else the configured one
ServersOf(mcp, c) ==
    [s \in DOMAIN c.mcp |-> IF s \in DOMAIN mcp THEN mcp[s] ELSE c.mcp[s]]

\* resolve_session_settings: a model that is gone falls back to the default
ResolveSettings(m, c) ==
    [model  |-> IF Or(m.model, c.default) \in c.models THEN Or(m.model, c.default)
                                                       ELSE c.default,
     custom |-> Or(m.custom, c.custom),
     mcp    |-> ServersOf(m.mcp, c)]

\* merge_mcp_settings, whether it succeeds, and its result
MergeOk(existing, patch, c, allow_enable) ==
    /\ DOMAIN patch \subseteq DOMAIN c.mcp
    /\ \A s \in DOMAIN patch :
          patch[s] /\ ~allow_enable => s \in DOMAIN existing /\ existing[s]

MergeMcp(existing, patch, c) ==
    ServersOf([s \in DOMAIN existing \cup DOMAIN patch |->
                  IF s \in DOMAIN patch THEN patch[s] ELSE existing[s]], c)

\* apply_settings_patch and apply_run_overrides: an absent part changes nothing
PatchOk(s, p, c, allow_enable) ==
    /\ p.model # NULL => p.model \in c.models
    /\ p.mcp # NULL => MergeOk(s.mcp, p.mcp, c, allow_enable)

ApplyPatch(s, p, c) ==
    [model  |-> Or(p.model, s.model),
     custom |-> Or(p.custom, s.custom),
     mcp    |-> IF p.mcp = NULL THEN s.mcp ELSE MergeMcp(s.mcp, p.mcp, c)]

\* config_with_mcp_overrides: fails on a server the configuration does not have
OverridesKnown(c, mcp) == DOMAIN mcp \subseteq DOMAIN c.mcp

\* The tool configuration: apply_settings_now leaves the configured custom tools.
ToolsOf(c, mcp, custom) == [mcp |-> ServersOf(mcp, c), custom |-> custom]

\* The meta that patch_settings and apply_settings_now write
MetaOf(s) == [model |-> s.model, custom |-> s.custom, mcp |-> s.mcp]

\* save_session_defaults
DefaultsFrom(c, s) ==
    [c EXCEPT !.default = s.model, !.custom = s.custom,
              !.mcp = [i \in DOMAIN c.mcp |-> IF i \in DOMAIN s.mcp THEN s.mcp[i] ELSE c.mcp[i]]]

Enabled(mcp) == {s \in DOMAIN mcp : mcp[s]}
Disabled(mcp) == {s \in DOMAIN mcp : ~mcp[s]}

-----------------------------------------------------------------------------
\* LiveSession::resume: settings, tools and preamble from meta and configuration
Init ==
    /\ config \in Configs
    /\ \E known \in BOOLEAN :
          meta = IF known THEN MetaOf([model |-> config.default, custom |-> config.custom,
                                       mcp |-> config.mcp])
                          ELSE NoMeta
    /\ settings = ResolveSettings(meta, config)
    /\ tools = ToolsOf(config, settings.mcp, settings.custom)
    /\ preamble = settings.model
    /\ dirty = FALSE /\ running = FALSE /\ run = NoRun /\ act = [a \in Actors |-> Idle]
    /\ ops = 0 /\ runs = 0 /\ overlap = FALSE /\ straddled = FALSE /\ slipped = FALSE

\* Who is changing or applying settings.
Busy == {a \in Actors : act[a].at \notin {"none", "deferred"}}
Go(a, at) == act' = [act EXCEPT ![a].at = at]
Finish(a) == act' = [act EXCEPT ![a] = Idle]

\* A settings change begins: does it overlap another one?
Begins == overlap' = (overlap \/ Busy # {})

-----------------------------------------------------------------------------
\* patch_settings

\* The settings are read, the patch is checked against them and merged.
PatchRead(h, p) ==
    /\ act[h].at = "none" /\ ops < MaxOps
    /\ ops' = ops + 1 /\ Begins
    /\ act' = [act EXCEPT ![h] =
                 IF PatchOk(settings, p, config, TRUE)
                 THEN [at |-> "write", cfg |-> NULL, set |-> ApplyPatch(settings, p, config)]
                 ELSE Idle]
    /\ UNCHANGED <<session, dirty, running, run, runs, straddled, slipped>>

PatchWrite(h) ==
    /\ act[h].at = "write"
    /\ settings' = act[h].set
    /\ Go(h, "meta")
    /\ UNCHANGED <<config, meta, tools, preamble, dirty, running, run, ops, runs, history>>

\* The session's meta is set and checkpointed under the session's lock.
PatchMeta(h) ==
    /\ act[h].at = "meta"
    /\ meta' = MetaOf(act[h].set)
    /\ Go(h, "mark")
    /\ UNCHANGED <<config, settings, tools, preamble, dirty, running, run, ops, runs, history>>

\* Mutant: settings_dirty is stored only by a handler that must defer.
MarkDirtyLate(h) ==
    /\ act[h].at = "mark"
    /\ Go(h, "check")
    /\ UNCHANGED <<session, dirty, running, run, ops, runs, history>>

MarkDirty(h) ==
    /\ act[h].at = "mark"
    /\ dirty' = TRUE
    /\ Go(h, "check")
    /\ UNCHANGED <<session, running, run, ops, runs, history>>

\* Mutant: the handler applies the settings whatever the worker does.
CheckIdleNot(h) ==
    /\ act[h].at = "check"
    /\ Go(h, "apply")
    /\ UNCHANGED <<session, dirty, running, run, ops, runs, history>>

\* is_idle: the handler applies the settings, or leaves them to the worker.
CheckIdle(h) ==
    /\ act[h].at = "check"
    /\ IF running THEN Finish(h) ELSE Go(h, "apply")
    /\ slipped' = (slipped \/ (~running /\ run.at = "start" /\ run.cfg # config))
    /\ UNCHANGED <<session, dirty, running, run, ops, runs, overlap, straddled>>

-----------------------------------------------------------------------------
\* apply_settings_now, by a handler or by the worker

ApplyRead(a) ==
    /\ act[a].at = "apply"
    /\ act' = [act EXCEPT ![a] = IF OverridesKnown(config, settings.mcp)
                                 THEN [at |-> "tools", cfg |-> config, set |-> settings]
                                 ELSE Idle]
    /\ UNCHANGED <<session, dirty, running, run, ops, runs, history>>

ApplyTools(a) ==
    /\ act[a].at = "tools"
    /\ tools' = ToolsOf(act[a].cfg, act[a].set.mcp, act[a].cfg.custom)
    /\ Go(a, "preamble")
    /\ slipped' = (slipped /\ run.at # "none")
    /\ UNCHANGED <<config, settings, meta, preamble, dirty, running, run, ops, runs, overlap,
                   straddled>>

\* The preamble is replaced and meta written, under the session's lock.
ApplyPreamble(a) ==
    /\ act[a].at = "preamble"
    /\ preamble' = act[a].set.model
    /\ meta' = MetaOf(act[a].set)
    /\ Go(a, "clean")
    /\ UNCHANGED <<config, settings, tools, dirty, running, run, ops, runs, history>>

ApplyDone(a) ==
    /\ act[a].at = "clean"
    /\ dirty' = FALSE
    /\ Finish(a)
    /\ UNCHANGED <<session, running, run, ops, runs, history>>

-----------------------------------------------------------------------------
\* update_config, the patch_config requests and save_session_defaults

\* A request builds the next configuration from a snapshot of the current one.
ConfigRead(h) ==
    /\ act[h].at = "none" /\ ops < MaxOps
    /\ ops' = ops + 1 /\ Begins
    /\ \E next \in Configs \cup {DefaultsFrom(config, settings)} :
          act' = [act EXCEPT ![h] = [at |-> "store", cfg |-> next, set |-> NULL]]
    /\ UNCHANGED <<session, dirty, running, run, runs, straddled, slipped>>

ConfigStore(h) ==
    /\ act[h].at = "store"
    /\ config' = act[h].cfg
    /\ Go(h, "notice")
    /\ UNCHANGED <<settings, meta, tools, preamble, dirty, running, run, ops, runs, history>>

\* on_config_updated: the settings are resolved again from meta ...
ConfigResolve(h) ==
    /\ act[h].at = "notice"
    /\ act' = [act EXCEPT ![h] = [at |-> "resettle", cfg |-> NULL,
                                  set |-> ResolveSettings(meta, config)]]
    /\ UNCHANGED <<session, dirty, running, run, ops, runs, history>>

\* ... and replace the ones in memory, to be applied like a patch.
ConfigSettle(h) ==
    /\ act[h].at = "resettle"
    /\ settings' = act[h].set
    /\ Go(h, "mark")
    /\ UNCHANGED <<config, meta, tools, preamble, dirty, running, run, ops, runs, history>>

-----------------------------------------------------------------------------
\* The worker: run_one and the deferred settings of worker_loop

\* The configuration is read once for the whole run, before the status says that there is
\* one: a request in between takes the session for idle.
RunStart(o) ==
    /\ act[Worker].at = "none" /\ run.at = "none" /\ runs < MaxRuns
    /\ runs' = runs + 1
    /\ run' = [at |-> "start", cfg |-> config, over |-> o, base |-> NULL, eff |-> NULL]
    /\ UNCHANGED <<session, dirty, running, act, ops, history>>

RunBegins ==
    /\ run.at = "start"
    /\ running' = TRUE
    /\ run' = [run EXCEPT !.at = "settings"]
    /\ straddled' = (\E h \in Handlers : act[h].at \in {"apply", "tools"})
    /\ UNCHANGED <<session, dirty, act, ops, runs, overlap, slipped>>

\* An error returns from run_one and leaves the status as it is: the session shows a run
\* until the next one ends.
RunFails == run' = NoRun /\ Go(Worker, "deferred")

\* apply_run_overrides
RunSettings ==
    /\ run.at = "settings"
    /\ IF PatchOk(settings, run.over, run.cfg, FALSE)
       THEN /\ run' = [run EXCEPT !.at = "config", !.base = settings,
                                  !.eff = ApplyPatch(settings, run.over, run.cfg)]
            /\ UNCHANGED act
       ELSE RunFails
    /\ UNCHANGED <<session, dirty, running, ops, runs, history>>

RunTools ==
    /\ run.at = "config"
    /\ IF OverridesKnown(run.cfg, run.eff.mcp)
       THEN /\ tools' = ToolsOf(run.cfg, run.eff.mcp, run.eff.custom)
            /\ run' = [run EXCEPT !.at = "running"]
            /\ UNCHANGED act
       ELSE RunFails /\ UNCHANGED tools
    /\ UNCHANGED <<config, settings, meta, preamble, dirty, running, ops, runs, history>>

\* After the run the tools get the current settings, on the configuration of the start.
RunRestore ==
    /\ run.at = "running"
    /\ IF OverridesKnown(run.cfg, settings.mcp)
       THEN /\ tools' = ToolsOf(run.cfg, settings.mcp, settings.custom)
            /\ run' = [run EXCEPT !.at = "finish"]
            /\ slipped' = (slipped /\ run.cfg # config)
            /\ UNCHANGED act
       ELSE RunFails /\ UNCHANGED <<tools, slipped>>
    /\ UNCHANGED <<config, settings, meta, preamble, dirty, running, ops, runs, overlap,
                   straddled>>

RunIdle ==
    /\ run.at = "finish"
    /\ running' = FALSE
    /\ run' = NoRun
    /\ Go(Worker, "deferred")
    /\ UNCHANGED <<session, dirty, ops, runs, history>>

\* Mutant: the worker goes back to its queue.
WorkerDeferredForgotten ==
    /\ act[Worker].at = "deferred"
    /\ Finish(Worker)
    /\ UNCHANGED <<session, dirty, running, run, ops, runs, history>>

\* "Apply deferred session settings once safe."
WorkerDeferred ==
    /\ act[Worker].at = "deferred"
    /\ IF dirty /\ ~running THEN Go(Worker, "apply") ELSE Finish(Worker)
    /\ overlap' = (overlap \/ (dirty /\ ~running /\ Busy # {}))
    /\ UNCHANGED <<session, dirty, running, run, ops, runs, straddled, slipped>>

-----------------------------------------------------------------------------
Apply(a) == ApplyRead(a) \/ ApplyTools(a) \/ ApplyPreamble(a) \/ ApplyDone(a)

HandlerStep(h) ==
    \/ PatchWrite(h) \/ PatchMeta(h) \/ MarkDirty(h) \/ CheckIdle(h)
    \/ ConfigStore(h) \/ ConfigResolve(h) \/ ConfigSettle(h) \/ Apply(h)

WorkerStep == RunBegins \/ RunSettings \/ RunTools \/ RunRestore \/ RunIdle \/ WorkerDeferred
              \/ Apply(Worker)

Next == \/ \E h \in Handlers : (\E p \in Patches : PatchRead(h, p)) \/ ConfigRead(h)
        \/ \E h \in Handlers : HandlerStep(h)
        \/ \E o \in Overrides : RunStart(o)
        \/ WorkerStep

\* A request runs to its end, a run ends (a timeout or a cancel ends it at the latest),
\* and the worker goes on.
Fairness == WF_vars(WorkerStep) /\ \A h \in Handlers : WF_vars(HandlerStep(h))

Spec == Init /\ [][Next]_vars /\ Fairness

-----------------------------------------------------------------------------
(***************************************************************************)
(* Properties                                                              *)
(***************************************************************************)

\* Types of all variables.
TypeOK ==
    /\ settings.model \in UNION {c.models : c \in Configs} /\ settings.custom \in BOOLEAN
    /\ \A s \in DOMAIN settings.mcp : settings.mcp[s] \in BOOLEAN
    /\ {dirty, running, overlap, straddled, slipped} \subseteq BOOLEAN
    /\ ops \in 0..MaxOps /\ runs \in 0..MaxRuns
    /\ \A a \in Actors : act[a].at \in {"none", "write", "meta", "mark", "check", "apply",
          "tools", "preamble", "clean", "store", "notice", "resettle", "deferred"}
    /\ run.at \in {"none", "start", "settings", "config", "running", "finish"}

\* Preamble, meta.json and the MCP servers of the tools are what the settings say; the
\* tools may lag behind a configuration that changed in the window of RunStart.
InForce ==
    /\ preamble = settings.model
    /\ meta = MetaOf(settings)
    /\ slipped \/ tools.mcp = ServersOf(settings.mcp, config)

Quiet == Busy = {} /\ ~running /\ run.at = "none" /\ ~dirty

\* Unless two changes were in progress at once, a session at rest is what its settings
\* say (meta.json once it holds any), and these name a model that exists, whichever of
\* handler and worker applied the last change and whatever runs failed before.  The tools
\* are those of an older configuration only if it changed, and was applied, between the
\* run's reading of the configuration and the status that shows the run.
SettledAtRest ==
    Quiet /\ ~overlap =>
        /\ InForce \/ (meta = NoMeta /\ preamble = settings.model
                         /\ (slipped \/ tools.mcp = ServersOf(settings.mcp, config)))
        /\ settings.model \in config.models

\* Unless two changes were in progress at once (one of them may then put back what the
\* other replaced), a run never has an MCP server that the settings it read had disabled,
\* and keeps the servers it was given unless a handler that had found the session idle was
\* still applying settings when the status changed.
RunToolsBounded ==
    run.at = "running" /\ ~overlap =>
        /\ Enabled(tools.mcp) \cap Disabled(run.base.mcp) = {}
        /\ straddled \/ tools = ToolsOf(run.cfg, run.eff.mcp, run.eff.custom)

\* A change that had to wait for a run is in force in the end, and not only forgotten:
\* unless two changes were in progress at once (one clears the other's mark), or a run
\* ended by an error and left the session running, so that the next run has to end first.
DeferredApplied ==
    dirty ~> \/ ~dirty /\ InForce
             \/ overlap
             \/ running /\ run.at = "none"
=============================================================================
