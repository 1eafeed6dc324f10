------------------------- MODULE SessionSettingsProofs -------------------------
(***************************************************************************)
(* Proofs about the settings of a live session: what a session at rest     *)
(* agrees on, and which tools a run can have, for any handlers, patches,   *)
(* overrides and configurations, whatever MCP servers these name.          *)
(***************************************************************************)
EXTENDS SessionSettings, TLAPS

HandlerStages ==
    {"none", "write", "meta", "mark", "check", "apply", "tools", "preamble", "clean",
     "store", "notice", "resettle"}
Applying == {"apply", "tools", "preamble", "clean"}
Unsettled == {"notice", "resettle"}
Pending == {"meta", "mark"} \cup Unsettled
Active == {"settings", "config", "running"}

IsConfig(c) ==
    c = [mcp |-> c.mcp, default |-> c.default, models |-> c.models, custom |-> c.custom]
IsActor(x) == x = [at |-> x.at, cfg |-> x.cfg, set |-> x.set]

\* The shapes of the records; while a run is there its worker applies nothing, and the
\* session is running from the run's beginning to its end.
Shape ==
    /\ act = [a \in Actors |-> act[a]]
    /\ \A a \in Actors : IsActor(act[a])
    /\ \A h \in Handlers : act[h].at \in HandlerStages
    /\ \A h \in Handlers : act[h].at = "store" => IsConfig(act[h].cfg)
    /\ act[Worker].at \in {"none", "deferred"} \cup Applying
    /\ run = [at |-> run.at, cfg |-> run.cfg, over |-> run.over, base |-> run.base,
              eff |-> run.eff]
    /\ run.at \in {"none", "start", "finish"} \cup Active
    /\ run.at # "none" => act[Worker].at = "none"
    /\ run.at \in {"finish"} \cup Active => running
    /\ act[Worker].at \in Applying => ~running
    /\ IsConfig(config)
    /\ running \in BOOLEAN /\ overlap \in BOOLEAN /\ slipped \in BOOLEAN

\* One handler is at work, or the worker applies settings, or neither.
OneAtWork ==
    /\ \A h, k \in Handlers : h # k => act[h].at = "none" \/ act[k].at = "none"
    /\ act[Worker].at \in Applying => \A h \in Handlers : act[h].at = "none"

ToolsFit == tools.mcp = ServersOf(settings.mcp, config)

\* When the tools are the session's, and not those of a run, or of one that failed.
Fitted == (~running \/ run.at = "finish") /\ ~slipped

\* The run has the configuration, but for a change in the window at its start.
Current == run.at # "none" => run.cfg = config \/ slipped

\* What who applies settings has read is what they are, and what it has written follows it;
\* a run may have put its own tools in their place, and will restore them.
Applies(x) ==
    /\ x.at \in Applying \cup {"check"} => dirty
    /\ x.at \in {"tools", "preamble", "clean"} => x.set = settings /\ x.cfg = config
    /\ x.at \in {"preamble", "clean"} /\ Fitted => ToolsFit
    /\ x.at = "clean" => preamble = settings.model /\ meta = MetaOf(settings)

\* A handler carries a model that exists; a run that began while it applied its settings
\* has the configuration and the settings that it has.
Carries(x) ==
    /\ x.at \in {"write", "resettle"} => x.set.model \in config.models
    /\ x.at = "store" => x.cfg.default \in x.cfg.models
    /\ x.at \in Applying => Current
    /\ x.at \in {"apply", "tools"} /\ run.at \in Active => straddled
    /\ x.at \in {"apply", "tools"} /\ run.at \in {"config", "running"} => run.base = settings

\* Nothing waits to be applied: all agrees, but for the tools of a run.
Agreed ==
    /\ preamble = settings.model
    /\ meta # NoMeta => meta = MetaOf(settings)
    /\ Fitted => ToolsFit
    /\ Current

Consistent ==
    /\ OneAtWork
    /\ config.default \in config.models
    /\ \A a \in Actors : Applies(act[a])
    /\ \A h \in Handlers : Carries(act[h])
    /\ (\A h \in Handlers : act[h].at \notin Unsettled) => settings.model \in config.models
    /\ (\A h \in Handlers : act[h].at \notin Pending) => dirty \/ Agreed

\* A run's effective settings come from those it read.
RunGiven ==
    run.at = "config" =>
        /\ PatchOk(run.base, run.over, run.cfg, FALSE)
        /\ run.eff = ApplyPatch(run.base, run.over, run.cfg)

SettingsInv == Shape /\ RunGiven /\ (~overlap => Consistent) /\ RunToolsBounded

-----------------------------------------------------------------------------
(* The records, and the shapes they keep *)

LEMMA WorkerIsNoHandler == Worker \notin Handlers /\ Worker \in Actors /\ Handlers \subseteq Actors
BY SettingsBounds DEF Actors

LEMMA GoMoves ==
  ASSUME Shape, NEW a \in Actors, NEW stage, Go(a, stage)
  PROVE  /\ act' = [b \in Actors |-> act'[b]] /\ IsActor(act'[a])
         /\ act'[a].at = stage /\ act'[a].cfg = act[a].cfg /\ act'[a].set = act[a].set
         /\ \A b \in Actors : b # a => act'[b] = act[b]
<1> DEFINE x == [act[a] EXCEPT !.at = stage]
<1>1. IsActor(act[a]) /\ DOMAIN act = Actors
  BY DEF Shape
<1>2. x = [at |-> stage, cfg |-> act[a].cfg, set |-> act[a].set]
  BY <1>1 DEF IsActor
<1>3. IsActor(x) /\ x.at = stage /\ x.cfg = act[a].cfg /\ x.set = act[a].set
  BY <1>2 DEF IsActor
<1>4. act' = [act EXCEPT ![a] = x]
  BY DEF Go
<1> HIDE DEF x
<1> QED BY <1>1, <1>3, <1>4

LEMMA SetMoves ==
  ASSUME Shape, NEW a \in Actors, NEW stage, NEW c, NEW s,
         act' = [act EXCEPT ![a] = [at |-> stage, cfg |-> c, set |-> s]]
  PROVE  /\ act' = [b \in Actors |-> act'[b]] /\ IsActor(act'[a])
         /\ act'[a].at = stage /\ act'[a].cfg = c /\ act'[a].set = s
         /\ \A b \in Actors : b # a => act'[b] = act[b]
<1>1. DOMAIN act = Actors
  BY DEF Shape
<1>2. act'[a] = [at |-> stage, cfg |-> c, set |-> s]
  BY <1>1
<1> QED BY <1>1, <1>2 DEF IsActor

LEMMA FinishMoves ==
  ASSUME Shape, NEW a \in Actors, Finish(a)
  PROVE  /\ act' = [b \in Actors |-> act'[b]] /\ IsActor(act'[a])
         /\ act'[a].at = "none"
         /\ \A b \in Actors : b # a => act'[b] = act[b]
BY SetMoves DEF Finish, Idle

LEMMA DefaultsAreConfig ==
  ASSUME NEW c, NEW s, IsConfig(c)
  PROVE  /\ IsConfig(DefaultsFrom(c, s))
         /\ DefaultsFrom(c, s).default = s.model /\ DefaultsFrom(c, s).models = c.models
<1> DEFINE m == [i \in DOMAIN c.mcp |-> IF i \in DOMAIN s.mcp THEN s.mcp[i] ELSE c.mcp[i]]
           n == [mcp |-> m, default |-> s.model, models |-> c.models, custom |-> s.custom]
<1>1. DefaultsFrom(c, s) = [c EXCEPT !.default = s.model, !.custom = s.custom, !.mcp = m]
  BY DEF DefaultsFrom
<1> HIDE DEF m
<1>2. DefaultsFrom(c, s) = n
  BY <1>1 DEF IsConfig
<1> QED BY <1>2 DEF IsConfig

\* One actor moves: the shapes are kept when its new record has one.
LEMMA ActKeepsShape ==
  ASSUME Shape, NEW a \in Actors, act' = [b \in Actors |-> act'[b]], IsActor(act'[a]),
         \A b \in Actors : b # a => act'[b] = act[b],
         a \in Handlers => act'[a].at \in HandlerStages,
         a \in Handlers /\ act'[a].at = "store" => IsConfig(act'[a].cfg),
         a = Worker => act'[a].at \in {"none", "deferred"} \cup Applying,
         run'.at # "none" => act'[Worker].at = "none",
         act'[Worker].at \in Applying => ~running',
         UNCHANGED run \/ run' = NoRun, run'.at # "none" => running' = running,
         IsConfig(config'), overlap' \in BOOLEAN, running' \in BOOLEAN, slipped' \in BOOLEAN
  PROVE  Shape'
<1>1. /\ \A b \in Actors : IsActor(act'[b])
      /\ \A h \in Handlers : act'[h].at \in HandlerStages
      /\ \A h \in Handlers : act'[h].at = "store" => IsConfig(act'[h].cfg)
      /\ act'[Worker].at \in {"none", "deferred"} \cup Applying
  BY WorkerIsNoHandler DEF Shape
<1>2. /\ run' = [at |-> run'.at, cfg |-> run'.cfg, over |-> run'.over, base |-> run'.base,
                 eff |-> run'.eff]
      /\ run'.at \in {"none", "start", "finish"} \cup Active
      /\ run'.at \in {"finish"} \cup Active => running'
  BY DEF Shape, NoRun, Active
<1> QED BY <1>1, <1>2 DEF Shape, IsActor, IsConfig

LEMMA BeginsIsBoolean ==
  ASSUME Begins
  PROVE  overlap' \in BOOLEAN /\ (~overlap' => ~overlap /\ Busy = {})
BY DEF Begins

LEMMA RequestKeepsShape ==
  ASSUME Shape, NEW h \in Handlers, (\E p \in Patches : PatchRead(h, p)) \/ ConfigRead(h)
  PROVE  Shape'
<1>1. /\ UNCHANGED <<run, running, slipped, config>> /\ overlap' \in BOOLEAN /\ h \in Actors /\ h # Worker
      /\ IsConfig(config) /\ (act[Worker].at = "none" \/ run.at = "none")
      /\ running \in BOOLEAN /\ slipped \in BOOLEAN /\ (act[Worker].at \in Applying => ~running)
  BY BeginsIsBoolean, WorkerIsNoHandler DEF Shape, PatchRead, ConfigRead, session
<1>2. CASE \E p \in Patches : PatchRead(h, p)
  <2>1. PICK p \in Patches : PatchRead(h, p)
    BY <1>2
  <2>2. CASE PatchOk(settings, p, config, TRUE)
    <3>1. act' = [act EXCEPT ![h] = [at |-> "write", cfg |-> NULL, set |-> ApplyPatch(settings, p, config)]]
      BY <2>1, <2>2 DEF PatchRead
    <3> HIDE DEF ApplyPatch
    <3>2. /\ act' = [b \in Actors |-> act'[b]] /\ IsActor(act'[h]) /\ act'[h].at = "write"
          /\ \A b \in Actors : b # h => act'[b] = act[b]
      BY <1>1, <3>1, SetMoves
    <3> QED BY <1>1, <3>2, ActKeepsShape, WorkerIsNoHandler DEF HandlerStages, Shape
  <2>3. CASE ~PatchOk(settings, p, config, TRUE)
    <3>1. Finish(h)
      BY <2>1, <2>3 DEF PatchRead, Finish
    <3>2. /\ act' = [b \in Actors |-> act'[b]] /\ IsActor(act'[h]) /\ act'[h].at = "none"
          /\ \A b \in Actors : b # h => act'[b] = act[b]
      BY <1>1, <3>1, FinishMoves
    <3> QED BY <1>1, <3>2, ActKeepsShape, WorkerIsNoHandler DEF HandlerStages, Shape
  <2> QED BY <2>2, <2>3
<1>3. CASE ConfigRead(h)
  <2>1. PICK next \in Configs \cup {DefaultsFrom(config, settings)} :
           act' = [act EXCEPT ![h] = [at |-> "store", cfg |-> next, set |-> NULL]]
    BY <1>3 DEF ConfigRead
  <2>2. IsConfig(next)
    <3>1. \A c \in Configs : IsConfig(c)
      <4> SUFFICES ASSUME NEW c \in Configs PROVE IsConfig(c)
        OBVIOUS
      <4>1. c = [mcp |-> [s \in DOMAIN c.mcp |-> c.mcp[s]], default |-> c.default,
                 models |-> c.models, custom |-> c.custom]
        BY ConfigsResolve
      <4> DEFINE m == [s \in DOMAIN c.mcp |-> c.mcp[s]]
      <4> HIDE DEF m
      <4>2. c = [mcp |-> m, default |-> c.default, models |-> c.models, custom |-> c.custom]
        BY <4>1 DEF m
      <4>3. c.mcp = m
        BY <4>2
      <4> QED BY <4>2, <4>3 DEF IsConfig
    <3>2. IsConfig(DefaultsFrom(config, settings))
      BY <1>1, DefaultsAreConfig
    <3> QED BY <3>1, <3>2
  <2>3. /\ act' = [b \in Actors |-> act'[b]] /\ IsActor(act'[h]) /\ act'[h].at = "store"
        /\ act'[h].cfg = next /\ \A b \in Actors : b # h => act'[b] = act[b]
    BY <1>1, <2>1, SetMoves
  <2> QED BY <1>1, <2>2, <2>3, ActKeepsShape, WorkerIsNoHandler DEF HandlerStages, Shape
<1> QED BY <1>2, <1>3

LEMMA HandlerKeepsShape ==
  ASSUME Shape, NEW h \in Handlers, HandlerStep(h)
  PROVE  Shape'
<1>1. /\ UNCHANGED <<run, running, overlap>> /\ h \in Actors /\ h # Worker /\ slipped' \in BOOLEAN
  BY WorkerIsNoHandler DEF HandlerStep, PatchWrite, PatchMeta, MarkDirty, CheckIdle, ConfigStore,
     ConfigResolve, ConfigSettle, Apply, ApplyRead, ApplyTools, ApplyPreamble, ApplyDone, history,
     Shape
<1>2. IsConfig(config')
  <2>1. UNCHANGED config \/ (act[h].at = "store" /\ config' = act[h].cfg)
    BY DEF HandlerStep, PatchWrite, PatchMeta, MarkDirty, CheckIdle, ConfigStore,
     ConfigResolve, ConfigSettle, Apply, ApplyRead, ApplyTools, ApplyPreamble, ApplyDone, session
  <2> QED BY <2>1 DEF Shape, IsConfig
<1>3. /\ act' = [b \in Actors |-> act'[b]] /\ IsActor(act'[h])
      /\ act'[h].at \in HandlerStages \ {"store"}
      /\ \A b \in Actors : b # h => act'[b] = act[b]
  <2>1. CASE Finish(h)
    BY <1>1, <2>1, FinishMoves DEF HandlerStages
  <2>2. CASE \E stage \in HandlerStages \ {"store"} : Go(h, stage)
    BY <1>1, <2>2, GoMoves
  <2>3. CASE ConfigResolve(h) \/ ApplyRead(h)
    <3>1. CASE ConfigResolve(h)
      <4> DEFINE s == ResolveSettings(meta, config)
      <4>1. act' = [act EXCEPT ![h] = [at |-> "resettle", cfg |-> NULL, set |-> s]]
        BY <3>1 DEF ConfigResolve
      <4> HIDE DEF s
      <4> QED BY <1>1, <4>1, SetMoves DEF HandlerStages
    <3>2. CASE ApplyRead(h)
      <4>1. \/ act' = [act EXCEPT ![h] = [at |-> "tools", cfg |-> config, set |-> settings]]
            \/ Finish(h)
        BY <3>2 DEF ApplyRead, Finish
      <4> QED BY <1>1, <2>1, <4>1, SetMoves DEF HandlerStages
    <3> QED BY <2>3, <3>1, <3>2
  <2>4. \/ Finish(h) \/ ConfigResolve(h) \/ ApplyRead(h)
        \/ \E stage \in HandlerStages \ {"store"} : Go(h, stage)
    BY DEF HandlerStep, PatchWrite, PatchMeta, MarkDirty, CheckIdle, ConfigStore, ConfigSettle,
       Apply, ApplyTools, ApplyPreamble, ApplyDone, HandlerStages
  <2> QED BY <2>1, <2>2, <2>3, <2>4
<1>4. /\ run'.at # "none" => act'[Worker].at = "none"
      /\ act'[Worker].at \in Applying => ~running'
  BY <1>1, <1>3, WorkerIsNoHandler DEF Shape
<1> QED BY <1>1, <1>2, <1>3, <1>4, ActKeepsShape DEF Shape

\* What a step of the run makes of its record.
LEMMA RunMoves ==
  ASSUME Shape, NEW stage, run' = [run EXCEPT !.at = stage]
  PROVE  /\ run' = [at |-> run'.at, cfg |-> run'.cfg, over |-> run'.over, base |-> run'.base,
                    eff |-> run'.eff]
         /\ run'.at = stage /\ run'.cfg = run.cfg /\ run'.over = run.over
         /\ run'.base = run.base /\ run'.eff = run.eff
<1>1. run' = [at |-> stage, cfg |-> run.cfg, over |-> run.over, base |-> run.base, eff |-> run.eff]
  BY DEF Shape
<1> QED BY <1>1

\* A run that fails is gone, and its worker goes on.
LEMMA RunFailsMoves ==
  ASSUME Shape, RunFails
  PROVE  /\ run' = NoRun /\ run'.at = "none"
         /\ act' = [b \in Actors |-> act'[b]] /\ IsActor(act'[Worker])
         /\ act'[Worker].at = "deferred"
         /\ \A b \in Actors : b # Worker => act'[b] = act[b]
BY GoMoves, WorkerIsNoHandler DEF RunFails, NoRun

LEMMA RunSettingsMoves ==
  ASSUME Shape, RunSettings
  PROVE  \/ RunFails
         \/ /\ run' = [at |-> run'.at, cfg |-> run'.cfg, over |-> run'.over, base |-> run'.base,
                       eff |-> run'.eff]
            /\ UNCHANGED act /\ run'.cfg = run.cfg
            /\ run'.at = "config" /\ run'.base = settings
            /\ PatchOk(run'.base, run'.over, run'.cfg, FALSE)
            /\ run'.eff = ApplyPatch(run'.base, run'.over, run'.cfg)
<1> DEFINE eff == ApplyPatch(settings, run.over, run.cfg)
<1>1. CASE ~PatchOk(settings, run.over, run.cfg, FALSE)
  BY <1>1 DEF RunSettings
<1>2. CASE PatchOk(settings, run.over, run.cfg, FALSE)
  <2>1. run' = [run EXCEPT !.at = "config", !.base = settings, !.eff = eff] /\ UNCHANGED act
    BY <1>2 DEF RunSettings
  <2>2. eff = ApplyPatch(settings, run.over, run.cfg)
    OBVIOUS
  <2> HIDE DEF eff
  <2>3. run' = [at |-> "config", cfg |-> run.cfg, over |-> run.over, base |-> settings, eff |-> eff]
    BY <2>1 DEF Shape
  <2>4. run'.base = settings /\ run'.over = run.over /\ run'.cfg = run.cfg /\ run'.eff = eff /\ run'.at = "config"
    BY <2>3
  <2> QED BY <1>2, <2>1, <2>2, <2>3, <2>4
<1> QED BY <1>1, <1>2

LEMMA RunKeepsShape ==
  ASSUME Shape, RunGiven,
         (\E o \in Overrides : RunStart(o)) \/ RunBegins \/ RunSettings \/ RunTools \/ RunRestore
  PROVE  Shape' /\ RunGiven'
<1>1. /\ UNCHANGED <<config, overlap>> /\ act[Worker].at = "none" /\ slipped' \in BOOLEAN
      /\ running' \in BOOLEAN /\ (running => running')
  BY DEF RunStart, RunBegins, RunSettings, RunTools, RunRestore, Shape, session, history, Active
<1>2. CASE RunFails
  <2>1. /\ run' = NoRun /\ run'.at = "none"
        /\ act' = [b \in Actors |-> act'[b]] /\ IsActor(act'[Worker])
        /\ act'[Worker].at = "deferred"
        /\ \A b \in Actors : b # Worker => act'[b] = act[b]
    BY <1>2, RunFailsMoves
  <2>2. "deferred" \notin Applying
    BY DEF Applying
  <2>3. Shape'
    BY <1>1, <2>1, <2>2, ActKeepsShape, WorkerIsNoHandler DEF Shape, IsConfig
  <2> QED BY <2>1, <2>3 DEF RunGiven
<1>3. CASE ~RunFails
  <2>1. /\ run' = [at |-> run'.at, cfg |-> run'.cfg, over |-> run'.over, base |-> run'.base,
                   eff |-> run'.eff]
        /\ run'.at \in {"start", "finish"} \cup Active
        /\ run'.at # "start" => running'
        /\ RunGiven' /\ UNCHANGED act
    <3>1. CASE \E o \in Overrides : RunStart(o)
      <4>1. PICK o \in Overrides :
               /\ run' = [at |-> "start", cfg |-> config, over |-> o, base |-> NULL, eff |-> NULL]
               /\ UNCHANGED act
        BY <3>1 DEF RunStart
      <4> QED BY <4>1 DEF RunGiven
    <3>2. CASE RunBegins
      <4>1. run' = [run EXCEPT !.at = "settings"] /\ UNCHANGED act /\ running'
        BY <3>2 DEF RunBegins
      <4> QED BY <4>1, RunMoves DEF RunGiven, Active
    <3>3. CASE RunSettings
      <4>1. UNCHANGED running /\ running
        BY <3>3 DEF RunSettings, Shape, Active
      <4> QED BY <1>3, <3>3, <4>1, RunSettingsMoves DEF RunGiven, Active
    <3>4. CASE RunTools \/ RunRestore
      <4>1. UNCHANGED running /\ running /\ UNCHANGED act
        BY <1>3, <3>4 DEF RunTools, RunRestore, Shape, Active
      <4>2. \E stage \in {"running", "finish"} : run' = [run EXCEPT !.at = stage]
        BY <1>3, <3>4 DEF RunTools, RunRestore
      <4> QED BY <4>1, <4>2, RunMoves DEF RunGiven, Active
    <3> QED BY <3>1, <3>2, <3>3, <3>4
  <2>2. Shape'
    <3>1. act'[Worker].at \notin Applying
      BY <1>1, <2>1 DEF Applying
    <3>2. run'.at \in {"finish"} \cup Active => run'.at # "start"
      BY DEF Active
    <3> QED BY <1>1, <2>1, <3>1, <3>2 DEF Shape, IsActor, IsConfig
  <2> QED BY <2>1, <2>2
<1> QED BY <1>2, <1>3

LEMMA WorkerKeepsShape ==
  ASSUME Shape, RunIdle \/ WorkerDeferred \/ Apply(Worker)
  PROVE  Shape'
<1>1. /\ Worker \in Actors /\ Worker \notin Handlers
      /\ UNCHANGED config /\ overlap' \in BOOLEAN /\ slipped' \in BOOLEAN /\ running' \in BOOLEAN
      /\ UNCHANGED run \/ run' = NoRun
      /\ ~RunIdle => UNCHANGED running
  BY WorkerIsNoHandler DEF RunIdle, WorkerDeferred, Apply, ApplyRead, ApplyTools, ApplyPreamble,
     ApplyDone, Shape, session, history
<1>2. /\ act' = [b \in Actors |-> act'[b]] /\ IsActor(act'[Worker])
      /\ act'[Worker].at \in {"none", "deferred"} \cup Applying
      /\ \A b \in Actors : b # Worker => act'[b] = act[b]
  <2>1. \/ Finish(Worker) \/ \E stage \in {"deferred"} \cup Applying : Go(Worker, stage)
        \/ act' = [act EXCEPT ![Worker] = [at |-> "tools", cfg |-> config, set |-> settings]]
    BY DEF RunIdle, WorkerDeferred, Apply, ApplyRead, ApplyTools, ApplyPreamble,
       ApplyDone, Go, Finish, Applying
  <2> QED BY <1>1, <2>1, FinishMoves, GoMoves, SetMoves DEF Applying
<1>3. run'.at = "none"
  BY <1>1 DEF RunIdle, WorkerDeferred, Apply, ApplyRead, ApplyTools, ApplyPreamble, ApplyDone, Shape, NoRun
<1>4. act'[Worker].at \in Applying => ~running'
  <2>1. CASE RunIdle
    BY <2>1 DEF RunIdle
  <2>2. CASE WorkerDeferred
    <3>1. CASE dirty /\ ~running
      BY <2>2, <3>1 DEF WorkerDeferred
    <3>2. CASE ~(dirty /\ ~running)
      BY <1>1, <2>2, <3>2, FinishMoves DEF WorkerDeferred, Applying
    <3> QED BY <3>1, <3>2
  <2>3. CASE Apply(Worker)
    BY <2>3 DEF Apply, ApplyRead, ApplyTools, ApplyPreamble, ApplyDone, Applying, Shape
  <2> QED BY <2>1, <2>2, <2>3
<1> QED BY <1>1, <1>2, <1>3, <1>4, ActKeepsShape DEF Shape

LEMMA StepKeepsShape ==
  ASSUME Shape, RunGiven, Next
  PROVE  Shape' /\ RunGiven'
<1>1. ASSUME NEW h \in Handlers, (\E p \in Patches : PatchRead(h, p)) \/ ConfigRead(h)
      PROVE  Shape' /\ RunGiven'
  BY <1>1, RequestKeepsShape DEF PatchRead, ConfigRead, RunGiven
<1>2. ASSUME NEW h \in Handlers, HandlerStep(h)
      PROVE  Shape' /\ RunGiven'
  <2>1. UNCHANGED run
    BY <1>2 DEF HandlerStep, PatchWrite, PatchMeta, MarkDirty, CheckIdle, ConfigStore,
     ConfigResolve, ConfigSettle, Apply, ApplyRead, ApplyTools, ApplyPreamble, ApplyDone
  <2> QED BY <1>2, <2>1, HandlerKeepsShape DEF RunGiven
<1>3. ASSUME RunIdle \/ WorkerDeferred \/ Apply(Worker)
      PROVE  Shape' /\ RunGiven'
  <2>1. UNCHANGED run \/ run' = NoRun
    BY <1>3 DEF RunIdle, WorkerDeferred, Apply, ApplyRead, ApplyTools, ApplyPreamble, ApplyDone
  <2>2. RunGiven'
    <3>1. CASE UNCHANGED run
      BY <3>1 DEF RunGiven, PatchOk, ApplyPatch, MergeOk, MergeMcp, ServersOf, Or
    <3>2. CASE run' = NoRun
      BY <3>2 DEF RunGiven, NoRun
    <3> QED BY <2>1, <3>1, <3>2
  <2> QED BY <1>3, <2>2, WorkerKeepsShape
<1> QED BY <1>1, <1>2, <1>3, RunKeepsShape DEF Next, WorkerStep

-----------------------------------------------------------------------------
(* What the pure operations promise *)

LEMMA PatchedModelExists ==
  ASSUME NEW s, NEW p, NEW c, NEW b, PatchOk(s, p, c, b), s.model \in c.models
  PROVE  ApplyPatch(s, p, c).model \in c.models
BY DEF PatchOk, ApplyPatch, Or

LEMMA ResolvedModelExists ==
  ASSUME NEW m, NEW c, c.default \in c.models
  PROVE  ResolveSettings(m, c).model \in c.models
BY DEF ResolveSettings

\* Giving a configuration's servers the settings' enables none that these disable.
LEMMA DisabledStays ==
  ASSUME NEW mcp, NEW c, NEW custom
  PROVE  Enabled(ToolsOf(c, mcp, custom).mcp) \cap Disabled(mcp) = {}
BY DEF Enabled, Disabled, ToolsOf, ServersOf

\* Nor does an override, which may only switch off.
LEMMA OverridesOnlyDisable ==
  ASSUME NEW s, NEW p, NEW c, PatchOk(s, p, c, FALSE)
  PROVE  LET eff == ApplyPatch(s, p, c)
         IN  Enabled(ToolsOf(c, eff.mcp, eff.custom).mcp) \cap Disabled(s.mcp) = {}
<1> DEFINE eff == ApplyPatch(s, p, c)
<1>1. CASE p.mcp = NULL
  <2>1. eff.mcp = s.mcp
    BY <1>1 DEF ApplyPatch
  <2> HIDE DEF eff
  <2>2. Enabled(ToolsOf(c, s.mcp, eff.custom).mcp) \cap Disabled(s.mcp) = {}
    BY DisabledStays
  <2>3. Enabled(ToolsOf(c, eff.mcp, eff.custom).mcp) \cap Disabled(s.mcp) = {}
    BY <2>1, <2>2
  <2> QED BY <2>3 DEF eff
<1>2. CASE p.mcp # NULL
  <2> DEFINE both == [i \in DOMAIN s.mcp \cup DOMAIN p.mcp |->
                         IF i \in DOMAIN p.mcp THEN p.mcp[i] ELSE s.mcp[i]]
             merged == ServersOf(both, c)
  <2>1. eff.mcp = merged
    BY <1>2 DEF ApplyPatch, MergeMcp
  <2>2. \A i \in DOMAIN p.mcp : p.mcp[i] => i \in DOMAIN s.mcp /\ s.mcp[i]
    BY <1>2 DEF PatchOk, MergeOk
  <2> HIDE DEF eff
  <2>3. DOMAIN merged = DOMAIN c.mcp
    BY DEF ServersOf
  <2>4. \A i \in DOMAIN merged : i \in DOMAIN s.mcp => merged[i] = both[i]
    BY DEF ServersOf
  <2> HIDE DEF merged
  <2>5. \A i \in DOMAIN c.mcp : i \in DOMAIN s.mcp /\ ~s.mcp[i] => ~merged[i]
    BY <2>2, <2>3, <2>4
  <2>6. /\ DOMAIN ToolsOf(c, merged, eff.custom).mcp = DOMAIN c.mcp
        /\ \A i \in DOMAIN c.mcp : ToolsOf(c, merged, eff.custom).mcp[i] = merged[i]
    BY <2>3 DEF ToolsOf, ServersOf
  <2>7. Enabled(ToolsOf(c, merged, eff.custom).mcp) \cap Disabled(s.mcp) = {}
    BY <2>5, <2>6 DEF Enabled, Disabled
  <2> QED BY <2>1, <2>7 DEF eff
<1> QED BY <1>1, <1>2

-----------------------------------------------------------------------------
(* Handlers *)

\* With one handler left at work, what it is at is all there is to know.
LEMMA HandlerIsLeft ==
  ASSUME NEW h \in Handlers, \A k \in Handlers : k # h => act'[k].at = "none",
         act'[Worker].at \in {"none", "deferred"},
         Applies(act[h])', Carries(act[h])',
         config'.default \in config'.models,
         act'[h].at \notin Unsettled => settings'.model \in config'.models,
         act'[h].at \notin Pending => dirty' \/ Agreed'
  PROVE  Consistent'
<1>1. /\ \A k \in Handlers : k # h => Applies(act[k])' /\ Carries(act[k])'
      /\ Applies(act[Worker])'
  BY DEF Applies, Carries, Applying
<1>2. \A a \in Actors : Applies(act[a])'
  BY <1>1 DEF Actors
<1>3. \A k \in Handlers : Carries(act[k])'
  BY <1>1
<1>4. OneAtWork'
  BY DEF OneAtWork, Applying
<1> QED BY <1>2, <1>3, <1>4 DEF Consistent

\* A handler that works is the only one, and the worker applies nothing.
LEMMA HandlerIsAlone ==
  ASSUME Shape, Consistent, NEW h \in Handlers, act[h].at # "none",
         \A a \in Actors : a # h => act'[a] = act[a]
  PROVE  /\ \A k \in Handlers : k # h => act'[k].at = "none"
         /\ act'[Worker].at \in {"none", "deferred"} /\ h \in Actors
         /\ Applies(act[h]) /\ Carries(act[h])
         /\ act[h].at \notin Unsettled => settings.model \in config.models
         /\ act[h].at \notin Pending => dirty \/ Agreed
         /\ config.default \in config.models
<1>1. /\ \A k \in Handlers : k # h => act[k].at = "none" /\ act'[k] = act[k]
      /\ act[Worker].at \in {"none", "deferred"} /\ act'[Worker] = act[Worker] /\ h \in Actors
  BY WorkerIsNoHandler DEF Consistent, OneAtWork, Shape
<1>2. \A k \in Handlers : k # h => act[k].at \notin Pending /\ act[k].at \notin Unsettled
  BY <1>1 DEF Pending, Unsettled
<1> QED BY <1>1, <1>2 DEF Consistent

\* A request that begins while nobody works is alone with what it read.
LEMMA RequestIsConsistent ==
  ASSUME Shape, Shape', Consistent, Busy = {}, NEW h \in Handlers,
         (\E p \in Patches : PatchRead(h, p)) \/ ConfigRead(h)
  PROVE  Consistent'
<1>1. /\ UNCHANGED <<config, settings, meta, tools, preamble, dirty, running, run, straddled, slipped>>
      /\ \A k \in Handlers : act[k].at = "none"
      /\ act[Worker].at \in {"none", "deferred"}
      /\ h \in Actors /\ h # Worker
  <2>1. \A a \in Actors : act[a].at \in {"none", "deferred"}
    BY DEF Busy
  <2>2. \A k \in Handlers : act[k].at \in HandlerStages
    BY DEF Shape
  <2> QED BY <2>1, <2>2, WorkerIsNoHandler DEF PatchRead, ConfigRead, HandlerStages, session
<1>2. settings.model \in config.models /\ (dirty \/ Agreed) /\ config.default \in config.models
  BY <1>1, WorkerIsNoHandler DEF Consistent, Pending, Unsettled
<1>3. ASSUME \A a \in Actors : a # h => act'[a] = act[a],
             act'[h].at \in {"none", "write", "store"}, Carries(act[h])'
      PROVE  Consistent'
  <2>1. /\ \A k \in Handlers : k # h => act'[k].at = "none"
        /\ act'[Worker].at \in {"none", "deferred"}
    BY <1>1, <1>3, WorkerIsNoHandler
  <2>2. Applies(act[h])'
    BY <1>3 DEF Applies, Applying
  <2>3. dirty' \/ Agreed'
    BY <1>1, <1>2 DEF Agreed, ToolsFit, Fitted, Current
  <2>4. settings'.model \in config'.models /\ config'.default \in config'.models
    BY <1>1, <1>2
  <2> QED BY <1>3, <2>1, <2>2, <2>3, <2>4, HandlerIsLeft
<1>4. CASE \E p \in Patches : PatchRead(h, p)
  <2>1. PICK p \in Patches : PatchRead(h, p)
    BY <1>4
  <2>2. CASE PatchOk(settings, p, config, TRUE)
    <3> DEFINE s == ApplyPatch(settings, p, config)
    <3>1. act' = [act EXCEPT ![h] = [at |-> "write", cfg |-> NULL, set |-> s]]
      BY <2>1, <2>2 DEF PatchRead
    <3>2. s.model \in config.models
      BY <1>2, <2>2, PatchedModelExists
    <3> HIDE DEF s
    <3>3. /\ act'[h].at = "write" /\ act'[h].set = s /\ \A b \in Actors : b # h => act'[b] = act[b]
      BY <1>1, <3>1, SetMoves
    <3>4. Carries(act[h])'
      BY <1>1, <3>2, <3>3 DEF Carries, Applying
    <3> QED BY <1>3, <3>3, <3>4
  <2>3. CASE ~PatchOk(settings, p, config, TRUE)
    <3>1. Finish(h)
      BY <2>1, <2>3 DEF PatchRead, Finish
    <3>2. act'[h].at = "none" /\ \A b \in Actors : b # h => act'[b] = act[b]
      BY <1>1, <3>1, FinishMoves
    <3>3. Carries(act[h])'
      BY <3>2 DEF Carries, Applying
    <3> QED BY <1>3, <3>2, <3>3
  <2> QED BY <2>2, <2>3
<1>5. CASE ConfigRead(h)
  <2>1. PICK next \in Configs \cup {DefaultsFrom(config, settings)} :
           act' = [act EXCEPT ![h] = [at |-> "store", cfg |-> next, set |-> NULL]]
    BY <1>5 DEF ConfigRead
  <2>2. next.default \in next.models
    <3>1. CASE next \in Configs
      BY <3>1, ConfigsResolve
    <3>2. CASE next = DefaultsFrom(config, settings)
      <4>1. IsConfig(config)
        BY DEF Shape
      <4> QED BY <1>2, <3>2, <4>1, DefaultsAreConfig
    <3> QED BY <2>1, <3>1, <3>2
  <2>3. /\ act'[h].at = "store" /\ act'[h].cfg = next /\ \A b \in Actors : b # h => act'[b] = act[b]
    BY <1>1, <2>1, SetMoves
  <2>4. Carries(act[h])'
    BY <2>2, <2>3 DEF Carries, Applying
  <2> QED BY <1>3, <2>3, <2>4
<1> QED BY <1>4, <1>5

\* From the check of a patch to its mark, and from the store of a configuration to its.
LEMMA HandlerIsConsistent ==
  ASSUME Shape, Consistent, NEW h \in Handlers,
         \/ PatchWrite(h) \/ PatchMeta(h) \/ MarkDirty(h) \/ CheckIdle(h)
         \/ ConfigStore(h) \/ ConfigResolve(h) \/ ConfigSettle(h)
  PROVE  Consistent'
<1>1. /\ act[h].at # "none" /\ h \in Actors
      /\ UNCHANGED <<tools, preamble, running, run, straddled>>
      /\ UNCHANGED slipped \/ CheckIdle(h)
  BY WorkerIsNoHandler DEF PatchWrite, PatchMeta, MarkDirty, CheckIdle, ConfigStore, ConfigResolve,
     ConfigSettle, session, history
<1> DEFINE resolved == ResolveSettings(meta, config)
<1>2. /\ PatchWrite(h) => Go(h, "meta")
      /\ PatchMeta(h) => Go(h, "mark")
      /\ MarkDirty(h) => Go(h, "check")
      /\ CheckIdle(h) => Finish(h) \/ (~running /\ Go(h, "apply"))
      /\ ConfigStore(h) => Go(h, "notice")
      /\ ConfigResolve(h) =>
            act' = [act EXCEPT ![h] = [at |-> "resettle", cfg |-> NULL, set |-> resolved]]
      /\ ConfigSettle(h) => Go(h, "mark")
  BY DEF PatchWrite, PatchMeta, MarkDirty, CheckIdle, ConfigStore, ConfigResolve, ConfigSettle
<1>3. resolved = ResolveSettings(meta, config)
  OBVIOUS
<1> HIDE DEF resolved
<1>4. \A a \in Actors : a # h => act'[a] = act[a]
  BY <1>1, <1>2, GoMoves, FinishMoves, SetMoves
<1>5. /\ \A k \in Handlers : k # h => act'[k].at = "none"
      /\ act'[Worker].at \in {"none", "deferred"}
      /\ Applies(act[h]) /\ Carries(act[h])
      /\ act[h].at \notin Unsettled => settings.model \in config.models
      /\ act[h].at \notin Pending => dirty \/ Agreed
      /\ config.default \in config.models
  BY <1>1, <1>4, HandlerIsAlone
<1>6. ASSUME Applies(act[h])', Carries(act[h])',
             config'.default \in config'.models,
             act'[h].at \notin Unsettled => settings'.model \in config'.models,
             act'[h].at \notin Pending => dirty' \/ Agreed'
      PROVE  Consistent'
  BY <1>5, <1>6, HandlerIsLeft
<1>7. CASE PatchWrite(h)
  <2>1. /\ act'[h].at = "meta" /\ act[h].at = "write" /\ settings' = act[h].set /\ UNCHANGED config
    BY <1>1, <1>2, <1>7, GoMoves DEF PatchWrite
  <2>2. act[h].set.model \in config.models
    BY <1>5, <2>1 DEF Carries
  <2> QED BY <1>5, <1>6, <2>1, <2>2 DEF Applies, Carries, Applying, Pending, Unsettled
<1>8. CASE PatchMeta(h)
  <2>1. act'[h].at = "mark" /\ act[h].at = "meta" /\ UNCHANGED <<config, settings>>
    BY <1>1, <1>2, <1>8, GoMoves DEF PatchMeta
  <2> QED BY <1>5, <1>6, <2>1 DEF Applies, Carries, Applying, Pending, Unsettled
<1>9. CASE MarkDirty(h)
  <2>1. act'[h].at = "check" /\ act[h].at = "mark" /\ UNCHANGED <<config, settings>> /\ dirty'
    BY <1>1, <1>2, <1>9, GoMoves DEF MarkDirty, session
  <2> QED BY <1>5, <1>6, <2>1 DEF Applies, Carries, Applying, Pending, Unsettled
<1>10. CASE CheckIdle(h)
  <2>1. /\ act[h].at = "check" /\ UNCHANGED <<config, settings, dirty, run>>
        /\ act'[h].at = "none" \/ (act'[h].at = "apply" /\ ~running)
        /\ slipped' = (slipped \/ (~running /\ run.at = "start" /\ run.cfg # config))
    BY <1>1, <1>2, <1>10, GoMoves, FinishMoves DEF CheckIdle, session
  <2>2. dirty'
    BY <1>5, <2>1 DEF Applies
  <2>3. ~running => run.at \in {"none", "start"}
    BY DEF Shape
  <2>4. act'[h].at = "apply" => Current' /\ run'.at \notin Active
    <3> SUFFICES ASSUME act'[h].at = "apply" PROVE Current' /\ run'.at \notin Active
      OBVIOUS
    <3>1. ~running /\ run.at \in {"none", "start"}
      BY <2>1, <2>3
    <3>2. run.at = "start" => run.cfg = config \/ slipped'
      BY <2>1, <3>1
    <3> QED BY <2>1, <3>1, <3>2 DEF Current, Active
  <2>5. Applies(act[h])' /\ Carries(act[h])'
    BY <2>1, <2>2, <2>4 DEF Applies, Carries, Applying, Active
  <2> QED BY <1>5, <1>6, <2>1, <2>2, <2>5 DEF Unsettled
<1>11. CASE ConfigStore(h)
  <2>1. /\ act'[h].at = "notice" /\ act[h].at = "store" /\ config' = act[h].cfg
    BY <1>1, <1>2, <1>11, GoMoves DEF ConfigStore
  <2>2. config'.default \in config'.models
    BY <1>5, <2>1 DEF Carries
  <2> QED BY <1>6, <2>1, <2>2 DEF Applies, Carries, Applying, Pending, Unsettled
<1>12. CASE ConfigResolve(h)
  <2>1. act'[h].at = "resettle" /\ act'[h].set = resolved /\ UNCHANGED <<config, settings>>
    BY <1>1, <1>2, <1>12, SetMoves DEF ConfigResolve, session
  <2>2. act'[h].set.model \in config'.models
    BY <1>3, <1>5, <2>1, ResolvedModelExists
  <2> QED BY <1>5, <1>6, <2>1, <2>2 DEF Applies, Carries, Applying, Pending, Unsettled
<1>13. CASE ConfigSettle(h)
  <2>1. /\ act'[h].at = "mark" /\ act[h].at = "resettle" /\ settings' = act[h].set /\ UNCHANGED config
    BY <1>1, <1>2, <1>13, GoMoves DEF ConfigSettle
  <2>2. act[h].set.model \in config.models
    BY <1>5, <2>1 DEF Carries
  <2> QED BY <1>5, <1>6, <2>1, <2>2 DEF Applies, Carries, Applying, Pending, Unsettled
<1> QED BY <1>7, <1>8, <1>9, <1>10, <1>11, <1>12, <1>13

-----------------------------------------------------------------------------
(* apply_settings_now, by a handler or the worker *)

LEMMA ApplyFollows ==
  ASSUME Shape, NEW a \in Actors, Apply(a), Applies(act[a]), Current
  PROVE  /\ Applies(act[a])' /\ (dirty' \/ Agreed') /\ Current'
         /\ UNCHANGED <<config, settings, running, run, straddled, overlap>>
         /\ act[a].at \in Applying
         /\ \/ act[a].at = "apply" /\ act'[a].at = "tools"
            \/ act[a].at = "tools" /\ act'[a].at = "preamble"
            \/ act'[a].at \in {"none", "clean"}
         /\ \A b \in Actors : b # a => act'[b] = act[b]
<1>1. /\ UNCHANGED <<config, settings, running, run, straddled, overlap>> /\ act[a].at \in Applying
      /\ dirty /\ (UNCHANGED slipped \/ slipped' = (slipped /\ run.at # "none"))
      /\ ~ApplyTools(a) => UNCHANGED slipped
  BY DEF Apply, ApplyRead, ApplyTools, ApplyPreamble, ApplyDone, Applying, Applies, session, history
<1>b. run.at # "none" /\ slipped => slipped'
  BY <1>1
<1>c. Current'
  BY <1>1, <1>b DEF Current
<1>2. CASE ApplyRead(a)
  <2>1. CASE act' = [act EXCEPT ![a] = [at |-> "tools", cfg |-> config, set |-> settings]]
    <3>1. /\ act'[a].at = "tools" /\ act'[a].cfg = config /\ act'[a].set = settings
          /\ \A b \in Actors : b # a => act'[b] = act[b]
      BY <2>1, SetMoves
    <3>2. act[a].at = "apply" /\ UNCHANGED dirty
      BY <1>2 DEF ApplyRead
    <3>3. Applies(act[a])'
      BY <1>1, <3>1, <3>2 DEF Applies
    <3> QED BY <1>1, <1>c, <3>1, <3>2, <3>3
  <2>2. CASE Finish(a)
    <3>1. act'[a].at = "none" /\ \A b \in Actors : b # a => act'[b] = act[b]
      BY <2>2, FinishMoves
    <3>2. UNCHANGED dirty
      BY <1>2 DEF ApplyRead
    <3>3. Applies(act[a])'
      BY <3>1 DEF Applies, Applying
    <3> QED BY <1>1, <1>c, <3>1, <3>2, <3>3
  <2> QED BY <1>2, <2>1, <2>2 DEF ApplyRead, Finish
<1>3. CASE ApplyTools(a)
  <2>1. /\ act[a].at = "tools" /\ UNCHANGED <<preamble, meta, dirty>>
        /\ tools' = ToolsOf(act[a].cfg, act[a].set.mcp, act[a].cfg.custom)
        /\ act'[a].at = "preamble" /\ act'[a].cfg = act[a].cfg /\ act'[a].set = act[a].set
        /\ \A b \in Actors : b # a => act'[b] = act[b]
    BY <1>3, GoMoves DEF ApplyTools
  <2>2. act[a].set = settings /\ act[a].cfg = config
    BY <2>1 DEF Applies
  <2>3. ToolsFit'
    BY <1>1, <2>1, <2>2 DEF ToolsFit, ToolsOf, ServersOf
  <2>4. Applies(act[a])'
    BY <1>1, <2>1, <2>2, <2>3 DEF Applies
  <2> QED BY <1>1, <1>c, <2>1, <2>4
<1>4. CASE ApplyPreamble(a)
  <2>1. /\ act[a].at = "preamble" /\ UNCHANGED <<tools, dirty, slipped>>
        /\ preamble' = act[a].set.model /\ meta' = MetaOf(act[a].set)
        /\ act'[a].at = "clean" /\ act'[a].cfg = act[a].cfg /\ act'[a].set = act[a].set
        /\ \A b \in Actors : b # a => act'[b] = act[b]
    BY <1>4, GoMoves DEF ApplyPreamble, history
  <2>2. /\ act[a].set = settings /\ act[a].cfg = config
        /\ Fitted => ToolsFit
    BY <2>1 DEF Applies
  <2>3. Fitted' => ToolsFit'
    BY <1>1, <2>1, <2>2 DEF ToolsFit, Fitted
  <2>4. preamble' = settings'.model /\ meta' = MetaOf(settings)'
    BY <1>1, <2>1, <2>2
  <2>5. Applies(act[a])'
    BY <1>1, <2>1, <2>2, <2>3, <2>4 DEF Applies
  <2> QED BY <1>1, <1>c, <2>1, <2>5
<1>5. CASE ApplyDone(a)
  <2>1. /\ act[a].at = "clean" /\ UNCHANGED <<tools, preamble, meta, slipped>>
        /\ act'[a].at = "none" /\ \A b \in Actors : b # a => act'[b] = act[b]
    BY <1>5, FinishMoves DEF ApplyDone, session, history
  <2>2. /\ preamble = settings.model /\ meta = MetaOf(settings)
        /\ Fitted => ToolsFit
    BY <2>1 DEF Applies
  <2>3. Agreed
    BY <2>2 DEF Agreed
  <2>4. Agreed'
    BY <1>1, <1>c, <2>1, <2>3 DEF Agreed, ToolsFit, Fitted, MetaOf
  <2>5. Applies(act[a])'
    BY <2>1 DEF Applies, Applying
  <2> QED BY <1>1, <1>c, <2>1, <2>4, <2>5
<1> QED BY <1>2, <1>3, <1>4, <1>5 DEF Apply

LEMMA HandlerApplies ==
  ASSUME Shape, Consistent, NEW h \in Handlers, Apply(h)
  PROVE  Consistent'
<1>1. h \in Actors /\ act[h].at # "none" /\ act[h].at \in Applying
  BY WorkerIsNoHandler DEF Apply, ApplyRead, ApplyTools, ApplyPreamble, ApplyDone, Applying
<1>2. Applies(act[h]) /\ Carries(act[h])
  BY <1>1 DEF Consistent
<1>3. Current
  BY <1>1, <1>2 DEF Carries
<1>4. /\ Applies(act[h])' /\ (dirty' \/ Agreed') /\ Current'
      /\ UNCHANGED <<config, settings, run, straddled>>
      /\ \/ act[h].at = "apply" /\ act'[h].at = "tools"
         \/ act[h].at = "tools" /\ act'[h].at = "preamble"
         \/ act'[h].at \in {"none", "clean"}
      /\ \A b \in Actors : b # h => act'[b] = act[b]
  BY <1>1, <1>2, <1>3, ApplyFollows
<1>5. /\ \A k \in Handlers : k # h => act'[k].at = "none"
      /\ act'[Worker].at \in {"none", "deferred"}
      /\ act[h].at \notin Unsettled => settings.model \in config.models
      /\ config.default \in config.models
  BY <1>1, <1>4, HandlerIsAlone
<1>6. Carries(act[h])'
  BY <1>1, <1>2, <1>3, <1>4 DEF Carries, Applying
<1>7. settings'.model \in config'.models /\ config'.default \in config'.models
  BY <1>1, <1>4, <1>5 DEF Applying, Unsettled
<1> QED BY <1>4, <1>5, <1>6, <1>7, HandlerIsLeft

\* The worker that applies settings is the only one at work, and it has no run.
LEMMA WorkerApplies ==
  ASSUME Shape, Consistent, Apply(Worker)
  PROVE  Consistent'
<1>1. Worker \in Actors /\ act[Worker].at \in Applying /\ run.at = "none" /\ Current
  BY WorkerIsNoHandler DEF Apply, ApplyRead, ApplyTools, ApplyPreamble, ApplyDone, Applying, Shape, Current
<1>2. Applies(act[Worker]) /\ \A h \in Handlers : act[h].at = "none"
  BY <1>1 DEF Consistent, OneAtWork
<1>3. /\ Applies(act[Worker])' /\ (dirty' \/ Agreed')
      /\ UNCHANGED <<config, settings>>
      /\ \A b \in Actors : b # Worker => act'[b] = act[b]
  BY <1>1, <1>2, ApplyFollows
<1>4. \A h \in Handlers : act'[h].at = "none"
  BY <1>2, <1>3, WorkerIsNoHandler
<1>5. \A h \in Handlers : Applies(act[h])' /\ Carries(act[h])'
  BY <1>4 DEF Applies, Carries, Applying
<1>6. \A a \in Actors : Applies(act[a])'
  BY <1>3, <1>5 DEF Actors
<1>7. settings'.model \in config'.models /\ config'.default \in config'.models
  BY <1>2, <1>3 DEF Consistent, Unsettled
<1>8. OneAtWork'
  BY <1>4 DEF OneAtWork
<1> QED BY <1>3, <1>5, <1>6, <1>7, <1>8 DEF Consistent

-----------------------------------------------------------------------------
(* The run *)

\* A step of the run moves no handler: those who apply settings, and those who have nothing
\* to apply, must find the tools and the configuration of the run as they expect them.
LEMMA RunIsConsistent ==
  ASSUME Shape, Shape', Consistent,
         (\E o \in Overrides : RunStart(o)) \/ RunBegins \/ RunSettings \/ RunTools \/ RunRestore
  PROVE  Consistent'
<1>1. UNCHANGED <<config, settings, meta, preamble, dirty>> /\ act[Worker].at = "none"
  BY DEF RunStart, RunBegins, RunSettings, RunTools, RunRestore, Shape, session
<1>2. \/ /\ run'.at = "none" /\ running' /\ UNCHANGED <<straddled, slipped>>
         /\ act'[Worker].at = "deferred" /\ \A h \in Handlers : act'[h] = act[h]
      \/ UNCHANGED act /\ run'.at = "start" /\ run'.cfg = config /\ UNCHANGED <<running, slipped, tools>>
         /\ run.at = "none"
      \/ /\ UNCHANGED act /\ run'.at = "settings" /\ run.at = "start" /\ run'.cfg = run.cfg
         /\ running' /\ UNCHANGED slipped
         /\ (\E h \in Handlers : act[h].at \in {"apply", "tools"}) => straddled'
      \/ /\ UNCHANGED act /\ run.at \in Active /\ run'.cfg = run.cfg /\ UNCHANGED straddled /\ running'
         /\ \/ run'.at = "config" /\ run'.base = settings /\ UNCHANGED slipped
            \/ run'.at = "running" /\ run.at = "config" /\ run'.base = run.base /\ UNCHANGED slipped
            \/ /\ run'.at = "finish" /\ tools' = ToolsOf(run.cfg, settings.mcp, settings.custom)
               /\ slipped' = (slipped /\ run.cfg # config)
  <2>1. CASE \E o \in Overrides : RunStart(o)
    <3>1. PICK o \in Overrides : RunStart(o)
      BY <2>1
    <3>2. run' = [at |-> "start", cfg |-> config, over |-> o, base |-> NULL, eff |-> NULL]
      BY <3>1 DEF RunStart
    <3>3. UNCHANGED <<running, slipped, tools, act>> /\ run.at = "none"
      BY <3>1 DEF RunStart, session, history
    <3> QED BY <3>2, <3>3
  <2>2. CASE RunBegins
    <3>1. (\E h \in Handlers : act[h].at \in {"apply", "tools"}) => straddled'
      BY <2>2, Zenon DEF RunBegins
    <3>2. UNCHANGED <<act, slipped>> /\ running' /\ run.at = "start" /\ run' = [run EXCEPT !.at = "settings"]
      BY <2>2 DEF RunBegins
    <3>3. run'.at = "settings" /\ run'.cfg = run.cfg
      BY <3>2, RunMoves
    <3> QED BY <3>1, <3>2, <3>3
  <2>3. CASE RunFails /\ (RunSettings \/ RunTools \/ RunRestore)
    <3>1. run.at \in Active /\ UNCHANGED running
      BY <2>3 DEF RunSettings, RunTools, RunRestore, Active
    <3>2. running' /\ run'.at = "none"
      BY <2>3, <3>1, RunFailsMoves DEF Shape
    <3>3. act'[Worker].at = "deferred" /\ \A h \in Handlers : act'[h] = act[h]
      BY <2>3, RunFailsMoves, WorkerIsNoHandler
    <3>4. UNCHANGED straddled
      BY <2>3 DEF RunSettings, RunTools, RunRestore, history
    <3>5. UNCHANGED slipped
      <4>1. CASE RunSettings \/ RunTools
        BY <4>1 DEF RunSettings, RunTools, history
      <4>2. CASE RunRestore
        <5>1. run' # [run EXCEPT !.at = "finish"]
          <6>1. ASSUME run' = [run EXCEPT !.at = "finish"] PROVE FALSE
            BY <3>2, <6>1, RunMoves
          <6> QED BY <6>1
        <5> QED BY <4>2, <5>1 DEF RunRestore
      <4> QED BY <2>3, <4>1, <4>2
    <3> QED BY <3>2, <3>3, <3>4, <3>5
  <2>4. CASE RunSettings /\ ~RunFails
    <3>1. UNCHANGED <<straddled, slipped, running>> /\ run.at \in Active
      BY <2>4 DEF RunSettings, history, Active
    <3>2. running
      BY <3>1 DEF Shape
    <3> QED BY <2>4, <3>1, <3>2, RunSettingsMoves
  <2>5. CASE RunTools /\ ~RunFails
    <3>1. UNCHANGED <<straddled, slipped, running, act>> /\ run.at = "config"
      BY <2>5 DEF RunTools, history
    <3>2. run' = [run EXCEPT !.at = "running"]
      BY <2>5 DEF RunTools
    <3>3. run'.at = "running" /\ run'.cfg = run.cfg /\ run'.base = run.base /\ run.at \in Active
      BY <3>1, <3>2, RunMoves DEF Active
    <3>4. running
      BY <3>3 DEF Shape
    <3> QED BY <3>1, <3>3, <3>4
  <2>6. CASE RunRestore /\ ~RunFails
    <3>1. UNCHANGED <<straddled, running, act>> /\ run.at = "running"
      BY <2>6 DEF RunRestore
    <3>2. /\ run' = [run EXCEPT !.at = "finish"]
          /\ tools' = ToolsOf(run.cfg, settings.mcp, settings.custom)
          /\ slipped' = (slipped /\ run.cfg # config)
      BY <2>6 DEF RunRestore
    <3>3. run'.at = "finish" /\ run'.cfg = run.cfg /\ run.at \in Active
      BY <3>1, <3>2, RunMoves DEF Active
    <3>4. running
      BY <3>3 DEF Shape
    <3> QED BY <3>1, <3>2, <3>3, <3>4
  <2> QED BY <2>1, <2>2, <2>3, <2>4, <2>5, <2>6
<1>3. /\ \A h \in Handlers : act'[h] = act[h]
      /\ act'[Worker].at \in {"none", "deferred"}
  BY <1>1, <1>2
<1>4. running \in BOOLEAN /\ slipped \in BOOLEAN
  BY DEF Shape
<1>5. Current => Current' /\ (Fitted' => ToolsFit' \/ (Fitted /\ UNCHANGED tools))
  <2> SUFFICES ASSUME Current PROVE Current' /\ (Fitted' => ToolsFit' \/ (Fitted /\ UNCHANGED tools))
    OBVIOUS
  <2>1. CASE run'.at \in {"none", "settings", "config", "running"}
    BY <1>1, <1>2, <2>1 DEF Current, Fitted, Active
  <2>2. CASE run'.at = "start"
    BY <1>1, <1>2, <2>2 DEF Current, Fitted, Active
  <2>3. CASE run'.at = "finish"
    <3>1. /\ run.at \in Active /\ run'.cfg = run.cfg
          /\ tools' = ToolsOf(run.cfg, settings.mcp, settings.custom)
          /\ slipped' = (slipped /\ run.cfg # config)
      BY <1>2, <2>3
    <3>2. run.cfg = config \/ slipped
      BY <3>1 DEF Current, Active
    <3>3. run.cfg = config => ToolsFit'
      BY <1>1, <3>1 DEF ToolsFit, ToolsOf, ServersOf
    <3> QED BY <1>1, <2>3, <3>1, <3>2, <3>3 DEF Current, Fitted
  <2> QED BY <1>2, <2>1, <2>2, <2>3
<1>6. run.at = "none" => Current
  BY DEF Current
<1>7. \A h \in Handlers : Carries(act[h])'
  <2> SUFFICES ASSUME NEW h \in Handlers PROVE Carries(act[h])'
    OBVIOUS
  <2>1. Carries(act[h]) /\ act'[h] = act[h]
    BY <1>3 DEF Consistent
  <2>2. act[h].at \in Applying => Current'
    BY <1>5, <2>1 DEF Carries
  <2>3. act[h].at \in {"apply", "tools"} /\ run'.at \in Active => straddled'
    BY <1>2, <2>1 DEF Carries, Active
  <2>4. act[h].at \in {"apply", "tools"} /\ run'.at \in {"config", "running"} => run'.base = settings
    BY <1>2, <2>1 DEF Carries, Active
  <2> QED BY <1>1, <2>1, <2>2, <2>3, <2>4 DEF Carries
<1>8. \A a \in Actors : Applies(act[a])'
  <2> SUFFICES ASSUME NEW a \in Actors PROVE Applies(act[a])'
    OBVIOUS
  <2>1. CASE a \in Handlers
    <3>1. Applies(act[a]) /\ Carries(act[a]) /\ act'[a] = act[a]
      BY <1>3, <2>1 DEF Consistent
    <3>2. act[a].at \in {"preamble", "clean"} /\ Fitted' => ToolsFit'
      <4> SUFFICES ASSUME act[a].at \in {"preamble", "clean"}, Fitted' PROVE ToolsFit'
        OBVIOUS
      <4>1. Current
        BY <3>1 DEF Carries, Applying
      <4>2. ToolsFit' \/ (Fitted /\ UNCHANGED tools)
        BY <1>5, <4>1
      <4> QED BY <1>1, <3>1, <4>2 DEF Applies, ToolsFit
    <3> QED BY <1>1, <3>1, <3>2 DEF Applies, MetaOf
  <2>2. CASE a = Worker
    BY <1>3, <2>2 DEF Applies, Applying
  <2> QED BY <2>1, <2>2 DEF Actors
<1>9. Agreed => Agreed'
  <2> SUFFICES ASSUME Agreed PROVE Agreed'
    OBVIOUS
  <2>1. Current' /\ (Fitted' => ToolsFit' \/ (Fitted /\ UNCHANGED tools))
    BY <1>5 DEF Agreed
  <2>2. Fitted' => ToolsFit'
    BY <1>1, <2>1 DEF Agreed, ToolsFit
  <2> QED BY <1>1, <2>1, <2>2 DEF Agreed, MetaOf
<1>10. OneAtWork'
  BY <1>3 DEF Consistent, OneAtWork, Applying
<1> QED BY <1>1, <1>3, <1>7, <1>8, <1>9, <1>10 DEF Consistent

\* The worker leaves its run, or looks for deferred settings: at some only if alone.
LEMMA WorkerIsConsistent ==
  ASSUME Shape, Consistent,
         RunIdle \/ (WorkerDeferred /\ (dirty /\ ~running => Busy = {}))
  PROVE  Consistent'
<1>1. /\ UNCHANGED <<config, settings, meta, tools, preamble, dirty, straddled, slipped>>
      /\ Worker \in Actors
  BY WorkerIsNoHandler DEF RunIdle, WorkerDeferred, session, history
<1>2. \/ /\ run.at = "finish" /\ run'.at = "none" /\ ~running' /\ act'[Worker].at = "deferred"
      \/ /\ UNCHANGED <<run, running>> /\ run.at = "none"
         /\ \/ act'[Worker].at = "none"
            \/ act'[Worker].at = "apply" /\ dirty /\ \A h \in Handlers : act[h].at = "none"
  <2>1. CASE RunIdle
    <3>1. Go(Worker, "deferred")
      BY <2>1 DEF RunIdle
    <3> QED BY <1>1, <2>1, <3>1, GoMoves DEF RunIdle, NoRun
  <2>2. CASE WorkerDeferred /\ (dirty /\ ~running => Busy = {})
    <3>1. run.at = "none" /\ UNCHANGED <<run, running>>
      BY <2>2 DEF WorkerDeferred, Shape
    <3>2. CASE dirty /\ ~running
      <4>1. \A h \in Handlers : act[h].at \in {"none", "deferred"} /\ act[h].at \in HandlerStages
        BY <2>2, <3>2, WorkerIsNoHandler DEF Busy, Shape
      <4>2. \A h \in Handlers : act[h].at = "none"
        BY <4>1 DEF HandlerStages
      <4> QED BY <1>1, <2>2, <3>1, <3>2, <4>2, GoMoves DEF WorkerDeferred
    <3>3. CASE ~(dirty /\ ~running)
      BY <1>1, <2>2, <3>1, <3>3, FinishMoves DEF WorkerDeferred
    <3> QED BY <3>2, <3>3
  <2> QED BY <2>1, <2>2
<1>3. \A h \in Handlers : act'[h] = act[h]
  <2>1. \/ Finish(Worker) \/ \E stage \in {"apply", "deferred"} : Go(Worker, stage)
    BY DEF RunIdle, WorkerDeferred, Go
  <2> QED BY <1>1, <2>1, GoMoves, FinishMoves, WorkerIsNoHandler
<1>4. (ToolsFit' <=> ToolsFit) /\ (Fitted' => Fitted) /\ (Current => Current')
  BY <1>1, <1>2 DEF ToolsFit, Fitted, Current
<1>5. \A h \in Handlers : Applies(act[h])' /\ Carries(act[h])'
  <2> SUFFICES ASSUME NEW h \in Handlers PROVE Applies(act[h])' /\ Carries(act[h])'
    OBVIOUS
  <2>1. Applies(act[h]) /\ Carries(act[h])
    BY WorkerIsNoHandler DEF Consistent
  <2>2. Applies(act[h])'
    BY <1>1, <1>2, <1>3, <1>4, <2>1 DEF Applies, MetaOf
  <2>3. Carries(act[h])'
    BY <1>1, <1>2, <1>3, <1>4, <2>1 DEF Carries, Active
  <2> QED BY <2>2, <2>3
<1>6. Applies(act[Worker])'
  BY <1>1, <1>2 DEF Applies, Applying
<1>7. \A a \in Actors : Applies(act[a])'
  BY <1>5, <1>6 DEF Actors
<1>8. Agreed => Agreed'
  BY <1>1, <1>2, <1>4 DEF Agreed, MetaOf
<1>9. OneAtWork'
  BY <1>2, <1>3 DEF Consistent, OneAtWork, Applying
<1> QED BY <1>1, <1>3, <1>5, <1>7, <1>8, <1>9 DEF Consistent

-----------------------------------------------------------------------------
(* The steps together *)

LEMMA StepIsConsistent ==
  ASSUME Shape, Shape', Consistent, Next, ~overlap'
  PROVE  Consistent'
<1>1. ASSUME NEW h \in Handlers, (\E p \in Patches : PatchRead(h, p)) \/ ConfigRead(h)
      PROVE  Consistent'
  <2>1. Busy = {}
    BY <1>1, BeginsIsBoolean DEF PatchRead, ConfigRead
  <2> QED BY <1>1, <2>1, RequestIsConsistent
<1>2. ASSUME NEW h \in Handlers, HandlerStep(h)
      PROVE  Consistent'
  BY <1>2, HandlerIsConsistent, HandlerApplies DEF HandlerStep
<1>3. CASE WorkerDeferred
  <2>1. dirty /\ ~running => Busy = {}
    BY <1>3 DEF WorkerDeferred
  <2> QED BY <1>3, <2>1, WorkerIsConsistent
<1> QED BY <1>1, <1>2, <1>3, RunIsConsistent, WorkerIsConsistent, WorkerApplies DEF Next, WorkerStep

\* The tools of a run are its own, or those of a handler that applied the settings the run
\* began with.
LEMMA StepKeepsRunTools ==
  ASSUME Shape, RunGiven, Consistent, RunToolsBounded, ~overlap, Next
  PROVE  RunToolsBounded'
<1>1. CASE /\ UNCHANGED <<tools, run>>
           /\ UNCHANGED straddled \/ (run.at = "running" => straddled')
  <2> SUFFICES ASSUME run'.at = "running"
               PROVE  /\ Enabled(tools'.mcp) \cap Disabled(run'.base.mcp) = {}
                      /\ straddled' \/ tools' = ToolsOf(run'.cfg, run'.eff.mcp, run'.eff.custom)
    BY DEF RunToolsBounded, Enabled, Disabled, ToolsOf, ServersOf
  <2>1. /\ Enabled(tools.mcp) \cap Disabled(run.base.mcp) = {}
        /\ straddled \/ tools = ToolsOf(run.cfg, run.eff.mcp, run.eff.custom)
    BY <1>1 DEF RunToolsBounded
  <2> QED BY <1>1, <2>1
<1>2. CASE run'.at # "running"
  BY <1>2 DEF RunToolsBounded
<1>3. CASE RunTools /\ run'.at = "running"
  <2> DEFINE eff == ApplyPatch(run.base, run.over, run.cfg)
  <2>0. ~RunFails
    BY <1>3, RunFailsMoves
  <2>1. run' = [run EXCEPT !.at = "running"]
    BY <1>3, <2>0 DEF RunTools
  <2>2. run'.base = run.base /\ run'.cfg = run.cfg /\ run'.eff = run.eff
    BY <2>1, RunMoves
  <2>3. run.eff = eff /\ PatchOk(run.base, run.over, run.cfg, FALSE)
    BY <1>3 DEF RunTools, RunGiven
  <2>4. tools' = ToolsOf(run.cfg, run.eff.mcp, run.eff.custom)
    BY <1>3, <2>0 DEF RunTools
  <2>5. Enabled(ToolsOf(run.cfg, eff.mcp, eff.custom).mcp) \cap Disabled(run.base.mcp) = {}
    BY <2>3, OverridesOnlyDisable
  <2> HIDE DEF eff
  <2>6. Enabled(tools'.mcp) \cap Disabled(run'.base.mcp) = {}
    BY <2>2, <2>3, <2>4, <2>5
  <2>7. tools' = ToolsOf(run'.cfg, run'.eff.mcp, run'.eff.custom)
    BY <2>2, <2>4
  <2> QED BY <2>6, <2>7 DEF RunToolsBounded, Enabled, Disabled, ToolsOf, ServersOf
<1>4. ASSUME NEW h \in Handlers, ApplyTools(h), run.at = "running"
      PROVE  RunToolsBounded'
  <2>1. Applies(act[h]) /\ Carries(act[h]) /\ act[h].at = "tools"
    BY <1>4, WorkerIsNoHandler DEF Consistent, ApplyTools
  <2>2. act[h].set = settings /\ run.base = settings /\ straddled
    BY <1>4, <2>1 DEF Applies, Carries, Applying, Active
  <2>3. /\ tools' = ToolsOf(act[h].cfg, settings.mcp, act[h].cfg.custom)
        /\ UNCHANGED <<run, straddled>>
    BY <1>4, <2>2 DEF ApplyTools
  <2>4. Enabled(tools'.mcp) \cap Disabled(run'.base.mcp) = {}
    BY <2>2, <2>3, DisabledStays
  <2> QED BY <2>2, <2>3, <2>4 DEF RunToolsBounded, Enabled, Disabled
<1>5. ASSUME NEW h \in Handlers, (\E p \in Patches : PatchRead(h, p)) \/ ConfigRead(h) \/ HandlerStep(h),
             ~ApplyTools(h)
      PROVE  UNCHANGED <<tools, run, straddled>>
  BY <1>5 DEF PatchRead, ConfigRead, HandlerStep, PatchWrite, PatchMeta, MarkDirty, CheckIdle,
     ConfigStore, ConfigResolve, ConfigSettle, Apply, ApplyRead, ApplyPreamble, ApplyDone, session, history
<1>6. ASSUME NEW h \in Handlers, ApplyTools(h)
      PROVE  run.at = "running" \/ run'.at # "running"
  BY <1>6 DEF ApplyTools
<1>7. ASSUME (\E o \in Overrides : RunStart(o)) \/ RunBegins
      PROVE  run'.at # "running"
  <2>1. CASE \E o \in Overrides : RunStart(o)
    <3>1. PICK o \in Overrides : RunStart(o)
      BY <2>1
    <3>2. run' = [at |-> "start", cfg |-> config, over |-> o, base |-> NULL, eff |-> NULL]
      BY <3>1 DEF RunStart
    <3> QED BY <3>2
  <2>2. CASE RunBegins
    <3>1. run' = [run EXCEPT !.at = "settings"]
      BY <2>2 DEF RunBegins
    <3> QED BY <3>1, RunMoves
  <2> QED BY <1>7, <2>1, <2>2
<1>8. RunSettings => run'.at # "running"
  BY RunSettingsMoves, RunFailsMoves
<1>9. RunRestore \/ RunIdle => run'.at # "running"
  BY RunMoves, RunFailsMoves DEF RunRestore, RunIdle, NoRun
<1>10. WorkerDeferred \/ Apply(Worker) => run'.at # "running"
  BY DEF WorkerDeferred, Apply, ApplyRead, ApplyTools, ApplyPreamble, ApplyDone, Shape
<1> QED BY <1>1, <1>2, <1>3, <1>4, <1>5, <1>6, <1>7, <1>8, <1>9, <1>10 DEF Next, WorkerStep

-----------------------------------------------------------------------------
(* The theorems *)

LEMMA OverlapStays ==
  ASSUME Next, ~overlap'
  PROVE  ~overlap
<1>1. ASSUME NEW h \in Handlers, (\E p \in Patches : PatchRead(h, p)) \/ ConfigRead(h)
      PROVE  ~overlap
  BY <1>1, BeginsIsBoolean DEF PatchRead, ConfigRead
<1>2. ASSUME NEW h \in Handlers, HandlerStep(h)
      PROVE  ~overlap
  BY <1>2 DEF HandlerStep, PatchWrite, PatchMeta, MarkDirty, CheckIdle, ConfigStore,
     ConfigResolve, ConfigSettle, Apply, ApplyRead, ApplyTools, ApplyPreamble, ApplyDone, history
<1>3. ASSUME NEW o \in Overrides, RunStart(o)
      PROVE  ~overlap
  BY <1>3 DEF RunStart, history
<1>4. CASE WorkerDeferred
  BY <1>4, Zenon DEF WorkerDeferred
<1>5. CASE RunIdle \/ RunBegins \/ RunSettings \/ RunTools \/ RunRestore \/ Apply(Worker)
  BY <1>5 DEF RunIdle, RunBegins, RunSettings, RunTools, RunRestore, Apply, ApplyRead, ApplyTools,
     ApplyPreamble, ApplyDone, history
<1> QED BY <1>1, <1>2, <1>3, <1>4, <1>5 DEF Next, WorkerStep

LEMMA InitIsConsistent == Init => SettingsInv
<1> SUFFICES ASSUME Init PROVE SettingsInv
  OBVIOUS
<1>1. PICK known \in BOOLEAN :
         meta = IF known THEN MetaOf([model |-> config.default, custom |-> config.custom,
                                      mcp |-> config.mcp])
                         ELSE NoMeta
  BY DEF Init
<1>2. /\ config \in Configs /\ settings = ResolveSettings(meta, config)
      /\ tools = ToolsOf(config, settings.mcp, settings.custom) /\ preamble = settings.model
      /\ run = NoRun /\ act = [a \in Actors |-> Idle] /\ overlap = FALSE
      /\ running = FALSE /\ slipped = FALSE
  BY DEF Init
<1>3. config.default \in config.models /\ config.mcp = [s \in DOMAIN config.mcp |-> config.mcp[s]]
  <2> DEFINE m == [s \in DOMAIN config.mcp |-> config.mcp[s]]
  <2>1. /\ config = [mcp |-> m, default |-> config.default, models |-> config.models,
                     custom |-> config.custom]
        /\ config.default \in config.models
    BY <1>2, ConfigsResolve
  <2> HIDE DEF m
  <2>2. config.mcp = m
    BY <2>1
  <2> QED BY <2>1, <2>2 DEF m
<1>4. IsConfig(config)
  <2> DEFINE m == [s \in DOMAIN config.mcp |-> config.mcp[s]]
  <2>1. config = [mcp |-> m, default |-> config.default, models |-> config.models,
                  custom |-> config.custom]
    BY <1>2, ConfigsResolve
  <2>2. m = config.mcp
    BY <1>3
  <2> HIDE DEF m
  <2> QED BY <2>1, <2>2 DEF IsConfig
<1>5. \A a \in Actors : act[a] = Idle /\ act[a].at = "none" /\ IsActor(act[a])
  BY <1>2 DEF Idle, IsActor
<1>6. Shape
  <2>1. /\ act = [a \in Actors |-> act[a]]
        /\ \A h \in Handlers : act[h].at \in HandlerStages /\ act[h].at # "store"
        /\ act[Worker].at = "none"
    BY <1>2, <1>5, WorkerIsNoHandler DEF HandlerStages
  <2>3. "none" \notin {"finish"} \cup Active /\ "none" \notin Applying
    BY DEF Active, Applying
  <2>2. /\ run = [at |-> run.at, cfg |-> run.cfg, over |-> run.over, base |-> run.base,
                  eff |-> run.eff]
        /\ run.at = "none"
    BY <1>2 DEF NoRun
  <2> QED BY <1>2, <1>4, <1>5, <2>1, <2>2, <2>3 DEF Shape
<1>7. meta # NoMeta => meta = MetaOf(settings)
  <2> SUFFICES ASSUME meta # NoMeta PROVE meta = MetaOf(settings)
    OBVIOUS
  <2>1. meta = [model |-> config.default, custom |-> config.custom, mcp |-> config.mcp]
    BY <1>1 DEF MetaOf
  <2>2. /\ meta.model = config.default /\ meta.custom = config.custom /\ meta.mcp = config.mcp
    BY <2>1
  <2>3. ServersOf(config.mcp, config) = config.mcp
    BY <1>3 DEF ServersOf
  <2>4. /\ settings.model = config.default /\ settings.custom = config.custom
        /\ settings.mcp = config.mcp
    BY <1>2, <1>3, <2>2, <2>3 DEF ResolveSettings, Or
  <2> QED BY <2>1, <2>4 DEF MetaOf
<1>8. Agreed
  BY <1>2, <1>7 DEF Agreed, ToolsFit, ToolsOf, Current, NoRun
<1>9. settings.model \in config.models
  BY <1>2, <1>3, ResolvedModelExists
<1>10. Consistent
  <2>1. OneAtWork
    BY <1>5, WorkerIsNoHandler DEF OneAtWork
  <2>2. \A a \in Actors : Applies(act[a])
    BY <1>5 DEF Applies, Applying
  <2>3. \A h \in Handlers : Carries(act[h])
    BY <1>5, WorkerIsNoHandler DEF Carries, Applying
  <2> QED BY <1>3, <1>8, <1>9, <2>1, <2>2, <2>3 DEF Consistent
<1> QED BY <1>2, <1>6, <1>10 DEF SettingsInv, RunGiven, RunToolsBounded, NoRun

LEMMA StepKeepsSettingsInv ==
  ASSUME SettingsInv, [Next]_vars
  PROVE  SettingsInv'
<1>1. CASE UNCHANGED vars
  <2>1. Shape' /\ RunGiven' /\ RunToolsBounded'
    BY <1>1 DEF vars, session, history, SettingsInv, Shape, IsActor, IsConfig, RunGiven, PatchOk, ApplyPatch, MergeOk,
       MergeMcp, ServersOf, Or, RunToolsBounded, Enabled, Disabled, ToolsOf
  <2>2. Consistent => Consistent'
    BY <1>1 DEF vars, session, history, Consistent, OneAtWork, Applies, Carries, Agreed, ToolsFit, Fitted,
       Current, MetaOf
  <2> QED BY <1>1, <2>1, <2>2 DEF vars, history, SettingsInv
<1>2. CASE Next
  <2>1. Shape' /\ RunGiven'
    BY <1>2, StepKeepsShape DEF SettingsInv
  <2>2. ASSUME ~overlap' PROVE Consistent' /\ RunToolsBounded'
    <3>1. ~overlap
      BY <1>2, <2>2, OverlapStays
    <3> QED BY <1>2, <2>1, <2>2, <3>1, StepIsConsistent, StepKeepsRunTools DEF SettingsInv
  <2> QED BY <2>1, <2>2 DEF SettingsInv, RunToolsBounded
<1> QED BY <1>1, <1>2

LEMMA SettingsInvariance == Spec => []SettingsInv
BY InitIsConsistent, StepKeepsSettingsInv, PTL DEF Spec

\* A session at rest is what its settings say, unless two changes were in progress at once:
\* for any requests, configurations and runs, whichever of handler and worker applied the
\* last change, and whatever runs failed; only its tools may lag behind a configuration
\* that changed between run_one's reading of it and the status.
THEOREM SettingsAgreeAtRest == Spec => []SettledAtRest
<1>1. SettingsInv => SettledAtRest
  <2> SUFFICES ASSUME SettingsInv, Quiet, ~overlap PROVE SettledAtRest
    BY DEF SettledAtRest
  <2>1. /\ Consistent /\ ~dirty /\ ~running
        /\ \A h \in Handlers : act[h].at \in {"none", "deferred"}
    BY WorkerIsNoHandler DEF SettingsInv, Quiet, Busy
  <2>2. Agreed /\ settings.model \in config.models
    BY <2>1 DEF Consistent, Pending, Unsettled
  <2>3. slipped \/ ToolsFit
    BY <2>1, <2>2 DEF Agreed, Fitted
  <2> QED BY <2>1, <2>2, <2>3 DEF SettledAtRest, Agreed, ToolsFit, InForce
<1> QED BY <1>1, SettingsInvariance, PTL

\* Unless two changes were in progress at once, a run never has an MCP server that the
\* settings it read (run_one) disabled, and keeps the servers it was given unless a handler
\* was still applying settings when the status changed.
THEOREM RunToolsAreBounded == Spec => []RunToolsBounded
<1>1. SettingsInv => RunToolsBounded
  BY DEF SettingsInv
<1> QED BY <1>1, SettingsInvariance, PTL
===============================================================================
