------------------------------ MODULE MultiAgent ------------------------------
(***************************************************************************)
(* The tree of agents below one root session (state/multi_agent.rs and the *)
(* multi-agent operations of live_session.rs): spawning under a limit,     *)
(* messages and their mailbox, waiting, and closing a subtree.             *)
(*                                                                         *)
(* A tool call holds the state lock only within a step; the steps of two   *)
(* calls interleave.  A spawned child is registered with the control but   *)
(* not with ServerState::sessions: a request over HTTP resumes a second    *)
(* copy of it.  A cancelled run drops the tool calls it runs in parallel   *)
(* (spawn and messages) wherever they are; waits and closes run to the end.*)
(***************************************************************************)
EXTENDS Naturals, Sequences, FiniteSets, SequencesExt

CONSTANTS Names,        \* task names
          Calls,        \* concurrent tool calls
          MaxDepth,     \* multi_agent.max_depth
          MaxAgents,    \* multi_agent.max_concurrent_agents_per_root
          MaxSessions,  \* bound on sessions
          MaxOps,       \* bound on tool calls
          MaxFaults,    \* bound on restarts and HTTP resumes
          NULL

ASSUME MultiAgentBounds ==
    {MaxDepth, MaxAgents, MaxSessions, MaxOps, MaxFaults} \subseteq Nat /\ MaxSessions > 0
ASSUME CallsFinite == IsFiniteSet(Calls)

Session == 1..MaxSessions
Root == 1
RootPath == <<>>
Reserved == 0           \* the empty session id in session_by_path
Path == SeqOf(Names, MaxDepth)     \* the paths below /root a spawn may ask for
Meta == [path : Path \cup {NULL}, parent : Session \cup {NULL}, closed : BOOLEAN]

ASSUME MultiAgentNull == NULL \notin Nat /\ NULL \notin Meta

VARIABLES
    disk,       \* per session: NULL, or agent_path, parent_session_id and closed of its meta
    by,         \* by_session: closed, and the live copy or NULL
    paths,      \* session_by_path
    mailbox,    \* per session: the kinds of items queued for it
    copies,     \* every LiveSession: session, meta.closed, closing, the length of its queue,
                \* and what its worker does
    http,       \* the copy in ServerState::sessions
    calls,      \* the tool calls in progress
    ops, faults,
    overlap,    \* the most spawns in progress at once (history)
    raced,      \* paths that were being spawned when an ancestor was closed, or below an
                \* ancestor that was resumed as closed (history)
    opened,     \* sessions resumed over HTTP (history)
    late        \* copies with a run that their close missed (history)

history == <<overlap, raced, opened, late>>
vars == <<disk, by, paths, mailbox, copies, http, calls, ops, faults, history>>

Idle == [op |-> "none", at |-> "none", me |-> NULL, path |-> NULL, to |-> NULL,
         changed |-> FALSE, todo |-> {}]

NewCopy(s, closed) ==
    [sess |-> s, closed |-> closed, closing |-> FALSE, queue |-> 0, run |-> "none"]

Init ==
    /\ disk = [s \in Session |-> IF s = Root
                  THEN [path |-> RootPath, parent |-> NULL, closed |-> FALSE] ELSE NULL]
    /\ copies = <<[NewCopy(Root, FALSE) EXCEPT !.run = "running"]>>
    /\ by = [s \in {Root} |-> [closed |-> FALSE, live |-> 1]]
    /\ paths = [p \in {RootPath} |-> Root]
    /\ http = [s \in Session |-> IF s = Root THEN 1 ELSE NULL]
    /\ mailbox = [s \in Session |-> {}]
    /\ calls = [c \in Calls |-> Idle] /\ ops = 0 /\ faults = 0
    /\ overlap = 0 /\ raced = {} /\ opened = {} /\ late = {}

-----------------------------------------------------------------------------
\* path_matches_prefix, both below /root
Below(path, prefix) == IsPrefix(prefix, path)
ClosedAbove(path) == \E s \in DOMAIN by : by[s].closed /\ Below(path, disk[s].path)

Spawning(c) == calls[c].op = "spawn" /\ calls[c].at \in {"create", "identify", "register"}

Open(s) == s \in DOMAIN by /\ ~by[s].closed

SpawnedBelow(prefix) ==
    {calls[d].path : d \in {e \in Calls : Spawning(e) /\ Below(calls[e].path, prefix)}}
OpenBelow(prefix) == {disk[s].path : s \in {t \in DOMAIN by : Open(t) /\ Below(disk[t].path, prefix)}}
Active == {s \in DOMAIN by \ {Root} : Open(s)}

Put(f, x, v) == [y \in DOMAIN f \cup {x} |-> IF y = x THEN v ELSE f[y]]

Goto(c, at) == calls' = [calls EXCEPT ![c].at = at]
Return(c) == calls' = [calls EXCEPT ![c] = Idle]

\* execute: a run of session me makes a tool call.  A cancelled run still makes some.
Begin(c, op, me) ==
    /\ calls[c].op = "none" /\ ops < MaxOps
    /\ \E i \in DOMAIN copies : copies[i].sess = me /\ copies[i].run \in {"running", "cancelled"}
    /\ ops' = ops + 1
    /\ calls' = [calls EXCEPT ![c] = [Idle EXCEPT !.op = op, !.at = "begin", !.me = me]]
    /\ UNCHANGED <<disk, by, paths, mailbox, copies, http, faults, history>>

\* The run was cancelled: its JoinSet drops the calls that run in parallel.  A message is
\* empty, or the run file of a registered agent cannot be written: the call returns.
Drop(c) ==
    /\ calls[c].op \in {"spawn", "send", "followup"}
    /\ Return(c)
    /\ UNCHANGED <<disk, by, paths, mailbox, copies, http, ops, faults, overlap, raced, opened,
                   late>>

-----------------------------------------------------------------------------
\* spawn_agent

\* Mutant: one agent more than the limit.
ReserveOneMore(c, name) ==
    LET path == Append(disk[calls[c].me].path, name)
    IN  /\ calls[c].op = "spawn" /\ calls[c].at = "begin"
        /\ path \in Path /\ path \notin DOMAIN paths /\ Cardinality(Active) <= MaxAgents
        /\ paths' = Put(paths, path, Reserved)
        /\ calls' = [calls EXCEPT ![c].at = "create", ![c].path = path]
        /\ UNCHANGED <<disk, by, mailbox, copies, http, ops, faults, history>>

\* reserve_spawn: depth, path and limit; the agents counted are the registered ones.
ReserveSpawn(c, name) ==
    LET path == Append(disk[calls[c].me].path, name)
        ok == path \in Path /\ path \notin DOMAIN paths /\ Cardinality(Active) < MaxAgents
        now == 1 + Cardinality({d \in Calls : Spawning(d)})
    IN  /\ calls[c].op = "spawn" /\ calls[c].at = "begin"
        /\ \/ /\ ok
              /\ paths' = Put(paths, path, Reserved)
              /\ calls' = [calls EXCEPT ![c].at = "create", ![c].path = path]
              /\ overlap' = IF now > overlap THEN now ELSE overlap
              /\ raced' = IF ClosedAbove(path) THEN raced \cup {path} ELSE raced
           \/ ~ok /\ Return(c) /\ UNCHANGED <<paths, overlap, raced>>
        /\ UNCHANGED <<disk, by, mailbox, copies, http, ops, faults, opened, late>>

Released(path) ==
    IF path \in DOMAIN paths /\ paths[path] = Reserved
    THEN [p \in DOMAIN paths \ {path} |-> paths[p]] ELSE paths

\* The arguments, the profile, permissions_allow_child, the model or fork_messages refuse,
\* or a file cannot be written: release_reserved_path.
SpawnFails(c) ==
    /\ Spawning(c)
    /\ paths' = Released(calls[c].path)
    /\ Return(c)
    /\ UNCHANGED <<disk, by, mailbox, copies, http, ops, faults, history>>

\* SessionStore::create; the session has no place in the tree yet.
CreateChild(c) ==
    \E s \in Session :
        /\ calls[c].op = "spawn" /\ calls[c].at = "create"
        /\ disk[s] = NULL /\ \A t \in Session : disk[t] = NULL => s <= t
        /\ disk' = [disk EXCEPT ![s] = [path |-> NULL, parent |-> NULL, closed |-> FALSE]]
        /\ calls' = [calls EXCEPT ![c].at = "identify", ![c].to = s]
        /\ UNCHANGED <<by, paths, mailbox, copies, http, ops, faults, history>>

\* Its meta gets the tree's root, its parent and its path, and is checkpointed.
IdentifyChild(c) ==
    /\ calls[c].op = "spawn" /\ calls[c].at = "identify"
    /\ disk' = [disk EXCEPT ![calls[c].to] =
                   [path |-> calls[c].path, parent |-> calls[c].me, closed |-> FALSE]]
    /\ Goto(c, "register")
    /\ UNCHANGED <<by, paths, mailbox, copies, http, ops, faults, history>>

\* register_live_agent for copy i of session s
Register(s, i, closed) ==
    /\ by' = Put(by, s, [closed |-> closed, live |-> i])
    /\ paths' = Put(paths, disk[s].path, s)

\* LiveSession::from_parts starts the child's worker; then it is registered.
RegisterChild(c) ==
    /\ calls[c].op = "spawn" /\ calls[c].at = "register"
    /\ copies' = Append(copies, NewCopy(calls[c].to, FALSE))
    /\ Register(calls[c].to, Len(copies) + 1, FALSE)
    /\ calls' = [calls EXCEPT ![c].at = "enqueue", ![c].to = Len(copies) + 1]
    /\ UNCHANGED <<disk, mailbox, http, ops, faults, history>>

\* enqueue_run for the child's first run checks closing: if the child is closing by now
\* the spawn fails, and its path, no longer reserved, stays taken.
EnqueueChild(c) ==
    /\ calls[c].op = "spawn" /\ calls[c].at = "enqueue"
    /\ IF copies[calls[c].to].closing
       THEN paths' = Released(calls[c].path) /\ Return(c)
       ELSE Goto(c, "push") /\ UNCHANGED paths
    /\ UNCHANGED <<disk, by, mailbox, copies, http, ops, faults, history>>

-----------------------------------------------------------------------------
\* The mailbox

Bump(f) == [c \in Calls |-> IF f[c].op = "wait" THEN [f[c] EXCEPT !.changed = TRUE] ELSE f[c]]

\* resolve_target: a path of an open agent that is not being created.
ResolveTarget(c, s) ==
    /\ calls[c].at = "begin" /\ calls[c].op \in {"send", "followup", "close"}
    /\ \/ /\ Open(s)
          /\ s = Root => calls[c].op = "send"
          /\ calls' = [calls EXCEPT ![c].at = calls[c].op, ![c].to = s]
       \/ /\ ~Open(s) \/ (s = Root /\ calls[c].op # "send")
          /\ Return(c)
    /\ UNCHANGED <<disk, by, paths, mailbox, copies, http, ops, faults, history>>

\* Mutant: the waiting agent is not told.
QueueMessageSilent(c) ==
    /\ calls[c].at = "send"
    /\ mailbox' = [mailbox EXCEPT ![calls[c].to] = @ \cup {"message"}]
    /\ calls' = [calls EXCEPT ![c] = Idle]
    /\ UNCHANGED <<disk, by, paths, copies, http, ops, faults, history>>

\* queue_message: the item and the notification are one step.
QueueMessage(c) ==
    /\ calls[c].at = "send"
    /\ mailbox' = [mailbox EXCEPT ![calls[c].to] = @ \cup {"message"}]
    /\ calls' = [Bump(calls) EXCEPT ![c] = Idle]
    /\ UNCHANGED <<disk, by, paths, copies, http, ops, faults, history>>

\* followup_task: live_for_session, then enqueue_run's check of closing ...
FollowupTask(c) ==
    LET i == by[calls[c].to].live
    IN  /\ calls[c].at = "followup"
        /\ IF i = NULL \/ (i # NULL /\ copies[i].closing) THEN Return(c)
           ELSE calls' = [calls EXCEPT ![c].at = "push", ![c].to = i]
        /\ UNCHANGED <<disk, by, paths, mailbox, copies, http, ops, faults, history>>

\* ... and, after the run file is written, the push.  A copy whose queue the close has
\* cleared by then gets a run that nobody cancels.
PushRun(c) ==
    /\ calls[c].at = "push"
    /\ copies' = [copies EXCEPT ![calls[c].to].queue = @ + 1]
    /\ late' = IF copies[calls[c].to].closing THEN late \cup {calls[c].to} ELSE late
    /\ Return(c)
    /\ UNCHANGED <<disk, by, paths, mailbox, http, ops, faults, overlap, raced, opened>>

\* worker_loop takes what is queued, closing or not.
RunPops(i) ==
    /\ copies[i].queue > 0 /\ copies[i].run = "none"
    /\ copies' = [copies EXCEPT ![i].queue = @ - 1, ![i].run = "popped"]
    /\ UNCHANGED <<disk, by, paths, mailbox, http, calls, ops, faults, history>>

\* run_one stores active_cancel; drain_messages_for_run leaves the updates.
RunStarts(i) ==
    /\ copies[i].run = "popped"
    /\ copies' = [copies EXCEPT ![i].run = "running"]
    /\ mailbox' = [mailbox EXCEPT ![copies[i].sess] = @ \ {"message"}]
    /\ UNCHANGED <<disk, by, paths, http, calls, ops, faults, history>>

\* A run ends: the meta is saved, and notify_finished tells a registered parent.  A run
\* that is done may be continued for a goal, unless the session is closing ...
RunEnds(i) ==
    LET s == copies[i].sess
        p == disk[s].parent
    IN  /\ copies[i].run \in {"running", "cancelled"} /\ s # Root
        /\ \E next \in {"none", "continuing"} :
              /\ next = "continuing" => copies[i].run = "running" /\ ~copies[i].closing
              /\ copies' = [copies EXCEPT ![i].run = next]
        /\ disk' = [disk EXCEPT ![s].closed = copies[i].closed]
        /\ IF p # NULL /\ p \in DOMAIN by
           THEN /\ mailbox' = [mailbox EXCEPT ![p] = @ \cup {"update"}]
                /\ calls' = Bump(calls)
           ELSE UNCHANGED <<mailbox, calls>>
        /\ UNCHANGED <<by, paths, http, ops, faults, history>>

\* ... and the continuation is pushed after its run file is written.
ContinueGoal(i) ==
    /\ copies[i].run = "continuing"
    /\ copies' = [copies EXCEPT ![i].queue = @ + 1, ![i].run = "none"]
    /\ late' = IF copies[i].closing THEN late \cup {i} ELSE late
    /\ UNCHANGED <<disk, by, paths, mailbox, http, calls, ops, faults, overlap, raced, opened>>

\* An error returns from run_one: nobody is told.
RunAborts(i) ==
    /\ copies[i].run # "none" /\ copies[i].sess # Root
    /\ copies' = [copies EXCEPT ![i].run = "none"]
    /\ UNCHANGED <<disk, by, paths, mailbox, http, calls, ops, faults, history>>

\* wait_for_updates: subscribe, then drain; sleep until a change or the deadline.
Subscribe(c) ==
    /\ calls[c].op = "wait" /\ calls[c].at = "begin"
    /\ calls' = [calls EXCEPT ![c].at = "drain", ![c].changed = FALSE]
    /\ UNCHANGED <<disk, by, paths, mailbox, copies, http, ops, faults, history>>

DrainMailbox(c) ==
    /\ calls[c].op = "wait" /\ calls[c].at = "drain"
    /\ mailbox' = [mailbox EXCEPT ![calls[c].me] = {}]
    /\ IF mailbox[calls[c].me] # {} THEN Return(c) ELSE Goto(c, "asleep")
    /\ UNCHANGED <<disk, by, paths, copies, http, ops, faults, history>>

Wake(c) ==
    /\ calls[c].at = "asleep" /\ calls[c].changed
    /\ calls' = [calls EXCEPT ![c].at = "drain", ![c].changed = FALSE]
    /\ UNCHANGED <<disk, by, paths, mailbox, copies, http, ops, faults, history>>

WaitTimeout(c) ==
    /\ calls[c].at = "asleep" /\ Return(c)
    /\ UNCHANGED <<disk, by, paths, mailbox, copies, http, ops, faults, history>>

-----------------------------------------------------------------------------
\* close_agent

\* Mutant: only the agent itself is closed.
MarkOne(c) ==
    LET s == calls[c].to
    IN  /\ calls[c].at = "close"
        /\ by' = [by EXCEPT ![s] = [closed |-> TRUE, live |-> NULL]]
        /\ calls' = [calls EXCEPT ![c].at = "closing",
                                  ![c].todo = {by[s].live} \ {NULL}]
        /\ raced' = raced
        /\ UNCHANGED <<disk, paths, mailbox, copies, http, ops, faults, overlap,
                       opened, late>>

\* Every registered agent below the target is marked closed and gives up its live copy;
\* one that is being spawned is not registered.
MarkSubtree(c) ==
    LET prefix == disk[calls[c].to].path
        gone == {s \in DOMAIN by : Below(disk[s].path, prefix)}
    IN  /\ calls[c].at = "close"
        /\ by' = [s \in DOMAIN by |-> IF s \in gone THEN [closed |-> TRUE, live |-> NULL] ELSE by[s]]
        /\ calls' = [calls EXCEPT ![c].at = "closing",
                                  ![c].todo = {by[s].live : s \in gone} \ {NULL}]
        /\ raced' = raced \cup SpawnedBelow(prefix)
        /\ UNCHANGED <<disk, paths, mailbox, copies, http, ops, faults, overlap,
                       opened, late>>

\* close_for_multi_agent, one copy after the other.  The meta is checkpointed, which may
\* fail, ...
CloseMeta(c, i) ==
    /\ calls[c].at = "closing" /\ i \in calls[c].todo
    /\ copies' = [copies EXCEPT ![i].closed = TRUE]
    /\ disk' \in {disk, [disk EXCEPT ![copies[i].sess].closed = TRUE]}
    /\ calls' = [calls EXCEPT ![c].at = "stop", ![c].to = i]
    /\ UNCHANGED <<by, paths, mailbox, http, ops, faults, history>>

\* ... closing is stored, ...
CloseStop(c) ==
    /\ calls[c].at = "stop"
    /\ copies' = [copies EXCEPT ![calls[c].to].closing = TRUE]
    /\ Goto(c, "clear")
    /\ UNCHANGED <<disk, by, paths, mailbox, http, ops, faults, history>>

\* ... the queue is cleared ...
CloseClear(c) ==
    /\ calls[c].at = "clear"
    /\ copies' = [copies EXCEPT ![calls[c].to].queue = 0]
    /\ late' = late \ {calls[c].to}
    /\ Goto(c, "signal")
    /\ UNCHANGED <<disk, by, paths, mailbox, http, ops, faults, overlap, raced, opened>>

\* ... and the run that active_cancel belongs to is cancelled: one that was popped before
\* the queue was cleared and has not stored its own is missed.
CloseSignal(c) ==
    LET i == calls[c].to
    IN  /\ calls[c].at = "signal"
        /\ copies' = [copies EXCEPT ![i].run = IF @ = "running" THEN "cancelled" ELSE @]
        /\ late' = IF copies[i].run = "popped" THEN late \cup {i} ELSE late
        /\ calls' = [calls EXCEPT ![c].at = "closing", ![c].todo = @ \ {i}]
        /\ UNCHANGED <<disk, by, paths, mailbox, http, ops, faults, overlap, raced, opened>>

CloseDone(c) ==
    /\ calls[c].at = "closing" /\ calls[c].todo = {} /\ Return(c)
    /\ UNCHANGED <<disk, by, paths, mailbox, copies, http, ops, faults, history>>

-----------------------------------------------------------------------------
\* HTTP and restart

\* ensure_live of a session of the tree: ServerState::sessions knows only what was
\* resumed over HTTP.  from_state registers the new copy, which may be closed by its file
\* while the agents below it are open: only close_agent closes a subtree.
ResumeOverHttp(s) ==
    /\ faults < MaxFaults /\ disk[s] # NULL /\ disk[s].path # NULL
    /\ http[s] # NULL => copies[http[s]].closing
    /\ faults' = faults + 1
    /\ copies' = Append(copies, [NewCopy(s, disk[s].closed) EXCEPT
                                    !.run = IF s = Root THEN "running" ELSE "none"])
    /\ http' = [http EXCEPT ![s] = Len(copies) + 1]
    /\ Register(s, Len(copies) + 1, disk[s].closed)
    /\ opened' = opened \cup {s}
    /\ raced' = IF disk[s].closed
                THEN raced \cup SpawnedBelow(disk[s].path) \cup OpenBelow(disk[s].path) ELSE raced
    /\ UNCHANGED <<disk, mailbox, calls, ops, overlap, late>>

\* The process ends and starts again with nothing but the files.
Restart ==
    /\ faults < MaxFaults /\ faults' = faults + 1
    /\ by' = << >> /\ paths' = << >> /\ mailbox' = [s \in Session |-> {}]
    /\ copies' = << >> /\ http' = [s \in Session |-> NULL]
    /\ calls' = [c \in Calls |-> Idle]
    /\ opened' = Session    \* from here on every copy comes from the files
    /\ late' = {}
    /\ UNCHANGED <<disk, ops, overlap, raced>>

-----------------------------------------------------------------------------
Op == {"spawn", "send", "followup", "wait", "close"}

CallStep(c) ==
    \/ Drop(c)
    \/ \E name \in Names : ReserveSpawn(c, name)
    \/ SpawnFails(c) \/ CreateChild(c) \/ IdentifyChild(c) \/ RegisterChild(c) \/ EnqueueChild(c)
    \/ \E s \in {t \in Session : disk[t] # NULL} : ResolveTarget(c, s)
    \/ QueueMessage(c) \/ FollowupTask(c) \/ PushRun(c)
    \/ Subscribe(c) \/ DrainMailbox(c) \/ Wake(c) \/ WaitTimeout(c)
    \/ MarkSubtree(c) \/ (\E i \in calls[c].todo : CloseMeta(c, i))
    \/ CloseStop(c) \/ CloseClear(c) \/ CloseSignal(c) \/ CloseDone(c)

Next == \/ \E c \in Calls, op \in Op, me \in Session : Begin(c, op, me)
        \/ \E c \in Calls : CallStep(c)
        \/ \E i \in DOMAIN copies : RunPops(i) \/ RunStarts(i) \/ RunEnds(i)
                                    \/ ContinueGoal(i) \/ RunAborts(i)
        \/ \E s \in Session : ResumeOverHttp(s)
        \/ Restart

Spec == Init /\ [][Next]_vars

-----------------------------------------------------------------------------
(***************************************************************************)
(* Properties                                                              *)
(***************************************************************************)

\* The agents of the tree stay within the limit of reserve_spawn, and exceed it only by
\* the spawns that were in progress at once; agents resumed from disk are not counted.
LimitHeld ==
    Cardinality(Active \ opened) <= MaxAgents + (IF overlap = 0 THEN 0 ELSE overlap - 1)

SubtreeClosed ==
    \A s \in Session :
        Open(s) /\ ClosedAbove(disk[s].path) => disk[s].path \in raced \/ s \in opened

ClosedCopiesRest ==
    \A i \in DOMAIN copies :
        LET s == copies[i].sess
        IN  s \in DOMAIN by /\ by[s].closed /\ (\A c \in Calls : i \notin calls[c].todo)
            => \/ s \in opened \/ i \in late
               \/ /\ copies[i].closing /\ copies[i].queue = 0
                  /\ copies[i].run \notin {"popped", "running"}

\* close_agent closes the whole subtree: an open agent with a closed ancestor was being
\* spawned at the time, or the ancestor was resumed over HTTP with the mark of an earlier
\* close, or a restart cut the close short; and once the close is done the
\* copies of a closed agent have nothing queued and no run that was not cancelled, unless
\* the agent was resumed over HTTP, or an enqueue (of a first run, a follow-up task, a goal's
\* continuation) had passed the check of closing before and pushed after the queue was
\* cleared, or the worker had popped a run and not yet stored its cancel signal.
CloseComplete == SubtreeClosed /\ ClosedCopiesRest

\* wait_agent does not sleep over something in the mailbox: either there is nothing for
\* the waiting agent or the wait has been notified.
NoLostWakeup ==
    \A c \in Calls : calls[c].at = "asleep" => mailbox[calls[c].me] = {} \/ calls[c].changed
=============================================================================
