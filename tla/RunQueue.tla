------------------------------ MODULE RunQueue ------------------------------
(***************************************************************************)
(* The run queue of one LiveSession and the worker task that drains it     *)
(* (crates/kiliax-server/src/state/live_session.rs).                       *)
(*                                                                         *)
(* Three tasks share the session:                                          *)
(*   worker  worker_loop and run_one                                       *)
(*   api     the HTTP requests that ServerState serialises with the        *)
(*           session's lifecycle lock: create a run, cancel a run, and the *)
(*           shutdown of an eviction or a deletion                         *)
(*   side    what does not take that lock: goal requests and the           *)
(*           multi-agent tools of other sessions                           *)
(* Each lock the code takes and releases is a step of its own, so that     *)
(* the other tasks run in between.  What a run does to the transcript is   *)
(* SessionStore's subject; here a run starts, streams and ends.            *)
(***************************************************************************)
EXTENDS Naturals, Sequences, SequencesExt

CONSTANTS Environments,   \* what may go on around the worker: a set of
                          \* [requests : SUBSET RequestKind, faults : SUBSET Fault]
          MaxRuns,        \* bound on the runs created
          NULL            \* Option::None

RequestKind == {"text", "history", "cancel", "evict", "delete",
                "goal_set", "goal_clear", "agent_text", "agent_close"}

(***************************************************************************)
(* early   run_one returns with `?` before it sets the status back to Idle *)
(*         (an override, agent or model that is no longer supported, a     *)
(*         message or event of the run that cannot be written)             *)
(* iofail  a run file, or the event that follows it, cannot be written     *)
(***************************************************************************)
Fault == {"early", "iofail"}

ASSUME RunsAssumption == MaxRuns \in Nat /\ NULL \notin 0..MaxRuns
ASSUME NullAssumption == NULL \notin {"queued", "running", "done", "error", "cancelled"}
ASSUME EnvironmentsAssumption ==
    Environments \subseteq [requests : SUBSET RequestKind, faults : SUBSET Fault]

Run == 1..MaxRuns
Input == {"text", "history", "goal"}
Ended == {"done", "error", "cancelled"}
RunState == {"queued", "running"} \cup Ended

VARIABLES
    queue,          \* LiveSession::queue
    queue_len,      \* SessionStatus::queue_len
    run_state,      \* SessionStatus::run_state
    active,         \* SessionStatus::active_run_id
    active_cancel,  \* the run whose cancel_tx is in LiveSession::active_cancel
    signalled,      \* the cancel channel of the worker's run holds true
    closing,        \* LiveSession::closing
    permit,         \* the permit stored in LiveSession::notify
    goal,           \* the status of SessionMeta::goal, NULL without a goal
    file,           \* the state in each run's file, NULL if there is none
    input,          \* each run's input
    wpc,            \* where the worker is
    cur,            \* the run the worker has taken
    outcome,        \* how its stream ended
    req,            \* where the api and side tasks are
    env,            \* the requests and faults of this behaviour
    abandoned       \* ghost: runs dropped unfinished by clear_goal, by
                    \* close_for_multi_agent or by an early return or failed write

status == <<queue_len, run_state, active>>
shared == <<queue, status, active_cancel, signalled, closing, permit, goal>>
files  == <<file, input, abandoned>>
worker == <<wpc, cur, outcome>>
vars   == <<shared, files, worker, req, env>>

Task == {"api", "side"}

WorkerAt == {"top", "closing", "pop", "empty", "waiting", "arm", "activate",
             "started", "input", "stream", "idle", "disarm", "finish",
             "continue", "continue_push", "exited", "aborted"}

RequestAt == {"idle", "evict", "mutable", "edit", "write", "push", "notify",
              "cancel", "cancel_active", "cancel_send",
              "next", "stop_active", "stop_notify", "stop_wait", "gone",
              "goal_clear", "close_queue", "close_len", "close_send", "close_notify"}

\* kind: the input of the run being created, or why the session is shut down;
\* run: the run created or to be cancelled; list: the queued runs a shutdown
\* still has to cancel; then: where cancel_run returns to.
Request == [at : RequestAt, kind : Input \cup {"evict", "delete"}, run : Run \cup {NULL},
            list : Seq(Run), then : {"idle", "next", "stop_active", "stop_notify"}]

NoRequest == [at |-> "idle", kind |-> "text", run |-> NULL, list |-> <<>>,
              then |-> "idle"]

Init ==
    /\ queue = <<>> /\ queue_len = 0 /\ run_state = "idle" /\ active = NULL
    /\ active_cancel = NULL /\ signalled = FALSE /\ closing = FALSE /\ permit = FALSE
    /\ goal = NULL
    /\ file = [r \in Run |-> NULL] /\ input = [r \in Run |-> NULL]
    /\ wpc = "top" /\ cur = NULL /\ outcome = NULL
    /\ req = [t \in Task |-> NoRequest]
    /\ env \in Environments /\ abandoned = {}

-----------------------------------------------------------------------------
\* new_run_id: an id that no run has.
Unused == {r \in Run : file[r] = NULL}
FreshRun == CHOOSE r \in Unused : \A s \in Unused : r <= s

\* write_run_file for a new run
WriteNewRun(in) ==
    /\ file' = [file EXCEPT ![FreshRun] = "queued"]
    /\ input' = [input EXCEPT ![FreshRun] = in]
    /\ UNCHANGED abandoned

\* VecDeque::retain: the sequence without the runs of a set.
Without(s, runs) ==
    LET kept[i \in 0..Len(s)] ==
            IF i = 0 THEN <<>>
            ELSE IF s[i] \in runs THEN kept[i - 1] ELSE Append(kept[i - 1], s[i])
    IN  kept[Len(s)]

Abandon(runs) == abandoned' = abandoned \cup runs

\* Mutant: a notification that nobody waits for is lost.
NotifyOneNoPermit ==
    /\ wpc' = IF wpc = "waiting" THEN "top" ELSE wpc
    /\ UNCHANGED permit

\* Notify::notify_one wakes the waiting worker or leaves a permit.
NotifyOne ==
    IF wpc = "waiting" THEN wpc' = "top" /\ UNCHANGED permit
                       ELSE permit' = TRUE /\ UNCHANGED wpc

\* Notify::notify_waiters wakes a waiting worker and leaves nothing.
NotifyWaiters ==
    /\ wpc' = IF wpc = "waiting" THEN "top" ELSE wpc
    /\ UNCHANGED permit

\* tx.send(true) on what active_cancel holds; it reaches the run that listens.
SendCancel == signalled' = (signalled \/ (cur # NULL /\ active_cancel = cur))

Goto(t, at) == req' = [req EXCEPT ![t].at = at]

Return(t) == req' = [req EXCEPT ![t] = NoRequest]

\* cancel_run returns to the request handler or to shutdown.
EndCancel == IF req["api"].then = "idle" THEN Return("api")
                                         ELSE Goto("api", req["api"].then)

-----------------------------------------------------------------------------
\* enqueue_run

\* create_run (api) or a message with a turn from another agent (side).  The
\* check of closing comes first.
BeginEnqueue(t, in) ==
    /\ req[t].at = "idle" /\ ~closing /\ Unused # {}
    /\ req' = [req EXCEPT ![t] = [NoRequest EXCEPT
                  !.at = IF in = "history" THEN "mutable" ELSE "write", !.kind = in]]
    /\ UNCHANGED <<shared, files, worker>>

\* ensure_history_mutable, for an edit or a regenerate request
EnsureHistoryMutable(t) ==
    /\ req[t].at = "mutable"
    /\ IF queue = <<>> /\ queue_len = 0 /\ run_state = "idle"
       THEN Goto(t, "edit") ELSE Return(t)
    /\ UNCHANGED <<shared, files, worker>>

\* apply_edit_user_message / apply_regenerate_after_user_message from the point
\* where they lock the session: the transcript is truncated.
TruncateHistory(t) ==
    /\ req[t].at = "edit"
    /\ Goto(t, "write")
    /\ UNCHANGED <<shared, files, worker>>

WriteQueuedRun(t) ==
    /\ req[t].at = "write"
    /\ IF Unused = {} THEN Return(t) /\ UNCHANGED files
       ELSE \/ /\ WriteNewRun(req[t].kind)
               /\ req' = [req EXCEPT ![t].at = "push", ![t].run = FreshRun]
            \/ "iofail" \in env.faults /\ Return(t) /\ UNCHANGED files
    /\ UNCHANGED <<shared, worker>>

PushRun(t) ==
    /\ req[t].at = "push"
    /\ queue' = Append(queue, req[t].run)
    /\ queue_len' = Len(queue')
    /\ Goto(t, "notify")
    /\ UNCHANGED <<run_state, active, active_cancel, signalled, closing, permit, goal,
                   files, worker>>

NotifyWorker(t) ==
    /\ req[t].at = "notify"
    /\ NotifyOne
    /\ Return(t)
    /\ UNCHANGED <<queue, status, active_cancel, signalled, closing, goal,
                   files, cur, outcome>>

-----------------------------------------------------------------------------
\* cancel_run

BeginCancel(r) ==
    /\ req["api"].at = "idle" /\ file[r] # NULL
    /\ req' = [req EXCEPT !["api"] = [NoRequest EXCEPT !.at = "cancel", !.run = r]]
    /\ UNCHANGED <<shared, files, worker>>

\* Mutant: the run file of the cancelled run is not written.
CancelQueuedNoFile ==
    /\ req["api"].at = "cancel" /\ req["api"].run \in ToSet(queue)
    /\ queue' = Without(queue, {req["api"].run})
    /\ queue_len' = Len(queue')
    /\ EndCancel
    /\ UNCHANGED <<run_state, active, active_cancel, signalled, closing, permit, goal,
                   files, worker>>

\* The run is in the queue: it is removed and its file written under the queue's
\* lock.  When the write fails the run is already out of the queue.
CancelQueued ==
    /\ req["api"].at = "cancel" /\ req["api"].run \in ToSet(queue)
    /\ queue' = Without(queue, {req["api"].run})
    /\ \/ /\ file' = [file EXCEPT ![req["api"].run] = "cancelled"]
          /\ queue_len' = Len(queue') /\ UNCHANGED abandoned
       \/ /\ "iofail" \in env.faults /\ Abandon({req["api"].run})
          /\ UNCHANGED <<file, queue_len>>
    /\ EndCancel
    /\ UNCHANGED <<run_state, active, active_cancel, signalled, closing, permit, goal,
                   input, worker>>

CancelNotQueued ==
    /\ req["api"].at = "cancel" /\ req["api"].run \notin ToSet(queue)
    /\ Goto("api", "cancel_active")
    /\ UNCHANGED <<shared, files, worker>>

\* Only the active run can be cancelled ...
CancelCheckActive ==
    /\ req["api"].at = "cancel_active"
    /\ IF active = req["api"].run THEN Goto("api", "cancel_send") ELSE EndCancel
    /\ UNCHANGED <<shared, files, worker>>

\* ... through the channel that is in active_cancel when its lock is taken.
CancelSend ==
    /\ req["api"].at = "cancel_send"
    /\ SendCancel
    /\ EndCancel
    /\ UNCHANGED <<queue, status, active_cancel, closing, permit, goal,
                   files, worker>>

-----------------------------------------------------------------------------
\* shutdown, for an eviction (the session looked idle) or a deletion

IsIdleForEviction == queue = <<>> /\ run_state = "idle"

\* enforce_live_session_limits: the session is checked, taken out of the map and
\* shut down.
BeginEviction ==
    /\ req["api"].at = "idle" /\ IsIdleForEviction
    /\ req' = [req EXCEPT !["api"].at = "evict", !["api"].kind = "evict"]
    /\ UNCHANGED <<shared, files, worker>>

BeginDelete ==
    /\ req["api"].at = "idle"
    /\ req' = [req EXCEPT !["api"].at = "evict", !["api"].kind = "delete"]
    /\ UNCHANGED <<shared, files, worker>>

BeginShutdown ==
    /\ req["api"].at = "evict"
    /\ closing' = TRUE
    /\ Goto("api", "next")
    /\ UNCHANGED <<queue, status, active_cancel, signalled, permit, goal,
                   files, worker>>

\* The queued runs of the moment, one cancel_run each.
ShutdownList ==
    /\ req["api"].at = "next" /\ req["api"].list = <<>>
    /\ req' = [req EXCEPT !["api"].list = queue,
                          !["api"].at = IF queue = <<>> THEN "stop_active" ELSE "next"]
    /\ UNCHANGED <<shared, files, worker>>

ShutdownNext ==
    /\ req["api"].at = "next" /\ req["api"].list # <<>>
    /\ LET rest == Tail(req["api"].list)
       IN  req' = [req EXCEPT !["api"] =
                     [@ EXCEPT !.at = "cancel", !.run = Head(req["api"].list),
                               !.list = rest,
                               !.then = IF rest = <<>> THEN "stop_active" ELSE "next"]]
    /\ UNCHANGED <<shared, files, worker>>

\* Then the active run, if there is one.
ShutdownActive ==
    /\ req["api"].at = "stop_active"
    /\ IF active = NULL
       THEN Goto("api", "stop_notify")
       ELSE req' = [req EXCEPT !["api"] = [@ EXCEPT !.at = "cancel", !.run = active,
                                                    !.then = "stop_notify"]]
    /\ UNCHANGED <<shared, files, worker>>

ShutdownNotify ==
    /\ req["api"].at = "stop_notify"
    /\ NotifyOne
    /\ Goto("api", "stop_wait")
    /\ UNCHANGED <<queue, status, active_cancel, signalled, closing, goal,
                   files, cur, outcome>>

\* The worker ended; nobody reaches this LiveSession through the map any more.
ShutdownJoin ==
    /\ req["api"].at = "stop_wait" /\ wpc = "exited"
    /\ Goto("api", "gone")
    /\ UNCHANGED <<shared, files, worker>>

\* Five seconds passed.
ShutdownAbort ==
    /\ req["api"].at = "stop_wait" /\ wpc \notin {"exited", "aborted"}
    /\ wpc' = "aborted"
    /\ Goto("api", "gone")
    /\ UNCHANGED <<shared, files, cur, outcome>>

-----------------------------------------------------------------------------
\* Goal requests and close_for_multi_agent, without the lifecycle lock

SetGoal ==
    /\ req["side"].at = "idle"
    /\ goal' = "active"
    /\ UNCHANGED <<queue, status, active_cancel, signalled, closing, permit,
                   files, worker, req>>

\* clear_goal drops queued continuations, then clears the goal.
ClearGoalQueue ==
    /\ req["side"].at = "idle"
    /\ queue' = Without(queue, {r \in Run : input[r] = "goal"})
    /\ queue_len' = Len(queue')
    /\ Abandon(ToSet(queue) \ ToSet(queue'))
    /\ Goto("side", "goal_clear")
    /\ UNCHANGED <<run_state, active, active_cancel, signalled, closing, permit, goal,
                   file, input, worker>>

ClearGoal ==
    /\ req["side"].at = "goal_clear"
    /\ goal' = NULL
    /\ Return("side")
    /\ UNCHANGED <<queue, status, active_cancel, signalled, closing, permit,
                   files, worker>>

CloseAgent ==
    /\ req["side"].at = "idle" /\ ~closing
    /\ closing' = TRUE
    /\ Goto("side", "close_queue")
    /\ UNCHANGED <<queue, status, active_cancel, signalled, permit, goal,
                   files, worker>>

CloseClearQueue ==
    /\ req["side"].at = "close_queue"
    /\ queue' = <<>>
    /\ Abandon(ToSet(queue))
    /\ Goto("side", "close_len")
    /\ UNCHANGED <<status, active_cancel, signalled, closing, permit, goal,
                   file, input, worker>>

CloseQueueLen ==
    /\ req["side"].at = "close_len"
    /\ queue_len' = 0
    /\ Goto("side", "close_send")
    /\ UNCHANGED <<queue, run_state, active, active_cancel, signalled, closing, permit,
                   goal, files, worker>>

CloseSend ==
    /\ req["side"].at = "close_send"
    /\ SendCancel
    /\ Goto("side", "close_notify")
    /\ UNCHANGED <<queue, status, active_cancel, closing, permit, goal, files, worker>>

CloseNotify ==
    /\ req["side"].at = "close_notify"
    /\ NotifyWaiters
    /\ Return("side")
    /\ UNCHANGED <<queue, status, active_cancel, signalled, closing, goal,
                   files, cur, outcome>>

-----------------------------------------------------------------------------
\* worker_loop

To(at) == wpc' = at

\* A closing session: the worker leaves when the queue is empty and, under the
\* next lock, no run is active.
WorkerTop ==
    /\ wpc = "top"
    /\ To(IF closing /\ queue = <<>> THEN "closing" ELSE "pop")
    /\ UNCHANGED <<shared, files, cur, outcome, req>>

WorkerLeaves ==
    /\ wpc = "closing"
    /\ To(IF run_state = "idle" THEN "exited" ELSE "pop")
    /\ UNCHANGED <<shared, files, cur, outcome, req>>

WorkerPop ==
    /\ wpc = "pop"
    /\ IF queue = <<>>
       THEN To("empty") /\ UNCHANGED <<queue, cur>>
       ELSE To("arm") /\ queue' = Tail(queue) /\ cur' = Head(queue)
    /\ queue_len' = Len(queue')
    /\ UNCHANGED <<run_state, active, active_cancel, signalled, closing, permit, goal,
                   files, outcome, req>>

\* notified().await
WorkerWait ==
    /\ wpc = "empty"
    /\ permit' = FALSE
    /\ To(IF permit THEN "top" ELSE "waiting")
    /\ UNCHANGED <<queue, status, active_cancel, signalled, closing, goal,
                   files, cur, outcome, req>>

-----------------------------------------------------------------------------
\* run_one

\* A new cancel channel is installed, then the status says Running.
RunArm ==
    /\ wpc = "arm"
    /\ active_cancel' = cur /\ signalled' = FALSE
    /\ To("activate")
    /\ UNCHANGED <<queue, status, closing, permit, goal,
                   files, cur, outcome, req>>

RunActivate ==
    /\ wpc = "activate"
    /\ run_state' = "running" /\ active' = cur
    /\ To("started")
    /\ UNCHANGED <<queue, queue_len, active_cancel, signalled, closing, permit, goal,
                   files, cur, outcome, req>>

\* run_one returns early: the status stays as it is.
RunReturns == wpc' = "top" /\ cur' = NULL /\ outcome' = NULL
RunReturnsEarly == RunReturns /\ Abandon({cur})

RunWriteStarted ==
    /\ wpc = "started"
    /\ \/ /\ file' = [file EXCEPT ![cur] = "running"]
          /\ To("input") /\ UNCHANGED <<cur, outcome, abandoned>>
       \/ "iofail" \in env.faults /\ RunReturnsEarly /\ UNCHANGED file
    /\ UNCHANGED <<shared, input, req>>

\* The input, the settings, the user message.  A continuation without an active
\* goal returns Ok at once.
RunPrepare ==
    /\ wpc = "input"
    /\ \/ input[cur] = "goal" /\ goal # "active" /\ RunReturnsEarly
       \/ (input[cur] = "goal" => goal = "active") /\ To("stream")
          /\ UNCHANGED <<cur, outcome, abandoned>>
       \/ "early" \in env.faults /\ RunReturnsEarly
    /\ UNCHANGED <<shared, file, input, req>>

\* The agent calls complete_goal.
RunCompletesGoal ==
    /\ wpc = "stream" /\ goal = "active"
    /\ goal' = "complete"
    /\ UNCHANGED <<queue, status, active_cancel, signalled, closing, permit,
                   files, worker, req>>

\* The select loop: the stream ends, fails, or the cancel channel fires.
RunStream ==
    /\ wpc = "stream"
    /\ \/ /\ \/ outcome' \in {"done", "error"}
             \/ signalled /\ outcome' = "cancelled"
          /\ To("idle") /\ UNCHANGED <<cur, abandoned>>
       \/ "early" \in env.faults /\ RunReturnsEarly
    /\ UNCHANGED <<shared, file, input, req>>

\* Mutant: active_run_id is not reset.
RunIdleKeepsActive ==
    /\ wpc = "idle"
    /\ run_state' = "idle"
    /\ To("disarm")
    /\ UNCHANGED <<queue, queue_len, active, active_cancel, signalled, closing, permit, goal,
                   files, cur, outcome, req>>

RunIdle ==
    /\ wpc = "idle"
    /\ run_state' = "idle" /\ active' = NULL
    /\ To("disarm")
    /\ UNCHANGED <<queue, queue_len, active_cancel, signalled, closing, permit, goal,
                   files, cur, outcome, req>>

RunDisarm ==
    /\ wpc = "disarm"
    /\ active_cancel' = NULL
    /\ To("finish")
    /\ UNCHANGED <<queue, status, signalled, closing, permit, goal,
                   files, cur, outcome, req>>

\* record_finish / record_error and the last write of the run file.  Whether a
\* goal goes on is decided here; the run's last event comes first.
RunFinish ==
    /\ wpc = "finish"
    /\ \/ /\ file' = [file EXCEPT ![cur] = outcome] /\ UNCHANGED abandoned
          /\ \/ outcome = "done" /\ goal = "active" /\ To("continue")
                /\ UNCHANGED <<cur, outcome>>
             \/ ~(outcome = "done" /\ goal = "active") /\ RunReturns
             \/ "iofail" \in env.faults /\ RunReturns
       \/ "iofail" \in env.faults /\ RunReturnsEarly /\ UNCHANGED file
    /\ UNCHANGED <<shared, input, req>>

\* enqueue_goal_continuation.  (At the bound on runs the goal is not continued.)
GoalRunQueued == \E r \in ToSet(queue) : input[r] = "goal"

\* Mutant: the finished run itself is queued again.
ContinueGoalSameRun ==
    /\ wpc = "continue"
    /\ IF closing \/ goal # "active" \/ GoalRunQueued
       THEN RunReturns /\ UNCHANGED files
       ELSE /\ file' = [file EXCEPT ![cur] = "queued"]
            /\ To("continue_push") /\ UNCHANGED <<cur, outcome, input, abandoned>>
    /\ UNCHANGED <<shared, req>>

ContinueGoal ==
    /\ wpc = "continue"
    /\ IF closing \/ goal # "active" \/ GoalRunQueued \/ Unused = {}
       THEN RunReturns /\ UNCHANGED files
       ELSE \/ /\ WriteNewRun("goal") /\ cur' = FreshRun
               /\ To("continue_push") /\ UNCHANGED outcome
            \/ "iofail" \in env.faults /\ RunReturns /\ UNCHANGED files
    /\ UNCHANGED <<shared, req>>

PushGoalRun ==
    /\ wpc = "continue_push"
    /\ IF GoalRunQueued THEN UNCHANGED <<queue, queue_len, permit>>
       ELSE queue' = Append(queue, cur) /\ queue_len' = Len(queue') /\ permit' = TRUE
    /\ RunReturns
    /\ UNCHANGED <<run_state, active, active_cancel, signalled, closing, goal,
                   files, req>>

-----------------------------------------------------------------------------
WorkerStep ==
    \/ WorkerTop \/ WorkerLeaves \/ WorkerPop \/ WorkerWait
    \/ RunArm \/ RunActivate \/ RunWriteStarted \/ RunPrepare \/ RunStream
    \/ RunIdle \/ RunDisarm \/ RunFinish \/ ContinueGoal \/ PushGoalRun

\* A request, once begun, is carried through.
RequestStep(t) ==
    \/ EnsureHistoryMutable(t) \/ TruncateHistory(t)
    \/ WriteQueuedRun(t) \/ PushRun(t) \/ NotifyWorker(t)

ApiStep ==
    \/ RequestStep("api")
    \/ CancelQueued \/ CancelNotQueued \/ CancelCheckActive \/ CancelSend
    \/ BeginShutdown \/ ShutdownList \/ ShutdownNext \/ ShutdownActive
    \/ ShutdownNotify \/ ShutdownJoin

SideStep ==
    \/ RequestStep("side") \/ ClearGoal
    \/ CloseClearQueue \/ CloseQueueLen \/ CloseSend \/ CloseNotify

NewRequest ==
    \/ \E in \in {"text", "history"} \cap env.requests : BeginEnqueue("api", in)
    \/ "agent_text" \in env.requests /\ BeginEnqueue("side", "text")
    \/ "cancel" \in env.requests /\ \E r \in Run : BeginCancel(r)
    \/ "evict" \in env.requests /\ BeginEviction
    \/ "delete" \in env.requests /\ BeginDelete
    \/ "goal_set" \in env.requests /\ SetGoal
    \/ "goal_clear" \in env.requests /\ ClearGoalQueue
    \/ "agent_close" \in env.requests /\ CloseAgent

Next ==
    /\ WorkerStep \/ ApiStep \/ SideStep \/ NewRequest \/ RunCompletesGoal \/ ShutdownAbort
    /\ UNCHANGED env

\* tokio runs every task that can run; a stream ends (run_stream bounds its
\* steps, and each step is bounded by the provider's timeouts and retries).
Fairness ==
    /\ WF_vars(WorkerStep /\ UNCHANGED env)
    /\ WF_vars(ApiStep /\ UNCHANGED env)
    /\ WF_vars(SideStep /\ UNCHANGED env)

Spec == Init /\ [][Next]_vars /\ Fairness
-----------------------------------------------------------------------------
(***************************************************************************)
(* Properties                                                              *)
(***************************************************************************)

\* Types of all variables.
TypeOK ==
    /\ queue \in Seq(Run) /\ queue_len \in 0..MaxRuns
    /\ run_state \in {"idle", "running"} /\ active \in Run \cup {NULL}
    /\ active_cancel \in Run \cup {NULL} /\ signalled \in BOOLEAN
    /\ closing \in BOOLEAN /\ permit \in BOOLEAN
    /\ goal \in {"active", "complete", NULL}
    /\ file \in [Run -> RunState \cup {NULL}]
    /\ input \in [Run -> Input \cup {NULL}]
    /\ wpc \in WorkerAt /\ cur \in Run \cup {NULL} /\ outcome \in Ended \cup {NULL}
    /\ req \in [Task -> Request]
    /\ env \in Environments /\ abandoned \subseteq Run

\* A run whose file says queued or running is still somewhere: about to be
\* pushed, in the queue (once), or with the worker.  Whatever cancels, evictions
\* and requests interleave, no run is forgotten half-way, except those the code
\* gives up where it cannot write or continue them.
Held(r) ==
    \/ \E t \in Task : req[t].at = "push" /\ req[t].run = r
    \/ r \in ToSet(queue)
    \/ cur = r

NoRunForgotten ==
    /\ IsInjective(queue)
    /\ \A r \in Run \ abandoned : file[r] \in {"queued", "running"} => Held(r)

\* A run that has ended stays as it ended, and only a run that was started ends
\* done or error.
EndIsFinal ==
    [][\A r \in Run :
          /\ file[r] \in Ended => file'[r] = file[r]
          /\ file'[r] \in {"done", "error"} /\ file[r] # file'[r] => file[r] = "running"
      ]_vars

\* What the status shows is what the worker does: a run shown active is the one
\* the worker holds, or one that returned early; and the queue length shown is
\* that of the queue, unless a cancel could not write its file or another agent
\* closes the session, which sets the length after it empties the queue.
StatusTruthful ==
    /\ active # NULL => run_state = "running" /\ (cur = active \/ active \in abandoned)
    /\ active = NULL => run_state = "idle"
    /\ "iofail" \notin env.faults /\ "agent_close" \notin env.requests
          => queue_len = Len(queue)

\* enqueue_run reads closing before it writes and pushes.  Another agent's message, or a
\* request that another agent's close overtakes, may be pushed after the worker left.
PushedLate == wpc = "exited" /\ env.requests \cap {"agent_text", "agent_close"} # {}

\* Every run that enqueue_run queued ends, unless a shutdown ran out of time, the code
\* gave the run up, or the worker had left: no notify_one is lost between the worker's
\* empty pop and its wait.
EveryRunEnds ==
    \A r \in Run :
        file[r] = "queued" ~> \/ file[r] \in Ended \/ r \in abandoned
                              \/ wpc = "aborted" \/ PushedLate

\* A session after shutdown whose worker ended by itself has no unfinished run: every
\* run was cancelled by the shutdown or finished by the worker.  Only another agent's
\* message, begun before the session was closing, may come too late for both.
ShutdownLeavesNoRun ==
    req["api"].at = "gone" /\ wpc = "exited" /\ "agent_text" \notin env.requests
        => \A r \in Run \ abandoned : file[r] \notin {"queued", "running"}

\* However many runs finish while a goal is active, enqueue_goal_continuation leaves
\* one continuation at most waiting.
OneContinuation ==
    \A i, j \in 1..Len(queue) :
        input[queue[i]] = "goal" /\ input[queue[j]] = "goal" => i = j
=============================================================================
