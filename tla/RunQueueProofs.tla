---------------------------- MODULE RunQueueProofs ----------------------------
(***************************************************************************)
(* Proofs about RunQueue, for any number of runs and any set of requests   *)
(* and faults: the types, that no run is forgotten, that a run that has    *)
(* ended stays so, that the status tells the truth, and that a shutdown    *)
(* leaves no run behind.                                                   *)
(***************************************************************************)
EXTENDS RunQueue, SequenceLemmas

(***************************************************************************)
(* Where a run may be: with a request about to push it, in the queue, or   *)
(* with the worker, and at one place only.  What its file says at each.    *)
(***************************************************************************)
Pushing(t) == req[t].at = "push"

QueuePlaces ==
    /\ Distinct(queue)
    /\ \A r \in ToSet(queue) : file[r] = "queued" /\ cur # r

PushPlaces ==
    /\ \A t \in Task : Pushing(t) =>
          /\ req[t].run \in Run /\ file[req[t].run] = "queued" /\ input[req[t].run] # "goal"
          /\ cur # req[t].run /\ req[t].run \notin ToSet(queue)
    /\ \A t, u \in Task : Pushing(t) /\ Pushing(u) /\ req[t].run = req[u].run => t = u
    /\ \A t \in Task : req[t].at \in {"mutable", "edit", "write"} => req[t].kind \in {"text", "history"}

WorkerPlaces ==
    /\ cur # NULL => file[cur] # NULL
    /\ wpc \in {"top", "closing", "pop", "empty", "waiting", "exited"} => cur = NULL
    /\ wpc \in {"arm", "activate", "started"} => cur # NULL /\ file[cur] = "queued"
    /\ wpc \in {"input", "stream", "idle", "disarm", "finish"} => cur # NULL /\ file[cur] = "running"
    /\ wpc \in {"idle", "disarm", "finish"} => outcome \in Ended
    /\ wpc = "continue" => cur # NULL /\ file[cur] \in Ended
    /\ wpc = "continue_push" => /\ cur # NULL /\ file[cur] = "queued" /\ input[cur] = "goal"
                                /\ ~GoalRunQueued

Unfinished == \A r \in Run \ abandoned : file[r] \in {"queued", "running"} => Held(r)

OneGoalRun == \A r, s \in ToSet(queue) : input[r] = "goal" /\ input[s] = "goal" => r = s

PlaceInv == TypeOK /\ QueuePlaces /\ PushPlaces /\ WorkerPlaces /\ Unfinished /\ OneGoalRun

(***************************************************************************)
(* The status.  From the moment run_one sets it to the moment it resets    *)
(* it, it shows the worker's run; an early return leaves it behind.        *)
(***************************************************************************)
StatusOfWorker ==
    /\ wpc \in {"started", "input", "stream", "idle"} => active = cur /\ cur # NULL
    /\ wpc \in {"disarm", "finish", "continue", "continue_push"} => active = NULL
    /\ wpc \in {"arm", "activate"} => active = NULL \/ active \in abandoned

CloserAt == {"close_queue", "close_len", "close_send", "close_notify"}

StatusInv ==
    /\ StatusOfWorker
    /\ StatusTruthful
    /\ \A t \in Task : req[t].at \in CloserAt => "agent_close" \in env.requests

-----------------------------------------------------------------------------
(***************************************************************************)
(* VecDeque::retain                                                        *)
(***************************************************************************)

\* One element of the sequence, kept or dropped.
Retain(kept, x, runs) == IF x \in runs THEN kept ELSE Append(kept, x)

\* The recursive function of Without exists: its last value is the result.
LEMMA WithoutDef ==
  ASSUME NEW s, NEW runs, Len(s) \in Nat
  PROVE  \E f : /\ f[0] = <<>>
                /\ \A i \in 1..Len(s) : f[i] = Retain(f[i - 1], s[i], runs)
                /\ Without(s, runs) = f[Len(s)]
<1> DEFINE Body(f, n) == [i \in 0..n |-> IF i = 0 THEN <<>>
                             ELSE IF s[i] \in runs THEN f[i - 1] ELSE Append(f[i - 1], s[i])]
           Run1(f, n) == f = Body(f, n)
           S == {n \in Nat : \E f : Run1(f, n)}
<1>1. 0 \in S
  <2> DEFINE f == [i \in 0..0 |-> <<>>]
  <2>1. Run1(f, 0)
    OBVIOUS
  <2> QED BY <2>1
<1>2. \A n \in 1..Len(s) : n - 1 \in S => n \in S
  <2> SUFFICES ASSUME NEW n \in 1..Len(s), n - 1 \in S PROVE n \in S
    OBVIOUS
  <2>1. PICK f : Run1(f, n - 1)
    OBVIOUS
  <2> DEFINE g == [i \in 0..n |-> IF i = n THEN Retain(f[n - 1], s[n], runs) ELSE f[i]]
  <2>2. \A i \in 0..n : g[i] = Body(g, n)[i]
    <3> SUFFICES ASSUME NEW i \in 0..n PROVE g[i] = Body(g, n)[i]
      OBVIOUS
    <3>1. CASE i = n
      <4>1. g[i - 1] = f[n - 1] /\ i # 0
        BY <3>1
      <4> QED BY <3>1, <4>1 DEF Retain
    <3>2. CASE i # n
      <4>1. i \in 0..(n - 1) /\ g[i] = f[i]
        BY <3>2
      <4>2. f[i] = Body(f, n - 1)[i]
        BY <2>1, <4>1
      <4>3. i # 0 => g[i - 1] = f[i - 1]
        BY <4>1
      <4> QED BY <4>1, <4>2, <4>3
    <3> QED BY <3>1, <3>2
  <2>3. Run1(g, n)
    BY <2>2
  <2> HIDE DEF Run1
  <2> QED BY <2>3
<1>3. Len(s) \in S
  <2> HIDE DEF S
  <2>1. \A i \in 0..Len(s) : i \in S
    BY <1>1, <1>2, BoundedInduction
  <2> QED BY <2>1
<1>4. \E f : Run1(f, Len(s))
  BY <1>3
<1> DEFINE h == CHOOSE f : Run1(f, Len(s))
<1>5. Run1(h, Len(s))
  BY <1>4
<1>6. Without(s, runs) = h[Len(s)]
  BY DEF Without
<1>7. h = Body(h, Len(s))
  BY <1>5
<1> HIDE DEF h
<1>8. h[0] = <<>>
  <2>1. 0 \in 0..Len(s)
    OBVIOUS
  <2> QED BY <1>7, <2>1
<1>9. ASSUME NEW i \in 1..Len(s) PROVE h[i] = Retain(h[i - 1], s[i], runs)
  <2>1. i \in 0..Len(s) /\ i # 0
    OBVIOUS
  <2> QED BY <1>7, <2>1 DEF Retain
<1> QED BY <1>6, <1>8, <1>9

\* retain leaves exactly the other elements, and no duplicates.
LEMMA WithoutProperties ==
  ASSUME NEW S, NEW s \in Seq(S), NEW runs, Distinct(s)
  PROVE  /\ Without(s, runs) \in Seq(S) /\ Distinct(Without(s, runs))
         /\ ToSet(Without(s, runs)) = ToSet(s) \ runs
<1>1. Len(s) \in Nat /\ DOMAIN s = 1..Len(s) /\ \A i \in 1..Len(s) : s[i] \in S
  OBVIOUS
<1>2. PICK f : /\ f[0] = <<>>
               /\ \A i \in 1..Len(s) : f[i] = Retain(f[i - 1], s[i], runs)
               /\ Without(s, runs) = f[Len(s)]
  BY <1>1, WithoutDef
<1> DEFINE Before(i) == {s[j] : j \in 1..i}
           Good(i) == f[i] \in Seq(S) /\ Distinct(f[i]) /\ ToSet(f[i]) = Before(i) \ runs
           T == {i \in Nat : Good(i)}
<1>3. 0 \in T
  <2>1. f[0] \in Seq(S) /\ Len(f[0]) = 0 /\ DOMAIN f[0] = {}
    BY <1>2
  <2>2. ToSet(f[0]) = {} /\ Before(0) = {}
    BY <2>1 DEF ToSet
  <2> QED BY <2>1, <2>2 DEF Distinct
<1>4. \A i \in 1..Len(s) : i - 1 \in T => i \in T
  <2> SUFFICES ASSUME NEW i \in 1..Len(s), Good(i - 1) PROVE Good(i)
    <3> HIDE DEF Good
    <3> QED BY <1>1
  <2>1. Before(i) = Before(i - 1) \cup {s[i]}
    <3>1. \A j \in 1..i : j = i \/ j \in 1..i - 1
      OBVIOUS
    <3> QED BY <3>1
  <2>2. s[i] \notin Before(i - 1)
    <3>1. \A j \in 1..i - 1 : j \in 1..Len(s) /\ j # i
      BY <1>1
    <3> QED BY <3>1 DEF Distinct
  <2>3. CASE s[i] \in runs
    BY <1>2, <2>1, <2>3 DEF Retain
  <2>4. CASE s[i] \notin runs
    <3>1. f[i] = Append(f[i - 1], s[i]) /\ s[i] \in S
      BY <1>1, <1>2, <2>4 DEF Retain
    <3>2. s[i] \notin ToSet(f[i - 1])
      BY <2>2
    <3>3. f[i] \in Seq(S) /\ ToSet(f[i]) = ToSet(f[i - 1]) \cup {s[i]}
      BY <3>1, ToSetAppend
    <3>4. Distinct(f[i])
      BY <3>1, <3>2, DistinctAppend
    <3> QED BY <2>1, <2>4, <3>3, <3>4
  <2> QED BY <2>3, <2>4
<1>5. Good(Len(s))
  <2> HIDE DEF Good
  <2>1. \A i \in 0..Len(s) : i \in T
    <3> HIDE DEF T
    <3> QED BY <1>1, <1>3, <1>4, BoundedInduction
  <2> QED BY <1>1, <2>1
<1>6. Before(Len(s)) = ToSet(s)
  BY <1>1 DEF ToSet
<1> QED BY <1>2, <1>5, <1>6

-----------------------------------------------------------------------------
(***************************************************************************)
(* Steps that leave every run where it is                                  *)
(***************************************************************************)

\* A task keeps the run it is about to push, and gets no other.
RequestsKeepRuns ==
    \A t \in Task :
        /\ req'[t].at = "push" <=> req[t].at = "push"
        /\ req[t].at = "push" => req'[t].run = req[t].run
        /\ req'[t].at \in {"mutable", "edit", "write"} => req'[t].kind \in {"text", "history"}

\* The worker keeps its run, or lets go of one that has ended or is given up.
WorkerKeepsRun ==
    \/ cur' = cur
    \/ cur' = NULL /\ (cur \in abandoned' \/ cur = NULL \/ file[cur] \notin {"queued", "running"})

\* The frame of most steps.
LEMMA PlacesKept ==
  ASSUME PlaceInv, TypeOK', UNCHANGED <<queue, file, input>>, abandoned \subseteq abandoned',
         RequestsKeepRuns, WorkerKeepsRun, WorkerPlaces'
  PROVE  PlaceInv'
<1>1. QueuePlaces'
  <2>1. \A r \in ToSet(queue) : r \in Run
    BY InToSet DEF PlaceInv, TypeOK
  <2>2. \A r \in Run : r # NULL
    BY RunsAssumption DEF Run
  <2> QED BY <2>1, <2>2 DEF PlaceInv, QueuePlaces, WorkerKeepsRun
<1>2. PushPlaces'
  <2>1. \A r \in Run : r # NULL
    BY RunsAssumption DEF Run
  <2> QED BY <2>1 DEF PlaceInv, PushPlaces, Pushing, RequestsKeepRuns, WorkerKeepsRun
<1>3. Unfinished'
  <2> SUFFICES ASSUME NEW r \in Run, r \notin abandoned', file[r] \in {"queued", "running"}
               PROVE  Held(r)'
    BY DEF Unfinished
  <2>1. Held(r)
    BY DEF PlaceInv, Unfinished
  <2>2. cur = r => cur' = r
    BY RunsAssumption DEF Run, WorkerKeepsRun
  <2> QED BY <2>1, <2>2 DEF Held, RequestsKeepRuns
<1>4. OneGoalRun'
  BY DEF PlaceInv, OneGoalRun
<1> QED BY <1>1, <1>2, <1>3, <1>4 DEF PlaceInv

\* What a request's step does to the requests.
LEMMA GotoEffect ==
  ASSUME TypeOK, NEW t \in Task, NEW at \in RequestAt, Goto(t, at)
  PROVE  /\ req' \in [Task -> Request]
         /\ req'[t].at = at /\ req'[t].run = req[t].run /\ req'[t].kind = req[t].kind
         /\ \A u \in Task : u # t => req'[u] = req[u]
  BY DEF TypeOK, Goto, Request

LEMMA ReturnEffect ==
  ASSUME TypeOK, NEW t \in Task, Return(t)
  PROVE  /\ req' \in [Task -> Request] /\ req'[t].at = "idle"
         /\ \A u \in Task : u # t => req'[u] = req[u]
  BY DEF TypeOK, Return, Request, NoRequest, RequestAt, Input

\* A request's step wakes the worker at most.
LEMMA RequestKeepsPlaces ==
  ASSUME PlaceInv, TypeOK', UNCHANGED <<queue, file, input, cur, outcome, abandoned>>,
         wpc' = wpc \/ (wpc = "waiting" /\ wpc' = "top"), RequestsKeepRuns
  PROVE  PlaceInv'
<1>1. WorkerPlaces'
  BY DEF PlaceInv, WorkerPlaces, GoalRunQueued
<1> QED BY <1>1, PlacesKept DEF WorkerKeepsRun

\* Where a request goes that pushes nothing and creates nothing.
Elsewhere == RequestAt \ {"push", "mutable", "edit", "write"}
BeforeWrite == {"mutable", "edit", "write"}

\* A request goes from one place to the next, or returns.
Moves(t) ==
    /\ req[t].at # "push"
    /\ \/ Return(t)
       \/ \E at \in Elsewhere : Goto(t, at)
       \/ req[t].at \in BeforeWrite /\ \E at \in BeforeWrite : Goto(t, at)

LEMMA MoveKeepsRuns ==
  ASSUME PlaceInv, NEW t \in Task, Moves(t)
  PROVE  req' \in [Task -> Request] /\ RequestsKeepRuns
<1>1. TypeOK
  BY DEF PlaceInv
<1>2. /\ req' \in [Task -> Request] /\ req'[t].at # "push"
      /\ \A u \in Task : u # t => req'[u] = req[u]
      /\ req'[t].at \in BeforeWrite => req[t].at \in BeforeWrite /\ req'[t].kind = req[t].kind
  BY <1>1, GotoEffect, ReturnEffect DEF Moves, Elsewhere, BeforeWrite, RequestAt
<1> QED BY <1>2 DEF RequestsKeepRuns, PlaceInv, PushPlaces, Moves, BeforeWrite

LEMMA EndCancelMoves ==
  ASSUME TypeOK, EndCancel, req["api"].at # "push"
  PROVE  Moves("api")
  BY DEF EndCancel, TypeOK, Request, Task, Moves, Elsewhere, RequestAt

\* The same for a request that begins, or is given another run or list.
LEMMA NewRequestKeepsRuns ==
  ASSUME PlaceInv, NEW t \in Task, NEW r \in Request, req' = [req EXCEPT ![t] = r],
         req[t].at # "push", r.at # "push", r.at \in BeforeWrite => r.kind \in {"text", "history"}
  PROVE  req' \in [Task -> Request] /\ RequestsKeepRuns
<1>1. /\ req' \in [Task -> Request] /\ req'[t] = r /\ \A u \in Task : u # t => req'[u] = req[u]
  BY DEF PlaceInv, TypeOK
<1> QED BY <1>1 DEF RequestsKeepRuns, PlaceInv, PushPlaces, BeforeWrite

-----------------------------------------------------------------------------
(***************************************************************************)
(* The requests, step by step                                              *)
(***************************************************************************)

LEMMA EnqueueKeepsPlaces ==
  ASSUME PlaceInv, UNCHANGED env, NEW t \in Task,
         \/ \E in \in {"text", "history"} : BeginEnqueue(t, in)
         \/ EnsureHistoryMutable(t) \/ TruncateHistory(t) \/ NotifyWorker(t)
  PROVE  PlaceInv'
<1> USE DEF shared, status, files, worker
<1>1. TypeOK
  BY DEF PlaceInv
<1>2. ASSUME NEW in \in {"text", "history"}, BeginEnqueue(t, in) PROVE PlaceInv'
  <2> DEFINE r == [NoRequest EXCEPT !.at = IF in = "history" THEN "mutable" ELSE "write",
                                    !.kind = in]
  <2>1. r \in Request /\ r.at # "push" /\ r.kind \in {"text", "history"}
    <3>1. PICK at \in {"mutable", "write"} : r = [NoRequest EXCEPT !.at = at, !.kind = in]
      OBVIOUS
    <3> HIDE DEF r
    <3>2. NoRequest \in Request
      BY DEF NoRequest, Request, RequestAt, Input
    <3>3. at \in RequestAt /\ in \in Input
      BY DEF RequestAt, Input
    <3> QED BY <3>1, <3>2, <3>3 DEF Request
  <2>2. req' = [req EXCEPT ![t] = r] /\ req[t].at # "push"
    BY <1>2 DEF BeginEnqueue
  <2> HIDE DEF r
  <2>3. req' \in [Task -> Request] /\ RequestsKeepRuns
    BY <2>1, <2>2, NewRequestKeepsRuns
  <2>4. TypeOK'
    BY <1>1, <1>2, <2>3 DEF TypeOK, BeginEnqueue
  <2> QED BY <1>2, <2>3, <2>4, RequestKeepsPlaces DEF BeginEnqueue
<1>3. CASE EnsureHistoryMutable(t) \/ TruncateHistory(t)
  <2>1. Moves(t)
    BY <1>3 DEF EnsureHistoryMutable, TruncateHistory, Moves, BeforeWrite
  <2>2. UNCHANGED <<shared, files, worker>>
    BY <1>3 DEF EnsureHistoryMutable, TruncateHistory
  <2>3. TypeOK'
    BY <1>1, <2>1, <2>2, MoveKeepsRuns DEF TypeOK
  <2> QED BY <2>1, <2>2, <2>3, MoveKeepsRuns, RequestKeepsPlaces
<1>4. CASE NotifyWorker(t)
  <2>1. Moves(t)
    BY <1>4 DEF NotifyWorker, Moves
  <2>2. /\ wpc' \in WorkerAt /\ permit' \in BOOLEAN
        /\ wpc' = wpc \/ (wpc = "waiting" /\ wpc' = "top")
    BY <1>1, <1>4 DEF NotifyWorker, NotifyOne, TypeOK, WorkerAt
  <2>3. TypeOK'
    BY <1>1, <1>4, <2>1, <2>2, MoveKeepsRuns DEF TypeOK, NotifyWorker
  <2> QED BY <1>4, <2>1, <2>2, <2>3, MoveKeepsRuns, RequestKeepsPlaces DEF NotifyWorker
<1> QED BY <1>2, <1>3, <1>4

\* An update of the api request that moves it elsewhere.
LEMMA ApiUpdateKeepsRuns ==
  ASSUME PlaceInv, NEW r \in Request, req' = [req EXCEPT !["api"] = r],
         req["api"].at # "push", r.at \in Elsewhere
  PROVE  req' \in [Task -> Request] /\ RequestsKeepRuns
  BY NewRequestKeepsRuns DEF Elsewhere, BeforeWrite, Task

LEMMA CancelKeepsPlaces ==
  ASSUME PlaceInv, UNCHANGED env,
         \/ \E r \in Run : BeginCancel(r)
         \/ CancelNotQueued \/ CancelCheckActive \/ CancelSend
  PROVE  PlaceInv'
<1> USE DEF shared, status, files, worker
<1>1. TypeOK /\ "api" \in Task
  BY DEF PlaceInv, Task
<1>2. ASSUME NEW r \in Run, BeginCancel(r) PROVE PlaceInv'
  <2> DEFINE q == [NoRequest EXCEPT !.at = "cancel", !.run = r]
  <2>1. NoRequest \in Request
    BY DEF NoRequest, Request, RequestAt, Input
  <2>2. q \in Request /\ q.at \in Elsewhere
    BY <2>1 DEF Request, RequestAt, Elsewhere
  <2>3. req' = [req EXCEPT !["api"] = q] /\ req["api"].at # "push"
    BY <1>2 DEF BeginCancel
  <2> HIDE DEF q
  <2>4. req' \in [Task -> Request] /\ RequestsKeepRuns
    BY <2>2, <2>3, ApiUpdateKeepsRuns
  <2>5. TypeOK'
    BY <1>1, <1>2, <2>4 DEF TypeOK, BeginCancel
  <2> QED BY <1>2, <2>4, <2>5, RequestKeepsPlaces DEF BeginCancel
<1>3. CASE CancelNotQueued \/ CancelCheckActive
  <2>1. Moves("api")
    BY <1>1, <1>3, EndCancelMoves
    DEF CancelNotQueued, CancelCheckActive, Moves, Elsewhere, RequestAt
  <2>2. UNCHANGED <<shared, files, worker>>
    BY <1>3 DEF CancelNotQueued, CancelCheckActive
  <2>3. TypeOK'
    BY <1>1, <2>1, <2>2, MoveKeepsRuns DEF TypeOK
  <2> QED BY <1>1, <2>1, <2>2, <2>3, MoveKeepsRuns, RequestKeepsPlaces
<1>4. CASE CancelSend
  <2>1. Moves("api")
    BY <1>1, <1>4, EndCancelMoves DEF CancelSend
  <2>2. signalled' \in BOOLEAN
    BY <1>1, <1>4 DEF CancelSend, SendCancel, TypeOK
  <2>3. TypeOK'
    BY <1>1, <1>4, <2>1, <2>2, MoveKeepsRuns DEF TypeOK, CancelSend
  <2> QED BY <1>1, <1>4, <2>1, <2>3, MoveKeepsRuns, RequestKeepsPlaces DEF CancelSend
<1> QED BY <1>2, <1>3, <1>4

LEMMA ShutdownKeepsPlaces ==
  ASSUME PlaceInv, UNCHANGED env,
         \/ BeginEviction \/ BeginDelete \/ BeginShutdown \/ ShutdownList \/ ShutdownNext
         \/ ShutdownActive \/ ShutdownNotify \/ ShutdownJoin
  PROVE  PlaceInv'
<1> USE DEF shared, status, files, worker
<1>1. TypeOK /\ "api" \in Task
  BY DEF PlaceInv, Task
<1>2. req["api"] \in Request /\ req["api"].list \in Seq(Run)
  BY <1>1 DEF TypeOK, Request
<1>3. CASE BeginEviction \/ BeginDelete \/ ShutdownList \/ ShutdownNext
  <2>1. \E r \in Request : req' = [req EXCEPT !["api"] = r] /\ r.at \in Elsewhere
    <3>1. ASSUME NEW k \in {"evict", "delete"},
                 req' = [req EXCEPT !["api"].at = "evict", !["api"].kind = k]
          PROVE  \E r \in Request : req' = [req EXCEPT !["api"] = r] /\ r.at \in Elsewhere
      <4> DEFINE r == [req["api"] EXCEPT !.at = "evict", !.kind = k]
      <4>1. r \in Request /\ r.at \in Elsewhere
        BY <1>2 DEF Request, RequestAt, Elsewhere
      <4>2. req' = [req EXCEPT !["api"] = r]
        BY <1>1, <3>1 DEF TypeOK
      <4> QED BY <4>1, <4>2
    <3>2. CASE ShutdownList
      <4> DEFINE at == IF queue = <<>> THEN "stop_active" ELSE "next"
                 r == [req["api"] EXCEPT !.list = queue, !.at = at]
      <4>1. at \in {"stop_active", "next"}
        OBVIOUS
      <4> HIDE DEF at
      <4>2. r \in Request /\ r.at \in Elsewhere
        BY <1>1, <1>2, <4>1 DEF Request, RequestAt, Elsewhere, TypeOK
      <4>3. req' = [req EXCEPT !["api"] = r]
        BY <1>1, <3>2 DEF TypeOK, ShutdownList, at
      <4> QED BY <4>2, <4>3
    <3>3. CASE ShutdownNext
      <4> DEFINE rest == Tail(req["api"].list)
                 then == IF rest = <<>> THEN "stop_active" ELSE "next"
                 r == [req["api"] EXCEPT !.at = "cancel", !.run = Head(req["api"].list),
                                         !.list = rest, !.then = then]
      <4>1. rest \in Seq(Run) /\ Head(req["api"].list) \in Run
        BY <1>2, <3>3 DEF ShutdownNext
      <4>2. then \in {"stop_active", "next"}
        OBVIOUS
      <4>3. req' = [req EXCEPT !["api"] = r]
        BY <3>3 DEF ShutdownNext
      <4> HIDE DEF rest, then
      <4>4. r \in Request /\ r.at \in Elsewhere
        BY <1>2, <4>1, <4>2 DEF Request, RequestAt, Elsewhere
      <4> QED BY <4>3, <4>4
    <3> QED BY <1>3, <3>1, <3>2, <3>3 DEF BeginEviction, BeginDelete
  <2>2. UNCHANGED <<shared, files, worker>> /\ req["api"].at # "push"
    BY <1>3 DEF BeginEviction, BeginDelete, ShutdownList, ShutdownNext
  <2>3. req' \in [Task -> Request] /\ RequestsKeepRuns
    BY <2>1, <2>2, ApiUpdateKeepsRuns
  <2>4. TypeOK'
    BY <1>1, <2>2, <2>3 DEF TypeOK
  <2> QED BY <2>2, <2>3, <2>4, RequestKeepsPlaces
<1>4. CASE ShutdownActive
  <2>1. req' \in [Task -> Request] /\ RequestsKeepRuns
    <3>1. CASE active = NULL
      <4>1. Moves("api")
        BY <1>4, <3>1 DEF ShutdownActive, Moves, Elsewhere, RequestAt
      <4> QED BY <1>1, <4>1, MoveKeepsRuns
    <3>2. CASE active # NULL
      <4> DEFINE r == [req["api"] EXCEPT !.at = "cancel", !.run = active, !.then = "stop_notify"]
      <4>1. r \in Request /\ r.at \in Elsewhere
        BY <1>1, <1>2 DEF Request, RequestAt, Elsewhere, TypeOK
      <4>2. req' = [req EXCEPT !["api"] = r] /\ req["api"].at # "push"
        BY <1>4, <3>2 DEF ShutdownActive
      <4> HIDE DEF r
      <4> QED BY <4>1, <4>2, ApiUpdateKeepsRuns
    <3> QED BY <3>1, <3>2
  <2>2. TypeOK'
    BY <1>1, <1>4, <2>1 DEF TypeOK, ShutdownActive
  <2> QED BY <1>4, <2>1, <2>2, RequestKeepsPlaces DEF ShutdownActive
<1>5. CASE BeginShutdown \/ ShutdownNotify \/ ShutdownJoin
  <2>1. Moves("api")
    BY <1>5 DEF BeginShutdown, ShutdownNotify, ShutdownJoin, Moves, Elsewhere, RequestAt
  <2>2. /\ wpc' \in WorkerAt /\ permit' \in BOOLEAN /\ closing' \in BOOLEAN
        /\ wpc' = wpc \/ (wpc = "waiting" /\ wpc' = "top")
    BY <1>1, <1>5 DEF BeginShutdown, ShutdownNotify, ShutdownJoin, NotifyOne, TypeOK, WorkerAt
  <2>3. UNCHANGED <<queue, status, active_cancel, signalled, goal, files, cur, outcome>>
    BY <1>5 DEF BeginShutdown, ShutdownNotify, ShutdownJoin
  <2>4. TypeOK'
    BY <1>1, <2>1, <2>2, <2>3, MoveKeepsRuns DEF TypeOK
  <2> QED BY <1>1, <2>1, <2>2, <2>3, <2>4, MoveKeepsRuns, RequestKeepsPlaces
<1> QED BY <1>3, <1>4, <1>5

LEMMA SideKeepsPlaces ==
  ASSUME PlaceInv, UNCHANGED env,
         SetGoal \/ ClearGoal \/ CloseAgent \/ CloseQueueLen \/ CloseSend \/ CloseNotify
  PROVE  PlaceInv'
<1> USE DEF shared, status, files, worker
<1>1. TypeOK /\ "side" \in Task
  BY DEF PlaceInv, Task
<1>2. req' \in [Task -> Request] /\ RequestsKeepRuns
  <2>1. CASE SetGoal
    BY <1>1, <2>1 DEF SetGoal, TypeOK, RequestsKeepRuns, PlaceInv, PushPlaces
  <2>2. CASE ~SetGoal
    <3>1. Moves("side")
      BY <2>2 DEF ClearGoal, CloseAgent, CloseQueueLen, CloseSend, CloseNotify,
                  Moves, Elsewhere, RequestAt
    <3> QED BY <1>1, <3>1, MoveKeepsRuns
  <2> QED BY <2>1, <2>2
<1>3. /\ UNCHANGED <<queue, run_state, active, active_cancel, files, cur, outcome>>
      /\ queue_len' \in {queue_len, 0} /\ goal' \in {goal, "active", NULL}
    BY DEF SetGoal, ClearGoal, CloseAgent, CloseQueueLen, CloseSend, CloseNotify
<1>4. /\ wpc' = wpc \/ (wpc = "waiting" /\ wpc' = "top")
      /\ permit' \in BOOLEAN /\ closing' \in BOOLEAN /\ signalled' \in BOOLEAN
  BY <1>1 DEF SetGoal, ClearGoal, CloseAgent, CloseQueueLen, CloseSend, CloseNotify,
              NotifyWaiters, SendCancel, TypeOK
<1>5. TypeOK'
  BY <1>1, <1>2, <1>3, <1>4, RunsAssumption DEF TypeOK, WorkerAt
<1> QED BY <1>2, <1>3, <1>4, <1>5, RequestKeepsPlaces

-----------------------------------------------------------------------------
(***************************************************************************)
(* Runs that enter and leave the queue                                     *)
(***************************************************************************)

\* The queue holds distinct runs, so it is no longer than there are runs.
LEMMA QueueLength ==
  ASSUME NEW q \in Seq(Run), Distinct(q)
  PROVE  Len(q) \in 0..MaxRuns
  BY DistinctLength, RunsAssumption DEF Run

\* Runs that leave the queue and do not start have been cancelled or given up.
LEMMA RunsLeaveQueue ==
  ASSUME PlaceInv, TypeOK', UNCHANGED <<input, worker>>, abandoned \subseteq abandoned',
         NEW runs, Distinct(queue'), ToSet(queue') = ToSet(queue) \ runs,
         \A r \in Run : \/ file'[r] = file[r] /\ ~(r \in ToSet(queue) /\ r \in runs)
                        \/ r \in ToSet(queue) /\ r \in runs
                           /\ (r \in abandoned' \/ file'[r] = "cancelled"),
         RequestsKeepRuns
  PROVE  PlaceInv'
<1> USE DEF worker
<1>1. \A r \in ToSet(queue) : r \in Run
  BY InToSet DEF PlaceInv, TypeOK
<1>2. \A r \in Run : r # NULL
  BY RunsAssumption DEF Run
<1>3. \A r \in Run : r \notin ToSet(queue) => file'[r] = file[r]
  OBVIOUS
<1>4. QueuePlaces'
  BY <1>1 DEF PlaceInv, QueuePlaces
<1>5. PushPlaces'
  BY <1>3 DEF PlaceInv, PushPlaces, Pushing, RequestsKeepRuns
<1>6. WorkerPlaces'
  <2>1. cur # NULL => cur \in Run /\ file'[cur] = file[cur]
    BY <1>3 DEF PlaceInv, TypeOK, QueuePlaces
  <2>2. GoalRunQueued' => GoalRunQueued
    BY DEF GoalRunQueued
  <2> QED BY <2>1, <2>2 DEF PlaceInv, WorkerPlaces
<1>7. Unfinished'
  <2> SUFFICES ASSUME NEW r \in Run, r \notin abandoned', file'[r] \in {"queued", "running"}
               PROVE  Held(r)'
    BY DEF Unfinished
  <2>1. file'[r] = file[r] /\ ~(r \in ToSet(queue) /\ r \in runs)
    OBVIOUS
  <2>2. Held(r)
    BY <2>1 DEF PlaceInv, Unfinished
  <2> QED BY <2>1, <2>2 DEF Held, RequestsKeepRuns
<1>8. OneGoalRun'
  BY DEF PlaceInv, OneGoalRun
<1> QED BY <1>4, <1>5, <1>6, <1>7, <1>8 DEF PlaceInv

LEMMA DropKeepsPlaces ==
  ASSUME PlaceInv, UNCHANGED env, CancelQueued \/ ClearGoalQueue \/ CloseClearQueue
  PROVE  PlaceInv'
<1> USE DEF shared, status, files, worker
<1>1. TypeOK /\ "api" \in Task /\ "side" \in Task
  BY DEF PlaceInv, Task
<1>2. /\ queue \in Seq(Run) /\ Distinct(queue) /\ Len(queue) \in 0..MaxRuns
      /\ \A r \in ToSet(queue) : r \in Run
  BY <1>1, InToSet, QueueLength DEF PlaceInv, TypeOK, QueuePlaces
<1>3. CASE CancelQueued
  <2> DEFINE r == req["api"].run
  <2>1. r \in ToSet(queue) /\ r \in Run
    BY <1>2, <1>3 DEF CancelQueued
  <2>2. /\ queue' \in Seq(Run) /\ Distinct(queue') /\ ToSet(queue') = ToSet(queue) \ {r}
    BY <1>2, <1>3, WithoutProperties DEF CancelQueued
  <2>3. Len(queue') \in 0..MaxRuns
    BY <2>2, QueueLength
  <2>4. req' \in [Task -> Request] /\ RequestsKeepRuns
    <3>1. Moves("api")
      BY <1>1, <1>3, EndCancelMoves DEF CancelQueued
    <3> QED BY <1>1, <3>1, MoveKeepsRuns
  <2>5. /\ \/ file' = [file EXCEPT ![r] = "cancelled"] /\ abandoned' = abandoned
           \/ file' = file /\ abandoned' = abandoned \cup {r}
        /\ queue_len' \in {queue_len, Len(queue')}
    BY <1>3 DEF CancelQueued, Abandon
  <2>6. TypeOK'
    <3>1. file' \in [Run -> RunState \cup {NULL}] /\ abandoned' \subseteq Run
      BY <1>1, <2>1, <2>5 DEF TypeOK, RunState, Ended
    <3>2. queue_len' \in 0..MaxRuns
      BY <1>1, <2>3, <2>5 DEF TypeOK
    <3> QED BY <1>1, <1>3, <2>2, <2>4, <3>1, <3>2 DEF TypeOK, CancelQueued
  <2>7. \A x \in Run : \/ file'[x] = file[x] /\ ~(x \in ToSet(queue) /\ x \in {r})
                       \/ x \in ToSet(queue) /\ x \in {r}
                          /\ (x \in abandoned' \/ file'[x] = "cancelled")
    BY <1>1, <2>1, <2>5 DEF TypeOK
  <2>8. UNCHANGED <<input, worker>> /\ abandoned \subseteq abandoned'
    BY <1>3, <2>5 DEF CancelQueued
  <2> HIDE DEF r
  <2> QED BY <2>2, <2>4, <2>6, <2>7, <2>8, RunsLeaveQueue
<1>4. CASE ClearGoalQueue \/ CloseClearQueue
  <2>1. PICK runs : /\ queue' \in Seq(Run) /\ Distinct(queue')
                    /\ ToSet(queue') = ToSet(queue) \ runs
                    /\ abandoned' = abandoned \cup (ToSet(queue) \ ToSet(queue'))
    <3>1. CASE ClearGoalQueue
      <4> DEFINE goals == {r \in Run : input[r] = "goal"}
      <4>1. queue' = Without(queue, goals)
        BY <3>1 DEF ClearGoalQueue
      <4>2. abandoned' = abandoned \cup (ToSet(queue) \ ToSet(queue'))
        BY <3>1 DEF ClearGoalQueue, Abandon
      <4> HIDE DEF goals
      <4>3. /\ queue' \in Seq(Run) /\ Distinct(queue')
            /\ ToSet(queue') = ToSet(queue) \ goals
        BY <1>2, <4>1, WithoutProperties
      <4> QED BY <4>2, <4>3
    <3>2. CASE CloseClearQueue
      <4>1. queue' = <<>> /\ abandoned' = abandoned \cup ToSet(queue)
        BY <3>2 DEF CloseClearQueue, Abandon
      <4>2. queue' \in Seq(Run) /\ Distinct(queue') /\ ToSet(queue') = {}
        BY <4>1 DEF Distinct, ToSet
      <4>3. /\ ToSet(queue') = ToSet(queue) \ ToSet(queue)
            /\ abandoned' = abandoned \cup (ToSet(queue) \ ToSet(queue'))
        BY <4>1, <4>2
      <4> QED BY <4>2, <4>3
    <3> QED BY <1>4, <3>1, <3>2
  <2>2. Len(queue') \in 0..MaxRuns
    BY <2>1, QueueLength
  <2>3. req' \in [Task -> Request] /\ RequestsKeepRuns
    <3>1. Moves("side")
      BY <1>4 DEF ClearGoalQueue, CloseClearQueue, Moves, Elsewhere, RequestAt
    <3> QED BY <1>1, <3>1, MoveKeepsRuns
  <2>4. /\ UNCHANGED <<input, file, worker, run_state, active, active_cancel, signalled, closing,
                      permit, goal>>
        /\ queue_len' \in {queue_len, Len(queue')}
    BY <1>4 DEF ClearGoalQueue, CloseClearQueue
  <2>5. TypeOK'
    <3>1. queue_len' \in 0..MaxRuns /\ abandoned' \subseteq Run
      BY <1>1, <1>2, <2>1, <2>2, <2>4 DEF TypeOK
    <3> QED BY <1>1, <2>1, <2>3, <2>4, <3>1 DEF TypeOK
  <2>6. \A x \in Run : \/ file'[x] = file[x] /\ ~(x \in ToSet(queue) /\ x \in runs)
                       \/ x \in ToSet(queue) /\ x \in runs
                          /\ (x \in abandoned' \/ file'[x] = "cancelled")
    BY <2>1, <2>4
  <2>7. abandoned \subseteq abandoned'
    BY <2>1
  <2> QED BY <2>1, <2>3, <2>4, <2>5, <2>6, <2>7, RunsLeaveQueue
<1> QED BY <1>3, <1>4

\* A run enters the queue: from a request that created it, or from the worker that
\* continues a goal.
LEMMA RunEntersQueue ==
  ASSUME PlaceInv, NEW r \in Run, queue' = Append(queue, r), r \notin ToSet(queue)
  PROVE  /\ queue' \in Seq(Run) /\ Distinct(queue') /\ ToSet(queue') = ToSet(queue) \cup {r}
         /\ Len(queue') \in 0..MaxRuns
<1>1. queue \in Seq(Run) /\ Distinct(queue)
  BY DEF PlaceInv, TypeOK, QueuePlaces
<1>2. queue' \in Seq(Run) /\ Distinct(queue') /\ ToSet(queue') = ToSet(queue) \cup {r}
  BY <1>1, ToSetAppend, DistinctAppend
<1> QED BY <1>2, QueueLength

LEMMA PushKeepsPlaces ==
  ASSUME PlaceInv, UNCHANGED env, NEW t \in Task, PushRun(t)
  PROVE  PlaceInv'
<1> USE DEF shared, status, files, worker
<1> DEFINE r == req[t].run
<1>1. TypeOK
  BY DEF PlaceInv
<1>2. /\ req[t].at = "push" /\ queue' = Append(queue, r) /\ queue_len' = Len(queue')
      /\ UNCHANGED <<file, input, abandoned, worker, run_state, active, active_cancel,
                     signalled, closing, permit, goal>>
      /\ Goto(t, "notify")
  BY DEF PushRun
<1>3. /\ r \in Run /\ file[r] = "queued" /\ input[r] # "goal" /\ cur # r /\ r \notin ToSet(queue)
      /\ \A u \in Task : u # t /\ Pushing(u) => req[u].run # r
  BY <1>2 DEF PlaceInv, PushPlaces, Pushing
<1>4. /\ queue' \in Seq(Run) /\ Distinct(queue') /\ ToSet(queue') = ToSet(queue) \cup {r}
      /\ Len(queue') \in 0..MaxRuns
  BY <1>2, <1>3, RunEntersQueue
<1>5. /\ req' \in [Task -> Request] /\ req'[t].at = "notify"
      /\ \A u \in Task : u # t => req'[u] = req[u]
  BY <1>1, <1>2, GotoEffect DEF RequestAt
<1>6. TypeOK'
  BY <1>1, <1>2, <1>4, <1>5 DEF TypeOK
<1>7. QueuePlaces'
  BY <1>2, <1>3, <1>4 DEF PlaceInv, QueuePlaces
<1>8. PushPlaces'
  BY <1>2, <1>3, <1>4, <1>5 DEF PlaceInv, PushPlaces, Pushing
<1>9. GoalRunQueued' => GoalRunQueued
  BY <1>2, <1>3, <1>4 DEF GoalRunQueued
<1>10. WorkerPlaces'
  BY <1>2, <1>9 DEF PlaceInv, WorkerPlaces
<1>11. Unfinished'
  <2> SUFFICES ASSUME NEW x \in Run, x \notin abandoned', file'[x] \in {"queued", "running"}
               PROVE  Held(x)'
    BY DEF Unfinished
  <2>1. Held(x)
    BY <1>2 DEF PlaceInv, Unfinished
  <2> QED BY <1>2, <1>4, <1>5, <2>1 DEF Held
<1>12. OneGoalRun'
  BY <1>2, <1>3, <1>4 DEF PlaceInv, OneGoalRun
<1> QED BY <1>6, <1>7, <1>8, <1>10, <1>11, <1>12 DEF PlaceInv

LEMMA PushGoalKeepsPlaces ==
  ASSUME PlaceInv, UNCHANGED env, PushGoalRun
  PROVE  PlaceInv'
<1> USE DEF shared, status, files, worker
<1>1. TypeOK
  BY DEF PlaceInv
<1>2. /\ wpc = "continue_push" /\ cur \in Run /\ file[cur] = "queued" /\ input[cur] = "goal"
      /\ ~GoalRunQueued /\ cur \notin ToSet(queue)
      /\ \A t \in Task : Pushing(t) => req[t].run # cur
  BY <1>1 DEF PushGoalRun, PlaceInv, WorkerPlaces, TypeOK, PushPlaces, QueuePlaces
<1>3. /\ queue' = Append(queue, cur) /\ queue_len' = Len(queue') /\ permit' = TRUE
      /\ wpc' = "top" /\ cur' = NULL /\ outcome' = NULL
      /\ UNCHANGED <<file, input, abandoned, req, run_state, active, active_cancel,
                     signalled, closing, goal>>
  BY <1>2 DEF PushGoalRun, RunReturns
<1>4. /\ queue' \in Seq(Run) /\ Distinct(queue') /\ ToSet(queue') = ToSet(queue) \cup {cur}
      /\ Len(queue') \in 0..MaxRuns
  BY <1>2, <1>3, RunEntersQueue
<1>5. \A x \in Run : x # NULL
  BY RunsAssumption DEF Run
<1>6. TypeOK'
  BY <1>1, <1>3, <1>4 DEF TypeOK, WorkerAt
<1>7. QueuePlaces'
  <2>1. \A x \in ToSet(queue) : x \in Run
    BY <1>1, InToSet DEF TypeOK
  <2> QED BY <1>2, <1>3, <1>4, <1>5, <2>1 DEF PlaceInv, QueuePlaces
<1>8. PushPlaces'
  BY <1>2, <1>3, <1>4, <1>5 DEF PlaceInv, PushPlaces, Pushing
<1>9. WorkerPlaces'
  BY <1>3 DEF WorkerPlaces
<1>10. Unfinished'
  <2> SUFFICES ASSUME NEW x \in Run, x \notin abandoned', file'[x] \in {"queued", "running"}
               PROVE  Held(x)'
    BY DEF Unfinished
  <2>1. Held(x)
    BY <1>3 DEF PlaceInv, Unfinished
  <2> QED BY <1>3, <1>4, <2>1 DEF Held
<1>11. OneGoalRun'
  BY <1>2, <1>3, <1>4 DEF PlaceInv, OneGoalRun, GoalRunQueued
<1> QED BY <1>6, <1>7, <1>8, <1>9, <1>10, <1>11 DEF PlaceInv

LEMMA PopKeepsPlaces ==
  ASSUME PlaceInv, UNCHANGED env, WorkerPop
  PROVE  PlaceInv'
<1> USE DEF shared, status, files, worker
<1>1. TypeOK /\ queue \in Seq(Run) /\ Distinct(queue) /\ Len(queue) \in 0..MaxRuns
  BY QueueLength DEF PlaceInv, TypeOK, QueuePlaces
<1>2. wpc = "pop" /\ cur = NULL /\ queue_len' = Len(queue')
  BY DEF WorkerPop, PlaceInv, WorkerPlaces
<1>3. UNCHANGED <<file, input, abandoned, req, run_state, active, active_cancel, signalled,
                  closing, permit, goal, outcome>>
  BY DEF WorkerPop
<1>4. RequestsKeepRuns
  BY <1>3 DEF RequestsKeepRuns, PlaceInv, PushPlaces
<1>5. CASE queue = <<>>
  <2>1. wpc' = "empty" /\ UNCHANGED <<queue, cur>>
    BY <1>5 DEF WorkerPop, To
  <2>2. TypeOK'
    BY <1>1, <1>2, <1>3, <2>1 DEF TypeOK, WorkerAt
  <2>3. WorkerPlaces'
    BY <1>2, <1>3, <2>1 DEF WorkerPlaces
  <2> QED BY <1>3, <1>4, <2>1, <2>2, <2>3, PlacesKept DEF WorkerKeepsRun
<1>6. CASE queue # <<>>
  <2>1. wpc' = "arm" /\ queue' = Tail(queue) /\ cur' = Head(queue)
    BY <1>6 DEF WorkerPop, To
  <2>2. /\ cur' \in ToSet(queue) /\ queue' \in Seq(Run) /\ Distinct(queue')
        /\ ToSet(queue') = ToSet(queue) \ {cur'}
    BY <1>1, <1>6, <2>1, DistinctTail
  <2>3. Len(queue') \in 0..MaxRuns
    BY <2>2, QueueLength
  <2>4. cur' \in Run /\ file[cur'] = "queued"
    BY <1>1, <2>2, InToSet DEF PlaceInv, QueuePlaces
  <2>5. TypeOK'
    BY <1>1, <1>2, <1>3, <2>1, <2>2, <2>3, <2>4 DEF TypeOK, WorkerAt
  <2>6. QueuePlaces'
    BY <1>3, <2>2 DEF PlaceInv, QueuePlaces
  <2>7. PushPlaces'
    BY <1>3, <2>2 DEF PlaceInv, PushPlaces, Pushing
  <2>8. WorkerPlaces'
    BY <1>3, <2>1, <2>4, RunsAssumption, NullAssumption DEF WorkerPlaces, Run
  <2>9. Unfinished'
    <3> SUFFICES ASSUME NEW x \in Run, x \notin abandoned', file'[x] \in {"queued", "running"}
                 PROVE  Held(x)'
      BY DEF Unfinished
    <3>1. Held(x) /\ x # NULL
      BY <1>3, RunsAssumption DEF PlaceInv, Unfinished, Run
    <3> QED BY <1>2, <1>3, <2>2, <3>1 DEF Held
  <2>10. OneGoalRun'
    BY <1>3, <2>2 DEF PlaceInv, OneGoalRun
  <2> QED BY <2>5, <2>6, <2>7, <2>8, <2>9, <2>10 DEF PlaceInv
<1> QED BY <1>5, <1>6

-----------------------------------------------------------------------------
(***************************************************************************)
(* Runs that are created                                                   *)
(***************************************************************************)

\* new_run_id finds an id without a file.
LEMMA FreshRunIsUnused ==
  ASSUME Unused # {}
  PROVE  FreshRun \in Run /\ file[FreshRun] = NULL
<1>1. Unused \in SUBSET Nat
  BY RunsAssumption DEF Unused, Run
<1>2. \E r \in Unused : \A s \in Unused : r <= s
  BY <1>1, LeastElement
<1>3. FreshRun \in Unused
  BY <1>2 DEF FreshRun
<1> QED BY <1>3 DEF Unused

\* A run without a file is nowhere yet.
LEMMA NewRunIsNowhere ==
  ASSUME PlaceInv, NEW r \in Run, file[r] = NULL
  PROVE  /\ r \notin ToSet(queue) /\ cur # r
         /\ \A t \in Task : Pushing(t) => req[t].run # r
<1>1. file[r] # "queued" /\ r # NULL
  BY NullAssumption, RunsAssumption DEF Run
<1> QED BY <1>1 DEF PlaceInv, QueuePlaces, PushPlaces, WorkerPlaces

LEMMA WriteKeepsPlaces ==
  ASSUME PlaceInv, UNCHANGED env, NEW t \in Task, WriteQueuedRun(t)
  PROVE  PlaceInv'
<1> USE DEF shared, status, files, worker
<1>1. TypeOK
  BY DEF PlaceInv
<1>2. req[t].at = "write" /\ UNCHANGED <<shared, worker>>
  BY DEF WriteQueuedRun
<1>3. CASE Return(t) /\ UNCHANGED files
  <2>1. Moves(t)
    BY <1>2, <1>3 DEF Moves
  <2>2. TypeOK'
    BY <1>1, <1>2, <1>3, <2>1, MoveKeepsRuns DEF TypeOK
  <2> QED BY <1>2, <1>3, <2>1, <2>2, MoveKeepsRuns, RequestKeepsPlaces
<1>4. CASE /\ Unused # {} /\ WriteNewRun(req[t].kind)
           /\ req' = [req EXCEPT ![t].at = "push", ![t].run = FreshRun]
  <2> DEFINE r == FreshRun
  <2>1. /\ r \in Run /\ file[r] = NULL
        /\ r \notin ToSet(queue) /\ cur # r
        /\ \A u \in Task : Pushing(u) => req[u].run # r
    BY <1>4, FreshRunIsUnused, NewRunIsNowhere
  <2>2. req[t].kind \in {"text", "history"}
    BY <1>2 DEF PlaceInv, PushPlaces
  <2>3. /\ file' = [file EXCEPT ![r] = "queued"] /\ input' = [input EXCEPT ![r] = req[t].kind]
        /\ abandoned' = abandoned
    BY <1>4 DEF WriteNewRun
  <2>4. req' = [req EXCEPT ![t].at = "push", ![t].run = r]
    BY <1>4
  <2> HIDE DEF r
  <2>5. /\ file' \in [Run -> RunState \cup {NULL}] /\ input' \in [Run -> Input \cup {NULL}]
        /\ file'[r] = "queued" /\ input'[r] = req[t].kind
        /\ \A x \in Run : x # r => file'[x] = file[x] /\ input'[x] = input[x]
    BY <1>1, <2>1, <2>2, <2>3 DEF TypeOK, RunState, Input
  <2>6. /\ req' \in [Task -> Request] /\ req'[t].at = "push" /\ req'[t].run = r
        /\ \A u \in Task : u # t => req'[u] = req[u]
    <3> DEFINE q == [req[t] EXCEPT !.at = "push", !.run = r]
    <3>0. req[t] \in Request /\ "push" \in RequestAt /\ r \in Run
      BY <1>1, <2>1 DEF TypeOK, RequestAt
    <3>1. q \in Request /\ q.at = "push" /\ q.run = r
      BY <3>0 DEF Request
    <3>2. req' = [req EXCEPT ![t] = q]
      BY <1>1, <2>4 DEF TypeOK
    <3> HIDE DEF q
    <3> QED BY <1>1, <3>1, <3>2 DEF TypeOK
  <2>7. TypeOK'
    BY <1>1, <1>2, <2>3, <2>5, <2>6 DEF TypeOK
  <2>8. \A x \in ToSet(queue) : x \in Run /\ x # r
    BY <1>1, <2>1, InToSet DEF TypeOK
  <2>9. QueuePlaces'
    BY <1>2, <2>5, <2>8 DEF PlaceInv, QueuePlaces
  <2>10. PushPlaces'
    <3>1. ASSUME NEW u \in Task, u # t, Pushing(u)
          PROVE  /\ req'[u] = req[u] /\ req[u].run \in Run /\ req[u].run # r
                 /\ file'[req[u].run] = "queued" /\ input'[req[u].run] # "goal"
                 /\ cur # req[u].run /\ req[u].run \notin ToSet(queue)
      BY <2>1, <2>5, <2>6, <3>1 DEF PlaceInv, PushPlaces
    <3>2. \A u, v \in Task : Pushing(u)' /\ Pushing(v)' /\ req'[u].run = req'[v].run => u = v
      BY <2>6, <3>1 DEF PlaceInv, PushPlaces, Pushing
    <3>3. \A u \in Task : req'[u].at \in {"mutable", "edit", "write"}
             => req'[u].kind \in {"text", "history"}
      BY <2>6 DEF PlaceInv, PushPlaces
    <3>4. \A u \in Task : Pushing(u)' =>
             /\ req'[u].run \in Run /\ file'[req'[u].run] = "queued" /\ input'[req'[u].run] # "goal"
             /\ cur # req'[u].run /\ req'[u].run \notin ToSet(queue)
      BY <2>1, <2>2, <2>5, <2>6, <3>1 DEF Pushing
    <3> QED BY <1>2, <3>2, <3>3, <3>4 DEF PushPlaces
  <2>11. GoalRunQueued' <=> GoalRunQueued
    BY <1>2, <2>5, <2>8 DEF GoalRunQueued
  <2>12. cur # NULL => cur \in Run /\ cur # r
    BY <1>1, <2>1 DEF TypeOK
  <2>13. WorkerPlaces'
    BY <1>2, <2>5, <2>11, <2>12 DEF PlaceInv, WorkerPlaces
  <2>14. Unfinished'
    <3> SUFFICES ASSUME NEW x \in Run, x \notin abandoned', file'[x] \in {"queued", "running"}
                 PROVE  Held(x)'
      BY DEF Unfinished
    <3>1. CASE x = r
      BY <2>6, <3>1 DEF Held
    <3>2. CASE x # r
      <4>1. Held(x)
        BY <2>3, <2>5, <3>2 DEF PlaceInv, Unfinished
      <4>2. \A u \in Task : req[u].at = "push" => req'[u] = req[u]
        BY <1>2, <2>6
      <4> QED BY <1>2, <4>1, <4>2 DEF Held
    <3> QED BY <3>1, <3>2
  <2>15. OneGoalRun'
    BY <1>2, <2>5, <2>8 DEF PlaceInv, OneGoalRun
  <2> QED BY <2>7, <2>9, <2>10, <2>13, <2>14, <2>15 DEF PlaceInv
<1> QED BY <1>3, <1>4 DEF WriteQueuedRun

-----------------------------------------------------------------------------
(***************************************************************************)
(* The worker, step by step                                                *)
(***************************************************************************)

\* Steps that end nothing and start nothing.
LEMMA LoopKeepsPlaces ==
  ASSUME PlaceInv, UNCHANGED env,
         \/ WorkerTop \/ WorkerLeaves \/ WorkerWait \/ RunArm \/ RunActivate
         \/ RunIdle \/ RunDisarm \/ RunCompletesGoal
  PROVE  PlaceInv'
<1> USE DEF shared, status, files, worker
<1>1. TypeOK
  BY DEF PlaceInv
<1>2. UNCHANGED <<queue, queue_len, file, input, abandoned, cur, outcome, req>>
  BY DEF WorkerTop, WorkerLeaves, WorkerWait, RunArm, RunActivate, RunIdle, RunDisarm,
         RunCompletesGoal
<1>3. /\ active_cancel' \in Run \cup {NULL} /\ active' \in Run \cup {NULL}
      /\ run_state' \in {"idle", "running"} /\ signalled' \in BOOLEAN /\ permit' \in BOOLEAN
      /\ closing' = closing /\ goal' \in {"active", "complete", NULL} /\ wpc' \in WorkerAt
  BY <1>1 DEF WorkerTop, WorkerLeaves, WorkerWait, RunArm, RunActivate, RunIdle, RunDisarm,
              RunCompletesGoal, To, TypeOK, WorkerAt
<1>4. TypeOK'
  BY <1>1, <1>2, <1>3 DEF TypeOK
<1>5. RequestsKeepRuns
  BY <1>2 DEF RequestsKeepRuns, PlaceInv, PushPlaces
<1>6. WorkerPlaces'
  <2>1. WorkerPlaces /\ (GoalRunQueued' <=> GoalRunQueued)
    BY <1>2 DEF PlaceInv, GoalRunQueued
  <2>2. \/ wpc \in {"top", "closing", "empty"}
           /\ wpc' \in {"top", "closing", "pop", "exited", "waiting"}
        \/ wpc = "arm" /\ wpc' = "activate"
        \/ wpc = "activate" /\ wpc' = "started"
        \/ wpc = "idle" /\ wpc' = "disarm"
        \/ wpc = "disarm" /\ wpc' = "finish"
        \/ wpc' = wpc
    BY DEF WorkerTop, WorkerLeaves, WorkerWait, RunArm, RunActivate, RunIdle, RunDisarm,
           RunCompletesGoal, To
  <2> QED BY <1>2, <2>1, <2>2 DEF WorkerPlaces
<1> QED BY <1>2, <1>4, <1>5, <1>6, PlacesKept DEF WorkerKeepsRun

\* run_one has read its input and streams, ends its stream, or returns early; a
\* shutdown aborts the worker.
LEMMA StreamKeepsPlaces ==
  ASSUME PlaceInv, UNCHANGED env, RunPrepare \/ RunStream
  PROVE  PlaceInv'
<1> USE DEF shared, status, files, worker
<1>1. TypeOK
  BY DEF PlaceInv
<1>2. /\ UNCHANGED <<queue, queue_len, run_state, active, active_cancel, signalled, closing,
                     permit, goal, file, input, req>>
      /\ cur \in Run /\ file[cur] = "running" /\ cur # NULL
      /\ \/ /\ wpc' = "top" /\ cur' = NULL /\ outcome' = NULL
            /\ abandoned' = abandoned \cup {cur}
         \/ /\ UNCHANGED <<cur, abandoned>> /\ outcome' \in Ended \cup {NULL}
            /\ wpc' = "stream" \/ (wpc' = "idle" /\ outcome' \in Ended)
  BY <1>1 DEF RunPrepare, RunStream, RunReturnsEarly, RunReturns, Abandon, To,
              PlaceInv, WorkerPlaces, TypeOK, Ended
<1>3. TypeOK'
  BY <1>1, <1>2 DEF TypeOK, WorkerAt
<1>4. RequestsKeepRuns
  BY <1>2 DEF RequestsKeepRuns, PlaceInv, PushPlaces
<1>5. WorkerPlaces'
  BY <1>2, NullAssumption DEF WorkerPlaces
<1>6. WorkerKeepsRun /\ abandoned \subseteq abandoned'
  BY <1>2 DEF WorkerKeepsRun
<1> QED BY <1>2, <1>3, <1>4, <1>5, <1>6, PlacesKept

LEMMA AbortKeepsPlaces ==
  ASSUME PlaceInv, UNCHANGED env, ShutdownAbort
  PROVE  PlaceInv'
<1> USE DEF shared, status, files, worker
<1>1. TypeOK /\ "api" \in Task /\ Moves("api")
  BY DEF PlaceInv, Task, ShutdownAbort, Moves, Elsewhere, RequestAt
<1>2. req' \in [Task -> Request] /\ RequestsKeepRuns
  BY <1>1, MoveKeepsRuns
<1>3. UNCHANGED <<shared, files, cur, outcome>> /\ wpc' = "aborted"
  BY DEF ShutdownAbort
<1>4. TypeOK'
  BY <1>1, <1>2, <1>3 DEF TypeOK, WorkerAt
<1>5. WorkerPlaces'
  BY <1>3 DEF PlaceInv, WorkerPlaces
<1> QED BY <1>2, <1>3, <1>4, <1>5, PlacesKept DEF WorkerKeepsRun

\* The worker writes the file of its run: the run is nowhere else, so no other
\* place is disturbed.
LEMMA WorkerWrites ==
  ASSUME PlaceInv, TypeOK', UNCHANGED <<queue, input, req>>, abandoned \subseteq abandoned',
         cur \in Run, NEW st, file' = [file EXCEPT ![cur] = st],
         \/ cur' = cur
         \/ cur' = NULL /\ st \notin {"queued", "running"},
         WorkerPlaces'
  PROVE  PlaceInv'
<1>1. \A r \in ToSet(queue) : r \in Run
  BY InToSet DEF PlaceInv, TypeOK
<1>2. \A r \in Run : r # NULL
  BY RunsAssumption DEF Run
<1>3. /\ \A r \in Run : r # cur => file'[r] = file[r]
      /\ file'[cur] = st
  BY DEF PlaceInv, TypeOK
<1>4. QueuePlaces'
  BY <1>1, <1>2, <1>3 DEF PlaceInv, QueuePlaces
<1>5. PushPlaces'
  BY <1>2, <1>3 DEF PlaceInv, PushPlaces, Pushing
<1>6. Unfinished'
  <2> SUFFICES ASSUME NEW r \in Run, r \notin abandoned', file'[r] \in {"queued", "running"}
               PROVE  Held(r)'
    BY DEF Unfinished
  <2>1. CASE r = cur
    BY <1>3, <2>1 DEF Held
  <2>2. CASE r # cur
    <3>1. Held(r)
      BY <1>3, <2>2 DEF PlaceInv, Unfinished
    <3> QED BY <2>2, <3>1 DEF Held
  <2> QED BY <2>1, <2>2
<1>7. OneGoalRun'
  BY DEF PlaceInv, OneGoalRun
<1> QED BY <1>4, <1>5, <1>6, <1>7 DEF PlaceInv

\* run_one returns early, or fails to write: nothing is written.
LEMMA EarlyReturnKeepsPlaces ==
  ASSUME PlaceInv, UNCHANGED env, cur \in Run, RunReturnsEarly,
         UNCHANGED <<shared, file, input, req>>
  PROVE  PlaceInv'
<1> USE DEF shared, status, RunReturnsEarly, RunReturns, Abandon
<1>1. TypeOK'
  BY DEF PlaceInv, TypeOK, WorkerAt
<1>2. RequestsKeepRuns
  BY DEF RequestsKeepRuns, PlaceInv, PushPlaces
<1>3. WorkerPlaces'
  BY DEF WorkerPlaces
<1> QED BY <1>1, <1>2, <1>3, PlacesKept DEF WorkerKeepsRun

LEMMA StartKeepsPlaces ==
  ASSUME PlaceInv, UNCHANGED env, RunWriteStarted
  PROVE  PlaceInv'
<1> USE DEF shared, status
<1>1. TypeOK /\ cur \in Run
  BY DEF RunWriteStarted, PlaceInv, WorkerPlaces, TypeOK
<1>2. UNCHANGED <<shared, input, req>>
  BY DEF RunWriteStarted
<1>3. CASE RunReturnsEarly /\ UNCHANGED file
  BY <1>1, <1>2, <1>3, EarlyReturnKeepsPlaces
<1>4. CASE /\ file' = [file EXCEPT ![cur] = "running"]
           /\ To("input") /\ UNCHANGED <<cur, outcome, abandoned>>
  <2>1. TypeOK'
    BY <1>1, <1>2, <1>4 DEF TypeOK, To, WorkerAt, RunState
  <2>2. WorkerPlaces'
    <3>1. file'[cur] = "running" /\ cur # NULL
      BY <1>1, <1>4, RunsAssumption DEF TypeOK, Run
    <3> QED BY <1>4, <3>1, NullAssumption DEF WorkerPlaces, To
  <2> QED BY <1>1, <1>2, <1>4, <2>1, <2>2, WorkerWrites
<1> QED BY <1>3, <1>4 DEF RunWriteStarted

LEMMA FinishKeepsPlaces ==
  ASSUME PlaceInv, UNCHANGED env, RunFinish
  PROVE  PlaceInv'
<1> USE DEF shared, status
<1>1. TypeOK /\ cur \in Run /\ outcome \in Ended
  BY DEF RunFinish, PlaceInv, WorkerPlaces, TypeOK
<1>2. UNCHANGED <<shared, input, req>>
  BY DEF RunFinish
<1>3. CASE RunReturnsEarly /\ UNCHANGED file
  BY <1>1, <1>2, <1>3, EarlyReturnKeepsPlaces
<1>4. CASE /\ file' = [file EXCEPT ![cur] = outcome] /\ UNCHANGED abandoned
           /\ \/ To("continue") /\ UNCHANGED <<cur, outcome>>
              \/ RunReturns
  <2>1. TypeOK'
    BY <1>1, <1>2, <1>4 DEF TypeOK, To, WorkerAt, RunState, RunReturns, Ended
  <2>2. WorkerPlaces'
    <3>1. file'[cur] = outcome /\ cur # NULL /\ outcome # NULL
      BY <1>1, <1>4, RunsAssumption, NullAssumption DEF TypeOK, Run, Ended
    <3> QED BY <1>1, <1>4, <3>1 DEF WorkerPlaces, To, RunReturns
  <2>3. outcome \notin {"queued", "running"}
    BY <1>1 DEF Ended
  <2>4. cur' = cur \/ cur' = NULL
    BY <1>4 DEF RunReturns
  <2> QED BY <1>1, <1>2, <1>4, <2>1, <2>2, <2>3, <2>4, WorkerWrites
<1> QED BY <1>3, <1>4 DEF RunFinish

LEMMA ContinueKeepsPlaces ==
  ASSUME PlaceInv, UNCHANGED env, ContinueGoal
  PROVE  PlaceInv'
<1> USE DEF shared, status, files
<1>1. TypeOK /\ cur \in Run /\ file[cur] \in Ended
  BY DEF ContinueGoal, PlaceInv, WorkerPlaces, TypeOK
<1>2. UNCHANGED <<shared, req>>
  BY DEF ContinueGoal
<1>3. CASE RunReturns /\ UNCHANGED files
  <2>1. TypeOK'
    BY <1>1, <1>2, <1>3 DEF TypeOK, WorkerAt, RunReturns
  <2>2. RequestsKeepRuns
    BY <1>2 DEF RequestsKeepRuns, PlaceInv, PushPlaces
  <2>3. WorkerPlaces'
    BY <1>3 DEF WorkerPlaces, RunReturns
  <2>4. WorkerKeepsRun
    BY <1>1, <1>3 DEF WorkerKeepsRun, RunReturns, Ended
  <2> QED BY <1>2, <1>3, <2>1, <2>2, <2>3, <2>4, PlacesKept
<1>4. CASE /\ ~GoalRunQueued /\ Unused # {} /\ WriteNewRun("goal") /\ cur' = FreshRun
           /\ To("continue_push") /\ UNCHANGED outcome
  <2> DEFINE r == FreshRun
  <2>1. /\ r \in Run /\ file[r] = NULL /\ r # NULL
        /\ r \notin ToSet(queue) /\ cur # r
        /\ \A u \in Task : Pushing(u) => req[u].run # r
    BY <1>4, FreshRunIsUnused, NewRunIsNowhere, RunsAssumption DEF Run
  <2>2. /\ file' = [file EXCEPT ![r] = "queued"] /\ input' = [input EXCEPT ![r] = "goal"]
        /\ abandoned' = abandoned /\ cur' = r /\ wpc' = "continue_push" /\ outcome' = outcome
    BY <1>4 DEF WriteNewRun, To
  <2> HIDE DEF r
  <2>3. /\ file' \in [Run -> RunState \cup {NULL}] /\ input' \in [Run -> Input \cup {NULL}]
        /\ file'[r] = "queued" /\ input'[r] = "goal"
        /\ \A x \in Run : x # r => file'[x] = file[x] /\ input'[x] = input[x]
    BY <1>1, <2>1, <2>2 DEF TypeOK, RunState, Input
  <2>4. TypeOK'
    BY <1>1, <1>2, <2>1, <2>2, <2>3 DEF TypeOK, WorkerAt
  <2>5. \A x \in ToSet(queue) : x \in Run /\ x # r
    BY <1>1, <2>1, InToSet DEF TypeOK
  <2>6. QueuePlaces'
    BY <1>2, <2>2, <2>3, <2>5 DEF PlaceInv, QueuePlaces
  <2>7. PushPlaces'
    BY <1>2, <2>1, <2>2, <2>3 DEF PlaceInv, PushPlaces, Pushing
  <2>8. ~GoalRunQueued'
    BY <1>2, <1>4, <2>3, <2>5 DEF GoalRunQueued
  <2>9. WorkerPlaces'
    BY <2>1, <2>2, <2>3, <2>8, NullAssumption DEF WorkerPlaces
  <2>10. Unfinished'
    <3> SUFFICES ASSUME NEW x \in Run, x \notin abandoned', file'[x] \in {"queued", "running"}
                 PROVE  Held(x)'
      BY DEF Unfinished
    <3>1. CASE x = r
      BY <2>2, <3>1 DEF Held
    <3>2. CASE x # r
      <4>1. Held(x) /\ x # cur
        BY <1>1, <2>2, <2>3, <3>2 DEF PlaceInv, Unfinished, Ended
      <4> QED BY <1>2, <4>1 DEF Held
    <3> QED BY <3>1, <3>2
  <2>11. OneGoalRun'
    BY <1>2, <2>3, <2>5 DEF PlaceInv, OneGoalRun
  <2> QED BY <2>4, <2>6, <2>7, <2>9, <2>10, <2>11 DEF PlaceInv
<1> QED BY <1>3, <1>4 DEF ContinueGoal

-----------------------------------------------------------------------------
(***************************************************************************)
(* The invariant, and what follows from it                                 *)
(***************************************************************************)

LEMMA PlaceInvInit == Init => PlaceInv
<1> SUFFICES ASSUME Init PROVE PlaceInv
  OBVIOUS
<1>1. TypeOK
  <2>1. NoRequest \in Request
    BY DEF NoRequest, Request, RequestAt, Input
  <2>2. queue \in Seq(Run) /\ queue_len \in 0..MaxRuns
    BY RunsAssumption DEF Init
  <2> QED BY <2>1, <2>2 DEF Init, TypeOK, WorkerAt
<1>2. Len(queue) = 0 /\ ToSet(queue) = {}
  BY DEF Init, ToSet
<1>3. QueuePlaces /\ OneGoalRun
  BY <1>2 DEF QueuePlaces, OneGoalRun, Distinct
<1>4. \A t \in Task : req[t].at = "idle"
  BY DEF Init, NoRequest
<1>5. PushPlaces /\ WorkerPlaces
  BY <1>4 DEF Init, PushPlaces, Pushing, WorkerPlaces
<1>6. Unfinished
  BY NullAssumption DEF Init, Unfinished
<1> QED BY <1>1, <1>3, <1>5, <1>6 DEF PlaceInv

LEMMA PlaceInvStep == PlaceInv /\ [Next]_vars => PlaceInv'
<1> SUFFICES ASSUME PlaceInv, [Next]_vars PROVE PlaceInv'
  OBVIOUS
<1>1. CASE UNCHANGED vars
  BY <1>1 DEF vars, shared, status, files, worker, PlaceInv, TypeOK, QueuePlaces, PushPlaces,
              Pushing, WorkerPlaces, GoalRunQueued, Unfinished, Held, OneGoalRun
<1>2. CASE Next
  <2>1. UNCHANGED env /\ "api" \in Task /\ "side" \in Task
    BY <1>2 DEF Next, Task
  <2>2. CASE WorkerStep
    BY <2>1, <2>2, LoopKeepsPlaces, StreamKeepsPlaces, PopKeepsPlaces, StartKeepsPlaces,
       FinishKeepsPlaces, ContinueKeepsPlaces, PushGoalKeepsPlaces DEF WorkerStep
  <2>3. ASSUME NEW t \in Task, RequestStep(t) PROVE PlaceInv'
    BY <2>1, <2>3, EnqueueKeepsPlaces, WriteKeepsPlaces, PushKeepsPlaces DEF RequestStep
  <2>4. CASE ApiStep
    BY <2>1, <2>3, <2>4, DropKeepsPlaces, CancelKeepsPlaces, ShutdownKeepsPlaces DEF ApiStep
  <2>5. CASE SideStep
    BY <2>1, <2>3, <2>5, DropKeepsPlaces, SideKeepsPlaces DEF SideStep
  <2>6. CASE NewRequest
    BY <2>1, <2>6, EnqueueKeepsPlaces, CancelKeepsPlaces, ShutdownKeepsPlaces, SideKeepsPlaces,
       DropKeepsPlaces DEF NewRequest
  <2>7. CASE RunCompletesGoal \/ ShutdownAbort
    BY <2>1, <2>7, LoopKeepsPlaces, AbortKeepsPlaces
  <2> QED BY <1>2, <2>2, <2>4, <2>5, <2>6, <2>7 DEF Next
<1> QED BY <1>1, <1>2

\* The place invariant holds throughout.
LEMMA PlacesHold == Spec => []PlaceInv
  BY PlaceInvInit, PlaceInvStep, PTL DEF Spec

\* Type correctness of the run queue.
THEOREM TypeCorrect == Spec => []TypeOK
<1>1. PlaceInv => TypeOK
  BY DEF PlaceInv
<1> QED BY <1>1, PlacesHold, PTL

\* Whatever requests, cancels, closures and shutdowns interleave with the worker, a
\* run that is queued or running is about to be pushed, in the queue once, or the
\* worker's, unless the code gave it up.
THEOREM RunsAreHeld == Spec => []NoRunForgotten
<1>1. PlaceInv => NoRunForgotten
  <2> SUFFICES ASSUME PlaceInv PROVE NoRunForgotten
    OBVIOUS
  <2>1. DOMAIN queue = 1..Len(queue)
    BY DEF PlaceInv, TypeOK
  <2>2. IsInjective(queue)
    BY <2>1 DEF PlaceInv, QueuePlaces, Distinct, IsInjective
  <2> QED BY <2>2 DEF NoRunForgotten, PlaceInv, Unfinished
<1> QED BY <1>1, PlacesHold, PTL

\* enqueue_goal_continuation never leaves two continuations waiting.
THEOREM GoalQueuedOnce == Spec => []OneContinuation
<1>1. PlaceInv => OneContinuation
  <2> SUFFICES ASSUME PlaceInv, NEW i \in 1..Len(queue), NEW j \in 1..Len(queue),
                      input[queue[i]] = "goal", input[queue[j]] = "goal"
               PROVE  i = j
    BY DEF OneContinuation
  <2>1. queue[i] \in ToSet(queue) /\ queue[j] \in ToSet(queue)
    BY InToSet DEF PlaceInv, TypeOK
  <2>2. queue[i] = queue[j]
    BY <2>1 DEF PlaceInv, OneGoalRun
  <2> QED BY <2>2 DEF PlaceInv, QueuePlaces, Distinct
<1> QED BY <1>1, PlacesHold, PTL

-----------------------------------------------------------------------------
(***************************************************************************)
(* The files of the runs                                                   *)
(***************************************************************************)

\* The five ways a file changes: a new run, a queued run that is cancelled, and the
\* start and the end of the worker's run.
FileStep ==
    \/ file' = file
    \/ \E r \in Run :
          \/ file[r] = NULL /\ file' = [file EXCEPT ![r] = "queued"]
          \/ file[r] = "queued" /\ file' = [file EXCEPT ![r] = "cancelled"]
          \/ file[r] = "queued" /\ file' = [file EXCEPT ![r] = "running"]
          \/ file[r] = "running" /\ \E o \in Ended : file' = [file EXCEPT ![r] = o]

LEMMA FilesChange ==
  ASSUME PlaceInv, Next
  PROVE  FileStep
<1> USE DEF shared, status, files, worker
<1>1. TypeOK
  BY DEF PlaceInv
<1>2. CASE WorkerStep \/ RunCompletesGoal \/ ShutdownAbort
  <2>1. CASE RunWriteStarted
    BY <1>1, <2>1 DEF RunWriteStarted, PlaceInv, WorkerPlaces, TypeOK, FileStep
  <2>2. CASE RunFinish
    BY <1>1, <2>2 DEF RunFinish, PlaceInv, WorkerPlaces, TypeOK, FileStep
  <2>3. CASE ContinueGoal
    BY <2>3, FreshRunIsUnused DEF ContinueGoal, WriteNewRun, FileStep
  <2>4. CASE ~(RunWriteStarted \/ RunFinish \/ ContinueGoal)
    <3>1. file' = file
      BY <1>2, <2>4 DEF WorkerStep, WorkerTop, WorkerLeaves, WorkerPop, WorkerWait, RunArm,
                        RunActivate, RunPrepare, RunStream, RunIdle, RunDisarm, PushGoalRun,
                        RunCompletesGoal, ShutdownAbort
    <3> QED BY <3>1 DEF FileStep
  <2> QED BY <2>1, <2>2, <2>3, <2>4
<1>3. ASSUME NEW t \in Task, RequestStep(t) PROVE FileStep
  <2>1. CASE WriteQueuedRun(t)
    BY <2>1, FreshRunIsUnused DEF WriteQueuedRun, WriteNewRun, FileStep
  <2>2. CASE ~WriteQueuedRun(t)
    BY <1>3, <2>2 DEF RequestStep, EnsureHistoryMutable, TruncateHistory, PushRun, NotifyWorker,
                      FileStep
  <2> QED BY <2>1, <2>2
<1>4. CASE ApiStep
  <2>1. CASE CancelQueued
    <3>1. req["api"].run \in ToSet(queue) /\ file[req["api"].run] = "queued"
      BY <2>1 DEF CancelQueued, PlaceInv, QueuePlaces
    <3>2. req["api"].run \in Run
      BY <1>1, <3>1, InToSet DEF TypeOK
    <3> QED BY <2>1, <3>1, <3>2 DEF CancelQueued, FileStep
  <2>2. CASE ~CancelQueued /\ ~RequestStep("api")
    BY <1>4, <2>2 DEF ApiStep, CancelNotQueued, CancelCheckActive, CancelSend, BeginShutdown,
                      ShutdownList, ShutdownNext, ShutdownActive, ShutdownNotify, ShutdownJoin,
                      FileStep
  <2> QED BY <1>3, <2>1, <2>2 DEF Task
<1>5. CASE SideStep
  <2>1. CASE ~RequestStep("side")
    BY <1>5, <2>1 DEF SideStep, ClearGoal, CloseClearQueue, CloseQueueLen, CloseSend, CloseNotify,
                      FileStep
  <2> QED BY <1>3, <2>1 DEF Task
<1>6. CASE NewRequest
  BY <1>6 DEF NewRequest, BeginEnqueue, BeginCancel, BeginEviction, BeginDelete, SetGoal,
              ClearGoalQueue, CloseAgent, FileStep
<1> QED BY <1>2, <1>4, <1>5, <1>6 DEF Next

\* A run that has ended stays as it ended, and only the worker's running run ends done
\* or error: no cancel overwrites the end of a run, no worker starts a cancelled one.
THEOREM EndsStay == Spec => EndIsFinal
<1>1. ASSUME PlaceInv, [Next]_vars
      PROVE  [\A r \in Run :
                 /\ file[r] \in Ended => file'[r] = file[r]
                 /\ file'[r] \in {"done", "error"} /\ file[r] # file'[r] => file[r] = "running"
             ]_vars
  <2>1. CASE UNCHANGED vars
    BY <2>1
  <2>2. CASE Next
    <3>1. FileStep /\ file \in [Run -> RunState \cup {NULL}]
      BY <1>1, <2>2, FilesChange DEF PlaceInv, TypeOK
    <3>2. CASE file' = file
      BY <3>2
    <3>3. CASE file' # file
      <4>1. PICK r \in Run :
               \/ file[r] = NULL /\ file' = [file EXCEPT ![r] = "queued"]
               \/ file[r] = "queued" /\ file' = [file EXCEPT ![r] = "cancelled"]
               \/ file[r] = "queued" /\ file' = [file EXCEPT ![r] = "running"]
               \/ file[r] = "running" /\ \E o \in Ended : file' = [file EXCEPT ![r] = o]
        BY <3>1, <3>3 DEF FileStep
      <4>2. \A x \in Run : x # r => file'[x] = file[x]
        BY <3>1, <4>1
      <4>3. file[r] \notin Ended
        BY <4>1, NullAssumption DEF Ended
      <4>4. file'[r] \in {"done", "error"} => file[r] = "running"
        BY <3>1, <4>1
      <4> QED BY <4>2, <4>3, <4>4
    <3> QED BY <3>2, <3>3
  <2> QED BY <1>1, <2>1, <2>2
<1> QED BY <1>1, PlacesHold, PTL DEF Spec, EndIsFinal

-----------------------------------------------------------------------------
(***************************************************************************)
(* The status                                                              *)
(***************************************************************************)

\* The worker between two runs.
Loop == {"top", "closing", "pop", "empty", "waiting", "exited"}

LengthKept ==
    \/ queue_len' = Len(queue')
    \/ UNCHANGED <<queue_len, queue>>
    \/ "iofail" \in env.faults
    \/ "agent_close" \in env.requests

ClosersKept ==
    \A t \in Task : req'[t].at \in CloserAt
        => req[t].at \in CloserAt \/ "agent_close" \in env.requests

\* Most steps leave the status as it is.
LEMMA StatusKept ==
  ASSUME StatusInv, UNCHANGED <<run_state, active, cur, env>>, abandoned \subseteq abandoned',
         wpc' = wpc \/ (wpc \in Loop /\ wpc' \in Loop) \/ wpc' = "aborted",
         LengthKept, ClosersKept
  PROVE  StatusInv'
<1>1. StatusOfWorker'
  BY DEF StatusInv, StatusOfWorker, Loop
<1>2. StatusTruthful'
  BY DEF StatusInv, StatusTruthful, LengthKept
<1>3. \A t \in Task : req'[t].at \in CloserAt => "agent_close" \in env'.requests
  BY DEF StatusInv, ClosersKept
<1> QED BY <1>1, <1>2, <1>3 DEF StatusInv

\* A request that goes anywhere but to close_for_multi_agent.
LEMMA GotoKeepsClosers ==
  ASSUME TypeOK, NEW t \in Task,
         Return(t) \/ \E at \in RequestAt \ CloserAt : Goto(t, at)
  PROVE  ClosersKept
<1>1. req'[t].at \notin CloserAt /\ \A u \in Task : u # t => req'[u] = req[u]
  BY GotoEffect, ReturnEffect DEF CloserAt
<1> QED BY <1>1 DEF ClosersKept

LEMMA EndCancelKeepsClosers ==
  ASSUME TypeOK, EndCancel
  PROVE  ClosersKept
<1>1. Return("api") \/ \E at \in RequestAt \ CloserAt : Goto("api", at)
  BY DEF EndCancel, TypeOK, Request, Task, RequestAt, CloserAt
<1> QED BY <1>1, GotoKeepsClosers DEF Task

LEMMA RequestKeepsStatus ==
  ASSUME PlaceInv, StatusInv, UNCHANGED env, NEW t \in Task,
         RequestStep(t) \/ \E in \in {"text", "history"} : BeginEnqueue(t, in)
  PROVE  StatusInv'
<1> USE DEF shared, status, files, worker
<1>1. TypeOK
  BY DEF PlaceInv
<1>2. /\ UNCHANGED <<run_state, active, cur, abandoned>>
      /\ wpc' = wpc \/ (wpc \in Loop /\ wpc' \in Loop)
      /\ LengthKept
  BY DEF RequestStep, BeginEnqueue, EnsureHistoryMutable, TruncateHistory, WriteQueuedRun,
         WriteNewRun, PushRun, NotifyWorker, NotifyOne, Loop, LengthKept
<1>3. ClosersKept
  <2>1. CASE \E in \in {"text", "history"} : BeginEnqueue(t, in)
    <3>1. PICK at \in {"mutable", "write"}, in \in {"text", "history"} :
             req' = [req EXCEPT ![t] = [NoRequest EXCEPT !.at = at, !.kind = in]]
      BY <2>1 DEF BeginEnqueue
    <3>2. req'[t].at = at /\ \A u \in Task : u # t => req'[u] = req[u]
      BY <1>1, <3>1 DEF TypeOK, NoRequest
    <3> QED BY <3>2 DEF ClosersKept, CloserAt
  <2>2. CASE EnsureHistoryMutable(t) \/ TruncateHistory(t) \/ PushRun(t) \/ NotifyWorker(t)
    <3>1. Return(t) \/ \E at \in RequestAt \ CloserAt : Goto(t, at)
      BY <2>2 DEF EnsureHistoryMutable, TruncateHistory, PushRun, NotifyWorker, RequestAt, CloserAt
    <3> QED BY <1>1, <3>1, GotoKeepsClosers
  <2>3. CASE WriteQueuedRun(t)
    <3>1. CASE Return(t)
      BY <1>1, <3>1, GotoKeepsClosers
    <3>2. CASE req' = [req EXCEPT ![t].at = "push", ![t].run = FreshRun]
      <4> DEFINE q == [[req[t] EXCEPT !.at = "push"] EXCEPT !.run = FreshRun]
      <4>1. req' = [req EXCEPT ![t] = q]
        BY <1>1, <3>2 DEF TypeOK
      <4>2. q.at = "push"
        <5>1. req[t] \in Request
          BY <1>1 DEF TypeOK
        <5> QED BY <5>1 DEF Request
      <4> HIDE DEF q
      <4>3. req'[t].at = "push" /\ \A u \in Task : u # t => req'[u] = req[u]
        BY <1>1, <4>1, <4>2 DEF TypeOK
      <4> QED BY <4>3 DEF ClosersKept, CloserAt
    <3> QED BY <2>3, <3>1, <3>2 DEF WriteQueuedRun
  <2> QED BY <2>1, <2>2, <2>3 DEF RequestStep
<1> QED BY <1>2, <1>3, StatusKept

LEMMA ApiKeepsStatus ==
  ASSUME PlaceInv, StatusInv, UNCHANGED env,
         \/ CancelQueued \/ CancelNotQueued \/ CancelCheckActive \/ CancelSend
         \/ BeginShutdown \/ ShutdownList \/ ShutdownNext \/ ShutdownActive
         \/ ShutdownNotify \/ ShutdownJoin \/ ShutdownAbort
         \/ BeginEviction \/ BeginDelete \/ \E r \in Run : BeginCancel(r)
  PROVE  StatusInv'
<1> USE DEF shared, status, files, worker
<1>1. TypeOK /\ "api" \in Task
  BY DEF PlaceInv, Task
<1>2. UNCHANGED <<run_state, active, cur>> /\ abandoned \subseteq abandoned'
  BY DEF CancelQueued, Abandon, CancelNotQueued, CancelCheckActive, CancelSend, BeginShutdown,
         ShutdownList, ShutdownNext, ShutdownActive, ShutdownNotify, ShutdownJoin, ShutdownAbort,
         BeginEviction, BeginDelete, BeginCancel
<1>3. wpc' = wpc \/ (wpc \in Loop /\ wpc' \in Loop) \/ wpc' = "aborted"
  BY DEF CancelQueued, CancelNotQueued, CancelCheckActive, CancelSend, BeginShutdown,
         ShutdownList, ShutdownNext, ShutdownActive, ShutdownNotify, NotifyOne, ShutdownJoin,
         ShutdownAbort, BeginEviction, BeginDelete, BeginCancel, Loop
<1>4. LengthKept
  BY DEF LengthKept, CancelQueued, CancelNotQueued, CancelCheckActive, CancelSend, BeginShutdown,
         ShutdownList, ShutdownNext, ShutdownActive, ShutdownNotify, ShutdownJoin, ShutdownAbort,
         BeginEviction, BeginDelete, BeginCancel
<1>5. ClosersKept
  <2>1. CASE EndCancel
    BY <1>1, <2>1, EndCancelKeepsClosers
  <2>2. CASE \E at \in RequestAt \ CloserAt : Goto("api", at)
    BY <1>1, <2>2, GotoKeepsClosers
  <2>3. ASSUME NEW r, req' = [req EXCEPT !["api"] = r], r.at \notin CloserAt PROVE ClosersKept
    BY <1>1, <2>3 DEF ClosersKept, TypeOK
  <2>4. req["api"] \in Request
    BY <1>1 DEF TypeOK
  <2>5. ASSUME NEW k, req' = [req EXCEPT !["api"].at = "evict", !["api"].kind = k]
        PROVE  ClosersKept
    <3> DEFINE q == [[req["api"] EXCEPT !.at = "evict"] EXCEPT !.kind = k]
    <3>1. req' = [req EXCEPT !["api"] = q]
      BY <1>1, <2>5 DEF TypeOK
    <3>2. q.at = "evict"
      BY <2>4 DEF Request
    <3> HIDE DEF q
    <3> QED BY <2>3, <3>1, <3>2 DEF CloserAt
  <2>6. CASE ShutdownList
    <3> DEFINE at == IF queue = <<>> THEN "stop_active" ELSE "next"
               q == [[req["api"] EXCEPT !.list = queue] EXCEPT !.at = at]
    <3>1. req' = [req EXCEPT !["api"] = q]
      BY <1>1, <2>6 DEF TypeOK, ShutdownList
    <3>2. at \notin CloserAt
      BY DEF CloserAt
    <3> HIDE DEF at
    <3>3. q.at = at
      BY <2>4 DEF Request
    <3> HIDE DEF q
    <3> QED BY <2>3, <3>1, <3>2, <3>3
  <2>7. ASSUME NEW r, NEW list, NEW then,
               req' = [req EXCEPT !["api"] = [@ EXCEPT !.at = "cancel", !.run = r,
                                                       !.list = list, !.then = then]]
        PROVE  ClosersKept
    <3> DEFINE q == [req["api"] EXCEPT !.at = "cancel", !.run = r, !.list = list, !.then = then]
    <3>1. req' = [req EXCEPT !["api"] = q]
      BY <1>1, <2>7 DEF TypeOK
    <3>2. q.at = "cancel"
      BY <2>4 DEF Request
    <3> HIDE DEF q
    <3> QED BY <2>3, <3>1, <3>2 DEF CloserAt
  <2>8. ASSUME NEW r, NEW then,
               req' = [req EXCEPT !["api"] = [@ EXCEPT !.at = "cancel", !.run = r, !.then = then]]
        PROVE  ClosersKept
    <3> DEFINE q == [req["api"] EXCEPT !.at = "cancel", !.run = r, !.then = then]
    <3>1. req' = [req EXCEPT !["api"] = q]
      BY <1>1, <2>8 DEF TypeOK
    <3>2. q.at = "cancel"
      BY <2>4 DEF Request
    <3> HIDE DEF q
    <3> QED BY <2>3, <3>1, <3>2 DEF CloserAt
  <2>9. ASSUME NEW r \in Run, BeginCancel(r) PROVE ClosersKept
    <3> DEFINE q == [NoRequest EXCEPT !.at = "cancel", !.run = r]
    <3>1. req' = [req EXCEPT !["api"] = q]
      BY <2>9 DEF BeginCancel
    <3>2. q.at = "cancel"
      BY DEF NoRequest
    <3> HIDE DEF q
    <3> QED BY <2>3, <3>1, <3>2 DEF CloserAt
  <2>10. CASE CancelQueued \/ CancelNotQueued \/ CancelCheckActive \/ CancelSend
              \/ BeginShutdown \/ ShutdownNotify \/ ShutdownJoin \/ ShutdownAbort
    BY <2>1, <2>2, <2>10 DEF CancelQueued, CancelNotQueued, CancelCheckActive, CancelSend,
       BeginShutdown, ShutdownNotify, ShutdownJoin, ShutdownAbort, RequestAt, CloserAt
  <2>11. CASE BeginEviction \/ BeginDelete
    BY <2>5, <2>11 DEF BeginEviction, BeginDelete
  <2>12. CASE ShutdownNext
    BY <2>7, <2>12 DEF ShutdownNext
  <2>13. CASE ShutdownActive
    BY <2>2, <2>8, <2>13 DEF ShutdownActive, RequestAt, CloserAt
  <2> QED BY <2>6, <2>9, <2>10, <2>11, <2>12, <2>13
<1> QED BY <1>2, <1>3, <1>4, <1>5, StatusKept

LEMMA SideKeepsStatus ==
  ASSUME PlaceInv, StatusInv, UNCHANGED env,
         \/ SetGoal \/ ClearGoalQueue \/ ClearGoal
         \/ CloseAgent /\ "agent_close" \in env.requests
         \/ CloseClearQueue \/ CloseQueueLen \/ CloseSend \/ CloseNotify \/ RunCompletesGoal
  PROVE  StatusInv'
<1> USE DEF shared, status, files, worker
<1>1. TypeOK /\ "side" \in Task
  BY DEF PlaceInv, Task
<1>2. UNCHANGED <<run_state, active, cur>> /\ abandoned \subseteq abandoned'
  BY DEF SetGoal, ClearGoalQueue, Abandon, ClearGoal, CloseAgent, CloseClearQueue, CloseQueueLen,
         CloseSend, CloseNotify, RunCompletesGoal
<1>3. wpc' = wpc \/ (wpc \in Loop /\ wpc' \in Loop)
  BY DEF SetGoal, ClearGoalQueue, ClearGoal, CloseAgent, CloseClearQueue, CloseQueueLen,
         CloseSend, CloseNotify, NotifyWaiters, RunCompletesGoal, Loop
<1>4. CASE SetGoal \/ RunCompletesGoal
  BY <1>2, <1>3, <1>4, StatusKept DEF SetGoal, RunCompletesGoal, LengthKept, ClosersKept
<1>5. CASE ClearGoalQueue \/ ClearGoal
  <2>1. ClosersKept
    BY <1>1, <1>5, GotoKeepsClosers DEF ClearGoalQueue, ClearGoal, RequestAt, CloserAt
  <2>2. LengthKept
    BY <1>5 DEF ClearGoalQueue, ClearGoal, LengthKept
  <2> QED BY <1>2, <1>3, <2>1, <2>2, StatusKept
<1>6. CASE \/ CloseAgent /\ "agent_close" \in env.requests
           \/ CloseClearQueue \/ CloseQueueLen \/ CloseSend \/ CloseNotify
  <2>1. "agent_close" \in env.requests
    BY <1>1, <1>6 DEF StatusInv, CloserAt, CloseClearQueue, CloseQueueLen, CloseSend, CloseNotify
  <2> QED BY <1>2, <1>3, <2>1, StatusKept DEF LengthKept, ClosersKept
<1> QED BY <1>4, <1>5, <1>6

\* The worker shows its run from the moment it activates it to the moment it is idle.
LEMMA WorkerKeepsStatus ==
  ASSUME PlaceInv, StatusInv, UNCHANGED env, WorkerStep
  PROVE  StatusInv'
<1> USE DEF shared, status, files, worker
<1>1. /\ TypeOK /\ WorkerPlaces /\ StatusOfWorker /\ StatusTruthful
      /\ \A r \in Run : r # NULL
  BY RunsAssumption DEF PlaceInv, StatusInv, Run
<1>2. req' = req
  BY DEF WorkerStep, WorkerTop, WorkerLeaves, WorkerPop, WorkerWait, RunArm, RunActivate,
         RunWriteStarted, RunPrepare, RunStream, RunIdle, RunDisarm, RunFinish, ContinueGoal,
         PushGoalRun
<1>3. \A t \in Task : req'[t].at \in CloserAt => "agent_close" \in env'.requests
  BY <1>2 DEF StatusInv
<1>4. UNCHANGED <<queue_len, queue>> \/ queue_len' = Len(queue')
  BY DEF WorkerStep, WorkerTop, WorkerLeaves, WorkerPop, WorkerWait, RunArm, RunActivate,
         RunWriteStarted, RunPrepare, RunStream, RunIdle, RunDisarm, RunFinish, ContinueGoal,
         PushGoalRun
<1>5. "iofail" \notin env'.faults /\ "agent_close" \notin env'.requests
         => queue_len' = Len(queue')
  BY <1>1, <1>4 DEF StatusTruthful
<1>6. /\ StatusOfWorker'
      /\ active' # NULL => run_state' = "running" /\ (cur' = active' \/ active' \in abandoned')
      /\ active' = NULL => run_state' = "idle"
  <2>1. CASE WorkerTop \/ WorkerLeaves \/ WorkerWait
    <3>1. /\ UNCHANGED <<run_state, active, cur, abandoned>>
          /\ wpc' \in {"top", "closing", "pop", "exited", "waiting"}
      BY <2>1 DEF WorkerTop, WorkerLeaves, WorkerWait, To
    <3> QED BY <1>1, <3>1 DEF StatusOfWorker, StatusTruthful
  <2>2. CASE WorkerPop
    <3>1. cur = NULL /\ UNCHANGED <<run_state, active, abandoned>> /\ wpc' \in {"empty", "arm"}
      BY <1>1, <2>2 DEF WorkerPop, WorkerPlaces, To
    <3> QED BY <1>1, <3>1 DEF StatusOfWorker, StatusTruthful
  <2>3. CASE RunArm
    BY <1>1, <2>3 DEF RunArm, To, StatusOfWorker, StatusTruthful
  <2>4. CASE RunActivate
    BY <1>1, <2>4 DEF RunActivate, To, StatusOfWorker, StatusTruthful, WorkerPlaces
  <2>5. CASE RunWriteStarted \/ RunPrepare \/ RunStream
    <3>1. /\ UNCHANGED <<run_state, active>>
          /\ active = cur /\ cur # NULL
          /\ \/ cur' = cur /\ abandoned' = abandoned /\ wpc' \in {"input", "stream", "idle"}
             \/ cur' = NULL /\ cur \in abandoned' /\ wpc' = "top"
      BY <1>1, <2>5 DEF RunWriteStarted, RunPrepare, RunStream, RunReturnsEarly, RunReturns,
                        Abandon, To, StatusOfWorker
    <3> QED BY <1>1, <3>1 DEF StatusOfWorker, StatusTruthful
  <2>6. CASE RunIdle
    BY <2>6 DEF RunIdle, To, StatusOfWorker
  <2>7. CASE RunDisarm \/ RunFinish \/ ContinueGoal \/ PushGoalRun
    <3>1. /\ UNCHANGED <<run_state, active>> /\ active = NULL
          /\ wpc' \in {"finish", "continue", "continue_push", "top"}
      BY <1>1, <2>7 DEF RunDisarm, RunFinish, ContinueGoal, PushGoalRun, RunReturnsEarly,
                        RunReturns, To, StatusOfWorker
    <3> QED BY <1>1, <3>1 DEF StatusOfWorker, StatusTruthful
  <2> QED BY <2>1, <2>2, <2>3, <2>4, <2>5, <2>6, <2>7 DEF WorkerStep
<1> QED BY <1>3, <1>5, <1>6 DEF StatusInv, StatusTruthful

\* SessionStatus tells the truth: the run it shows active is the worker's, or one that
\* returned early, and the queue length it shows is that of the queue.
THEOREM StatusIsTrue == Spec => []StatusTruthful
<1>1. Init => StatusInv
  <2> SUFFICES ASSUME Init PROVE StatusInv
    OBVIOUS
  <2>1. Len(queue) = 0 /\ \A t \in Task : req[t].at = "idle"
    BY DEF Init, NoRequest
  <2> QED BY <2>1 DEF Init, StatusInv, StatusOfWorker, StatusTruthful, CloserAt
<1>2. PlaceInv /\ StatusInv /\ [Next]_vars => StatusInv'
  <2> SUFFICES ASSUME PlaceInv, StatusInv, [Next]_vars PROVE StatusInv'
    OBVIOUS
  <2>1. CASE UNCHANGED vars
    BY <2>1 DEF vars, shared, status, files, worker, StatusInv, StatusOfWorker, StatusTruthful
  <2>2. CASE Next
    <3>1. UNCHANGED env /\ "api" \in Task /\ "side" \in Task
      BY <2>2 DEF Next, Task
    <3>2. CASE WorkerStep
      BY <3>1, <3>2, WorkerKeepsStatus
    <3>3. CASE ApiStep
      BY <3>1, <3>3, RequestKeepsStatus, ApiKeepsStatus DEF ApiStep
    <3>4. CASE SideStep
      BY <3>1, <3>4, RequestKeepsStatus, SideKeepsStatus DEF SideStep
    <3>5. CASE NewRequest
      BY <3>1, <3>5, RequestKeepsStatus, ApiKeepsStatus, SideKeepsStatus DEF NewRequest
    <3>6. CASE RunCompletesGoal \/ ShutdownAbort
      BY <3>1, <3>6, ApiKeepsStatus, SideKeepsStatus
    <3> QED BY <2>2, <3>2, <3>3, <3>4, <3>5, <3>6 DEF Next
  <2> QED BY <2>1, <2>2
<1>3. StatusInv => StatusTruthful
  BY DEF StatusInv
<1> QED BY <1>1, <1>2, <1>3, PlacesHold, PTL DEF Spec

-----------------------------------------------------------------------------
(***************************************************************************)
(* Shutdown.  Once the worker is about to leave, what is in the queue is   *)
(* what shutdown has listed and not yet cancelled; and only another        *)
(* agent's message can still be pushed.                                    *)
(***************************************************************************)
Left == {"closing", "exited"}
LateComers == {"mutable", "edit", "write", "push", "notify"}

Cancelling(q) == q.at \in {"cancel", "cancel_active", "cancel_send"}
Joining(q) ==
    \/ q.at \in {"next", "stop_active", "stop_notify", "stop_wait", "gone"}
    \/ Cancelling(q) /\ q.then # "idle"

\* The runs of the list that are not yet cancelled.
Listed(q) == ToSet(q.list) \cup (IF q.at = "cancel" THEN {q.run} ELSE {})

\* Shutdown has read the queue.
HasListed(q) == Joining(q) /\ ~(q.at = "next" /\ q.list = <<>>)

ListInv(q) == q.list # <<>> => q.at = "next" \/ (Cancelling(q) /\ q.then = "next")

NoAgentText == "agent_text" \notin env.requests

LeaveInv ==
    /\ NoAgentText => req["side"].at \notin LateComers
    /\ wpc \in Left => closing
    /\ Joining(req["api"]) => closing
    /\ ListInv(req["api"])
    /\ NoAgentText /\ wpc \in Left /\ HasListed(req["api"])
          => ToSet(queue) \subseteq Listed(req["api"])

\* Steps of the worker and of the other agents.
LEMMA LeaveKept ==
  ASSUME LeaveInv, UNCHANGED env, closing => closing', req'["api"] = req["api"],
         NoAgentText => req'["side"].at \notin LateComers,
         wpc' \in Left => closing' /\ (wpc \in Left \/ ToSet(queue') = {}),
         NoAgentText /\ wpc' \in Left => ToSet(queue') \subseteq ToSet(queue)
  PROVE  LeaveInv'
  BY DEF LeaveInv, NoAgentText, ListInv, HasListed, Joining, Cancelling, Listed

\* Steps of the api task that go on with a request other than a shutdown.
LEMMA LeaveKeptByRequest ==
  ASSUME LeaveInv, UNCHANGED <<env, closing>>, req'["side"] = req["side"],
         wpc' \in Left => wpc \in Left,
         ~Joining(req'["api"]), req'["api"].list = <<>>
  PROVE  LeaveInv'
  BY DEF LeaveInv, NoAgentText, ListInv, HasListed

\* Steps of a shutdown.
LEMMA LeaveKeptByShutdown ==
  ASSUME LeaveInv, UNCHANGED env, req'["side"] = req["side"], closing => closing',
         wpc' \in Left => wpc \in Left,
         Joining(req'["api"]) => closing', ListInv(req'["api"]),
         HasListed(req'["api"]) =>
             \/ ToSet(queue') \subseteq Listed(req'["api"])
             \/ /\ HasListed(req["api"])
                /\ ToSet(queue) \subseteq Listed(req["api"])
                      => ToSet(queue') \subseteq Listed(req'["api"])
  PROVE  LeaveInv'
  BY DEF LeaveInv, NoAgentText

LEMMA WakeLeavesNobody ==
  ASSUME NotifyOne \/ NotifyWaiters
  PROVE  wpc' \in Left => wpc \in Left
  BY DEF NotifyOne, NotifyWaiters, Left

LEMMA WorkerKeepsLeave ==
  ASSUME PlaceInv, LeaveInv, UNCHANGED env, WorkerStep \/ RunCompletesGoal
  PROVE  LeaveInv'
<1> USE DEF shared, status, files, worker
<1>1. UNCHANGED <<req, closing>>
  BY DEF WorkerStep, WorkerTop, WorkerLeaves, WorkerPop, WorkerWait, RunArm, RunActivate,
         RunWriteStarted, RunPrepare, RunCompletesGoal, RunStream, RunIdle, RunDisarm,
         RunFinish, ContinueGoal, PushGoalRun
<1>2. CASE WorkerTop
  <2>1. wpc' \in Left => closing' /\ ToSet(queue') = {}
    <3>1. ToSet(<<>>) = {}
      BY DEF ToSet
    <3> QED BY <1>1, <1>2, <3>1 DEF WorkerTop, To, Left
  <2> QED BY <1>1, <1>2, <2>1, LeaveKept DEF LeaveInv, WorkerTop
<1>3. CASE WorkerLeaves
  <2>1. wpc \in Left /\ UNCHANGED queue
    BY <1>3 DEF WorkerLeaves, Left
  <2> QED BY <1>1, <2>1, LeaveKept DEF LeaveInv
<1>4. CASE ~(WorkerTop \/ WorkerLeaves)
  <2>1. wpc' \notin Left
    BY <1>4 DEF WorkerStep, WorkerPop, WorkerWait, RunArm, RunActivate, RunWriteStarted,
                RunPrepare, RunCompletesGoal, RunStream, RunIdle, RunDisarm, RunFinish,
                ContinueGoal, PushGoalRun, RunReturnsEarly, RunReturns, To, Left
  <2> QED BY <1>1, <2>1, LeaveKept DEF LeaveInv
<1> QED BY <1>2, <1>3, <1>4

LEMMA SideKeepsLeave ==
  ASSUME PlaceInv, LeaveInv, UNCHANGED env,
         \/ SideStep \/ SetGoal \/ ClearGoalQueue \/ CloseAgent
         \/ "agent_text" \in env.requests /\ BeginEnqueue("side", "text")
  PROVE  LeaveInv'
<1> USE DEF shared, status, files, worker
<1> DEFINE AgentText == "agent_text" \in env.requests /\ BeginEnqueue("side", "text")
<1>1. TypeOK /\ "api" \in Task /\ "side" \in Task
  BY DEF PlaceInv, Task
<1>2. CASE RequestStep("side") \/ AgentText
  <2>1. /\ req["side"].at \in LateComers \/ ~NoAgentText
        /\ UNCHANGED closing
    BY <1>2 DEF RequestStep, EnsureHistoryMutable, TruncateHistory, WriteQueuedRun, PushRun,
                NotifyWorker, BeginEnqueue, LateComers, NoAgentText
  <2>2. ~NoAgentText
    BY <2>1 DEF LeaveInv
  <2>3. req'["api"] = req["api"]
    BY <1>1, <1>2 DEF RequestStep, EnsureHistoryMutable, TruncateHistory, WriteQueuedRun, PushRun,
                      NotifyWorker, BeginEnqueue, Goto, Return, TypeOK
  <2>4. wpc' \in Left => wpc \in Left
    BY <1>2, WakeLeavesNobody DEF RequestStep, EnsureHistoryMutable, TruncateHistory, WriteQueuedRun,
                      PushRun, NotifyWorker, BeginEnqueue
  <2> QED BY <2>1, <2>2, <2>3, <2>4, LeaveKept DEF LeaveInv
<1>3. CASE ~(RequestStep("side") \/ AgentText)
  <2>1. req'["api"] = req["api"] /\ (req'["side"] = req["side"] \/ req'["side"].at \notin LateComers)
    <3>1. \/ req' = req \/ Return("side")
          \/ \E at \in RequestAt \ LateComers : Goto("side", at)
      BY <1>3 DEF SideStep, SetGoal, ClearGoalQueue, CloseAgent, ClearGoal, CloseClearQueue,
                  CloseQueueLen, CloseSend, CloseNotify, RequestAt, LateComers
    <3> QED BY <1>1, <3>1, GotoEffect, ReturnEffect DEF LateComers
  <2>2. closing => closing'
    BY <1>3 DEF SideStep, SetGoal, ClearGoalQueue, CloseAgent, ClearGoal, CloseClearQueue,
                CloseQueueLen, CloseSend, CloseNotify
  <2>3. wpc' \in Left => wpc \in Left
    BY <1>3, WakeLeavesNobody DEF SideStep, SetGoal, ClearGoalQueue, CloseAgent, ClearGoal,
                CloseClearQueue, CloseQueueLen, CloseSend, CloseNotify
  <2>4. ToSet(queue') \subseteq ToSet(queue)
    <3>1. CASE queue' = queue
      BY <3>1
    <3>2. CASE queue' = <<>>
      BY <3>2 DEF ToSet
    <3>3. CASE ClearGoalQueue
      BY <1>1, <3>3, WithoutProperties DEF ClearGoalQueue, PlaceInv, QueuePlaces, TypeOK
    <3> QED BY <1>3, <3>1, <3>2, <3>3 DEF SideStep, SetGoal, ClearGoalQueue, CloseAgent, ClearGoal,
                CloseClearQueue, CloseQueueLen, CloseSend, CloseNotify
  <2> QED BY <2>1, <2>2, <2>3, <2>4, LeaveKept DEF LeaveInv
<1> QED BY <1>2, <1>3

\* Return and Goto of the api task.
LEMMA ApiGoto ==
  ASSUME TypeOK, NEW at \in RequestAt, Goto("api", at)
  PROVE  /\ req'["side"] = req["side"]
         /\ req'["api"].at = at /\ req'["api"].list = req["api"].list
         /\ req'["api"].run = req["api"].run /\ req'["api"].then = req["api"].then
<1>1. req["api"] \in Request /\ "api" \in Task /\ "side" \in Task
  BY DEF TypeOK, Task
<1> QED BY <1>1 DEF TypeOK, Goto, Request

LEMMA ApiReturn ==
  ASSUME TypeOK, Return("api")
  PROVE  req'["side"] = req["side"] /\ req'["api"] = NoRequest
<1>1. "api" \in Task /\ "side" \in Task
  BY DEF Task
<1> QED BY <1>1 DEF TypeOK, Return

LEMMA EnqueueKeepsLeave ==
  ASSUME PlaceInv, LeaveInv, UNCHANGED env,
         \/ RequestStep("api") \/ \E in \in {"text", "history"} : BeginEnqueue("api", in)
         \/ \E r \in Run : BeginCancel(r)
         \/ BeginEviction \/ BeginDelete
  PROVE  LeaveInv'
<1> USE DEF shared, status, files, worker
<1>1. TypeOK /\ "api" \in Task /\ "side" \in Task /\ req["api"] \in Request
  BY DEF PlaceInv, TypeOK, Task
<1>2. req["api"].at \notin {"next", "cancel", "cancel_active", "cancel_send"}
  BY DEF RequestStep, EnsureHistoryMutable, TruncateHistory, WriteQueuedRun, PushRun,
         NotifyWorker, BeginEnqueue, BeginCancel, BeginEviction, BeginDelete
<1>3. req["api"].list = <<>>
  BY <1>2 DEF LeaveInv, ListInv, Cancelling
<1>4. UNCHANGED closing
  BY DEF RequestStep, EnsureHistoryMutable, TruncateHistory, WriteQueuedRun, PushRun,
         NotifyWorker, BeginEnqueue, BeginCancel, BeginEviction, BeginDelete
<1>5. wpc' \in Left => wpc \in Left
  BY WakeLeavesNobody DEF RequestStep, EnsureHistoryMutable, TruncateHistory, WriteQueuedRun,
         PushRun, NotifyWorker, BeginEnqueue, BeginCancel, BeginEviction, BeginDelete
<1> DEFINE Places == {"idle", "evict", "mutable", "edit", "write", "push", "notify"}
<1>6. /\ req'["side"] = req["side"]
      /\ req'["api"].list = <<>>
      /\ \/ req'["api"].at \in Places
         \/ req'["api"].at = "cancel" /\ req'["api"].then = "idle"
  <2>1. CASE Return("api")
    BY <1>1, <2>1, ApiReturn DEF NoRequest
  <2>2. CASE \E at \in Places : Goto("api", at)
    BY <1>1, <1>3, <2>2, ApiGoto DEF RequestAt
  <2>3. CASE WriteQueuedRun("api") /\ ~Return("api")
    <3>1. req' = [req EXCEPT !["api"].at = "push", !["api"].run = FreshRun]
      BY <2>3 DEF WriteQueuedRun
    <3>2. /\ req'["side"] = req["side"] /\ req'["api"].list = req["api"].list
          /\ req'["api"].at = "push"
      BY <1>1, <3>1 DEF TypeOK, Request
    <3> QED BY <1>3, <3>2
  <2>4. CASE \E in \in {"text", "history"} : BeginEnqueue("api", in)
    <3>1. PICK at \in {"mutable", "write"}, in \in {"text", "history"} :
             req' = [req EXCEPT !["api"] = [NoRequest EXCEPT !.at = at, !.kind = in]]
      BY <2>4 DEF BeginEnqueue
    <3> QED BY <1>1, <3>1 DEF TypeOK, NoRequest
  <2>5. CASE \E r \in Run : BeginCancel(r)
    <3>1. PICK r \in Run :
             req' = [req EXCEPT !["api"] = [NoRequest EXCEPT !.at = "cancel", !.run = r]]
      BY <2>5 DEF BeginCancel
    <3> QED BY <1>1, <3>1 DEF TypeOK, NoRequest
  <2>6. CASE BeginEviction \/ BeginDelete
    <3>1. PICK k \in {"evict", "delete"} :
             req' = [req EXCEPT !["api"].at = "evict", !["api"].kind = k]
      BY <2>6 DEF BeginEviction, BeginDelete
    <3>2. /\ req'["side"] = req["side"] /\ req'["api"].list = req["api"].list
          /\ req'["api"].at = "evict"
      BY <1>1, <3>1 DEF TypeOK, Request
    <3> QED BY <1>3, <3>2
  <2> QED BY <2>1, <2>2, <2>3, <2>4, <2>5, <2>6 DEF RequestStep, EnsureHistoryMutable,
             TruncateHistory, PushRun, NotifyWorker
<1>7. ~Joining(req'["api"])
  BY <1>6 DEF Joining, Cancelling
<1> QED BY <1>4, <1>5, <1>6, <1>7, LeaveKeptByRequest

LEMMA EndCancelEffect ==
  ASSUME TypeOK, EndCancel
  PROVE  /\ req'["side"] = req["side"]
         /\ req["api"].then = "idle" => req'["api"] = NoRequest
         /\ req["api"].then # "idle" =>
               /\ req'["api"].at = req["api"].then
               /\ req'["api"].list = req["api"].list /\ req'["api"].then = req["api"].then
<1>1. req["api"] \in Request
  BY DEF TypeOK, Task
<1>2. CASE req["api"].then = "idle"
  BY <1>2, ApiReturn DEF EndCancel
<1>3. CASE req["api"].then # "idle"
  <2>1. req["api"].then \in RequestAt
    BY <1>1 DEF Request, RequestAt
  <2> QED BY <1>3, <2>1, ApiGoto DEF EndCancel
<1> QED BY <1>2, <1>3

\* cancel_run, on its own or for a shutdown: a queued run leaves the queue before
\* shutdown goes on.
LEMMA CancelKeepsLeave ==
  ASSUME PlaceInv, LeaveInv, UNCHANGED env,
         CancelQueued \/ CancelNotQueued \/ CancelCheckActive \/ CancelSend
  PROVE  LeaveInv'
<1> USE DEF shared, status, files, worker
<1> DEFINE q == req["api"]
<1>1. TypeOK /\ q \in Request
  BY DEF PlaceInv, TypeOK, Task
<1>2. UNCHANGED <<closing, wpc>> /\ Cancelling(q)
  BY DEF CancelQueued, CancelNotQueued, CancelCheckActive, CancelSend, Cancelling
<1>3. ToSet(queue') \subseteq ToSet(queue) /\ (q.at = "cancel" => q.run \notin ToSet(queue'))
  <2>1. CASE CancelQueued
    BY <2>1, WithoutProperties DEF CancelQueued, PlaceInv, QueuePlaces, TypeOK
  <2>2. CASE ~CancelQueued
    BY <2>2 DEF CancelNotQueued, CancelCheckActive, CancelSend
  <2> QED BY <2>1, <2>2
<1>4. CASE EndCancel
  <2>1. CASE q.then = "idle"
    <3>1. ~Joining(req'["api"]) /\ req'["api"].list = <<>> /\ req'["side"] = req["side"]
      BY <1>1, <1>4, <2>1, EndCancelEffect DEF NoRequest, Joining, Cancelling
    <3> QED BY <1>2, <3>1, LeaveKeptByRequest
  <2>2. CASE q.then # "idle"
    <3>1. /\ req'["side"] = req["side"] /\ req'["api"].list = q.list
          /\ req'["api"].at = q.then /\ req'["api"].then = q.then
      BY <1>1, <1>4, <2>2, EndCancelEffect
    <3>2. Joining(q) /\ HasListed(q)
      BY <1>2, <2>2 DEF Joining, HasListed, Cancelling
    <3>3. ListInv(req'["api"])
      BY <1>2, <3>1 DEF LeaveInv, ListInv, Cancelling
    <3>4. ToSet(queue) \subseteq Listed(q) => ToSet(queue') \subseteq Listed(req'["api"])
      BY <1>3, <3>1 DEF Listed
    <3>5. closing'
      BY <1>2, <3>2 DEF LeaveInv
    <3> QED BY <1>2, <3>1, <3>2, <3>3, <3>4, <3>5, LeaveKeptByShutdown
  <2> QED BY <2>1, <2>2
<1>5. CASE ~EndCancel
  <2>1. /\ req'["side"] = req["side"] /\ req'["api"].list = q.list
        /\ req'["api"].at \in {"cancel_active", "cancel_send"} /\ req'["api"].then = q.then
    <3>1. \E at \in {"cancel_active", "cancel_send"} : Goto("api", at)
      BY <1>5 DEF CancelQueued, CancelNotQueued, CancelCheckActive, CancelSend
    <3> QED BY <1>1, <3>1, ApiGoto DEF RequestAt
  <2>2. ListInv(req'["api"]) /\ (Joining(req'["api"]) <=> Joining(q))
    BY <1>2, <2>1 DEF LeaveInv, ListInv, Cancelling, Joining
  <2>3. HasListed(req'["api"]) => HasListed(q)
    BY <1>2, <2>2 DEF HasListed, Cancelling
  <2>4. ToSet(queue) \subseteq Listed(q) => ToSet(queue') \subseteq Listed(req'["api"])
    BY <1>3, <2>1 DEF Listed
  <2> QED BY <1>2, <2>1, <2>2, <2>3, <2>4, LeaveKeptByShutdown DEF LeaveInv
<1> QED BY <1>4, <1>5

LEMMA ShutdownKeepsLeave ==
  ASSUME PlaceInv, LeaveInv, UNCHANGED env,
         \/ BeginShutdown \/ ShutdownList \/ ShutdownNext \/ ShutdownActive
         \/ ShutdownNotify \/ ShutdownJoin \/ ShutdownAbort
  PROVE  LeaveInv'
<1> USE DEF shared, status, files, worker
<1> DEFINE q == req["api"]
<1>1. TypeOK /\ q \in Request /\ "api" \in Task /\ "side" \in Task /\ queue \in Seq(Run)
  BY DEF PlaceInv, TypeOK, Task
<1>2. /\ UNCHANGED queue /\ (closing => closing')
      /\ wpc' \in Left => wpc \in Left
  BY WakeLeavesNobody DEF BeginShutdown, ShutdownList, ShutdownNext, ShutdownActive,
     ShutdownNotify, ShutdownJoin, ShutdownAbort, Left
<1>3. CASE BeginShutdown
  <2>1. /\ req'["side"] = req["side"] /\ req'["api"].at = "next"
        /\ req'["api"].list = <<>> /\ closing'
    BY <1>1, <1>3, ApiGoto DEF BeginShutdown, RequestAt, LeaveInv, ListInv, Cancelling
  <2> QED BY <1>2, <2>1, LeaveKeptByShutdown DEF HasListed, ListInv
<1>4. CASE ShutdownList
  <2> DEFINE at == IF queue = <<>> THEN "stop_active" ELSE "next"
             n == [[q EXCEPT !.list = queue] EXCEPT !.at = at]
  <2>1. req' = [req EXCEPT !["api"] = n]
    BY <1>1, <1>4 DEF ShutdownList, TypeOK
  <2>2. n.at = at /\ n.list = queue /\ n.then = q.then
    BY <1>1 DEF Request
  <2> HIDE DEF n
  <2>3. req'["api"] = n /\ req'["side"] = req["side"]
    BY <1>1, <2>1 DEF TypeOK
  <2>4. ListInv(n)
    BY <2>2 DEF ListInv
  <2>5. ToSet(queue) \subseteq Listed(n)
    BY <2>2 DEF Listed
  <2>6. closing'
    BY <1>2, <1>4 DEF ShutdownList, LeaveInv, Joining
  <2> QED BY <1>2, <2>3, <2>4, <2>5, <2>6, LeaveKeptByShutdown
<1>5. CASE ShutdownNext
  <2> DEFINE rest == Tail(q.list)
             n == [q EXCEPT !.at = "cancel", !.run = Head(q.list), !.list = rest,
                            !.then = IF rest = <<>> THEN "stop_active" ELSE "next"]
  <2>1. q.at = "next" /\ q.list # <<>> /\ q.list \in Seq(Run)
    BY <1>1, <1>5 DEF ShutdownNext, Request
  <2>2. req' = [req EXCEPT !["api"] = n]
    BY <1>5 DEF ShutdownNext
  <2>3. /\ n.at = "cancel" /\ n.run = Head(q.list) /\ n.list = rest
        /\ n.then = IF rest = <<>> THEN "stop_active" ELSE "next"
    BY <1>1 DEF Request
  <2> HIDE DEF n
  <2>4. req'["api"] = n /\ req'["side"] = req["side"]
    BY <1>1, <2>2 DEF TypeOK
  <2>5. ListInv(n)
    BY <2>3 DEF ListInv, Cancelling
  <2>6. ToSet(q.list) \subseteq ToSet(rest) \cup {Head(q.list)}
    <3>1. /\ Len(rest) = Len(q.list) - 1 /\ DOMAIN rest = 1..Len(rest)
          /\ \A i \in 1..Len(rest) : rest[i] = q.list[i + 1]
          /\ DOMAIN q.list = 1..Len(q.list) /\ Head(q.list) = q.list[1]
          /\ Len(q.list) \in Nat
      BY <2>1
    <3> HIDE DEF rest
    <3>2. \A i \in 1..Len(q.list) : i = 1 \/ (i - 1 \in 1..Len(rest) /\ rest[i - 1] = q.list[i])
      BY <3>1
    <3> SUFFICES ASSUME NEW i \in 1..Len(q.list)
                 PROVE  q.list[i] \in ToSet(rest) \cup {q.list[1]}
      BY <3>1 DEF ToSet
    <3>3. CASE i = 1
      BY <3>3
    <3>4. CASE i # 1
      <4>1. i - 1 \in DOMAIN rest /\ rest[i - 1] = q.list[i]
        BY <3>1, <3>2, <3>4
      <4> QED BY <4>1 DEF ToSet
    <3> QED BY <3>3, <3>4
  <2>7. Listed(q) \subseteq Listed(n)
    BY <2>1, <2>3, <2>6 DEF Listed
  <2>8. HasListed(q) /\ closing'
    BY <1>2, <2>1 DEF HasListed, Joining, LeaveInv
  <2> HIDE DEF rest
  <2> QED BY <1>2, <2>4, <2>5, <2>7, <2>8, LeaveKeptByShutdown
<1>6. CASE ShutdownActive \/ ShutdownNotify \/ ShutdownJoin \/ ShutdownAbort
  <2>1. q.at \in {"stop_active", "stop_notify", "stop_wait"}
    BY <1>6 DEF ShutdownActive, ShutdownNotify, ShutdownJoin, ShutdownAbort
  <2>2. q.list = <<>> /\ closing' /\ HasListed(q)
    BY <1>2, <2>1 DEF LeaveInv, ListInv, Cancelling, Joining, HasListed
  <2>3. req'["side"] = req["side"] /\ req'["api"].list = <<>>
    <3>1. CASE \E at \in RequestAt : Goto("api", at)
      BY <1>1, <2>2, <3>1, ApiGoto
    <3>2. CASE req' = [req EXCEPT !["api"] = [@ EXCEPT !.at = "cancel", !.run = active,
                                                       !.then = "stop_notify"]]
      BY <1>1, <2>2, <3>2 DEF TypeOK, Request
    <3> QED BY <1>6, <3>1, <3>2 DEF ShutdownActive, ShutdownNotify, ShutdownJoin, ShutdownAbort,
                                   RequestAt
  <2>4. Listed(q) \subseteq Listed(req'["api"]) /\ ListInv(req'["api"])
    BY <2>1, <2>2, <2>3 DEF Listed, ListInv
  <2> QED BY <1>2, <2>2, <2>3, <2>4, LeaveKeptByShutdown
<1> QED BY <1>3, <1>4, <1>5, <1>6

LEMMA LeaveInvStep == PlaceInv /\ LeaveInv /\ [Next]_vars => LeaveInv'
<1> SUFFICES ASSUME PlaceInv, LeaveInv, [Next]_vars PROVE LeaveInv'
  OBVIOUS
<1>1. CASE UNCHANGED vars
  <2>1. UNCHANGED <<env, closing, req, wpc, queue>>
    BY <1>1 DEF vars, shared, worker
  <2> QED BY <2>1, LeaveKept DEF LeaveInv
<1>2. CASE Next
  <2>1. UNCHANGED env
    BY <1>2 DEF Next
  <2>2. CASE WorkerStep \/ RunCompletesGoal
    BY <2>1, <2>2, WorkerKeepsLeave
  <2>3. CASE ApiStep \/ ShutdownAbort
    BY <2>1, <2>3, EnqueueKeepsLeave, CancelKeepsLeave, ShutdownKeepsLeave DEF ApiStep
  <2>4. CASE SideStep
    BY <2>1, <2>4, SideKeepsLeave
  <2>5. CASE NewRequest
    BY <2>1, <2>5, EnqueueKeepsLeave, SideKeepsLeave DEF NewRequest
  <2> QED BY <1>2, <2>2, <2>3, <2>4, <2>5 DEF Next
<1> QED BY <1>1, <1>2

\* Whatever is queued, cancelled or finished while shutdown works through its list, a
\* session whose worker ended by itself is left without an unfinished run, but for a
\* message another agent began before the session was closing.
THEOREM ShutdownFinishesRuns == Spec => []ShutdownLeavesNoRun
<1>1. Init => LeaveInv
  <2> SUFFICES ASSUME Init PROVE LeaveInv
    OBVIOUS
  <2>1. req["api"] = NoRequest /\ req["side"] = NoRequest
    BY DEF Init, Task
  <2> QED BY <2>1 DEF Init, NoRequest, LeaveInv, LateComers, Left, Joining, Cancelling, ListInv,
                      HasListed
<1>2. PlaceInv /\ LeaveInv => ShutdownLeavesNoRun
  <2> SUFFICES ASSUME PlaceInv, LeaveInv, req["api"].at = "gone", wpc = "exited", NoAgentText,
                      NEW r \in Run \ abandoned, file[r] \in {"queued", "running"}
               PROVE  FALSE
    BY DEF ShutdownLeavesNoRun, NoAgentText
  <2>1. req["api"].list = <<>> /\ HasListed(req["api"])
    BY DEF LeaveInv, ListInv, Cancelling, HasListed, Joining
  <2>2. ToSet(queue) = {}
    BY <2>1 DEF LeaveInv, Left, Listed, ToSet
  <2>3. cur = NULL /\ cur # r
    BY RunsAssumption DEF PlaceInv, WorkerPlaces, Run
  <2>4. \A t \in Task : req[t].at # "push"
    BY DEF LeaveInv, LateComers, Task
  <2> QED BY <2>2, <2>3, <2>4 DEF PlaceInv, Unfinished, Held
<1> QED BY <1>1, <1>2, LeaveInvStep, PlacesHold, PTL DEF Spec
===============================================================================
