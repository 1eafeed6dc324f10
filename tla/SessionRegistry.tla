--------------------------- MODULE SessionRegistry ---------------------------
(***************************************************************************)
(* The registry of live sessions and the idempotency cache of the server   *)
(* (state/server_state.rs): which requests hold the lifecycle lock of a    *)
(* session while they find, resume, evict or delete it, and which go on    *)
(* with the session they found after releasing it.                         *)
(*                                                                         *)
(* A live session is a copy of what is on disk.  A session that is evicted *)
(* and resumed has two copies in memory as long as a request keeps the old *)
(* one.  The run queue of a copy is RunQueue's; here it is a number.       *)
(***************************************************************************)
EXTENDS Naturals, Sequences, FiniteSets, Functions

CONSTANTS Sessions,   \* session ids
          Stored,     \* the ones on disk at the start
          Keys,       \* idempotency keys
          Requests,   \* concurrent requests
          MaxLive,    \* server.max_live_sessions
          LiveTtl,    \* server.live_session_idle_ttl_secs, in accesses
          IdemMax,    \* server.idempotency_max_entries
          IdemTtl,    \* server.idempotency_ttl_secs, in accesses
          MaxOps,     \* bound on requests
          NULL        \* Option::None

ASSUME RegistryNull == NULL \notin Sessions \cup Keys \cup Requests \cup Nat

ASSUME RegistryBounds ==
    /\ IsFiniteSet(Keys)
    /\ Stored \subseteq Sessions
    /\ {MaxLive, LiveTtl, IdemMax, IdemTtl, MaxOps} \subseteq Nat

VARIABLES
    disk,       \* per session: NULL, or the last seq in its log
    root,       \* per session: the session whose temporary workspace it uses
    dirs,       \* the workspaces that exist, named by their first session
    copies,     \* every LiveSession made so far: session, seq, closing, runs
    live,       \* ServerState::sessions: copy and last access
    lock,       \* session_lifecycle_locks: the request that holds it
    idem,       \* ServerState::idempotency
    req,        \* the requests in progress
    clock,      \* now_ms
    ops,        \* requests so far
    deleted,    \* sessions deleted (history)
    reused,     \* sessions with a seq written twice (history)
    stray,      \* sessions written through a copy that is not the live one, or resumed
                \* or deleted before their creation was registered (history)
    made,       \* per key: runs or sessions created (history)
    puts,       \* per key: when it was last stored (history)
    excused     \* keys that two requests used at once, or that were stored and are no
                \* longer in the cache when used again (history)

history == <<deleted, reused, stray, made, puts, excused>>
vars == <<disk, root, dirs, copies, live, lock, idem, req, clock, ops, history>>

None == [op |-> "none", at |-> "none", sess |-> NULL, key |-> NULL, copy |-> 0,
         src |-> NULL, todo |-> {}]

Init ==
    /\ disk = [s \in Sessions |-> IF s \in Stored THEN 1 ELSE NULL]
    /\ root = [s \in Sessions |-> s] /\ dirs = Stored
    /\ copies = <<>> /\ live = << >> /\ lock = [s \in Sessions |-> NULL]
    /\ idem = << >> /\ req = [r \in Requests |-> None] /\ clock = 0 /\ ops = 0
    /\ deleted = {} /\ reused = {} /\ stray = {}
    /\ made = [k \in Keys |-> 0] /\ puts = [k \in Keys |-> NULL] /\ excused = {}

-----------------------------------------------------------------------------
\* The idempotency cache

Fresh(map) == IF IdemTtl = 0 THEN map
              ELSE Restrict(map, {k \in DOMAIN map : clock <= map[k].ts + IdemTtl})

\* idempotency_get
IdemGet(k) == IF IdemMax = 0 THEN << >> ELSE Fresh(idem)

\* Mutant: a full cache drops the newest entry.
IdemPutNewest(k, v) ==
    LET map == Fresh(idem)
    IN  IF IdemMax = 0 \/ (Cardinality(DOMAIN map) >= IdemMax /\ k \notin DOMAIN map)
        THEN map
        ELSE [j \in DOMAIN map \cup {k} |-> IF j = k THEN [val |-> v, ts |-> clock] ELSE map[j]]

\* idempotency_put: the entry, and out with the oldest ones beyond the maximum
IdemPut(k, v) ==
    LET map == [j \in DOMAIN Fresh(idem) \cup {k} |->
                   IF j = k THEN [val |-> v, ts |-> clock] ELSE idem[j]]
        newer(j) == {i \in DOMAIN map : map[i].ts > map[j].ts}
    IN  IF IdemMax = 0 THEN << >>
        ELSE Restrict(map, {j \in DOMAIN map : Cardinality(newer(j)) < IdemMax})

-----------------------------------------------------------------------------
\* Requests

Registered(s) == s \in DOMAIN live /\ ~copies[live[s].copy].closing
Insert(s, c) ==
    live' = [x \in DOMAIN live \cup {s} |->
                IF x = s THEN [copy |-> c, access |-> clock + 1] ELSE live[x]]
Tick == clock' = clock + 1

NewCopy(s, seq) == Append(copies, [sess |-> s, seq |-> seq, closing |-> FALSE, runs |-> 0])

\* A session that is on disk, and will be inserted by the request that creates it.
Registering(s) == \E q \in Requests : req[q].at = "register" /\ req[q].sess = s
MarkEarly(s) == stray' = IF Registering(s) THEN stray \cup {s} ELSE stray

Step(r, at) == req' = [req EXCEPT ![r].at = at]
Done(r) == req' = [req EXCEPT ![r] = None]

\* A request arrives; with a key, the cache answers it or not.
Begin(r, op, s, k) ==
    LET hit == k # NULL /\ k \in DOMAIN IdemGet(k)
        fresh == [None EXCEPT !.op = op, !.sess = s, !.key = k]
    IN  /\ req[r].op = "none" /\ ops < MaxOps
        /\ op \in {"create", "fork"} =>
              s \notin deleted /\ disk[s] = NULL /\ \A q \in Requests : req[q].sess # s
        /\ op \notin {"create", "fork"} => disk[s] # NULL \/ s \in deleted
        /\ op \notin {"create", "run"} => k = NULL
        /\ ops' = ops + 1
        /\ idem' = IF k # NULL /\ IdemMax > 0 THEN IdemGet(k) ELSE idem
        /\ excused' = IF k # NULL /\ \/ \E q \in Requests : req[q].key = k
                                     \/ ~hit /\ puts[k] # NULL
                      THEN excused \cup {k} ELSE excused
        /\ \/ /\ hit /\ op = "run" /\ UNCHANGED req
           \/ /\ hit /\ op = "create"
              /\ req' = [req EXCEPT ![r] = [None EXCEPT !.op = "look", !.at = "lock",
                                                        !.sess = idem[k].val]]
           \/ /\ ~hit /\ op = "create"
              /\ req' = [req EXCEPT ![r] = [fresh EXCEPT !.at = "make"]]
           \/ /\ ~hit /\ op = "fork"
              /\ \E src \in Sessions \ {s} :
                    /\ disk[src] # NULL
                    /\ req' = [req EXCEPT ![r] = [fresh EXCEPT !.at = "dir", !.src = src]]
           \/ /\ ~hit /\ op \notin {"create", "fork"}
              /\ req' = [req EXCEPT ![r] = [fresh EXCEPT !.at = "lock"]]
        /\ UNCHANGED <<disk, root, dirs, copies, live, lock, clock, deleted, reused, stray,
                       made, puts>>

\* session_lifecycle_lock
Lock(r) ==
    /\ req[r].at = "lock" /\ lock[req[r].sess] = NULL
    /\ lock' = [lock EXCEPT ![req[r].sess] = r]
    /\ Step(r, "held")
    /\ UNCHANGED <<disk, root, dirs, copies, live, idem, clock, ops, history>>

\* get_live_locked and ensure_live_locked: the live copy, or a new one from disk.
\* Without auto_resume a run asks only for a session that is live.
Find(r) ==
    LET s == req[r].sess
    IN  /\ req[r].at = "held" /\ req[r].op \in {"look", "goal", "patch", "run"}
        /\ Tick
        /\ \/ /\ Registered(s)
              /\ Insert(s, live[s].copy) /\ UNCHANGED <<copies, lock, dirs, stray>>
              /\ req' = [req EXCEPT ![r].at = "found", ![r].copy = live[s].copy]
           \/ /\ ~Registered(s) /\ disk[s] # NULL
              /\ copies' = NewCopy(s, disk[s]) /\ dirs' = dirs \cup {root[s]}
              /\ Insert(s, Len(copies) + 1) /\ MarkEarly(s) /\ UNCHANGED lock
              /\ req' = [req EXCEPT ![r].at = "found", ![r].copy = Len(copies) + 1]
           \/ /\ ~Registered(s) /\ (disk[s] = NULL \/ req[r].op = "run")
              /\ live' = Restrict(live, DOMAIN live \ {s})
              /\ lock' = [lock EXCEPT ![s] = NULL]
              /\ Done(r) /\ UNCHANGED <<copies, dirs, stray>>
        /\ UNCHANGED <<disk, root, idem, ops, deleted, reused, made, puts, excused>>

\* Mutant: the lock is released before the run is queued.
ReleaseBeforeQueue(r) ==
    LET s == req[r].sess
    IN  /\ req[r].at = "found"
        /\ IF lock[s] = r
           THEN lock' = [lock EXCEPT ![s] = NULL] /\ UNCHANGED <<copies, req, made>>
           ELSE /\ copies' = IF req[r].op = "run"
                             THEN [copies EXCEPT ![req[r].copy].runs = @ + 1] ELSE copies
                /\ made' = made /\ UNCHANGED lock
                /\ Step(r, "limit")
        /\ UNCHANGED <<disk, root, dirs, live, idem, clock, ops, deleted, reused, stray,
                       puts, excused>>

\* A run is queued under the lock (enqueue_run); then every request releases it.
Release(r) ==
    LET s == req[r].sess
        queues == req[r].op = "run"
    IN  /\ req[r].at = "found"
        /\ lock' = [lock EXCEPT ![s] = NULL]
        /\ copies' = IF queues THEN [copies EXCEPT ![req[r].copy].runs = @ + 1] ELSE copies
        /\ made' = IF queues /\ req[r].key # NULL THEN [made EXCEPT ![req[r].key] = @ + 1]
                                                  ELSE made
        /\ Step(r, "limit")
        /\ UNCHANGED <<disk, root, dirs, live, idem, clock, ops, deleted, reused, stray,
                       puts, excused>>

\* fork_session has loaded its source; it makes sure of the workspace ...
ForkDir(r) ==
    /\ req[r].at = "dir"
    /\ dirs' = dirs \cup {root[req[r].src]}
    /\ Step(r, "make")
    /\ UNCHANGED <<disk, root, copies, live, lock, idem, clock, ops, history>>

\* ... and, like create_session_inner, creates the session.  No lifecycle lock is taken:
\* the id is new, but on disk it can be listed.  A fork shares its source's workspace.
Make(r) ==
    LET s == req[r].sess
        src == req[r].src
    IN  /\ req[r].at = "make"
        /\ disk' = [disk EXCEPT ![s] = 1]
        /\ root' = [root EXCEPT ![s] = IF src = NULL THEN s ELSE root[src]]
        /\ dirs' = IF src = NULL THEN dirs \cup {s} ELSE dirs
        /\ made' = IF req[r].key # NULL THEN [made EXCEPT ![req[r].key] = @ + 1] ELSE made
        /\ req' = [req EXCEPT ![r].at = "register", ![r].src = NULL]
        /\ UNCHANGED <<copies, live, lock, idem, clock, ops, deleted, reused, stray, 
                       puts, excused>>

\* A checkpoint, the live copy, and its entry in the registry.
Register(r) ==
    LET s == req[r].sess
    IN  /\ req[r].at = "register"
        /\ disk' = [disk EXCEPT ![s] = IF @ = NULL THEN 1 ELSE @]
        /\ copies' = NewCopy(s, 1) /\ Insert(s, Len(copies) + 1) /\ Tick
        /\ Step(r, "limit")
        /\ UNCHANGED <<root, dirs, lock, idem, ops, history>>

-----------------------------------------------------------------------------
\* enforce_live_session_limits

Candidates ==
    {s \in DOMAIN live :
        \/ LiveTtl > 0 /\ live[s].access + LiveTtl < clock
        \/ /\ MaxLive > 0
           /\ Cardinality({x \in DOMAIN live : live[x].access >= live[s].access}) > MaxLive}

AfterLimits(r) ==
    CASE req[r].op \in {"goal", "patch"} -> "write"
      [] req[r].key # NULL -> "put"
      [] OTHER -> "end"

\* The registry is read once; the evictions follow, one lock at a time.
Limit(r) ==
    /\ req[r].at = "limit"
    /\ req' = [req EXCEPT ![r].at = "evict",
                          ![r].todo = {[sess |-> s, copy |-> live[s].copy,
                                        access |-> live[s].access] : s \in Candidates}]
    /\ UNCHANGED <<disk, root, dirs, copies, live, lock, idem, clock, ops, history>>

\* Mutant: a session is evicted whatever it is doing.
EvictAny(r, e) ==
    /\ req[r].at = "evict" /\ e \in req[r].todo /\ lock[e.sess] = NULL
    /\ live' = Restrict(live, DOMAIN live \ {e.sess})
    /\ copies' = [copies EXCEPT ![e.copy].closing = TRUE]
    /\ req' = [req EXCEPT ![r].todo = @ \ {e}]
    /\ UNCHANGED <<disk, root, dirs, lock, idem, clock, ops, history>>

\* Under the session's lock: an idle session that nobody has touched since is taken out
\* of the registry and shut down.
Evict(r, e) ==
    LET goes == /\ copies[e.copy].runs = 0
                /\ e.sess \in DOMAIN live
                /\ live[e.sess].copy = e.copy /\ live[e.sess].access = e.access
    IN  /\ req[r].at = "evict" /\ e \in req[r].todo /\ lock[e.sess] = NULL
        /\ live' = IF goes THEN Restrict(live, DOMAIN live \ {e.sess}) ELSE live
        /\ copies' = IF goes THEN [copies EXCEPT ![e.copy].closing = TRUE] ELSE copies
        /\ req' = [req EXCEPT ![r].todo = @ \ {e}]
        /\ UNCHANGED <<disk, root, dirs, lock, idem, clock, ops, history>>

EvictDone(r) ==
    /\ req[r].at = "evict" /\ req[r].todo = {}
    /\ IF AfterLimits(r) = "end" THEN Done(r) ELSE Step(r, AfterLimits(r))
    /\ UNCHANGED <<disk, root, dirs, copies, live, lock, idem, clock, ops, history>>

Put(r) ==
    /\ req[r].at = "put"
    /\ Tick
    /\ idem' = IdemPut(req[r].key, req[r].sess)
    /\ puts' = [puts EXCEPT ![req[r].key] = clock]
    /\ Done(r)
    /\ UNCHANGED <<disk, root, dirs, copies, live, lock, ops, deleted, reused, stray,
                   made, excused>>

-----------------------------------------------------------------------------
\* Writes

\* An event appended through copy c takes the copy's next seq.
AppendThrough(c) ==
    LET s == copies[c].sess
        seq == copies[c].seq + 1
    IN  /\ copies' = [copies EXCEPT ![c].seq = seq]
        /\ disk' = [disk EXCEPT ![s] = IF seq > @ THEN seq ELSE @]
        /\ reused' = IF seq <= disk[s] THEN reused \cup {s} ELSE reused

IsLive(c) == copies[c].sess \in DOMAIN live /\ live[copies[c].sess].copy = c

\* set_goal and clear_goal, patch_settings: through the copy found before, without a lock.
\* An append needs the session's directory; a checkpoint makes it again.
Write(r) ==
    LET c == req[r].copy
        s == req[r].sess
    IN  /\ req[r].at = "write"
        /\ stray' = IF IsLive(c) THEN stray ELSE stray \cup {s}
        /\ \/ /\ req[r].op = "goal" /\ disk[s] # NULL /\ AppendThrough(c)
           \/ /\ req[r].op = "goal" /\ disk[s] = NULL /\ UNCHANGED <<copies, disk, reused>>
           \/ /\ req[r].op = "patch"
              /\ disk' = [disk EXCEPT ![s] = IF @ = NULL THEN copies[c].seq ELSE @]
              /\ UNCHANGED <<copies, reused>>
        /\ Done(r)
        /\ UNCHANGED <<root, dirs, live, lock, idem, clock, ops, deleted, made, puts,
                       excused>>

\* A run of copy c records its messages and ends.
RunEnds(c) ==
    /\ c \in DOMAIN copies /\ copies[c].runs > 0 /\ disk[copies[c].sess] # NULL
    /\ LET s == copies[c].sess
           seq == copies[c].seq + 1
       IN  /\ copies' = [copies EXCEPT ![c].seq = seq, ![c].runs = @ - 1]
           /\ disk' = [disk EXCEPT ![s] = IF seq > @ THEN seq ELSE @]
           /\ reused' = IF seq <= disk[s] THEN reused \cup {s} ELSE reused
    /\ UNCHANGED <<root, dirs, live, lock, idem, req, clock, ops, deleted, stray, 
                   made, puts, excused>>

-----------------------------------------------------------------------------
\* delete_session

\* The copy leaves the registry and is shut down, which ends its runs ...
Unregister(r) ==
    LET s == req[r].sess
    IN  /\ req[r].at = "held" /\ req[r].op = "delete"
        /\ live' = Restrict(live, DOMAIN live \ {s})
        /\ copies' = IF s \in DOMAIN live
                     THEN [copies EXCEPT ![live[s].copy].closing = TRUE, ![live[s].copy].runs = 0]
                     ELSE copies
        /\ MarkEarly(s)
        /\ Step(r, "remove")
        /\ UNCHANGED <<disk, root, dirs, lock, idem, clock, ops, deleted, reused, made, puts,
                       excused>>

\* ... its files are removed ...
Remove(r) ==
    LET s == req[r].sess
    IN  /\ req[r].at = "remove"
        /\ disk' = [disk EXCEPT ![s] = NULL]
        /\ deleted' = deleted \cup {s}
        /\ Step(r, "workspace")
        /\ UNCHANGED <<root, dirs, copies, live, lock, idem, clock, ops, reused, stray, made,
                       puts, excused>>

\* ... and the temporary workspace too, if asked for and no session on disk uses it.
RemoveWorkspace(r) ==
    LET s == req[r].sess
        used == \E x \in Sessions : disk[x] # NULL /\ root[x] = root[s]
    IN  /\ req[r].at = "workspace"
        /\ dirs' \in {dirs, IF used THEN dirs ELSE dirs \ {root[s]}}
        /\ lock' = [lock EXCEPT ![s] = NULL]
        /\ Done(r)
        /\ UNCHANGED <<disk, root, copies, live, idem, clock, ops, history>>

-----------------------------------------------------------------------------
Op == {"create", "fork", "look", "goal", "patch", "run", "delete"}

RequestStep(r) ==
    \/ Lock(r) \/ Find(r) \/ Release(r) \/ ForkDir(r) \/ Make(r) \/ Register(r)
    \/ Limit(r) \/ EvictDone(r) \/ Put(r) \/ Write(r) \/ Unregister(r) \/ Remove(r) \/ RemoveWorkspace(r)
    \/ \E e \in req[r].todo : Evict(r, e)

Next == \/ \E r \in Requests, op \in Op, s \in Sessions, k \in Keys \cup {NULL} :
              Begin(r, op, s, k)
        \/ \E r \in Requests : RequestStep(r)
        \/ \E c \in DOMAIN copies : RunEnds(c)

Spec == Init /\ [][Next]_vars

-----------------------------------------------------------------------------
(***************************************************************************)
(* Properties                                                              *)
(***************************************************************************)

\* Types of all variables, and a lifecycle lock is held only by a request on its session.
TypeOK ==
    /\ \A s \in Sessions : disk[s] = NULL \/ disk[s] \in Nat
    /\ dirs \subseteq Sessions /\ root \in [Sessions -> Sessions]
    /\ \A c \in DOMAIN copies : copies[c].sess \in Sessions /\ copies[c].runs \in Nat
    /\ DOMAIN live \subseteq Sessions /\ DOMAIN idem \subseteq Keys
    /\ \A s \in Sessions :
          lock[s] # NULL => /\ req[lock[s]].sess = s
                            /\ req[lock[s]].at \in {"held", "found", "remove", "workspace"}

\* Runs of one session happen in one copy of it, the registered one: an eviction, a
\* resume and a request that queues a run never leave a run in a copy that is closed.
\* (A session that is resumed before its creation is registered has two.)
RunsInLiveCopy ==
    \A c \in DOMAIN copies :
        copies[c].runs > 0 => (IsLive(c) /\ ~copies[c].closing) \/ copies[c].sess \in stray

\* A seq is used twice, or a deleted session is on disk again, only because a goal or
\* settings request wrote through a copy that had been evicted or deleted meanwhile, or
\* because the session was resumed or deleted before its creation was registered.
DivergenceIsStray ==
    /\ reused \subseteq stray
    /\ \A s \in deleted : disk[s] # NULL => s \in stray

\* A key answers its retry: it is in the cache as long as it is fresh and fewer than the
\* maximum were stored after it, and two runs under it mean that the requests excused
\* or that it was no longer there.
KeyRemembered ==
    \A k \in Keys :
        /\ /\ puts[k] # NULL /\ (IdemTtl > 0 => clock <= puts[k] + IdemTtl)
           /\ Cardinality({j \in Keys : puts[j] # NULL /\ puts[j] > puts[k]}) < IdemMax
           => k \in DOMAIN idem
        /\ made[k] > 1 => k \in excused
=============================================================================
