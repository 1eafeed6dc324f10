------------------------ MODULE SessionRegistryProofs ------------------------
(***************************************************************************)
(* Proofs about SessionRegistry: runs happen in the registered copy of a   *)
(* session, a second writer of a session exists only in the windows the    *)
(* code leaves open, and a fresh idempotency key is answered.              *)
(***************************************************************************)
EXTENDS SessionRegistry, TLAPS, FiniteSetTheorems

Entry == [sess : Sessions, copy : Nat, access : Nat]

Copy == [sess : Sessions, seq : Nat, closing : BOOLEAN, runs : Nat]

Places == {"none", "lock", "held", "found", "dir", "make", "register", "limit", "evict",
           "put", "write", "remove", "workspace"}

Request == [op : Op \cup {"none"}, at : Places, sess : Sessions \cup {NULL},
            key : Keys \cup {NULL}, copy : Nat, src : Sessions \cup {NULL},
            todo : SUBSET Entry]

Typed ==
    /\ disk \in [Sessions -> Nat \cup {NULL}]
    /\ root \in [Sessions -> Sessions] /\ dirs \in SUBSET Sessions
    /\ copies \in Seq(Copy)
    /\ DOMAIN live \subseteq Sessions
    /\ live \in [DOMAIN live -> [copy : Nat, access : Nat]]
    /\ \A s \in DOMAIN live : live[s].copy \in 1..Len(copies)
    /\ lock \in [Sessions -> Requests \cup {NULL}]
    /\ DOMAIN idem \subseteq Keys
    /\ \A k \in DOMAIN idem : idem[k].val \in Sessions /\ idem[k].ts \in Nat
    /\ req \in [Requests -> Request]
    /\ clock \in Nat /\ ops \in Nat
    /\ deleted \in SUBSET Sessions /\ reused \in SUBSET Sessions /\ stray \in SUBSET Sessions
    /\ made \in [Keys -> Nat] /\ puts \in [Keys -> Nat \cup {NULL}]
    /\ excused \in SUBSET Keys

\* Which operation is where, and what its request carries there.
Shaped(q) ==
    /\ q.at = "none" <=> q.op = "none"
    /\ q.at # "none" => q.sess \in Sessions
    /\ q.at \in {"dir", "make", "register"} => q.op \in {"create", "fork"}
    /\ q.at \in {"lock", "held"} => q.op \notin {"create", "fork"}
    /\ q.at = "found" => q.op \in {"look", "goal", "patch", "run"}
    /\ q.at \in {"remove", "workspace"} => q.op = "delete"
    /\ q.at = "write" => q.op \in {"goal", "patch"}
    /\ q.at = "dir" => q.src # NULL
    /\ q.at = "put" => q.key # NULL
    /\ q.key # NULL => q.op \in {"create", "run"}

\* Past Find a request that still uses its copy has one of its session.
CopyOfSession(q) ==
    q.at \in {"found", "write"} \/ (q.at \in {"limit", "evict"} /\ q.op \in {"goal", "patch"})
    => q.copy \in 1..Len(copies) /\ copies[q.copy].sess = q.sess

Requested == \A r \in Requests : Shaped(req[r]) /\ CopyOfSession(req[r])

\* A lifecycle lock and the request that is under it name each other.
Critical == {"held", "found", "remove", "workspace"}

Locked ==
    /\ \A r \in Requests : req[r].at \in Critical => lock[req[r].sess] = r
    /\ \A s \in Sessions :
          lock[s] # NULL => req[lock[s]].sess = s /\ req[lock[s]].at \in Critical

\* A session that a request, the registry or the cache names has been on disk, except
\* the one a request is about to create, which nobody else can name.
Known(s) == disk[s] # NULL \/ s \in deleted

NamesKnown ==
    /\ \A r \in Requests : req[r].at \notin {"none", "dir", "make"} => Known(req[r].sess)
    /\ \A s \in DOMAIN live : Known(s)
    /\ \A k \in DOMAIN idem : Known(idem[k].val)

Creating ==
    \A r \in Requests :
        req[r].at \in {"dir", "make"} =>
            /\ ~Known(req[r].sess)
            /\ \A q \in Requests \ {r} : req[q].sess # req[r].sess

\* Between the write to disk and the registration nobody has used the session,
\* or it is counted as stray.
Unregistered ==
    \A r \in Requests :
        req[r].at = "register" /\ req[r].sess \notin stray =>
            /\ req[r].sess \notin DOMAIN live /\ req[r].sess \notin deleted
            /\ disk[req[r].sess] = 1
            /\ \A q \in Requests \ {r} :
                  req[q].sess = req[r].sess => req[q].at \in {"lock", "held"}

\* What Find returned stays the registered copy as long as the lock is held.
FoundIsLive ==
    \A r \in Requests :
        req[r].at = "found" /\ req[r].sess \notin stray =>
            req[r].sess \in DOMAIN live /\ live[req[r].sess].copy = req[r].copy

\* The registered copy is one of its session, open, and up to date with the disk.
LiveCopies ==
    \A s \in DOMAIN live : copies[live[s].copy].sess = s /\ ~copies[live[s].copy].closing

LiveIsCurrent ==
    \A s \in DOMAIN live :
        s \notin stray =>
            /\ disk[s] = copies[live[s].copy].seq
            /\ \A r \in Requests : req[r].sess = s => req[r].at # "remove"

SessionInv ==
    /\ Typed /\ Requested /\ Locked /\ NamesKnown /\ Creating /\ Unregistered
    /\ FoundIsLive /\ LiveCopies /\ LiveIsCurrent /\ RunsInLiveCopy /\ DivergenceIsStray

\* The cache holds the times that were put.
Stamped ==
    /\ \A k \in DOMAIN idem : puts[k] = idem[k].ts
    /\ \A k \in Keys : puts[k] # NULL => puts[k] < clock

\* A key that is not excused is used by one request at a time, which makes one thing
\* with it, and once that is made the key is stored or about to be.
Unmade(q) == q.at \in {"dir", "make", "lock", "held", "found"}

MadeOnce ==
    \A k \in Keys \ excused :
        /\ \A q, r \in Requests : req[q].key = k /\ req[r].key = k => q = r
        /\ made[k] <= 1
        /\ \A r \in Requests : req[r].key = k /\ Unmade(req[r]) => made[k] = 0
        /\ made[k] = 1 => puts[k] # NULL \/ \E r \in Requests : req[r].key = k

KeyInv == Stamped /\ MadeOnce /\ KeyRemembered

IInv == SessionInv /\ KeyInv

-----------------------------------------------------------------------------
\* What the helpers of the actions do, field by field.

LEMMA NullDistinct ==
  NULL \notin Sessions /\ NULL \notin Keys /\ NULL \notin Requests /\ NULL \notin Nat
BY RegistryNull

\* Step moves one request and leaves its other fields.
LEMMA StepFields ==
  ASSUME req \in [Requests -> Request], NEW r \in Requests, NEW at \in Places, Step(r, at)
  PROVE  /\ req' \in [Requests -> Request]
         /\ \A q \in Requests \ {r} : req'[q] = req[q]
         /\ req'[r].at = at /\ req'[r].op = req[r].op /\ req'[r].sess = req[r].sess
         /\ req'[r].key = req[r].key /\ req'[r].copy = req[r].copy
         /\ req'[r].src = req[r].src /\ req'[r].todo = req[r].todo
<1> DEFINE q == [req[r] EXCEPT !.at = at]
<1>1. req[r] \in Request
  OBVIOUS
<1>2. /\ q \in Request /\ q.at = at /\ q.op = req[r].op /\ q.sess = req[r].sess
      /\ q.key = req[r].key /\ q.copy = req[r].copy
      /\ q.src = req[r].src /\ q.todo = req[r].todo
  BY <1>1 DEF Request
<1>3. req' = [req EXCEPT ![r] = q]
  BY DEF Step
<1> HIDE DEF q
<1> QED BY <1>2, <1>3

LEMMA NoneFields ==
  /\ None \in Request /\ None.at = "none" /\ None.op = "none"
  /\ None.key = NULL /\ None.sess = NULL /\ None.src = NULL
BY DEF None, Request, Places

\* Done clears one request.
LEMMA DoneFields ==
  ASSUME req \in [Requests -> Request], NEW r \in Requests, Done(r)
  PROVE  /\ req' \in [Requests -> Request]
         /\ \A q \in Requests \ {r} : req'[q] = req[q]
         /\ req'[r] = None
BY NoneFields DEF Done

\* Insert registers one copy.
LEMMA InsertFields ==
  ASSUME Typed, NEW s \in Sessions, NEW c \in Nat, Insert(s, c)
  PROVE  /\ DOMAIN live' = DOMAIN live \cup {s}
         /\ live' \in [DOMAIN live' -> [copy : Nat, access : Nat]]
         /\ live'[s].copy = c
         /\ \A x \in DOMAIN live \ {s} : live'[x] = live[x]
<1>1. [copy |-> c, access |-> clock + 1] \in [copy : Nat, access : Nat]
  BY DEF Typed
<1> QED BY <1>1 DEF Insert, Typed

\* A new copy is appended to the copies.
LEMMA NewCopyFields ==
  ASSUME Typed, NEW s \in Sessions, NEW seq \in Nat, copies' = NewCopy(s, seq)
  PROVE  /\ copies' \in Seq(Copy) /\ Len(copies) \in Nat /\ Len(copies') = Len(copies) + 1
         /\ \A i \in 1..Len(copies) : copies'[i] = copies[i]
         /\ copies'[Len(copies) + 1]
               = [sess |-> s, seq |-> seq, closing |-> FALSE, runs |-> 0]
<1> DEFINE c == [sess |-> s, seq |-> seq, closing |-> FALSE, runs |-> 0]
<1>1. c \in Copy
  BY DEF Copy
<1>2. copies \in Seq(Copy) /\ copies' = Append(copies, c)
  BY DEF Typed, NewCopy
<1> HIDE DEF c
<1>3. QED BY <1>1, <1>2 DEF c

-----------------------------------------------------------------------------
\* Steps that only move a request, and lock or unlock its session.

LEMMA InitSession == Init => SessionInv
<1> SUFFICES ASSUME Init PROVE SessionInv
  OBVIOUS
<1> USE NullDistinct, NoneFields DEF Init
<1>1. /\ \A r \in Requests : req[r] = None
      /\ DOMAIN live = {} /\ DOMAIN idem = {} /\ copies = <<>> /\ Len(copies) = 0
      /\ DOMAIN copies = {}
  OBVIOUS
<1>2. Typed
  BY <1>1, RegistryBounds DEF Typed
<1>3. Requested /\ Locked /\ NamesKnown /\ Creating /\ Unregistered /\ FoundIsLive
  BY <1>1 DEF Requested, Locked, NamesKnown, Creating, Unregistered, FoundIsLive, Shaped,
     CopyOfSession, Critical
<1>4. LiveCopies /\ LiveIsCurrent /\ RunsInLiveCopy /\ DivergenceIsStray
  BY <1>1 DEF LiveCopies, LiveIsCurrent, RunsInLiveCopy, DivergenceIsStray
<1> QED BY <1>2, <1>3, <1>4 DEF SessionInv

LEMMA LockSession ==
  ASSUME SessionInv, NEW r \in Requests, Lock(r)
  PROVE  SessionInv'
<1> USE NullDistinct DEF SessionInv
<1> DEFINE s == req[r].sess
<1>1. /\ req[r].at = "lock" /\ lock[s] = NULL /\ lock' = [lock EXCEPT ![s] = r]
      /\ Step(r, "held")
      /\ UNCHANGED <<disk, root, dirs, copies, live, idem, clock, ops, deleted, reused, stray,
                     made, puts, excused>>
  BY DEF Lock, history
<1>2. /\ req' \in [Requests -> Request]
      /\ \A q \in Requests \ {r} : req'[q] = req[q]
      /\ req'[r].at = "held" /\ req'[r].op = req[r].op /\ req'[r].sess = s
      /\ req'[r].key = req[r].key /\ req'[r].copy = req[r].copy /\ req'[r].src = req[r].src
  BY <1>1, StepFields DEF Typed, Places
<1>3. s \in Sessions /\ Typed'
  BY <1>1, <1>2 DEF Typed, Requested, Shaped
<1>4. Requested'
  BY <1>1, <1>2 DEF Requested, Shaped, CopyOfSession
<1>5. Locked'
  <2>1. lock'[s] = r /\ \A x \in Sessions \ {s} : lock'[x] = lock[x]
    BY <1>1, <1>3 DEF Typed
  <2>2. ASSUME NEW q \in Requests, req'[q].at \in Critical PROVE lock'[req'[q].sess] = q
    <3>1. CASE q = r
      BY <3>1, <2>1, <1>2
    <3>2. CASE q # r
      BY <3>2, <2>1, <2>2, <1>1, <1>2 DEF Locked, Requested, Shaped, Critical
    <3> QED BY <3>1, <3>2
  <2>3. ASSUME NEW x \in Sessions, lock'[x] # NULL
        PROVE  req'[lock'[x]].sess = x /\ req'[lock'[x]].at \in Critical
    BY <2>1, <2>3, <1>1, <1>2 DEF Locked, Typed, Critical
  <2> QED BY <2>2, <2>3 DEF Locked
<1>6. NamesKnown' /\ Creating'
  BY <1>1, <1>2 DEF NamesKnown, Creating, Known
<1>7. Unregistered' /\ FoundIsLive'
  BY <1>1, <1>2 DEF Unregistered, FoundIsLive
<1>8. LiveCopies' /\ LiveIsCurrent' /\ RunsInLiveCopy' /\ DivergenceIsStray'
  BY <1>1, <1>2 DEF LiveCopies, LiveIsCurrent, RunsInLiveCopy, DivergenceIsStray, IsLive
<1> QED BY <1>3, <1>4, <1>5, <1>6, <1>7, <1>8

\* The lock of a request's session is given up as the request leaves its critical part.
LEMMA LockedAfter ==
  ASSUME SessionInv, NEW r \in Requests, req[r].at # "none",
         \A q \in Requests \ {r} : req'[q] = req[q],
         req'[r].at \notin Critical,
         req[r].at \in Critical => lock' = [lock EXCEPT ![req[r].sess] = NULL],
         req[r].at \notin Critical => lock' = lock
  PROVE  Locked'
<1> USE NullDistinct DEF SessionInv
<1> DEFINE s == req[r].sess
<1>0. s \in Sessions
  BY DEF Requested, Shaped
<1>1. \A x \in Sessions \ {s} : lock'[x] = lock[x]
  BY DEF Typed
<1>2. req[r].at \in Critical => lock'[s] = NULL
  BY <1>0 DEF Typed
<1>3. ASSUME NEW q \in Requests, req'[q].at \in Critical PROVE lock'[req'[q].sess] = q
  <2>1. q # r
    BY <1>3
  <2>2. req[q].at \in Critical /\ lock[req[q].sess] = q /\ req[q].sess \in Sessions
    BY <1>3, <2>1 DEF Locked, Requested, Shaped, Critical
  <2>3. CASE req[q].sess = s
    BY <2>1, <2>2, <2>3 DEF Locked
  <2>4. CASE req[q].sess # s
    BY <2>1, <2>2, <2>4, <1>1
  <2> QED BY <2>3, <2>4
<1>4. ASSUME NEW x \in Sessions, lock'[x] # NULL
      PROVE  req'[lock'[x]].sess = x /\ req'[lock'[x]].at \in Critical
  <2>1. lock'[x] = lock[x]
    BY <1>1, <1>2, <1>4
  <2>2. lock[x] \in Requests /\ req[lock[x]].sess = x /\ req[lock[x]].at \in Critical
    BY <1>4, <2>1 DEF Locked, Typed
  <2>3. lock[x] # r
    BY <2>1, <2>2, <1>2, <1>4
  <2> QED BY <2>1, <2>2, <2>3
<1> QED BY <1>3, <1>4 DEF Locked

\* A request that goes on or ends, after its lock or without one, leaves what the
\* invariant says of the sessions.
LEMMA Onward ==
  ASSUME SessionInv, NEW r \in Requests, Typed',
         UNCHANGED <<disk, copies, live, deleted, reused, stray>>,
         \A q \in Requests \ {r} : req'[q] = req[q],
         \/ req'[r] = None
         \/ /\ req'[r].sess = req[r].sess /\ Shaped(req'[r]) /\ CopyOfSession(req'[r])
            /\ IF req[r].at = "dir" THEN req'[r].at = "make"
                                    ELSE req'[r].at \in {"limit", "evict", "write", "put"},
         req[r].at \notin {"none", "lock", "make", "register"},
         req[r].at = "held" => req'[r] = None,
         req[r].at \in Critical => lock' = [lock EXCEPT ![req[r].sess] = NULL],
         req[r].at \notin Critical => lock' = lock,
         \A k \in DOMAIN idem' : Known(idem'[k].val)
  PROVE  SessionInv'
<1> USE NullDistinct, NoneFields DEF SessionInv
<1> DEFINE s == req[r].sess
<1>1. s \in Sessions
  BY DEF Requested, Shaped
<1>2. \/ req'[r].at = "none" /\ req'[r].op = "none" /\ req'[r].sess = NULL /\ req'[r].key = NULL
      \/ /\ req'[r].sess = s
         /\ IF req[r].at = "dir" THEN req'[r].at = "make"
                                 ELSE req'[r].at \in {"limit", "evict", "write", "put"}
  OBVIOUS
<1>3. Requested'
  <2>1. Shaped(req'[r]) /\ CopyOfSession(req'[r])
    BY DEF Shaped, CopyOfSession
  <2> QED BY <2>1 DEF Requested, Shaped, CopyOfSession
<1>4. Locked'
  BY <1>2, LockedAfter DEF Critical
<1>5. NamesKnown' /\ Creating'
  <2>1. \A x : Known(x)' <=> Known(x)
    BY DEF Known
  <2>2. ASSUME NEW q \in Requests, req'[q].at \notin {"none", "dir", "make"}
        PROVE  Known(req'[q].sess)
    BY <2>2, <1>2 DEF NamesKnown
  <2>3. ASSUME NEW q \in Requests, req'[q].at \in {"dir", "make"}
        PROVE  /\ req[q].at \in {"dir", "make"} /\ req'[q].sess = req[q].sess
               /\ ~Known(req'[q].sess)
    BY <2>3, <1>2 DEF Creating
  <2>4. ASSUME NEW q \in Requests, req'[q].at \in {"dir", "make"},
               NEW x \in Requests \ {q}
        PROVE  req'[x].sess # req'[q].sess
    BY <2>3, <2>4, <1>1, <1>2 DEF Creating, Requested, Shaped
  <2> QED BY <2>1, <2>2, <2>3, <2>4 DEF NamesKnown, Creating
<1>6. Unregistered' /\ FoundIsLive'
  <2>1. ASSUME NEW q \in Requests, req'[q].at = "register", req'[q].sess \notin stray,
               NEW x \in Requests \ {q}, req'[x].sess = req'[q].sess
        PROVE  req'[x].at \in {"lock", "held"}
    <3>1. q # r /\ req[q].sess \in Sessions
      BY <2>1, <1>2 DEF Requested, Shaped
    <3>2. CASE x = r
      <4>1. req'[r].sess = s
        BY <2>1, <3>1, <3>2, <1>2
      <4> QED BY <2>1, <3>1, <3>2, <4>1, <1>2 DEF Unregistered
    <3>3. CASE x # r
      BY <2>1, <3>1, <3>3 DEF Unregistered
    <3> QED BY <3>2, <3>3
  <2>2. Unregistered'
    BY <2>1, <1>2 DEF Unregistered
  <2>3. FoundIsLive'
    BY <1>2 DEF FoundIsLive
  <2> QED BY <2>2, <2>3
<1>7. LiveCopies' /\ LiveIsCurrent' /\ RunsInLiveCopy' /\ DivergenceIsStray'
  BY <1>1, <1>2 DEF LiveCopies, LiveIsCurrent, RunsInLiveCopy, DivergenceIsStray, IsLive
<1> QED BY <1>3, <1>4, <1>5, <1>6, <1>7

LEMMA ForkDirSession ==
  ASSUME SessionInv, NEW r \in Requests, ForkDir(r)
  PROVE  SessionInv'
<1> USE NullDistinct DEF SessionInv, ForkDir, history
<1>1. /\ req' \in [Requests -> Request]
      /\ \A q \in Requests \ {r} : req'[q] = req[q]
      /\ req'[r].at = "make" /\ req'[r].op = req[r].op /\ req'[r].sess = req[r].sess
      /\ req'[r].key = req[r].key
  BY StepFields DEF Typed, Places
<1>2. req[r].src \in Sessions
  BY DEF Typed, Request, Requested, Shaped
<1>3. Typed'
  BY <1>1, <1>2 DEF Typed
<1>4. Shaped(req'[r]) /\ CopyOfSession(req'[r])
  BY <1>1 DEF Requested, Shaped, CopyOfSession
<1>5. \A k \in DOMAIN idem' : Known(idem'[k].val)
  BY DEF NamesKnown
<1> QED BY <1>1, <1>3, <1>4, <1>5, Onward DEF Critical

LEMMA LimitSession ==
  ASSUME SessionInv, NEW r \in Requests, Limit(r)
  PROVE  SessionInv'
<1> USE NullDistinct DEF SessionInv, history
<1> DEFINE todo == {[sess |-> s, copy |-> live[s].copy, access |-> live[s].access] :
                       s \in Candidates}
           q == [req[r] EXCEPT !.at = "evict", !.todo = todo]
<1>1. /\ req[r].at = "limit" /\ req' = [req EXCEPT ![r] = q]
      /\ UNCHANGED <<disk, root, dirs, copies, live, lock, idem, clock, ops, deleted, reused,
                     stray, made, puts, excused>>
  BY DEF Limit
<1>2. todo \in SUBSET Entry
  <2>1. ASSUME NEW x \in Candidates
        PROVE  [sess |-> x, copy |-> live[x].copy, access |-> live[x].access] \in Entry
    <3>1. x \in DOMAIN live /\ live[x] \in [copy : Nat, access : Nat] /\ x \in Sessions
      BY DEF Candidates, Typed
    <3> QED BY <3>1 DEF Entry
  <2> QED BY <2>1
<1> HIDE DEF todo
<1>3. req[r] \in Request
  BY DEF Typed
<1>4. /\ q \in Request /\ q.at = "evict" /\ q.op = req[r].op /\ q.sess = req[r].sess
      /\ q.key = req[r].key /\ q.copy = req[r].copy
  BY <1>2, <1>3 DEF Request, Places
<1> HIDE DEF q
<1>5. /\ req' \in [Requests -> Request]
      /\ \A x \in Requests \ {r} : req'[x] = req[x]
      /\ req'[r] = q
  BY <1>1, <1>4 DEF Typed
<1>6. Typed'
  BY <1>1, <1>5 DEF Typed
<1>7. Shaped(req'[r]) /\ CopyOfSession(req'[r])
  BY <1>1, <1>4, <1>5 DEF Requested, Shaped, CopyOfSession
<1>8. \A k \in DOMAIN idem' : Known(idem'[k].val)
  BY <1>1 DEF NamesKnown
<1> QED BY <1>1, <1>4, <1>5, <1>6, <1>7, <1>8, Onward DEF Critical

LEMMA EvictDoneSession ==
  ASSUME SessionInv, NEW r \in Requests, EvictDone(r)
  PROVE  SessionInv'
<1> USE NullDistinct, NoneFields DEF SessionInv, history
<1>1. /\ req[r].at = "evict"
      /\ UNCHANGED <<disk, root, dirs, copies, live, lock, idem, clock, ops, deleted, reused,
                     stray, made, puts, excused>>
      /\ \/ Done(r)
         \/ Step(r, "write") /\ req[r].op \in {"goal", "patch"}
         \/ Step(r, "put") /\ req[r].op \notin {"goal", "patch"} /\ req[r].key # NULL
  <2>1. AfterLimits(r) = IF req[r].op \in {"goal", "patch"} THEN "write"
                         ELSE IF req[r].key # NULL THEN "put" ELSE "end"
    <3>1. req[r].op \in {"goal", "patch"} => req[r].key = NULL
      BY DEF Requested, Shaped
    <3>2. CASE req[r].op \in {"goal", "patch"}
      BY <3>1, <3>2 DEF AfterLimits
    <3>3. CASE req[r].op \notin {"goal", "patch"} /\ req[r].key # NULL
      BY <3>3 DEF AfterLimits
    <3>4. CASE req[r].op \notin {"goal", "patch"} /\ req[r].key = NULL
      BY <3>4 DEF AfterLimits
    <3> QED BY <3>2, <3>3, <3>4
  <2> QED BY <2>1 DEF EvictDone
<1>2. \A k \in DOMAIN idem' : Known(idem'[k].val)
  BY <1>1 DEF NamesKnown
<1>3. CASE Done(r)
  <2>1. /\ req' \in [Requests -> Request] /\ req'[r] = None
        /\ \A q \in Requests \ {r} : req'[q] = req[q]
    BY <1>3, DoneFields DEF Typed
  <2>2. Typed'
    BY <1>1, <2>1 DEF Typed
  <2> QED BY <1>1, <1>2, <2>1, <2>2, Onward DEF Critical
<1>4. ASSUME NEW at \in {"write", "put"}, Step(r, at),
             at = "write" <=> req[r].op \in {"goal", "patch"}, at = "put" => req[r].key # NULL
      PROVE  SessionInv'
  <2>1. /\ req' \in [Requests -> Request]
        /\ \A q \in Requests \ {r} : req'[q] = req[q]
        /\ req'[r].at = at /\ req'[r].op = req[r].op /\ req'[r].sess = req[r].sess
        /\ req'[r].key = req[r].key /\ req'[r].copy = req[r].copy
    BY <1>4, StepFields DEF Typed, Places
  <2>2. Typed'
    BY <1>1, <2>1 DEF Typed
  <2>3. Shaped(req'[r]) /\ CopyOfSession(req'[r])
    BY <1>1, <1>4, <2>1 DEF Requested, Shaped, CopyOfSession
  <2> QED BY <1>1, <1>2, <1>4, <2>1, <2>2, <2>3, Onward DEF Critical
<1> QED BY <1>1, <1>3, <1>4

LEMMA RemoveWorkspaceSession ==
  ASSUME SessionInv, NEW r \in Requests, RemoveWorkspace(r)
  PROVE  SessionInv'
<1> USE NullDistinct, NoneFields DEF SessionInv, history, RemoveWorkspace
<1>1. /\ req' \in [Requests -> Request] /\ req'[r] = None
      /\ \A q \in Requests \ {r} : req'[q] = req[q]
  BY DoneFields DEF Typed
<1>2. Typed'
  BY <1>1 DEF Typed
<1>3. \A k \in DOMAIN idem' : Known(idem'[k].val)
  BY DEF NamesKnown
<1> QED BY <1>1, <1>2, <1>3, Onward DEF Critical

-----------------------------------------------------------------------------
\* Find and Register put a copy into the registry.

LEMMA FindSession ==
  ASSUME SessionInv, NEW r \in Requests, Find(r)
  PROVE  SessionInv'
<1> USE NullDistinct, NoneFields DEF SessionInv
<1> DEFINE s == req[r].sess
<1>1. /\ req[r].at = "held" /\ req[r].op \in {"look", "goal", "patch", "run"}
      /\ clock' = clock + 1
      /\ UNCHANGED <<disk, root, idem, ops, deleted, reused, made, puts, excused>>
  BY DEF Find, Tick
<1>2. s \in Sessions /\ lock[s] = r /\ req[r] \in Request /\ Len(copies) \in Nat
      /\ Known(s)
  BY <1>1 DEF Requested, Shaped, Locked, Critical, Typed, NamesKnown
<1>3. \A q \in Requests \ {r} : req[q].sess = s => req[q].at \notin Critical
  BY <1>2 DEF Locked
<1>4. Registered(s) <=> s \in DOMAIN live
  BY DEF Registered, LiveCopies
\* The copy c is used by the request: it is live, or new and then the only one open.
<1>5. ASSUME NEW c \in 1..Len(copies'), Insert(s, c), UNCHANGED lock,
             dirs' \in SUBSET Sessions,
             req' = [req EXCEPT ![r].at = "found", ![r].copy = c],
             copies' \in Seq(Copy), Len(copies') \in Nat, Len(copies) <= Len(copies'),
             \A i \in 1..Len(copies) : copies'[i] = copies[i],
             \A i \in 1..Len(copies') : i \notin 1..Len(copies) => copies'[i].runs = 0,
             copies'[c].sess = s, ~copies'[c].closing,
             stray' \in SUBSET Sessions, stray \subseteq stray',
             s \notin stray' => /\ disk[s] = copies'[c].seq
                               /\ \A x \in Requests : req[x].sess = s => req[x].at # "register",
             s \in DOMAIN live => live[s].copy = c
      PROVE  SessionInv'
  <2> DEFINE q == [req[r] EXCEPT !.at = "found", !.copy = c]
  <2>0. c \in Nat
    BY <1>5
  <2>1. /\ q \in Request /\ q.at = "found" /\ q.op = req[r].op /\ q.sess = req[r].sess
        /\ q.key = req[r].key /\ q.copy = c /\ q.src = req[r].src
    BY <1>2, <2>0 DEF Request, Places
  <2>2. req' = [req EXCEPT ![r] = q]
    BY <1>5
  <2> HIDE DEF q
  <2>3. /\ req' \in [Requests -> Request] /\ req'[r] = q
        /\ \A x \in Requests \ {r} : req'[x] = req[x]
    BY <2>1, <2>2 DEF Typed
  <2>4. /\ DOMAIN live' = DOMAIN live \cup {s}
        /\ live' \in [DOMAIN live' -> [copy : Nat, access : Nat]]
        /\ live'[s].copy = c
        /\ \A x \in DOMAIN live \ {s} : live'[x] = live[x]
    BY <1>2, <1>5, <2>0, InsertFields
  <2>5. Typed'
    BY <1>1, <1>2, <1>5, <2>3, <2>4 DEF Typed
  <2>6. Requested'
    BY <1>1, <1>5, <2>1, <2>3 DEF Requested, Shaped, CopyOfSession
  <2>7. Locked'
    BY <1>1, <1>2, <1>5, <2>1, <2>3 DEF Locked, Typed, Critical
  <2>8. NamesKnown'
    BY <1>1, <1>2, <2>1, <2>3, <2>4 DEF NamesKnown, Known
  <2>9. Creating'
    BY <1>1, <1>2, <2>1, <2>3 DEF Creating, Known
  <2>10. Unregistered'
    <3>1. ASSUME NEW x \in Requests, req'[x].at = "register", req'[x].sess \notin stray'
          PROVE  x # r /\ req'[x] = req[x] /\ req[x].sess # s /\ req[x].sess \notin stray
      BY <3>1, <1>5, <2>1, <2>3
    <3> QED BY <3>1, <1>1, <2>1, <2>3, <2>4 DEF Unregistered
  <2>11. FoundIsLive'
    <3>1. ASSUME NEW x \in Requests \ {r}, req'[x].at = "found"
          PROVE  req[x].at = "found" /\ req[x].sess # s
      BY <3>1, <1>3, <2>3 DEF Critical
    <3> QED BY <3>1, <1>5, <2>1, <2>3, <2>4 DEF FoundIsLive
  <2>12. LiveCopies'
    <3>1. ASSUME NEW x \in DOMAIN live \ {s}
          PROVE  copies'[live'[x].copy].sess = x /\ ~copies'[live'[x].copy].closing
      BY <1>5, <2>4 DEF LiveCopies, Typed
    <3> QED BY <3>1, <1>5, <2>4 DEF LiveCopies
  <2>13. LiveIsCurrent'
    <3>1. ASSUME NEW x \in Requests, req'[x].sess = s PROVE req'[x].at # "remove"
      BY <3>1, <1>3, <2>1, <2>3 DEF Critical
    <3>2. ASSUME NEW t \in DOMAIN live \ {s}, t \notin stray',
                 NEW x \in Requests, req'[x].sess = t
          PROVE  req'[x].at # "remove"
      BY <3>2, <1>5, <2>1, <2>3 DEF LiveIsCurrent
    <3>3. ASSUME NEW t \in DOMAIN live \ {s}, t \notin stray'
          PROVE  disk[t] = copies'[live'[t].copy].seq
      BY <3>3, <1>5, <2>4 DEF LiveIsCurrent, Typed
    <3> QED BY <3>1, <3>2, <3>3, <1>1, <1>5, <2>4 DEF LiveIsCurrent
  <2>14. RunsInLiveCopy'
    <3>1. ASSUME NEW i \in DOMAIN copies', copies'[i].runs > 0, copies'[i].sess \notin stray'
          PROVE  /\ copies'[i].sess \in DOMAIN live' /\ live'[copies'[i].sess].copy = i
                 /\ ~copies'[i].closing
      <4>1. i \in 1..Len(copies) /\ copies'[i] = copies[i] /\ copies[i].sess \notin stray
        BY <3>1, <1>5
      <4>2. /\ copies[i].sess \in DOMAIN live /\ live[copies[i].sess].copy = i
            /\ ~copies[i].closing
        BY <3>1, <4>1 DEF RunsInLiveCopy, IsLive, Typed
      <4> QED BY <4>1, <4>2, <1>5, <2>4
    <3> QED BY <3>1 DEF RunsInLiveCopy, IsLive
  <2>15. DivergenceIsStray'
    BY <1>1, <1>5 DEF DivergenceIsStray
  <2> QED BY <2>5, <2>6, <2>7, <2>8, <2>9, <2>10, <2>11, <2>12, <2>13, <2>14, <2>15
<1>6. CASE /\ Registered(s)
           /\ Insert(s, live[s].copy) /\ UNCHANGED <<copies, lock, dirs, stray>>
           /\ req' = [req EXCEPT ![r].at = "found", ![r].copy = live[s].copy]
  <2>1. s \in DOMAIN live /\ live[s].copy \in 1..Len(copies)
    BY <1>4, <1>6 DEF Typed
  <2>2. copies[live[s].copy].sess = s /\ ~copies[live[s].copy].closing
    BY <2>1 DEF LiveCopies
  <2>3. s \notin stray => /\ disk[s] = copies[live[s].copy].seq
                         /\ \A x \in Requests : req[x].sess = s => req[x].at # "register"
    BY <2>1 DEF LiveIsCurrent, Unregistered
  <2>4. copies \in Seq(Copy) /\ dirs \in SUBSET Sessions /\ stray \in SUBSET Sessions
    BY DEF Typed
  <2> DEFINE c == live[s].copy
  <2>5. /\ c \in 1..Len(copies') /\ Insert(s, c) /\ lock' = lock /\ dirs' \in SUBSET Sessions
        /\ req' = [req EXCEPT ![r].at = "found", ![r].copy = c]
        /\ copies' \in Seq(Copy) /\ Len(copies') \in Nat /\ Len(copies) <= Len(copies')
    BY <1>2, <1>6, <2>1, <2>4
  <2>6. /\ \A i \in 1..Len(copies) : copies'[i] = copies[i]
        /\ \A i \in 1..Len(copies') : i \notin 1..Len(copies) => copies'[i].runs = 0
        /\ copies'[c].sess = s /\ ~copies'[c].closing
        /\ stray' \in SUBSET Sessions /\ stray \subseteq stray'
        /\ s \notin stray' =>
              /\ disk[s] = copies'[c].seq
              /\ \A x \in Requests : req[x].sess = s => req[x].at # "register"
        /\ s \in DOMAIN live => live[s].copy = c
    BY <1>6, <2>2, <2>3, <2>4
  <2> HIDE DEF SessionInv, c
  <2> QED BY <1>5, <2>5, <2>6
<1>7. CASE /\ ~Registered(s) /\ disk[s] # NULL
           /\ copies' = NewCopy(s, disk[s]) /\ dirs' = dirs \cup {root[s]}
           /\ Insert(s, Len(copies) + 1) /\ MarkEarly(s) /\ UNCHANGED lock
           /\ req' = [req EXCEPT ![r].at = "found", ![r].copy = Len(copies) + 1]
  <2>1. disk[s] \in Nat /\ s \notin DOMAIN live
    BY <1>2, <1>4, <1>7 DEF Typed
  <2>2. /\ copies' \in Seq(Copy) /\ Len(copies') = Len(copies) + 1
        /\ \A i \in 1..Len(copies) : copies'[i] = copies[i]
        /\ copies'[Len(copies) + 1]
              = [sess |-> s, seq |-> disk[s], closing |-> FALSE, runs |-> 0]
    BY <1>2, <1>7, <2>1, NewCopyFields
  <2>3. /\ stray' \in SUBSET Sessions /\ stray \subseteq stray'
        /\ s \notin stray' =>
              \A x \in Requests : req[x].sess = s => req[x].at # "register"
    BY <1>2, <1>7 DEF MarkEarly, Registering, Typed
  <2>4. dirs' \in SUBSET Sessions
    BY <1>2, <1>7 DEF Typed
  <2>5. Len(copies) + 1 \in 1..Len(copies')
    BY <1>2, <2>2
  <2> DEFINE c == Len(copies) + 1
  <2>6. /\ c \in 1..Len(copies') /\ Insert(s, c) /\ lock' = lock /\ dirs' \in SUBSET Sessions
        /\ req' = [req EXCEPT ![r].at = "found", ![r].copy = c]
        /\ copies' \in Seq(Copy) /\ Len(copies') \in Nat /\ Len(copies) <= Len(copies')
    BY <1>2, <1>7, <2>2, <2>4, <2>5
  <2>7. /\ \A i \in 1..Len(copies) : copies'[i] = copies[i]
        /\ \A i \in 1..Len(copies') : i \notin 1..Len(copies) => copies'[i].runs = 0
        /\ copies'[c].sess = s /\ ~copies'[c].closing
        /\ stray' \in SUBSET Sessions /\ stray \subseteq stray'
        /\ s \notin stray' =>
              /\ disk[s] = copies'[c].seq
              /\ \A x \in Requests : req[x].sess = s => req[x].at # "register"
        /\ s \in DOMAIN live => live[s].copy = c
    <3>1. \A i \in 1..Len(copies') : i \notin 1..Len(copies) => i = c
      BY <1>2, <2>2
    <3> QED BY <2>1, <2>2, <2>3, <3>1
  <2> HIDE DEF SessionInv, c
  <2> QED BY <1>5, <2>6, <2>7
<1>8. CASE /\ ~Registered(s) /\ (disk[s] = NULL \/ req[r].op = "run")
           /\ live' = Restrict(live, DOMAIN live \ {s})
           /\ lock' = [lock EXCEPT ![s] = NULL]
           /\ Done(r) /\ UNCHANGED <<copies, dirs, stray>>
  <2>1. DOMAIN live \ {s} = DOMAIN live
    BY <1>4, <1>8
  <2>2. live' = live
    BY <1>8, <2>1 DEF Restrict, Typed
  <2>3. /\ req' \in [Requests -> Request] /\ req'[r] = None
        /\ \A q \in Requests \ {r} : req'[q] = req[q]
    BY <1>8, DoneFields DEF Typed
  <2>4. Typed'
    <3>1. /\ lock \in [Sessions -> Requests \cup {NULL}] /\ lock' = [lock EXCEPT ![s] = NULL]
          /\ clock \in Nat /\ clock' = clock + 1
      BY <1>1, <1>8 DEF Typed
    <3>3. lock' \in [Sessions -> Requests \cup {NULL}]
      BY <3>1
    <3>4. clock' \in Nat
      BY <3>1
    <3>2. UNCHANGED <<copies, dirs, stray, live, disk, root, idem, ops, deleted, reused, made,
                      puts, excused>>
      BY <1>1, <1>8, <2>2
    <3> QED BY <2>3, <3>2, <3>3, <3>4 DEF Typed
  <2>5. \A k \in DOMAIN idem' : Known(idem'[k].val)
    BY <1>1 DEF NamesKnown
  <2> QED BY <1>1, <1>8, <2>2, <2>3, <2>4, <2>5, Onward DEF Critical
<1> QED BY <1>6, <1>7, <1>8 DEF Find

\* A changed copy keeps the others.
LEMMA CopyFields ==
  ASSUME Typed, NEW c \in 1..Len(copies), NEW new \in Copy,
         copies' = [copies EXCEPT ![c] = new]
  PROVE  /\ copies' \in Seq(Copy) /\ Len(copies') = Len(copies)
         /\ DOMAIN copies = 1..Len(copies) /\ DOMAIN copies' = 1..Len(copies)
         /\ copies'[c] = new
         /\ \A i \in 1..Len(copies) : i # c => copies'[i] = copies[i]
BY DEF Typed

LEMMA ReleaseSession ==
  ASSUME SessionInv, NEW r \in Requests, Release(r)
  PROVE  SessionInv'
<1> USE NullDistinct DEF SessionInv
<1> DEFINE s == req[r].sess
           c == req[r].copy
           new == [copies[c] EXCEPT !.runs = @ + 1]
<1>1. /\ req[r].at = "found" /\ lock' = [lock EXCEPT ![s] = NULL]
      /\ IF req[r].op = "run" THEN copies' = [copies EXCEPT ![c] = new] ELSE copies' = copies
      /\ made' \in [Keys -> Nat]
      /\ Step(r, "limit")
      /\ UNCHANGED <<disk, root, dirs, live, idem, clock, ops, deleted, reused, stray,
                     puts, excused>>
  <2>1. made' \in [Keys -> Nat]
    BY DEF Release, Typed, Request
  <2> QED BY <2>1 DEF Release
<1>2. /\ s \in Sessions /\ lock[s] = r /\ c \in 1..Len(copies) /\ copies[c].sess = s
      /\ copies[c] \in Copy /\ Len(copies) \in Nat /\ DOMAIN copies = 1..Len(copies)
  BY <1>1 DEF Requested, Shaped, CopyOfSession, Locked, Critical, Typed
<1>3. /\ req' \in [Requests -> Request]
      /\ \A q \in Requests \ {r} : req'[q] = req[q]
      /\ req'[r].at = "limit" /\ req'[r].op = req[r].op /\ req'[r].sess = s
      /\ req'[r].key = req[r].key /\ req'[r].copy = c
  BY <1>1, StepFields DEF Typed, Places
<1>4. /\ new \in Copy /\ new.sess = s /\ new.seq = copies[c].seq
      /\ new.closing = copies[c].closing
  BY <1>2 DEF Copy
<1> HIDE DEF new
<1>5. /\ copies' \in Seq(Copy) /\ Len(copies') = Len(copies) /\ DOMAIN copies' = 1..Len(copies)
      /\ \A i \in 1..Len(copies) :
            /\ copies'[i].sess = copies[i].sess /\ copies'[i].seq = copies[i].seq
            /\ copies'[i].closing = copies[i].closing
            /\ i # c => copies'[i].runs = copies[i].runs
  <2>1. CASE req[r].op = "run"
    BY <1>1, <1>2, <1>4, <2>1, CopyFields
  <2>2. CASE req[r].op # "run"
    BY <1>1, <1>2, <2>2 DEF Typed
  <2> QED BY <2>1, <2>2
<1>6. Typed'
  <2>1. lock' \in [Sessions -> Requests \cup {NULL}]
    BY <1>1 DEF Typed
  <2> QED BY <1>1, <1>3, <1>5, <2>1 DEF Typed
<1>7. Requested'
  BY <1>1, <1>2, <1>3, <1>5 DEF Requested, Shaped, CopyOfSession
<1>8. Locked'
  BY <1>1, <1>3, LockedAfter DEF Critical
<1>9. NamesKnown' /\ Creating'
  BY <1>1, <1>3 DEF NamesKnown, Creating, Known
<1>10. Unregistered' /\ FoundIsLive'
  BY <1>1, <1>3 DEF Unregistered, FoundIsLive
<1>11. LiveCopies'
  BY <1>1, <1>5 DEF LiveCopies, Typed
<1>12. LiveIsCurrent'
  BY <1>1, <1>3, <1>5 DEF LiveIsCurrent, Typed
<1>13. RunsInLiveCopy'
  <2>1. ASSUME NEW i \in 1..Len(copies), copies'[i].runs > 0, copies[i].sess \notin stray
        PROVE  copies[i].sess \in DOMAIN live /\ live[copies[i].sess].copy = i
    BY <1>1, <1>2, <1>5, <2>1 DEF RunsInLiveCopy, IsLive, FoundIsLive
  <2> QED BY <1>1, <1>5, <2>1 DEF RunsInLiveCopy, IsLive, LiveCopies
<1>14. DivergenceIsStray'
  BY <1>1 DEF DivergenceIsStray
<1> QED BY <1>6, <1>7, <1>8, <1>9, <1>10, <1>11, <1>12, <1>13, <1>14

LEMMA MakeSession ==
  ASSUME SessionInv, NEW r \in Requests, Make(r)
  PROVE  SessionInv'
<1> USE NullDistinct DEF SessionInv
<1> DEFINE s == req[r].sess
           q == [req[r] EXCEPT !.at = "register", !.src = NULL]
<1>1. /\ req[r].at = "make" /\ disk' = [disk EXCEPT ![s] = 1] /\ req' = [req EXCEPT ![r] = q]
      /\ UNCHANGED <<copies, live, lock, idem, clock, ops, deleted, reused, stray, puts, excused>>
  BY DEF Make
<1>2. /\ req[r] \in Request /\ s \in Sessions /\ disk[s] = NULL /\ s \notin deleted
      /\ s \notin DOMAIN live /\ \A x \in Requests \ {r} : req[x].sess # s
  BY <1>1 DEF Typed, Requested, Shaped, Creating, Known, NamesKnown
<1>3. /\ q \in Request /\ q.at = "register" /\ q.op = req[r].op /\ q.sess = s
      /\ q.key = req[r].key
  BY <1>2 DEF Request, Places
<1> HIDE DEF q
<1>4. /\ req' \in [Requests -> Request] /\ req'[r] = q
      /\ \A x \in Requests \ {r} : req'[x] = req[x]
  BY <1>1, <1>3 DEF Typed
<1>5. /\ disk' \in [Sessions -> Nat \cup {NULL}] /\ disk'[s] = 1
      /\ \A x \in Sessions \ {s} : disk'[x] = disk[x]
  BY <1>1, <1>2 DEF Typed
<1>6. Typed'
  <2>1. made' \in [Keys -> Nat]
    <3>1. req[r].key \in Keys \cup {NULL} /\ made \in [Keys -> Nat]
      BY <1>2 DEF Typed, Request
    <3> QED BY <3>1 DEF Make
  <2>2. root' \in [Sessions -> Sessions] /\ dirs' \in SUBSET Sessions
    <3>1. req[r].src \in Sessions \cup {NULL}
      BY <1>2 DEF Request
    <3> QED BY <1>2, <3>1 DEF Make, Typed
  <2> QED BY <1>1, <1>4, <1>5, <2>1, <2>2 DEF Typed
<1>7. Requested' /\ Locked'
  BY <1>1, <1>3, <1>4 DEF Requested, Shaped, CopyOfSession, Locked, Critical, Typed
<1>8. \A x \in Sessions : Known(x)' <=> Known(x) \/ x = s
  BY <1>1, <1>5 DEF Known
<1>9. NamesKnown'
  <2>1. ASSUME NEW x \in Requests, req'[x].at \notin {"none", "dir", "make"}
        PROVE  Known(req[x].sess)'
    <3>1. CASE x = r
      BY <3>1, <1>3, <1>4, <1>5 DEF Known
    <3>2. CASE x # r
      <4>1. req[x].sess \in Sessions /\ Known(req[x].sess) /\ req'[x].sess = req[x].sess
        BY <2>1, <3>2, <1>4 DEF NamesKnown, Requested, Shaped
      <4> QED BY <4>1, <1>1, <1>5 DEF Known
    <3> QED BY <3>1, <3>2
  <2>2. \A x \in DOMAIN live' : Known(x)'
    BY <1>1, <1>8 DEF NamesKnown, Typed
  <2>3. \A k \in DOMAIN idem' : disk'[idem'[k].val] # NULL \/ idem'[k].val \in deleted'
    BY <1>1, <1>5 DEF NamesKnown, Typed, Known
  <2> QED BY <2>1, <2>2, <2>3 DEF NamesKnown, Known
<1>10. Creating'
  BY <1>1, <1>2, <1>3, <1>4, <1>8 DEF Creating, Requested, Shaped
<1>11. Unregistered'
  BY <1>1, <1>2, <1>3, <1>4, <1>5 DEF Unregistered, Requested, Shaped
<1>12. FoundIsLive'
  BY <1>1, <1>3, <1>4 DEF FoundIsLive
<1>13. LiveCopies' /\ LiveIsCurrent'
  BY <1>1, <1>2, <1>3, <1>4, <1>5 DEF LiveCopies, LiveIsCurrent, Typed
<1>14. RunsInLiveCopy' /\ DivergenceIsStray'
  BY <1>1, <1>2, <1>5 DEF RunsInLiveCopy, IsLive, DivergenceIsStray, Typed
<1> QED BY <1>6, <1>7, <1>9, <1>10, <1>11, <1>12, <1>13, <1>14

LEMMA RegisterSession ==
  ASSUME SessionInv, NEW r \in Requests, Register(r)
  PROVE  SessionInv'
<1> USE NullDistinct DEF SessionInv
<1> DEFINE s == req[r].sess
           c == Len(copies) + 1
<1>1. /\ req[r].at = "register" /\ disk' = [disk EXCEPT ![s] = IF @ = NULL THEN 1 ELSE @]
      /\ copies' = NewCopy(s, 1) /\ Insert(s, c) /\ clock' = clock + 1 /\ Step(r, "limit")
      /\ UNCHANGED <<root, dirs, lock, idem, ops, deleted, reused, stray, made, puts, excused>>
  BY DEF Register, Tick, history
<1>2. /\ s \in Sessions /\ Known(s) /\ Len(copies) \in Nat /\ DOMAIN copies = 1..Len(copies)
      /\ s \notin stray =>
            /\ s \notin DOMAIN live /\ s \notin deleted /\ disk[s] = 1
            /\ \A q \in Requests \ {r} : req[q].sess = s => req[q].at \in {"lock", "held"}
  <2>1. s \in Sessions /\ Known(s)
    BY <1>1 DEF Requested, Shaped, NamesKnown
  <2>2. Len(copies) \in Nat /\ DOMAIN copies = 1..Len(copies)
    BY DEF Typed
  <2> QED BY <1>1, <2>1, <2>2 DEF Unregistered
<1>3. /\ req' \in [Requests -> Request]
      /\ \A q \in Requests \ {r} : req'[q] = req[q]
      /\ req'[r].at = "limit" /\ req'[r].op = req[r].op /\ req'[r].sess = s
      /\ req'[r].key = req[r].key
  BY <1>1, StepFields DEF Typed, Places
<1>4. /\ DOMAIN live' = DOMAIN live \cup {s}
      /\ live' \in [DOMAIN live' -> [copy : Nat, access : Nat]]
      /\ live'[s].copy = c
      /\ \A x \in DOMAIN live \ {s} : live'[x] = live[x]
  <2>1. c \in Nat
    BY <1>2
  <2> QED BY <1>1, <1>2, <2>1, InsertFields
<1>5. /\ copies' \in Seq(Copy) /\ Len(copies') = c
      /\ \A i \in 1..Len(copies) : copies'[i] = copies[i]
      /\ copies'[c] = [sess |-> s, seq |-> 1, closing |-> FALSE, runs |-> 0]
  BY <1>1, <1>2, NewCopyFields
<1>6. /\ disk' \in [Sessions -> Nat \cup {NULL}] /\ disk'[s] # NULL
      /\ \A x \in Sessions : x # s \/ disk[x] # NULL => disk'[x] = disk[x]
  BY <1>1, <1>2 DEF Typed
<1>7. Typed'
  BY <1>1, <1>2, <1>3, <1>4, <1>5, <1>6 DEF Typed
<1>8. Requested'
  BY <1>1, <1>2, <1>3, <1>5 DEF Requested, Shaped, CopyOfSession
<1>9. Locked'
  BY <1>1, <1>3, LockedAfter DEF Critical
<1>10. \A x \in Sessions : Known(x)' <=> Known(x)
  BY <1>1, <1>2, <1>6 DEF Known
<1>11. NamesKnown'
  <2>1. \A x \in Requests : req'[x].at \notin {"none", "dir", "make"} =>
           req'[x].sess \in Sessions /\ Known(req'[x].sess)
    BY <1>1, <1>2, <1>3 DEF NamesKnown, Requested, Shaped
  <2> QED BY <2>1, <1>1, <1>2, <1>4, <1>10 DEF NamesKnown, Typed
<1>12. Creating'
  BY <1>1, <1>3, <1>10 DEF Creating, Requested, Shaped
<1>13. Unregistered'
  <2>1. ASSUME NEW q \in Requests, req'[q].at = "register", req'[q].sess \notin stray
        PROVE  q # r /\ req[q].sess \in Sessions /\ req[q].sess # s
    BY <2>1, <1>1, <1>2, <1>3 DEF Requested, Shaped
  <2>2. ASSUME NEW q \in Requests, req'[q].at = "register", req'[q].sess \notin stray
        PROVE  /\ req'[q].sess \notin DOMAIN live' /\ req'[q].sess \notin deleted
               /\ disk'[req'[q].sess] = 1
    BY <2>1, <2>2, <1>3, <1>4, <1>6 DEF Unregistered
  <2>3. ASSUME NEW q \in Requests, req'[q].at = "register", req'[q].sess \notin stray,
               NEW x \in Requests \ {q}, req'[x].sess = req'[q].sess
        PROVE  req'[x].at \in {"lock", "held"}
    BY <2>1, <2>3, <1>3 DEF Unregistered
  <2> QED BY <2>2, <2>3, <1>1 DEF Unregistered
<1>14. FoundIsLive'
  BY <1>1, <1>2, <1>3, <1>4 DEF FoundIsLive
<1>15. LiveCopies'
  BY <1>2, <1>4, <1>5 DEF LiveCopies, Typed
<1>16. LiveIsCurrent'
  <2>1. ASSUME NEW t \in DOMAIN live \ {s}, t \notin stray
        PROVE  /\ disk'[t] = copies'[live'[t].copy].seq
               /\ \A x \in Requests : req'[x].sess = t => req'[x].at # "remove"
    <3>1. /\ disk[t] = copies[live[t].copy].seq /\ live[t].copy \in 1..Len(copies)
          /\ t \in Sessions /\ copies[live[t].copy] \in Copy
      BY <2>1 DEF LiveIsCurrent, Typed
    <3>2. disk[t] # NULL
      BY <3>1 DEF Copy
    <3>3. disk'[t] = copies'[live'[t].copy].seq
      BY <3>1, <3>2, <1>4, <1>5, <1>6
    <3>4. \A x \in Requests : req'[x].sess = t => req'[x].at # "remove"
      BY <2>1, <1>3 DEF LiveIsCurrent
    <3> QED BY <3>3, <3>4
  <2>2. ASSUME s \notin stray
        PROVE  /\ disk'[s] = copies'[live'[s].copy].seq
               /\ \A x \in Requests : req'[x].sess = s => req'[x].at # "remove"
    <3>1. disk'[s] = copies'[live'[s].copy].seq
      BY <2>2, <1>2, <1>4, <1>5, <1>6
    <3>2. ASSUME NEW x \in Requests, req'[x].sess = s PROVE req'[x].at # "remove"
      BY <2>2, <3>2, <1>2, <1>3
    <3> QED BY <3>1, <3>2
  <2> QED BY <2>1, <2>2, <1>1, <1>4 DEF LiveIsCurrent
<1>17. RunsInLiveCopy'
  <2>1. ASSUME NEW i \in DOMAIN copies', copies'[i].runs > 0, copies'[i].sess \notin stray
        PROVE  /\ copies'[i].sess \in DOMAIN live' /\ live'[copies'[i].sess].copy = i
               /\ ~copies'[i].closing
    <3>1. i \in 1..Len(copies) /\ copies'[i] = copies[i]
      BY <2>1, <1>2, <1>5
    <3>2. /\ copies[i].sess \in DOMAIN live /\ live[copies[i].sess].copy = i
          /\ ~copies[i].closing
      BY <2>1, <3>1, <1>2 DEF RunsInLiveCopy, IsLive
    <3> QED BY <2>1, <3>1, <3>2, <1>2, <1>4
  <2> QED BY <2>1, <1>1 DEF RunsInLiveCopy, IsLive
<1>18. DivergenceIsStray'
  BY <1>1, <1>2, <1>6 DEF DivergenceIsStray, Typed
<1> QED BY <1>7, <1>8, <1>9, <1>11, <1>12, <1>13, <1>14, <1>15, <1>16, <1>17, <1>18

-----------------------------------------------------------------------------
\* Evict and Unregister take a copy out of the registry and close it.

\* Without the copy of session s, which has no run left, the rest is as it was.
LEMMA Unregistering ==
  ASSUME SessionInv, NEW s \in DOMAIN live,
         DOMAIN live' = DOMAIN live \ {s}, \A x \in DOMAIN live \ {s} : live'[x] = live[x],
         copies' \in Seq(Copy), Len(copies') = Len(copies),
         \A i \in 1..Len(copies) :
            /\ copies'[i].sess = copies[i].sess /\ copies'[i].seq = copies[i].seq
            /\ i # live[s].copy => copies'[i] = copies[i],
         copies'[live[s].copy].runs = 0,
         stray \subseteq stray', UNCHANGED <<disk, deleted, reused>>
  PROVE  /\ LiveCopies' /\ RunsInLiveCopy' /\ DivergenceIsStray'
         /\ \A x \in DOMAIN live' : x \in DOMAIN live /\ disk'[x] = disk[x]
               /\ copies'[live'[x].copy].seq = copies[live[x].copy].seq
<1> USE DEF SessionInv
<1>1. /\ Len(copies) \in Nat /\ DOMAIN copies = 1..Len(copies) /\ DOMAIN copies' = 1..Len(copies)
      /\ live[s].copy \in 1..Len(copies) /\ copies[live[s].copy].sess = s
      /\ \A i \in 1..Len(copies') : copies'[i] \in Copy
  BY DEF Typed, LiveCopies
<1>2. ASSUME NEW x \in DOMAIN live'
      PROVE  /\ x \in DOMAIN live /\ live'[x] = live[x] /\ live[x].copy \in 1..Len(copies)
             /\ live[x].copy # live[s].copy /\ copies'[live'[x].copy] = copies[live[x].copy]
  BY <1>1 DEF LiveCopies, Typed
<1>3. LiveCopies'
  BY <1>2 DEF LiveCopies
<1>4. RunsInLiveCopy'
  <2>1. ASSUME NEW i \in DOMAIN copies', copies'[i].runs > 0, copies'[i].sess \notin stray'
        PROVE  /\ copies'[i].sess \in DOMAIN live' /\ live'[copies'[i].sess].copy = i
               /\ ~copies'[i].closing
    <3>1. i # live[s].copy
      BY <2>1
    <3>2. i \in DOMAIN copies /\ copies'[i] = copies[i] /\ copies[i].sess \notin stray
      BY <2>1, <3>1, <1>1
    <3>3. /\ copies[i].sess \in DOMAIN live /\ live[copies[i].sess].copy = i
          /\ ~copies[i].closing
      BY <2>1, <3>2 DEF RunsInLiveCopy, IsLive
    <3> QED BY <3>1, <3>2, <3>3
  <2> QED BY <2>1 DEF RunsInLiveCopy, IsLive
<1>5. DivergenceIsStray'
  BY DEF DivergenceIsStray
<1> QED BY <1>2, <1>3, <1>4, <1>5

LEMMA EvictSession ==
  ASSUME SessionInv, NEW r \in Requests, NEW e \in req[r].todo, Evict(r, e)
  PROVE  SessionInv'
<1> USE NullDistinct DEF SessionInv
<1> DEFINE s == e.sess
           c == e.copy
           q == [req[r] EXCEPT !.todo = @ \ {e}]
           goes == /\ copies[c].runs = 0 /\ s \in DOMAIN live
                   /\ live[s].copy = c /\ live[s].access = e.access
           new == [copies[c] EXCEPT !.closing = TRUE]
<1>1. /\ req[r].at = "evict" /\ lock[s] = NULL /\ req' = [req EXCEPT ![r] = q]
      /\ UNCHANGED <<disk, root, dirs, lock, idem, clock, ops, deleted, reused, stray,
                     made, puts, excused>>
      /\ goes => /\ live' = Restrict(live, DOMAIN live \ {s})
                 /\ copies' = [copies EXCEPT ![c] = new]
      /\ ~goes => UNCHANGED <<live, copies>>
  BY DEF Evict, history
<1>2. req[r] \in Request /\ s \in Sessions
  BY DEF Typed, Request, Entry
<1>3. /\ q \in Request /\ q.at = "evict" /\ q.op = req[r].op /\ q.sess = req[r].sess
      /\ q.key = req[r].key /\ q.copy = req[r].copy
  BY <1>1, <1>2 DEF Request
<1> HIDE DEF q
<1>4. /\ req' \in [Requests -> Request] /\ req'[r] = q
      /\ \A x \in Requests \ {r} : req'[x] = req[x]
  BY <1>1, <1>3 DEF Typed
<1>5. \A x \in Requests :
         /\ req'[x].at = req[x].at /\ req'[x].op = req[x].op /\ req'[x].sess = req[x].sess
         /\ req'[x].key = req[x].key /\ req'[x].copy = req[x].copy
         /\ req[x].at = "dir" => req'[x].src = req[x].src
  BY <1>1, <1>3, <1>4
<1>6. Locked'
  BY <1>1, <1>5 DEF Locked, Critical, Typed
<1>7. Creating'
  BY <1>1, <1>5 DEF Creating, Known
<1>8. CASE ~goes
  <2>1. Typed'
    BY <1>1, <1>4, <1>8 DEF Typed
  <2>2. Requested'
    BY <1>1, <1>5, <1>8 DEF Requested, Shaped, CopyOfSession
  <2>3. NamesKnown' /\ Unregistered' /\ FoundIsLive'
    BY <1>1, <1>5, <1>8 DEF NamesKnown, Known, Unregistered, FoundIsLive
  <2>4. LiveCopies' /\ LiveIsCurrent'
    BY <1>1, <1>5, <1>8 DEF LiveCopies, LiveIsCurrent
  <2>5. RunsInLiveCopy' /\ DivergenceIsStray'
    BY <1>1, <1>8 DEF RunsInLiveCopy, IsLive, DivergenceIsStray
  <2> QED BY <1>6, <1>7, <2>1, <2>2, <2>3, <2>4, <2>5
<1>9. CASE goes
  <2>1. c \in 1..Len(copies) /\ copies[c] \in Copy /\ copies[c].runs = 0
    BY <1>9 DEF Typed
  <2>2. new \in Copy /\ new.sess = copies[c].sess /\ new.seq = copies[c].seq /\ new.runs = 0
    BY <2>1 DEF Copy
  <2> HIDE DEF new
  <2>3. /\ copies' \in Seq(Copy) /\ Len(copies') = Len(copies) /\ copies'[c] = new
        /\ \A i \in 1..Len(copies) : i # c => copies'[i] = copies[i]
    BY <1>1, <1>9, <2>1, <2>2, CopyFields
  <2>4. /\ DOMAIN live' = DOMAIN live \ {s}
        /\ \A x \in DOMAIN live \ {s} : live'[x] = live[x]
        /\ live' \in [DOMAIN live' -> [copy : Nat, access : Nat]]
    BY <1>1, <1>9 DEF Restrict, Typed
  <2>5. /\ LiveCopies' /\ RunsInLiveCopy' /\ DivergenceIsStray'
        /\ \A x \in DOMAIN live' : x \in DOMAIN live /\ disk'[x] = disk[x]
               /\ copies'[live'[x].copy].seq = copies[live[x].copy].seq
    BY <1>1, <1>9, <2>2, <2>3, <2>4, Unregistering
  <2>6. Typed'
    BY <1>1, <1>4, <2>3, <2>4 DEF Typed
  <2>7. Requested'
    BY <1>1, <1>5, <2>2, <2>3 DEF Requested, Shaped, CopyOfSession
  <2>8. NamesKnown' /\ Unregistered'
    BY <1>1, <1>5, <2>4 DEF NamesKnown, Known, Unregistered
  <2>9. FoundIsLive'
    BY <1>1, <1>5, <2>4 DEF FoundIsLive, Locked, Critical
  <2>10. LiveIsCurrent'
    BY <1>1, <1>5, <2>5 DEF LiveIsCurrent
  <2> QED BY <1>6, <1>7, <2>5, <2>6, <2>7, <2>8, <2>9, <2>10
<1> QED BY <1>8, <1>9

LEMMA UnregisterSession ==
  ASSUME SessionInv, NEW r \in Requests, Unregister(r)
  PROVE  SessionInv'
<1> USE NullDistinct DEF SessionInv
<1> DEFINE s == req[r].sess
           c == live[s].copy
           new == [copies[c] EXCEPT !.closing = TRUE, !.runs = 0]
<1>1. /\ req[r].at = "held" /\ req[r].op = "delete" /\ Step(r, "remove") /\ MarkEarly(s)
      /\ live' = Restrict(live, DOMAIN live \ {s})
      /\ s \in DOMAIN live => copies' = [copies EXCEPT ![c] = new]
      /\ s \notin DOMAIN live => copies' = copies
      /\ UNCHANGED <<disk, root, dirs, lock, idem, clock, ops, deleted, reused, made, puts,
                     excused>>
  BY DEF Unregister
<1>2. s \in Sessions /\ lock[s] = r
  BY <1>1 DEF Requested, Shaped, Locked, Critical
<1>3. /\ req' \in [Requests -> Request]
      /\ \A q \in Requests \ {r} : req'[q] = req[q]
      /\ req'[r].at = "remove" /\ req'[r].op = req[r].op /\ req'[r].sess = s
      /\ req'[r].key = req[r].key
  BY <1>1, StepFields DEF Typed, Places
<1>4. /\ stray' \in SUBSET Sessions /\ stray \subseteq stray'
      /\ s \notin stray' =>
            \A x \in Requests : req[x].sess = s => req[x].at # "register"
  BY <1>1, <1>2 DEF MarkEarly, Registering, Typed
<1>5. /\ DOMAIN live' = DOMAIN live \ {s}
      /\ \A x \in DOMAIN live \ {s} : live'[x] = live[x]
      /\ live' \in [DOMAIN live' -> [copy : Nat, access : Nat]]
  BY <1>1 DEF Restrict, Typed
<1>6. /\ copies' \in Seq(Copy) /\ Len(copies') = Len(copies)
      /\ \A i \in 1..Len(copies) :
            /\ copies'[i].sess = copies[i].sess /\ copies'[i].seq = copies[i].seq
            /\ (s \in DOMAIN live => i # c) => copies'[i] = copies[i]
      /\ s \in DOMAIN live => copies'[c].runs = 0
  <2>1. CASE s \in DOMAIN live
    <3>1. c \in 1..Len(copies) /\ copies[c] \in Copy
      BY <2>1 DEF Typed
    <3>2. new \in Copy /\ new.sess = copies[c].sess /\ new.seq = copies[c].seq /\ new.runs = 0
      BY <3>1 DEF Copy
    <3> HIDE DEF new
    <3>3. /\ copies' \in Seq(Copy) /\ Len(copies') = Len(copies) /\ copies'[c] = new
          /\ \A i \in 1..Len(copies) : i # c => copies'[i] = copies[i]
      BY <1>1, <2>1, <3>1, <3>2, CopyFields
    <3> QED BY <2>1, <3>2, <3>3
  <2>2. CASE s \notin DOMAIN live
    BY <1>1, <2>2 DEF Typed
  <2> QED BY <2>1, <2>2
<1>7. /\ LiveCopies' /\ RunsInLiveCopy' /\ DivergenceIsStray'
      /\ \A x \in DOMAIN live' : x \in DOMAIN live /\ disk'[x] = disk[x]
            /\ copies'[live'[x].copy].seq = copies[live[x].copy].seq
  <2>1. CASE s \in DOMAIN live
    <3>1. /\ \A i \in 1..Len(copies) :
                /\ copies'[i].sess = copies[i].sess /\ copies'[i].seq = copies[i].seq
                /\ i # live[s].copy => copies'[i] = copies[i]
          /\ copies'[live[s].copy].runs = 0
      BY <1>6, <2>1
    <3>2. UNCHANGED <<disk, deleted, reused>>
      BY <1>1
    <3> HIDE DEF SessionInv, c, s
    <3> QED BY <1>4, <1>5, <1>6, <2>1, <3>1, <3>2, Unregistering
  <2>2. CASE s \notin DOMAIN live
    <3>1. DOMAIN live \ {s} = DOMAIN live
      BY <2>2
    <3>2. live' = live /\ copies' = copies
      BY <1>1, <2>2, <3>1 DEF Restrict, Typed
    <3>3. RunsInLiveCopy'
      BY <1>4, <3>2 DEF RunsInLiveCopy, IsLive
    <3>4. LiveCopies'
      BY <3>2 DEF LiveCopies
    <3>5. DivergenceIsStray'
      BY <1>1, <1>4 DEF DivergenceIsStray
    <3> QED BY <1>1, <3>2, <3>3, <3>4, <3>5
  <2> QED BY <2>1, <2>2
<1>8. Typed'
  BY <1>1, <1>3, <1>4, <1>5, <1>6 DEF Typed
<1>9. Requested'
  BY <1>1, <1>3, <1>6 DEF Requested, Shaped, CopyOfSession
<1>10. Locked'
  <2>1. \A x \in Requests : /\ req'[x].sess = req[x].sess
                            /\ req'[x].at \in Critical <=> req[x].at \in Critical
    BY <1>1, <1>3 DEF Critical
  <2>2. \A x \in Requests : req'[x].at \in Critical => lock[req'[x].sess] = x
    BY <2>1 DEF Locked
  <2>3. ASSUME NEW x \in Sessions, lock[x] # NULL
        PROVE  req'[lock[x]].sess = x /\ req'[lock[x]].at \in Critical
    <3>1. lock[x] \in Requests
      BY <2>3 DEF Typed
    <3> QED BY <2>1, <2>3, <3>1 DEF Locked
  <2> QED BY <2>2, <2>3, <1>1 DEF Locked
<1>11. NamesKnown' /\ Creating'
  BY <1>1, <1>3, <1>5 DEF NamesKnown, Known, Creating
<1>12. Unregistered'
  <2>1. ASSUME NEW x \in Requests, req'[x].at = "register", req'[x].sess \notin stray'
        PROVE  x # r /\ req'[x] = req[x] /\ req[x].sess # s /\ req[x].sess \notin stray
    BY <2>1, <1>3, <1>4
  <2> QED BY <2>1, <1>1, <1>3, <1>5 DEF Unregistered
<1>13. FoundIsLive'
  <2>1. ASSUME NEW x \in Requests, req'[x].at = "found"
        PROVE  x # r /\ req'[x] = req[x] /\ req[x].sess # s
    BY <2>1, <1>2, <1>3 DEF Locked, Critical
  <2> QED BY <2>1, <1>4, <1>5 DEF FoundIsLive
<1>14. LiveIsCurrent'
  <2>1. ASSUME NEW t \in DOMAIN live', t \notin stray'
        PROVE  /\ disk'[t] = copies'[live'[t].copy].seq
               /\ \A x \in Requests : req'[x].sess = t => req'[x].at # "remove"
    <3>1. t \in DOMAIN live /\ t # s /\ t \notin stray
      BY <2>1, <1>4, <1>5
    <3>2. disk'[t] = copies'[live'[t].copy].seq
      BY <2>1, <3>1, <1>7 DEF LiveIsCurrent
    <3>3. ASSUME NEW x \in Requests, req'[x].sess = t PROVE req'[x].at # "remove"
      BY <3>1, <3>3, <1>3 DEF LiveIsCurrent
    <3> QED BY <3>2, <3>3
  <2> QED BY <2>1 DEF LiveIsCurrent
<1> QED BY <1>7, <1>8, <1>9, <1>10, <1>11, <1>12, <1>13, <1>14

-----------------------------------------------------------------------------
\* Writes through a copy, and the removal of a session from disk.

\* An event appended through copy c of a session: on disk and in the copy one more,
\* unless c is not the registered copy and the session counted as stray.
LEMMA Appending ==
  ASSUME SessionInv, NEW c \in 1..Len(copies), NEW s \in Sessions, copies[c].sess = s,
         NEW new \in Copy, new.sess = s, new.seq = copies[c].seq + 1,
         new.closing = copies[c].closing, new.runs <= copies[c].runs,
         copies' = [copies EXCEPT ![c] = new], disk[s] # NULL,
         disk' = [disk EXCEPT ![s] = IF new.seq > @ THEN new.seq ELSE @],
         reused' = IF new.seq <= disk[s] THEN reused \cup {s} ELSE reused,
         stray' \in SUBSET Sessions, stray \subseteq stray',
         s \notin stray' => s \in DOMAIN live /\ live[s].copy = c,
         UNCHANGED <<live, deleted>>
  PROVE  /\ copies' \in Seq(Copy) /\ Len(copies') = Len(copies)
         /\ \A i \in 1..Len(copies) : copies'[i].sess = copies[i].sess
         /\ disk' \in [Sessions -> Nat \cup {NULL}] /\ reused' \in SUBSET Sessions
         /\ \A x \in Sessions : disk'[x] = NULL <=> disk[x] = NULL
         /\ LiveCopies' /\ RunsInLiveCopy' /\ DivergenceIsStray'
         /\ \A x \in Sessions \ {s} : disk'[x] = disk[x]
         /\ \A t \in DOMAIN live : t \notin stray' => disk'[t] = copies'[live[t].copy].seq
<1> USE NullDistinct DEF SessionInv
<1>1. /\ copies' \in Seq(Copy) /\ Len(copies') = Len(copies)
      /\ DOMAIN copies = 1..Len(copies) /\ DOMAIN copies' = 1..Len(copies)
      /\ copies'[c] = new /\ \A i \in 1..Len(copies) : i # c => copies'[i] = copies[i]
  BY CopyFields
<1>2. \A i \in 1..Len(copies) : /\ copies[i] \in Copy /\ copies'[i] \in Copy
                                /\ copies'[i].sess = copies[i].sess
                                /\ copies'[i].closing = copies[i].closing
                                /\ copies'[i].runs > 0 => copies[i].runs > 0
  <2>1. \A i \in 1..Len(copies) : copies[i] \in Copy /\ copies'[i] \in Copy
    BY <1>1 DEF Typed
  <2>2. new.runs \in Nat /\ copies[c].runs \in Nat
    BY <2>1 DEF Copy
  <2> QED BY <1>1, <2>1, <2>2
<1>3. disk[s] \in Nat /\ new.seq \in Nat /\ copies[c].seq \in Nat
  BY <1>2 DEF Typed, Copy
<1>4. /\ disk' \in [Sessions -> Nat \cup {NULL}] /\ disk'[s] \in Nat
      /\ disk'[s] = (IF new.seq > disk[s] THEN new.seq ELSE disk[s])
      /\ \A x \in Sessions \ {s} : disk'[x] = disk[x]
  BY <1>3 DEF Typed
<1>5. reused' \in SUBSET Sessions
  BY DEF Typed
<1>6. \A x \in Sessions : disk'[x] = NULL <=> disk[x] = NULL
  BY <1>3, <1>4
<1>7. s \notin stray' => disk[s] = copies[c].seq /\ disk'[s] = new.seq /\ reused' = reused
  <2>1. s \notin stray' => disk[s] = copies[c].seq
    BY DEF LiveIsCurrent
  <2> QED BY <2>1, <1>3, <1>4
<1>8. LiveCopies'
  BY <1>2 DEF LiveCopies, Typed
<1>9. RunsInLiveCopy'
  <2>1. ASSUME NEW i \in DOMAIN copies', copies'[i].runs > 0, copies'[i].sess \notin stray'
        PROVE  /\ copies'[i].sess \in DOMAIN live' /\ live'[copies'[i].sess].copy = i
               /\ ~copies'[i].closing
    BY <2>1, <1>1, <1>2 DEF RunsInLiveCopy, IsLive
  <2> QED BY <2>1 DEF RunsInLiveCopy, IsLive
<1>10. DivergenceIsStray'
  <2>1. reused' \subseteq stray'
    BY <1>7 DEF DivergenceIsStray
  <2>2. ASSUME NEW x \in deleted, disk'[x] # NULL PROVE x \in stray'
    BY <2>2, <1>6 DEF DivergenceIsStray, Typed
  <2> QED BY <2>1, <2>2 DEF DivergenceIsStray
<1>11. ASSUME NEW t \in DOMAIN live, t \notin stray'
       PROVE  disk'[t] = copies'[live[t].copy].seq
  <2>1. CASE t = s
    BY <2>1, <1>1, <1>7, <1>11
  <2>2. CASE t # s
    <3>1. live[t].copy \in 1..Len(copies) /\ live[t].copy # c /\ t \in Sessions
      BY <2>2 DEF LiveCopies, Typed
    <3> QED BY <2>2, <3>1, <1>1, <1>4, <1>11 DEF LiveIsCurrent
  <2> QED BY <2>1, <2>2
<1> QED BY <1>1, <1>2, <1>4, <1>5, <1>6, <1>8, <1>9, <1>10, <1>11

LEMMA RunEndsSession ==
  ASSUME SessionInv, NEW c \in DOMAIN copies, RunEnds(c)
  PROVE  SessionInv'
<1> USE NullDistinct DEF SessionInv
<1> DEFINE s == copies[c].sess
           new == [copies[c] EXCEPT !.seq = @ + 1, !.runs = @ - 1]
<1>1. c \in 1..Len(copies) /\ copies[c] \in Copy /\ s \in Sessions
  <2>1. c \in 1..Len(copies) /\ copies[c] \in Copy
    BY DEF Typed
  <2> QED BY <2>1 DEF Copy
<1>2. /\ copies[c].runs > 0 /\ disk[s] # NULL
      /\ copies' = [copies EXCEPT ![c].seq = copies[c].seq + 1, ![c].runs = @ - 1]
      /\ disk' = [disk EXCEPT ![s] = IF copies[c].seq + 1 > @ THEN copies[c].seq + 1 ELSE @]
      /\ reused' = IF copies[c].seq + 1 <= disk[s] THEN reused \cup {s} ELSE reused
      /\ UNCHANGED <<root, dirs, live, lock, idem, req, clock, ops, deleted, stray, made, puts,
                     excused>>
  BY DEF RunEnds
<1>3. /\ new \in Copy /\ new.sess = s /\ new.seq = copies[c].seq + 1
      /\ new.closing = copies[c].closing /\ new.runs = copies[c].runs - 1
      /\ new.runs <= copies[c].runs
  BY <1>1, <1>2 DEF Copy
<1>4. copies' = [copies EXCEPT ![c] = new]
  BY <1>1, <1>2 DEF Copy, Typed
<1> HIDE DEF new
<1>5. s \notin stray => s \in DOMAIN live /\ live[s].copy = c
  BY <1>2 DEF RunsInLiveCopy, IsLive
<1>6. /\ copies' \in Seq(Copy) /\ Len(copies') = Len(copies)
      /\ \A i \in 1..Len(copies) : copies'[i].sess = copies[i].sess
      /\ disk' \in [Sessions -> Nat \cup {NULL}] /\ reused' \in SUBSET Sessions
      /\ \A x \in Sessions : disk'[x] = NULL <=> disk[x] = NULL
      /\ LiveCopies' /\ RunsInLiveCopy' /\ DivergenceIsStray'
      /\ \A x \in Sessions \ {s} : disk'[x] = disk[x]
      /\ \A t \in DOMAIN live : t \notin stray' => disk'[t] = copies'[live[t].copy].seq
  <2>1. /\ disk' = [disk EXCEPT ![s] = IF new.seq > @ THEN new.seq ELSE @]
        /\ reused' = IF new.seq <= disk[s] THEN reused \cup {s} ELSE reused
        /\ stray' \in SUBSET Sessions /\ stray \subseteq stray'
        /\ UNCHANGED <<live, deleted>>
        /\ s \notin stray' => s \in DOMAIN live /\ live[s].copy = c
    BY <1>2, <1>3, <1>5 DEF Typed
  <2>2. copies[c].sess = s /\ disk[s] # NULL
    BY <1>2
  <2> HIDE DEF SessionInv, s
  <2> QED BY <1>1, <1>3, <1>4, <2>1, <2>2, Appending
<1>7. Typed'
  BY <1>2, <1>6 DEF Typed
<1>8. Requested' /\ Locked'
  BY <1>2, <1>6 DEF Requested, Shaped, CopyOfSession, Locked, Critical
<1>9. NamesKnown'
  BY <1>2, <1>6 DEF NamesKnown, Known, Typed, Requested, Shaped
<1>10. Creating'
  BY <1>2, <1>6 DEF Creating, Known, Requested, Shaped
<1>11. Unregistered'
  BY <1>2, <1>5, <1>6 DEF Unregistered, Requested, Shaped
<1>12. FoundIsLive'
  BY <1>2 DEF FoundIsLive
<1>13. LiveIsCurrent'
  <2>1. \A t \in DOMAIN live : t \notin stray =>
           \A x \in Requests : req[x].sess = t => req[x].at # "remove"
    BY DEF LiveIsCurrent
  <2>2. \A t \in DOMAIN live : t \notin stray => disk'[t] = copies'[live[t].copy].seq
    BY <1>2, <1>6
  <2> HIDE DEF SessionInv
  <2> QED BY <1>2, <2>1, <2>2 DEF LiveIsCurrent
<1> QED BY <1>6, <1>7, <1>8, <1>9, <1>10, <1>11, <1>12, <1>13

LEMMA WriteSession ==
  ASSUME SessionInv, NEW r \in Requests, Write(r)
  PROVE  SessionInv'
<1> USE NullDistinct, NoneFields DEF SessionInv
<1> DEFINE s == req[r].sess
           c == req[r].copy
           new == [copies[c] EXCEPT !.seq = @ + 1]
<1>1. /\ req[r].at = "write" /\ Done(r)
      /\ stray' = IF IsLive(c) THEN stray ELSE stray \cup {s}
      /\ \/ req[r].op = "goal" /\ disk[s] # NULL /\ AppendThrough(c)
         \/ UNCHANGED <<copies, disk, reused>>
         \/ /\ disk' = [disk EXCEPT ![s] = IF @ = NULL THEN copies[c].seq ELSE @]
            /\ UNCHANGED <<copies, reused>>
      /\ UNCHANGED <<root, dirs, live, lock, idem, clock, ops, deleted, made, puts, excused>>
  BY DEF Write
<1>2. /\ s \in Sessions /\ c \in 1..Len(copies) /\ copies[c].sess = s /\ Known(s)
      /\ copies[c] \in Copy
  <2>1. s \in Sessions /\ Known(s)
    BY <1>1 DEF Requested, Shaped, NamesKnown
  <2>2. c \in 1..Len(copies) /\ copies[c].sess = s
    BY <1>1 DEF Requested, CopyOfSession
  <2>3. copies[c] \in Copy
    BY <2>2 DEF Typed
  <2> QED BY <2>1, <2>2, <2>3
<1>3. /\ req' \in [Requests -> Request] /\ req'[r] = None
      /\ \A q \in Requests \ {r} : req'[q] = req[q]
  BY <1>1, DoneFields DEF Typed
<1>4. /\ stray' \in SUBSET Sessions /\ stray \subseteq stray'
      /\ s \notin stray' => s \in DOMAIN live /\ live[s].copy = c
  BY <1>1, <1>2 DEF IsLive, Typed
<1>5. s \notin stray' => disk[s] # NULL
  BY <1>2, <1>4 DEF LiveIsCurrent, Copy
<1>6. /\ copies' \in Seq(Copy) /\ Len(copies') = Len(copies)
      /\ \A i \in 1..Len(copies) : copies'[i].sess = copies[i].sess
      /\ disk' \in [Sessions -> Nat \cup {NULL}] /\ reused' \in SUBSET Sessions
      /\ \A x \in Sessions : disk[x] # NULL => disk'[x] # NULL
      /\ \A x \in Sessions \ {s} : disk'[x] = disk[x]
      /\ LiveCopies' /\ RunsInLiveCopy' /\ DivergenceIsStray'
      /\ \A t \in DOMAIN live : t \notin stray' => disk'[t] = copies'[live[t].copy].seq
  <2>1. CASE disk[s] # NULL /\ AppendThrough(c)
    <3>1. /\ new \in Copy /\ new.sess = s /\ new.seq = copies[c].seq + 1
          /\ new.closing = copies[c].closing /\ new.runs <= copies[c].runs
      BY <1>2 DEF Copy
    <3>2. copies' = [copies EXCEPT ![c] = new]
      BY <1>2, <2>1 DEF AppendThrough, Copy, Typed
    <3>3. /\ disk' = [disk EXCEPT ![s] = IF copies[c].seq + 1 > @ THEN copies[c].seq + 1 ELSE @]
          /\ reused' = IF copies[c].seq + 1 <= disk[s] THEN reused \cup {s} ELSE reused
          /\ UNCHANGED <<live, deleted>>
      BY <1>1, <1>2, <2>1 DEF AppendThrough
    <3> HIDE DEF new, SessionInv
    <3> QED BY <1>2, <1>4, <2>1, <3>1, <3>2, <3>3, Appending
  <2>2. CASE /\ UNCHANGED <<copies, reused>>
             /\ \/ disk' = disk
                \/ disk' = [disk EXCEPT ![s] = IF @ = NULL THEN copies[c].seq ELSE @]
    <3>1. /\ disk' \in [Sessions -> Nat \cup {NULL}]
          /\ \A x \in Sessions : disk[x] # NULL => disk'[x] = disk[x]
          /\ \A x \in Sessions \ {s} : disk'[x] = disk[x]
      <4>1. copies[c].seq \in Nat
        BY <1>2 DEF Copy
      <4> QED BY <1>2, <2>2, <4>1 DEF Typed
    <3>2. s \notin stray' => disk' = disk
      BY <1>2, <1>5, <2>2 DEF Typed
    <3>3. LiveCopies' /\ RunsInLiveCopy'
      BY <1>1, <1>4, <2>2 DEF LiveCopies, RunsInLiveCopy, IsLive
    <3>4. DivergenceIsStray'
      BY <1>1, <1>4, <2>2, <3>1, <3>2 DEF DivergenceIsStray, Typed
    <3>5. ASSUME NEW t \in DOMAIN live, t \notin stray'
          PROVE  disk'[t] = copies'[live[t].copy].seq
      <4>1. disk[t] = copies[live[t].copy].seq /\ t \in Sessions
        BY <3>5, <1>4 DEF LiveIsCurrent, Typed
      <4>2. disk'[t] = disk[t]
        BY <3>1, <3>2, <3>5, <4>1
      <4> QED BY <2>2, <4>1, <4>2
    <3>6. copies \in Seq(Copy) /\ reused \in SUBSET Sessions
      BY DEF Typed
    <3>7. \A x \in Sessions : disk[x] # NULL => disk'[x] # NULL
      BY <3>1
    <3> QED BY <2>2, <3>1, <3>3, <3>4, <3>5, <3>6, <3>7
  <2> QED BY <1>1, <2>1, <2>2
<1>7. Typed'
  BY <1>1, <1>3, <1>4, <1>6 DEF Typed
<1>8. Requested'
  BY <1>1, <1>3, <1>6 DEF Requested, Shaped, CopyOfSession
<1>9. Locked'
  BY <1>1, <1>3, LockedAfter DEF Critical
<1>10. \A x \in Sessions : Known(x) => disk'[x] # NULL \/ x \in deleted'
  BY <1>1, <1>6 DEF Known
<1>11. NamesKnown'
  <2>1. ASSUME NEW x \in Requests, req'[x].at \notin {"none", "dir", "make"}
        PROVE  disk'[req'[x].sess] # NULL \/ req'[x].sess \in deleted'
    BY <2>1, <1>3, <1>10 DEF NamesKnown, Requested, Shaped
  <2>2. \A x \in DOMAIN live' : disk'[x] # NULL \/ x \in deleted'
    BY <1>1, <1>10 DEF NamesKnown, Typed
  <2>3. \A k \in DOMAIN idem' : disk'[idem'[k].val] # NULL \/ idem'[k].val \in deleted'
    BY <1>1, <1>10 DEF NamesKnown, Typed
  <2> QED BY <2>1, <2>2, <2>3 DEF NamesKnown, Known
<1>12. Creating'
  <2>1. ASSUME NEW x \in Requests, req'[x].at \in {"dir", "make"}
        PROVE  /\ x # r /\ req'[x] = req[x] /\ req[x].sess \in Sessions
               /\ req[x].sess # s /\ ~Known(req[x].sess)
    BY <2>1, <1>1, <1>2, <1>3 DEF Creating, Requested, Shaped
  <2> QED BY <2>1, <1>1, <1>3, <1>6 DEF Creating, Known
<1>13. Unregistered'
  <2>1. ASSUME NEW x \in Requests, req'[x].at = "register", req'[x].sess \notin stray'
        PROVE  /\ x # r /\ req'[x] = req[x] /\ req[x].sess \in Sessions
               /\ req[x].sess # s /\ req[x].sess \notin stray
    BY <2>1, <1>1, <1>3, <1>4 DEF Unregistered, Requested, Shaped
  <2> QED BY <2>1, <1>1, <1>3, <1>6 DEF Unregistered
<1>14. FoundIsLive'
  BY <1>1, <1>3, <1>4 DEF FoundIsLive
<1>15. LiveIsCurrent'
  <2>1. ASSUME NEW t \in DOMAIN live, t \notin stray', NEW x \in Requests, req'[x].sess = t
        PROVE  req'[x].at # "remove"
    BY <2>1, <1>3, <1>4 DEF LiveIsCurrent
  <2> QED BY <2>1, <1>1, <1>6 DEF LiveIsCurrent
<1> QED BY <1>6, <1>7, <1>8, <1>9, <1>11, <1>12, <1>13, <1>14, <1>15

LEMMA RemoveSession ==
  ASSUME SessionInv, NEW r \in Requests, Remove(r)
  PROVE  SessionInv'
<1> USE NullDistinct DEF SessionInv
<1> DEFINE s == req[r].sess
<1>1. /\ req[r].at = "remove" /\ disk' = [disk EXCEPT ![s] = NULL]
      /\ deleted' = deleted \cup {s} /\ Step(r, "workspace")
      /\ UNCHANGED <<root, dirs, copies, live, lock, idem, clock, ops, reused, stray, made,
                     puts, excused>>
  BY DEF Remove
<1>2. s \in Sessions /\ lock[s] = r /\ (s \in DOMAIN live => s \in stray)
  BY <1>1 DEF Requested, Shaped, Locked, Critical, LiveIsCurrent
<1>3. /\ req' \in [Requests -> Request]
      /\ \A q \in Requests \ {r} : req'[q] = req[q]
      /\ req'[r].at = "workspace" /\ req'[r].op = req[r].op /\ req'[r].sess = s
      /\ req'[r].key = req[r].key
  BY <1>1, StepFields DEF Typed, Places
<1>4. /\ disk' \in [Sessions -> Nat \cup {NULL}] /\ disk'[s] = NULL
      /\ \A x \in Sessions \ {s} : disk'[x] = disk[x]
  BY <1>1, <1>2 DEF Typed
<1>5. \A x \in Sessions : Known(x) => disk'[x] # NULL \/ x \in deleted'
  BY <1>1, <1>4 DEF Known
<1>6. Typed'
  BY <1>1, <1>2, <1>3, <1>4 DEF Typed
<1>7. Requested'
  BY <1>1, <1>3 DEF Requested, Shaped, CopyOfSession
<1>8. Locked'
  <2>1. \A x \in Requests : /\ req'[x].sess = req[x].sess
                            /\ req'[x].at \in Critical <=> req[x].at \in Critical
    BY <1>1, <1>3 DEF Critical
  <2>2. \A x \in Requests : req'[x].at \in Critical => lock[req'[x].sess] = x
    BY <2>1 DEF Locked
  <2>3. ASSUME NEW x \in Sessions, lock[x] # NULL
        PROVE  req'[lock[x]].sess = x /\ req'[lock[x]].at \in Critical
    <3>1. lock[x] \in Requests
      BY <2>3 DEF Typed
    <3> QED BY <2>1, <2>3, <3>1 DEF Locked
  <2> QED BY <2>2, <2>3, <1>1 DEF Locked
<1>9. NamesKnown'
  <2>1. ASSUME NEW x \in Requests, req'[x].at \notin {"none", "dir", "make"}
        PROVE  disk'[req'[x].sess] # NULL \/ req'[x].sess \in deleted'
    BY <2>1, <1>1, <1>2, <1>3, <1>5 DEF NamesKnown, Requested, Shaped
  <2>2. \A x \in DOMAIN live' : disk'[x] # NULL \/ x \in deleted'
    BY <1>1, <1>5 DEF NamesKnown, Typed
  <2>3. \A k \in DOMAIN idem' : disk'[idem'[k].val] # NULL \/ idem'[k].val \in deleted'
    BY <1>1, <1>5 DEF NamesKnown, Typed
  <2> QED BY <2>1, <2>2, <2>3 DEF NamesKnown, Known
<1>10. Creating'
  <2>1. ASSUME NEW x \in Requests, req'[x].at \in {"dir", "make"}
        PROVE  /\ x # r /\ req'[x] = req[x] /\ req[x].sess \in Sessions
               /\ req[x].sess # s /\ ~Known(req[x].sess)
               /\ \A q \in Requests \ {x} : req'[q].sess # req[x].sess
    BY <2>1, <1>1, <1>2, <1>3 DEF Creating, Requested, Shaped
  <2> QED BY <2>1, <1>1, <1>4 DEF Creating, Known
<1>11. Unregistered'
  <2>1. ASSUME NEW x \in Requests, req'[x].at = "register", req'[x].sess \notin stray
        PROVE  /\ x # r /\ req'[x] = req[x] /\ req[x].sess \in Sessions /\ req[x].sess # s
    BY <2>1, <1>1, <1>3 DEF Unregistered, Requested, Shaped
  <2> QED BY <2>1, <1>1, <1>3, <1>4 DEF Unregistered
<1>12. FoundIsLive' /\ LiveCopies'
  BY <1>1, <1>3 DEF FoundIsLive, LiveCopies
<1>13. LiveIsCurrent'
  <2>1. ASSUME NEW t \in DOMAIN live, t \notin stray
        PROVE  /\ disk'[t] = copies[live[t].copy].seq
               /\ \A x \in Requests : req'[x].sess = t => req'[x].at # "remove"
    <3>1. t # s /\ t \in Sessions
      BY <2>1, <1>2 DEF Typed
    <3> QED BY <2>1, <3>1, <1>3, <1>4 DEF LiveIsCurrent
  <2> QED BY <2>1, <1>1 DEF LiveIsCurrent
<1>14. RunsInLiveCopy' /\ DivergenceIsStray'
  BY <1>1, <1>4 DEF RunsInLiveCopy, IsLive, DivergenceIsStray, Typed
<1> QED BY <1>6, <1>7, <1>8, <1>9, <1>10, <1>11, <1>12, <1>13, <1>14

\* The cache after a put: entries it had, fresh, and the one put.
LEMMA PutFields ==
  ASSUME NEW k, NEW v
  PROVE  \A j \in DOMAIN IdemPut(k, v) :
            IF j = k THEN IdemPut(k, v)[j] = [val |-> v, ts |-> clock]
                     ELSE j \in DOMAIN idem /\ IdemPut(k, v)[j] = idem[j]
<1> DEFINE map == [j \in DOMAIN Fresh(idem) \cup {k} |->
                      IF j = k THEN [val |-> v, ts |-> clock] ELSE idem[j]]
           newer(j) == {i \in DOMAIN map : map[i].ts > map[j].ts}
           kept == {j \in DOMAIN map : Cardinality(newer(j)) < IdemMax}
<1>1. DOMAIN map = DOMAIN Fresh(idem) \cup {k} /\ kept \subseteq DOMAIN map
  OBVIOUS
<1>2. \A j \in DOMAIN map : map[j] = IF j = k THEN [val |-> v, ts |-> clock] ELSE idem[j]
  OBVIOUS
<1>3. DOMAIN Fresh(idem) \subseteq DOMAIN idem
  BY DEF Fresh, Restrict
<1>4. IdemPut(k, v) = IF IdemMax = 0 THEN << >> ELSE Restrict(map, kept)
  BY DEF IdemPut
<1> HIDE DEF map, kept
<1>5. CASE IdemMax = 0
  BY <1>4, <1>5
<1>6. CASE IdemMax # 0
  <2>1. DOMAIN IdemPut(k, v) = kept /\ \A j \in kept : IdemPut(k, v)[j] = map[j]
    BY <1>4, <1>6 DEF Restrict
  <2> QED BY <2>1, <1>1, <1>2, <1>3
<1> QED BY <1>5, <1>6

LEMMA PutSession ==
  ASSUME SessionInv, NEW r \in Requests, Put(r)
  PROVE  SessionInv'
<1> USE NullDistinct, NoneFields DEF SessionInv
<1> DEFINE s == req[r].sess
           k == req[r].key
<1>1. /\ req[r].at = "put" /\ clock' = clock + 1 /\ idem' = IdemPut(k, s)
      /\ puts' = [puts EXCEPT ![k] = clock] /\ Done(r)
      /\ UNCHANGED <<disk, root, dirs, copies, live, lock, ops, deleted, reused, stray,
                     made, excused>>
  BY DEF Put, Tick
<1>2. s \in Sessions /\ k \in Keys /\ Known(s)
  <2>1. s \in Sessions /\ k # NULL /\ Known(s)
    BY <1>1 DEF Requested, Shaped, NamesKnown
  <2> QED BY <2>1 DEF Typed, Request
<1>3. /\ req' \in [Requests -> Request] /\ req'[r] = None
      /\ \A q \in Requests \ {r} : req'[q] = req[q]
  BY <1>1, DoneFields DEF Typed
<1>4. \A j \in DOMAIN idem' :
         IF j = k THEN idem'[j] = [val |-> s, ts |-> clock]
                  ELSE j \in DOMAIN idem /\ idem'[j] = idem[j]
  BY <1>1, PutFields
<1>5. clock \in Nat /\ clock' \in Nat
  BY <1>1 DEF Typed
<1>6. ASSUME NEW j \in DOMAIN idem'
      PROVE  /\ j \in Keys /\ idem'[j].val \in Sessions /\ idem'[j].ts \in Nat
             /\ Known(idem'[j].val)
  <2>1. CASE j = k
    BY <2>1, <1>2, <1>4, <1>5
  <2>2. CASE j # k
    BY <2>2, <1>4 DEF Typed, NamesKnown
  <2> QED BY <2>1, <2>2
<1>7. puts' \in [Keys -> Nat \cup {NULL}]
  BY <1>1, <1>5 DEF Typed
<1>8. Typed'
  BY <1>1, <1>3, <1>5, <1>6, <1>7 DEF Typed
<1> QED BY <1>1, <1>3, <1>6, <1>8, Onward DEF Critical

\* The cache after a look at it: entries it had.
LEMMA GetFields ==
  ASSUME NEW k
  PROVE  \A j \in DOMAIN IdemGet(k) : j \in DOMAIN idem /\ IdemGet(k)[j] = idem[j]
<1>1. CASE IdemMax = 0
  BY <1>1 DEF IdemGet
<1>2. CASE IdemMax # 0
  BY <1>2 DEF IdemGet, Fresh, Restrict
<1> QED BY <1>1, <1>2

\* What a new request may be: it waits for the lock of a session known, or creates one
\* that nobody knows.
Newcomer(n) ==
    /\ n \in Request /\ Shaped(n) /\ n.at \in {"lock", "make", "dir"}
    /\ n.at = "lock" => Known(n.sess)
    /\ n.at # "lock" => ~Known(n.sess) /\ \A q \in Requests : req[q].sess # n.sess

LEMMA BeginFields ==
  ASSUME SessionInv, NEW r \in Requests, NEW op \in Op, NEW s \in Sessions,
         NEW k \in Keys \cup {NULL}, Begin(r, op, s, k)
  PROVE  /\ req[r].op = "none" /\ req[r].at = "none"
         /\ \A j \in DOMAIN idem' : j \in DOMAIN idem /\ idem'[j] = idem[j]
         /\ req' \in [Requests -> Request] /\ \A q \in Requests \ {r} : req'[q] = req[q]
         /\ \/ req'[r] = req[r]
            \/ /\ Newcomer(req'[r])
               /\ req'[r].key = NULL \/ (req'[r].key = k /\ k \notin DOMAIN IdemGet(k))
<1> USE NullDistinct DEF SessionInv
<1> DEFINE fresh == [None EXCEPT !.op = op, !.sess = s, !.key = k]
           hit == k # NULL /\ k \in DOMAIN IdemGet(k)
<1>1. req[r].op = "none" /\ req[r].at = "none"
  BY DEF Begin, Requested, Shaped
<1>0. /\ req \in [Requests -> Request]
      /\ \A n \in Request : req' = [req EXCEPT ![r] = n] =>
            /\ req' \in [Requests -> Request] /\ req'[r] = n
            /\ \A q \in Requests \ {r} : req'[q] = req[q]
  <2>1. req \in [Requests -> Request]
    BY DEF Typed
  <2> HIDE DEF SessionInv
  <2> QED BY <2>1
<1>2. \A j \in DOMAIN idem' : j \in DOMAIN idem /\ idem'[j] = idem[j]
  <2>1. idem' = IF k # NULL /\ IdemMax > 0 THEN IdemGet(k) ELSE idem
    BY DEF Begin
  <2> QED BY <2>1, GetFields
<1>3. /\ op \in {"create", "fork"} =>
            disk[s] = NULL /\ s \notin deleted /\ \A q \in Requests : req[q].sess # s
      /\ op \notin {"create", "fork"} => Known(s)
      /\ op \notin {"create", "run"} => k = NULL
  BY DEF Begin, Known
<1>4. /\ fresh \in Request /\ fresh.op = op /\ fresh.sess = s /\ fresh.key = k
      /\ fresh.src = NULL /\ op # "none"
  BY NoneFields DEF Request, Op
<1>5. CASE UNCHANGED req
  BY <1>0, <1>1, <1>2, <1>5
<1>6. CASE hit /\ req' = [req EXCEPT ![r] = [None EXCEPT !.op = "look", !.at = "lock",
                                                          !.sess = idem[k].val]]
  <2> DEFINE v == idem[k].val
             n == [None EXCEPT !.op = "look", !.at = "lock", !.sess = v]
  <2>1. v \in Sessions /\ Known(v)
    BY <1>6, GetFields DEF NamesKnown, Typed
  <2> HIDE DEF v
  <2>2. /\ n \in Request /\ n.op = "look" /\ n.at = "lock" /\ n.sess = v /\ n.key = NULL
        /\ n.src = NULL
    BY <2>1, NoneFields DEF Request, Places, Op
  <2>3. n \in Request /\ Shaped(n) /\ n.at = "lock" /\ n.sess = v
    BY <2>1, <2>2 DEF Shaped
  <2>4. Newcomer(n)
    BY <2>1, <2>3 DEF Newcomer
  <2>5. req' = [req EXCEPT ![r] = n]
    BY <1>6 DEF v
  <2> HIDE DEF n
  <2> QED BY <1>0, <1>1, <1>2, <2>2, <2>4, <2>5 DEF Newcomer
<1>7. CASE ~hit /\ op = "create" /\ req' = [req EXCEPT ![r] = [fresh EXCEPT !.at = "make"]]
  <2> DEFINE n == [fresh EXCEPT !.at = "make"]
  <2>1. /\ n \in Request /\ n.op = op /\ n.at = "make" /\ n.sess = s /\ n.key = k
        /\ n.src = NULL
    BY <1>4 DEF Request, Places
  <2>2. n \in Request /\ Shaped(n) /\ n.at = "make" /\ n.sess = s
    BY <1>7, <2>1 DEF Shaped
  <2>3. Newcomer(n)
    BY <1>3, <1>7, <2>2 DEF Newcomer, Known
  <2>4. req' = [req EXCEPT ![r] = n]
    BY <1>7
  <2> HIDE DEF n
  <2> QED BY <1>0, <1>1, <1>2, <1>7, <2>1, <2>3, <2>4 DEF Newcomer
<1>8. CASE ~hit /\ op = "fork" /\ \E src \in Sessions :
                            req' = [req EXCEPT ![r] = [fresh EXCEPT !.at = "dir", !.src = src]]
  <2>1. PICK src \in Sessions : req' = [req EXCEPT ![r] = [fresh EXCEPT !.at = "dir", !.src = src]]
    BY <1>8
  <2> DEFINE n == [fresh EXCEPT !.at = "dir", !.src = src]
  <2>2. /\ n \in Request /\ n.op = op /\ n.at = "dir" /\ n.sess = s /\ n.key = k
        /\ n.src = src
    BY <1>4 DEF Request, Places
  <2>3. n \in Request /\ Shaped(n) /\ n.at = "dir" /\ n.sess = s
    BY <1>3, <1>8, <2>2 DEF Shaped
  <2>4. Newcomer(n)
    BY <1>3, <1>8, <2>3 DEF Newcomer, Known
  <2>5. req' = [req EXCEPT ![r] = n]
    BY <2>1
  <2> HIDE DEF n
  <2> QED BY <1>0, <1>1, <1>2, <1>8, <2>2, <2>4, <2>5 DEF Newcomer
<1>9. CASE /\ ~hit /\ op \notin {"create", "fork"}
           /\ req' = [req EXCEPT ![r] = [fresh EXCEPT !.at = "lock"]]
  <2> DEFINE n == [fresh EXCEPT !.at = "lock"]
  <2>1. /\ n \in Request /\ n.op = op /\ n.at = "lock" /\ n.sess = s /\ n.key = k
        /\ n.src = NULL
    BY <1>4 DEF Request, Places
  <2>2. n \in Request /\ Shaped(n) /\ n.at = "lock" /\ n.sess = s
    BY <1>3, <1>4, <1>9, <2>1 DEF Shaped
  <2>3. Newcomer(n)
    BY <1>3, <1>9, <2>2 DEF Newcomer
  <2>4. req' = [req EXCEPT ![r] = n]
    BY <1>9
  <2> HIDE DEF n
  <2> QED BY <1>0, <1>1, <1>2, <1>9, <2>1, <2>3, <2>4 DEF Newcomer
<1> QED BY <1>5, <1>6, <1>7, <1>8, <1>9 DEF Begin

LEMMA BeginSession ==
  ASSUME SessionInv, NEW r \in Requests, NEW op \in Op, NEW s \in Sessions,
         NEW k \in Keys \cup {NULL}, Begin(r, op, s, k)
  PROVE  SessionInv'
<1> USE NullDistinct DEF SessionInv
<1>1. /\ req[r].at = "none"
      /\ \A j \in DOMAIN idem' : j \in DOMAIN idem /\ idem'[j] = idem[j]
  <2> HIDE DEF SessionInv
  <2> QED BY BeginFields
<1>2. /\ ops' = ops + 1
      /\ excused' \in SUBSET Keys
      /\ UNCHANGED <<disk, root, dirs, copies, live, lock, clock, deleted, reused, stray,
                     made, puts>>
  <2>1. excused' = excused \/ (k # NULL /\ excused' = excused \cup {k})
    BY DEF Begin
  <2> QED BY <2>1 DEF Begin, Typed
<1>3. /\ req' \in [Requests -> Request] /\ \A q \in Requests \ {r} : req'[q] = req[q]
      /\ req'[r] = req[r] \/ Newcomer(req'[r])
  <2> HIDE DEF SessionInv
  <2> QED BY BeginFields
<1>5. Typed'
  <2>1. ops' \in Nat
    BY <1>2 DEF Typed
  <2> QED BY <1>1, <1>2, <1>3, <2>1 DEF Typed
<1>6. \A j \in DOMAIN idem' : Known(idem'[j].val)
  BY <1>1 DEF NamesKnown
<1>7. \A x : Known(x)' <=> Known(x)
  BY <1>2 DEF Known
<1>8. LiveCopies' /\ RunsInLiveCopy' /\ DivergenceIsStray'
  BY <1>2 DEF LiveCopies, RunsInLiveCopy, IsLive, DivergenceIsStray
<1>9. CASE req'[r] = req[r]
  <2>1. \A q \in Requests : req'[q] = req[q]
    BY <1>3, <1>9
  <2>2. Requested'
    BY <1>2, <2>1 DEF Requested, Shaped, CopyOfSession
  <2>3. Locked'
    BY <1>2, <2>1 DEF Locked, Typed
  <2>4. NamesKnown' /\ Creating'
    BY <1>2, <1>6, <2>1 DEF NamesKnown, Creating, Known
  <2>5. Unregistered' /\ FoundIsLive' /\ LiveIsCurrent'
    BY <1>2, <2>1 DEF Unregistered, FoundIsLive, LiveIsCurrent
  <2> QED BY <1>5, <1>8, <2>2, <2>3, <2>4, <2>5
<1>10. CASE Newcomer(req'[r])
  <2> DEFINE n == req'[r]
  <2>1. /\ Shaped(n) /\ n.at \in {"lock", "make", "dir"} /\ n.sess \in Sessions
        /\ n.at = "lock" => Known(n.sess)
        /\ n.at # "lock" => ~Known(n.sess) /\ \A q \in Requests : req[q].sess # n.sess
    BY <1>10 DEF Newcomer, Shaped
  <2> HIDE DEF n
  <2>2. Requested'
    BY <1>2, <1>3, <2>1 DEF Requested, Shaped, CopyOfSession, n
  <2>3. Locked'
    <3>1. \A q \in Requests : req'[q].at \in Critical => lock[req'[q].sess] = q
      BY <1>3, <2>1 DEF Locked, Critical, n
    <3>2. ASSUME NEW x \in Sessions, lock[x] # NULL
          PROVE  req'[lock[x]].sess = x /\ req'[lock[x]].at \in Critical
      <4>1. lock[x] \in Requests /\ req[lock[x]].sess = x /\ req[lock[x]].at \in Critical
        BY <3>2 DEF Locked, Typed
      <4>2. lock[x] # r
        BY <4>1, <1>1 DEF Critical
      <4> QED BY <4>1, <4>2, <1>3
    <3> QED BY <3>1, <3>2, <1>2 DEF Locked
  <2>4. NamesKnown'
    <3>1. ASSUME NEW q \in Requests, req'[q].at \notin {"none", "dir", "make"}
          PROVE  disk[req'[q].sess] # NULL \/ req'[q].sess \in deleted
      BY <3>1, <1>3, <2>1 DEF NamesKnown, Known, n
    <3> QED BY <3>1, <1>2, <1>6 DEF NamesKnown, Known
  <2>5. Creating'
    <3>1. ASSUME NEW x \in Requests, req'[x].at \in {"dir", "make"}
          PROVE  /\ disk[req'[x].sess] = NULL /\ req'[x].sess \notin deleted
                 /\ \A q \in Requests \ {x} : req'[q].sess # req'[x].sess
      <4>1. CASE x = r
        BY <3>1, <4>1, <1>3, <2>1 DEF Known, n
      <4>2. CASE x # r
        BY <3>1, <4>2, <1>3, <2>1 DEF Creating, Known, n
      <4> QED BY <4>1, <4>2
    <3> QED BY <3>1, <1>2 DEF Creating, Known
  <2>6. Unregistered'
    <3>1. ASSUME NEW x \in Requests, req'[x].at = "register", req'[x].sess \notin stray
          PROVE  x # r /\ req'[x] = req[x] /\ Known(req[x].sess)
      BY <3>1, <1>3, <2>1 DEF NamesKnown, n
    <3>2. ASSUME NEW x \in Requests, req'[x].at = "register", req'[x].sess \notin stray,
                 NEW q \in Requests \ {x}, req'[q].sess = req'[x].sess
          PROVE  req'[q].at \in {"lock", "held"}
      <4>1. CASE q = r
        BY <3>1, <3>2, <4>1, <2>1 DEF n
      <4>2. CASE q # r
        BY <3>1, <3>2, <4>2, <1>3 DEF Unregistered
      <4> QED BY <4>1, <4>2
    <3> QED BY <3>1, <3>2, <1>2 DEF Unregistered
  <2>7. FoundIsLive'
    BY <1>2, <1>3, <2>1 DEF FoundIsLive, n
  <2>8. LiveIsCurrent'
    BY <1>2, <1>3, <2>1 DEF LiveIsCurrent, n
  <2> QED BY <1>5, <1>8, <2>2, <2>3, <2>4, <2>5, <2>6, <2>7, <2>8
<1> QED BY <1>3, <1>9, <1>10

\* Every step keeps the invariant of the sessions.
LEMMA SessionStep == SessionInv /\ [Next]_vars => SessionInv'
<1> SUFFICES ASSUME SessionInv, [Next]_vars PROVE SessionInv'
  OBVIOUS
<1>1. CASE UNCHANGED vars
  <2>1. UNCHANGED <<disk, root, dirs, copies, live, lock, idem, req, clock, ops, deleted, reused,
                    stray, made, puts, excused>>
    BY <1>1 DEF vars, history
  <2>2. Typed' /\ Requested' /\ Locked' /\ NamesKnown' /\ Creating' /\ Unregistered'
    BY <2>1 DEF SessionInv, Typed, Requested, Shaped, CopyOfSession, Locked, NamesKnown, Known,
       Creating, Unregistered
  <2>3. FoundIsLive' /\ LiveCopies' /\ LiveIsCurrent' /\ RunsInLiveCopy' /\ DivergenceIsStray'
    BY <2>1 DEF SessionInv, FoundIsLive, LiveCopies, LiveIsCurrent, RunsInLiveCopy, IsLive,
       DivergenceIsStray
  <2> QED BY <2>2, <2>3 DEF SessionInv
<1>2. CASE \E r \in Requests, op \in Op, s \in Sessions, k \in Keys \cup {NULL} :
              Begin(r, op, s, k)
  BY <1>2, BeginSession
<1>3. CASE \E r \in Requests : RequestStep(r)
  BY <1>3, LockSession, FindSession, ReleaseSession, ForkDirSession, MakeSession,
     RegisterSession, LimitSession, EvictDoneSession, PutSession, WriteSession,
     UnregisterSession, RemoveSession, RemoveWorkspaceSession, EvictSession
     DEF RequestStep
<1>4. CASE \E c \in DOMAIN copies : RunEnds(c)
  BY <1>4, RunEndsSession
<1> QED BY <1>1, <1>2, <1>3, <1>4 DEF Next

-----------------------------------------------------------------------------
\* The idempotency keys.

\* The keys stored after key k.
Later(k) == {j \in Keys : puts[j] # NULL /\ puts[j] > puts[k]}

LEMMA InitKeys == Init => KeyInv
<1> SUFFICES ASSUME Init PROVE KeyInv
  OBVIOUS
<1>1. /\ DOMAIN idem = {} /\ \A k \in Keys : puts[k] = NULL /\ made[k] = 0
      /\ \A r \in Requests : req[r].key = NULL
  BY NoneFields DEF Init
<1> QED BY <1>1, NullDistinct DEF KeyInv, Stamped, MadeOnce, KeyRemembered

\* A step without effect on the cache, of requests that keep their keys or drop them
\* before anything was made.
LEMMA KeysKept ==
  ASSUME Typed, KeyInv, UNCHANGED <<idem, puts, made, excused>>,
         clock' \in Nat, clock <= clock',
         \A q \in Requests :
            \/ req'[q].key = req[q].key /\ (Unmade(req'[q]) => Unmade(req[q]))
            \/ req'[q].key = NULL /\ (req[q].key = NULL \/ Unmade(req[q]))
  PROVE  KeyInv'
<1> USE NullDistinct
<1>1. /\ clock \in Nat /\ puts \in [Keys -> Nat \cup {NULL}] /\ made \in [Keys -> Nat]
      /\ IdemTtl \in Nat
  BY RegistryBounds DEF Typed
<1>2. Stamped'
  BY <1>1 DEF KeyInv, Stamped
<1>3. MadeOnce'
  <2>1. ASSUME NEW k \in Keys \ excused
        PROVE  /\ \A q, r \in Requests : req'[q].key = k /\ req'[r].key = k => q = r
               /\ made[k] <= 1
               /\ \A r \in Requests : req'[r].key = k /\ Unmade(req'[r]) => made[k] = 0
               /\ made[k] = 1 => puts[k] # NULL \/ \E r \in Requests : req'[r].key = k
    <3>1. \A q \in Requests : req'[q].key = k => req[q].key = k
                                /\ (Unmade(req'[q]) => Unmade(req[q]))
      OBVIOUS
    <3>2. ASSUME made[k] = 1, puts[k] = NULL PROVE \E r \in Requests : req'[r].key = k
      <4>1. PICK r \in Requests : req[r].key = k
        BY <3>2 DEF KeyInv, MadeOnce
      <4>2. ~Unmade(req[r])
        BY <3>2, <4>1 DEF KeyInv, MadeOnce
      <4> QED BY <4>1, <4>2
    <3> QED BY <3>1, <3>2 DEF KeyInv, MadeOnce
  <2> QED BY <2>1 DEF MadeOnce, Unmade
<1>4. KeyRemembered'
  <2>1. \A k \in Keys : puts[k] # NULL /\ clock' <= puts[k] + IdemTtl => clock <= puts[k] + IdemTtl
    BY <1>1
  <2> QED BY <2>1 DEF KeyInv, KeyRemembered
<1> QED BY <1>2, <1>3, <1>4 DEF KeyInv

\* A step that makes what its request asked for.
LEMMA KeysMade ==
  ASSUME Typed, KeyInv, NEW r \in Requests, UNCHANGED <<idem, puts, excused, clock>>,
         made' = IF req[r].key # NULL THEN [made EXCEPT ![req[r].key] = @ + 1] ELSE made,
         Unmade(req[r]), ~Unmade(req'[r]), req'[r].key = req[r].key,
         \A q \in Requests \ {r} : req'[q] = req[q]
  PROVE  KeyInv'
<1> USE NullDistinct
<1> DEFINE key == req[r].key
<1>1. made \in [Keys -> Nat] /\ key \in Keys \cup {NULL}
  BY DEF Typed, Request
<1>2. Stamped'
  BY DEF KeyInv, Stamped
<1>3. ASSUME NEW k \in Keys \ excused, k # key
      PROVE  made'[k] = made[k]
  BY <1>1, <1>3
<1>4. ASSUME key \in Keys \ excused
      PROVE  made[key] = 0 /\ made'[key] = 1
  BY <1>1, <1>4 DEF KeyInv, MadeOnce
<1>5. ASSUME NEW k \in Keys \ excused
      PROVE  /\ \A q, x \in Requests : req'[q].key = k /\ req'[x].key = k => q = x
             /\ made'[k] <= 1
             /\ \A x \in Requests : req'[x].key = k /\ Unmade(req'[x]) => made'[k] = 0
             /\ made'[k] = 1 => puts[k] # NULL \/ \E x \in Requests : req'[x].key = k
  <2>1. \A q \in Requests : req'[q].key = req[q].key
    OBVIOUS
  <2>2. \A q, x \in Requests : req'[q].key = k /\ req'[x].key = k => q = x
    BY <2>1 DEF KeyInv, MadeOnce
  <2>3. CASE k = key
    BY <1>4, <2>2, <2>3
  <2>4. CASE k # key
    <3>1. \A x \in Requests : req'[x].key = k /\ Unmade(req'[x]) =>
                               req[x].key = k /\ Unmade(req[x])
      BY <2>4
    <3> QED BY <1>3, <2>1, <2>2, <2>4, <3>1 DEF KeyInv, MadeOnce
  <2> QED BY <2>3, <2>4
<1>6. MadeOnce'
  BY <1>5 DEF MadeOnce, Unmade
<1>7. KeyRemembered'
  <2>1. ASSUME NEW k \in Keys, made'[k] > 1 PROVE k \in excused
    BY <1>5, <2>1, <1>1
  <2> QED BY <2>1 DEF KeyInv, KeyRemembered
<1> QED BY <1>2, <1>6, <1>7 DEF KeyInv

LEMMA PutKeys ==
  ASSUME SessionInv, KeyInv, NEW r \in Requests, Put(r)
  PROVE  KeyInv'
<1> USE NullDistinct, NoneFields
<1> DEFINE k == req[r].key
           s == req[r].sess
<1>1. /\ req[r].at = "put" /\ clock' = clock + 1 /\ idem' = IdemPut(k, s)
      /\ puts' = [puts EXCEPT ![k] = clock] /\ Done(r)
      /\ UNCHANGED <<made, excused>>
  BY DEF Put, Tick
<1>2. /\ k \in Keys /\ clock \in Nat /\ puts \in [Keys -> Nat \cup {NULL}] /\ IdemMax \in Nat
      /\ IdemTtl \in Nat /\ made \in [Keys -> Nat] /\ DOMAIN idem \subseteq Keys
      /\ \A j \in DOMAIN idem : idem[j].ts \in Nat
  <2>1. k # NULL /\ req[r] \in Request
    BY <1>1 DEF SessionInv, Requested, Shaped, Typed
  <2> QED BY <2>1, RegistryBounds DEF SessionInv, Typed, Request
<1>3. req'[r] = None /\ \A q \in Requests \ {r} : req'[q] = req[q]
  BY <1>1, DoneFields DEF SessionInv, Typed
<1>4. \A j \in DOMAIN idem' :
         IF j = k THEN idem'[j] = [val |-> s, ts |-> clock]
                  ELSE j \in DOMAIN idem /\ idem'[j] = idem[j]
  BY <1>1, PutFields
<1>5. puts'[k] = clock /\ \A j \in Keys \ {k} : puts'[j] = puts[j]
  BY <1>1, <1>2
<1>6. /\ \A j \in DOMAIN idem : puts[j] = idem[j].ts
      /\ \A j \in Keys : puts[j] # NULL => puts[j] \in Nat /\ puts[j] < clock
  BY <1>2 DEF KeyInv, Stamped
<1>7. Stamped'
  <2>1. \A j \in DOMAIN idem' : puts'[j] = idem'[j].ts
    BY <1>2, <1>4, <1>5, <1>6
  <2>2. \A j \in Keys : puts'[j] # NULL => puts'[j] < clock'
    BY <1>1, <1>2, <1>5, <1>6
  <2> QED BY <2>1, <2>2 DEF Stamped
<1>8. MadeOnce'
  <2>1. \A q \in Requests : req'[q].key \in Keys => q # r /\ req'[q] = req[q]
    BY <1>3
  <2>2. \A j \in Keys : j # k => \A q \in Requests : req[q].key = j => req'[q].key = j
    BY <1>3
  <2>3. ASSUME NEW j \in Keys \ excused
        PROVE  /\ \A q, x \in Requests : req'[q].key = j /\ req'[x].key = j => q = x
               /\ made[j] <= 1
               /\ \A x \in Requests : req'[x].key = j /\ Unmade(req'[x]) => made[j] = 0
               /\ made[j] = 1 => puts'[j] # NULL \/ \E x \in Requests : req'[x].key = j
    <3>1. made[j] = 1 => puts'[j] # NULL \/ \E x \in Requests : req'[x].key = j
      <4>1. CASE j = k
        BY <4>1, <1>2, <1>5
      <4>2. CASE j # k
        BY <4>2, <1>5, <2>2 DEF KeyInv, MadeOnce
      <4> QED BY <4>1, <4>2
    <3> QED BY <2>1, <3>1 DEF KeyInv, MadeOnce
  <2> QED BY <2>3, <1>1 DEF MadeOnce, Unmade
<1>9. ASSUME NEW x \in Keys, puts'[x] # NULL, IdemTtl > 0 => clock' <= puts'[x] + IdemTtl,
             Cardinality({j \in Keys : puts'[j] # NULL /\ puts'[j] > puts'[x]}) < IdemMax
      PROVE  x \in DOMAIN idem'
  <2> DEFINE later == {j \in Keys : puts'[j] # NULL /\ puts'[j] > puts'[x]}
             map == [j \in DOMAIN Fresh(idem) \cup {k} |->
                        IF j = k THEN [val |-> s, ts |-> clock] ELSE idem[j]]
             newer(j) == {i \in DOMAIN map : map[i].ts > map[j].ts}
             kept == {j \in DOMAIN map : Cardinality(newer(j)) < IdemMax}
  <2>1. IsFiniteSet(later) /\ Cardinality(later) \in Nat /\ Cardinality(later) < IdemMax
    <3>1. IsFiniteSet(Keys) /\ later \subseteq Keys
      BY RegistryBounds
    <3>2. IsFiniteSet(later)
      BY <3>1, FS_Subset
    <3> HIDE DEF later
    <3> QED BY <3>2, <1>9, FS_CardinalityType DEF later
  <2>2. idem' = Restrict(map, kept)
    <3>1. IdemMax # 0
      BY <2>1, <1>2
    <3> QED BY <1>1, <3>1 DEF IdemPut
  <2>3. x # k => x \in DOMAIN idem /\ x \in DOMAIN Fresh(idem)
    <3> SUFFICES ASSUME x # k PROVE x \in DOMAIN idem /\ x \in DOMAIN Fresh(idem)
      OBVIOUS
    <3>1. puts'[x] = puts[x] /\ puts[x] \in Nat
      BY <1>5, <1>6, <1>9
    <3>2. Later(x) \subseteq later
      <4>1. ASSUME NEW j \in Keys, puts[j] # NULL, puts[j] > puts[x]
            PROVE  puts'[j] # NULL /\ puts'[j] > puts'[x]
        BY <4>1, <3>1, <1>2, <1>5, <1>6
      <4> QED BY <4>1 DEF Later
    <3>3. Cardinality(Later(x)) <= Cardinality(later) /\ Cardinality(Later(x)) \in Nat
      <4> HIDE DEF later
      <4> QED BY <2>1, <3>2, FS_Subset, FS_CardinalityType
    <3>4. Cardinality(Later(x)) < IdemMax
      <4> HIDE DEF later
      <4> QED BY <2>1, <3>3, <1>2
    <3>5. IdemTtl > 0 => clock <= puts[x] + IdemTtl
      BY <3>1, <1>1, <1>2, <1>9
    <3>6. x \in DOMAIN idem
      BY <3>1, <3>4, <3>5 DEF KeyInv, KeyRemembered, Later
    <3>7. IdemTtl = 0 \/ clock <= idem[x].ts + IdemTtl
      BY <3>5, <3>6, <1>2, <1>6
    <3> QED BY <3>6, <3>7 DEF Fresh, Restrict
  <2>4. x \in DOMAIN map
    BY <2>3
  <2>5. ASSUME NEW i \in DOMAIN map PROVE i \in Keys /\ map[i].ts = puts'[i] /\ map[i].ts \in Nat
    <3>1. DOMAIN Fresh(idem) \subseteq DOMAIN idem
      BY DEF Fresh, Restrict
    <3>2. CASE i = k
      BY <3>2, <1>2, <1>5
    <3>3. CASE i # k
      BY <3>1, <3>3, <1>2, <1>5, <1>6
    <3> QED BY <3>2, <3>3
  <2>6. newer(x) \subseteq later
    <3>1. ASSUME NEW i \in DOMAIN map, map[i].ts > map[x].ts PROVE i \in later
      BY <3>1, <2>4, <2>5
    <3> HIDE DEF later, map
    <3> QED BY <3>1
  <2>7. Cardinality(newer(x)) < IdemMax
    <3> HIDE DEF later, newer
    <3>1. Cardinality(newer(x)) <= Cardinality(later) /\ Cardinality(newer(x)) \in Nat
      BY <2>1, <2>6, FS_Subset, FS_CardinalityType
    <3> QED BY <3>1, <2>1, <1>2
  <2> HIDE DEF map, newer
  <2> QED BY <2>2, <2>4, <2>7 DEF Restrict
<1>10. KeyRemembered'
  <2>1. \A j \in Keys : made[j] > 1 => j \in excused
    BY DEF KeyInv, KeyRemembered
  <2> QED BY <1>1, <1>9, <2>1 DEF KeyRemembered
<1> QED BY <1>7, <1>8, <1>10 DEF KeyInv

LEMMA BeginKeys ==
  ASSUME SessionInv, KeyInv, NEW r \in Requests, NEW op \in Op, NEW s \in Sessions,
         NEW k \in Keys \cup {NULL}, Begin(r, op, s, k)
  PROVE  KeyInv'
<1> USE NullDistinct
<1> DEFINE hit == k # NULL /\ k \in DOMAIN IdemGet(k)
<1>1. /\ UNCHANGED <<clock, made, puts>>
      /\ idem' = IF k # NULL /\ IdemMax > 0 THEN IdemGet(k) ELSE idem
      /\ excused \subseteq excused'
      /\ k # NULL /\ (\E q \in Requests : req[q].key = k) => k \in excused'
      /\ k # NULL /\ k \notin DOMAIN IdemGet(k) /\ puts[k] # NULL => k \in excused'
  <2>1. /\ UNCHANGED <<clock, made, puts>>
        /\ idem' = IF k # NULL /\ IdemMax > 0 THEN IdemGet(k) ELSE idem
        /\ excused' = IF k # NULL /\ \/ \E q \in Requests : req[q].key = k
                                     \/ ~hit /\ puts[k] # NULL
                      THEN excused \cup {k} ELSE excused
    BY DEF Begin
  <2> QED BY <2>1
<1>2. /\ \A j \in DOMAIN idem' : j \in DOMAIN idem /\ idem'[j] = idem[j]
      /\ \A q \in Requests \ {r} : req'[q] = req[q]
      /\ \/ req'[r] = req[r]
         \/ req'[r].key = NULL \/ (req'[r].key = k /\ k \notin DOMAIN IdemGet(k))
  BY BeginFields
<1>3. /\ req[r].key = NULL
      /\ DOMAIN idem \subseteq Keys /\ IdemMax \in Nat /\ IdemTtl \in Nat
      /\ made \in [Keys -> Nat] /\ puts \in [Keys -> Nat \cup {NULL}]
  <2>1. req[r].op = "none"
    BY DEF Begin
  <2>2. req[r].key = NULL
    BY <2>1 DEF SessionInv, Requested, Shaped
  <2> QED BY <2>2, RegistryBounds DEF SessionInv, Typed
<1>4. req'[r].key = NULL \/ (req'[r].key = k /\ k \notin DOMAIN IdemGet(k))
  BY <1>2, <1>3
<1>5. Stamped'
  BY <1>1, <1>2 DEF KeyInv, Stamped
<1>6. ASSUME NEW j \in Keys \ excused', req'[r].key = j
      PROVE  puts[j] = NULL /\ made[j] = 0 /\ \A q \in Requests \ {r} : req'[q].key # j
  <2>1. j = k /\ puts[k] = NULL /\ \A q \in Requests : req[q].key # k
    <3>1. j = k /\ k # NULL /\ k \notin DOMAIN IdemGet(k) /\ k \notin excused'
      BY <1>4, <1>6
    <3> QED BY <3>1, <1>1
  <2>2. j \in Keys \ excused
    <3>1. excused \subseteq excused'
      BY <1>1
    <3> QED BY <3>1, <1>6
  <2>3. made[j] <= 1 /\ made[j] # 1 /\ made[j] \in Nat
    BY <2>1, <2>2, <1>3 DEF KeyInv, MadeOnce
  <2> QED BY <2>1, <2>3, <1>2
<1>7. MadeOnce'
  <2>1. ASSUME NEW j \in Keys \ excused'
        PROVE  /\ \A q, x \in Requests : req'[q].key = j /\ req'[x].key = j => q = x
               /\ made[j] <= 1
               /\ \A x \in Requests : req'[x].key = j /\ Unmade(req'[x]) => made[j] = 0
               /\ made[j] = 1 => puts[j] # NULL \/ \E x \in Requests : req'[x].key = j
    <3>1. j \in Keys \ excused
      BY <1>1, <2>1
    <3>2. CASE req'[r].key = j
      BY <1>6, <3>2
    <3>3. CASE req'[r].key # j
      <4>1. \A x \in Requests : req'[x].key = j <=> x # r /\ req[x].key = j
        BY <1>2, <3>3
      <4>2. \A x \in Requests : req[x].key = j => x # r
        BY <1>3
      <4> QED BY <3>1, <4>1, <4>2, <1>2 DEF KeyInv, MadeOnce
    <3> QED BY <3>2, <3>3
  <2> QED BY <2>1, <1>1 DEF MadeOnce, Unmade
<1>8. ASSUME NEW j \in Keys, puts[j] # NULL, IdemTtl > 0 => clock <= puts[j] + IdemTtl,
             Cardinality({i \in Keys : puts[i] # NULL /\ puts[i] > puts[j]}) < IdemMax
      PROVE  j \in DOMAIN idem'
  <2>1. j \in DOMAIN idem /\ idem[j].ts = puts[j]
    BY <1>8 DEF KeyInv, KeyRemembered, Stamped
  <2>2. j \in DOMAIN Fresh(idem)
    <3>1. IdemTtl = 0 \/ clock <= idem[j].ts + IdemTtl
      BY <1>3, <1>8, <2>1
    <3> QED BY <2>1, <3>1 DEF Fresh, Restrict
  <2> QED BY <1>1, <1>3, <2>1, <2>2 DEF IdemGet
<1>9. KeyRemembered'
  <2>1. \A j \in Keys : made[j] > 1 => j \in excused'
    BY <1>1 DEF KeyInv, KeyRemembered
  <2> QED BY <1>1, <1>8, <2>1 DEF KeyRemembered
<1> QED BY <1>5, <1>7, <1>9 DEF KeyInv

LEMMA RequestKeys ==
  ASSUME SessionInv, KeyInv, NEW r \in Requests, RequestStep(r)
  PROVE  KeyInv'
<1> USE NullDistinct, NoneFields
<1>1. Typed /\ Requested /\ req \in [Requests -> Request] /\ clock \in Nat
  BY DEF SessionInv, Typed
<1>2. ASSUME NEW at \in Places, Step(r, at), UNCHANGED <<idem, puts, made, excused>>,
             clock' \in {clock, clock + 1},
             at \in {"dir", "make", "lock", "held", "found"} => Unmade(req[r])
      PROVE  KeyInv'
  <2>1. /\ \A q \in Requests \ {r} : req'[q] = req[q]
        /\ req'[r].at = at /\ req'[r].key = req[r].key
    BY <1>1, <1>2, StepFields
  <2>2. clock' \in Nat /\ clock <= clock'
    BY <1>1, <1>2
  <2>3. Unmade(req'[r]) => Unmade(req[r])
    BY <1>2, <2>1 DEF Unmade
  <2> QED BY <1>1, <1>2, <2>1, <2>2, <2>3, KeysKept
<1>3. ASSUME Done(r), UNCHANGED <<idem, puts, made, excused>>, clock' \in {clock, clock + 1},
             req[r].key = NULL \/ Unmade(req[r])
      PROVE  KeyInv'
  <2>1. req'[r] = None /\ \A q \in Requests \ {r} : req'[q] = req[q]
    BY <1>1, <1>3, DoneFields
  <2>2. clock' \in Nat /\ clock <= clock'
    BY <1>1, <1>3
  <2> QED BY <1>1, <1>3, <2>1, <2>2, KeysKept
<1>4. ASSUME NEW at \in Places, Step(r, at), at \notin {"dir", "make", "lock", "held", "found"},
             UNCHANGED <<idem, puts, excused, clock>>, Unmade(req[r]),
             made' = IF req[r].key # NULL THEN [made EXCEPT ![req[r].key] = @ + 1] ELSE made
      PROVE  KeyInv'
  <2>1. /\ \A q \in Requests \ {r} : req'[q] = req[q]
        /\ req'[r].at = at /\ req'[r].key = req[r].key
    BY <1>1, <1>4, StepFields
  <2>2. ~Unmade(req'[r])
    BY <1>4, <2>1 DEF Unmade
  <2> QED BY <1>1, <1>4, <2>1, <2>2, KeysMade
<1>5. CASE Lock(r)
  BY <1>2, <1>5 DEF Lock, history, Unmade, Places
<1>6. CASE Find(r)
  <2>1. /\ Unmade(req[r]) /\ UNCHANGED <<idem, puts, made, excused>> /\ clock' = clock + 1
        /\ \/ Done(r)
           \/ \E c : req' = [req EXCEPT ![r].at = "found", ![r].copy = c]
    BY <1>6 DEF Find, Unmade, Tick
  <2>2. CASE Done(r)
    BY <1>3, <2>1, <2>2
  <2>3. CASE \E c : req' = [req EXCEPT ![r].at = "found", ![r].copy = c]
    <3>1. PICK c : req' = [req EXCEPT ![r].at = "found", ![r].copy = c]
      BY <2>3
    <3>2. req[r] \in Request
      BY <1>1
    <3>3. req'[r].key = req[r].key /\ \A q \in Requests \ {r} : req'[q] = req[q]
      BY <1>1, <3>1, <3>2 DEF Request
    <3>4. clock' \in Nat /\ clock <= clock'
      BY <1>1, <2>1
    <3> QED BY <1>1, <2>1, <3>3, <3>4, KeysKept
  <2> QED BY <2>1, <2>2, <2>3
<1>7. CASE Release(r)
  <2>1. req[r].key # NULL => req[r].op = "run"
    BY <1>1, <1>7 DEF Release, Requested, Shaped
  <2>2. made' = IF req[r].key # NULL THEN [made EXCEPT ![req[r].key] = @ + 1] ELSE made
    BY <1>7, <2>1 DEF Release
  <2>3. Unmade(req[r]) /\ Step(r, "limit") /\ UNCHANGED <<idem, puts, excused, clock>>
    BY <1>7 DEF Release, Unmade
  <2> QED BY <1>4, <2>2, <2>3 DEF Places
<1>8. CASE ForkDir(r)
  BY <1>2, <1>8 DEF ForkDir, history, Unmade, Places
<1>9. CASE Make(r)
  <2>1. /\ Unmade(req[r]) /\ UNCHANGED <<idem, puts, excused, clock>>
        /\ made' = IF req[r].key # NULL THEN [made EXCEPT ![req[r].key] = @ + 1] ELSE made
        /\ req' = [req EXCEPT ![r].at = "register", ![r].src = NULL]
    BY <1>9 DEF Make, Unmade
  <2>2. req[r] \in Request
    BY <1>1
  <2>3. /\ req'[r].key = req[r].key /\ req'[r].at = "register"
        /\ \A q \in Requests \ {r} : req'[q] = req[q]
    BY <1>1, <2>1, <2>2 DEF Request
  <2>4. ~Unmade(req'[r])
    BY <2>3 DEF Unmade
  <2> QED BY <1>1, <2>1, <2>3, <2>4, KeysMade
<1>10. CASE Register(r)
  BY <1>2, <1>10 DEF Register, history, Tick, Places
<1>11. CASE Limit(r) \/ \E e \in req[r].todo : Evict(r, e)
  <2>1. /\ UNCHANGED <<idem, puts, made, excused, clock>>
        /\ \E t : \/ req' = [req EXCEPT ![r].at = "evict", ![r].todo = t]
                  \/ req[r].at = "evict" /\ req' = [req EXCEPT ![r].todo = t]
    BY <1>11 DEF Limit, Evict, history
  <2>2. PICK t : \/ req' = [req EXCEPT ![r].at = "evict", ![r].todo = t]
                 \/ req[r].at = "evict" /\ req' = [req EXCEPT ![r].todo = t]
    BY <2>1
  <2>3. req[r] \in Request
    BY <1>1
  <2>4. /\ req'[r].key = req[r].key /\ req'[r].at = "evict"
        /\ \A q \in Requests \ {r} : req'[q] = req[q]
    BY <1>1, <2>2, <2>3 DEF Request
  <2>5. ~Unmade(req'[r])
    BY <2>4 DEF Unmade
  <2> QED BY <1>1, <2>1, <2>4, <2>5, KeysKept
<1>12. CASE EvictDone(r)
  <2>1. UNCHANGED <<idem, puts, made, excused, clock>>
    BY <1>12 DEF EvictDone, history
  <2>2. AfterLimits(r) \in {"write", "put"} \/ (AfterLimits(r) = "end" /\ req[r].key = NULL)
    <3>1. req[r].op \in {"goal", "patch"} => req[r].key = NULL
      BY <1>1 DEF Requested, Shaped
    <3>2. CASE req[r].op \in {"goal", "patch"}
      BY <3>1, <3>2 DEF AfterLimits
    <3>3. CASE req[r].op \notin {"goal", "patch"} /\ req[r].key # NULL
      BY <3>3 DEF AfterLimits
    <3>4. CASE req[r].op \notin {"goal", "patch"} /\ req[r].key = NULL
      BY <3>4 DEF AfterLimits
    <3> QED BY <3>2, <3>3, <3>4
  <2>3. CASE Done(r) /\ req[r].key = NULL
    BY <1>3, <2>1, <2>3
  <2>4. CASE Step(r, AfterLimits(r)) /\ AfterLimits(r) \in {"write", "put"}
    BY <1>2, <2>1, <2>4 DEF Places
  <2> QED BY <1>12, <2>2, <2>3, <2>4 DEF EvictDone
<1>13. CASE Write(r)
  <2>1. req[r].key = NULL
    BY <1>1, <1>13 DEF Write, Requested, Shaped
  <2> QED BY <1>3, <1>13, <2>1 DEF Write
<1>14. CASE Unregister(r)
  BY <1>2, <1>14 DEF Unregister, Places
<1>15. CASE Remove(r)
  BY <1>2, <1>15 DEF Remove, Places
<1>16. CASE RemoveWorkspace(r)
  <2>1. req[r].key = NULL
    <3>1. Shaped(req[r]) /\ req[r].at = "workspace" /\ req[r].key \in Keys \cup {NULL}
      BY <1>1, <1>16 DEF RemoveWorkspace, Requested, Request
    <3> QED BY <3>1 DEF Shaped
  <2> QED BY <1>3, <1>16, <2>1 DEF RemoveWorkspace, history
<1> QED BY <1>5, <1>6, <1>7, <1>8, <1>9, <1>10, <1>11, <1>12, <1>13, <1>14, <1>15, <1>16, PutKeys
        DEF RequestStep

\* Every step keeps the invariant of the keys.
LEMMA KeyStep == SessionInv /\ KeyInv /\ [Next]_vars => KeyInv'
<1> SUFFICES ASSUME SessionInv, KeyInv, [Next]_vars PROVE KeyInv'
  OBVIOUS
<1>1. Typed /\ clock \in Nat
  BY DEF SessionInv, Typed
<1>2. CASE UNCHANGED vars
  BY <1>1, <1>2, KeysKept DEF vars, history
<1>3. CASE \E c \in DOMAIN copies : RunEnds(c)
  <2>1. UNCHANGED <<idem, req, clock, made, puts, excused>>
    BY <1>3 DEF RunEnds
  <2> QED BY <1>1, <2>1, KeysKept
<1> QED BY <1>2, <1>3, BeginKeys, RequestKeys DEF Next

-----------------------------------------------------------------------------
LEMMA Invariance == Spec => []IInv
<1>1. Init => IInv
  BY InitSession, InitKeys DEF IInv
<1>2. IInv /\ [Next]_vars => IInv'
  BY SessionStep, KeyStep DEF IInv
<1> QED BY <1>1, <1>2, PTL DEF Spec

\* All variables have their types, and a lifecycle lock is held only by a request that is
\* in the locked part of an operation on that session (session_lifecycle_lock).
THEOREM TypeCorrect == Spec => []TypeOK
<1>1. IInv => TypeOK
  <2> SUFFICES ASSUME IInv PROVE TypeOK
    OBVIOUS
  <2>1. Typed /\ Locked
    BY DEF IInv, SessionInv
  <2>2. \A c \in DOMAIN copies : copies[c].sess \in Sessions /\ copies[c].runs \in Nat
    <3>1. \A c \in DOMAIN copies : copies[c] \in Copy
      BY <2>1 DEF Typed
    <3> QED BY <3>1 DEF Copy
  <2> QED BY <2>1, <2>2 DEF Typed, Locked, Critical, TypeOK
<1> QED BY <1>1, Invariance, PTL

\* Whatever interleaving of requests, evictions and resumes: a run is in the registered
\* copy of its session, which is open (enqueue_run under the lock of ensure_live_locked;
\* enforce_live_session_limits looks for runs under the same lock).
THEOREM RunsAreLive == Spec => []RunsInLiveCopy
<1>1. IInv => RunsInLiveCopy
  BY DEF IInv, SessionInv
<1> QED BY <1>1, Invariance, PTL

\* No seq of a session is written twice and no deleted session comes back, but through the
\* windows that stray counts: a goal or settings request past its lock, and a session
\* resumed or deleted before it was registered.
THEOREM OnlyStrayDiverges == Spec => []DivergenceIsStray
<1>1. IInv => DivergenceIsStray
  BY DEF IInv, SessionInv
<1> QED BY <1>1, Invariance, PTL

\* idempotency_get answers for a key that is fresh and among the last stored, and a key
\* makes two things only for requests at once or after it left the cache.
THEOREM KeysAreRemembered == Spec => []KeyRemembered
<1>1. IInv => KeyRemembered
  BY DEF IInv, KeyInv
<1> QED BY <1>1, Invariance, PTL

=============================================================================
