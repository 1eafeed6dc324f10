------------------------- MODULE SessionStoreProofs -------------------------
(***************************************************************************)
(* Proofs about SessionStore: its type invariant, RecoveryExact, what      *)
(* becomes of the transcript and what the message pages show of it, for    *)
(* every set of messages and preambles, every checkpoint interval, pages   *)
(* of any size and logs of any length, when the process may die between    *)
(* any two writes and any write may fail.  Two faults do break the store:  *)
(* an append torn in the middle of a line, and a request handler dropped   *)
(* between two writes (README, known divergences).  NoTornNoDrop excludes  *)
(* them.                                                                   *)
(***************************************************************************)
EXTENDS SessionStore, SessionTranscript, SequenceLemmas

-----------------------------------------------------------------------------
(***************************************************************************)
(* The functions of SessionLog: what apply_event preserves, and what       *)
(* replaying events.jsonl over a snapshot computes, for logs of any        *)
(* length.  Induction over the log is BoundedInduction of SequenceLemmas.  *)
(***************************************************************************)
\* The states of a replay: h starts with the base and goes line by line.
IsReplay(h, st, lines) ==
    h = [i \in 0..Len(lines) |->
            IF i = 0 THEN st
            ELSE ReplayLine(h[i - 1], lines[i], st.last_snapshot_seq)]

\* The recursive definition of ReplayStates defines a function: the replay loop
\* of replay_events_after_snapshot has one result for every log.
LEMMA ReplayStatesDef ==
  ASSUME NEW st, NEW lines, Len(lines) \in Nat
  PROVE  IsReplay(ReplayStates(st, lines), st, lines)
<1> DEFINE s == st.last_snapshot_seq
           Run(f, n) == f = [i \in 0..n |-> IF i = 0 THEN st
                                            ELSE ReplayLine(f[i - 1], lines[i], s)]
           S == {n \in Nat : \E f : Run(f, n)}
<1> HIDE DEF s
<1>1. 0 \in S
  <2> DEFINE f == [i \in 0..0 |-> st]
  <2>1. Run(f, 0)
    OBVIOUS
  <2> QED BY <2>1
<1>2. \A n \in 1..Len(lines) : n - 1 \in S => n \in S
  <2> SUFFICES ASSUME NEW n \in 1..Len(lines), n - 1 \in S PROVE n \in S
    OBVIOUS
  <2>1. PICK f : Run(f, n - 1)
    OBVIOUS
  <2> DEFINE g == [i \in 0..n |-> IF i = n THEN ReplayLine(f[n - 1], lines[n], s)
                                  ELSE f[i]]
  <2>2. \A i \in 0..n : g[i] = IF i = 0 THEN st ELSE ReplayLine(g[i - 1], lines[i], s)
    <3> SUFFICES ASSUME NEW i \in 0..n
                 PROVE  g[i] = IF i = 0 THEN st ELSE ReplayLine(g[i - 1], lines[i], s)
      OBVIOUS
    <3>1. CASE i = n
      <4>1. g[i - 1] = f[n - 1] /\ i # 0
        BY <3>1
      <4> QED BY <3>1, <4>1
    <3>2. CASE i # n
      <4>1. i \in 0..(n - 1) /\ g[i] = f[i]
        BY <3>2
      <4>2. f[i] = IF i = 0 THEN st ELSE ReplayLine(f[i - 1], lines[i], s)
        BY <2>1, <4>1
      <4>3. i # 0 => g[i - 1] = f[i - 1]
        BY <4>1
      <4> QED BY <4>1, <4>2, <4>3
    <3> QED BY <3>1, <3>2
  <2>3. Run(g, n)
    BY <2>2
  <2> HIDE DEF Run
  <2> QED BY <2>3
<1>3. Len(lines) \in S
  <2> HIDE DEF S
  <2>1. \A i \in 0..Len(lines) : i \in S
    BY <1>1, <1>2, BoundedInduction
  <2> QED BY <2>1
<1>4. \E f : Run(f, Len(lines))
  BY <1>3
<1> QED BY <1>4 DEF IsReplay, ReplayStates, s

\* What the states of a replay are, one by one.
LEMMA ReplayStatesProperties ==
  ASSUME NEW st, NEW lines \in Seq(Line)
  PROVE  LET h == ReplayStates(st, lines)
         IN  /\ h[0] = st
             /\ \A i \in 1..Len(lines) :
                   h[i] = ReplayLine(h[i - 1], lines[i], st.last_snapshot_seq)
             /\ Replay(st, lines) = h[Len(lines)]
<1> DEFINE h == ReplayStates(st, lines)
<1>1. Len(lines) \in Nat
  OBVIOUS
<1>2. h = [i \in 0..Len(lines) |->
             IF i = 0 THEN st
             ELSE ReplayLine(h[i - 1], lines[i], st.last_snapshot_seq)]
  BY <1>1, ReplayStatesDef DEF IsReplay
<1> HIDE DEF h
<1>3. h[0] = st
  BY <1>1, <1>2
<1>4. \A i \in 1..Len(lines) :
         h[i] = ReplayLine(h[i - 1], lines[i], st.last_snapshot_seq)
  BY <1>1, <1>2
<1> QED BY <1>3, <1>4 DEF h, Replay

\* A line at the end changes none of the sessions that the lines before it give.
LEMMA ReplayPrefix ==
  ASSUME NEW st, NEW lines \in Seq(Line), NEW line \in Line
  PROVE  \A i \in 0..Len(lines) :
            ReplayStates(st, Append(lines, line))[i] = ReplayStates(st, lines)[i]
<1> DEFINE more == Append(lines, line)
           n == Len(lines)
           h == ReplayStates(st, lines)
           g == ReplayStates(st, more)
           S == {i \in Nat : g[i] = h[i]}
<1>1. /\ more \in Seq(Line) /\ n \in Nat /\ Len(more) = n + 1
      /\ more[n + 1] = line
      /\ \A i \in 1..n : more[i] = lines[i]
  OBVIOUS
<1>2. /\ h[0] = st
      /\ \A i \in 1..n : h[i] = ReplayLine(h[i - 1], lines[i], st.last_snapshot_seq)
      /\ Replay(st, lines) = h[n]
  BY ReplayStatesProperties
<1>3. /\ g[0] = st
      /\ \A i \in 1..Len(more) : g[i] = ReplayLine(g[i - 1], more[i], st.last_snapshot_seq)
      /\ Replay(st, more) = g[Len(more)]
  BY <1>1, ReplayStatesProperties
<1> HIDE DEF h, g, n, more
<1>4. \A i \in 0..n : i \in S
  <2>1. 0 \in S
    BY <1>2, <1>3
  <2>2. \A i \in 1..n : i - 1 \in S => i \in S
    BY <1>1, <1>2, <1>3
  <2> HIDE DEF S
  <2> QED BY <1>1, <2>1, <2>2, BoundedInduction
<1> QED BY <1>4 DEF g, h, n, more

\* Recording one more event extends the replay by one step.
LEMMA ReplayAppend ==
  ASSUME NEW st, NEW lines \in Seq(Line), NEW line \in Line
  PROVE  Replay(st, Append(lines, line))
            = ReplayLine(Replay(st, lines), line, st.last_snapshot_seq)
<1> DEFINE more == Append(lines, line)
           n == Len(lines)
           h == ReplayStates(st, lines)
           g == ReplayStates(st, more)
<1>1. more \in Seq(Line) /\ n \in Nat /\ Len(more) = n + 1 /\ more[n + 1] = line
  OBVIOUS
<1>2. Replay(st, lines) = h[n]
  BY ReplayStatesProperties
<1>3. /\ Replay(st, more) = g[n + 1]
      /\ g[n + 1] = ReplayLine(g[n], line, st.last_snapshot_seq)
  <2>1. /\ \A i \in 1..Len(more) : g[i] = ReplayLine(g[i - 1], more[i], st.last_snapshot_seq)
        /\ Replay(st, more) = g[Len(more)]
    BY <1>1, ReplayStatesProperties
  <2> HIDE DEF g, n, more
  <2>2. n + 1 \in 1..Len(more) /\ n + 1 - 1 = n
    BY <1>1
  <2> QED BY <1>1, <2>1, <2>2
<1>4. g[n] = h[n]
  BY <1>1, ReplayPrefix
<1> HIDE DEF g, h
<1> QED BY <1>2, <1>3, <1>4 DEF more

\* Events the snapshot already covers are not applied again.
LEMMA ReplaySkips ==
  ASSUME NEW st, NEW lines \in Seq(Line),
         \A i \in 1..Len(lines) : lines[i].seq <= st.last_snapshot_seq
  PROVE  Replay(st, lines) = st
<1> DEFINE n == Len(lines)
           h == ReplayStates(st, lines)
           S == {i \in Nat : h[i] = st}
<1>1. n \in Nat
  OBVIOUS
<1>2. /\ h[0] = st
      /\ \A i \in 1..n : h[i] = ReplayLine(h[i - 1], lines[i], st.last_snapshot_seq)
      /\ Replay(st, lines) = h[n]
  BY ReplayStatesProperties
<1> HIDE DEF h
<1>3. \A i \in 0..n : i \in S
  <2>1. 0 \in S
    BY <1>2
  <2>2. \A i \in 1..n : i - 1 \in S => i \in S
    BY <1>2 DEF ReplayLine
  <2> HIDE DEF S
  <2> QED BY <1>1, <2>1, <2>2, BoundedInduction
<1> QED BY <1>1, <1>2, <1>3

\* A set of states that every line of the log stays in contains the result.
LEMMA ReplayStaysIn ==
  ASSUME NEW st, NEW lines \in Seq(Line), NEW P, st \in P,
         \A x \in P : \A i \in 1..Len(lines) :
            ReplayLine(x, lines[i], st.last_snapshot_seq) \in P
  PROVE  Replay(st, lines) \in P
<1> DEFINE n == Len(lines)
           h == ReplayStates(st, lines)
           S == {i \in Nat : h[i] \in P}
<1>1. n \in Nat
  OBVIOUS
<1>2. /\ h[0] = st
      /\ \A i \in 1..n : h[i] = ReplayLine(h[i - 1], lines[i], st.last_snapshot_seq)
      /\ Replay(st, lines) = h[n]
  BY ReplayStatesProperties
<1> HIDE DEF h
<1>3. \A i \in 0..n : i \in S
  <2>1. 0 \in S
    BY <1>2
  <2>2. \A i \in 1..n : i - 1 \in S => i \in S
    BY <1>2
  <2> HIDE DEF S
  <2> QED BY <1>1, <2>1, <2>2, BoundedInduction
<1> QED BY <1>1, <1>2, <1>3

-----------------------------------------------------------------------------
\* position() returns an index that holds the id, or 0.
LEMMA PositionProperties ==
  ASSUME NEW ids \in Seq(Nat), NEW id \in Nat
  PROVE  /\ Position(ids, id) \in 0..Len(ids)
         /\ Position(ids, id) # 0 => ids[Position(ids, id)] = id
         /\ Position(ids, id) = 0 => \A i \in 1..Len(ids) : ids[i] # id
<1> DEFINE S == {i \in 1..Len(ids) : ids[i] = id}
<1>1. CASE S = {}
  BY <1>1 DEF Position
<1>2. CASE S # {}
  <2>1. S \in SUBSET Nat
    OBVIOUS
  <2>2. PICK k \in S : \A m \in S : k <= m
    BY <1>2, <2>1, LeastElement
  <2>3. k \in 1..Len(ids) /\ ids[k] = id /\ \A j \in 1..(k - 1) : ids[j] # id
    BY <2>2
  <2>4. \E i \in 1..Len(ids) : ids[i] = id
    BY <2>3
  <2>5. Position(ids, id) \in 1..Len(ids) /\ ids[Position(ids, id)] = id
    BY <2>3, <2>4 DEF Position
  <2> QED BY <2>5
<1> QED BY <1>1, <1>2

\* Ids and messages in step: the alignment load() checks for.
SameLength(st) == Len(st.messages) = Len(st.message_ids)

\* apply_event keeps a session a session: the types, the alignment of ids and
\* messages, the snapshot position, and last_seq never below the event's seq
\* nor below its old value.
LEMMA ApplyEventType ==
  ASSUME NEW st \in State, SameLength(st), NEW ev \in Event, NEW seq \in Nat
  PROVE  LET r == ApplyEvent(st, ev, seq)
         IN  /\ r \in State
             /\ SameLength(r)
             /\ r.last_snapshot_seq = st.last_snapshot_seq
             /\ r.last_seq = IF seq > st.last_seq THEN seq ELSE st.last_seq
<1> DEFINE s == [st EXCEPT !.last_seq = IF seq > @ THEN seq ELSE @]
           r == ApplyEvent(st, ev, seq)
           Good(x) == /\ x \in State
                      /\ SameLength(x)
                      /\ x.last_snapshot_seq = s.last_snapshot_seq
                      /\ x.last_seq = s.last_seq
<1>1. /\ s \in State
      /\ s.last_snapshot_seq = st.last_snapshot_seq
      /\ s.last_seq = IF seq > st.last_seq THEN seq ELSE st.last_seq
      /\ SameLength(s)
  BY DEF State, SameLength
<1>2. ev.type \in EventType /\ ev.id \in Nat
  BY DEF Event, AnyEvent
<1> HIDE DEF s
<1>3. CASE ev.type = "message"
  <2>1. ev.message \in Message
    BY <1>3 DEF Event, AnyEvent
  <2>2. r = ApplyMessage(s, seq, ev.message)
    BY <1>3 DEF ApplyEvent, s
  <2>3. Good(ApplyMessage(s, seq, ev.message))
    <3>1. /\ Append(s.messages, ev.message) \in Seq(Message)
          /\ Append(s.message_ids, seq) \in Seq(Nat)
          /\ Len(Append(s.messages, ev.message)) = Len(s.messages) + 1
          /\ Len(Append(s.message_ids, seq)) = Len(s.message_ids) + 1
          /\ ev.message.body \in Body
      BY <1>1, <2>1 DEF State, Message
    <3> QED BY <1>1, <3>1 DEF ApplyMessage, State, SameLength
  <2> QED BY <1>1, <2>2, <2>3
<1>4. CASE ev.type = "edit"
  <2>1. ev.message \in Message
    BY <1>4 DEF Event, AnyEvent
  <2>2. r = ApplyEdit(s, ev.id, ev.message)
    BY <1>4 DEF ApplyEvent, s
  <2> DEFINE i == Position(s.message_ids, ev.id)
  <2>3. i \in 0..Len(s.message_ids)
    BY <1>1, <1>2, PositionProperties DEF State
  <2> HIDE DEF i
  <2>4. Good(ApplyEdit(s, ev.id, ev.message))
    <3>1. CASE i = 0
      BY <1>1, <3>1 DEF ApplyEdit, i
    <3>2. CASE i # 0
      <4> DEFINE ms == [s.messages EXCEPT ![i] = ev.message]
      <4>1. s.messages \in Seq(Message) /\ ev.message.body \in Body
        BY <1>1, <2>1 DEF State, Message
      <4>2. ms \in Seq(Message) /\ Len(ms) = Len(s.messages)
        BY <1>1, <2>1, <2>3, <3>2, <4>1, ExceptSeq DEF SameLength
      <4> HIDE DEF ms
      <4>3. ApplyEdit(s, ev.id, ev.message)
              = [s EXCEPT !.messages = ms,
                          !.title = IF i = 1 /\ ev.message.role = "user"
                                    THEN ev.message.body ELSE @]
        BY <3>2 DEF ApplyEdit, i, ms
      <4> QED BY <1>1, <4>1, <4>2, <4>3 DEF State, SameLength
    <3> QED BY <3>1, <3>2
  <2> QED BY <1>1, <2>2, <2>4
<1>5. CASE ev.type = "truncate"
  <2>1. r = ApplyTruncate(s, ev.id)
    BY <1>5 DEF ApplyEvent, s
  <2> DEFINE i == Position(s.message_ids, ev.id)
  <2>2. i \in 0..Len(s.message_ids)
    BY <1>1, <1>2, PositionProperties DEF State
  <2> HIDE DEF i
  <2>3. Good(ApplyTruncate(s, ev.id))
    <3>1. CASE i = 0
      BY <1>1, <3>1 DEF ApplyTruncate, i
    <3>2. CASE i # 0
      <4> DEFINE ms == SubSeq(s.messages, 1, i)
                 ids == SubSeq(s.message_ids, 1, i)
                 c == s.context_checkpoint
      <4>1. s.messages \in Seq(Message) /\ s.message_ids \in Seq(Nat)
        BY <1>1 DEF State
      <4>2. ids \in Seq(Nat) /\ Len(ids) = i
        BY <2>2, <3>2, <4>1
      <4>3. ms \in Seq(Message) /\ Len(ms) = i
        BY <1>1, <2>2, <3>2, <4>1 DEF SameLength
      <4>4. c \in Checkpoint \cup {NULL}
        BY <1>1 DEF State
      <4>5. ApplyTruncate(s, ev.id)
              = [s EXCEPT !.messages = ms, !.message_ids = ids, !.outcome = {},
                          !.context_checkpoint = IF c # NULL /\ c.base >= ev.id
                                                 THEN NULL ELSE c]
        BY <3>2 DEF ApplyTruncate, i
      <4> HIDE DEF ms, ids, c
      <4> QED BY <1>1, <4>2, <4>3, <4>4, <4>5 DEF State, SameLength
    <3> QED BY <3>1, <3>2
  <2> QED BY <1>1, <2>1, <2>3
<1>6. CASE ev.type = "checkpoint"
  <2>1. r = [s EXCEPT !.context_checkpoint = ev.checkpoint]
    BY <1>6 DEF ApplyEvent, s
  <2>2. ev.checkpoint \in Checkpoint
    BY <1>6 DEF Event, AnyEvent
  <2> QED BY <1>1, <2>1, <2>2 DEF State, SameLength
<1>7. CASE ev.type \in {"finish", "error"}
  <2>1. r = [s EXCEPT !.outcome = @ \cup {ev.type}]
    BY <1>7 DEF ApplyEvent, s
  <2>2. s.outcome \cup {ev.type} \in SUBSET {"finish", "error"}
    BY <1>1, <1>7 DEF State
  <2> QED BY <1>1, <2>1, <2>2 DEF State, SameLength
<1>8. CASE ev.type \in {"goal_set", "goal_completed"}
  <2>1. r = [s EXCEPT !.goal = ev.goal]
    BY <1>8 DEF ApplyEvent, s
  <2>2. ev.goal \in Goal
    BY <1>8 DEF Event, AnyEvent
  <2> QED BY <1>1, <2>1, <2>2 DEF State, SameLength
<1>9. CASE ev.type = "goal_cleared"
  <2>1. r = [s EXCEPT !.goal = NULL]
    BY <1>9 DEF ApplyEvent, s
  <2> QED BY <1>1, <2>1 DEF State, SameLength
<1>10. CASE ev.type = "goal_usage"
  <2>1. r = ApplyGoalUsage(s)
    BY <1>10 DEF ApplyEvent, s
  <2>2. Good(ApplyGoalUsage(s))
    <3> DEFINE g == s.goal
               u == [g EXCEPT !.used = g.used + 1]
    <3>1. CASE g = NULL
      BY <1>1, <3>1 DEF ApplyGoalUsage
    <3>2. CASE g # NULL
      <4>1. g \in Goal
        BY <1>1, <3>2 DEF State
      <4>2. u \in Goal
        BY <4>1 DEF Goal
      <4>3. ApplyGoalUsage(s) = [s EXCEPT !.goal = u]
        BY <3>2 DEF ApplyGoalUsage
      <4> HIDE DEF u
      <4> QED BY <1>1, <4>2, <4>3 DEF State, SameLength
    <3> QED BY <3>1, <3>2
  <2> QED BY <1>1, <2>1, <2>2
<1> QED BY <1>2, <1>3, <1>4, <1>5, <1>6, <1>7, <1>8, <1>9, <1>10 DEF EventType

\* A replay over an aligned base is a session, keeps the base's snapshot
\* position, and its last_seq is that of the base or of an event in the log, so
\* that the next seq is fresh.
LEMMA ReplayType ==
  ASSUME NEW st \in State, SameLength(st), NEW lines \in Seq(Line),
         st.last_snapshot_seq <= st.last_seq
  PROVE  LET r == Replay(st, lines)
         IN  /\ r \in State
             /\ SameLength(r)
             /\ r.last_snapshot_seq = st.last_snapshot_seq
             /\ r.last_seq >= st.last_seq
             /\ \A j \in 1..Len(lines) : lines[j].ok => lines[j].seq <= r.last_seq
<1> DEFINE n == Len(lines)
           q == st.last_snapshot_seq
           h == ReplayStates(st, lines)
           Good(x) == /\ x \in State /\ SameLength(x)
                      /\ x.last_snapshot_seq = q
                      /\ x.last_seq >= st.last_seq
           Covered(i) == \A j \in 1..i : lines[j].ok => lines[j].seq <= h[i].last_seq
           S == {i \in Nat : Good(h[i]) /\ Covered(i)}
<1>1. n \in Nat
  OBVIOUS
<1>2. /\ h[0] = st
      /\ \A i \in 1..n : h[i] = ReplayLine(h[i - 1], lines[i], q)
      /\ Replay(st, lines) = h[n]
  BY ReplayStatesProperties
<1> HIDE DEF h
<1>3. \A i \in 1..n : lines[i].seq \in Nat /\ lines[i].event \in Event
  <2>1. \A x \in Line : x.seq \in Nat /\ x.event \in Event
    BY DEF Line
  <2>2. \A i \in 1..n : lines[i] \in Line
    OBVIOUS
  <2> QED BY <2>1, <2>2
<1>4. \A x \in State : x.last_seq \in Nat /\ x.last_snapshot_seq \in Nat
  BY DEF State
<1>5. \A i \in 0..n : i \in S
  <2>1. 0 \in S
    BY <1>2, <1>4
  <2>2. \A i \in 1..n : i - 1 \in S => i \in S
    <3> SUFFICES ASSUME NEW i \in 1..n, i - 1 \in S PROVE Good(h[i]) /\ Covered(i)
      OBVIOUS
    <3> DEFINE x == h[i - 1]
    <3>1. Good(x) /\ Covered(i - 1)
      OBVIOUS
    <3>2. h[i] = ReplayLine(x, lines[i], q)
      BY <1>2
    <3>3. x.last_seq \in Nat /\ st.last_seq \in Nat /\ q \in Nat
      BY <1>4, <3>1
    <3> HIDE DEF x
    <3>4. CASE ~lines[i].ok \/ lines[i].seq <= q
      <4>1. h[i] = x
        BY <3>2, <3>4 DEF ReplayLine
      <4>2. q <= x.last_seq
        BY <3>1, <3>3
      <4>3. lines[i].ok => lines[i].seq <= x.last_seq
        BY <1>3, <3>3, <3>4, <4>2
      <4>4. \A j \in 1..i : j = i \/ j \in 1..(i - 1)
        OBVIOUS
      <4>5. Covered(i)
        BY <3>1, <4>1, <4>3, <4>4 DEF x
      <4> QED BY <3>1, <4>1, <4>5
    <3>5. CASE ~(~lines[i].ok \/ lines[i].seq <= q)
      <4> DEFINE y == ApplyEvent(x, lines[i].event, lines[i].seq)
      <4>1. h[i] = y
        BY <3>2, <3>5 DEF ReplayLine
      <4>2. /\ y \in State /\ SameLength(y) /\ y.last_snapshot_seq = q
            /\ y.last_seq = IF lines[i].seq > x.last_seq
                            THEN lines[i].seq ELSE x.last_seq
        BY <1>3, <3>1, ApplyEventType
      <4> HIDE DEF y
      <4>3. y.last_seq >= x.last_seq /\ y.last_seq >= lines[i].seq /\ y.last_seq \in Nat
        BY <1>3, <3>3, <4>2
      <4>4. \A j \in 1..i : j = i \/ j \in 1..(i - 1)
        OBVIOUS
      <4>5. \A j \in 1..(i - 1) : lines[j].ok => lines[j].seq <= x.last_seq
        BY <3>1 DEF x
      <4>6. Covered(i)
        <5> SUFFICES ASSUME NEW j \in 1..i, lines[j].ok
                     PROVE  lines[j].seq <= y.last_seq
          BY <4>1
        <5>1. lines[j].seq \in Nat
          BY <1>1, <1>3
        <5>2. CASE j = i
          BY <4>3, <5>2
        <5>3. CASE j \in 1..(i - 1)
          BY <3>3, <4>3, <4>5, <5>1, <5>3
        <5> QED BY <4>4, <5>2, <5>3
      <4>7. y.last_seq >= st.last_seq
        BY <3>1, <3>3, <4>3
      <4> QED BY <4>1, <4>2, <4>6, <4>7
    <3> QED BY <3>4, <3>5
  <2> HIDE DEF S
  <2> QED BY <1>1, <2>1, <2>2, BoundedInduction
<1>6. Good(h[n]) /\ Covered(n)
  BY <1>1, <1>5
<1> QED BY <1>2, <1>6

\* What load replays over: an aligned session, whatever the snapshot is.
LEMMA ReplayBaseType ==
  ASSUME NEW st \in State, st.last_snapshot_seq <= st.last_seq
  PROVE  LET b == ReplayBase(st)
         IN  /\ b \in State /\ SameLength(b)
             /\ b.last_snapshot_seq <= b.last_seq
             /\ b.last_snapshot_seq <= st.last_snapshot_seq
             /\ SameLength(st) => b = st
<1>1. CASE SameLength(st)
  BY <1>1 DEF SameLength, ReplayBase, State
<1>2. CASE ~SameLength(st)
  <2>1. ReplayBase(st) = EmptiedForRebuild(st)
    BY <1>2 DEF SameLength, ReplayBase
  <2>2. <<>> \in Seq(Message) /\ <<>> \in Seq(Nat)
    OBVIOUS
  <2>3. EmptiedForRebuild(st) \in State
    BY <2>2 DEF EmptiedForRebuild, State
  <2>4. /\ EmptiedForRebuild(st).messages = <<>>
        /\ EmptiedForRebuild(st).message_ids = <<>>
        /\ EmptiedForRebuild(st).last_seq = 0
        /\ EmptiedForRebuild(st).last_snapshot_seq = 0
    BY DEF EmptiedForRebuild, State
  <2> QED BY <1>2, <2>1, <2>3, <2>4 DEF SameLength, State
<1> QED BY <1>1, <1>2

\* The preamble is the longest prefix of system messages.
LEMMA PreambleEndProperties ==
  ASSUME NEW ms \in Seq(Message)
  PROVE  LET end == PreambleEnd(ms)
         IN  /\ end \in 0..Len(ms)
             /\ \A k \in 1..end : ms[k].role = "system"
             /\ end < Len(ms) => ms[end + 1].role # "system"
<1> DEFINE S == {i \in 1..Len(ms) : ms[i].role # "system"}
           end == PreambleEnd(ms)
<1>1. Len(ms) \in Nat
  OBVIOUS
<1>2. CASE S = {}
  <2>1. end = Len(ms)
    BY <1>2 DEF PreambleEnd
  <2> QED BY <1>1, <1>2, <2>1
<1>3. CASE S # {}
  <2>1. S \in SUBSET Nat
    OBVIOUS
  <2>2. PICK k \in S : \A m \in S : k <= m
    BY <1>3, <2>1, LeastElement
  <2>3. k \in 1..Len(ms) /\ ms[k].role # "system"
        /\ \A j \in 1..(k - 1) : ms[j].role = "system"
    BY <1>1, <2>2
  <2>4. \E i \in 1..Len(ms) : ms[i].role # "system"
    BY <2>3
  <2> DEFINE c == CHOOSE i \in 1..Len(ms) :
                      ms[i].role # "system"
                      /\ \A j \in 1..(i - 1) : ms[j].role = "system"
  <2>5. c \in 1..Len(ms) /\ ms[c].role # "system"
        /\ \A j \in 1..(c - 1) : ms[j].role = "system"
    BY <2>3
  <2>6. end = c - 1
    BY <2>4 DEF PreambleEnd
  <2> HIDE DEF c, end
  <2>7. /\ end \in 0..Len(ms) /\ end + 1 = c
        /\ \A j \in 1..end : ms[j].role = "system"
    BY <1>1, <2>5, <2>6
  <2>8. ms[end + 1].role # "system"
    BY <2>5, <2>7
  <2> QED BY <2>7, <2>8 DEF end
<1> QED BY <1>2, <1>3

\* Nothing else is such a prefix.
LEMMA PreambleEndUnique ==
  ASSUME NEW ms \in Seq(Message), NEW n \in 0..Len(ms),
         \A k \in 1..n : ms[k].role = "system",
         n < Len(ms) => ms[n + 1].role # "system"
  PROVE  PreambleEnd(ms) = n
<1> DEFINE end == PreambleEnd(ms)
<1>1. /\ end \in 0..Len(ms)
      /\ \A k \in 1..end : ms[k].role = "system"
      /\ end < Len(ms) => ms[end + 1].role # "system"
  BY PreambleEndProperties
<1> HIDE DEF end
<1>2. Len(ms) \in Nat
  OBVIOUS
<1>3. ~(end < n)
  BY <1>1, <1>2
<1>4. ~(n < end)
  BY <1>1, <1>2
<1>5. end = n
  BY <1>1, <1>2, <1>3, <1>4
<1> QED BY <1>5 DEF end

\* Swapping the preamble keeps ids and messages in step and never takes a seq
\* back.
LEMMA ReplacePreambleType ==
  ASSUME NEW st \in State, SameLength(st),
         NEW p \in Seq(Message)
  PROVE  LET r == ReplacePreamble(st, p)
         IN  /\ r \in State /\ SameLength(r)
             /\ r.last_snapshot_seq = st.last_snapshot_seq
             /\ r.last_seq >= st.last_seq
<1> DEFINE ms == st.messages
           end == PreambleEnd(ms)
           n == Len(p)
           keep == IF end < n THEN end ELSE n
           ids == [i \in 1..n |-> IF i <= end THEN st.message_ids[i]
                                              ELSE st.last_seq + (i - keep)]
<1>1. ms \in Seq(Message) /\ st.message_ids \in Seq(Nat) /\ st.last_seq \in Nat
      /\ Len(ms) = Len(st.message_ids) /\ Len(ms) \in Nat /\ n \in Nat
  BY DEF State, SameLength
<1> HIDE DEF ms
<1>2. end \in 0..Len(ms)
  BY <1>1, PreambleEndProperties
<1> HIDE DEF end
<1>3. keep \in Nat /\ keep <= n /\ keep <= end
  BY <1>1, <1>2
<1>4. ids \in Seq(Nat) /\ Len(ids) = n
  <2>1. \A i \in 1..n : (IF i <= end THEN st.message_ids[i]
                                     ELSE st.last_seq + (i - keep)) \in Nat
    <3> TAKE i \in 1..n
    <3>1. CASE i <= end
      BY <1>1, <1>2, <3>1
    <3>2. CASE ~(i <= end)
      <4>1. i - keep \in Nat
        BY <1>1, <1>2, <1>3, <3>2
      <4> QED BY <1>1, <3>2, <4>1
    <3> QED BY <3>1, <3>2
  <2> QED BY <1>1, <2>1
<1> HIDE DEF ids
<1> DEFINE mt == SubSeq(ms, end + 1, Len(ms))
           it == SubSeq(st.message_ids, end + 1, Len(st.message_ids))
<1>5. /\ mt \in Seq(Message) /\ it \in Seq(Nat)
      /\ Len(mt) = Len(ms) - end /\ Len(it) = Len(ms) - end
  <2>1. \A i \in (end + 1)..Len(ms) : ms[i] \in Message /\ st.message_ids[i] \in Nat
    BY <1>1, <1>2
  <2>2. end + 1 \in Int /\ Len(ms) \in Int
    BY <1>1, <1>2
  <2>3. mt \in Seq(Message) /\ Len(mt) = IF end + 1 <= Len(ms)
                                         THEN Len(ms) - (end + 1) + 1 ELSE 0
    BY <2>1, <2>2, SubSeqProperties
  <2>4. it \in Seq(Nat) /\ Len(it) = IF end + 1 <= Len(ms)
                                     THEN Len(ms) - (end + 1) + 1 ELSE 0
    BY <1>1, <2>1, <2>2, SubSeqProperties
  <2> QED BY <1>1, <1>2, <2>3, <2>4
<1> HIDE DEF mt, it
<1>6. /\ p \o mt \in Seq(Message) /\ Len(p \o mt) = n + (Len(ms) - end)
      /\ ids \o it \in Seq(Nat) /\ Len(ids \o it) = n + (Len(ms) - end)
  <2>1. p \o mt \in Seq(Message) /\ Len(p \o mt) = Len(p) + Len(mt)
    BY <1>5, ConcatProperties
  <2>2. ids \o it \in Seq(Nat) /\ Len(ids \o it) = Len(ids) + Len(it)
    BY <1>4, <1>5, ConcatProperties
  <2> QED BY <1>4, <1>5, <2>1, <2>2
<1>7. ReplacePreamble(st, p)
        = [st EXCEPT !.messages = p \o mt, !.message_ids = ids \o it,
                     !.last_seq = st.last_seq + (n - keep)]
  BY DEF ReplacePreamble, ms, end, ids, mt, it
<1>8. st.last_seq + (n - keep) \in Nat /\ st.last_seq + (n - keep) >= st.last_seq
  BY <1>1, <1>3
<1> QED BY <1>6, <1>7, <1>8 DEF State, SameLength

-----------------------------------------------------------------------------

NoTornNoDrop == "torn" \notin Faults /\ "drop" \notin Faults

(***************************************************************************)
(* The inductive invariant.  Recovering exactly what is in memory needs    *)
(* that replay skips neither too much nor too little: every line in the    *)
(* log has a seq that memory has reached (so a snapshot of memory covers   *)
(* all of them), and the snapshot's own position is not beyond memory (so  *)
(* the next event is replayed on top of it).                               *)
(***************************************************************************)
LogReadable == ended = TRUE /\ \A i \in 1..Len(log) : log[i].ok

\* The last seq handed out: record_event has appended the line before memory
\* counts it.
LastSeqUsed == IF pc = "apply" THEN mem.last_seq + 1 ELSE mem.last_seq

MemoryCoversLog ==
    mem # NULL => \A i \in 1..Len(log) : log[i].seq <= LastSeqUsed

MemoryCoversSnapshot ==
    mem # NULL => /\ snap # NULL
                  /\ SameLength(mem)
                  /\ ReplayBase(snap).last_snapshot_seq <= mem.last_seq

SnapshotBehindItself ==
    snap # NULL => snap.last_snapshot_seq <= snap.last_seq

CreationInOrder ==
    Creating => /\ mem = NULL /\ snap = NULL
                /\ \A i \in 1..Len(log) : log[i].seq = i

FilesGiveMemory ==
    mem # NULL /\ ~unsaved => Core(Recovered) = Core(Durable)

IInv == /\ TypeOK
        /\ LogReadable
        /\ MemoryCoversLog
        /\ MemoryCoversSnapshot
        /\ SnapshotBehindItself
        /\ CreationInOrder
        /\ FilesGiveMemory

-----------------------------------------------------------------------------
\* The constructors build events.
LEMMA EventConstructors ==
  /\ \A m \in Message : MessageEvent(m) \in Event
  /\ \A id \in Nat, m \in Message : MessageEdit(id, m) \in Event
  /\ \A id \in Nat : TruncateAfter(id) \in Event
  /\ \A c \in Checkpoint : ContextCheckpoint(c) \in Event
  /\ GoalSet \in Event
  /\ \A g \in Goal : GoalCompleted(g) \in Event
  /\ \A t \in {"finish", "error", "goal_cleared", "goal_usage"} : Plain(t) \in Event
<1> USE NullAssumption
<1>1. ASSUME NEW m \in Message PROVE MessageEvent(m) \in Event
  BY DEF MessageEvent, Plain, Event, AnyEvent, EventType
<1>2. ASSUME NEW id \in Nat, NEW m \in Message PROVE MessageEdit(id, m) \in Event
  BY DEF MessageEdit, Plain, Event, AnyEvent, EventType
<1>3. ASSUME NEW id \in Nat PROVE TruncateAfter(id) \in Event
  BY DEF TruncateAfter, Plain, Event, AnyEvent, EventType
<1>4. ASSUME NEW c \in Checkpoint PROVE ContextCheckpoint(c) \in Event
  BY DEF ContextCheckpoint, Plain, Event, AnyEvent, EventType
<1>5. GoalSet \in Event
  <2>1. [status |-> "active", used |-> 0] \in Goal
    BY DEF Goal
  <2> QED BY <2>1 DEF GoalSet, Plain, Event, AnyEvent, EventType
<1>6. ASSUME NEW g \in Goal PROVE GoalCompleted(g) \in Event
  <2>1. [g EXCEPT !.status = "complete"] \in Goal
    BY DEF Goal
  <2> QED BY <2>1 DEF GoalCompleted, Plain, Event, AnyEvent, EventType
<1>7. ASSUME NEW t \in {"finish", "error", "goal_cleared", "goal_usage"}
      PROVE  Plain(t) \in Event
  BY DEF Plain, Event, AnyEvent, EventType
<1> QED BY <1>1, <1>2, <1>3, <1>4, <1>5, <1>6, <1>7

\* An event does the same to a state whatever the snapshot position it carries.
LEMMA CoreApplyEvent ==
  ASSUME NEW st \in State, NEW ev \in Event, NEW seq \in Nat
  PROVE  Core(ApplyEvent(st, ev, seq)) = ApplyEvent(Core(st), ev, seq)
<1> DEFINE s == [st EXCEPT !.last_seq = IF seq > @ THEN seq ELSE @]
           t == [Core(st) EXCEPT !.last_seq = IF seq > @ THEN seq ELSE @]
<1>1. s \in State /\ t \in State /\ Core(s) = t
  BY DEF Core, State
<1>2. /\ t.messages = s.messages /\ t.message_ids = s.message_ids
      /\ t.context_checkpoint = s.context_checkpoint /\ t.title = s.title
      /\ t.outcome = s.outcome /\ t.goal = s.goal /\ t.last_seq = s.last_seq
  BY <1>1 DEF Core, State
<1>3. ev.type \in EventType
  BY DEF Event, AnyEvent
<1> HIDE DEF s, t
<1>4. CASE ev.type = "message"
  <2>1. /\ ApplyEvent(st, ev, seq) = ApplyMessage(s, seq, ev.message)
        /\ ApplyEvent(Core(st), ev, seq) = ApplyMessage(t, seq, ev.message)
    BY <1>4 DEF ApplyEvent, s, t
  <2> DEFINE ms == Append(s.messages, ev.message)
             ids == Append(s.message_ids, seq)
             ti == IF s.title = NULL /\ ev.message.role = "user"
                   THEN ev.message.body ELSE s.title
             Upd(x) == [x EXCEPT !.messages = ms, !.message_ids = ids, !.title = ti]
  <2>2. ApplyMessage(s, seq, ev.message) = Upd(s)
    BY <1>1 DEF ApplyMessage
  <2>3. ApplyMessage(t, seq, ev.message) = Upd(t)
    BY <1>1, <1>2 DEF ApplyMessage
  <2> HIDE DEF ms, ids, ti
  <2>4. Core(Upd(s)) = Upd(Core(s))
    BY <1>1 DEF Core, State
  <2> HIDE DEF Upd
  <2> QED BY <1>1, <2>1, <2>2, <2>3, <2>4
<1>5. CASE ev.type = "edit"
  <2>1. /\ ApplyEvent(st, ev, seq) = ApplyEdit(s, ev.id, ev.message)
        /\ ApplyEvent(Core(st), ev, seq) = ApplyEdit(t, ev.id, ev.message)
    BY <1>5 DEF ApplyEvent, s, t
  <2> DEFINE i == Position(s.message_ids, ev.id)
             ms == [s.messages EXCEPT ![i] = ev.message]
             ti == IF i = 1 /\ ev.message.role = "user"
                   THEN ev.message.body ELSE s.title
             Upd(x) == [x EXCEPT !.messages = ms, !.title = ti]
  <2>2. CASE i = 0
    BY <1>1, <1>2, <2>1, <2>2 DEF ApplyEdit
  <2>3. CASE i # 0
    <3>1. ApplyEdit(s, ev.id, ev.message) = Upd(s)
      BY <1>1, <2>3 DEF ApplyEdit
    <3>2. ApplyEdit(t, ev.id, ev.message) = Upd(t)
      BY <1>1, <1>2, <2>3 DEF ApplyEdit
    <3> HIDE DEF ms, ti
    <3>3. Core(Upd(s)) = Upd(Core(s))
      BY <1>1 DEF Core, State
    <3> HIDE DEF Upd
    <3> QED BY <1>1, <2>1, <3>1, <3>2, <3>3
  <2> QED BY <2>2, <2>3
<1>6. CASE ev.type = "truncate"
  <2>1. /\ ApplyEvent(st, ev, seq) = ApplyTruncate(s, ev.id)
        /\ ApplyEvent(Core(st), ev, seq) = ApplyTruncate(t, ev.id)
    BY <1>6 DEF ApplyEvent, s, t
  <2> DEFINE i == Position(s.message_ids, ev.id)
             c == s.context_checkpoint
             ms == SubSeq(s.messages, 1, i)
             ids == SubSeq(s.message_ids, 1, i)
             cc == IF c # NULL /\ c.base >= ev.id THEN NULL ELSE c
             Upd(x) == [x EXCEPT !.messages = ms, !.message_ids = ids, !.outcome = {},
                                 !.context_checkpoint = cc]
  <2>2. CASE i = 0
    BY <1>1, <1>2, <2>1, <2>2 DEF ApplyTruncate
  <2>3. CASE i # 0
    <3>1. ApplyTruncate(s, ev.id) = Upd(s)
      BY <1>1, <2>3 DEF ApplyTruncate
    <3>2. ApplyTruncate(t, ev.id) = Upd(t)
      BY <1>1, <1>2, <2>3 DEF ApplyTruncate
    <3> HIDE DEF ms, ids, cc
    <3>3. Core(Upd(s)) = Upd(Core(s))
      BY <1>1 DEF Core, State
    <3> HIDE DEF Upd
    <3> QED BY <1>1, <2>1, <3>1, <3>2, <3>3
  <2> QED BY <2>2, <2>3
<1>7. CASE ev.type = "checkpoint"
  <2>1. /\ ApplyEvent(st, ev, seq) = [s EXCEPT !.context_checkpoint = ev.checkpoint]
        /\ ApplyEvent(Core(st), ev, seq) = [t EXCEPT !.context_checkpoint = ev.checkpoint]
    BY <1>7 DEF ApplyEvent, s, t
  <2> QED BY <1>1, <1>2, <2>1 DEF Core, State
<1>8. CASE ev.type \in {"finish", "error"}
  <2>1. /\ ApplyEvent(st, ev, seq) = [s EXCEPT !.outcome = @ \cup {ev.type}]
        /\ ApplyEvent(Core(st), ev, seq) = [t EXCEPT !.outcome = @ \cup {ev.type}]
    BY <1>8 DEF ApplyEvent, s, t
  <2> QED BY <1>1, <1>2, <2>1 DEF Core, State
<1>9. CASE ev.type \in {"goal_set", "goal_completed"}
  <2>1. /\ ApplyEvent(st, ev, seq) = [s EXCEPT !.goal = ev.goal]
        /\ ApplyEvent(Core(st), ev, seq) = [t EXCEPT !.goal = ev.goal]
    BY <1>9 DEF ApplyEvent, s, t
  <2> QED BY <1>1, <1>2, <2>1 DEF Core, State
<1>10. CASE ev.type = "goal_cleared"
  <2>1. /\ ApplyEvent(st, ev, seq) = [s EXCEPT !.goal = NULL]
        /\ ApplyEvent(Core(st), ev, seq) = [t EXCEPT !.goal = NULL]
    BY <1>10 DEF ApplyEvent, s, t
  <2> QED BY <1>1, <1>2, <2>1 DEF Core, State
<1>11. CASE ev.type = "goal_usage"
  <2>1. /\ ApplyEvent(st, ev, seq) = ApplyGoalUsage(s)
        /\ ApplyEvent(Core(st), ev, seq) = ApplyGoalUsage(t)
    BY <1>11 DEF ApplyEvent, s, t
  <2> QED BY <1>1, <1>2, <2>1 DEF ApplyGoalUsage, Core, State
<1> QED BY <1>3, <1>4, <1>5, <1>6, <1>7, <1>8, <1>9, <1>10, <1>11 DEF EventType

-----------------------------------------------------------------------------
\* What starting any operation does: the files stay as they are, the operation's
\* events are events, and memory changes only by a preamble swap.
OperationEffect ==
    /\ pc = "idle" /\ mem # NULL
    /\ mem' \in State /\ SameLength(mem') /\ mem'.last_seq >= mem.last_seq
    /\ UNCHANGED disk
    /\ op' \in Op /\ pc' \in {"idle", "append", "snapshot"}
    /\ pc' = "append" => op'.todo # <<>>
    /\ regen' \in Nat \cup {NULL}
    /\ \/ unsaved' = TRUE
       \/ mem' = mem /\ unsaved' = unsaved

LEMMA StartType ==
  ASSUME NEW events \in Seq(Event), NEW save \in BOOLEAN,
         NEW by \in {"worker", "handler", "resume"},
         Start(events, save, by)
  PROVE  /\ op' \in Op /\ pc' \in {"append", "snapshot"}
         /\ pc' = "append" => op'.todo # <<>>
         /\ UNCHANGED disk
<1>1. (save /\ events # <<>>) \in BOOLEAN
  OBVIOUS
<1> DEFINE sv == save /\ events # <<>>
<1>2. op' = [todo |-> events, save |-> sv, by |-> by]
  BY DEF Start
<1> HIDE DEF sv
<1>3. op' \in Op
  BY <1>1, <1>2 DEF Op, sv
<1>4. op'.todo = events
  BY <1>2
<1> QED BY <1>3, <1>4 DEF Start

LEMMA OperationStep ==
  ASSUME TypeOK, MemoryCoversSnapshot, Operation \/ Regenerate
  PROVE  OperationEffect
<1>1. pc = "idle" /\ mem # NULL
  BY DEF Operation, Regenerate, RecordMessage, RecordOutcome, RecordGoalProgress,
         ChangeGoal, EditUserMessage, CheckRegenerate, PatchSettings, ApplySettings,
         CompactContext, Ready
<1>2. mem \in State /\ SameLength(mem) /\ mem.last_seq \in Nat
      /\ mem.message_ids \in Seq(Nat) /\ mem.goal \in Goal \cup {NULL}
      /\ regen \in Nat \cup {NULL} /\ op \in Op /\ unsaved \in BOOLEAN
  <2>1. mem \in State
    BY <1>1 DEF TypeOK
  <2> QED BY <1>1, <2>1 DEF TypeOK, MemoryCoversSnapshot, State
<1> DEFINE Rest == /\ op' \in Op /\ pc' \in {"append", "snapshot"}
                   /\ pc' = "append" => op'.todo # <<>>
                   /\ UNCHANGED disk
<1>3. ASSUME NEW ev \in Event, NEW save \in BOOLEAN,
             NEW by \in {"worker", "handler", "resume"}, Start(<<ev>>, save, by)
      PROVE  Rest
  <2>1. <<ev>> \in Seq(Event)
    OBVIOUS
  <2> QED BY <1>3, <2>1, StartType
<1>4. ASSUME NEW save \in BOOLEAN,
             NEW by \in {"worker", "handler", "resume"}, Start(<<>>, save, by)
      PROVE  Rest
  <2>1. <<>> \in Seq(Event)
    OBVIOUS
  <2> QED BY <1>4, <2>1, StartType
<1> HIDE DEF Rest
<1>5. ASSUME Rest, UNCHANGED <<mem, unsaved>>, regen' \in Nat \cup {NULL}
      PROVE  OperationEffect
  BY <1>1, <1>2, <1>5 DEF OperationEffect, Rest
<1>6. ASSUME NEW p \in Preambles
      PROVE  LET st == ReplacePreamble(mem, p)
             IN  st \in State /\ SameLength(st) /\ st.last_seq >= mem.last_seq
  <2>1. p \in Seq([role : {"system"}, body : Body])
    BY MessagesAssumption
  <2>2. p \in Seq(Message)
    <3> DEFINE P == [role : {"system"}, body : Body]
    <3>1. P \subseteq Message
      BY DEF Message, Role
    <3>2. p \in Seq(P)
      BY <2>1
    <3> HIDE DEF P
    <3>3. Len(p) \in Nat /\ p \in [1..Len(p) -> Message]
      BY <3>1, <3>2
    <3> QED BY <3>3
  <2> QED BY <1>2, <2>2, ReplacePreambleType
<1>7. CASE RecordMessage
  <2>1. PICK m \in Recordable : Start(<<MessageEvent(m)>>, FALSE, "worker")
    BY <1>7 DEF RecordMessage
  <2>2. MessageEvent(m) \in Event
    BY MessagesAssumption, EventConstructors
  <2>3. Rest
    BY <1>3, <2>1, <2>2
  <2> QED BY <1>2, <1>5, <1>7, <2>3 DEF RecordMessage
<1>8. CASE RecordOutcome
  <2>1. PICK t \in {"finish", "error"} : Start(<<Plain(t)>>, FALSE, "worker")
    BY <1>8 DEF RecordOutcome
  <2>2. Plain(t) \in Event
    BY EventConstructors
  <2>3. Rest
    BY <1>3, <2>1, <2>2
  <2> QED BY <1>2, <1>5, <1>8, <2>3 DEF RecordOutcome
<1>9. CASE RecordGoalProgress
  <2>1. PICK ev \in {Plain("goal_usage"), GoalCompleted(mem.goal)} :
           Start(<<ev>>, FALSE, "worker")
    BY <1>9 DEF RecordGoalProgress
  <2>2. mem.goal \in Goal
    BY <1>2, <1>9 DEF RecordGoalProgress
  <2>3. ev \in Event
    BY <2>2, EventConstructors
  <2>4. Rest
    BY <1>3, <2>1, <2>3
  <2> QED BY <1>2, <1>5, <1>9, <2>4 DEF RecordGoalProgress
<1>10. CASE ChangeGoal
  <2>1. PICK ev \in {GoalSet, Plain("goal_cleared")} : Start(<<ev>>, TRUE, "handler")
    BY <1>10 DEF ChangeGoal
  <2>2. ev \in Event
    BY EventConstructors
  <2>3. Rest
    BY <1>3, <2>1, <2>2
  <2> QED BY <1>2, <1>5, <1>10, <2>3 DEF ChangeGoal
<1>11. CASE EditUserMessage
  <2>1. PICK id \in UserMessageIds(mem), b \in Body :
           Start(<<MessageEdit(id, [role |-> "user", body |-> b]), TruncateAfter(id)>>,
                 TRUE, "handler")
    BY <1>11 DEF EditUserMessage
  <2>2. id \in Nat
    BY <1>2 DEF UserMessageIds, SameLength
  <2>3. [role |-> "user", body |-> b] \in Message
    BY DEF Message, Role
  <2>4. MessageEdit(id, [role |-> "user", body |-> b]) \in Event
        /\ TruncateAfter(id) \in Event
    BY <2>2, <2>3, EventConstructors
  <2>5. <<MessageEdit(id, [role |-> "user", body |-> b]), TruncateAfter(id)>> \in Seq(Event)
    BY <2>4
  <2>6. Rest
    BY <2>1, <2>5, StartType DEF Rest
  <2> QED BY <1>2, <1>5, <1>11, <2>6 DEF EditUserMessage
<1>12. CASE CheckRegenerate
  <2>1. regen' \in Nat
    BY <1>2, <1>12 DEF CheckRegenerate, VisibleUserMessageIds, SameLength
  <2> QED BY <1>1, <1>2, <1>12, <2>1 DEF CheckRegenerate, OperationEffect
<1>13. CASE Regenerate
  <2>1. TruncateAfter(regen) \in Event
    BY <1>2, <1>13, EventConstructors DEF Regenerate
  <2>2. Rest
    BY <1>3, <1>13, <2>1 DEF Regenerate
  <2> QED BY <1>2, <1>5, <1>13, <2>2 DEF Regenerate
<1>14. CASE PatchSettings
  <2>1. Rest
    BY <1>4, <1>14 DEF PatchSettings
  <2> QED BY <1>2, <1>5, <1>14, <2>1 DEF PatchSettings
<1>15. CASE ApplySettings
  <2>1. PICK p \in Preambles, by \in {"worker", "handler"} :
           mem' = ReplacePreamble(mem, p) /\ Start(<<>>, TRUE, by)
    BY <1>15 DEF ApplySettings
  <2>2. Rest
    BY <1>4, <2>1
  <2>3. mem' \in State /\ SameLength(mem') /\ mem'.last_seq >= mem.last_seq
    BY <1>6, <2>1
  <2> QED BY <1>1, <1>2, <1>15, <2>2, <2>3 DEF ApplySettings, OperationEffect, Rest
<1>16. CASE CompactContext
  <2>1. PICK p \in Preambles :
           LET st == ReplacePreamble(mem, p)
           IN  /\ mem' = st
               /\ Start(<<ContextCheckpoint([base |-> LastId(st),
                                             covers |-> Entries(st)])>>, TRUE, "worker")
    BY <1>16 DEF CompactContext
  <2> DEFINE st == ReplacePreamble(mem, p)
  <2>2. st \in State /\ SameLength(st) /\ st.last_seq >= mem.last_seq
    BY <1>6
  <2> HIDE DEF st
  <2>3. st.messages \in Seq(Message) /\ st.message_ids \in Seq(Nat)
        /\ Len(st.messages) = Len(st.message_ids)
    BY <2>2 DEF State, SameLength
  <2>4. LastId(st) \in Nat
    BY <2>3 DEF LastId
  <2>5. Entries(st) \in SUBSET (Nat \X Message)
    BY <2>3 DEF Entries
  <2>6. [base |-> LastId(st), covers |-> Entries(st)] \in Checkpoint
    BY <2>4, <2>5 DEF Checkpoint
  <2>7. ContextCheckpoint([base |-> LastId(st), covers |-> Entries(st)]) \in Event
    BY <2>6, EventConstructors
  <2>8. Rest
    BY <1>3, <2>1, <2>7 DEF st
  <2>9. mem' = st /\ unsaved' = TRUE /\ regen' = regen
    BY <1>16, <2>1 DEF CompactContext, st
  <2> QED BY <1>1, <1>2, <2>2, <2>8, <2>9 DEF OperationEffect, Rest
<1> QED BY <1>7, <1>8, <1>9, <1>10, <1>11, <1>12, <1>13, <1>14, <1>15, <1>16
        DEF Operation

-----------------------------------------------------------------------------
\* Appending to a log that ends with a newline.
LEMMA AppendLine ==
  ASSUME NEW lines \in Seq(Line), NEW ev \in Event, NEW seq \in Nat
  PROVE  LET more == AppendTo(lines, TRUE, EventLine(seq, ev))
         IN  /\ EventLine(seq, ev) \in Line
             /\ more = Append(lines, EventLine(seq, ev))
             /\ more \in Seq(Line) /\ Len(more) = Len(lines) + 1
             /\ more[Len(more)] = EventLine(seq, ev)
             /\ \A i \in 1..Len(more) : i = Len(more) \/ (i \in 1..Len(lines)
                                                          /\ more[i] = lines[i])
<1> DEFINE l == EventLine(seq, ev)
<1>1. l \in Line
  BY DEF EventLine, Line
<1>2. AppendTo(lines, TRUE, l) = Append(lines, l)
  BY DEF AppendTo
<1> HIDE DEF l
<1>3. /\ Append(lines, l) \in Seq(Line) /\ Len(Append(lines, l)) = Len(lines) + 1
      /\ Append(lines, l)[Len(lines) + 1] = l
      /\ \A i \in 1..Len(lines) : Append(lines, l)[i] = lines[i]
  BY <1>1, AppendProperties
<1>4. \A i \in 1..(Len(lines) + 1) : i = Len(lines) + 1 \/ i \in 1..Len(lines)
  OBVIOUS
<1> QED BY <1>1, <1>2, <1>3, <1>4 DEF l

\* The fields of an event line.
LEMMA EventLineFields ==
  ASSUME NEW seq, NEW ev
  PROVE  /\ EventLine(seq, ev).ok = TRUE
         /\ EventLine(seq, ev).seq = seq
         /\ EventLine(seq, ev).event = ev
  BY DEF EventLine

\* The session create starts from is a session.
LEMMA EmptyStateType ==
  EmptyState \in State /\ SameLength(EmptyState)
  /\ EmptyState.last_seq = 0 /\ EmptyState.last_snapshot_seq = 0
<1>1. <<>> \in Seq(Message) /\ <<>> \in Seq(Nat)
  OBVIOUS
<1> QED BY <1>1 DEF EmptyState, State, SameLength

\* What create leaves in memory and in the snapshot: a session that covers the
\* whole log.
LEMMA CreatedState ==
  ASSUME NEW lines \in Seq(Line),
         \A i \in 1..Len(lines) : lines[i].ok /\ lines[i].seq = i
  PROVE  LET st == [Replay(EmptyState, lines) EXCEPT !.last_snapshot_seq = Len(lines)]
         IN  /\ st \in State /\ SameLength(st)
             /\ st.last_snapshot_seq = Len(lines)
             /\ Len(lines) <= st.last_seq
             /\ \A i \in 1..Len(lines) : lines[i].seq <= Len(lines)
<1> DEFINE r == Replay(EmptyState, lines)
<1>1. /\ r \in State /\ SameLength(r)
      /\ \A j \in 1..Len(lines) : lines[j].ok => lines[j].seq <= r.last_seq
  BY EmptyStateType, ReplayType
<1> HIDE DEF r
<1>2. Len(lines) \in Nat /\ r.last_seq \in Nat
  BY <1>1 DEF State
<1>3. Len(lines) <= r.last_seq
  <2>1. CASE Len(lines) = 0
    BY <1>2, <2>1
  <2>2. CASE Len(lines) # 0
    BY <1>1, <1>2, <2>2
  <2> QED BY <2>1, <2>2
<1>4. \A i \in 1..Len(lines) : lines[i].seq <= Len(lines)
  BY <1>2
<1>5. LET st == [r EXCEPT !.last_snapshot_seq = Len(lines)]
      IN  /\ st \in State /\ SameLength(st)
          /\ st.last_snapshot_seq = Len(lines) /\ st.last_seq = r.last_seq
  BY <1>1, <1>2 DEF State, SameLength
<1> QED BY <1>3, <1>4, <1>5 DEF r

\* A snapshot of a session that covers the whole log is what load gives back.
LEMMA SnapshotRecovers ==
  ASSUME NEW st \in State, SameLength(st), NEW lines \in Seq(Line),
         \A i \in 1..Len(lines) : lines[i].seq <= st.last_snapshot_seq
  PROVE  Replay(ReplayBase(st), lines) = st /\ ReplayBase(st) = st
<1>1. ReplayBase(st) = st
  BY DEF ReplayBase, SameLength
<1> QED BY <1>1, ReplaySkips

-----------------------------------------------------------------------------
\* The lines create appends for its initial messages.
LEMMA MessageLinesType ==
  ASSUME NEW ms \in InitialMessages
  PROVE  /\ MessageLines(ms) \in Seq(Line)
         /\ Len(MessageLines(ms)) = Len(ms)
         /\ \A i \in 1..Len(ms) : MessageLines(ms)[i].ok /\ MessageLines(ms)[i].seq = i
<1>1. ms \in Seq(Message) /\ Len(ms) \in Nat
  BY MessagesAssumption
<1>2. \A i \in 1..Len(ms) : EventLine(i, MessageEvent(ms[i])) \in Line
  <2> TAKE i \in 1..Len(ms)
  <2>1. MessageEvent(ms[i]) \in Event /\ i \in Nat
    BY <1>1, EventConstructors
  <2> QED BY <2>1 DEF EventLine, Line
<1>3. \A i \in 1..Len(ms) : MessageLines(ms)[i] = EventLine(i, MessageEvent(ms[i]))
  BY DEF MessageLines
<1>4. MessageLines(ms) \in [1..Len(ms) -> Line]
  BY <1>2 DEF MessageLines
<1>5. MessageLines(ms) \in Seq(Line) /\ Len(MessageLines(ms)) = Len(ms)
  BY <1>1, <1>4
<1>6. ASSUME NEW i \in 1..Len(ms)
      PROVE  MessageLines(ms)[i].ok /\ MessageLines(ms)[i].seq = i
  <2>1. MessageLines(ms)[i] = EventLine(i, MessageEvent(ms[i]))
    BY <1>3
  <2>2. EventLine(i, MessageEvent(ms[i])).ok
    BY DEF EventLine
  <2>3. EventLine(i, MessageEvent(ms[i])).seq = i
    BY DEF EventLine
  <2> QED BY <2>1, <2>2, <2>3, Zenon
<1> QED BY <1>5, <1>6

\* The invariant holds when no session exists, and on a legacy session.
LEMMA InitIInv == Init => IInv
<1> SUFFICES ASSUME Init PROVE IInv
  OBVIOUS
<1>1. NoOp \in Op
  <2>1. <<>> \in Seq(Event)
    OBVIOUS
  <2> QED BY <2>1 DEF NoOp, Op
<1>2. CASE NoSession
  <2>1. log = <<>> /\ log \in Seq(Line) /\ Len(log) = 0
    BY <1>2 DEF NoSession
  <2>2. TypeOK
    BY <1>1, <1>2, <2>1 DEF TypeOK, NoSession, Pc
  <2>3. ~Creating
    BY <1>2 DEF NoSession, Creating
  <2> QED BY <1>2, <2>1, <2>2, <2>3
          DEF NoSession, IInv, LogReadable, MemoryCoversLog, MemoryCoversSnapshot,
              SnapshotBehindItself, CreationInOrder, FilesGiveMemory
<1>3. ASSUME NEW ms \in InitialMessages, LegacySession(ms) PROVE IInv
  <2> DEFINE st == [Replay(EmptyState, MessageLines(ms)) EXCEPT
                        !.last_snapshot_seq = Len(ms)]
  <2>1. /\ st \in State /\ st.last_snapshot_seq = Len(ms) /\ Len(ms) <= st.last_seq
    BY MessageLinesType, CreatedState
  <2> HIDE DEF st
  <2>2. PICK b \in Body :
          snap = [st EXCEPT !.messages = <<[role |-> "system", body |-> b]>> \o @]
    BY <1>3 DEF LegacySession, st
  <2> DEFINE ls == <<[role |-> "system", body |-> b]>> \o st.messages
  <2>3. ls \in Seq(Message)
    <3>1. [role |-> "system", body |-> b] \in Message
      BY DEF Message, Role
    <3>2. <<[role |-> "system", body |-> b]>> \in Seq(Message)
      BY <3>1
    <3>3. st.messages \in Seq(Message)
      BY <2>1 DEF State
    <3> QED BY <3>2, <3>3, ConcatProperties
  <2>4. snap = [st EXCEPT !.messages = ls]
    BY <2>2
  <2> HIDE DEF ls
  <2>5. snap \in State /\ snap.last_snapshot_seq = st.last_snapshot_seq
        /\ snap.last_seq = st.last_seq
    BY <2>1, <2>3, <2>4 DEF State
  <2>6. Len(ms) \in Nat
    BY MessagesAssumption
  <2>7. TypeOK
    BY <1>1, <1>3, <2>5, <2>6, MessageLinesType DEF TypeOK, LegacySession, Pc
  <2>8. LogReadable
    BY <1>3, MessageLinesType DEF LogReadable, LegacySession
  <2>9. SnapshotBehindItself
    BY <2>1, <2>5 DEF SnapshotBehindItself
  <2>10. ~Creating /\ mem = NULL
    BY <1>3 DEF LegacySession, Creating
  <2> QED BY <2>7, <2>8, <2>9, <2>10
          DEF IInv, MemoryCoversLog, MemoryCoversSnapshot, CreationInOrder, FilesGiveMemory
<1> QED BY <1>2, <1>3 DEF Init

-----------------------------------------------------------------------------
\* Steps that leave the files and memory alone, and do not start or end the
\* interval between an append and its application.
LEMMA QuietStep ==
  ASSUME IInv, TypeOK', UNCHANGED <<log, ended, snap, mem, unsaved>>,
         pc # "apply", pc' # "apply", Creating' => Creating
  PROVE  IInv'
<1>1. LogReadable'
  BY DEF IInv, LogReadable
<1>2. MemoryCoversLog'
  BY DEF IInv, MemoryCoversLog, LastSeqUsed
<1>3. MemoryCoversSnapshot' /\ SnapshotBehindItself'
  BY DEF IInv, MemoryCoversSnapshot, SnapshotBehindItself, SameLength
<1>4. CreationInOrder'
  BY DEF IInv, CreationInOrder
<1>5. FilesGiveMemory'
  BY DEF IInv, FilesGiveMemory, Recovered, Durable
<1> QED BY <1>1, <1>2, <1>3, <1>4, <1>5 DEF IInv

\* A state without a live session: only the files matter.
LEMMA DownStep ==
  ASSUME TypeOK', LogReadable', SnapshotBehindItself', mem' = NULL, pc' = "idle"
  PROVE  IInv'
<1>1. MemoryCoversLog' /\ MemoryCoversSnapshot' /\ FilesGiveMemory'
  BY DEF MemoryCoversLog, MemoryCoversSnapshot, FilesGiveMemory
<1>2. CreationInOrder'
  BY DEF CreationInOrder, Creating
<1> QED BY <1>1, <1>2 DEF IInv

LEMMA NoOpType == NoOp \in Op
<1>1. <<>> \in Seq(Event)
  OBVIOUS
<1> QED BY <1>1 DEF NoOp, Op

\* The first event of the operation in progress.
LEMMA OpFields ==
  ASSUME TypeOK
  PROVE  /\ op.todo \in Seq(Event) /\ op.save \in BOOLEAN
         /\ op.by \in {"worker", "handler", "resume"}
         /\ op.todo # <<>> => /\ Head(op.todo) \in Event
                              /\ [op EXCEPT !.todo = Tail(@)] \in Op
                              /\ [op EXCEPT !.save = FALSE] \in Op
<1>1. op \in Op
  BY DEF TypeOK
<1>2. op.todo \in Seq(Event)
  BY <1>1 DEF Op
<1>3. op.save \in BOOLEAN
  BY <1>1 DEF Op
<1>4. op.by \in {"worker", "handler", "resume"}
  BY <1>1 DEF Op
<1>5. ASSUME op.todo # <<>> PROVE Head(op.todo) \in Event /\ Tail(op.todo) \in Seq(Event)
  BY <1>2, <1>5, HeadTailProperties
<1>6. ASSUME NEW t \in Seq(Event) PROVE [op EXCEPT !.todo = t] \in Op
  BY <1>1 DEF Op
<1>7. [op EXCEPT !.save = FALSE] \in Op
  BY <1>1 DEF Op
<1> QED BY <1>2, <1>3, <1>4, <1>5, <1>6, <1>7

LEMMA AdvanceType ==
  ASSUME TypeOK, Advance
  PROVE  /\ op' \in Op /\ pc' \in {"append", "snapshot", "idle"}
         /\ pc' = "append" => op'.todo # <<>>
<1>1. op \in Op /\ [op EXCEPT !.save = FALSE] \in Op
  <2>1. op \in Op
    BY DEF TypeOK
  <2>2. [op EXCEPT !.save = FALSE] \in Op
    BY <2>1 DEF Op
  <2> QED BY <2>1, <2>2
<1>2. CASE op.todo # <<>> /\ pc' = "append" /\ op' = op
  BY <1>1, <1>2
<1>3. CASE pc' = "snapshot" /\ op' = [op EXCEPT !.save = FALSE]
  BY <1>1, <1>3
<1>4. CASE pc' = "idle" /\ op' = NoOp
  BY <1>4, NoOpType
<1> QED BY <1>2, <1>3, <1>4 DEF Advance

-----------------------------------------------------------------------------
\* create: the initial messages, meta.json, snapshot.json.
LEMMA CreateSteps ==
  ASSUME IInv, Create \/ CreateAppend \/ CreateMeta \/ CreateSnapshot
  PROVE  IInv'
<1>1. TypeOK /\ ended = TRUE /\ log \in Seq(Line) /\ Len(log) \in Nat
      /\ op.todo \in Seq(Event)
  BY OpFields DEF IInv, TypeOK, LogReadable
<1>2. CASE Create
  <2>1. PICK ms \in InitialMessages :
           op' = [NoOp EXCEPT !.todo = [i \in 1..Len(ms) |-> MessageEvent(ms[i])],
                              !.by = "handler"]
    BY <1>2 DEF Create
  <2> DEFINE td == [i \in 1..Len(ms) |-> MessageEvent(ms[i])]
  <2>2. td \in Seq(Event)
    <3>1. ms \in Seq(Message) /\ Len(ms) \in Nat
      BY MessagesAssumption
    <3>2. \A i \in 1..Len(ms) : MessageEvent(ms[i]) \in Event
      BY <3>1, EventConstructors
    <3> QED BY <3>1, <3>2
  <2> HIDE DEF td
  <2>3. op' \in Op
    BY <2>1, <2>2 DEF td, NoOp, Op
  <2>4. UNCHANGED <<log, ended, snap, meta, mem, regen, unsaved>> /\ pc' = "create"
        /\ mem = NULL /\ snap = NULL /\ log = <<>>
    BY <1>2 DEF Create, disk
  <2>5. TypeOK'
    BY <1>1, <2>3, <2>4 DEF TypeOK, Pc
  <2>6. CreationInOrder'
    BY <2>4 DEF CreationInOrder
  <2>7. LogReadable' /\ MemoryCoversLog' /\ MemoryCoversSnapshot'
        /\ SnapshotBehindItself' /\ FilesGiveMemory'
    BY <2>4 DEF IInv, LogReadable, MemoryCoversLog, MemoryCoversSnapshot,
                SnapshotBehindItself, FilesGiveMemory
  <2> QED BY <2>5, <2>6, <2>7 DEF IInv
<1>3. CASE CreateAppend
  <2>1. /\ pc = "create" /\ op.todo # <<>> /\ pc' = pc /\ ended' = TRUE
        /\ UNCHANGED <<snap, meta, mem, regen, unsaved>>
        /\ log' = AppendTo(log, ended, EventLine(Len(log) + 1, Head(op.todo)))
        /\ op' = [op EXCEPT !.todo = Tail(@)]
    BY <1>3 DEF CreateAppend
  <2>2. mem = NULL /\ snap = NULL /\ \A i \in 1..Len(log) : log[i].seq = i
    BY <2>1 DEF IInv, CreationInOrder, Creating
  <2>3. Head(op.todo) \in Event /\ op' \in Op
    BY <1>1, <2>1, OpFields
  <2>4. /\ log' \in Seq(Line) /\ Len(log') = Len(log) + 1
        /\ log'[Len(log')] = EventLine(Len(log) + 1, Head(op.todo))
        /\ \A i \in 1..Len(log') : i = Len(log') \/ (i \in 1..Len(log)
                                                     /\ log'[i] = log[i])
    <3> DEFINE q == Len(log) + 1
    <3>1. q \in Nat
      BY <1>1
    <3> HIDE DEF q
    <3>2. log' = AppendTo(log, TRUE, EventLine(q, Head(op.todo)))
      BY <1>1, <2>1, Zenon DEF q
    <3>3. /\ log' \in Seq(Line) /\ Len(log') = Len(log) + 1
          /\ log'[Len(log')] = EventLine(q, Head(op.todo))
          /\ \A i \in 1..Len(log') : i = Len(log') \/ (i \in 1..Len(log)
                                                       /\ log'[i] = log[i])
      BY <1>1, <2>3, <3>1, <3>2, AppendLine
    <3> QED BY <3>3 DEF q
  <2>5. TypeOK'
    BY <1>1, <2>1, <2>2, <2>3, <2>4 DEF TypeOK, Pc
  <2>6. LogReadable'
    <3>1. EventLine(Len(log) + 1, Head(op.todo)).ok
      BY DEF EventLine
    <3>2. \A i \in 1..Len(log) : log[i].ok
      BY DEF IInv, LogReadable
    <3>3. \A i \in 1..Len(log') : log'[i].ok
      BY <2>4, <3>1, <3>2, Zenon
    <3> QED BY <2>1, <3>3 DEF LogReadable
  <2>7. \A i \in 1..Len(log') : log'[i].seq = i
    <3>1. log'[Len(log')].seq = Len(log')
      BY <2>4 DEF EventLine
    <3> QED BY <2>2, <2>4, <3>1
  <2>8. MemoryCoversLog' /\ MemoryCoversSnapshot' /\ SnapshotBehindItself'
        /\ FilesGiveMemory' /\ CreationInOrder'
    BY <2>1, <2>2, <2>7 DEF MemoryCoversLog, MemoryCoversSnapshot,
                            SnapshotBehindItself, FilesGiveMemory, CreationInOrder
  <2> QED BY <2>5, <2>6, <2>8 DEF IInv
<1>4. CASE CreateMeta
  <2>1. /\ pc = "create" /\ pc' = "create_snapshot" /\ meta' = Len(log)
        /\ UNCHANGED <<log, ended, snap, mem, op, regen, unsaved>>
    BY <1>4 DEF CreateMeta
  <2>2. TypeOK'
    BY <1>1, <2>1 DEF TypeOK, Pc
  <2> QED BY <2>1, <2>2, QuietStep DEF Creating
<1>5. CASE CreateSnapshot
  <2> DEFINE st == [Replay(EmptyState, log) EXCEPT !.last_snapshot_seq = Len(log)]
  <2>1. /\ pc = "create_snapshot" /\ pc' = "idle" /\ op' = NoOp
        /\ UNCHANGED <<log, ended, meta, regen, unsaved>>
        /\ snap' = st /\ mem' = st
    BY <1>5 DEF CreateSnapshot
  <2>2. \A i \in 1..Len(log) : log[i].ok /\ log[i].seq = i
    <3>1. \A i \in 1..Len(log) : log[i].ok
      BY DEF IInv, LogReadable
    <3>2. \A i \in 1..Len(log) : log[i].seq = i
      BY <2>1 DEF IInv, CreationInOrder, Creating
    <3> QED BY <3>1, <3>2, Zenon
  <2>3. /\ st \in State /\ SameLength(st) /\ st.last_snapshot_seq = Len(log)
        /\ Len(log) <= st.last_seq
        /\ \A i \in 1..Len(log) : log[i].seq <= Len(log)
    BY <1>1, <2>2, CreatedState
  <2> HIDE DEF st
  <2>4. st.last_seq \in Nat /\ st # NULL
    BY <2>3, NullAssumption DEF State
  <2>5. Replay(ReplayBase(st), log) = st /\ ReplayBase(st) = st
    BY <1>1, <2>3, SnapshotRecovers
  <2>6. TypeOK'
    BY <1>1, <2>1, <2>3, NoOpType DEF TypeOK, Pc
  <2>7. MemoryCoversLog'
    <3>1. ASSUME NEW i \in 1..Len(log) PROVE log[i].seq <= st.last_seq
      <4>1. log[i].seq = i
        BY <2>2
      <4> QED BY <1>1, <2>3, <2>4, <4>1
    <3> QED BY <2>1, <3>1 DEF MemoryCoversLog, LastSeqUsed
  <2>8. MemoryCoversSnapshot' /\ SnapshotBehindItself'
    BY <2>1, <2>3, <2>4, <2>5 DEF MemoryCoversSnapshot, SnapshotBehindItself, SameLength
  <2>9. FilesGiveMemory'
    BY <2>1, <2>5 DEF FilesGiveMemory, Recovered, Durable
  <2>10. LogReadable' /\ CreationInOrder'
    BY <2>1 DEF IInv, LogReadable, CreationInOrder, Creating
  <2> QED BY <2>6, <2>7, <2>8, <2>9, <2>10 DEF IInv
<1> QED BY <1>2, <1>3, <1>4, <1>5

\* What the invariant says while an operation runs on a live session.
LEMMA LiveFacts ==
  ASSUME IInv, mem # NULL
  PROVE  /\ mem \in State /\ SameLength(mem) /\ mem.last_seq \in Nat
         /\ snap # NULL /\ snap \in State /\ ReplayBase(snap) \in State
         /\ ReplayBase(snap).last_snapshot_seq \in Nat
         /\ ReplayBase(snap).last_snapshot_seq <= mem.last_seq
         /\ Recovered \in State
         /\ log \in Seq(Line) /\ \A i \in 1..Len(log) : log[i].seq \in Nat
         /\ ~Creating
<1>1. mem \in State /\ SameLength(mem) /\ snap # NULL /\ snap \in State
      /\ log \in Seq(Line)
      /\ ReplayBase(snap).last_snapshot_seq <= mem.last_seq
      /\ snap.last_snapshot_seq <= snap.last_seq
  BY DEF IInv, TypeOK, MemoryCoversSnapshot, SnapshotBehindItself
<1>2. /\ ReplayBase(snap) \in State /\ SameLength(ReplayBase(snap))
      /\ ReplayBase(snap).last_snapshot_seq <= ReplayBase(snap).last_seq
  BY <1>1, ReplayBaseType
<1>3. Recovered \in State
  BY <1>1, <1>2, ReplayType DEF Recovered
<1>4. \A i \in 1..Len(log) : log[i].seq \in Nat
  <2>1. \A x \in Line : x.seq \in Nat
    BY DEF Line
  <2>2. \A i \in 1..Len(log) : log[i] \in Line
    BY <1>1
  <2> QED BY <2>1, <2>2
<1>5. mem.last_seq \in Nat
  BY <1>1 DEF State
<1>6. ReplayBase(snap).last_snapshot_seq \in Nat
  BY <1>2 DEF State
<1>7. ~Creating
  BY DEF IInv, CreationInOrder
<1> QED BY <1>1, <1>2, <1>3, <1>4, <1>5, <1>6, <1>7

\* record_event: the line, memory, meta.json.
LEMMA AppendStep ==
  ASSUME IInv, AppendEventLine
  PROVE  IInv'
<1> DEFINE ev == Head(op.todo)
           q == mem.last_seq + 1
<1>1. /\ pc = "append" /\ pc' = "apply" /\ ended' = TRUE /\ ended = TRUE
      /\ UNCHANGED <<snap, meta, mem, op, regen, unsaved>>
      /\ TypeOK /\ mem # NULL /\ op.todo # <<>>
  BY DEF AppendEventLine, IInv, TypeOK, LogReadable
<1>2. ev \in Event
  BY <1>1, OpFields
<1>3. /\ mem \in State /\ SameLength(mem) /\ mem.last_seq \in Nat
      /\ snap # NULL /\ ReplayBase(snap).last_snapshot_seq \in Nat
      /\ ReplayBase(snap).last_snapshot_seq <= mem.last_seq
      /\ Recovered \in State
      /\ log \in Seq(Line) /\ (\A i \in 1..Len(log) : log[i].seq \in Nat)
  BY <1>1, LiveFacts
<1>4. q \in Nat /\ q > mem.last_seq
  BY <1>3
<1>5. log' = AppendTo(log, TRUE, EventLine(q, ev))
  BY <1>1, Zenon DEF AppendEventLine, NewLine
<1> HIDE DEF q, ev
<1>6. /\ EventLine(q, ev) \in Line /\ log' = Append(log, EventLine(q, ev))
      /\ log' \in Seq(Line) /\ Len(log') = Len(log) + 1
      /\ log'[Len(log')] = EventLine(q, ev)
      /\ \A i \in 1..Len(log') : i = Len(log') \/ (i \in 1..Len(log)
                                                   /\ log'[i] = log[i])
  BY <1>2, <1>3, <1>4, <1>5, AppendLine
<1>7. TypeOK'
  BY <1>1, <1>6 DEF TypeOK, Pc
<1>8. LogReadable'
  <2>1. EventLine(q, ev).ok
    BY DEF EventLine
  <2>2. \A i \in 1..Len(log) : log[i].ok
    BY DEF IInv, LogReadable
  <2>3. \A i \in 1..Len(log') : log'[i].ok
    BY <1>6, <2>1, <2>2, Zenon
  <2> QED BY <1>1, <2>3 DEF LogReadable
<1>9. MemoryCoversLog'
  <2>1. \A i \in 1..Len(log) : log[i].seq <= mem.last_seq
    BY <1>1 DEF IInv, MemoryCoversLog, LastSeqUsed
  <2>2. log'[Len(log')].seq = q
    BY <1>6 DEF EventLine
  <2>3. ASSUME NEW i \in 1..Len(log') PROVE log'[i].seq <= mem.last_seq + 1
    <3>1. CASE i = Len(log')
      BY <1>3, <2>2, <3>1 DEF q
    <3>2. CASE i \in 1..Len(log) /\ log'[i] = log[i]
      <4>1. log[i].seq <= mem.last_seq /\ log[i].seq \in Nat
        BY <1>3, <2>1, <3>2
      <4> QED BY <1>3, <3>2, <4>1
    <3> QED BY <1>6, <3>1, <3>2
  <2> QED BY <1>1, <2>3 DEF MemoryCoversLog, LastSeqUsed
<1>10. MemoryCoversSnapshot' /\ SnapshotBehindItself'
  BY <1>1 DEF IInv, MemoryCoversSnapshot, SnapshotBehindItself, SameLength
<1>11. CreationInOrder'
  BY <1>1 DEF CreationInOrder, Creating
<1>12. FilesGiveMemory'
  <2> SUFFICES ASSUME ~unsaved PROVE Core(Recovered') = Core(Durable')
    BY <1>1 DEF FilesGiveMemory
  <2>1. Core(Recovered) = Core(mem)
    BY <1>1 DEF IInv, FilesGiveMemory, Durable
  <2>2. Recovered' = ReplayLine(Recovered, EventLine(q, ev),
                                ReplayBase(snap).last_snapshot_seq)
    BY <1>1, <1>3, <1>6, ReplayAppend DEF Recovered
  <2>3. ~(EventLine(q, ev).seq <= ReplayBase(snap).last_snapshot_seq)
    BY <1>3, <1>4 DEF EventLine
  <2>4. Recovered' = ApplyEvent(Recovered, ev, q)
    BY <2>2, <2>3 DEF ReplayLine, EventLine
  <2>5. Durable' = ApplyEvent(mem, ev, q)
    BY <1>1 DEF Durable, ev, q
  <2>6. Core(ApplyEvent(Recovered, ev, q)) = ApplyEvent(Core(Recovered), ev, q)
    BY <1>2, <1>3, <1>4, CoreApplyEvent
  <2>7. Core(ApplyEvent(mem, ev, q)) = ApplyEvent(Core(mem), ev, q)
    BY <1>2, <1>3, <1>4, CoreApplyEvent
  <2> QED BY <2>1, <2>4, <2>5, <2>6, <2>7
<1> QED BY <1>7, <1>8, <1>9, <1>10, <1>11, <1>12 DEF IInv

LEMMA ApplyStep ==
  ASSUME IInv, Apply
  PROVE  IInv'
<1> DEFINE ev == Head(op.todo)
           q == mem.last_seq + 1
<1>1. /\ pc = "apply" /\ pc' = "meta" /\ mem' = ApplyEvent(mem, ev, q)
      /\ UNCHANGED <<log, ended, snap, meta, regen, unsaved>>
      /\ op' = [op EXCEPT !.todo = Tail(@)]
      /\ TypeOK /\ mem # NULL /\ op.todo # <<>>
  BY DEF Apply, IInv, TypeOK, disk
<1>2. ev \in Event /\ op' \in Op
  BY <1>1, OpFields
<1>3. /\ mem \in State /\ SameLength(mem) /\ mem.last_seq \in Nat
      /\ snap # NULL /\ ReplayBase(snap).last_snapshot_seq \in Nat
      /\ ReplayBase(snap).last_snapshot_seq <= mem.last_seq
  BY <1>1, LiveFacts
<1>4. q \in Nat /\ q > mem.last_seq
  BY <1>3
<1> HIDE DEF ev, q
<1>5. mem' \in State /\ SameLength(mem') /\ mem'.last_seq = q
  BY <1>1, <1>2, <1>3, <1>4, ApplyEventType
<1>6. mem' # NULL
  BY <1>5, NullAssumption
<1>7. TypeOK'
  BY <1>1, <1>2, <1>5, <1>6 DEF TypeOK, Pc
<1>8. MemoryCoversLog'
  BY <1>1, <1>5 DEF IInv, MemoryCoversLog, LastSeqUsed, q
<1>9. MemoryCoversSnapshot' /\ SnapshotBehindItself'
  <2>1. ReplayBase(snap).last_snapshot_seq <= mem'.last_seq
    BY <1>3, <1>4, <1>5
  <2>2. SameLength(mem)'
    BY <1>5 DEF SameLength
  <2> QED BY <1>1, <1>3, <2>1, <2>2 DEF IInv, MemoryCoversSnapshot, SnapshotBehindItself
<1>10. LogReadable' /\ CreationInOrder'
  BY <1>1 DEF IInv, LogReadable, CreationInOrder, Creating
<1>11. FilesGiveMemory'
  <2>1. Durable' = Durable /\ Recovered' = Recovered
    BY <1>1 DEF Durable, Recovered, ev, q
  <2> QED BY <1>1, <2>1 DEF IInv, FilesGiveMemory
<1> QED BY <1>7, <1>8, <1>9, <1>10, <1>11 DEF IInv

LEMMA MetaSteps ==
  ASSUME IInv, WriteMeta \/ WriteSnapshotMeta
  PROVE  IInv'
<1>1. /\ pc \in {"meta", "snapshot_meta"} /\ meta' = mem.last_seq
      /\ UNCHANGED <<log, ended, snap, mem, regen, unsaved>>
      /\ Advance \/ (pc' = "snapshot" /\ op' = op)
  BY DEF WriteMeta, WriteSnapshotMeta
<1>2. TypeOK /\ mem # NULL
  BY <1>1 DEF IInv, TypeOK
<1>3. mem.last_seq \in Nat
  BY <1>2, LiveFacts
<1>4. /\ op' \in Op /\ pc' \in {"append", "snapshot", "idle"}
      /\ pc' = "append" => op'.todo # <<>>
  BY <1>1, <1>2, AdvanceType DEF TypeOK
<1>5. TypeOK'
  BY <1>1, <1>2, <1>3, <1>4 DEF TypeOK, Pc
<1> QED BY <1>1, <1>4, <1>5, QuietStep DEF Creating

\* checkpoint: after it the snapshot alone gives memory back.
LEMMA SnapshotStep ==
  ASSUME IInv, WriteSnapshot
  PROVE  IInv'
<1> DEFINE st == [mem EXCEPT !.last_snapshot_seq = mem.last_seq]
<1>1. /\ pc = "snapshot" /\ pc' = "snapshot_meta" /\ mem' = st /\ snap' = st
      /\ UNCHANGED <<log, ended, meta, op, regen>> /\ unsaved' = FALSE
      /\ TypeOK /\ mem # NULL
  BY DEF WriteSnapshot, IInv, TypeOK
<1>2. mem \in State /\ SameLength(mem) /\ mem.last_seq \in Nat /\ log \in Seq(Line)
  BY <1>1, LiveFacts
<1>3. /\ st \in State /\ SameLength(st)
      /\ st.last_seq = mem.last_seq /\ st.last_snapshot_seq = mem.last_seq
  BY <1>2 DEF State, SameLength
<1> HIDE DEF st
<1>4. \A i \in 1..Len(log) : log[i].seq <= mem.last_seq
  BY <1>1 DEF IInv, MemoryCoversLog, LastSeqUsed
<1>5. Replay(ReplayBase(st), log) = st /\ ReplayBase(st) = st
  BY <1>2, <1>3, <1>4, SnapshotRecovers
<1>6. st # NULL
  BY <1>3, NullAssumption
<1>7. TypeOK'
  BY <1>1, <1>3, <1>6 DEF TypeOK, Pc
<1>8. MemoryCoversLog'
  BY <1>1, <1>3, <1>4 DEF MemoryCoversLog, LastSeqUsed
<1>9. MemoryCoversSnapshot' /\ SnapshotBehindItself'
  <2>1. SameLength(mem)'
    BY <1>1, <1>3 DEF SameLength
  <2>2. st.last_snapshot_seq <= st.last_seq
    BY <1>2, <1>3
  <2> QED BY <1>1, <1>5, <1>6, <2>1, <2>2 DEF MemoryCoversSnapshot, SnapshotBehindItself
<1>10. LogReadable' /\ CreationInOrder'
  BY <1>1 DEF IInv, LogReadable, CreationInOrder, Creating
<1>11. FilesGiveMemory'
  BY <1>1, <1>5 DEF FilesGiveMemory, Recovered, Durable
<1> QED BY <1>7, <1>8, <1>9, <1>10, <1>11 DEF IInv

\* load
LEMMA LoadStep ==
  ASSUME IInv, Load
  PROVE  IInv'
<1>1. /\ pc' = "snapshot" /\ op' = [NoOp EXCEPT !.by = "resume"]
      /\ mem' = Recovered /\ snap # NULL
      /\ UNCHANGED <<log, ended, snap, meta, regen, unsaved>>
      /\ TypeOK /\ log \in Seq(Line) /\ snap \in State
      /\ snap.last_snapshot_seq <= snap.last_seq
  BY DEF Load, IInv, TypeOK, disk, SnapshotBehindItself
<1> DEFINE b == ReplayBase(snap)
<1>2. /\ b \in State /\ SameLength(b) /\ b.last_snapshot_seq <= b.last_seq
  BY <1>1, ReplayBaseType
<1> HIDE DEF b
<1>3. /\ Recovered \in State /\ SameLength(Recovered)
      /\ Recovered.last_seq >= b.last_seq
      /\ \A j \in 1..Len(log) : log[j].ok => log[j].seq <= Recovered.last_seq
  BY <1>1, <1>2, ReplayType DEF Recovered, b
<1>4. Recovered # NULL /\ Recovered.last_seq \in Nat
      /\ b.last_seq \in Nat /\ b.last_snapshot_seq \in Nat
  BY <1>2, <1>3, NullAssumption DEF State
<1>5. op' \in Op
  <2>1. [NoOp EXCEPT !.by = "resume"] \in Op
    BY NoOpType DEF Op
  <2> QED BY <1>1, <2>1
<1>6. TypeOK'
  BY <1>1, <1>3, <1>4, <1>5 DEF TypeOK, Pc
<1>7. MemoryCoversLog'
  <2>1. \A j \in 1..Len(log) : log[j].ok
    BY DEF IInv, LogReadable
  <2>2. \A j \in 1..Len(log) : log[j].seq <= Recovered.last_seq
    BY <1>3, <2>1
  <2> QED BY <1>1, <2>2 DEF MemoryCoversLog, LastSeqUsed
<1>8. MemoryCoversSnapshot' /\ SnapshotBehindItself'
  <2>1. SameLength(mem)'
    BY <1>1, <1>3 DEF SameLength
  <2>2. b.last_snapshot_seq <= mem'.last_seq
    BY <1>1, <1>2, <1>3, <1>4
  <2> QED BY <1>1, <2>1, <2>2 DEF IInv, MemoryCoversSnapshot, SnapshotBehindItself, b
<1>9. LogReadable' /\ CreationInOrder'
  BY <1>1 DEF IInv, LogReadable, CreationInOrder, Creating
<1>10. FilesGiveMemory'
  <2>1. Recovered' = Recovered /\ Durable' = Recovered
    BY <1>1 DEF Recovered, Durable
  <2> QED BY <2>1 DEF FilesGiveMemory
<1> QED BY <1>6, <1>7, <1>8, <1>9, <1>10 DEF IInv

\* The process dies, or the session is deleted.
LEMMA EndSteps ==
  ASSUME IInv, Crash \/ Delete
  PROVE  IInv'
<1>1. TypeOK /\ LogReadable /\ SnapshotBehindItself
  BY DEF IInv
<1>2. CASE Crash
  <2>1. TypeOK'
    BY <1>1, <1>2, NoOpType DEF Crash, TypeOK, disk, Pc
  <2>2. LogReadable' /\ SnapshotBehindItself'
    BY <1>1, <1>2 DEF Crash, disk, LogReadable, SnapshotBehindItself
  <2> QED BY <1>2, <2>1, <2>2, DownStep DEF Crash
<1>3. CASE Delete
  <2>1. <<>> \in Seq(Line) /\ Len(<<>>) = 0
    OBVIOUS
  <2>2. TypeOK'
    BY <1>1, <1>3, <2>1 DEF Delete, TypeOK, Pc
  <2>3. LogReadable' /\ SnapshotBehindItself'
    BY <1>3, <2>1 DEF Delete, LogReadable, SnapshotBehindItself
  <2> QED BY <1>3, <2>2, <2>3, DownStep DEF Delete
<1> QED BY <1>2, <1>3

\* A failed write: the files are as before, memory may have counted a snapshot
\* that was not written.
LEMMA WriteFailsStep ==
  ASSUME IInv, WriteFails
  PROVE  IInv'
<1>1. /\ pc \in {"append", "meta", "snapshot", "snapshot_meta"} /\ pc' = "idle"
      /\ op' = NoOp /\ UNCHANGED <<log, ended, snap, meta, regen>>
      /\ unsaved' = (unsaved /\ op.by # "resume")
      /\ TypeOK /\ mem # NULL
  BY DEF WriteFails, IInv, TypeOK, disk
<1>2. unsaved' \in BOOLEAN
  BY <1>1
<1>3. CASE op.by = "resume"
  <2>1. mem' = NULL
    BY <1>3 DEF WriteFails
  <2>2. TypeOK'
    BY <1>1, <1>2, <2>1, NoOpType DEF TypeOK, Pc
  <2>3. LogReadable' /\ SnapshotBehindItself'
    BY <1>1 DEF IInv, LogReadable, SnapshotBehindItself
  <2> QED BY <1>1, <2>1, <2>2, <2>3, DownStep
<1>4. CASE op.by # "resume" /\ pc # "snapshot"
  <2>1. mem' = mem
    BY <1>4 DEF WriteFails
  <2>2. unsaved' = unsaved
    BY <1>1, <1>4 DEF TypeOK
  <2>3. TypeOK'
    BY <1>1, <2>1, <2>2, NoOpType DEF TypeOK, Pc
  <2> QED BY <1>1, <2>1, <2>2, <2>3, QuietStep DEF Creating
<1>5. CASE op.by # "resume" /\ pc = "snapshot"
  <2> DEFINE st == [mem EXCEPT !.last_snapshot_seq = mem.last_seq]
  <2>1. mem' = st
    BY <1>5 DEF WriteFails
  <2>2. mem \in State /\ SameLength(mem) /\ mem.last_seq \in Nat /\ snap # NULL
        /\ ReplayBase(snap).last_snapshot_seq <= mem.last_seq
    BY <1>1, LiveFacts
  <2>3. st \in State /\ SameLength(st) /\ st.last_seq = mem.last_seq
        /\ Core(st) = Core(mem)
    BY <2>2 DEF State, SameLength, Core
  <2> HIDE DEF st
  <2>4. st # NULL
    BY <2>3, NullAssumption
  <2>5. unsaved' = unsaved
    BY <1>1, <1>5 DEF TypeOK
  <2>6. TypeOK'
    BY <1>1, <2>1, <2>3, <2>5, NoOpType DEF TypeOK, Pc
  <2>7. MemoryCoversLog'
    BY <1>1, <1>5, <2>1, <2>3 DEF IInv, MemoryCoversLog, LastSeqUsed
  <2>8. MemoryCoversSnapshot' /\ SnapshotBehindItself'
    <3>1. SameLength(mem)'
      BY <2>1, <2>3 DEF SameLength
    <3> QED BY <1>1, <2>1, <2>2, <2>3, <3>1
            DEF IInv, MemoryCoversSnapshot, SnapshotBehindItself
  <2>9. LogReadable' /\ CreationInOrder'
    BY <1>1 DEF IInv, LogReadable, CreationInOrder, Creating
  <2>10. FilesGiveMemory'
    <3>1. Durable = mem /\ Durable' = st /\ Recovered' = Recovered
      BY <1>1, <1>5, <2>1 DEF Durable, Recovered
    <3> QED BY <1>1, <2>3, <2>5, <3>1 DEF IInv, FilesGiveMemory
  <2> QED BY <2>6, <2>7, <2>8, <2>9, <2>10 DEF IInv
<1> QED BY <1>3, <1>4, <1>5

\* Starting an operation.
LEMMA OperationSteps ==
  ASSUME IInv, Operation \/ Regenerate
  PROVE  IInv'
<1>1. OperationEffect
  BY OperationStep DEF IInv
<1>2. TypeOK'
  BY <1>1, NullAssumption DEF OperationEffect, disk, IInv, TypeOK, Pc
<1>3. /\ mem # NULL /\ mem' \in State /\ SameLength(mem') /\ mem'.last_seq >= mem.last_seq
      /\ pc = "idle" /\ pc' # "apply" /\ ~Creating'
      /\ UNCHANGED <<log, ended, snap>>
  BY <1>1 DEF OperationEffect, disk, Creating
<1>4. /\ mem.last_seq \in Nat /\ snap # NULL
      /\ ReplayBase(snap).last_snapshot_seq \in Nat
      /\ ReplayBase(snap).last_snapshot_seq <= mem.last_seq
      /\ \A i \in 1..Len(log) : log[i].seq \in Nat
  BY <1>3, LiveFacts
<1>5. mem'.last_seq \in Nat
  BY <1>3 DEF State
<1>6. MemoryCoversLog'
  <2>1. \A i \in 1..Len(log) : log[i].seq <= mem.last_seq
    BY <1>3 DEF IInv, MemoryCoversLog, LastSeqUsed
  <2>2. \A i \in 1..Len(log) : log[i].seq <= mem'.last_seq
    BY <1>3, <1>4, <1>5, <2>1
  <2> QED BY <1>3, <2>2 DEF MemoryCoversLog, LastSeqUsed
<1>7. MemoryCoversSnapshot' /\ SnapshotBehindItself'
  <2>1. SameLength(mem)'
    BY <1>3 DEF SameLength
  <2>2. ReplayBase(snap).last_snapshot_seq <= mem'.last_seq
    BY <1>3, <1>4, <1>5
  <2> QED BY <1>3, <1>4, <2>1, <2>2 DEF IInv, MemoryCoversSnapshot, SnapshotBehindItself
<1>8. LogReadable' /\ CreationInOrder'
  BY <1>3 DEF IInv, LogReadable, CreationInOrder
<1>9. FilesGiveMemory'
  <2>1. CASE unsaved' = TRUE
    BY <2>1 DEF FilesGiveMemory
  <2>2. CASE mem' = mem /\ unsaved' = unsaved
    <3>1. Durable' = mem /\ Durable = mem /\ Recovered' = Recovered
      BY <1>3, <2>2 DEF Durable, Recovered
    <3> QED BY <2>2, <3>1 DEF IInv, FilesGiveMemory
  <2> QED BY <1>1, <2>1, <2>2 DEF OperationEffect
<1> QED BY <1>2, <1>6, <1>7, <1>8, <1>9 DEF IInv

LEMMA StutterStep ==
  ASSUME IInv, UNCHANGED vars
  PROVE  IInv'
<1> USE DEF vars
<1>1. TypeOK' /\ LogReadable'
  BY DEF IInv, TypeOK, LogReadable
<1>2. MemoryCoversLog' /\ MemoryCoversSnapshot' /\ SnapshotBehindItself'
  BY DEF IInv, MemoryCoversLog, LastSeqUsed, MemoryCoversSnapshot,
         SnapshotBehindItself, SameLength
<1>3. CreationInOrder'
  BY DEF IInv, CreationInOrder, Creating
<1>4. FilesGiveMemory'
  BY DEF IInv, FilesGiveMemory, Recovered, Durable
<1> QED BY <1>1, <1>2, <1>3, <1>4 DEF IInv

-----------------------------------------------------------------------------
\* Every step, when appends are not torn and handlers run to completion.
LEMMA NextIInv ==
  ASSUME NoTornNoDrop, IInv, [Next]_vars
  PROVE  IInv'
<1>1. CASE Create \/ CreateAppend \/ CreateMeta \/ CreateSnapshot
  BY <1>1, CreateSteps
<1>2. CASE Crash \/ Delete
  BY <1>2, EndSteps
<1>3. CASE Operation \/ Regenerate
  BY <1>3, OperationSteps
<1>4. CASE AppendEventLine
  BY <1>4, AppendStep
<1>5. CASE Apply
  BY <1>5, ApplyStep
<1>6. CASE WriteMeta \/ WriteSnapshotMeta
  BY <1>6, MetaSteps
<1>7. CASE WriteSnapshot
  BY <1>7, SnapshotStep
<1>8. CASE Load
  BY <1>8, LoadStep
<1>9. CASE WriteFails
  BY <1>9, WriteFailsStep
<1>10. CASE TornCrash \/ DropHandler
  BY <1>10 DEF TornCrash, DropHandler, NoTornNoDrop
<1>11. CASE UNCHANGED vars
  BY <1>11, StutterStep
<1> QED BY <1>1, <1>2, <1>3, <1>4, <1>5, <1>6, <1>7, <1>8, <1>9, <1>10, <1>11 DEF Next

\* The invariant holds in every state, whatever the constants are, when appends
\* are not torn and handlers run to completion.
THEOREM Invariance ==
  ASSUME NoTornNoDrop
  PROVE  Spec => []IInv
<1>1. Init => IInv
  BY InitIInv
<1>2. IInv /\ [Next]_vars => IInv'
  BY NextIInv
<1> QED BY <1>1, <1>2, PTL DEF Spec

\* The types of all variables, and memory present while an operation runs.
THEOREM TypeCorrect ==
  ASSUME NoTornNoDrop
  PROVE  Spec => []TypeOK
<1>1. IInv => TypeOK
  BY DEF IInv
<1> QED BY <1>1, Invariance, PTL

\* At any point between two writes, a load of the files gives the session in
\* memory: snapshot plus replay loses no event and applies none twice.
THEOREM RecoveryIsExact ==
  ASSUME NoTornNoDrop
  PROVE  Spec => []RecoveryExact
<1>1. IInv => RecoveryExact
  BY DEF IInv, FilesGiveMemory, RecoveryExact
<1> QED BY <1>1, Invariance, PTL

-----------------------------------------------------------------------------
(***************************************************************************)
(* The transcript.                                                         *)
(*                                                                         *)
(* First, with every fault: ids and messages stay aligned (IdsAligned) and *)
(* an append torn at the end of the log is tolerated.  IdInv is the        *)
(* invariant; it says where ids come from.                                 *)
(*                                                                         *)
(* Then, without torn appends and dropped handlers: the log alone, the     *)
(* snapshot with the log, and memory give one transcript (OneTranscript),  *)
(* so that the log is the source of truth, a context checkpoint summarises *)
(* only what is still there, and the store implements Transcript.          *)
(***************************************************************************)
\* What apply_event does to the messages, the ids and the context checkpoint.
LEMMA AppliedFields ==
  ASSUME NEW st \in State, NEW ev \in Event, NEW seq \in Nat
  PROVE  LET r == ApplyEvent(st, ev, seq)
             i == Position(st.message_ids, ev.id)
             c == st.context_checkpoint
         IN  /\ ev.type = "message" =>
                  /\ r.messages = Append(st.messages, ev.message)
                  /\ r.message_ids = Append(st.message_ids, seq)
             /\ ev.type = "edit" =>
                  /\ r.messages = IF i = 0 THEN st.messages
                                  ELSE [st.messages EXCEPT ![i] = ev.message]
                  /\ r.message_ids = st.message_ids
             /\ ev.type = "truncate" =>
                  /\ r.messages = IF i = 0 THEN st.messages
                                  ELSE SubSeq(st.messages, 1, i)
                  /\ r.message_ids = IF i = 0 THEN st.message_ids
                                     ELSE SubSeq(st.message_ids, 1, i)
                  /\ r.context_checkpoint = IF i # 0 /\ c # NULL /\ c.base >= ev.id
                                            THEN NULL ELSE c
             /\ ev.type = "checkpoint" => r.context_checkpoint = ev.checkpoint
             /\ ev.type \notin {"truncate", "checkpoint"} => r.context_checkpoint = c
             /\ ev.type \notin {"message", "edit", "truncate"} =>
                  r.messages = st.messages /\ r.message_ids = st.message_ids
<1> DEFINE s == [st EXCEPT !.last_seq = IF seq > @ THEN seq ELSE @]
           r == ApplyEvent(st, ev, seq)
           i == Position(st.message_ids, ev.id)
           c == st.context_checkpoint
<1>1. /\ s \in State
      /\ s.messages = st.messages /\ s.message_ids = st.message_ids
      /\ s.context_checkpoint = c
  BY DEF State
<1>2. \/ ev.type = "message" \/ ev.type = "edit" \/ ev.type = "truncate"
      \/ ev.type = "checkpoint" \/ ev.type \in {"finish", "error"}
      \/ ev.type \in {"goal_set", "goal_completed"}
      \/ ev.type = "goal_cleared" \/ ev.type = "goal_usage"
  BY DEF Event, AnyEvent, EventType
<1> HIDE DEF s
<1>3. CASE ev.type = "message"
  <2>1. r = ApplyMessage(s, seq, ev.message)
    BY <1>3 DEF ApplyEvent, s
  <2> QED BY <1>1, <1>3, <2>1 DEF ApplyMessage, State
<1>4. CASE ev.type = "edit"
  <2>1. r = ApplyEdit(s, ev.id, ev.message)
    BY <1>4 DEF ApplyEvent, s
  <2>2. CASE i = 0
    BY <1>1, <1>4, <2>1, <2>2 DEF ApplyEdit
  <2>3. CASE i # 0
    BY <1>1, <1>4, <2>1, <2>3 DEF ApplyEdit, State
  <2> QED BY <2>2, <2>3
<1>5. CASE ev.type = "truncate"
  <2>1. r = ApplyTruncate(s, ev.id)
    BY <1>5 DEF ApplyEvent, s
  <2>2. CASE i = 0
    BY <1>1, <1>5, <2>1, <2>2 DEF ApplyTruncate
  <2>3. CASE i # 0
    <3> DEFINE ms == SubSeq(st.messages, 1, i)
               ids == SubSeq(st.message_ids, 1, i)
               cc == IF c # NULL /\ c.base >= ev.id THEN NULL ELSE c
    <3>1. r = [s EXCEPT !.messages = ms, !.message_ids = ids, !.outcome = {},
                        !.context_checkpoint = cc]
      BY <1>1, <2>1, <2>3 DEF ApplyTruncate
    <3> HIDE DEF ms, ids, cc
    <3>2. r.messages = ms /\ r.message_ids = ids /\ r.context_checkpoint = cc
      BY <1>1, <3>1 DEF State
    <3> HIDE DEF r, i, c
    <3>3. cc = IF i # 0 /\ c # NULL /\ c.base >= ev.id THEN NULL ELSE c
      BY <2>3 DEF cc
    <3> QED BY <1>5, <2>3, <3>2, <3>3 DEF ms, ids, r, i, c
  <2> QED BY <2>2, <2>3
<1>6. CASE ev.type = "checkpoint"
  <2>1. r = [s EXCEPT !.context_checkpoint = ev.checkpoint]
    BY <1>6 DEF ApplyEvent, s
  <2> QED BY <1>1, <1>6, <2>1 DEF State
<1>7. CASE ev.type \in {"finish", "error"}
  <2>1. r = [s EXCEPT !.outcome = @ \cup {ev.type}]
    BY <1>7 DEF ApplyEvent, s
  <2> QED BY <1>1, <1>7, <2>1 DEF State
<1>8. CASE ev.type \in {"goal_set", "goal_completed"}
  <2>1. r = [s EXCEPT !.goal = ev.goal]
    BY <1>8 DEF ApplyEvent, s
  <2> QED BY <1>1, <1>8, <2>1 DEF State
<1>9. CASE ev.type = "goal_cleared"
  <2>1. r = [s EXCEPT !.goal = NULL]
    BY <1>9 DEF ApplyEvent, s
  <2> QED BY <1>1, <1>9, <2>1 DEF State
<1>10. CASE ev.type = "goal_usage"
  <2>1. r = ApplyGoalUsage(s)
    BY <1>10 DEF ApplyEvent, s
  <2> QED BY <1>1, <1>10, <2>1 DEF ApplyGoalUsage, State
<1> QED BY <1>2, <1>3, <1>4, <1>5, <1>6, <1>7, <1>8, <1>9, <1>10, Zenon

-----------------------------------------------------------------------------
\* The ids of a session, and those of its system messages.
Ids(st) == {st.message_ids[i] : i \in 1..Len(st.message_ids)}

SystemIds(st) ==
    {st.message_ids[i] : i \in {k \in 1..Len(st.messages) : st.messages[k].role = "system"}}

EntryIds(st) == {e[1] : e \in Entries(st)}

\* What an event does to the transcript alone.
EntriesAfter(entries, ev, seq) ==
    CASE ev.type = "message" ->
           IF ev.message.role = "system" THEN entries
           ELSE entries \cup {<<seq, ev.message>>}
      [] ev.type = "edit" ->
           {IF e[1] = ev.id THEN <<ev.id, ev.message>> ELSE e : e \in entries}
      [] ev.type = "truncate" ->
           IF \E e \in entries : e[1] = ev.id
           THEN {e \in entries : e[1] <= ev.id} ELSE entries
      [] OTHER -> entries

\* The fields of a session that its ids depend on.
LEMMA StateFields ==
  ASSUME NEW st \in State, SameLength(st)
  PROVE  /\ st.messages \in Seq(Message) /\ st.message_ids \in Seq(Nat)
         /\ Len(st.messages) \in Nat /\ Len(st.message_ids) = Len(st.messages)
         /\ st.last_seq \in Nat /\ st.last_snapshot_seq \in Nat
         /\ \A i \in 1..Len(st.messages) :
               st.messages[i] \in Message /\ st.message_ids[i] \in Nat
  BY DEF State, SameLength

LEMMA AlignedLength ==
  ASSUME NEW st, Aligned(st)
  PROVE  SameLength(st)
  BY DEF Aligned, SameLength

\* Messages and ids by position determine the sets over them.
LEMMA EntryMembers ==
  ASSUME NEW st \in State, SameLength(st)
  PROVE  /\ \A x : x \in Ids(st) <=> \E i \in 1..Len(st.messages) : x = st.message_ids[i]
         /\ \A x : x \in SystemIds(st) <=>
                     \E i \in 1..Len(st.messages) : /\ st.messages[i].role = "system"
                                                    /\ x = st.message_ids[i]
         /\ \A e : e \in Entries(st) <=>
                     \E i \in 1..Len(st.messages) :
                        /\ st.messages[i].role # "system"
                        /\ e = <<st.message_ids[i], st.messages[i]>>
         /\ \A x : x \in EntryIds(st) <=>
                     \E i \in 1..Len(st.messages) : /\ st.messages[i].role # "system"
                                                    /\ x = st.message_ids[i]
<1>1. Len(st.message_ids) = Len(st.messages)
  BY DEF SameLength
<1>2. \A x : x \in Ids(st) <=> \E i \in 1..Len(st.messages) : x = st.message_ids[i]
  BY <1>1 DEF Ids
<1>3. \A x : x \in SystemIds(st) <=>
               \E i \in 1..Len(st.messages) : /\ st.messages[i].role = "system"
                                              /\ x = st.message_ids[i]
  BY DEF SystemIds
<1>4. \A e : e \in Entries(st) <=>
               \E i \in 1..Len(st.messages) :
                  /\ st.messages[i].role # "system"
                  /\ e = <<st.message_ids[i], st.messages[i]>>
  BY DEF Entries
<1>5. ASSUME NEW x
      PROVE  x \in EntryIds(st) <=>
               \E i \in 1..Len(st.messages) : /\ st.messages[i].role # "system"
                                              /\ x = st.message_ids[i]
  <2>1. ASSUME x \in EntryIds(st)
        PROVE  \E i \in 1..Len(st.messages) : /\ st.messages[i].role # "system"
                                              /\ x = st.message_ids[i]
    <3>1. PICK e \in Entries(st) : x = e[1]
      BY <2>1 DEF EntryIds
    <3> QED BY <1>4, <3>1
  <2>2. ASSUME NEW i \in 1..Len(st.messages), st.messages[i].role # "system",
               x = st.message_ids[i]
        PROVE  x \in EntryIds(st)
    <3>1. <<st.message_ids[i], st.messages[i]>> \in Entries(st)
      BY <1>4, <2>2
    <3> QED BY <2>2, <3>1 DEF EntryIds
  <2> QED BY <2>1, <2>2
<1> QED BY <1>2, <1>3, <1>4, <1>5

-----------------------------------------------------------------------------
\* A message under an id above all others: the ids stay aligned, and one entry,
\* or one system id, is new.
LEMMA AppendAligned ==
  ASSUME NEW st \in State, Aligned(st), NEW m \in Message, NEW seq \in Nat,
         NEW r \in State, r.messages = Append(st.messages, m),
         r.message_ids = Append(st.message_ids, seq),
         r.last_seq >= st.last_seq, r.last_seq >= seq,
         \A x \in Ids(st) : x < seq
  PROVE  /\ Aligned(r)
         /\ Ids(r) = Ids(st) \cup {seq}
         /\ SystemIds(r) = IF m.role = "system" THEN SystemIds(st) \cup {seq}
                           ELSE SystemIds(st)
         /\ Entries(r) = IF m.role = "system" THEN Entries(st)
                         ELSE Entries(st) \cup {<<seq, m>>}
<1> DEFINE n == Len(st.messages)
           end == PreambleEnd(st.messages)
           endr == PreambleEnd(r.messages)
<1>1. SameLength(st)
  BY AlignedLength
<1>2. /\ st.messages \in Seq(Message) /\ st.message_ids \in Seq(Nat)
      /\ n \in Nat /\ Len(st.message_ids) = n /\ st.last_seq \in Nat
      /\ \A i \in 1..n : st.messages[i] \in Message /\ st.message_ids[i] \in Nat
  BY <1>1, StateFields
<1>3. /\ Len(r.messages) = n + 1 /\ Len(r.message_ids) = n + 1
      /\ \A i \in 1..n : r.messages[i] = st.messages[i]
                        /\ r.message_ids[i] = st.message_ids[i]
      /\ r.messages[n + 1] = m /\ r.message_ids[n + 1] = seq
      /\ r.messages \in Seq(Message)
  BY <1>2, AppendProperties
<1>4. r.last_seq \in Nat
  BY DEF State
<1>5. /\ end \in 0..n
      /\ \A k \in 1..end : st.messages[k].role = "system"
      /\ end < n => st.messages[end + 1].role # "system"
  BY <1>2, PreambleEndProperties
<1>6. \A i \in 1..n : st.message_ids[i] < seq
  BY <1>2 DEF Ids
<1>7. /\ \A i \in 1..(n + 1) : i \in 1..n \/ i = n + 1
      /\ \A i \in 1..Len(r.messages) : i \in 1..n \/ i = n + 1
      /\ n + 1 \in 1..Len(r.messages)
      /\ \A i \in 1..n : i \in 1..Len(r.messages)
  BY <1>2, <1>3
<1> HIDE DEF end
<1>8. endr = end \/ (endr = n + 1 /\ end = n)
  <2>1. CASE end < n
    <3>1. end \in 0..Len(r.messages) /\ end < Len(r.messages)
      BY <1>2, <1>3, <1>5, <2>1
    <3>2. \A k \in 1..end : r.messages[k].role = "system"
      BY <1>2, <1>3, <1>5, <2>1
    <3>3. r.messages[end + 1].role # "system"
      BY <1>2, <1>3, <1>5, <2>1
    <3> QED BY <1>3, <3>1, <3>2, <3>3, PreambleEndUnique
  <2>2. CASE end = n /\ m.role # "system"
    <3>1. n \in 0..Len(r.messages)
      BY <1>2, <1>3
    <3>2. \A k \in 1..n : r.messages[k].role = "system"
      BY <1>2, <1>3, <1>5, <2>2
    <3>3. r.messages[n + 1].role # "system"
      BY <1>3, <2>2
    <3> QED BY <1>3, <2>2, <3>1, <3>2, <3>3, PreambleEndUnique
  <2>3. CASE end = n /\ m.role = "system"
    <3>1. n + 1 \in 0..Len(r.messages) /\ ~(n + 1 < Len(r.messages))
      BY <1>2, <1>3
    <3>2. \A k \in 1..(n + 1) : r.messages[k].role = "system"
      BY <1>2, <1>3, <1>5, <1>7, <2>3
    <3> QED BY <1>3, <2>3, <3>1, <3>2, PreambleEndUnique
  <2> QED BY <1>2, <1>5, <2>1, <2>2, <2>3
<1> HIDE DEF endr
<1>9. Aligned(r)
  <2>1. Len(r.messages) = Len(r.message_ids)
    BY <1>3
  <2>2. ASSUME NEW i \in 1..Len(r.message_ids) PROVE r.message_ids[i] <= r.last_seq
    <3>1. CASE i = n + 1
      BY <1>3, <3>1
    <3>2. CASE i \in 1..n
      <4>1. st.message_ids[i] <= st.last_seq
        BY <1>2, <3>2 DEF Aligned
      <4> QED BY <1>2, <1>3, <1>4, <3>2, <4>1
    <3> QED BY <1>3, <1>7, <3>1, <3>2
  <2>3. ASSUME NEW i \in 1..Len(r.message_ids), NEW j \in 1..Len(r.message_ids), i # j
        PROVE  r.message_ids[i] # r.message_ids[j]
    <3>1. CASE i \in 1..n /\ j \in 1..n
      <4>1. st.message_ids[i] # st.message_ids[j]
        BY <1>2, <2>3, <3>1 DEF Aligned
      <4> QED BY <1>3, <3>1, <4>1
    <3>2. CASE i = n + 1 /\ j \in 1..n
      BY <1>2, <1>3, <1>6, <3>2
    <3>3. CASE i \in 1..n /\ j = n + 1
      BY <1>2, <1>3, <1>6, <3>3
    <3> QED BY <1>3, <1>7, <2>3, <3>1, <3>2, <3>3
  <2>4. ASSUME NEW i \in endr + 1..Len(r.messages), NEW j \in endr + 1..Len(r.messages), i < j
        PROVE  r.message_ids[i] < r.message_ids[j]
    <3>1. i \in end + 1..n /\ i \in 1..n
      BY <1>2, <1>3, <1>5, <1>8, <2>4
    <3>2. CASE j = n + 1
      BY <1>3, <1>6, <3>1, <3>2
    <3>3. CASE j # n + 1
      <4>1. j \in end + 1..n /\ j \in 1..n
        BY <1>2, <1>3, <1>5, <1>8, <2>4, <3>3
      <4>2. st.message_ids[i] < st.message_ids[j]
        BY <2>4, <3>1, <4>1 DEF Aligned, end
      <4> QED BY <1>3, <3>1, <4>1, <4>2
    <3> QED BY <3>2, <3>3
  <2> QED BY <2>1, <2>2, <2>3, <2>4 DEF Aligned, endr
<1>10. SameLength(r)
  BY <1>9, AlignedLength
<1>11. Ids(r) = Ids(st) \cup {seq}
  <2>1. \A x : x \in Ids(st) <=> \E i \in 1..n : x = st.message_ids[i]
    BY <1>1, EntryMembers
  <2>2. \A x : x \in Ids(r) <=> \E i \in 1..Len(r.messages) : x = r.message_ids[i]
    BY <1>10, EntryMembers
  <2> QED BY <1>2, <1>3, <1>7, <2>1, <2>2
<1>12. SystemIds(r) = IF m.role = "system" THEN SystemIds(st) \cup {seq} ELSE SystemIds(st)
  <2>1. \A x : x \in SystemIds(st) <=>
                 \E i \in 1..n : st.messages[i].role = "system" /\ x = st.message_ids[i]
    BY <1>1, EntryMembers
  <2>2. \A x : x \in SystemIds(r) <=>
                 \E i \in 1..Len(r.messages) : r.messages[i].role = "system" /\ x = r.message_ids[i]
    BY <1>10, EntryMembers
  <2>3. \A x : x \in SystemIds(r) <=> (x \in SystemIds(st) \/ (m.role = "system" /\ x = seq))
    BY <1>2, <1>3, <1>7, <2>1, <2>2
  <2> QED BY <2>3
<1>13. Entries(r) = IF m.role = "system" THEN Entries(st) ELSE Entries(st) \cup {<<seq, m>>}
  <2>1. \A e : e \in Entries(st) <=>
                 \E i \in 1..n : /\ st.messages[i].role # "system"
                               /\ e = <<st.message_ids[i], st.messages[i]>>
    BY <1>1, EntryMembers
  <2>2. \A e : e \in Entries(r) <=>
                 \E i \in 1..Len(r.messages) : /\ r.messages[i].role # "system"
                                     /\ e = <<r.message_ids[i], r.messages[i]>>
    BY <1>10, EntryMembers
  <2>3. \A e : e \in Entries(r) <=> (e \in Entries(st) \/ (m.role # "system" /\ e = <<seq, m>>))
    BY <1>2, <1>3, <1>7, <2>1, <2>2
  <2> QED BY <2>3
<1> QED BY <1>9, <1>11, <1>12, <1>13

\* A transcript message gets another text: the ids stay as they are.
LEMMA EditAligned ==
  ASSUME NEW st \in State, Aligned(st), NEW k \in 1..Len(st.messages),
         st.messages[k].role # "system", NEW m \in Message, m.role # "system",
         NEW r \in State, r.messages = [st.messages EXCEPT ![k] = m],
         r.message_ids = st.message_ids, r.last_seq >= st.last_seq
  PROVE  /\ Aligned(r)
         /\ Ids(r) = Ids(st) /\ SystemIds(r) = SystemIds(st)
         /\ Entries(r) = {IF e[1] = st.message_ids[k] THEN <<e[1], m>> ELSE e :
                            e \in Entries(st)}
<1> DEFINE n == Len(st.messages)
           end == PreambleEnd(st.messages)
           id == st.message_ids[k]
<1>1. SameLength(st)
  BY AlignedLength
<1>2. /\ st.messages \in Seq(Message) /\ st.message_ids \in Seq(Nat)
      /\ n \in Nat /\ Len(st.message_ids) = n /\ st.last_seq \in Nat
      /\ \A i \in 1..n : st.messages[i] \in Message /\ st.message_ids[i] \in Nat
  BY <1>1, StateFields
<1>3. /\ r.messages \in Seq(Message) /\ Len(r.messages) = n
      /\ r.messages[k] = m
      /\ \A i \in 1..n : i # k => r.messages[i] = st.messages[i]
  BY <1>2
<1>4. r.last_seq \in Nat
  BY DEF State
<1>5. /\ end \in 0..n
      /\ \A i \in 1..end : st.messages[i].role = "system"
      /\ end < n => st.messages[end + 1].role # "system"
  BY <1>2, PreambleEndProperties
<1> HIDE DEF end
<1>6. k \notin 1..end
  BY <1>5
<1>7. \A i \in 1..n : r.messages[i].role = "system" <=> st.messages[i].role = "system"
  BY <1>3
<1>8. PreambleEnd(r.messages) = end
  <2>1. end \in 0..Len(r.messages)
    BY <1>3, <1>5
  <2>2. \A i \in 1..end : r.messages[i].role = "system"
    BY <1>2, <1>5, <1>7
  <2>3. end < Len(r.messages) => r.messages[end + 1].role # "system"
    BY <1>2, <1>3, <1>5, <1>7
  <2> QED BY <1>3, <2>1, <2>2, <2>3, PreambleEndUnique
<1>9. Aligned(r)
  <2>1. \A i \in 1..n : st.message_ids[i] <= r.last_seq
    <3> TAKE i \in 1..n
    <3>1. st.message_ids[i] <= st.last_seq
      BY <1>2 DEF Aligned
    <3> QED BY <1>2, <1>4, <3>1
  <2>2. \A i, j \in 1..n : i # j => st.message_ids[i] # st.message_ids[j]
    BY <1>2 DEF Aligned
  <2>3. \A i, j \in end + 1..n : i < j => st.message_ids[i] < st.message_ids[j]
    BY DEF Aligned, end
  <2> QED BY <1>2, <1>3, <1>8, <2>1, <2>2, <2>3 DEF Aligned
<1>10. SameLength(r)
  BY <1>9, AlignedLength
<1>11. Ids(r) = Ids(st)
  BY DEF Ids
<1>12. SystemIds(r) = SystemIds(st)
  BY <1>3, <1>7 DEF SystemIds
<1>13. ASSUME NEW e
       PROVE  e \in Entries(r) <=>
                e \in {IF f[1] = id THEN <<f[1], m>> ELSE f : f \in Entries(st)}
  <2>1. \A f : f \in Entries(st) <=>
                 \E i \in 1..n : /\ st.messages[i].role # "system"
                               /\ f = <<st.message_ids[i], st.messages[i]>>
    BY <1>1, EntryMembers
  <2>2. \A f : f \in Entries(r) <=>
                 \E i \in 1..n : /\ r.messages[i].role # "system"
                               /\ f = <<st.message_ids[i], r.messages[i]>>
    BY <1>3, <1>10, EntryMembers
  <2>3. \A i \in 1..n : st.message_ids[i] = id => i = k
    BY <1>2 DEF Aligned
  <2>4. ASSUME e \in Entries(r)
        PROVE  \E f \in Entries(st) : e = IF f[1] = id THEN <<f[1], m>> ELSE f
    <3>1. PICK i \in 1..n : /\ r.messages[i].role # "system"
                           /\ e = <<st.message_ids[i], r.messages[i]>>
      BY <2>2, <2>4
    <3>2. <<st.message_ids[i], st.messages[i]>> \in Entries(st)
      BY <1>7, <2>1, <3>1
    <3>3. CASE i = k
      <4>1. e = <<id, m>>
        BY <1>3, <3>1, <3>3
      <4> QED BY <3>2, <3>3, <4>1
    <3>4. CASE i # k
      <4>1. e = <<st.message_ids[i], st.messages[i]>> /\ st.message_ids[i] # id
        BY <1>3, <2>3, <3>1, <3>4
      <4> QED BY <3>2, <4>1
    <3> QED BY <3>3, <3>4
  <2>5. ASSUME NEW f \in Entries(st), e = IF f[1] = id THEN <<f[1], m>> ELSE f
        PROVE  e \in Entries(r)
    <3>1. PICK i \in 1..n : /\ st.messages[i].role # "system"
                           /\ f = <<st.message_ids[i], st.messages[i]>>
      BY <2>1
    <3>2. CASE i = k
      <4>1. e = <<st.message_ids[k], r.messages[k]>>
        BY <1>3, <2>5, <3>1, <3>2
      <4> QED BY <1>7, <2>2, <3>1, <3>2, <4>1
    <3>3. CASE i # k
      <4>1. e = <<st.message_ids[i], r.messages[i]>>
        BY <1>3, <2>3, <2>5, <3>1, <3>3
      <4> QED BY <1>7, <2>2, <3>1, <4>1
    <3> QED BY <3>2, <3>3
  <2> QED BY <2>4, <2>5
<1> QED BY <1>9, <1>11, <1>12, <1>13

\* The transcript is cut after one of its messages: what is left is the entries
\* up to that message's id.
LEMMA TruncateAligned ==
  ASSUME NEW st \in State, Aligned(st), NEW k \in 1..Len(st.messages),
         st.messages[k].role # "system",
         NEW r \in State, r.messages = SubSeq(st.messages, 1, k),
         r.message_ids = SubSeq(st.message_ids, 1, k), r.last_seq >= st.last_seq
  PROVE  /\ Aligned(r)
         /\ Ids(r) \subseteq Ids(st) /\ SystemIds(r) \subseteq SystemIds(st)
         /\ Entries(r) = {e \in Entries(st) : e[1] <= st.message_ids[k]}
<1> DEFINE n == Len(st.messages)
           end == PreambleEnd(st.messages)
           id == st.message_ids[k]
<1>1. SameLength(st)
  BY AlignedLength
<1>2. /\ st.messages \in Seq(Message) /\ st.message_ids \in Seq(Nat)
      /\ n \in Nat /\ Len(st.message_ids) = n /\ st.last_seq \in Nat
      /\ \A i \in 1..n : st.messages[i] \in Message /\ st.message_ids[i] \in Nat
  BY <1>1, StateFields
<1>3. /\ r.messages \in Seq(Message) /\ Len(r.messages) = k /\ Len(r.message_ids) = k
      /\ \A i \in 1..k : r.messages[i] = st.messages[i]
                        /\ r.message_ids[i] = st.message_ids[i]
  BY <1>2
<1>4. r.last_seq \in Nat
  BY DEF State
<1>5. /\ end \in 0..n
      /\ \A i \in 1..end : st.messages[i].role = "system"
      /\ end < n => st.messages[end + 1].role # "system"
  BY <1>2, PreambleEndProperties
<1> HIDE DEF end
<1>6. end < k
  BY <1>2, <1>5
<1>7. PreambleEnd(r.messages) = end
  <2>1. end \in 0..Len(r.messages)
    BY <1>3, <1>5, <1>6
  <2>2. \A i \in 1..end : r.messages[i].role = "system"
    BY <1>3, <1>5, <1>6
  <2>3. r.messages[end + 1].role # "system"
    BY <1>2, <1>3, <1>5, <1>6
  <2> QED BY <1>3, <2>1, <2>2, <2>3, PreambleEndUnique
<1>8. \A i \in 1..k : i \in 1..n
  BY <1>2
<1>9. Aligned(r)
  <2>1. \A i \in 1..k : r.message_ids[i] <= r.last_seq
    <3> TAKE i \in 1..k
    <3>1. st.message_ids[i] <= st.last_seq
      BY <1>2, <1>8 DEF Aligned
    <3> QED BY <1>2, <1>3, <1>4, <1>8, <3>1
  <2>2. \A i, j \in 1..k : i # j => r.message_ids[i] # r.message_ids[j]
    BY <1>2, <1>3, <1>8 DEF Aligned
  <2>3. ASSUME NEW i \in end + 1..k, NEW j \in end + 1..k, i < j
        PROVE  r.message_ids[i] < r.message_ids[j]
    <3>1. i \in end + 1..n /\ j \in end + 1..n /\ i \in 1..k /\ j \in 1..k
      BY <1>2, <1>5
    <3>2. st.message_ids[i] < st.message_ids[j]
      BY <2>3, <3>1 DEF Aligned, end
    <3> QED BY <1>3, <3>1, <3>2
  <2> QED BY <1>3, <1>7, <2>1, <2>2, <2>3 DEF Aligned
<1>10. SameLength(r)
  BY <1>9, AlignedLength
<1>11. Ids(r) \subseteq Ids(st)
  <2>1. \A x : x \in Ids(st) <=> \E i \in 1..n : x = st.message_ids[i]
    BY <1>1, EntryMembers
  <2>2. \A x : x \in Ids(r) <=> \E i \in 1..Len(r.messages) : x = r.message_ids[i]
    BY <1>10, EntryMembers
  <2> QED BY <1>3, <1>8, <2>1, <2>2
<1>12. SystemIds(r) \subseteq SystemIds(st)
  <2>1. \A x : x \in SystemIds(st) <=>
                 \E i \in 1..n : st.messages[i].role = "system" /\ x = st.message_ids[i]
    BY <1>1, EntryMembers
  <2>2. \A x : x \in SystemIds(r) <=>
                 \E i \in 1..Len(r.messages) : /\ r.messages[i].role = "system"
                                              /\ x = r.message_ids[i]
    BY <1>10, EntryMembers
  <2> QED BY <1>3, <1>8, <2>1, <2>2
<1>13. \A i \in 1..n : st.messages[i].role # "system" =>
                        (i <= k <=> st.message_ids[i] <= id)
  <2> SUFFICES ASSUME NEW i \in 1..n, st.messages[i].role # "system"
               PROVE  i <= k <=> st.message_ids[i] <= id
    OBVIOUS
  <2>1. i \in end + 1..n /\ k \in end + 1..n
    <3>1. i \notin 1..end /\ k \notin 1..end
      BY <1>5
    <3> QED BY <1>2, <1>5, <3>1
  <2>2. i < k => st.message_ids[i] < id
    BY <2>1 DEF Aligned, end
  <2>3. k < i => id < st.message_ids[i]
    BY <2>1 DEF Aligned, end
  <2>4. id \in Nat /\ st.message_ids[i] \in Nat
    BY <1>2
  <2> QED BY <1>2, <2>2, <2>3, <2>4
<1>14. ASSUME NEW e
       PROVE  e \in Entries(r) <=> e \in {f \in Entries(st) : f[1] <= id}
  <2>1. e \in Entries(st) <=>
           \E i \in 1..n : /\ st.messages[i].role # "system"
                         /\ e = <<st.message_ids[i], st.messages[i]>>
    BY <1>1, EntryMembers
  <2>2. e \in Entries(r) <=>
           \E i \in 1..Len(r.messages) : /\ r.messages[i].role # "system"
                                        /\ e = <<r.message_ids[i], r.messages[i]>>
    BY <1>10, EntryMembers
  <2>3. ASSUME e \in Entries(r) PROVE e \in Entries(st) /\ e[1] <= id
    <3>1. PICK i \in 1..k : /\ st.messages[i].role # "system"
                           /\ e = <<st.message_ids[i], st.messages[i]>>
      BY <1>3, <2>2, <2>3
    <3>2. i \in 1..n /\ i <= k
      BY <1>8
    <3>3. st.message_ids[i] <= id
      BY <1>13, <3>1, <3>2
    <3> QED BY <2>1, <3>1, <3>2, <3>3
  <2>4. ASSUME e \in Entries(st), e[1] <= id PROVE e \in Entries(r)
    <3>1. PICK i \in 1..n : /\ st.messages[i].role # "system"
                           /\ e = <<st.message_ids[i], st.messages[i]>>
      BY <2>1, <2>4
    <3>2. i \in 1..k
      BY <1>13, <2>4, <3>1
    <3> QED BY <1>3, <2>2, <3>1, <3>2
  <2> QED BY <2>3, <2>4
<1> QED BY <1>9, <1>11, <1>12, <1>14

\* A preamble swap: the transcript is as before, and an id it hands out for a
\* system message is an old one of a system message or above last_seq.
LEMMA SwapAligned ==
  ASSUME NEW st \in State, Aligned(st), NEW p \in Seq(Message),
         \A i \in 1..Len(p) : p[i].role = "system"
  PROVE  LET r == ReplacePreamble(st, p)
         IN  /\ Aligned(r)
             /\ Entries(r) = Entries(st)
             /\ \A x \in SystemIds(r) : x \in SystemIds(st) \/ x > st.last_seq
<1> DEFINE ms == st.messages
           mi == st.message_ids
           m == Len(st.messages)
           end == PreambleEnd(st.messages)
           n == Len(p)
           old == IF end < n THEN end ELSE n
           ids == [i \in 1..n |-> IF i <= end THEN st.message_ids[i]
                                              ELSE st.last_seq + (i - old)]
           mt == SubSeq(ms, end + 1, Len(ms))
           it == SubSeq(mi, end + 1, Len(mi))
           r == ReplacePreamble(st, p)
<1>1. SameLength(st)
  BY AlignedLength
<1>2. /\ ms \in Seq(Message) /\ mi \in Seq(Nat)
      /\ m \in Nat /\ Len(mi) = m /\ st.last_seq \in Nat /\ n \in Nat
      /\ \A i \in 1..m : ms[i] \in Message /\ mi[i] \in Nat
  BY <1>1, StateFields
<1>3. /\ end \in 0..m
      /\ \A i \in 1..end : ms[i].role = "system"
      /\ end < m => ms[end + 1].role # "system"
  BY <1>2, PreambleEndProperties
<1>4. r = [st EXCEPT !.messages = p \o mt, !.message_ids = ids \o it,
                     !.last_seq = st.last_seq + (n - old)]
  BY DEF ReplacePreamble
<1> HIDE DEF end
<1>5. old \in Nat /\ old <= n /\ old <= end /\ (old < n => old = end)
  BY <1>2, <1>3
<1>6. \A i \in 1..n : i <= end => i <= old
  BY <1>2, <1>3
<1> HIDE DEF old
<1>7. /\ ids \in Seq(Nat) /\ Len(ids) = n
      /\ \A i \in 1..n : ids[i] = IF i <= end THEN mi[i] ELSE st.last_seq + (i - old)
  <2>1. \A i \in 1..n : (IF i <= end THEN mi[i] ELSE st.last_seq + (i - old)) \in Nat
    <3> TAKE i \in 1..n
    <3>1. CASE i <= end
      BY <1>2, <1>3, <3>1
    <3>2. CASE ~(i <= end)
      <4>1. i - old \in Nat
        BY <1>2, <1>3, <1>5, <3>2
      <4> QED BY <1>2, <3>2, <4>1
    <3> QED BY <3>1, <3>2
  <2> QED BY <1>2, <2>1
<1> HIDE DEF ids
<1>8. /\ mt \in Seq(Message) /\ Len(mt) = m - end
      /\ \A i \in 1..(m - end) : mt[i] = ms[end + i]
      /\ it \in Seq(Nat) /\ Len(it) = m - end
      /\ \A i \in 1..(m - end) : it[i] = mi[end + i]
  BY <1>2, <1>3
<1> HIDE DEF mt, it
<1> DEFINE L == n + (m - end)
<1>9. /\ r.messages = p \o mt /\ r.message_ids = ids \o it
      /\ r.last_seq = st.last_seq + (n - old)
  BY <1>4 DEF State
<1>10. /\ r.messages \in Seq(Message) /\ Len(r.messages) = L
       /\ r.message_ids \in Seq(Nat) /\ Len(r.message_ids) = L
       /\ \A i \in 1..L : r.messages[i] = IF i <= n THEN p[i] ELSE ms[i - n + end]
       /\ \A i \in 1..L : r.message_ids[i] = IF i <= n THEN ids[i] ELSE mi[i - n + end]
  <2>1. /\ p \o mt \in Seq(Message) /\ Len(p \o mt) = L
        /\ \A i \in 1..L : (p \o mt)[i] = IF i <= n THEN p[i] ELSE mt[i - n]
    <3>1. /\ p \o mt \in Seq(Message) /\ Len(p \o mt) = Len(p) + Len(mt)
          /\ \A i \in 1..(Len(p) + Len(mt)) :
                (p \o mt)[i] = IF i <= Len(p) THEN p[i] ELSE mt[i - Len(p)]
      BY <1>8, ConcatProperties
    <3> QED BY <1>8, <3>1
  <2>2. /\ ids \o it \in Seq(Nat) /\ Len(ids \o it) = L
        /\ \A i \in 1..L : (ids \o it)[i] = IF i <= n THEN ids[i] ELSE it[i - n]
    <3> DEFINE N == Nat
    <3>0. ids \in Seq(N) /\ it \in Seq(N)
      BY <1>7, <1>8
    <3> HIDE DEF N
    <3>1. /\ ids \o it \in Seq(N) /\ Len(ids \o it) = Len(ids) + Len(it)
          /\ \A i \in 1..(Len(ids) + Len(it)) :
                (ids \o it)[i] = IF i <= Len(ids) THEN ids[i] ELSE it[i - Len(ids)]
      BY <3>0, ConcatProperties
    <3> QED BY <1>7, <1>8, <3>1 DEF N
  <2>3. ASSUME NEW i \in 1..L, ~(i <= n)
        PROVE  /\ i - n \in 1..(m - end)
               /\ mt[i - n] = ms[i - n + end] /\ it[i - n] = mi[i - n + end]
    <3>1. i - n \in 1..(m - end) /\ end + (i - n) = i - n + end
      BY <1>2, <1>3, <2>3
    <3> QED BY <1>8, <3>1
  <2> QED BY <1>9, <2>1, <2>2, <2>3
<1> HIDE DEF r
<1>11. ASSUME NEW i \in 1..L, i > n
       PROVE  /\ i - n + end \in end + 1..m /\ i - n + end \in 1..m
              /\ r.messages[i] = ms[i - n + end] /\ r.message_ids[i] = mi[i - n + end]
  <2>1. ~(i <= n) /\ i - n + end \in end + 1..m /\ i - n + end \in 1..m
    BY <1>2, <1>3, <1>11
  <2> QED BY <1>10, <2>1
<1>12. /\ L \in Nat /\ n <= L
       /\ \A i \in 1..n : i \in 1..L /\ i <= n
  BY <1>2, <1>3
<1>22. ASSUME NEW i \in 1..n PROVE r.messages[i] = p[i] /\ r.message_ids[i] = ids[i]
  BY <1>10, <1>12
<1>13. PreambleEnd(r.messages) = n
  <2>1. n \in 0..Len(r.messages)
    BY <1>2, <1>10, <1>12
  <2>2. \A i \in 1..n : r.messages[i].role = "system"
    BY <1>22
  <2>3. n < Len(r.messages) => r.messages[n + 1].role # "system"
    <3> SUFFICES ASSUME n < L PROVE r.messages[n + 1].role # "system"
      BY <1>10
    <3>1. n + 1 \in 1..L /\ ~(n + 1 <= n) /\ n + 1 - n + end = end + 1 /\ end < m
      BY <1>2, <1>3
    <3>2. r.messages[n + 1] = ms[end + 1]
      BY <1>10, <3>1
    <3> QED BY <1>3, <3>1, <3>2
  <2> QED BY <1>10, <2>1, <2>2, <2>3, PreambleEndUnique
<1>14. r.last_seq \in Nat /\ r.last_seq >= st.last_seq
  BY <1>2, <1>5, <1>9
<1>15. \A i \in 1..m : mi[i] <= st.last_seq
  BY <1>2 DEF Aligned
<1>16. ASSUME NEW i \in 1..n
       PROVE  \/ i <= end /\ i \in 1..m /\ ids[i] = mi[i]
              \/ ~(i <= end) /\ ids[i] = st.last_seq + (i - old)
                   /\ ids[i] > st.last_seq /\ ids[i] <= r.last_seq
  <2>1. CASE i <= end
    BY <1>2, <1>3, <1>7, <2>1
  <2>2. CASE ~(i <= end)
    <3>1. i - old >= 1 /\ i - old <= n - old /\ i - old \in Nat /\ n - old \in Nat
      BY <1>2, <1>3, <1>5, <2>2
    <3>2. ids[i] = st.last_seq + (i - old)
      BY <1>7, <2>2
    <3>3. ids[i] > st.last_seq
      BY <1>2, <3>1, <3>2
    <3>4. ids[i] <= r.last_seq
      BY <1>2, <1>9, <3>1, <3>2
    <3> QED BY <2>2, <3>2, <3>3, <3>4
  <2> QED BY <2>1, <2>2
<1> HIDE DEF ms, mi, m, n, L
<1>17. Aligned(r)
  <2>1. ASSUME NEW i \in 1..L PROVE r.message_ids[i] <= r.last_seq
    <3>1. CASE i <= n
      <4>1. i \in 1..n /\ r.message_ids[i] = ids[i] /\ ids[i] \in Nat
        BY <1>2, <1>7, <1>12, <1>22, <3>1
      <4>2. CASE i <= end
        <5>1. ids[i] <= st.last_seq
          BY <1>15, <1>16, <4>1, <4>2
        <5> QED BY <1>2, <1>14, <4>1, <5>1
      <4>3. CASE ~(i <= end)
        BY <1>16, <4>1, <4>3
      <4> QED BY <4>2, <4>3
    <3>2. CASE i > n
      <4>1. /\ i - n + end \in 1..m /\ r.message_ids[i] = mi[i - n + end]
            /\ mi[i - n + end] \in Nat
        BY <1>2, <1>11, <3>2
      <4>2. mi[i - n + end] <= st.last_seq
        BY <1>15, <4>1
      <4> QED BY <1>2, <1>14, <4>1, <4>2
    <3> QED BY <1>2, <1>12, <3>1, <3>2
  <2>2. \A i, j \in 1..m : i # j => mi[i] # mi[j]
    BY <1>2 DEF Aligned, m, mi
  <2>3. ASSUME NEW i \in 1..L, NEW j \in 1..L, i < j
        PROVE  r.message_ids[i] # r.message_ids[j]
    <3>1. CASE j <= n
      <4>1. i \in 1..n /\ j \in 1..n /\ r.message_ids[i] = ids[i] /\ r.message_ids[j] = ids[j]
        <5>1. i \in 1..n /\ j \in 1..n
          BY <1>2, <1>12, <2>3, <3>1
        <5> QED BY <1>22, <5>1
      <4>2. CASE j <= end
        <5>1. i \in 1..m /\ j \in 1..m /\ ids[i] = mi[i] /\ ids[j] = mi[j] /\ i # j
          <6>1. i <= end
            BY <1>2, <1>3, <2>3, <4>1, <4>2
          <6>2. i # j
            BY <1>2, <2>3, <4>1
          <6> QED BY <1>16, <4>1, <4>2, <6>1, <6>2
        <5> QED BY <2>2, <4>1, <5>1
      <4>3. CASE ~(j <= end) /\ i <= end
        <5>1. i \in 1..m /\ ids[i] = mi[i] /\ ids[j] > st.last_seq
          BY <1>16, <4>1, <4>3
        <5>2. ids[i] <= st.last_seq /\ ids[i] \in Nat /\ ids[j] \in Nat
          BY <1>7, <1>15, <4>1, <5>1
        <5> QED BY <1>2, <4>1, <5>1, <5>2
      <4>4. CASE ~(j <= end) /\ ~(i <= end)
        <5>1. /\ ids[j] = st.last_seq + (j - old) /\ ids[i] = st.last_seq + (i - old)
          BY <1>16, <4>1, <4>4
        <5> QED BY <1>2, <1>5, <2>3, <4>1, <5>1
      <4> QED BY <4>2, <4>3, <4>4
    <3>2. CASE i <= n /\ j > n
      <4>1. /\ i \in 1..n /\ r.message_ids[i] = ids[i]
            /\ j - n + end \in 1..m /\ j - n + end \in end + 1..m
            /\ r.message_ids[j] = mi[j - n + end]
        <5>1. i \in 1..n
          BY <1>2, <1>12, <3>2
        <5> QED BY <1>11, <1>22, <3>2, <5>1
      <4>2. CASE i <= end
        <5>1. i # j - n + end /\ i \in 1..m /\ ids[i] = mi[i]
          BY <1>2, <1>3, <1>16, <3>2, <4>1, <4>2
        <5> QED BY <2>2, <4>1, <5>1
      <4>3. CASE ~(i <= end)
        <5>1. ids[i] > st.last_seq /\ mi[j - n + end] <= st.last_seq
              /\ ids[i] \in Nat /\ mi[j - n + end] \in Nat
          BY <1>2, <1>7, <1>15, <1>16, <4>1, <4>3
        <5> QED BY <1>2, <4>1, <5>1
      <4> QED BY <4>2, <4>3
    <3>3. CASE i > n
      <4>1. /\ i - n + end \in 1..m /\ j - n + end \in 1..m
            /\ r.message_ids[i] = mi[i - n + end] /\ r.message_ids[j] = mi[j - n + end]
        <5>1. j > n
          BY <1>2, <1>12, <2>3, <3>3
        <5> QED BY <1>11, <3>3, <5>1
      <4>2. i - n + end # j - n + end
        BY <1>2, <1>3, <1>12, <2>3
      <4> QED BY <2>2, <4>1, <4>2
    <3> QED BY <1>2, <1>12, <3>1, <3>2, <3>3
  <2>4. \A i, j \in end + 1..m : i < j => mi[i] < mi[j]
    BY DEF Aligned, m, mi, end
  <2>5. ASSUME NEW i \in n + 1..L, NEW j \in n + 1..L, i < j
        PROVE  r.message_ids[i] < r.message_ids[j]
    <3>1. i \in 1..L /\ j \in 1..L /\ i > n /\ j > n
      BY <1>2, <1>12
    <3>2. /\ i - n + end \in end + 1..m /\ j - n + end \in end + 1..m
          /\ r.message_ids[i] = mi[i - n + end] /\ r.message_ids[j] = mi[j - n + end]
      BY <1>11, <3>1
    <3>3. i - n + end < j - n + end
      BY <1>2, <1>3, <1>12, <2>5
    <3> QED BY <2>4, <3>2, <3>3
  <2>6. \A i, j \in 1..L : i # j => r.message_ids[i] # r.message_ids[j]
    <3> SUFFICES ASSUME NEW i \in 1..L, NEW j \in 1..L, i # j
                 PROVE  r.message_ids[i] # r.message_ids[j]
      OBVIOUS
    <3>1. i < j \/ j < i
      BY <1>12
    <3> QED BY <2>3, <3>1
  <2> QED BY <1>10, <1>13, <2>1, <2>5, <2>6 DEF Aligned
<1>18. SameLength(r)
  BY <1>17, AlignedLength
<1>19. r \in State
  BY <1>1, ReplacePreambleType DEF r
<1>20. \A x \in SystemIds(r) : x \in SystemIds(st) \/ x > st.last_seq
  <2>1. \A x : x \in SystemIds(st) <=>
                 \E i \in 1..m : ms[i].role = "system" /\ x = mi[i]
    BY <1>1, EntryMembers DEF m, ms, mi
  <2>2. \A x : x \in SystemIds(r) <=>
                 \E i \in 1..Len(r.messages) : /\ r.messages[i].role = "system"
                                              /\ x = r.message_ids[i]
    BY <1>18, <1>19, EntryMembers
  <2> SUFFICES ASSUME NEW x \in SystemIds(r) PROVE x \in SystemIds(st) \/ x > st.last_seq
    OBVIOUS
  <2>3. PICK i \in 1..L : r.messages[i].role = "system" /\ x = r.message_ids[i]
    BY <1>10, <2>2
  <2>4. CASE i <= n
    <3>1. i \in 1..n /\ x = ids[i]
      <4>1. i \in 1..n
        BY <1>2, <1>12, <2>4
      <4> QED BY <1>22, <2>3, <4>1
    <3>2. CASE i <= end
      <4>1. i \in 1..m /\ x = mi[i] /\ ms[i].role = "system"
        BY <1>2, <1>3, <1>16, <3>1, <3>2
      <4> QED BY <2>1, <4>1
    <3>3. CASE ~(i <= end)
      BY <1>16, <3>1, <3>3
    <3> QED BY <3>2, <3>3
  <2>5. CASE ~(i <= n)
    <3>1. i - n + end \in 1..m /\ x = mi[i - n + end] /\ ms[i - n + end].role = "system"
      <4>1. i > n
        BY <1>2, <1>12, <2>5
      <4> QED BY <1>11, <2>3, <4>1
    <3> QED BY <2>1, <3>1
  <2> QED BY <2>4, <2>5
<1>21. ASSUME NEW e PROVE e \in Entries(r) <=> e \in Entries(st)
  <2>1. e \in Entries(st) <=>
           \E i \in 1..m : ms[i].role # "system" /\ e = <<mi[i], ms[i]>>
    BY <1>1, EntryMembers DEF m, ms, mi
  <2>2. e \in Entries(r) <=>
           \E i \in 1..Len(r.messages) : /\ r.messages[i].role # "system"
                                        /\ e = <<r.message_ids[i], r.messages[i]>>
    BY <1>18, <1>19, EntryMembers
  <2>3. ASSUME e \in Entries(r) PROVE e \in Entries(st)
    <3>1. PICK i \in 1..L : /\ r.messages[i].role # "system"
                           /\ e = <<r.message_ids[i], r.messages[i]>>
      BY <1>10, <2>2, <2>3
    <3>2. i > n
      <4>1. \A j \in 1..n : p[j].role = "system"
        BY DEF n
      <4>2. i \in 1..n => r.messages[i].role = "system"
        BY <1>22, <4>1
      <4>3. i \notin 1..n
        BY <3>1, <4>2
      <4> QED BY <1>2, <1>12, <4>3
    <3>3. /\ i - n + end \in 1..m /\ r.messages[i] = ms[i - n + end]
          /\ r.message_ids[i] = mi[i - n + end]
      BY <1>11, <3>2
    <3> QED BY <2>1, <3>1, <3>3
  <2>4. ASSUME e \in Entries(st) PROVE e \in Entries(r)
    <3>1. PICK i \in 1..m : ms[i].role # "system" /\ e = <<mi[i], ms[i]>>
      BY <2>1, <2>4
    <3>2. i > end
      BY <1>2, <1>3, <3>1
    <3>3. /\ i - end + n \in 1..L /\ ~(i - end + n <= n) /\ (i - end + n) - n + end = i
      BY <1>2, <1>3, <3>2 DEF L
    <3>4. r.messages[i - end + n] = ms[i] /\ r.message_ids[i - end + n] = mi[i]
      BY <1>10, <3>3
    <3> QED BY <1>10, <2>2, <3>1, <3>3, <3>4
  <2> QED BY <2>3, <2>4
<1> QED BY <1>17, <1>20, <1>21 DEF r

-----------------------------------------------------------------------------
\* An edit or a truncation names a message by its id.
Refers(ev) == ev.type \in {"edit", "truncate"}

\* An event that a session can take: a message comes under a new id, and neither
\* an edit nor a truncation names a system message.
Fits(st, ev, seq) ==
    /\ ev.type = "message" => \A x \in Ids(st) : x < seq
    /\ Refers(ev) => ev.id \notin SystemIds(st)
    /\ ev.type = "edit" => ev.message.role # "system"

\* The ids an event may add, for its message.
NewIds(ev, seq) == IF ev.type = "message" THEN {seq} ELSE {}

NewSystemIds(ev, seq) ==
    IF ev.type = "message" /\ ev.message.role = "system" THEN {seq} ELSE {}

NewEntryIds(ev, seq) ==
    IF ev.type = "message" /\ ev.message.role # "system" THEN {seq} ELSE {}

\* apply_event keeps a session aligned, and changes its transcript by what the
\* event says, whatever else the session holds.
LEMMA ApplyKeeps ==
  ASSUME NEW st \in State, Aligned(st), NEW ev \in Event, NEW seq \in Nat,
         Fits(st, ev, seq)
  PROVE  LET r == ApplyEvent(st, ev, seq)
         IN  /\ r \in State /\ Aligned(r)
             /\ Entries(r) = EntriesAfter(Entries(st), ev, seq)
             /\ Ids(r) \subseteq Ids(st) \cup NewIds(ev, seq)
             /\ SystemIds(r) \subseteq SystemIds(st) \cup NewSystemIds(ev, seq)
<1> DEFINE r == ApplyEvent(st, ev, seq)
           k == Position(st.message_ids, ev.id)
           n == Len(st.messages)
<1>1. SameLength(st)
  BY AlignedLength
<1>2. /\ r \in State /\ r.last_seq >= st.last_seq /\ r.last_seq >= seq
  <2>1. r \in State /\ r.last_seq = IF seq > st.last_seq THEN seq ELSE st.last_seq
    BY <1>1, ApplyEventType
  <2>2. st.last_seq \in Nat
    BY DEF State
  <2> QED BY <2>1, <2>2
<1>3. /\ st.messages \in Seq(Message) /\ st.message_ids \in Seq(Nat)
      /\ n \in Nat /\ Len(st.message_ids) = n
      /\ \A i \in 1..n : st.messages[i] \in Message /\ st.message_ids[i] \in Nat
  BY <1>1, StateFields
<1>4. ev.id \in Nat /\ ev.type \in EventType
  BY DEF Event, AnyEvent
<1>5. /\ k \in 0..n
      /\ k # 0 => st.message_ids[k] = ev.id
      /\ k = 0 => \A i \in 1..n : st.message_ids[i] # ev.id
  BY <1>3, <1>4, PositionProperties
<1>6. \A e : e \in Entries(st) <=>
               \E i \in 1..n : /\ st.messages[i].role # "system"
                             /\ e = <<st.message_ids[i], st.messages[i]>>
  BY <1>1, EntryMembers
<1>7. \A x : x \in SystemIds(st) <=>
               \E i \in 1..n : st.messages[i].role = "system" /\ x = st.message_ids[i]
  BY <1>1, EntryMembers
<1>8. ASSUME r.messages = st.messages, r.message_ids = st.message_ids
      PROVE  /\ Aligned(r) /\ Entries(r) = Entries(st)
             /\ Ids(r) = Ids(st) /\ SystemIds(r) = SystemIds(st)
  <2>1. Aligned(r)
    <3>1. \A i \in 1..n : st.message_ids[i] <= r.last_seq
      <4> TAKE i \in 1..n
      <4>1. st.message_ids[i] <= st.last_seq
        BY <1>3 DEF Aligned
      <4>2. st.last_seq \in Nat /\ r.last_seq \in Nat
        BY <1>2 DEF State
      <4> QED BY <1>2, <1>3, <4>1, <4>2
    <3> QED BY <1>3, <1>8, <3>1 DEF Aligned
  <2> QED BY <1>8, <2>1 DEF Entries, Ids, SystemIds
<1>9. k # 0 /\ Refers(ev) => st.messages[k].role # "system" /\ k \in 1..n
  BY <1>3, <1>5, <1>7 DEF Fits
<1>10. CASE ev.type = "message"
  <2>1. ev.message \in Message
    BY <1>10 DEF Event, AnyEvent
  <2>2. /\ r.messages = Append(st.messages, ev.message)
        /\ r.message_ids = Append(st.message_ids, seq)
    BY <1>10, AppliedFields
  <2>3. \A x \in Ids(st) : x < seq
    BY <1>10 DEF Fits
  <2> HIDE DEF r
  <2>4. /\ Aligned(r)
        /\ Ids(r) = Ids(st) \cup {seq}
        /\ SystemIds(r) = IF ev.message.role = "system" THEN SystemIds(st) \cup {seq}
                          ELSE SystemIds(st)
        /\ Entries(r) = IF ev.message.role = "system" THEN Entries(st)
                        ELSE Entries(st) \cup {<<seq, ev.message>>}
    BY <1>2, <2>1, <2>2, <2>3, AppendAligned
  <2> QED BY <1>2, <1>10, <2>4 DEF r, EntriesAfter, NewIds, NewSystemIds
<1>11. CASE ev.type = "edit" /\ k = 0
  <2>1. r.messages = st.messages /\ r.message_ids = st.message_ids
    BY <1>11, AppliedFields
  <2>2. {IF e[1] = ev.id THEN <<ev.id, ev.message>> ELSE e : e \in Entries(st)} = Entries(st)
    <3>1. \A e \in Entries(st) : e[1] # ev.id
      BY <1>5, <1>6, <1>11
    <3> QED BY <3>1
  <2> QED BY <1>2, <1>8, <1>11, <2>1, <2>2 DEF EntriesAfter
<1>12. CASE ev.type = "edit" /\ k # 0
  <2>1. ev.message \in Message /\ ev.message.role # "system"
    BY <1>12 DEF Event, AnyEvent, Fits
  <2>2. /\ r.messages = [st.messages EXCEPT ![k] = ev.message]
        /\ r.message_ids = st.message_ids
    BY <1>12, AppliedFields
  <2>3. k \in 1..n /\ st.messages[k].role # "system" /\ st.message_ids[k] = ev.id
    BY <1>5, <1>9, <1>12 DEF Refers
  <2> HIDE DEF r, k
  <2>4. /\ Aligned(r)
        /\ Ids(r) = Ids(st) /\ SystemIds(r) = SystemIds(st)
        /\ Entries(r) = {IF e[1] = st.message_ids[k] THEN <<e[1], ev.message>> ELSE e :
                           e \in Entries(st)}
    BY <1>2, <2>1, <2>2, <2>3, EditAligned
  <2>5. {IF e[1] = st.message_ids[k] THEN <<e[1], ev.message>> ELSE e : e \in Entries(st)}
          = {IF e[1] = ev.id THEN <<ev.id, ev.message>> ELSE e : e \in Entries(st)}
    BY <2>3
  <2> QED BY <1>2, <1>12, <2>4, <2>5 DEF r, EntriesAfter
<1>13. CASE ev.type = "truncate" /\ k = 0
  <2>1. r.messages = st.messages /\ r.message_ids = st.message_ids
    BY <1>13, AppliedFields
  <2>2. ~\E e \in Entries(st) : e[1] = ev.id
    BY <1>5, <1>6, <1>13
  <2> QED BY <1>2, <1>8, <1>13, <2>1, <2>2 DEF EntriesAfter
<1>14. CASE ev.type = "truncate" /\ k # 0
  <2>1. /\ r.messages = SubSeq(st.messages, 1, k)
        /\ r.message_ids = SubSeq(st.message_ids, 1, k)
    BY <1>14, AppliedFields
  <2>2. k \in 1..n /\ st.messages[k].role # "system" /\ st.message_ids[k] = ev.id
    BY <1>5, <1>9, <1>14 DEF Refers
  <2>3. \E e \in Entries(st) : e[1] = ev.id
    <3>1. <<st.message_ids[k], st.messages[k]>> \in Entries(st)
      BY <1>6, <2>2
    <3> QED BY <2>2, <3>1
  <2> HIDE DEF r, k
  <2>4. /\ Aligned(r)
        /\ Ids(r) \subseteq Ids(st) /\ SystemIds(r) \subseteq SystemIds(st)
        /\ Entries(r) = {e \in Entries(st) : e[1] <= st.message_ids[k]}
    BY <1>2, <2>1, <2>2, TruncateAligned
  <2> QED BY <1>2, <1>14, <2>2, <2>3, <2>4 DEF r, EntriesAfter
<1>15. CASE ev.type \notin {"message", "edit", "truncate"}
  <2>1. r.messages = st.messages /\ r.message_ids = st.message_ids
    BY <1>15, AppliedFields
  <2> QED BY <1>2, <1>8, <1>15, <2>1 DEF EntriesAfter
<1> QED BY <1>10, <1>11, <1>12, <1>13, <1>14, <1>15

\* The transcript's ids after an event.
LEMMA EntryIdsAfter ==
  ASSUME NEW st, NEW r, NEW ev, NEW seq,
         Entries(r) = EntriesAfter(Entries(st), ev, seq)
  PROVE  EntryIds(r) \subseteq EntryIds(st) \cup NewEntryIds(ev, seq)
<1> SUFFICES ASSUME NEW e \in Entries(r)
             PROVE  e[1] \in EntryIds(st) \cup NewEntryIds(ev, seq)
  BY DEF EntryIds
<1>1. \A f \in Entries(st) : f[1] \in EntryIds(st)
  BY DEF EntryIds
<1>2. CASE ev.type = "message"
  BY <1>1, <1>2 DEF EntriesAfter, NewEntryIds
<1>3. CASE ev.type = "edit"
  <2>1. PICK f \in Entries(st) : e = IF f[1] = ev.id THEN <<ev.id, ev.message>> ELSE f
    BY <1>3 DEF EntriesAfter
  <2> QED BY <1>1, <2>1
<1>4. CASE ev.type = "truncate"
  BY <1>1, <1>4 DEF EntriesAfter
<1>5. CASE ev.type \notin {"message", "edit", "truncate"}
  BY <1>1, <1>5 DEF EntriesAfter
<1> QED BY <1>2, <1>3, <1>4, <1>5

-----------------------------------------------------------------------------
\* What events.jsonl says about ids.
IsMessage(line) == line.ok /\ line.event.type = "message"

IsTranscript(line) == IsMessage(line) /\ line.event.message.role # "system"

\* The ids of the transcript messages the log records.
Recorded(lines) ==
    {lines[i].seq : i \in {k \in 1..Len(lines) : IsTranscript(lines[k])}}

\* Messages come under ascending ids, whatever is recorded in between.
Ordered(lines) ==
    \A i, j \in 1..Len(lines) :
        i < j /\ IsMessage(lines[i]) /\ IsMessage(lines[j]) => lines[i].seq < lines[j].seq

\* Edits and truncations name a transcript message recorded before them.
RefersBack(lines) ==
    \A j \in 1..Len(lines) :
        lines[j].ok /\ Refers(lines[j].event) =>
            /\ lines[j].event.type = "edit" => lines[j].event.message.role # "system"
            /\ \E i \in 1..(j - 1) : /\ IsTranscript(lines[i])
                                    /\ lines[i].seq = lines[j].event.id

LEMMA LineFields ==
  ASSUME NEW lines \in Seq(Line), NEW i \in 1..Len(lines)
  PROVE  /\ lines[i] \in Line /\ lines[i].ok \in BOOLEAN
         /\ lines[i].seq \in Nat /\ lines[i].event \in Event
<1>1. \A x \in Line : x.ok \in BOOLEAN /\ x.seq \in Nat /\ x.event \in Event
  BY DEF Line
<1>2. lines[i] \in Line
  OBVIOUS
<1> QED BY <1>1, <1>2

\* Replaying a log over an aligned base whose ids the base's own position covers
\* gives an aligned session after every line, in which no system message has the id of
\* a recorded transcript message, and each line that is not skipped changes the
\* transcript by what its event says.
LEMMA ReplayHistory ==
  ASSUME NEW st \in State, Aligned(st), st.last_seq = st.last_snapshot_seq,
         NEW lines \in Seq(Line), Ordered(lines), RefersBack(lines),
         SystemIds(st) \cap Recorded(lines) = {}
  PROVE  LET h == ReplayStates(st, lines)
         IN  /\ \A i \in 0..Len(lines) :
                   /\ h[i] \in State /\ Aligned(h[i])
                   /\ SystemIds(h[i]) \cap Recorded(lines) = {}
                   /\ EntryIds(h[i]) \subseteq EntryIds(st) \cup Recorded(lines)
             /\ \A i \in 1..Len(lines) :
                   lines[i].ok /\ ~(lines[i].seq <= st.last_snapshot_seq) =>
                      Entries(h[i]) = EntriesAfter(Entries(h[i - 1]), lines[i].event,
                                                   lines[i].seq)
<1> DEFINE n == Len(lines)
           q == st.last_snapshot_seq
           h == ReplayStates(st, lines)
           Old(x, i) == x <= q \/ \E j \in 1..i : IsMessage(lines[j]) /\ x = lines[j].seq
           Good(x, i) == /\ x \in State /\ Aligned(x)
                         /\ SystemIds(x) \cap Recorded(lines) = {}
                         /\ EntryIds(x) \subseteq EntryIds(st) \cup Recorded(lines)
                         /\ \A y \in Ids(x) : y \in Nat /\ Old(y, i)
           Follows(i) == lines[i].ok /\ ~(lines[i].seq <= q) =>
                            Entries(h[i]) = EntriesAfter(Entries(h[i - 1]), lines[i].event,
                                                         lines[i].seq)
           S == {i \in Nat : Good(h[i], i) /\ (i # 0 => Follows(i))}
<1>1. n \in Nat
  OBVIOUS
<1>2. /\ h[0] = st
      /\ \A i \in 1..n : h[i] = ReplayLine(h[i - 1], lines[i], q)
      /\ Replay(st, lines) = h[n]
  BY ReplayStatesProperties
<1> HIDE DEF h
<1>3. q \in Nat
  BY DEF State
<1>4. 0 \in S
  <2>1. SameLength(st)
    BY AlignedLength
  <2>2. \A y \in Ids(st) : y \in Nat /\ y <= q
    <3>1. \A i \in 1..Len(st.message_ids) : st.message_ids[i] <= st.last_seq
      BY DEF Aligned
    <3>2. \A i \in 1..Len(st.message_ids) : st.message_ids[i] \in Nat
      BY <2>1, StateFields
    <3> QED BY <3>1, <3>2 DEF Ids
  <2> QED BY <1>2, <2>2
<1>5. ASSUME NEW i \in 1..n, i - 1 \in S PROVE i \in S
  <2> DEFINE x == h[i - 1]
             ev == lines[i].event
             seq == lines[i].seq
             y == ApplyEvent(x, ev, seq)
  <2>1. Good(x, i - 1)
    BY <1>5
  <2>2. h[i] = ReplayLine(x, lines[i], q)
    BY <1>2
  <2>3. /\ lines[i].ok \in BOOLEAN /\ seq \in Nat /\ ev \in Event
    BY LineFields
  <2> HIDE DEF x
  <2>4. ASSUME NEW z, Old(z, i - 1) PROVE Old(z, i)
    <3>1. \A j \in 1..(i - 1) : j \in 1..i
      BY <1>1
    <3> QED BY <2>4, <3>1
  <2>5. CASE ~lines[i].ok \/ seq <= q
    <3>1. h[i] = x
      BY <2>2, <2>5 DEF ReplayLine
    <3>2. Good(x, i)
      BY <2>1, <2>4
    <3>3. Follows(i)
      BY <2>5
    <3> HIDE DEF Good, Follows
    <3> QED BY <3>1, <3>2, <3>3
  <2>6. CASE lines[i].ok /\ ~(seq <= q)
    <3>1. h[i] = y
      BY <2>2, <2>6 DEF ReplayLine
    <3>2. ASSUME ev.type = "message", NEW z \in Ids(x) PROVE z < seq
      <4>1. z \in Nat /\ Old(z, i - 1)
        BY <2>1, <3>2
      <4>2. CASE z <= q
        BY <1>3, <2>3, <2>6, <4>1, <4>2
      <4>3. CASE \E j \in 1..(i - 1) : IsMessage(lines[j]) /\ z = lines[j].seq
        <5>1. PICK j \in 1..(i - 1) : IsMessage(lines[j]) /\ z = lines[j].seq
          BY <4>3
        <5>2. j \in 1..n /\ j < i /\ IsMessage(lines[i])
          BY <1>1, <2>6, <3>2 DEF IsMessage
        <5> QED BY <5>1, <5>2 DEF Ordered
      <4> QED BY <4>1, <4>2, <4>3
    <3>3. Refers(ev) => ev.id \in Recorded(lines)
      <4> SUFFICES ASSUME Refers(ev) PROVE ev.id \in Recorded(lines)
        OBVIOUS
      <4>1. PICK j \in 1..(i - 1) : IsTranscript(lines[j]) /\ lines[j].seq = ev.id
        BY <2>6 DEF RefersBack
      <4>2. j \in 1..n
        BY <1>1
      <4> QED BY <4>1, <4>2 DEF Recorded
    <3>4. Fits(x, ev, seq)
      <4>1. ev.type = "edit" => ev.message.role # "system"
        BY <2>6 DEF RefersBack, Refers
      <4>2. Refers(ev) => ev.id \notin SystemIds(x)
        BY <2>1, <3>3
      <4> QED BY <3>2, <4>1, <4>2 DEF Fits
    <3> HIDE DEF Old
    <3>5. x \in State /\ Aligned(x)
      BY <2>1
    <3> HIDE DEF seq, ev
    <3>6. /\ y \in State /\ Aligned(y)
          /\ Entries(y) = EntriesAfter(Entries(x), ev, seq)
          /\ Ids(y) \subseteq Ids(x) \cup NewIds(ev, seq)
          /\ SystemIds(y) \subseteq SystemIds(x) \cup NewSystemIds(ev, seq)
      BY <2>3, <3>4, <3>5, ApplyKeeps
    <3>7. EntryIds(y) \subseteq EntryIds(x) \cup NewEntryIds(ev, seq)
      BY <3>6, EntryIdsAfter
    <3> HIDE DEF y
    <3>8. NewEntryIds(ev, seq) \subseteq Recorded(lines)
      <4>1. ev.type = "message" /\ ev.message.role # "system" => IsTranscript(lines[i])
        BY <2>6 DEF IsTranscript, IsMessage, ev
      <4> QED BY <4>1 DEF NewEntryIds, Recorded, seq
    <3>9. NewSystemIds(ev, seq) \cap Recorded(lines) = {}
      <4> SUFFICES ASSUME ev.type = "message", ev.message.role = "system",
                          seq \in Recorded(lines)
                   PROVE  FALSE
        BY DEF NewSystemIds
      <4>1. PICK j \in 1..n : IsTranscript(lines[j]) /\ seq = lines[j].seq
        BY DEF Recorded
      <4>2. IsMessage(lines[i]) /\ IsMessage(lines[j]) /\ i # j
        BY <2>6, <4>1 DEF IsTranscript, IsMessage, ev
      <4>3. i < j \/ j < i
        BY <1>1, <4>2
      <4>4. lines[i].seq < lines[j].seq \/ lines[j].seq < lines[i].seq
        BY <4>2, <4>3 DEF Ordered
      <4> QED BY <2>3, <4>1, <4>4 DEF seq
    <3>10. ASSUME NEW z \in Ids(y) PROVE z \in Nat /\ Old(z, i)
      <4>1. CASE z \in Ids(x)
        BY <2>1, <2>4, <4>1
      <4>2. CASE z \in NewIds(ev, seq)
        <5>1. z = seq /\ IsMessage(lines[i])
          BY <2>6, <4>2 DEF NewIds, IsMessage, ev
        <5>2. i \in 1..i
          OBVIOUS
        <5> QED BY <2>3, <5>1, <5>2 DEF Old, seq
      <4> QED BY <3>6, <4>1, <4>2
    <3>11. Good(y, i)
      BY <2>1, <3>6, <3>7, <3>8, <3>9, <3>10
    <3>12. Follows(i)
      BY <3>1, <3>6 DEF x, ev, seq
    <3> HIDE DEF Good, Follows
    <3> QED BY <3>1, <3>11, <3>12
  <2> QED BY <2>3, <2>5, <2>6
<1>6. \A i \in 0..n : i \in S
  <2> HIDE DEF S
  <2> QED BY <1>1, <1>4, <1>5, BoundedInduction
<1>7. \A i \in 0..n : Good(h[i], i)
  BY <1>6
<1>8. \A i \in 1..n : Follows(i)
  <2> SUFFICES ASSUME NEW i \in 1..n PROVE Follows(i)
    OBVIOUS
  <2>1. i \in 0..n /\ i # 0
    BY <1>1
  <2> HIDE DEF Follows
  <2> QED BY <1>6, <2>1
<1> QED BY <1>7, <1>8 DEF h

\* The session that the whole log gives.
LEMMA ReplayKeeps ==
  ASSUME NEW st \in State, Aligned(st), st.last_seq = st.last_snapshot_seq,
         NEW lines \in Seq(Line), Ordered(lines), RefersBack(lines),
         SystemIds(st) \cap Recorded(lines) = {}
  PROVE  LET r == Replay(st, lines)
         IN  /\ r \in State /\ Aligned(r)
             /\ SystemIds(r) \cap Recorded(lines) = {}
             /\ EntryIds(r) \subseteq EntryIds(st) \cup Recorded(lines)
<1> DEFINE h == ReplayStates(st, lines)
<1>1. Replay(st, lines) = h[Len(lines)] /\ Len(lines) \in 0..Len(lines)
  BY ReplayStatesProperties
<1>2. \A i \in 0..Len(lines) :
         /\ h[i] \in State /\ Aligned(h[i])
         /\ SystemIds(h[i]) \cap Recorded(lines) = {}
         /\ EntryIds(h[i]) \subseteq EntryIds(st) \cup Recorded(lines)
  BY ReplayHistory
<1> HIDE DEF h
<1> QED BY <1>1, <1>2


-----------------------------------------------------------------------------
\* Where line i of the file comes from after an append.
AppendedLine(lines, e, line, more, i) ==
    \/ i \in 1..Len(lines) /\ i < Len(more) /\ more[i] = lines[i]
    \/ i = Len(more) /\ e = TRUE /\ more[i] = line
    \/ i = Len(more) /\ e = FALSE /\ more[i] = BadLine

\* What append_event_line leaves in the file, whether or not the file ended with a
\* newline: no recorded id is new but the line's own, order and references stay,
\* and a file that replay rejects stays rejected.
LEMMA AppendToKeeps ==
  ASSUME NEW lines \in Seq(Line), NEW e \in BOOLEAN, lines = <<>> => e = TRUE,
         NEW line \in Line
  PROVE  LET more == AppendTo(lines, e, line)
         IN  /\ more \in Seq(Line) /\ more # <<>>
             /\ \A i \in 1..Len(more) : AppendedLine(lines, e, line, more, i)
             /\ e = TRUE => \A i \in 1..Len(lines) : i \in 1..Len(more) /\ more[i] = lines[i]
             /\ \A f \in BOOLEAN : Unreadable(lines, e) => Unreadable(more, f)
             /\ ~e => Unreadable(more, TRUE)
<1> DEFINE more == AppendTo(lines, e, line)
           n == Len(lines)
<1>1. n \in Nat /\ BadLine.ok = FALSE
  BY DEF BadLine
<1>2. CASE e = TRUE
  <2>1. more = Append(lines, line)
    BY <1>2 DEF AppendTo
  <2>2. /\ more \in Seq(Line) /\ Len(more) = n + 1 /\ more[n + 1] = line
        /\ \A i \in 1..n : more[i] = lines[i]
    BY <2>1, AppendProperties
  <2> HIDE DEF more
  <2>3. \A i \in 1..Len(more) : AppendedLine(lines, e, line, more, i)
    <3> TAKE i \in 1..Len(more)
    <3>1. i \in 1..n \/ i = n + 1
      BY <1>1, <2>2
    <3> QED BY <1>1, <1>2, <2>2, <3>1 DEF AppendedLine
  <2>4. ASSUME NEW f \in BOOLEAN, Unreadable(lines, e) PROVE Unreadable(more, f)
    <3>1. PICK i \in 1..n : ~lines[i].ok
      BY <2>4 DEF Unreadable
    <3>2. i \in 1..Len(more) /\ i < Len(more) /\ more[i] = lines[i]
      BY <1>1, <2>2
    <3> QED BY <3>1, <3>2 DEF Unreadable
  <2>5. more # <<>> /\ \A i \in 1..n : i \in 1..Len(more)
    BY <1>1, <2>2
  <2> QED BY <1>2, <2>2, <2>3, <2>4, <2>5 DEF more
<1>3. CASE e = FALSE
  <2>1. n >= 1 /\ n \in 1..n
    BY <1>1, <1>3
  <2>2. more = [lines EXCEPT ![n] = BadLine]
    BY <1>3 DEF AppendTo
  <2>3. BadLine \in Line
    <3>1. Plain("error") \in Event
      BY EventConstructors
    <3> QED BY <3>1 DEF BadLine, Line
  <2>4. more \in Seq(Line) /\ Len(more) = n
    BY <1>1, <2>1, <2>2, <2>3, ExceptSeq
  <2>5. more[n] = BadLine /\ \A i \in 1..n : i # n => more[i] = lines[i]
    BY <1>1, <2>1, <2>2
  <2> HIDE DEF more
  <2>6. \A i \in 1..Len(more) : AppendedLine(lines, e, line, more, i)
    BY <1>1, <1>3, <2>4, <2>5 DEF AppendedLine
  <2>7. ASSUME NEW f \in BOOLEAN, Unreadable(lines, e) PROVE Unreadable(more, f)
    <3>1. PICK i \in 1..n : ~lines[i].ok /\ i < n
      BY <1>3, <2>7 DEF Unreadable
    <3>2. i \in 1..Len(more) /\ i < Len(more) /\ more[i] = lines[i]
      BY <1>1, <2>4, <2>5, <3>1
    <3> QED BY <3>1, <3>2 DEF Unreadable
  <2>8. Unreadable(more, TRUE)
    BY <1>1, <2>1, <2>4, <2>5 DEF Unreadable
  <2>9. more # <<>>
    BY <1>1, <2>1, <2>4
  <2> QED BY <1>3, <2>4, <2>6, <2>7, <2>8, <2>9 DEF more
<1> QED BY <1>2, <1>3

\* The ids of a recorded line, and their order, after an append whose line, when it
\* is a message, has an id above those of the messages before it.
LEMMA AppendToOrdered ==
  ASSUME NEW lines \in Seq(Line), NEW e \in BOOLEAN, lines = <<>> => e = TRUE,
         NEW line \in Line, Ordered(lines),
         e = TRUE /\ IsMessage(line) =>
            \A i \in 1..Len(lines) : IsMessage(lines[i]) => lines[i].seq < line.seq
  PROVE  LET more == AppendTo(lines, e, line)
         IN  /\ Ordered(more)
             /\ Recorded(more) \subseteq Recorded(lines) \cup
                                        (IF e = TRUE /\ IsTranscript(line) THEN {line.seq} ELSE {})
             /\ e = TRUE => Recorded(lines) \subseteq Recorded(more)
<1> DEFINE more == AppendTo(lines, e, line)
<1>1. /\ more \in Seq(Line)
      /\ \A i \in 1..Len(more) : AppendedLine(lines, e, line, more, i)
      /\ e = TRUE => \A i \in 1..Len(lines) : i \in 1..Len(more) /\ more[i] = lines[i]
  BY AppendToKeeps
<1>2. ~IsMessage(BadLine) /\ ~IsTranscript(BadLine)
  BY DEF IsMessage, IsTranscript, BadLine
<1>3. Len(more) \in Nat /\ Len(lines) \in Nat
  BY <1>1
<1> HIDE DEF more
<1>4. Ordered(more)
  <2> SUFFICES ASSUME NEW i \in 1..Len(more), NEW j \in 1..Len(more), i < j,
                      IsMessage(more[i]), IsMessage(more[j])
               PROVE  more[i].seq < more[j].seq
    BY DEF Ordered
  <2>1. i # Len(more)
    BY <1>3
  <2>2. i \in 1..Len(lines) /\ more[i] = lines[i]
    BY <1>1, <2>1 DEF AppendedLine
  <2>3. CASE j \in 1..Len(lines) /\ more[j] = lines[j]
    BY <2>2, <2>3 DEF Ordered
  <2>4. CASE e = TRUE /\ more[j] = line
    BY <2>2, <2>4
  <2>5. CASE more[j] = BadLine
    BY <1>2, <2>5
  <2> QED BY <1>1, <2>3, <2>4, <2>5 DEF AppendedLine
<1>5. ASSUME NEW x \in Recorded(more)
      PROVE  x \in Recorded(lines) \/ (e = TRUE /\ IsTranscript(line) /\ x = line.seq)
  <2>1. PICK i \in 1..Len(more) : IsTranscript(more[i]) /\ x = more[i].seq
    BY DEF Recorded
  <2>2. CASE i \in 1..Len(lines) /\ more[i] = lines[i]
    BY <2>1, <2>2 DEF Recorded
  <2> QED BY <1>1, <1>2, <2>1, <2>2 DEF AppendedLine
<1>6. e = TRUE => Recorded(lines) \subseteq Recorded(more)
  BY <1>1 DEF Recorded
<1> QED BY <1>4, <1>5, <1>6 DEF more

\* References stay good.
LEMMA AppendToRefers ==
  ASSUME NEW lines \in Seq(Line), NEW e \in BOOLEAN, lines = <<>> => e = TRUE,
         NEW line \in Line, RefersBack(lines),
         e = TRUE /\ line.ok /\ Refers(line.event) =>
            /\ line.event.type = "edit" => line.event.message.role # "system"
            /\ line.event.id \in Recorded(lines)
  PROVE  RefersBack(AppendTo(lines, e, line))
<1> DEFINE more == AppendTo(lines, e, line)
<1>1. /\ more \in Seq(Line)
      /\ \A i \in 1..Len(more) : AppendedLine(lines, e, line, more, i)
      /\ e = TRUE => \A i \in 1..Len(lines) : i \in 1..Len(more) /\ more[i] = lines[i]
  BY AppendToKeeps
<1>2. BadLine.ok = FALSE
  BY DEF BadLine
<1>3. Len(more) \in Nat /\ Len(lines) \in Nat
  BY <1>1
<1> HIDE DEF more
<1> SUFFICES ASSUME NEW j \in 1..Len(more), more[j].ok, Refers(more[j].event)
             PROVE  /\ more[j].event.type = "edit" => more[j].event.message.role # "system"
                    /\ \E i \in 1..(j - 1) : /\ IsTranscript(more[i])
                                            /\ more[i].seq = more[j].event.id
  BY DEF RefersBack, more
<1>4. CASE j \in 1..Len(lines) /\ more[j] = lines[j]
  <2>1. PICK i \in 1..(j - 1) : IsTranscript(lines[i]) /\ lines[i].seq = lines[j].event.id
    BY <1>4 DEF RefersBack
  <2>2. i \in 1..Len(more) /\ i # Len(more)
    BY <1>3
  <2>3. more[i] = lines[i]
    BY <1>1, <2>2 DEF AppendedLine
  <2> QED BY <1>4, <2>1, <2>3 DEF RefersBack
<1>5. CASE j = Len(more) /\ e = TRUE /\ more[j] = line
  <2>1. PICK i \in 1..Len(lines) : IsTranscript(lines[i]) /\ lines[i].seq = line.event.id
    BY <1>5 DEF Recorded
  <2>2. i \in 1..Len(more) /\ more[i] = lines[i]
    BY <1>1, <1>5
  <2>3. i \in 1..(j - 1)
    <3>1. ~IsTranscript(line)
      BY <1>5 DEF IsTranscript, IsMessage, Refers
    <3>2. i # j
      BY <1>5, <2>1, <2>2, <3>1
    <3> QED BY <1>3, <1>5, <2>2, <3>2
  <2> QED BY <1>5, <2>1, <2>2, <2>3
<1> QED BY <1>1, <1>2, <1>4, <1>5 DEF AppendedLine

-----------------------------------------------------------------------------
(***************************************************************************)
(* The inductive invariant behind IdsAligned.  It holds with every fault,  *)
(* torn appends and dropped handlers included, so it cannot say that the   *)
(* files give memory back.  What it says instead is where ids come from:   *)
(* the ids of the base and of memory are at most the position of memory,   *)
(* messages are recorded under ascending ids, and what an edit or a        *)
(* truncation names is a recorded transcript message, never a message of   *)
(* the preamble, as long as the file can be read and ends with a newline.  *)
(***************************************************************************)
Base == ReplayBase(snap)

Readable == ~Unreadable(log, ended)

Whole == ended = TRUE /\ Readable

Placed(st, lines, whole) ==
    /\ Aligned(st)
    /\ SystemIds(st) \cap Recorded(lines) = {}
    /\ whole => EntryIds(st) \subseteq Recorded(lines)

IdleOp == pc = "idle" => op = NoOp

BaseGood == snap # NULL => /\ Placed(Base, log, Whole)
                           /\ Base.last_seq = Base.last_snapshot_seq

MemoryGood == mem # NULL => /\ snap # NULL
                            /\ Placed(mem, log, Whole)
                            /\ Base.last_seq <= mem.last_seq

LogGood == /\ Ordered(log)
           /\ Readable => RefersBack(log)
           /\ log = <<>> => ended = TRUE

\* The messages in the log are below memory, but for one that memory is about to get.
LogBelow ==
    mem # NULL =>
        \A i \in 1..Len(log) : IsMessage(log[i]) =>
            \/ log[i].seq <= mem.last_seq
            \/ pc = "apply" /\ i = Len(log) /\ log[i] = NewLine

PendingLine == pc = "apply" /\ Whole => log # <<>> /\ log[Len(log)] = NewLine

CreatingGood ==
    Creating =>
        /\ mem = NULL /\ snap = NULL /\ ended = TRUE
        /\ \A i \in 1..Len(log) : /\ log[i].ok /\ log[i].seq = i
                                  /\ log[i].event.type = "message"
        /\ \A i \in 1..Len(op.todo) : op.todo[i].type = "message"

\* An event still to record, in a session whose state is st.  Only the first may be
\* a message or an edit, and only runs record messages.
EventGood(ev, first, by, st, lines, whole) ==
    /\ ev.type \in {"edit", "message"} => first /\ ev.message.role # "system"
    /\ ev.type = "message" => by = "worker"
    /\ Refers(ev) => ev.id \notin SystemIds(st) /\ (whole => ev.id \in Recorded(lines))

TodoGood ==
    ~Creating =>
        \A j \in 1..Len(op.todo) :
            /\ mem # NULL
            /\ EventGood(op.todo[j], j = 1 /\ pc \in {"append", "apply"}, op.by,
                         mem, log, Whole)

\* The message a regenerate request found is still a recorded transcript message when
\* the request truncates after it.
RegenGood ==
    regen # NULL => /\ mem # NULL /\ op.by # "resume"
                    /\ regen \notin SystemIds(mem) /\ regen <= mem.last_seq
                    /\ Whole => regen \in Recorded(log)

IdInv == /\ TypeOK /\ IdleOp
         /\ BaseGood /\ MemoryGood
         /\ LogGood /\ LogBelow /\ PendingLine
         /\ CreatingGood /\ TodoGood /\ RegenGood

-----------------------------------------------------------------------------
LEMMA EmptyAligned ==
  ASSUME NEW st, st.messages = <<>>, st.message_ids = <<>>
  PROVE  /\ Aligned(st) /\ Ids(st) = {} /\ SystemIds(st) = {}
         /\ Entries(st) = {} /\ EntryIds(st) = {}
<1>1. Len(<<>>) = 0 /\ 1..0 = {}
  OBVIOUS
<1>2. PreambleEnd(<<>>) = 0
  BY <1>1 DEF PreambleEnd
<1>3. Aligned(st)
  BY <1>1, <1>2 DEF Aligned
<1>4. Ids(st) = {} /\ SystemIds(st) = {} /\ Entries(st) = {}
  BY <1>1 DEF Ids, SystemIds, Entries
<1> QED BY <1>3, <1>4 DEF EntryIds

LEMMA ReplayBaseState ==
  ASSUME NEW st \in State
  PROVE  /\ ReplayBase(st) \in State
         /\ ReplayBase(st) = IF SameLength(st) THEN st ELSE EmptiedForRebuild(st)
         /\ EmptiedForRebuild(st) \in State
         /\ EmptiedForRebuild(st).messages = <<>>
         /\ EmptiedForRebuild(st).message_ids = <<>>
         /\ EmptiedForRebuild(st).last_seq = 0
         /\ EmptiedForRebuild(st).last_snapshot_seq = 0
<1>1. <<>> \in Seq(Message) /\ <<>> \in Seq(Nat)
  OBVIOUS
<1>2. EmptiedForRebuild(st) \in State
  BY <1>1 DEF EmptiedForRebuild, State
<1>3. /\ EmptiedForRebuild(st).messages = <<>>
      /\ EmptiedForRebuild(st).message_ids = <<>>
      /\ EmptiedForRebuild(st).last_seq = 0
      /\ EmptiedForRebuild(st).last_snapshot_seq = 0
  BY DEF EmptiedForRebuild, State
<1>4. ReplayBase(st) = IF SameLength(st) THEN st ELSE EmptiedForRebuild(st)
  BY DEF ReplayBase, SameLength
<1> QED BY <1>2, <1>3, <1>4

\* Steps that leave events.jsonl alone.
LEMMA LogFrame ==
  ASSUME UNCHANGED <<log, ended>>
  PROVE  /\ Readable' = Readable /\ Whole' = Whole
         /\ LogGood => LogGood'
         /\ BaseGood /\ snap' = snap => BaseGood' /\ Base' = Base
<1>1. Readable' = Readable /\ Whole' = Whole
  BY DEF Readable, Whole
<1>2. LogGood => LogGood'
  BY <1>1 DEF LogGood
<1>3. ASSUME BaseGood, snap' = snap PROVE BaseGood' /\ Base' = Base
  <2>1. Base' = Base
    BY <1>3 DEF Base
  <2> QED BY <1>1, <1>3, <2>1 DEF BaseGood
<1> QED BY <1>1, <1>2, <1>3

\* The parts of an aligned session.
LEMMA AlignedIds ==
  ASSUME NEW st \in State, Aligned(st)
  PROVE  /\ SameLength(st) /\ st.last_seq \in Nat
         /\ \A x \in Ids(st) : x \in Nat /\ x <= st.last_seq
         /\ SystemIds(st) \subseteq Ids(st) /\ EntryIds(st) \subseteq Ids(st)
         /\ SystemIds(st) \cap EntryIds(st) = {}
<1>1. SameLength(st)
  BY AlignedLength
<1> DEFINE n == Len(st.messages)
<1>2. /\ n \in Nat /\ Len(st.message_ids) = n /\ st.last_seq \in Nat
      /\ \A i \in 1..n : st.message_ids[i] \in Nat
  BY <1>1, StateFields
<1>3. /\ \A x : x \in Ids(st) <=> \E i \in 1..n : x = st.message_ids[i]
      /\ \A x : x \in SystemIds(st) <=>
                  \E i \in 1..n : st.messages[i].role = "system" /\ x = st.message_ids[i]
      /\ \A x : x \in EntryIds(st) <=>
                  \E i \in 1..n : st.messages[i].role # "system" /\ x = st.message_ids[i]
  BY <1>1, EntryMembers
<1> HIDE DEF n
<1>4. /\ \A i \in 1..n : st.message_ids[i] <= st.last_seq
      /\ \A i, j \in 1..n : i # j => st.message_ids[i] # st.message_ids[j]
  BY <1>2 DEF Aligned
<1>5. SystemIds(st) \cap EntryIds(st) = {}
  <2> SUFFICES ASSUME NEW x \in SystemIds(st), x \in EntryIds(st) PROVE FALSE
    OBVIOUS
  <2>1. PICK i \in 1..n : st.messages[i].role = "system" /\ x = st.message_ids[i]
    BY <1>3
  <2>2. PICK j \in 1..n : st.messages[j].role # "system" /\ x = st.message_ids[j]
    BY <1>3
  <2> QED BY <1>4, <2>1, <2>2
<1> QED BY <1>1, <1>2, <1>3, <1>4, <1>5

\* What the invariant says while a session is live.
LEMMA LiveIds ==
  ASSUME IdInv, mem # NULL
  PROVE  /\ mem \in State /\ Aligned(mem) /\ SameLength(mem) /\ mem.last_seq \in Nat
         /\ snap # NULL /\ Base \in State /\ Aligned(Base)
         /\ Base.last_seq \in Nat /\ Base.last_seq = Base.last_snapshot_seq
         /\ Base.last_seq <= mem.last_seq
         /\ SystemIds(mem) \cap Recorded(log) = {}
         /\ Whole => EntryIds(mem) \subseteq Recorded(log)
         /\ log \in Seq(Line)
         /\ MemoryCoversSnapshot
         /\ ~Creating
<1>1. mem \in State /\ snap \in State \cup {NULL} /\ log \in Seq(Line)
  BY DEF IdInv, TypeOK
<1>2. snap # NULL /\ Placed(mem, log, Whole) /\ Base.last_seq <= mem.last_seq
  BY DEF IdInv, MemoryGood
<1>3. Placed(Base, log, Whole) /\ Base.last_seq = Base.last_snapshot_seq
  BY <1>2 DEF IdInv, BaseGood
<1>4. Base \in State
  BY <1>1, <1>2, ReplayBaseState DEF Base
<1>5. ~Creating
  BY DEF IdInv, CreatingGood
<1>6. Aligned(mem) /\ Aligned(Base)
  BY <1>2, <1>3 DEF Placed
<1>7. SameLength(mem) /\ mem.last_seq \in Nat /\ Base.last_seq \in Nat
  BY <1>1, <1>4, <1>6, AlignedIds
<1>8. MemoryCoversSnapshot
  BY <1>2, <1>3, <1>7 DEF MemoryCoversSnapshot, Base
<1> QED BY <1>1, <1>2, <1>3, <1>4, <1>5, <1>6, <1>7, <1>8 DEF Placed

\* A state without a live session.
LEMMA DownIds ==
  ASSUME TypeOK', BaseGood', LogGood', mem' = NULL, pc' = "idle", op' = NoOp,
         regen' = NULL
  PROVE  IdInv'
<1>1. MemoryGood' /\ LogBelow' /\ RegenGood'
  BY DEF MemoryGood, LogBelow, RegenGood
<1>2. PendingLine' /\ CreatingGood' /\ IdleOp'
  BY DEF PendingLine, CreatingGood, Creating, IdleOp
<1>3. TodoGood'
  <2>1. op'.todo = <<>> /\ 1..Len(<<>>) = {}
    BY DEF NoOp
  <2> QED BY <2>1 DEF TodoGood
<1> QED BY <1>1, <1>2, <1>3 DEF IdInv

\* A step that changes neither the files nor the session in memory.
LEMMA QuietIds ==
  ASSUME IdInv, TypeOK', IdleOp', TodoGood', RegenGood',
         UNCHANGED <<log, ended, snap, mem>>, ~Creating', pc' # "apply",
         pc = "apply" => op.by = "handler"
  PROVE  IdInv'
<1>1. BaseGood' /\ LogGood' /\ Base' = Base /\ Whole' = Whole
  BY LogFrame DEF IdInv
<1>2. MemoryGood'
  BY <1>1 DEF IdInv, MemoryGood
<1>3. LogBelow'
  <2> SUFFICES ASSUME mem # NULL, NEW i \in 1..Len(log), IsMessage(log[i])
               PROVE  log[i].seq <= mem.last_seq
    BY DEF LogBelow
  <2>1. CASE log[i].seq <= mem.last_seq
    BY <2>1
  <2>2. CASE pc = "apply" /\ log[i] = NewLine
    <3>1. op.todo # <<>> /\ op.todo \in Seq(Event)
      BY <2>2, OpFields DEF IdInv, TypeOK
    <3>2. Head(op.todo) = op.todo[1] /\ 1 \in 1..Len(op.todo)
      BY <3>1
    <3>3. op.todo[1].type = "message"
      BY <2>2, <3>2 DEF IsMessage, NewLine, EventLine
    <3>4. op.by = "worker"
      BY <2>2, <3>2, <3>3 DEF IdInv, TodoGood, EventGood, Creating
    <3> QED BY <2>2, <3>4
  <2> QED BY <2>1, <2>2 DEF IdInv, LogBelow
<1>4. PendingLine' /\ CreatingGood'
  BY DEF PendingLine, CreatingGood
<1> QED BY <1>1, <1>2, <1>3, <1>4 DEF IdInv

\* A legacy session on disk: load rebuilds from the log alone.
LEMMA LegacyFiles ==
  ASSUME NEW ms \in InitialMessages, LegacySession(ms)
  PROVE  /\ log = MessageLines(ms) /\ log \in Seq(Line) /\ Len(log) = Len(ms)
         /\ Len(ms) \in Nat /\ mem = NULL /\ snap # NULL
         /\ ended = TRUE /\ pc = "idle" /\ op = NoOp /\ regen = NULL
         /\ \A i \in 1..Len(log) : /\ log[i].ok /\ log[i].seq = i
                                   /\ log[i].event.type = "message"
         /\ Base \in State /\ Base.messages = <<>> /\ Base.message_ids = <<>>
         /\ Base.last_seq = 0 /\ Base.last_snapshot_seq = 0
         /\ Base.context_checkpoint = NULL
<1> DEFINE st == [Replay(EmptyState, MessageLines(ms)) EXCEPT
                      !.last_snapshot_seq = Len(ms)]
           lines == MessageLines(ms)
<1>1. /\ lines \in Seq(Line) /\ Len(lines) = Len(ms) /\ Len(ms) \in Nat
      /\ \A i \in 1..Len(ms) : lines[i].ok /\ lines[i].seq = i
      /\ \A i \in 1..Len(ms) : lines[i].event.type = "message"
  <2>1. Len(ms) \in Nat
    BY MessagesAssumption
  <2> QED BY <2>1, MessageLinesType DEF MessageLines, EventLine, MessageEvent, Plain
<1>2. st \in State /\ SameLength(st)
  BY <1>1, CreatedState
<1>3. /\ log = lines /\ ended = TRUE /\ mem = NULL /\ pc = "idle" /\ op = NoOp
      /\ regen = NULL
  BY DEF LegacySession
<1>4. PICK b \in Body :
        snap = [st EXCEPT !.messages = <<[role |-> "system", body |-> b]>> \o @]
  BY DEF LegacySession
<1> HIDE DEF st, lines
<1> DEFINE one == <<[role |-> "system", body |-> b]>>
           ls == one \o st.messages
<1>5. Len(st.messages) \in Nat /\ Len(ls) = Len(st.messages) + 1 /\ ls \in Seq(Message)
  <2>1. [role |-> "system", body |-> b] \in Message
    BY DEF Message, Role
  <2>2. one \in Seq(Message) /\ Len(one) = 1
    BY <2>1
  <2>3. st.messages \in Seq(Message)
    BY <1>2 DEF State
  <2> HIDE DEF one
  <2>4. Len(ls) = Len(one) + Len(st.messages) /\ ls \in Seq(Message)
    BY <2>2, <2>3, ConcatProperties
  <2> QED BY <2>2, <2>3, <2>4
<1>6. snap = [st EXCEPT !.messages = ls]
  BY <1>4
<1> HIDE DEF ls
<1>7. snap.messages = ls /\ snap.message_ids = st.message_ids
  BY <1>2, <1>6 DEF State
<1>8. ~SameLength(snap)
  BY <1>2, <1>5, <1>7 DEF SameLength
<1>9. snap \in State /\ snap # NULL
  <2>1. snap \in State
    BY <1>2, <1>5, <1>6 DEF State
  <2> QED BY <2>1, NullAssumption
<1>10. Base \in State /\ Base = EmptiedForRebuild(snap)
  BY <1>8, <1>9, ReplayBaseState DEF Base
<1>11. /\ Base.messages = <<>> /\ Base.message_ids = <<>>
       /\ Base.last_seq = 0 /\ Base.last_snapshot_seq = 0
  BY <1>9, <1>10, ReplayBaseState
<1>12. Base.context_checkpoint = NULL
  BY <1>9, <1>10 DEF EmptiedForRebuild, State
<1> QED BY <1>1, <1>3, <1>9, <1>10, <1>11, <1>12 DEF lines
-----------------------------------------------------------------------------

LEMMA InitIds == Init => IdInv
<1> SUFFICES ASSUME Init PROVE IdInv
  OBVIOUS
<1>1. TypeOK
  BY InitIInv DEF IInv
<1>2. ASSUME NoSession PROVE IdInv
  <2> USE <1>2 DEF NoSession
  <2>1. Len(<<>>) = 0 /\ 1..0 = {}
    OBVIOUS
  <2>2. IdleOp /\ BaseGood /\ MemoryGood /\ LogBelow /\ PendingLine /\ RegenGood
    BY DEF IdleOp, BaseGood, MemoryGood, LogBelow, PendingLine, RegenGood
  <2>3. LogGood
    BY <2>1 DEF LogGood, Ordered, RefersBack
  <2>4. CreatingGood
    BY DEF CreatingGood, Creating
  <2>5. TodoGood
    BY <2>1 DEF TodoGood, NoOp
  <2> QED BY <1>1, <2>2, <2>3, <2>4, <2>5 DEF IdInv
<1>3. ASSUME NEW ms \in InitialMessages, LegacySession(ms) PROVE IdInv
  <2>1. /\ Len(log) \in Nat /\ mem = NULL /\ ended = TRUE /\ pc = "idle" /\ op = NoOp
        /\ regen = NULL
        /\ \A i \in 1..Len(log) : /\ log[i].ok /\ log[i].seq = i
                                  /\ log[i].event.type = "message"
        /\ Base.messages = <<>> /\ Base.message_ids = <<>>
        /\ Base.last_seq = Base.last_snapshot_seq
    BY <1>3, LegacyFiles
  <2>2. BaseGood
    BY <2>1, EmptyAligned DEF BaseGood, Placed
  <2>3. LogGood
    <3>1. Ordered(log)
      <4> SUFFICES ASSUME NEW i \in 1..Len(log), NEW j \in 1..Len(log), i < j
                   PROVE  log[i].seq < log[j].seq
        BY DEF Ordered
      <4> QED BY <2>1
    <3>2. RefersBack(log)
      BY <2>1 DEF RefersBack, Refers
    <3> QED BY <2>1, <3>1, <3>2 DEF LogGood
  <2>4. TodoGood
    <3>1. op.todo = <<>> /\ 1..Len(<<>>) = {}
      BY <2>1 DEF NoOp
    <3> QED BY <3>1 DEF TodoGood
  <2> QED BY <1>1, <2>1, <2>2, <2>3, <2>4
          DEF IdInv, IdleOp, MemoryGood, LogBelow, PendingLine, RegenGood, CreatingGood,
              Creating
<1> QED BY <1>2, <1>3 DEF Init

\* The process dies, or the session is deleted.
LEMMA EndIds ==
  ASSUME IdInv, Crash \/ Delete
  PROVE  IdInv'
<1>1. TypeOK /\ IdleOp /\ BaseGood /\ LogGood
  BY DEF IdInv
<1>2. CASE Crash
  <2>1. UNCHANGED <<log, ended, snap>> /\ mem' = NULL /\ pc' = "idle" /\ op' = NoOp
        /\ regen' = NULL
    BY <1>2 DEF Crash, disk
  <2>2. TypeOK'
    BY <1>1, <1>2, NoOpType DEF Crash, TypeOK, disk, Pc
  <2>3. BaseGood' /\ LogGood'
    BY <1>1, <2>1, LogFrame
  <2> QED BY <2>1, <2>2, <2>3, DownIds
<1>3. CASE Delete
  <2>1. /\ log' = <<>> /\ ended' = TRUE /\ snap' = NULL /\ mem' = NULL /\ pc' = "idle"
        /\ op' = NoOp /\ regen' = NULL
    BY <1>1, <1>3 DEF Delete, IdleOp
  <2>2. <<>> \in Seq(Line) /\ Len(<<>>) = 0 /\ 1..0 = {}
    OBVIOUS
  <2>3. TypeOK'
    BY <1>1, <1>3, <2>2 DEF Delete, TypeOK, Pc
  <2>4. BaseGood' /\ LogGood'
    BY <2>1, <2>2 DEF BaseGood, LogGood, Ordered, RefersBack
  <2> QED BY <2>1, <2>3, <2>4, DownIds
<1> QED BY <1>2, <1>3

\* The rest of an operation: what its first event may be, no later one is.
LEMMA RestGood ==
  ASSUME IdInv, mem # NULL, pc \notin {"append", "apply"},
         UNCHANGED <<log, ended, mem>>, op'.todo = op.todo, op'.by = op.by
  PROVE  TodoGood'
<1>1. Whole' = Whole
  BY LogFrame
<1>2. ~Creating
  BY LiveIds
<1>3. ASSUME NEW j \in 1..Len(op.todo)
      PROVE  EventGood(op.todo[j], j = 1 /\ pc' \in {"append", "apply"}, op.by,
                       mem, log, Whole)
  <2>1. EventGood(op.todo[j], j = 1 /\ pc \in {"append", "apply"}, op.by, mem, log, Whole)
    BY <1>2 DEF IdInv, TodoGood
  <2>2. op.todo[j].type \notin {"edit", "message"}
    BY <2>1 DEF EventGood
  <2> QED BY <2>1, <2>2 DEF EventGood
<1> QED BY <1>1, <1>3 DEF TodoGood

\* meta.json, before and after a checkpoint.
LEMMA MetaIds ==
  ASSUME IdInv, WriteMeta \/ WriteSnapshotMeta
  PROVE  IdInv'
<1>1. /\ pc \in {"meta", "snapshot_meta"} /\ meta' = mem.last_seq
      /\ UNCHANGED <<log, ended, snap, mem, regen, unsaved>>
      /\ Advance \/ (pc' = "snapshot" /\ op' = op)
  BY DEF WriteMeta, WriteSnapshotMeta
<1>2. TypeOK /\ mem # NULL
  BY <1>1 DEF IdInv, TypeOK
<1>3. mem.last_seq \in Nat
  BY <1>2, LiveIds
<1>4. /\ op' \in Op /\ pc' \in {"append", "snapshot", "idle"}
      /\ pc' = "append" => op'.todo # <<>>
  BY <1>1, <1>2, AdvanceType DEF TypeOK
<1>5. TypeOK'
  BY <1>1, <1>2, <1>3, <1>4 DEF TypeOK, Pc
<1>6. (op'.todo = op.todo /\ op'.by = op.by /\ pc' # "idle") \/ (op' = NoOp)
  <2>1. op \in Op
    BY <1>2 DEF TypeOK
  <2>2. [op EXCEPT !.save = FALSE].todo = op.todo /\ [op EXCEPT !.save = FALSE].by = op.by
    BY <2>1 DEF Op
  <2> QED BY <1>1, <2>2 DEF Advance
<1>7. TodoGood'
  <2>1. CASE op'.todo = op.todo /\ op'.by = op.by
    BY <1>1, <1>2, <2>1, RestGood
  <2>2. CASE op' = NoOp
    <3>1. op'.todo = <<>> /\ 1..Len(<<>>) = {}
      BY <2>2 DEF NoOp
    <3> QED BY <3>1 DEF TodoGood
  <2> QED BY <1>6, <2>1, <2>2
<1>8. Whole' = Whole
  BY <1>1, LogFrame
<1>9. RegenGood'
  BY <1>1, <1>6, <1>8 DEF IdInv, RegenGood, NoOp
<1>10. IdleOp' /\ ~Creating'
  BY <1>4, <1>6 DEF IdleOp, Creating
<1> QED BY <1>1, <1>4, <1>5, <1>7, <1>9, <1>10, QuietIds

\* A handler's future is dropped at an await; if the line was appended, it stays in the
\* log and memory does not get it.
LEMMA DropIds ==
  ASSUME IdInv, DropHandler
  PROVE  IdInv'
<1>1. UNCHANGED <<log, ended, snap, meta, mem, unsaved>> /\ TypeOK
  BY DEF DropHandler, disk, IdInv
<1>2. Whole' = Whole
  BY <1>1, LogFrame
<1>3. CASE op.by = "handler" /\ Busy /\ ~Creating /\ pc' = "idle" /\ op' = NoOp
           /\ UNCHANGED regen
  <2>1. TypeOK'
    BY <1>1, <1>3, NoOpType DEF TypeOK, Pc
  <2>2. op'.todo = <<>> /\ 1..Len(<<>>) = {} /\ op'.by = "worker"
    BY <1>3 DEF NoOp
  <2>3. TodoGood' /\ IdleOp'
    BY <1>3, <2>2 DEF TodoGood, IdleOp
  <2>4. RegenGood'
    BY <1>1, <1>2, <1>3, <2>2 DEF IdInv, RegenGood
  <2>5. ~Creating'
    BY <1>3 DEF Creating
  <2> QED BY <1>1, <1>3, <2>1, <2>3, <2>4, <2>5, QuietIds
<1>4. CASE regen # NULL /\ regen' = NULL /\ UNCHANGED <<pc, op>>
  <2>1. TypeOK'
    BY <1>1, <1>4 DEF TypeOK
  <2>2. mem # NULL
    BY <1>4 DEF IdInv, RegenGood
  <2>3. BaseGood' /\ LogGood' /\ Base' = Base
    BY <1>1, LogFrame DEF IdInv
  <2>4. IdleOp' /\ MemoryGood' /\ LogBelow' /\ PendingLine' /\ CreatingGood'
    BY <1>1, <1>2, <1>4, <2>3
       DEF IdInv, IdleOp, MemoryGood, LogBelow, PendingLine, CreatingGood, Creating, NewLine
  <2>5. TodoGood' /\ RegenGood'
    BY <1>1, <1>2, <1>4 DEF IdInv, TodoGood, Creating, RegenGood
  <2> QED BY <2>1, <2>3, <2>4, <2>5 DEF IdInv
<1> QED BY <1>3, <1>4 DEF DropHandler

LEMMA StutterIds ==
  ASSUME IdInv, UNCHANGED vars
  PROVE  IdInv'
<1>1. UNCHANGED <<log, ended, snap, meta, mem, pc, op, regen, unsaved>>
  BY DEF vars
<1>2. BaseGood' /\ LogGood' /\ Base' = Base /\ Whole' = Whole
  BY <1>1, LogFrame DEF IdInv
<1>3. TypeOK' /\ IdleOp'
  BY <1>1 DEF IdInv, TypeOK, IdleOp
<1>4. MemoryGood' /\ LogBelow' /\ PendingLine' /\ CreatingGood'
  BY <1>1, <1>2 DEF IdInv, MemoryGood, LogBelow, PendingLine, CreatingGood, Creating, NewLine
<1>5. TodoGood' /\ RegenGood'
  BY <1>1, <1>2 DEF IdInv, TodoGood, Creating, RegenGood
<1> QED BY <1>2, <1>3, <1>4, <1>5 DEF IdInv

-----------------------------------------------------------------------------
\* Marking a session as saved does not touch its messages.
LEMMA MarkKeeps ==
  ASSUME NEW st \in State, NEW n \in Nat
  PROVE  LET r == [st EXCEPT !.last_snapshot_seq = n]
         IN  /\ r \in State /\ r # NULL
             /\ r.last_seq = st.last_seq /\ r.last_snapshot_seq = n
             /\ Aligned(st) => Aligned(r) /\ ReplayBase(r) = r
             /\ SystemIds(r) = SystemIds(st) /\ Entries(r) = Entries(st)
             /\ EntryIds(r) = EntryIds(st) /\ Ids(r) = Ids(st)
             /\ r.context_checkpoint = st.context_checkpoint
<1> DEFINE r == [st EXCEPT !.last_snapshot_seq = n]
<1>1. /\ r \in State /\ r.messages = st.messages /\ r.message_ids = st.message_ids
      /\ r.last_seq = st.last_seq /\ r.last_snapshot_seq = n
      /\ r.context_checkpoint = st.context_checkpoint
  BY DEF State
<1>2. r # NULL
  BY <1>1, NullAssumption
<1> HIDE DEF r
<1>3. Aligned(st) => Aligned(r)
  BY <1>1 DEF Aligned
<1>4. Aligned(r) => ReplayBase(r) = r
  BY DEF Aligned, ReplayBase
<1>5. SystemIds(r) = SystemIds(st) /\ Entries(r) = Entries(st) /\ Ids(r) = Ids(st)
  BY <1>1 DEF SystemIds, Entries, Ids
<1>6. EntryIds(r) = EntryIds(st)
  BY <1>5 DEF EntryIds
<1> QED BY <1>1, <1>2, <1>3, <1>4, <1>5, <1>6 DEF r

\* Replaying lines up to a position stays below it.
LEMMA ReplayBound ==
  ASSUME NEW st \in State, SameLength(st), NEW lines \in Seq(Line), NEW n \in Nat,
         st.last_seq <= n, \A i \in 1..Len(lines) : lines[i].seq <= n
  PROVE  Replay(st, lines).last_seq <= n
<1> DEFINE P == {x \in State : SameLength(x) /\ x.last_seq <= n}
<1>1. st \in P
  OBVIOUS
<1>2. ASSUME NEW x \in P, NEW i \in 1..Len(lines)
      PROVE  ReplayLine(x, lines[i], st.last_snapshot_seq) \in P
  <2>1. x \in State /\ SameLength(x) /\ x.last_seq <= n /\ x.last_seq \in Nat
    BY DEF State
  <2>2. lines[i].event \in Event /\ lines[i].seq \in Nat /\ lines[i].seq <= n
    BY LineFields
  <2> DEFINE y == ApplyEvent(x, lines[i].event, lines[i].seq)
  <2>3. /\ y \in State /\ SameLength(y)
        /\ y.last_seq = IF lines[i].seq > x.last_seq THEN lines[i].seq ELSE x.last_seq
    BY <2>1, <2>2, ApplyEventType
  <2> HIDE DEF y
  <2>4. y \in P
    BY <2>1, <2>2, <2>3
  <2>5. ReplayLine(x, lines[i], st.last_snapshot_seq) \in {x, y}
    BY DEF ReplayLine, y
  <2> QED BY <2>4, <2>5
<1> HIDE DEF P
<1>3. Replay(st, lines) \in P
  BY <1>1, <1>2, ReplayStaysIn
<1> QED BY <1>3 DEF P

\* What create puts into the snapshot and into memory.
LEMMA CreatedAligned ==
  ASSUME NEW lines \in Seq(Line),
         \A i \in 1..Len(lines) : /\ lines[i].ok /\ lines[i].seq = i
                                  /\ lines[i].event.type = "message"
  PROVE  LET st == [Replay(EmptyState, lines) EXCEPT !.last_snapshot_seq = Len(lines)]
         IN  /\ Ordered(lines) /\ RefersBack(lines)
             /\ Placed(st, lines, TRUE)
             /\ st \in State /\ st.last_seq = Len(lines) /\ st.last_snapshot_seq = Len(lines)
<1> DEFINE n == Len(lines)
           r == Replay(EmptyState, lines)
           st == [r EXCEPT !.last_snapshot_seq = n]
<1>1. n \in Nat
  OBVIOUS
<1>2. Ordered(lines)
  BY DEF Ordered
<1>3. RefersBack(lines)
  BY DEF RefersBack, Refers
<1>4. EmptyState \in State /\ SameLength(EmptyState)
      /\ EmptyState.last_seq = 0 /\ EmptyState.last_snapshot_seq = 0
  BY EmptyStateType
<1>5. Aligned(EmptyState) /\ SystemIds(EmptyState) = {} /\ EntryIds(EmptyState) = {}
  <2>1. EmptyState.messages = <<>> /\ EmptyState.message_ids = <<>>
    BY DEF EmptyState
  <2> QED BY <2>1, EmptyAligned
<1>6. /\ r \in State /\ Aligned(r) /\ SystemIds(r) \cap Recorded(lines) = {}
      /\ EntryIds(r) \subseteq EntryIds(EmptyState) \cup Recorded(lines)
  BY <1>2, <1>3, <1>4, <1>5, ReplayKeeps
<1>7. r.last_seq <= n
  <2>1. \A i \in 1..n : lines[i].seq <= n
    BY <1>1
  <2> QED BY <1>1, <1>4, <2>1, ReplayBound
<1>8. n <= st.last_seq /\ st.last_snapshot_seq = n /\ st \in State
  BY CreatedState
<1>9. st.last_seq = r.last_seq /\ Aligned(st) /\ SystemIds(st) = SystemIds(r)
      /\ EntryIds(st) = EntryIds(r)
  <2> HIDE DEF r, n
  <2> QED BY <1>1, <1>6, MarkKeeps
<1>10. st.last_seq = n
  <2>1. r.last_seq \in Nat
    BY <1>6 DEF State
  <2> QED BY <1>1, <1>7, <1>8, <1>9, <2>1
<1>11. Placed(st, lines, TRUE)
  BY <1>5, <1>6, <1>9 DEF Placed
<1> QED BY <1>2, <1>3, <1>8, <1>10, <1>11

\* create: the initial messages, meta.json, snapshot.json.
LEMMA CreateIds ==
  ASSUME IdInv, Create \/ CreateAppend \/ CreateMeta \/ CreateSnapshot
  PROVE  IdInv'
<1>1. TypeOK /\ log \in Seq(Line) /\ Len(log) \in Nat /\ op.todo \in Seq(Event)
  BY OpFields DEF IdInv, TypeOK
<1>2. CASE Create
  <2>1. PICK ms \in InitialMessages :
           op' = [NoOp EXCEPT !.todo = [i \in 1..Len(ms) |-> MessageEvent(ms[i])],
                              !.by = "handler"]
    BY <1>2 DEF Create
  <2> DEFINE td == [i \in 1..Len(ms) |-> MessageEvent(ms[i])]
  <2>2. td \in Seq(Event) /\ \A i \in 1..Len(td) : td[i].type = "message"
    <3>1. ms \in Seq(Message) /\ Len(ms) \in Nat
      BY MessagesAssumption
    <3>2. \A i \in 1..Len(ms) : MessageEvent(ms[i]) \in Event
      BY <3>1, EventConstructors
    <3>3. \A i \in 1..Len(ms) : td[i].type = "message"
      BY DEF MessageEvent, Plain
    <3> QED BY <3>1, <3>2, <3>3
  <2> HIDE DEF td
  <2>3. op' \in Op /\ op'.todo = td
    BY <2>1, <2>2 DEF td, NoOp, Op
  <2>4. UNCHANGED <<log, ended, snap, meta, mem, regen, unsaved>> /\ pc' = "create"
        /\ mem = NULL /\ snap = NULL /\ log = <<>>
    BY <1>2 DEF Create, disk
  <2>5. TypeOK'
    BY <1>1, <2>3, <2>4 DEF TypeOK, Pc
  <2>6. LogGood' /\ BaseGood' /\ ended = TRUE
    BY <2>4, LogFrame DEF IdInv, LogGood
  <2>7. CreatingGood'
    <3>1. 1..Len(<<>>) = {}
      OBVIOUS
    <3>2. \A i \in 1..Len(op'.todo) : op'.todo[i].type = "message"
      BY <2>2, <2>3
    <3> QED BY <2>4, <2>6, <3>1, <3>2 DEF CreatingGood
  <2>8. MemoryGood' /\ LogBelow' /\ PendingLine' /\ TodoGood' /\ RegenGood' /\ IdleOp'
    BY <2>4 DEF IdInv, MemoryGood, LogBelow, PendingLine, TodoGood, Creating, RegenGood,
                IdleOp
  <2> QED BY <2>5, <2>6, <2>7, <2>8 DEF IdInv
<1>3. CASE CreateAppend
  <2> DEFINE q == Len(log) + 1
             ev == Head(op.todo)
  <2>1. /\ pc = "create" /\ op.todo # <<>> /\ pc' = pc /\ ended' = TRUE
        /\ UNCHANGED <<snap, meta, mem, regen, unsaved>>
        /\ log' = AppendTo(log, ended, EventLine(q, ev))
        /\ op' = [op EXCEPT !.todo = Tail(@)]
    BY <1>3 DEF CreateAppend
  <2>2. /\ mem = NULL /\ snap = NULL /\ ended = TRUE
        /\ \A i \in 1..Len(log) : /\ log[i].ok /\ log[i].seq = i
                                  /\ log[i].event.type = "message"
        /\ \A i \in 1..Len(op.todo) : op.todo[i].type = "message"
    BY <2>1 DEF IdInv, CreatingGood, Creating
  <2>3. ev \in Event /\ op' \in Op
    BY <1>1, <2>1, OpFields
  <2>4. /\ op'.todo = Tail(op.todo) /\ ev.type = "message"
        /\ \A i \in 1..Len(Tail(op.todo)) : Tail(op.todo)[i].type = "message"
    <3>1. op'.todo = Tail(op.todo)
      BY <1>1, <2>1 DEF TypeOK, Op
    <3>2. ev = op.todo[1] /\ Len(op.todo) >= 1 /\ Len(op.todo) \in Nat
      BY <1>1, <2>1
    <3>3. Len(Tail(op.todo)) = Len(op.todo) - 1
          /\ \A i \in 1..Len(Tail(op.todo)) : Tail(op.todo)[i] = op.todo[i + 1]
      BY <1>1, <2>1
    <3>4. \A i \in 1..Len(Tail(op.todo)) : i + 1 \in 1..Len(op.todo)
      BY <3>2, <3>3
    <3> QED BY <2>2, <3>1, <3>2, <3>3, <3>4
  <2>5. q \in Nat
    BY <1>1
  <2> HIDE DEF q, ev
  <2>6. /\ log' \in Seq(Line) /\ Len(log') = Len(log) + 1
        /\ log'[Len(log')] = EventLine(q, ev)
        /\ \A i \in 1..Len(log') : i = Len(log') \/ (i \in 1..Len(log)
                                                     /\ log'[i] = log[i])
    <3>1. log' = AppendTo(log, TRUE, EventLine(q, ev))
      BY <2>1, <2>2, Zenon
    <3> QED BY <1>1, <2>3, <2>5, <3>1, AppendLine
  <2>7. \A i \in 1..Len(log') : /\ log'[i].ok /\ log'[i].seq = i
                               /\ log'[i].event.type = "message"
    <3>1. /\ EventLine(q, ev).ok /\ EventLine(q, ev).seq = q
          /\ EventLine(q, ev).event = ev
      BY EventLineFields
    <3> QED BY <2>2, <2>4, <2>6, <3>1 DEF q
  <2>8. TypeOK'
    BY <1>1, <2>1, <2>2, <2>3, <2>6 DEF TypeOK, Pc
  <2>9. CreatingGood'
    <3>1. \A i \in 1..Len(op'.todo) : op'.todo[i].type = "message"
      BY <2>4
    <3> QED BY <2>1, <2>2, <2>7, <3>1 DEF CreatingGood
  <2>10. LogGood'
    <3>1. Ordered(log') /\ RefersBack(log')
      BY <2>6, <2>7, CreatedAligned
    <3> QED BY <2>1, <3>1 DEF LogGood
  <2>11. /\ BaseGood' /\ MemoryGood' /\ LogBelow' /\ PendingLine' /\ TodoGood'
         /\ RegenGood' /\ IdleOp'
    BY <2>1, <2>2 DEF IdInv, BaseGood, MemoryGood, LogBelow, PendingLine, TodoGood,
                      Creating, RegenGood, IdleOp
  <2> QED BY <2>8, <2>9, <2>10, <2>11 DEF IdInv
<1>4. CASE CreateMeta
  <2>1. /\ pc = "create" /\ pc' = "create_snapshot" /\ meta' = Len(log)
        /\ UNCHANGED <<log, ended, snap, mem, op, regen, unsaved>>
    BY <1>4 DEF CreateMeta
  <2>2. TypeOK'
    BY <1>1, <2>1 DEF TypeOK, Pc
  <2>3. mem = NULL /\ snap = NULL
    BY <2>1 DEF IdInv, CreatingGood, Creating
  <2>4. LogGood'
    BY <2>1, LogFrame DEF IdInv
  <2>5. CreatingGood'
    BY <2>1 DEF IdInv, CreatingGood, Creating
  <2>6. /\ BaseGood' /\ MemoryGood' /\ LogBelow' /\ PendingLine' /\ TodoGood'
        /\ RegenGood' /\ IdleOp'
    BY <2>1, <2>3 DEF IdInv, BaseGood, MemoryGood, LogBelow, PendingLine, TodoGood,
                      Creating, RegenGood, IdleOp
  <2> QED BY <2>2, <2>4, <2>5, <2>6 DEF IdInv
<1>5. CASE CreateSnapshot
  <2> DEFINE st == [Replay(EmptyState, log) EXCEPT !.last_snapshot_seq = Len(log)]
  <2>1. /\ pc = "create_snapshot" /\ pc' = "idle" /\ op' = NoOp
        /\ UNCHANGED <<log, ended, meta, regen, unsaved>>
        /\ snap' = st /\ mem' = st
    BY <1>5 DEF CreateSnapshot
  <2>2. /\ mem = NULL /\ snap = NULL
        /\ \A i \in 1..Len(log) : /\ log[i].ok /\ log[i].seq = i
                                  /\ log[i].event.type = "message"
    BY <2>1 DEF IdInv, CreatingGood, Creating
  <2>3. /\ Placed(st, log, TRUE) /\ st \in State
        /\ st.last_seq = Len(log) /\ st.last_snapshot_seq = Len(log)
    BY <1>1, <2>2, CreatedAligned
  <2> HIDE DEF st
  <2>4. st # NULL /\ ReplayBase(st) = st
    BY <2>3, NullAssumption DEF Placed, Aligned, ReplayBase
  <2>5. TypeOK'
    BY <1>1, <2>1, <2>3, NoOpType DEF TypeOK, Pc
  <2>6. LogGood' /\ Whole' = Whole
    BY <2>1, LogFrame DEF IdInv
  <2>7. Base' = st
    BY <2>1, <2>4 DEF Base
  <2>8. BaseGood' /\ MemoryGood'
    BY <1>1, <2>1, <2>3, <2>4, <2>7 DEF BaseGood, MemoryGood, Placed
  <2>9. LogBelow'
    BY <1>1, <2>1, <2>2, <2>3 DEF LogBelow
  <2>10. TodoGood'
    <3>1. op'.todo = <<>> /\ 1..Len(<<>>) = {}
      BY <2>1 DEF NoOp
    <3> QED BY <3>1 DEF TodoGood
  <2>11. PendingLine' /\ CreatingGood' /\ IdleOp'
    BY <2>1 DEF PendingLine, CreatingGood, Creating, IdleOp
  <2>12. RegenGood'
    BY <2>1, <2>2 DEF IdInv, RegenGood
  <2> QED BY <2>5, <2>6, <2>8, <2>9, <2>10, <2>11, <2>12 DEF IdInv
<1> QED BY <1>2, <1>3, <1>4, <1>5

-----------------------------------------------------------------------------
\* The first event of the operation that is being recorded.
LEMMA PendingEvent ==
  ASSUME IdInv, pc \in {"append", "apply"}
  PROVE  /\ mem # NULL /\ op.todo # <<>> /\ op.todo \in Seq(Event)
         /\ Head(op.todo) \in Event
         /\ EventGood(Head(op.todo), TRUE, op.by, mem, log, Whole)
         /\ NewLine \in Line /\ NewLine.ok = TRUE /\ NewLine.seq = mem.last_seq + 1
         /\ NewLine.event = Head(op.todo)
<1>1. TypeOK /\ mem # NULL /\ op.todo # <<>>
  BY DEF IdInv, TypeOK
<1>2. op.todo \in Seq(Event) /\ Head(op.todo) \in Event
  BY <1>1, OpFields
<1>3. Head(op.todo) = op.todo[1] /\ 1 \in 1..Len(op.todo)
  BY <1>1, <1>2
<1>4. EventGood(Head(op.todo), TRUE, op.by, mem, log, Whole)
  <2>1. ~Creating
    BY DEF Creating
  <2>2. EventGood(op.todo[1], 1 = 1 /\ pc \in {"append", "apply"}, op.by, mem, log, Whole)
    BY <1>3, <2>1 DEF IdInv, TodoGood
  <2> QED BY <1>3, <2>2 DEF EventGood
<1>5. mem.last_seq \in Nat
  BY <1>1, LiveIds
<1>6. NewLine \in Line /\ NewLine.ok = TRUE /\ NewLine.seq = mem.last_seq + 1
      /\ NewLine.event = Head(op.todo)
  <2> DEFINE q == mem.last_seq + 1
             ev == Head(op.todo)
  <2>1. NewLine = EventLine(q, ev) /\ q \in Nat /\ ev \in Event
    BY <1>2, <1>5 DEF NewLine
  <2> HIDE DEF q, ev
  <2>2. NewLine \in Line /\ NewLine.ok = TRUE /\ NewLine.seq = q /\ NewLine.event = ev
    BY <2>1 DEF EventLine, Line
  <2> QED BY <2>2 DEF q, ev
<1> QED BY <1>1, <1>2, <1>4, <1>6

\* append_event_line, whole or torn: what the file says about ids stays true.
LEMMA LogStep ==
  ASSUME IdInv, pc = "append", NEW line, line \in {BadLine, NewLine},
         log' = AppendTo(log, ended, line), ended' \in BOOLEAN, snap' = snap
  PROVE  /\ log' \in Seq(Line) /\ log' # <<>>
         /\ \A i \in 1..Len(log') : AppendedLine(log, ended, line, log', i)
         /\ LogGood' /\ BaseGood' /\ Base' = Base
         /\ Whole' => Whole
         /\ Placed(mem, log', Whole')
         /\ Whole' => Recorded(log) \subseteq Recorded(log')
<1>1. /\ mem \in State /\ Aligned(mem) /\ mem.last_seq \in Nat
      /\ snap # NULL /\ Base \in State /\ Aligned(Base)
      /\ Base.last_seq \in Nat /\ Base.last_seq = Base.last_snapshot_seq
      /\ Base.last_seq <= mem.last_seq
      /\ SystemIds(mem) \cap Recorded(log) = {}
      /\ Whole => EntryIds(mem) \subseteq Recorded(log)
      /\ log \in Seq(Line)
  <2>1. mem # NULL
    BY PendingEvent
  <2> QED BY <2>1, LiveIds
<1>2. /\ NewLine \in Line /\ NewLine.ok = TRUE /\ NewLine.seq = mem.last_seq + 1
      /\ NewLine.event = Head(op.todo)
      /\ EventGood(Head(op.todo), TRUE, op.by, mem, log, Whole)
  BY PendingEvent
<1>3. BadLine.ok = FALSE /\ BadLine \in Line
  <2>1. Plain("error") \in Event
    BY EventConstructors
  <2> QED BY <2>1 DEF BadLine, Line
<1>4. ended \in BOOLEAN /\ line \in Line /\ (log = <<>> => ended = TRUE) /\ Ordered(log)
  BY <1>2, <1>3 DEF IdInv, TypeOK, LogGood
<1> DEFINE e == ended
           f == ended'
           more == log'
<1>5. /\ more \in Seq(Line) /\ more # <<>>
      /\ \A i \in 1..Len(more) : AppendedLine(log, e, line, more, i)
      /\ Unreadable(log, e) => Unreadable(more, f)
      /\ ~e => Unreadable(more, TRUE)
  <2>1. LET mr == AppendTo(log, e, line)
        IN  /\ mr \in Seq(Line) /\ mr # <<>>
            /\ \A i \in 1..Len(mr) : AppendedLine(log, e, line, mr, i)
            /\ \A g \in BOOLEAN : Unreadable(log, e) => Unreadable(mr, g)
            /\ ~e => Unreadable(mr, TRUE)
    BY <1>1, <1>4, AppendToKeeps
  <2> QED BY <2>1
<1>6. e = TRUE /\ IsMessage(line) =>
         \A i \in 1..Len(log) : IsMessage(log[i]) => log[i].seq < line.seq
  <2> SUFFICES ASSUME IsMessage(line), NEW i \in 1..Len(log), IsMessage(log[i])
               PROVE  log[i].seq < line.seq
    OBVIOUS
  <2>1. line = NewLine
    BY <1>3 DEF IsMessage
  <2>2. log[i].seq <= mem.last_seq
    <3>1. mem # NULL
      BY PendingEvent
    <3> QED BY <3>1 DEF IdInv, LogBelow
  <2>3. log[i].seq \in Nat
    BY <1>1, LineFields
  <2> QED BY <1>1, <1>2, <2>1, <2>2, <2>3
<1>7. /\ Ordered(more)
      /\ Recorded(more) \subseteq Recorded(log) \cup
                                  (IF e = TRUE /\ IsTranscript(line) THEN {line.seq} ELSE {})
      /\ e = TRUE => Recorded(log) \subseteq Recorded(more)
  BY <1>1, <1>4, <1>6, AppendToOrdered
<1>8. Readable' => Readable
  BY <1>5 DEF Readable
<1>9. Whole' => Whole /\ e = TRUE
  <2> SUFFICES ASSUME Whole' PROVE e = TRUE
    BY <1>4, <1>8 DEF Whole
  <2>1. f = TRUE /\ ~Unreadable(more, f)
    BY DEF Whole, Readable
  <2> QED BY <1>4, <1>5, <2>1
<1>10. LogGood'
  <2>1. Readable' => RefersBack(more)
    <3> SUFFICES ASSUME Readable' PROVE RefersBack(more)
      OBVIOUS
    <3>1. RefersBack(log)
      BY <1>8 DEF IdInv, LogGood
    <3>2. e = TRUE /\ line.ok /\ Refers(line.event) =>
             /\ line.event.type = "edit" => line.event.message.role # "system"
             /\ line.event.id \in Recorded(log)
      <4> SUFFICES ASSUME e = TRUE, line.ok, Refers(line.event)
                   PROVE  /\ line.event.type = "edit" => line.event.message.role # "system"
                          /\ line.event.id \in Recorded(log)
        OBVIOUS
      <4>1. line = NewLine /\ Whole
        BY <1>3, <1>8 DEF Whole
      <4> QED BY <1>2, <4>1 DEF EventGood
    <3> QED BY <1>1, <1>4, <3>1, <3>2, AppendToRefers
  <2> QED BY <1>5, <1>7, <2>1 DEF LogGood
<1>11. ASSUME NEW st \in State, Aligned(st), st.last_seq <= mem.last_seq,
              Placed(st, log, Whole)
       PROVE  Placed(st, more, Whole')
  <2>1. SystemIds(st) \cap Recorded(more) = {}
    <3> SUFFICES ASSUME NEW x \in SystemIds(st), x \in Recorded(more) PROVE FALSE
      OBVIOUS
    <3>1. x \in Nat /\ x <= st.last_seq /\ st.last_seq \in Nat
      BY <1>11, AlignedIds
    <3>2. x \notin Recorded(log)
      BY <1>11 DEF Placed
    <3>3. x = line.seq /\ IsTranscript(line)
      BY <1>7, <3>2
    <3>4. line = NewLine
      BY <1>3, <3>3 DEF IsTranscript, IsMessage
    <3> QED BY <1>1, <1>2, <1>11, <3>1, <3>3, <3>4
  <2>2. Whole' => EntryIds(st) \subseteq Recorded(more)
    BY <1>7, <1>9, <1>11 DEF Placed
  <2> QED BY <1>11, <2>1, <2>2 DEF Placed
<1>12. Base' = Base
  BY DEF Base
<1>13. BaseGood'
  <2>1. Placed(Base, log, Whole)
    BY <1>1 DEF IdInv, BaseGood
  <2>2. Placed(Base, more, Whole')
    BY <1>1, <1>11, <2>1
  <2> QED BY <1>1, <1>12, <2>2 DEF BaseGood
<1>14. Placed(mem, more, Whole')
  BY <1>1, <1>11 DEF Placed
<1> QED BY <1>5, <1>7, <1>9, <1>10, <1>12, <1>13, <1>14

LEMMA AppendIds ==
  ASSUME IdInv, AppendEventLine
  PROVE  IdInv'
<1>1. /\ pc = "append" /\ pc' = "apply" /\ ended' = TRUE
      /\ UNCHANGED <<snap, meta, mem, op, regen, unsaved>>
      /\ log' = AppendTo(log, ended, NewLine)
      /\ TypeOK /\ mem # NULL /\ op.todo # <<>>
  BY DEF AppendEventLine, IdInv, TypeOK
<1>2. /\ log' \in Seq(Line) /\ log' # <<>>
      /\ \A i \in 1..Len(log') : AppendedLine(log, ended, NewLine, log', i)
      /\ LogGood' /\ BaseGood' /\ Base' = Base
      /\ Whole' => Whole
      /\ Placed(mem, log', Whole')
      /\ Whole' => Recorded(log) \subseteq Recorded(log')
  BY <1>1, LogStep
<1>3. NewLine' = NewLine /\ ~Creating /\ ~Creating'
  BY <1>1 DEF NewLine, Creating
<1>4. TypeOK'
  BY <1>1, <1>2 DEF TypeOK, Pc
<1>5. MemoryGood'
  BY <1>1, <1>2 DEF IdInv, MemoryGood
<1>6. LogBelow'
  <2> SUFFICES ASSUME NEW i \in 1..Len(log'), IsMessage(log'[i])
               PROVE  \/ log'[i].seq <= mem.last_seq
                      \/ i = Len(log') /\ log'[i] = NewLine
    BY <1>1, <1>3 DEF LogBelow
  <2>1. CASE i \in 1..Len(log) /\ log'[i] = log[i]
    BY <1>1, <2>1 DEF IdInv, LogBelow
  <2>2. CASE i = Len(log') /\ log'[i] = NewLine
    BY <2>2
  <2>3. CASE log'[i] = BadLine
    BY <2>3 DEF IsMessage, BadLine
  <2> QED BY <1>2, <2>1, <2>2, <2>3 DEF AppendedLine
<1>7. PendingLine'
  <2> SUFFICES ASSUME Whole' PROVE log'[Len(log')] = NewLine
    BY <1>2, <1>3 DEF PendingLine
  <2>1. ended = TRUE
    BY <1>2 DEF Whole
  <2>2. Len(log') \in Nat /\ Len(log') >= 1
    BY <1>2
  <2>3. AppendedLine(log, ended, NewLine, log', Len(log'))
    BY <1>2, <2>2
  <2> QED BY <2>1, <2>2, <2>3 DEF AppendedLine
<1>8. TodoGood'
  <2> SUFFICES ASSUME NEW j \in 1..Len(op.todo)
               PROVE  EventGood(op.todo[j], j = 1 /\ pc' \in {"append", "apply"}, op.by,
                                mem, log', Whole')
    BY <1>1 DEF TodoGood
  <2>1. EventGood(op.todo[j], j = 1 /\ pc \in {"append", "apply"}, op.by, mem, log, Whole)
    BY <1>3 DEF IdInv, TodoGood
  <2> QED BY <1>1, <1>2, <2>1 DEF EventGood
<1>9. RegenGood'
  BY <1>1, <1>2 DEF IdInv, RegenGood
<1>10. CreatingGood' /\ IdleOp'
  BY <1>1, <1>3 DEF CreatingGood, IdleOp
<1> QED BY <1>2, <1>4, <1>5, <1>6, <1>7, <1>8, <1>9, <1>10 DEF IdInv

LEMMA TornIds ==
  ASSUME IdInv, TornCrash
  PROVE  IdInv'
<1>1. /\ pc = "append" /\ ended' = FALSE /\ mem' = NULL /\ pc' = "idle" /\ op' = NoOp
      /\ regen' = NULL /\ unsaved' = FALSE /\ UNCHANGED <<snap, meta>> /\ TypeOK
  BY DEF TornCrash, IdInv
<1>2. PICK line \in {BadLine, NewLine} : log' = AppendTo(log, ended, line)
  BY DEF TornCrash
<1>3. log' \in Seq(Line) /\ LogGood' /\ BaseGood'
  BY <1>1, <1>2, LogStep
<1>4. TypeOK'
  BY <1>1, <1>3, NoOpType DEF TypeOK, Pc
<1> QED BY <1>1, <1>3, <1>4, DownIds

\* apply_event on memory.
LEMMA ApplyIds ==
  ASSUME IdInv, Apply
  PROVE  IdInv'
<1> DEFINE ev == Head(op.todo)
           q == mem.last_seq + 1
<1>1. /\ pc = "apply" /\ pc' = "meta" /\ mem' = ApplyEvent(mem, ev, q)
      /\ UNCHANGED <<log, ended, snap, meta, regen, unsaved>>
      /\ op' = [op EXCEPT !.todo = Tail(@)]
      /\ TypeOK /\ mem # NULL /\ op.todo # <<>>
  BY DEF Apply, IdInv, TypeOK, disk
<1>2. ev \in Event /\ op' \in Op /\ op'.todo = Tail(op.todo) /\ op'.by = op.by
  <2>1. ev \in Event /\ op' \in Op
    BY <1>1, OpFields
  <2> QED BY <1>1, <2>1 DEF TypeOK, Op
<1>3. /\ mem \in State /\ Aligned(mem) /\ SameLength(mem) /\ mem.last_seq \in Nat
      /\ Base.last_seq \in Nat /\ Base.last_seq <= mem.last_seq
      /\ SystemIds(mem) \cap Recorded(log) = {}
      /\ Whole => EntryIds(mem) \subseteq Recorded(log)
      /\ log \in Seq(Line) /\ snap # NULL
  BY <1>1, LiveIds
<1>4. /\ EventGood(ev, TRUE, op.by, mem, log, Whole)
      /\ NewLine.seq = q /\ NewLine.event = ev /\ NewLine.ok = TRUE
      /\ op.todo \in Seq(Event)
  BY <1>1, PendingEvent
<1>5. q \in Nat /\ q > mem.last_seq
  BY <1>3
<1> HIDE DEF ev, q
<1>6. Fits(mem, ev, q)
  <2>1. \A x \in Ids(mem) : x < q
    <3>1. \A x \in Ids(mem) : x \in Nat /\ x <= mem.last_seq
      BY <1>3, AlignedIds
    <3> QED BY <1>3, <1>5, <3>1
  <2> QED BY <1>4, <2>1 DEF EventGood, Fits
<1>7. /\ mem' \in State /\ Aligned(mem')
      /\ Entries(mem') = EntriesAfter(Entries(mem), ev, q)
      /\ SystemIds(mem') \subseteq SystemIds(mem) \cup NewSystemIds(ev, q)
  BY <1>1, <1>2, <1>3, <1>5, <1>6, ApplyKeeps
<1>8. mem'.last_seq = q
  BY <1>1, <1>2, <1>3, <1>5, ApplyEventType
<1>9. mem' # NULL
  BY <1>7, NullAssumption
<1>10. SystemIds(mem') \subseteq SystemIds(mem)
  BY <1>4, <1>7 DEF EventGood, NewSystemIds
<1>11. Whole => EntryIds(mem') \subseteq Recorded(log)
  <2> SUFFICES ASSUME Whole PROVE EntryIds(mem') \subseteq Recorded(log)
    OBVIOUS
  <2>1. EntryIds(mem') \subseteq EntryIds(mem) \cup NewEntryIds(ev, q)
    BY <1>7, EntryIdsAfter
  <2>2. NewEntryIds(ev, q) \subseteq Recorded(log)
    <3> SUFFICES ASSUME ev.type = "message", ev.message.role # "system"
                 PROVE  q \in Recorded(log)
      BY DEF NewEntryIds
    <3>1. log # <<>> /\ log[Len(log)] = NewLine
      BY <1>1 DEF IdInv, PendingLine
    <3>2. Len(log) \in 1..Len(log)
      BY <1>3, <3>1
    <3>3. IsTranscript(log[Len(log)]) /\ log[Len(log)].seq = q
      BY <1>4, <3>1 DEF IsTranscript, IsMessage
    <3> QED BY <3>2, <3>3 DEF Recorded
  <2> QED BY <1>3, <2>1, <2>2
<1>12. BaseGood' /\ LogGood' /\ Base' = Base /\ Whole' = Whole
  BY <1>1, LogFrame DEF IdInv
<1>13. TypeOK'
  BY <1>1, <1>2, <1>7, <1>9 DEF TypeOK, Pc
<1>14. MemoryGood'
  <2>1. SystemIds(mem') \cap Recorded(log) = {}
    BY <1>3, <1>10
  <2>2. Base.last_seq <= q
    BY <1>3, <1>5
  <2> QED BY <1>1, <1>3, <1>7, <1>8, <1>11, <1>12, <2>1, <2>2 DEF MemoryGood, Placed
<1>15. LogBelow'
  <2> SUFFICES ASSUME NEW i \in 1..Len(log), IsMessage(log[i])
               PROVE  log[i].seq <= q
    BY <1>1, <1>8 DEF LogBelow
  <2>1. log[i].seq <= mem.last_seq \/ log[i] = NewLine
    BY <1>1 DEF IdInv, LogBelow
  <2>2. log[i].seq \in Nat
    BY <1>3, LineFields
  <2> QED BY <1>3, <1>4, <1>5, <2>1, <2>2
<1>16. TodoGood'
  <2> SUFFICES ASSUME NEW j \in 1..Len(Tail(op.todo))
               PROVE  EventGood(Tail(op.todo)[j], j = 1 /\ pc' \in {"append", "apply"},
                                op.by, mem', log, Whole)
    BY <1>1, <1>2, <1>9, <1>12 DEF TodoGood
  <2>1. Tail(op.todo)[j] = op.todo[j + 1] /\ j + 1 \in 1..Len(op.todo) /\ j + 1 # 1
    BY <1>1, <1>4
  <2>2. ~Creating
    BY <1>1 DEF Creating
  <2>3. EventGood(op.todo[j + 1], j + 1 = 1 /\ pc \in {"append", "apply"}, op.by,
                  mem, log, Whole)
    BY <2>1, <2>2 DEF IdInv, TodoGood
  <2> QED BY <1>10, <2>1, <2>3 DEF EventGood
<1>17. RegenGood'
  <2> SUFFICES ASSUME regen # NULL
               PROVE  /\ mem' # NULL /\ op'.by # "resume"
                      /\ regen \notin SystemIds(mem') /\ regen <= mem'.last_seq
                      /\ Whole => regen \in Recorded(log)
    BY <1>1, <1>12 DEF RegenGood
  <2>1. /\ op.by # "resume" /\ regen \notin SystemIds(mem) /\ regen <= mem.last_seq
        /\ Whole => regen \in Recorded(log)
    BY DEF IdInv, RegenGood
  <2>2. regen \in Nat
    BY <1>1 DEF TypeOK
  <2>3. regen <= mem'.last_seq
    BY <1>3, <1>5, <1>8, <2>1, <2>2
  <2> QED BY <1>2, <1>9, <1>10, <2>1, <2>3
<1>18. PendingLine' /\ CreatingGood' /\ IdleOp'
  BY <1>1 DEF PendingLine, CreatingGood, Creating, IdleOp
<1> QED BY <1>12, <1>13, <1>14, <1>15, <1>16, <1>17, <1>18 DEF IdInv

-----------------------------------------------------------------------------
\* checkpoint, and a load of what is on disk.
LEMMA SnapshotIds ==
  ASSUME IdInv, WriteSnapshot
  PROVE  IdInv'
<1> DEFINE st == [mem EXCEPT !.last_snapshot_seq = mem.last_seq]
<1>1. /\ pc = "snapshot" /\ pc' = "snapshot_meta" /\ mem' = st /\ snap' = st
      /\ UNCHANGED <<log, ended, meta, op, regen>> /\ unsaved' = FALSE
      /\ TypeOK /\ mem # NULL
  BY DEF WriteSnapshot, IdInv, TypeOK
<1>2. /\ mem \in State /\ Aligned(mem) /\ mem.last_seq \in Nat /\ log \in Seq(Line)
      /\ SystemIds(mem) \cap Recorded(log) = {}
      /\ Whole => EntryIds(mem) \subseteq Recorded(log)
  BY <1>1, LiveIds
<1>3. /\ st \in State /\ st # NULL
      /\ st.last_seq = mem.last_seq /\ st.last_snapshot_seq = mem.last_seq
      /\ Aligned(st) /\ ReplayBase(st) = st
      /\ SystemIds(st) = SystemIds(mem) /\ EntryIds(st) = EntryIds(mem)
  BY <1>2, MarkKeeps
<1> HIDE DEF st
<1>4. LogGood' /\ Whole' = Whole
  BY <1>1, LogFrame DEF IdInv
<1>5. Placed(st, log, Whole)
  BY <1>2, <1>3 DEF Placed
<1>6. Base' = st
  BY <1>1, <1>3 DEF Base
<1>7. BaseGood' /\ MemoryGood'
  BY <1>1, <1>2, <1>3, <1>4, <1>5, <1>6 DEF BaseGood, MemoryGood
<1>8. TypeOK'
  BY <1>1, <1>3 DEF TypeOK, Pc
<1>9. LogBelow'
  BY <1>1, <1>3 DEF IdInv, LogBelow
<1>10. TodoGood'
  <2> SUFFICES ASSUME NEW j \in 1..Len(op.todo)
               PROVE  EventGood(op.todo[j], j = 1 /\ pc' \in {"append", "apply"}, op.by,
                                st, log, Whole)
    BY <1>1, <1>3, <1>4 DEF TodoGood
  <2>1. EventGood(op.todo[j], j = 1 /\ pc \in {"append", "apply"}, op.by, mem, log, Whole)
    BY <1>1 DEF IdInv, TodoGood, Creating
  <2> QED BY <1>1, <1>3, <2>1 DEF EventGood
<1>11. RegenGood'
  BY <1>1, <1>3, <1>4 DEF IdInv, RegenGood
<1>12. PendingLine' /\ CreatingGood' /\ IdleOp'
  BY <1>1 DEF PendingLine, CreatingGood, Creating, IdleOp
<1> QED BY <1>4, <1>7, <1>8, <1>9, <1>10, <1>11, <1>12 DEF IdInv

LEMMA LoadIds ==
  ASSUME IdInv, Load
  PROVE  IdInv'
<1>1. /\ pc = "idle" /\ mem = NULL /\ snap # NULL /\ Readable
      /\ pc' = "snapshot" /\ op' = [NoOp EXCEPT !.by = "resume"]
      /\ mem' = Recovered
      /\ UNCHANGED <<log, ended, snap, meta, regen, unsaved>>
      /\ TypeOK /\ log \in Seq(Line) /\ snap \in State
  BY DEF Load, IdInv, TypeOK, disk, Readable
<1>2. /\ Placed(Base, log, Whole) /\ Base.last_seq = Base.last_snapshot_seq
      /\ Base \in State
  <2>1. Base \in State
    BY <1>1, ReplayBaseState DEF Base
  <2> QED BY <1>1, <2>1 DEF IdInv, BaseGood
<1>3. Aligned(Base) /\ SystemIds(Base) \cap Recorded(log) = {} /\ SameLength(Base)
      /\ Base.last_seq \in Nat
  BY <1>2, AlignedIds DEF Placed
<1>4. Ordered(log) /\ RefersBack(log)
  BY <1>1 DEF IdInv, LogGood
<1>5. /\ mem' \in State /\ Aligned(mem') /\ SystemIds(mem') \cap Recorded(log) = {}
      /\ EntryIds(mem') \subseteq EntryIds(Base) \cup Recorded(log)
  <2>1. LET r == Replay(Base, log)
        IN  /\ r \in State /\ Aligned(r) /\ SystemIds(r) \cap Recorded(log) = {}
            /\ EntryIds(r) \subseteq EntryIds(Base) \cup Recorded(log)
    BY <1>1, <1>2, <1>3, <1>4, ReplayKeeps
  <2> QED BY <1>1, <2>1 DEF Recovered, Base
<1>6. /\ mem'.last_seq >= Base.last_seq
      /\ \A j \in 1..Len(log) : log[j].ok => log[j].seq <= mem'.last_seq
  <2>1. Base.last_snapshot_seq <= Base.last_seq
    BY <1>2, <1>3
  <2>2. LET r == Replay(Base, log)
        IN  /\ r.last_seq >= Base.last_seq
            /\ \A j \in 1..Len(log) : log[j].ok => log[j].seq <= r.last_seq
    BY <1>1, <1>2, <1>3, <2>1, ReplayType
  <2> QED BY <1>1, <2>2 DEF Recovered, Base
<1>7. mem' # NULL /\ mem'.last_seq \in Nat
  BY <1>5, NullAssumption DEF State
<1>8. op' \in Op /\ op'.todo = <<>> /\ op'.by = "resume"
  <2>1. [NoOp EXCEPT !.by = "resume"] \in Op
    BY NoOpType DEF Op
  <2> QED BY <1>1, <2>1 DEF NoOp
<1>9. TypeOK'
  BY <1>1, <1>5, <1>7, <1>8 DEF TypeOK, Pc
<1>10. BaseGood' /\ LogGood' /\ Base' = Base /\ Whole' = Whole
  BY <1>1, LogFrame DEF IdInv
<1>11. MemoryGood'
  <2>1. Whole => EntryIds(mem') \subseteq Recorded(log)
    BY <1>2, <1>5 DEF Placed
  <2>2. Base.last_seq <= mem'.last_seq
    BY <1>3, <1>6, <1>7
  <2> QED BY <1>1, <1>5, <1>10, <2>1, <2>2 DEF MemoryGood, Placed
<1>12. LogBelow'
  BY <1>1, <1>6 DEF LogBelow, IsMessage
<1>13. TodoGood'
  <2>1. 1..Len(<<>>) = {}
    OBVIOUS
  <2> QED BY <1>8, <2>1 DEF TodoGood
<1>14. RegenGood'
  BY <1>1 DEF IdInv, RegenGood
<1>15. PendingLine' /\ CreatingGood' /\ IdleOp'
  BY <1>1 DEF PendingLine, CreatingGood, Creating, IdleOp
<1> QED BY <1>9, <1>10, <1>11, <1>12, <1>13, <1>14, <1>15 DEF IdInv

\* A failed write ends the operation; memory may have counted a snapshot that was not
\* written, and a failed resume leaves no session.
LEMMA WriteFailsIds ==
  ASSUME IdInv, WriteFails
  PROVE  IdInv'
<1>1. /\ pc \in {"append", "meta", "snapshot", "snapshot_meta"} /\ pc' = "idle"
      /\ op' = NoOp /\ UNCHANGED <<log, ended, snap, meta, regen>>
      /\ unsaved' \in BOOLEAN
      /\ TypeOK /\ mem # NULL
  BY DEF WriteFails, IdInv, TypeOK, disk
<1>2. BaseGood' /\ LogGood' /\ Base' = Base /\ Whole' = Whole
  BY <1>1, LogFrame DEF IdInv
<1>3. TodoGood' /\ IdleOp' /\ op'.by = "worker"
  <2>1. op'.todo = <<>> /\ 1..Len(<<>>) = {} /\ op'.by = "worker"
    BY <1>1 DEF NoOp
  <2> QED BY <1>1, <2>1 DEF TodoGood, IdleOp
<1>4. CASE op.by = "resume"
  <2>1. mem' = NULL
    BY <1>4 DEF WriteFails
  <2>2. regen' = NULL
    BY <1>1, <1>4 DEF IdInv, RegenGood
  <2>3. TypeOK'
    BY <1>1, <2>1, NoOpType DEF TypeOK, Pc
  <2> QED BY <1>1, <1>2, <2>1, <2>2, <2>3, DownIds
<1>5. CASE op.by # "resume" /\ pc # "snapshot"
  <2>1. mem' = mem
    BY <1>5 DEF WriteFails
  <2>2. TypeOK'
    BY <1>1, <2>1, NoOpType DEF TypeOK, Pc
  <2>3. RegenGood'
    BY <1>1, <1>2, <1>3, <2>1 DEF IdInv, RegenGood
  <2>4. ~Creating'
    BY <1>1 DEF Creating
  <2> QED BY <1>1, <1>3, <2>1, <2>2, <2>3, <2>4, QuietIds
<1>6. CASE op.by # "resume" /\ pc = "snapshot"
  <2> DEFINE st == [mem EXCEPT !.last_snapshot_seq = mem.last_seq]
  <2>1. mem' = st
    BY <1>6 DEF WriteFails
  <2>2. /\ mem \in State /\ Aligned(mem) /\ mem.last_seq \in Nat /\ log \in Seq(Line)
        /\ SystemIds(mem) \cap Recorded(log) = {}
        /\ Whole => EntryIds(mem) \subseteq Recorded(log)
        /\ snap # NULL /\ Base.last_seq <= mem.last_seq
    BY <1>1, LiveIds
  <2>3. /\ st \in State /\ st # NULL
        /\ st.last_seq = mem.last_seq /\ Aligned(st)
        /\ SystemIds(st) = SystemIds(mem) /\ EntryIds(st) = EntryIds(mem)
    BY <2>2, MarkKeeps
  <2> HIDE DEF st
  <2>4. TypeOK'
    BY <1>1, <2>1, <2>3, NoOpType DEF TypeOK, Pc
  <2>5. MemoryGood'
    BY <1>1, <1>2, <2>1, <2>2, <2>3 DEF MemoryGood, Placed
  <2>6. LogBelow'
    BY <1>1, <1>6, <2>1, <2>3 DEF IdInv, LogBelow
  <2>7. RegenGood'
    BY <1>1, <1>2, <1>3, <2>1, <2>3 DEF IdInv, RegenGood
  <2>8. PendingLine' /\ CreatingGood'
    BY <1>1 DEF PendingLine, CreatingGood, Creating
  <2> QED BY <1>2, <1>3, <2>4, <2>5, <2>6, <2>7, <2>8 DEF IdInv
<1> QED BY <1>4, <1>5, <1>6

-----------------------------------------------------------------------------
\* A preamble swap in memory gives system messages no id that the log has.
LEMMA SwapPlaced ==
  ASSUME IdInv, pc = "idle", mem # NULL, NEW p \in Preambles
  PROVE  LET st == ReplacePreamble(mem, p)
         IN  /\ st \in State /\ st # NULL /\ Placed(st, log, Whole)
             /\ Entries(st) = Entries(mem) /\ st.last_seq >= mem.last_seq
             /\ st.context_checkpoint = mem.context_checkpoint
             /\ \A x \in SystemIds(st) : x \in SystemIds(mem) \/ x > mem.last_seq
<1> DEFINE st == ReplacePreamble(mem, p)
<1>1. /\ mem \in State /\ Aligned(mem) /\ SameLength(mem) /\ mem.last_seq \in Nat
      /\ SystemIds(mem) \cap Recorded(log) = {}
      /\ Whole => EntryIds(mem) \subseteq Recorded(log)
      /\ log \in Seq(Line)
  BY LiveIds
<1>2. p \in Seq(Message) /\ \A i \in 1..Len(p) : p[i].role = "system"
  <2> DEFINE P == [role : {"system"}, body : Body]
  <2>1. P \subseteq Message /\ \A x \in P : x.role = "system"
    BY DEF Message, Role
  <2>2. p \in Seq(P)
    BY MessagesAssumption
  <2> HIDE DEF P
  <2>3. Len(p) \in Nat /\ p \in [1..Len(p) -> Message]
    BY <2>1, <2>2
  <2> QED BY <2>1, <2>2, <2>3
<1>3. st \in State /\ SameLength(st) /\ st.last_seq >= mem.last_seq
  BY <1>1, <1>2, ReplacePreambleType
<1>4. /\ Aligned(st) /\ Entries(st) = Entries(mem)
      /\ \A x \in SystemIds(st) : x \in SystemIds(mem) \/ x > mem.last_seq
  BY <1>1, <1>2, SwapAligned
<1>5. st.context_checkpoint = mem.context_checkpoint
  BY <1>1 DEF ReplacePreamble, State
<1> HIDE DEF st
<1>6. SystemIds(st) \cap Recorded(log) = {}
  <2> SUFFICES ASSUME NEW x \in SystemIds(st), x \in Recorded(log) PROVE FALSE
    OBVIOUS
  <2>1. PICK i \in 1..Len(log) : IsTranscript(log[i]) /\ x = log[i].seq
    BY DEF Recorded
  <2>2. x <= mem.last_seq
    BY <2>1 DEF IdInv, LogBelow, IsTranscript
  <2>3. x \in Nat
    BY <1>1, <2>1, LineFields
  <2> QED BY <1>1, <1>4, <2>2, <2>3
<1>7. EntryIds(st) = EntryIds(mem)
  BY <1>4 DEF EntryIds
<1>8. st # NULL
  BY <1>3, NullAssumption
<1> QED BY <1>1, <1>3, <1>4, <1>5, <1>6, <1>7, <1>8 DEF Placed, st

\* Starting an operation, given what it will record.
LEMMA OperationIds ==
  ASSUME IdInv, OperationEffect, Placed(mem', log, Whole), mem' # NULL,
         TodoGood', RegenGood', IdleOp'
  PROVE  IdInv'
<1>1. /\ pc = "idle" /\ mem # NULL
      /\ mem' \in State /\ mem'.last_seq >= mem.last_seq
      /\ UNCHANGED <<log, ended, snap, meta>>
      /\ op' \in Op /\ pc' \in {"idle", "append", "snapshot"}
      /\ pc' = "append" => op'.todo # <<>>
      /\ regen' \in Nat \cup {NULL} /\ unsaved' \in BOOLEAN /\ TypeOK
  BY DEF OperationEffect, disk, IdInv, TypeOK
<1>2. BaseGood' /\ LogGood' /\ Base' = Base /\ Whole' = Whole
  BY <1>1, LogFrame DEF IdInv
<1>3. TypeOK'
  BY <1>1 DEF TypeOK, Pc
<1>4. /\ mem.last_seq \in Nat /\ Base.last_seq \in Nat /\ Base.last_seq <= mem.last_seq
      /\ snap # NULL /\ log \in Seq(Line)
  BY <1>1, LiveIds
<1>5. mem'.last_seq \in Nat
  BY <1>1 DEF State
<1>6. MemoryGood'
  <2>1. Base.last_seq <= mem'.last_seq
    BY <1>1, <1>4, <1>5
  <2> QED BY <1>1, <1>2, <1>4, <2>1 DEF MemoryGood
<1>7. LogBelow'
  <2> SUFFICES ASSUME NEW i \in 1..Len(log), IsMessage(log[i])
               PROVE  log[i].seq <= mem'.last_seq
    BY <1>1 DEF LogBelow
  <2>1. log[i].seq <= mem.last_seq
    BY <1>1 DEF IdInv, LogBelow
  <2>2. log[i].seq \in Nat
    BY <1>4, LineFields
  <2> QED BY <1>1, <1>4, <1>5, <2>1, <2>2
<1>8. PendingLine' /\ CreatingGood'
  BY <1>1 DEF PendingLine, CreatingGood, Creating
<1> QED BY <1>2, <1>3, <1>6, <1>7, <1>8 DEF IdInv

\* The events of an operation are good for the session it starts with.
LEMMA StartGood ==
  ASSUME NEW events \in Seq(Event), NEW save \in BOOLEAN, NEW by \in {"worker", "handler"},
         Start(events, save, by), UNCHANGED <<log, ended>>, mem' # NULL,
         \A j \in 1..Len(events) : EventGood(events[j], j = 1, by, mem', log, Whole)
  PROVE  /\ TodoGood' /\ IdleOp' /\ op'.by = by
<1>1. op'.todo = events /\ op'.by = by /\ pc' = IF events # <<>> THEN "append" ELSE "snapshot"
  <2> DEFINE sv == save /\ events # <<>>
  <2>1. op' = [todo |-> events, save |-> sv, by |-> by]
    BY DEF Start
  <2> HIDE DEF sv
  <2> QED BY <2>1 DEF Start
<1>2. Whole' = Whole
  BY LogFrame
<1>3. TodoGood'
  <2> SUFFICES ASSUME NEW j \in 1..Len(events)
               PROVE  EventGood(events[j], j = 1 /\ pc' \in {"append", "apply"}, by,
                                mem', log, Whole)
    BY <1>1, <1>2 DEF TodoGood
  <2>1. events # <<>>
    OBVIOUS
  <2> QED BY <1>1, <2>1 DEF EventGood
<1> QED BY <1>1, <1>3 DEF IdleOp

LEMMA OperationsIds ==
  ASSUME IdInv, Operation \/ Regenerate
  PROVE  IdInv'
<1>1. pc = "idle" /\ mem # NULL
  BY DEF Operation, Regenerate, RecordMessage, RecordOutcome, RecordGoalProgress,
         ChangeGoal, EditUserMessage, CheckRegenerate, PatchSettings, ApplySettings,
         CompactContext, Ready
<1>2. /\ mem \in State /\ Aligned(mem) /\ SameLength(mem) /\ mem.last_seq \in Nat
      /\ SystemIds(mem) \cap Recorded(log) = {}
      /\ Whole => EntryIds(mem) \subseteq Recorded(log)
      /\ MemoryCoversSnapshot /\ ~Creating
  BY <1>1, LiveIds
<1>3. OperationEffect
  BY <1>2, OperationStep DEF IdInv
<1>4. UNCHANGED <<log, ended>> /\ Whole' = Whole
  BY <1>3, LogFrame DEF OperationEffect, disk
<1>5. op = NoOp /\ op.by = "worker" /\ op.todo = <<>>
  BY <1>1 DEF IdInv, IdleOp, NoOp
<1>6. Placed(mem, log, Whole)
  BY <1>2 DEF Placed
<1>7. ASSUME NEW x \in EntryIds(mem)
      PROVE  /\ x \notin SystemIds(mem) /\ x \in Nat /\ x <= mem.last_seq
             /\ Whole => x \in Recorded(log)
  BY <1>2, AlignedIds
<1>8. ASSUME regen' \in {regen, NULL}, op'.by # "resume", mem' # NULL,
             mem'.last_seq >= mem.last_seq, mem'.last_seq \in Nat,
             \A x \in SystemIds(mem') : x \in SystemIds(mem) \/ x > mem.last_seq
      PROVE  RegenGood'
  <2> SUFFICES ASSUME regen' # NULL, regen' = regen, regen # NULL
               PROVE  /\ regen \notin SystemIds(mem') /\ regen <= mem'.last_seq
                      /\ Whole => regen \in Recorded(log)
    BY <1>4, <1>8 DEF RegenGood
  <2>1. /\ regen \notin SystemIds(mem) /\ regen <= mem.last_seq
        /\ Whole => regen \in Recorded(log)
    BY DEF IdInv, RegenGood
  <2>2. regen \in Nat
    BY DEF IdInv, TypeOK
  <2> QED BY <1>2, <1>8, <2>1, <2>2
<1>9. ASSUME mem' = mem, TodoGood', RegenGood', IdleOp'
      PROVE  IdInv'
  BY <1>1, <1>3, <1>6, <1>9, OperationIds
<1>10. ASSUME mem' = mem, regen' \in {regen, NULL}, NEW ev \in Event, NEW save \in BOOLEAN,
              NEW by \in {"worker", "handler"}, Start(<<ev>>, save, by),
              EventGood(ev, TRUE, by, mem, log, Whole)
       PROVE  IdInv'
  <2> DEFINE evs == <<ev>>
  <2>1. evs \in Seq(Event) /\ \A j \in 1..Len(evs) : evs[j] = ev /\ j = 1
    OBVIOUS
  <2>2. \A j \in 1..Len(evs) : EventGood(evs[j], j = 1, by, mem', log, Whole)
    BY <1>10, <2>1 DEF EventGood
  <2>3. Start(evs, save, by) /\ mem' # NULL
    BY <1>1, <1>10
  <2> HIDE DEF evs
  <2>4. TodoGood' /\ IdleOp' /\ op'.by = by
    BY <1>4, <2>1, <2>2, <2>3, StartGood
  <2>5. RegenGood'
    BY <1>1, <1>2, <1>8, <1>10, <2>4
  <2> QED BY <1>9, <1>10, <2>4, <2>5
<1>11. CASE RecordMessage
  <2>1. PICK m \in Recordable : Start(<<MessageEvent(m)>>, FALSE, "worker")
    BY <1>11 DEF RecordMessage
  <2>2. MessageEvent(m) \in Event /\ m.role # "system"
    BY MessagesAssumption, EventConstructors
  <2>3. EventGood(MessageEvent(m), TRUE, "worker", mem, log, Whole)
    BY <2>2 DEF EventGood, MessageEvent, Plain, Refers
  <2>4. mem' = mem /\ regen' = regen
    BY <1>11 DEF RecordMessage
  <2> QED BY <1>10, <2>1, <2>2, <2>3, <2>4
<1>12. CASE RecordOutcome
  <2>1. PICK t \in {"finish", "error"} : Start(<<Plain(t)>>, FALSE, "worker")
    BY <1>12 DEF RecordOutcome
  <2>2. Plain(t) \in Event
    BY EventConstructors
  <2>3. EventGood(Plain(t), TRUE, "worker", mem, log, Whole)
    BY DEF EventGood, Plain, Refers
  <2>4. mem' = mem /\ regen' = regen
    BY <1>12 DEF RecordOutcome
  <2> QED BY <1>10, <2>1, <2>2, <2>3, <2>4
<1>13. CASE RecordGoalProgress
  <2>1. PICK ev \in {Plain("goal_usage"), GoalCompleted(mem.goal)} :
           Start(<<ev>>, FALSE, "worker")
    BY <1>13 DEF RecordGoalProgress
  <2>2. mem.goal \in Goal
    BY <1>2, <1>13 DEF RecordGoalProgress, State
  <2>3. ev \in Event
    BY <2>2, EventConstructors
  <2>4. EventGood(ev, TRUE, "worker", mem, log, Whole)
    BY DEF EventGood, Plain, GoalCompleted, Refers
  <2>5. mem' = mem /\ regen' = regen
    BY <1>13 DEF RecordGoalProgress
  <2> QED BY <1>10, <2>1, <2>3, <2>4, <2>5
<1>14. CASE ChangeGoal
  <2>1. PICK ev \in {GoalSet, Plain("goal_cleared")} : Start(<<ev>>, TRUE, "handler")
    BY <1>14 DEF ChangeGoal
  <2>2. ev \in Event
    BY EventConstructors
  <2>3. EventGood(ev, TRUE, "handler", mem, log, Whole)
    BY DEF EventGood, Plain, GoalSet, Refers
  <2>4. mem' = mem /\ regen' = regen
    BY <1>14 DEF ChangeGoal
  <2> QED BY <1>10, <2>1, <2>2, <2>3, <2>4
<1>15. ASSUME NEW id, NEW i \in 1..Len(mem.messages), mem.messages[i].role # "system",
              id = mem.message_ids[i]
       PROVE  id \in EntryIds(mem)
  BY <1>2, <1>15, EntryMembers
<1>16. CASE EditUserMessage
  <2>1. PICK id \in UserMessageIds(mem), b \in Body :
           Start(<<MessageEdit(id, [role |-> "user", body |-> b]), TruncateAfter(id)>>,
                 TRUE, "handler")
    BY <1>16 DEF EditUserMessage
  <2>2. id \in EntryIds(mem)
    <3>1. PICK i \in 1..Len(mem.messages) : /\ mem.messages[i].role \in {"user", "hidden"}
                                            /\ id = mem.message_ids[i]
      BY DEF UserMessageIds
    <3>2. mem.messages[i].role # "system"
      BY <3>1
    <3> QED BY <1>15, <3>1, <3>2
  <2>3. /\ id \notin SystemIds(mem) /\ id \in Nat /\ id <= mem.last_seq
        /\ Whole => id \in Recorded(log)
    BY <1>7, <2>2
  <2> DEFINE m == [role |-> "user", body |-> b]
             e1 == MessageEdit(id, m)
             e2 == TruncateAfter(id)
             evs == <<e1, e2>>
  <2>4. m \in Message /\ m.role # "system"
    BY DEF Message, Role
  <2> HIDE DEF m
  <2>5. e1 \in Event /\ e2 \in Event
    BY <2>3, <2>4, EventConstructors
  <2>6. EventGood(e1, TRUE, "handler", mem, log, Whole)
    BY <2>3, <2>4 DEF EventGood, MessageEdit, Plain, Refers
  <2>7. EventGood(e2, FALSE, "handler", mem, log, Whole)
    BY <2>3 DEF EventGood, TruncateAfter, Plain, Refers
  <2>8. Start(<<e1, e2>>, TRUE, "handler")
    BY <2>1 DEF m
  <2>9. mem' = mem /\ regen' = regen
    BY <1>16 DEF EditUserMessage
  <2> HIDE DEF e1, e2
  <2>10. evs \in Seq(Event) /\ Len(evs) = 2 /\ evs[1] = e1 /\ evs[2] = e2
    BY <2>5
  <2>11. \A j \in 1..Len(evs) : EventGood(evs[j], j = 1, "handler", mem', log, Whole)
    <3> TAKE j \in 1..Len(evs)
    <3>1. j = 1 \/ j = 2
      BY <2>10
    <3>2. CASE j = 1
      BY <2>6, <2>9, <2>10, <3>2 DEF EventGood
    <3>3. CASE j = 2
      BY <2>7, <2>9, <2>10, <3>3 DEF EventGood
    <3> QED BY <3>1, <3>2, <3>3
  <2>12. Start(evs, TRUE, "handler") /\ mem' # NULL
    BY <1>1, <2>8, <2>9
  <2> HIDE DEF evs
  <2>13. TodoGood' /\ IdleOp' /\ op'.by = "handler"
    BY <1>4, <2>10, <2>11, <2>12, StartGood
  <2>14. RegenGood'
    BY <1>1, <1>2, <1>8, <2>9, <2>13
  <2> QED BY <1>9, <2>9, <2>13, <2>14
<1>17. CASE CheckRegenerate
  <2>1. /\ UNCHANGED <<mem, pc, op>> /\ regen' \in VisibleUserMessageIds(mem)
    BY <1>17 DEF CheckRegenerate
  <2>2. regen' \in EntryIds(mem)
    <3>1. PICK i \in 1..Len(mem.messages) : /\ mem.messages[i].role = "user"
                                            /\ regen' = mem.message_ids[i]
      BY <2>1 DEF VisibleUserMessageIds
    <3>2. mem.messages[i].role # "system"
      BY <3>1
    <3> QED BY <1>15, <3>1, <3>2
  <2>3. RegenGood'
    BY <1>1, <1>4, <1>5, <1>7, <2>1, <2>2 DEF RegenGood
  <2>4. TodoGood' /\ IdleOp'
    <3>1. 1..Len(<<>>) = {}
      OBVIOUS
    <3> QED BY <1>5, <2>1, <3>1 DEF TodoGood, IdleOp
  <2> QED BY <1>9, <2>1, <2>3, <2>4
<1>18. CASE Regenerate
  <2>1. Start(<<TruncateAfter(regen)>>, TRUE, "handler") /\ mem' = mem /\ regen' = NULL
        /\ regen # NULL
    BY <1>18 DEF Regenerate
  <2>2. regen \in Nat /\ TruncateAfter(regen) \in Event
    <3>1. regen \in Nat
      BY <2>1 DEF IdInv, TypeOK
    <3> QED BY <3>1, EventConstructors
  <2>3. EventGood(TruncateAfter(regen), TRUE, "handler", mem, log, Whole)
    BY <2>1 DEF IdInv, RegenGood, EventGood, TruncateAfter, Plain, Refers
  <2> QED BY <1>10, <2>1, <2>2, <2>3
<1>19. ASSUME NEW p \in Preambles, mem' = ReplacePreamble(mem, p), regen' = regen,
              TodoGood', IdleOp', op'.by # "resume"
       PROVE  IdInv'
  <2>1. /\ mem' \in State /\ mem' # NULL /\ Placed(mem', log, Whole)
        /\ mem'.last_seq >= mem.last_seq
        /\ \A x \in SystemIds(mem') : x \in SystemIds(mem) \/ x > mem.last_seq
    BY <1>1, <1>19, SwapPlaced
  <2>2. mem'.last_seq \in Nat
    BY <2>1 DEF State
  <2>3. RegenGood'
    BY <1>8, <1>19, <2>1, <2>2
  <2> QED BY <1>3, <1>19, <2>1, <2>3, OperationIds
<1>20. ASSUME NEW by \in {"worker", "handler"}, Start(<<>>, TRUE, by), mem' # NULL
       PROVE  TodoGood' /\ IdleOp' /\ op'.by = by
  <2>1. <<>> \in Seq(Event) /\ 1..Len(<<>>) = {}
    OBVIOUS
  <2> QED BY <1>4, <1>20, <2>1, StartGood
<1>21. CASE PatchSettings
  <2>1. Start(<<>>, TRUE, "handler") /\ mem' = mem /\ regen' = regen
    BY <1>21 DEF PatchSettings
  <2>2. TodoGood' /\ IdleOp' /\ op'.by = "handler"
    BY <1>1, <1>20, <2>1
  <2>3. RegenGood'
    BY <1>1, <1>2, <1>8, <2>1, <2>2
  <2> QED BY <1>9, <2>1, <2>2, <2>3
<1>22. CASE ApplySettings
  <2>1. PICK p \in Preambles, by \in {"worker", "handler"} :
           mem' = ReplacePreamble(mem, p) /\ Start(<<>>, TRUE, by)
    BY <1>22 DEF ApplySettings
  <2>2. regen' = regen
    BY <1>22 DEF ApplySettings
  <2>3. mem' # NULL
    BY <1>1, <2>1, SwapPlaced
  <2>4. TodoGood' /\ IdleOp' /\ op'.by = by
    BY <1>20, <2>1, <2>3
  <2> QED BY <1>19, <2>1, <2>2, <2>4
<1>23. CASE CompactContext
  <2>1. PICK p \in Preambles :
           LET st == ReplacePreamble(mem, p)
           IN  /\ mem' = st
               /\ Start(<<ContextCheckpoint([base |-> LastId(st),
                                             covers |-> Entries(st)])>>, TRUE, "worker")
    BY <1>23 DEF CompactContext
  <2>2. mem' \in State /\ SameLength(mem') /\ mem' # NULL
    <3>1. mem' \in State /\ mem' # NULL /\ Placed(mem', log, Whole)
      BY <1>1, <2>1, SwapPlaced
    <3> QED BY <3>1, AlignedLength DEF Placed
  <2> DEFINE ck == [base |-> LastId(mem'), covers |-> Entries(mem')]
             ev == ContextCheckpoint(ck)
             evs == <<ev>>
  <2>3. ck \in Checkpoint
    <3>1. mem'.messages \in Seq(Message) /\ mem'.message_ids \in Seq(Nat)
          /\ Len(mem'.messages) = Len(mem'.message_ids)
      BY <2>2 DEF State, SameLength
    <3>2. LastId(mem') \in Nat
      BY <3>1 DEF LastId
    <3>3. Entries(mem') \in SUBSET (Nat \X Message)
      BY <3>1 DEF Entries
    <3> QED BY <3>2, <3>3 DEF Checkpoint
  <2>4. Start(<<ev>>, TRUE, "worker")
    BY <2>1
  <2> HIDE DEF ck
  <2>5. ev \in Event
    BY <2>3, EventConstructors
  <2>6. EventGood(ev, TRUE, "worker", mem', log, Whole)
    BY DEF EventGood, ContextCheckpoint, Plain, Refers
  <2> HIDE DEF ev
  <2>7. evs \in Seq(Event) /\ \A j \in 1..Len(evs) : evs[j] = ev /\ j = 1
    BY <2>5
  <2>8. \A j \in 1..Len(evs) : EventGood(evs[j], j = 1, "worker", mem', log, Whole)
    BY <2>6, <2>7 DEF EventGood
  <2>9. Start(evs, TRUE, "worker")
    BY <2>4
  <2> HIDE DEF evs
  <2>10. TodoGood' /\ IdleOp' /\ op'.by = "worker"
    BY <1>4, <2>2, <2>7, <2>8, <2>9, StartGood
  <2>11. regen' = regen
    BY <1>23 DEF CompactContext
  <2>12. mem' = ReplacePreamble(mem, p)
    BY <2>1
  <2> QED BY <1>19, <2>10, <2>11, <2>12
<1> QED BY <1>11, <1>12, <1>13, <1>14, <1>16, <1>17, <1>18, <1>21, <1>22, <1>23
        DEF Operation

-----------------------------------------------------------------------------
\* Every step, whatever faults the instance has.
LEMMA NextIds ==
  ASSUME IdInv, [Next]_vars
  PROVE  IdInv'
<1>1. CASE Create \/ CreateAppend \/ CreateMeta \/ CreateSnapshot
  BY <1>1, CreateIds
<1>2. CASE Crash \/ Delete
  BY <1>2, EndIds
<1>3. CASE Operation \/ Regenerate
  BY <1>3, OperationsIds
<1>4. CASE AppendEventLine
  BY <1>4, AppendIds
<1>5. CASE Apply
  BY <1>5, ApplyIds
<1>6. CASE WriteMeta \/ WriteSnapshotMeta
  BY <1>6, MetaIds
<1>7. CASE WriteSnapshot
  BY <1>7, SnapshotIds
<1>8. CASE Load
  BY <1>8, LoadIds
<1>9. CASE WriteFails
  BY <1>9, WriteFailsIds
<1>10. CASE TornCrash
  BY <1>10, TornIds
<1>11. CASE DropHandler
  BY <1>11, DropIds
<1>12. CASE UNCHANGED vars
  BY <1>12, StutterIds
<1> QED BY <1>1, <1>2, <1>3, <1>4, <1>5, <1>6, <1>7, <1>8, <1>9, <1>10, <1>11, <1>12
        DEF Next

\* The invariant holds in every state, whatever faults the instance has.
THEOREM IdInvariance == Spec => []IdInv
<1>1. Init => IdInv
  BY InitIds
<1>2. IdInv /\ [Next]_vars => IdInv'
  BY NextIds
<1> QED BY <1>1, <1>2, PTL DEF Spec

\* SessionState keeps messages and message_ids aligned: same length, ids distinct, none
\* beyond last_seq, transcript ids ascending, through any sequence of records, edits,
\* truncations, preamble swaps, crashes, torn appends, failed writes, dropped handlers
\* and loads.
THEOREM IdsAreAligned == Spec => []IdsAligned
<1>1. IdInv => IdsAligned
  BY DEF IdInv, MemoryGood, Placed, IdsAligned
<1> QED BY <1>1, IdInvariance, PTL

\* An append torn at the end of a file that could be read leaves one that can be read,
\* and load recovers from it the state before that event or, when only the newline is
\* missing, the state after it.
THEOREM TornTailIsTolerated == Spec => TornTailTolerated
<1> DEFINE Tolerated ==
             TornCrash /\ ended /\ ~Unreadable(log, ended) =>
                /\ ~Unreadable(log', ended')
                /\ Recovered' \in {Recovered,
                                   ApplyEvent(Recovered, Head(op.todo), mem.last_seq + 1)}
<1>1. IdInv => Tolerated
  <2> SUFFICES ASSUME IdInv, TornCrash, ended, Readable
               PROVE  /\ ~Unreadable(log', ended')
                      /\ Recovered' \in {Recovered, ApplyEvent(Recovered, Head(op.todo),
                                                               mem.last_seq + 1)}
    BY DEF Readable
  <2>1. pc = "append" /\ ended' = FALSE /\ snap' = snap /\ ended = TRUE
    BY DEF TornCrash, IdInv, TypeOK
  <2>2. PICK line \in {BadLine, NewLine} : log' = AppendTo(log, ended, line)
    BY DEF TornCrash
  <2>3. /\ mem # NULL /\ NewLine \in Line /\ NewLine.ok = TRUE
        /\ NewLine.seq = mem.last_seq + 1 /\ NewLine.event = Head(op.todo)
    BY <2>1, PendingEvent
  <2>4. BadLine.ok = FALSE /\ BadLine \in Line
    <3>1. Plain("error") \in Event
      BY EventConstructors
    <3> QED BY <3>1 DEF BadLine, Line
  <2>5. /\ log \in Seq(Line) /\ mem.last_seq \in Nat /\ Base.last_seq \in Nat
        /\ Base.last_snapshot_seq <= mem.last_seq /\ Base.last_snapshot_seq \in Nat
    BY <2>3, LiveIds
  <2>6. log' = Append(log, line) /\ line \in Line
    BY <2>1, <2>2, <2>3, <2>4 DEF AppendTo
  <2>7. ~Unreadable(log', ended')
    <3>1. Len(log') = Len(log) + 1 /\ \A i \in 1..Len(log) : log'[i] = log[i]
      BY <2>5, <2>6, AppendProperties
    <3>2. \A i \in 1..Len(log) : log[i].ok
      BY <2>1 DEF Readable, Unreadable
    <3>3. \A i \in 1..Len(log') : i < Len(log') => i \in 1..Len(log)
      BY <2>5, <3>1
    <3> QED BY <2>1, <3>1, <3>2, <3>3 DEF Unreadable
  <2>8. Recovered' = ReplayLine(Recovered, line, Base.last_snapshot_seq)
    BY <2>1, <2>5, <2>6, ReplayAppend DEF Recovered, Base
  <2>9. CASE line = BadLine
    BY <2>4, <2>7, <2>8, <2>9 DEF ReplayLine
  <2>10. CASE line = NewLine
    <3>1. ~(line.seq <= Base.last_snapshot_seq)
      BY <2>3, <2>5, <2>10
    <3> QED BY <2>3, <2>7, <2>8, <2>10, <3>1 DEF ReplayLine
  <2> QED BY <2>2, <2>9, <2>10
<1>2. IdInv /\ [Next]_vars => [Tolerated]_vars
  BY <1>1
<1> QED BY <1>2, IdInvariance, PTL DEF Spec, TornTailTolerated

-----------------------------------------------------------------------------
(***************************************************************************)
(* One transcript.  Without torn appends and dropped handlers the log      *)
(* alone, the snapshot with the log, and memory (with the event that has   *)
(* been appended and not yet applied) give the same transcript, and the    *)
(* context checkpoint of each summarises only messages it still has.       *)
(***************************************************************************)
LogState == Replay(EmptyState, log)

OneTranscript ==
    snap # NULL => /\ Entries(Recovered) = Entries(LogState)
                   /\ mem # NULL => Entries(Durable) = Entries(LogState)

\* An edit of message id whose truncation is not in the log (yet).
CutAt(lines, id) ==
    \E i \in 1..Len(lines) :
        /\ lines[i].event.type = "edit" /\ lines[i].event.id = id
        /\ ~\E j \in i + 1..Len(lines) : /\ lines[j].event.type = "truncate"
                                         /\ lines[j].event.id = id

\* What the checkpoint of a session covers is in its transcript, under the same id and,
\* but for such an edit, with the same text; and a truncation that would take it away
\* is one the checkpoint's base shows.
CoversKept(st, lines) ==
    st.context_checkpoint # NULL =>
        \A e \in st.context_checkpoint.covers :
            /\ e[1] <= st.context_checkpoint.base
            /\ \E f \in Entries(st) : f[1] = e[1] /\ (f = e \/ CutAt(lines, e[1]))

CheckpointsKept ==
    snap # NULL => /\ CoversKept(Recovered, log)
                   /\ mem # NULL => CoversKept(Durable, log)

\* A checkpoint about to be recorded covers the transcript as it is.
CheckpointDue ==
    ~Creating =>
        \A j \in 1..Len(op.todo) :
            op.todo[j].type = "checkpoint" =>
                /\ j = 1 /\ Len(op.todo) = 1 /\ pc \in {"append", "apply"}
                /\ op.todo[j].checkpoint.covers = Entries(mem)
                /\ \A e \in Entries(mem) : e[1] <= op.todo[j].checkpoint.base

TranscriptInv == IInv /\ IdInv /\ OneTranscript /\ CheckpointsKept /\ CheckpointDue

-----------------------------------------------------------------------------
\* What an event does to the messages depends on the messages.
LEMMA SameMessages ==
  ASSUME NEW x \in State, NEW y \in State,
         x.messages = y.messages, x.message_ids = y.message_ids,
         NEW ev \in Event, NEW seq \in Nat
  PROVE  /\ ApplyEvent(x, ev, seq).messages = ApplyEvent(y, ev, seq).messages
         /\ ApplyEvent(x, ev, seq).message_ids = ApplyEvent(y, ev, seq).message_ids
<1> DEFINE r == ApplyEvent(x, ev, seq)
           q == ApplyEvent(y, ev, seq)
           i == Position(x.message_ids, ev.id)
           k == Position(y.message_ids, ev.id)
<1>1. i = k
  OBVIOUS
<1>2. CASE ev.type = "message"
  <2>1. /\ r.messages = Append(x.messages, ev.message)
        /\ r.message_ids = Append(x.message_ids, seq)
    BY <1>2, AppliedFields
  <2>2. /\ q.messages = Append(y.messages, ev.message)
        /\ q.message_ids = Append(y.message_ids, seq)
    BY <1>2, AppliedFields
  <2> HIDE DEF r, q
  <2> QED BY <2>1, <2>2 DEF r, q
<1>3. CASE ev.type = "edit"
  <2>1. /\ r.messages = IF i = 0 THEN x.messages ELSE [x.messages EXCEPT ![i] = ev.message]
        /\ r.message_ids = x.message_ids
    BY <1>3, AppliedFields
  <2>2. /\ q.messages = IF k = 0 THEN y.messages ELSE [y.messages EXCEPT ![k] = ev.message]
        /\ q.message_ids = y.message_ids
    BY <1>3, AppliedFields
  <2> HIDE DEF r, q, i, k
  <2> QED BY <1>1, <2>1, <2>2 DEF r, q
<1>4. CASE ev.type = "truncate"
  <2>1. /\ r.messages = IF i = 0 THEN x.messages ELSE SubSeq(x.messages, 1, i)
        /\ r.message_ids = IF i = 0 THEN x.message_ids ELSE SubSeq(x.message_ids, 1, i)
    BY <1>4, AppliedFields
  <2>2. /\ q.messages = IF k = 0 THEN y.messages ELSE SubSeq(y.messages, 1, k)
        /\ q.message_ids = IF k = 0 THEN y.message_ids ELSE SubSeq(y.message_ids, 1, k)
    BY <1>4, AppliedFields
  <2> HIDE DEF r, q, i, k
  <2> QED BY <1>1, <2>1, <2>2 DEF r, q
<1>5. CASE ev.type \notin {"message", "edit", "truncate"}
  <2>1. r.messages = x.messages /\ r.message_ids = x.message_ids
    BY <1>5, AppliedFields
  <2>2. q.messages = y.messages /\ q.message_ids = y.message_ids
    BY <1>5, AppliedFields
  <2> QED BY <2>1, <2>2
<1> QED BY <1>2, <1>3, <1>4, <1>5

\* Two sessions without messages replay to the same messages.
LEMMA ReplayEntries ==
  ASSUME NEW st \in State, NEW su \in State,
         st.messages = <<>>, st.message_ids = <<>>, st.last_snapshot_seq = 0,
         su.messages = <<>>, su.message_ids = <<>>, su.last_snapshot_seq = 0,
         NEW lines \in Seq(Line)
  PROVE  Entries(Replay(st, lines)) = Entries(Replay(su, lines))
<1> DEFINE n == Len(lines)
           g == ReplayStates(st, lines)
           h == ReplayStates(su, lines)
           Same(i) == /\ g[i] \in State /\ SameLength(g[i])
                      /\ h[i] \in State /\ SameLength(h[i])
                      /\ g[i].messages = h[i].messages
                      /\ g[i].message_ids = h[i].message_ids
           S == {i \in 0..n : Same(i)}
<1>1. n \in Nat
  OBVIOUS
<1>2. /\ g[0] = st /\ \A i \in 1..n : g[i] = ReplayLine(g[i - 1], lines[i], 0)
      /\ Replay(st, lines) = g[n]
      /\ h[0] = su /\ \A i \in 1..n : h[i] = ReplayLine(h[i - 1], lines[i], 0)
      /\ Replay(su, lines) = h[n]
  BY ReplayStatesProperties
<1> HIDE DEF g, h
<1>3. 0 \in S
  BY <1>1, <1>2 DEF SameLength
<1>4. ASSUME NEW i \in 1..n, i - 1 \in S PROVE i \in S
  <2> DEFINE x == g[i - 1]
             y == h[i - 1]
             ev == lines[i].event
             seq == lines[i].seq
  <2>1. /\ x \in State /\ SameLength(x) /\ y \in State /\ SameLength(y)
        /\ x.messages = y.messages /\ x.message_ids = y.message_ids
    BY <1>4
  <2>2. ev \in Event /\ seq \in Nat
    BY LineFields
  <2>3. g[i] = ReplayLine(x, lines[i], 0) /\ h[i] = ReplayLine(y, lines[i], 0)
    BY <1>2
  <2>4. CASE ~lines[i].ok \/ seq <= 0
    <3>1. g[i] = x /\ h[i] = y
      BY <2>3, <2>4 DEF ReplayLine
    <3> QED BY <2>1, <3>1
  <2>5. CASE ~(~lines[i].ok \/ seq <= 0)
    <3>1. g[i] = ApplyEvent(x, ev, seq) /\ h[i] = ApplyEvent(y, ev, seq)
      BY <2>3, <2>5 DEF ReplayLine
    <3> HIDE DEF x, y, ev, seq
    <3>2. /\ g[i] \in State /\ SameLength(g[i]) /\ h[i] \in State /\ SameLength(h[i])
      BY <2>1, <2>2, <3>1, ApplyEventType
    <3>3. g[i].messages = h[i].messages /\ g[i].message_ids = h[i].message_ids
      BY <2>1, <2>2, <3>1, SameMessages
    <3> QED BY <3>2, <3>3
  <2> QED BY <2>4, <2>5
<1>5. \A i \in 0..n : i \in S
  <2> HIDE DEF S
  <2> QED BY <1>1, <1>3, <1>4, BoundedInduction
<1>6. Same(n)
  BY <1>1, <1>5
<1> QED BY <1>2, <1>6 DEF Entries

\* No checkpoint comes out of a log without checkpoint events.
LEMMA ReplayNoCheckpoint ==
  ASSUME NEW st \in State, SameLength(st), st.context_checkpoint = NULL,
         NEW lines \in Seq(Line), \A i \in 1..Len(lines) : lines[i].event.type = "message"
  PROVE  Replay(st, lines).context_checkpoint = NULL
<1> DEFINE P == {x \in State : SameLength(x) /\ x.context_checkpoint = NULL}
<1>1. st \in P
  OBVIOUS
<1>2. ASSUME NEW x \in P, NEW i \in 1..Len(lines)
      PROVE  ReplayLine(x, lines[i], st.last_snapshot_seq) \in P
  <2>1. lines[i].event \in Event /\ lines[i].seq \in Nat
    BY LineFields
  <2> DEFINE y == ApplyEvent(x, lines[i].event, lines[i].seq)
  <2>2. y \in State /\ SameLength(y)
    BY <2>1, ApplyEventType
  <2>3. y.context_checkpoint = x.context_checkpoint
    <3>1. lines[i].event.type \notin {"truncate", "checkpoint"}
      OBVIOUS
    <3> QED BY <2>1, <3>1, AppliedFields
  <2> HIDE DEF y
  <2>4. y \in P
    BY <2>2, <2>3
  <2>5. ReplayLine(x, lines[i], st.last_snapshot_seq) \in {x, y}
    BY DEF ReplayLine, y
  <2> QED BY <2>4, <2>5
<1> HIDE DEF P
<1>3. Replay(st, lines) \in P
  BY <1>1, <1>2, ReplayStaysIn
<1> QED BY <1>3 DEF P

\* The sessions the three places give, while one is live.
LEMMA ThreeStates ==
  ASSUME IInv, IdInv, mem # NULL, pc # "apply"
  PROVE  /\ ended = TRUE /\ Whole /\ log \in Seq(Line) /\ mem.last_seq \in Nat
         /\ \A st \in {LogState, Recovered, mem} :
               /\ st \in State /\ Aligned(st) /\ st.last_seq <= mem.last_seq
               /\ SystemIds(st) \cap Recorded(log) = {}
<1>1. /\ mem \in State /\ Aligned(mem) /\ SameLength(mem) /\ mem.last_seq \in Nat
      /\ Base \in State /\ Aligned(Base) /\ SameLength(Base) /\ Base.last_seq \in Nat
      /\ Base.last_seq = Base.last_snapshot_seq /\ Base.last_seq <= mem.last_seq
      /\ SystemIds(mem) \cap Recorded(log) = {}
      /\ log \in Seq(Line) /\ snap # NULL
  BY LiveIds, AlignedLength
<1>2. ended = TRUE /\ Readable
  BY DEF IInv, LogReadable, Readable, Unreadable
<1>3. Ordered(log) /\ RefersBack(log)
  BY <1>2 DEF IdInv, LogGood
<1>4. \A i \in 1..Len(log) : log[i].seq <= mem.last_seq
  BY DEF IInv, MemoryCoversLog, LastSeqUsed
<1>5. SystemIds(Base) \cap Recorded(log) = {}
  BY <1>1 DEF IdInv, BaseGood, Placed
<1>6. ASSUME NEW b \in State, Aligned(b), SameLength(b), b.last_seq = b.last_snapshot_seq,
             SystemIds(b) \cap Recorded(log) = {}, b.last_seq <= mem.last_seq
      PROVE  /\ Replay(b, log) \in State /\ Aligned(Replay(b, log))
             /\ Replay(b, log).last_seq <= mem.last_seq
             /\ SystemIds(Replay(b, log)) \cap Recorded(log) = {}
  <2>1. /\ Replay(b, log) \in State /\ Aligned(Replay(b, log))
        /\ SystemIds(Replay(b, log)) \cap Recorded(log) = {}
    BY <1>1, <1>3, <1>6, ReplayKeeps
  <2>2. Replay(b, log).last_seq <= mem.last_seq
    BY <1>1, <1>4, <1>6, ReplayBound
  <2> QED BY <2>1, <2>2
<1>7. /\ EmptyState \in State /\ SameLength(EmptyState) /\ Aligned(EmptyState)
      /\ EmptyState.last_seq = 0 /\ EmptyState.last_snapshot_seq = 0
      /\ SystemIds(EmptyState) = {}
  <2>1. EmptyState.messages = <<>> /\ EmptyState.message_ids = <<>>
    BY DEF EmptyState
  <2> QED BY <2>1, EmptyStateType, EmptyAligned
<1>8. /\ LogState \in State /\ Aligned(LogState) /\ LogState.last_seq <= mem.last_seq
      /\ SystemIds(LogState) \cap Recorded(log) = {}
  BY <1>1, <1>6, <1>7 DEF LogState
<1>9. /\ Recovered \in State /\ Aligned(Recovered) /\ Recovered.last_seq <= mem.last_seq
      /\ SystemIds(Recovered) \cap Recorded(log) = {}
  BY <1>1, <1>5, <1>6 DEF Recovered, Base
<1> QED BY <1>1, <1>2, <1>8, <1>9 DEF Whole

-----------------------------------------------------------------------------
\* The event being recorded fits each of them.
LEMMA EventFits ==
  ASSUME IInv, IdInv, pc = "append", NEW st, st \in {LogState, Recovered, mem}
  PROVE  Fits(st, Head(op.todo), mem.last_seq + 1)
<1> DEFINE ev == Head(op.todo)
<1>1. mem # NULL /\ EventGood(ev, TRUE, op.by, mem, log, Whole)
  BY PendingEvent
<1>2. /\ Whole /\ mem.last_seq \in Nat
      /\ st \in State /\ Aligned(st) /\ st.last_seq <= mem.last_seq
      /\ SystemIds(st) \cap Recorded(log) = {}
  BY <1>1, ThreeStates
<1>3. \A x \in Ids(st) : x < mem.last_seq + 1
  <2>1. st.last_seq \in Nat /\ \A x \in Ids(st) : x \in Nat /\ x <= st.last_seq
    BY <1>2, AlignedIds
  <2> QED BY <1>2, <2>1
<1> HIDE DEF ev
<1> QED BY <1>1, <1>2, <1>3 DEF Fits, EventGood, ev

\* Edits that no truncation follows, after one more line.
LEMMA CutAppend ==
  ASSUME NEW lines \in Seq(Line), NEW line \in Line
  PROVE  LET more == Append(lines, line)
         IN  /\ \A id : /\ CutAt(lines, id)
                        /\ line.event.type # "truncate" \/ line.event.id # id
                        => CutAt(more, id)
             /\ line.event.type = "edit" => CutAt(more, line.event.id)
<1> DEFINE more == Append(lines, line)
           n == Len(lines)
<1>1. /\ n \in Nat /\ more \in Seq(Line) /\ Len(more) = n + 1 /\ more[n + 1] = line
      /\ \A i \in 1..n : more[i] = lines[i]
  BY AppendProperties
<1> HIDE DEF more
<1>2. ASSUME NEW id, CutAt(lines, id),
             line.event.type # "truncate" \/ line.event.id # id
      PROVE  CutAt(more, id)
  <2>1. PICK i \in 1..n : /\ lines[i].event.type = "edit" /\ lines[i].event.id = id
                          /\ ~\E j \in i + 1..n : /\ lines[j].event.type = "truncate"
                                                  /\ lines[j].event.id = id
    BY <1>2 DEF CutAt
  <2>2. i \in 1..Len(more) /\ more[i] = lines[i]
    BY <1>1
  <2>3. ASSUME NEW j \in i + 1..Len(more), more[j].event.type = "truncate",
               more[j].event.id = id
        PROVE  FALSE
    <3>1. j = n + 1 \/ (j \in i + 1..n /\ j \in 1..n)
      BY <1>1
    <3> QED BY <1>1, <1>2, <2>1, <2>3, <3>1
  <2> QED BY <2>1, <2>2, <2>3 DEF CutAt
<1>3. ASSUME line.event.type = "edit" PROVE CutAt(more, line.event.id)
  <2>1. n + 1 \in 1..Len(more) /\ (n + 1) + 1..Len(more) = {}
    BY <1>1
  <2> QED BY <1>1, <1>3, <2>1 DEF CutAt
<1> QED BY <1>2, <1>3 DEF more

\* A recorded event leaves the checkpoint covering what is there: a truncation below
\* its base drops it, and an edit is known as such.
LEMMA CoversStep ==
  ASSUME NEW st \in State, Aligned(st), NEW ev \in Event, NEW seq \in Nat, Fits(st, ev, seq),
         NEW lines \in Seq(Line), CoversKept(st, lines),
         ev.type = "checkpoint" =>
            /\ ev.checkpoint.covers = Entries(st)
            /\ \A e \in Entries(st) : e[1] <= ev.checkpoint.base
  PROVE  CoversKept(ApplyEvent(st, ev, seq), Append(lines, EventLine(seq, ev)))
<1> DEFINE r == ApplyEvent(st, ev, seq)
           c == st.context_checkpoint
           line == EventLine(seq, ev)
           more == Append(lines, line)
           k == Position(st.message_ids, ev.id)
<1>1. Entries(r) = EntriesAfter(Entries(st), ev, seq)
  BY ApplyKeeps
<1>2. line \in Line /\ line.event = ev
  BY DEF EventLine, Line
<1>3. SameLength(st)
  BY AlignedLength
<1>4. \A e \in Entries(st) : e \in Nat \X Message
  <2>1. \A i \in 1..Len(st.messages) : st.messages[i] \in Message /\ st.message_ids[i] \in Nat
    BY <1>3, StateFields
  <2> QED BY <2>1 DEF Entries
<1>5. ASSUME c # NULL, NEW e \in c.covers
      PROVE  /\ e[1] <= c.base /\ c.base \in Nat /\ e \in Nat \X Message
             /\ \E f \in Entries(st) : f[1] = e[1] /\ (f = e \/ CutAt(lines, e[1]))
  <2>1. c \in Checkpoint
    BY <1>5 DEF State
  <2>2. c.base \in Nat /\ e \in Nat \X Message
    BY <2>1 DEF Checkpoint
  <2> QED BY <1>5, <2>2 DEF CoversKept
<1>6. /\ \A id : /\ CutAt(lines, id)
                 /\ ev.type # "truncate" \/ ev.id # id
                 => CutAt(more, id)
      /\ ev.type = "edit" => CutAt(more, ev.id)
  <2> HIDE DEF line
  <2> QED BY <1>2, CutAppend
<1> HIDE DEF more, line
<1>7. CASE ev.type = "checkpoint"
  <2>1. r.context_checkpoint = ev.checkpoint /\ Entries(r) = Entries(st)
    <3>1. r.context_checkpoint = ev.checkpoint
      BY <1>7, AppliedFields
    <3> QED BY <1>1, <1>7, <3>1 DEF EntriesAfter
  <2> HIDE DEF r
  <2>2. CoversKept(r, more)
    BY <1>7, <2>1 DEF CoversKept
  <2> QED BY <2>2 DEF r, more, line
<1>8. CASE ev.type = "truncate"
  <2>1. r.context_checkpoint = IF k # 0 /\ c # NULL /\ c.base >= ev.id THEN NULL ELSE c
    BY <1>8, AppliedFields
  <2>2. ev.id \in Nat
    BY DEF Event, AnyEvent
  <2>3. k = 0 <=> ~\E e \in Entries(st) : e[1] = ev.id
    <3>1. st.message_ids \in Seq(Nat) /\ Len(st.message_ids) = Len(st.messages)
      BY <1>3, StateFields
    <3>2. /\ k \in 0..Len(st.messages)
          /\ k # 0 => st.message_ids[k] = ev.id
          /\ k = 0 => \A i \in 1..Len(st.messages) : st.message_ids[i] # ev.id
      BY <2>2, <3>1, PositionProperties
    <3>3. /\ \A x : x \in SystemIds(st) <=>
                      \E i \in 1..Len(st.messages) : /\ st.messages[i].role = "system"
                                                     /\ x = st.message_ids[i]
          /\ \A e : e \in Entries(st) <=>
                      \E i \in 1..Len(st.messages) :
                         /\ st.messages[i].role # "system"
                         /\ e = <<st.message_ids[i], st.messages[i]>>
      BY <1>3, EntryMembers
    <3>4. ev.id \notin SystemIds(st)
      BY <1>8 DEF Fits, Refers
    <3> HIDE DEF k
    <3>5. ASSUME k # 0 PROVE \E e \in Entries(st) : e[1] = ev.id
      <4>1. k \in 1..Len(st.messages)
        BY <3>2, <3>5
      <4>2. st.messages[k].role # "system"
        BY <3>2, <3>3, <3>4, <3>5, <4>1
      <4>3. <<st.message_ids[k], st.messages[k]>> \in Entries(st)
        BY <3>3, <4>1, <4>2
      <4> QED BY <3>2, <3>5, <4>3
    <3>6. ASSUME k = 0, NEW e \in Entries(st) PROVE e[1] # ev.id
      BY <3>2, <3>3, <3>6
    <3> QED BY <3>5, <3>6
  <2>4. Entries(r) = IF \E e \in Entries(st) : e[1] = ev.id
                     THEN {e \in Entries(st) : e[1] <= ev.id} ELSE Entries(st)
    BY <1>1, <1>8 DEF EntriesAfter
  <2> HIDE DEF r, k
  <2>5. CoversKept(r, more)
    <3> SUFFICES ASSUME r.context_checkpoint # NULL, NEW e \in r.context_checkpoint.covers
                 PROVE  /\ e[1] <= r.context_checkpoint.base
                        /\ \E f \in Entries(r) : f[1] = e[1] /\ (f = e \/ CutAt(more, e[1]))
      BY DEF CoversKept
    <3>1. r.context_checkpoint = c /\ c # NULL /\ ~(k # 0 /\ c.base >= ev.id)
      BY <2>1
    <3>2. e \in c.covers
      BY <3>1
    <3>3. e[1] <= c.base /\ c.base \in Nat /\ e[1] \in Nat
      BY <1>5, <3>1, <3>2
    <3>4. PICK f \in Entries(st) : f[1] = e[1] /\ (f = e \/ CutAt(lines, e[1]))
      BY <1>5, <3>1, <3>2
    <3>5. f \in Entries(r) /\ f[1] # ev.id
      <4>1. CASE k = 0
        BY <2>3, <2>4, <4>1
      <4>2. CASE k # 0
        <5>1. f[1] < ev.id
          BY <2>2, <3>1, <3>3, <3>4, <4>2
        <5> QED BY <2>2, <2>3, <2>4, <3>3, <3>4, <4>2, <5>1
      <4> QED BY <4>1, <4>2
    <3>6. f = e \/ CutAt(more, e[1])
      BY <1>6, <3>4, <3>5
    <3> QED BY <3>1, <3>3, <3>4, <3>5, <3>6
  <2> QED BY <2>5 DEF r, more, line
<1>9. CASE ev.type \notin {"checkpoint", "truncate"}
  <2>1. r.context_checkpoint = c
    BY <1>9, AppliedFields
  <2>2. ASSUME NEW f \in Entries(st)
        PROVE  \E g \in Entries(r) : g[1] = f[1] /\ (g = f \/ CutAt(more, f[1]))
    <3>1. CASE ev.type = "edit"
      <4>1. Entries(r) = {IF e[1] = ev.id THEN <<ev.id, ev.message>> ELSE e : e \in Entries(st)}
        BY <1>1, <3>1 DEF EntriesAfter
      <4>2. CASE f[1] = ev.id
        <5>1. <<ev.id, ev.message>> \in Entries(r)
          BY <4>1, <4>2
        <5> QED BY <1>6, <3>1, <4>2, <5>1
      <4>3. CASE f[1] # ev.id
        BY <4>1, <4>3
      <4> QED BY <4>2, <4>3
    <3>2. CASE ev.type = "message"
      BY <1>1, <3>2 DEF EntriesAfter
    <3>3. CASE ev.type \notin {"message", "edit", "truncate"}
      BY <1>1, <3>3 DEF EntriesAfter
    <3> QED BY <1>9, <3>1, <3>2, <3>3
  <2> HIDE DEF r
  <2>3. CoversKept(r, more)
    <3> SUFFICES ASSUME c # NULL, NEW e \in c.covers
                 PROVE  /\ e[1] <= c.base
                        /\ \E f \in Entries(r) : f[1] = e[1] /\ (f = e \/ CutAt(more, e[1]))
      BY <2>1 DEF CoversKept
    <3>1. PICK f \in Entries(st) : f[1] = e[1] /\ (f = e \/ CutAt(lines, e[1]))
      BY <1>5
    <3>2. PICK g \in Entries(r) : g[1] = f[1] /\ (g = f \/ CutAt(more, f[1]))
      BY <2>2
    <3>3. CutAt(lines, e[1]) => CutAt(more, e[1])
      BY <1>6, <1>9
    <3>4. e[1] <= c.base
      BY <1>5
    <3> QED BY <3>1, <3>2, <3>3, <3>4
  <2> QED BY <2>3 DEF r, more, line
<1> QED BY <1>7, <1>8, <1>9

-----------------------------------------------------------------------------
\* A step that appends nothing and keeps the snapshot, and after which memory shows
\* what the files or memory showed before.
LEMMA SameFiles ==
  ASSUME OneTranscript, CheckpointsKept, UNCHANGED <<log, snap>>,
         mem' # NULL /\ snap # NULL =>
            \/ /\ mem # NULL
               /\ Entries(Durable') = Entries(Durable)
               /\ Durable'.context_checkpoint = Durable.context_checkpoint
            \/ Durable' = Recovered
  PROVE  OneTranscript' /\ CheckpointsKept'
<1>1. LogState' = LogState /\ Recovered' = Recovered
  BY DEF LogState, Recovered
<1> SUFFICES ASSUME snap # NULL PROVE OneTranscript' /\ CheckpointsKept'
  BY DEF OneTranscript, CheckpointsKept
<1>2. /\ Entries(Recovered) = Entries(LogState) /\ CoversKept(Recovered, log)
      /\ mem # NULL => Entries(Durable) = Entries(LogState) /\ CoversKept(Durable, log)
  BY DEF OneTranscript, CheckpointsKept
<1>3. ASSUME mem' # NULL
      PROVE  Entries(Durable') = Entries(LogState) /\ CoversKept(Durable', log)
  <2>1. CASE Durable' = Recovered
    BY <1>2, <2>1
  <2>2. CASE /\ mem # NULL /\ Entries(Durable') = Entries(Durable)
             /\ Durable'.context_checkpoint = Durable.context_checkpoint
    BY <1>2, <2>2 DEF CoversKept
  <2> QED BY <1>3, <2>1, <2>2
<1>4. CoversKept(Recovered, log)'
  BY <1>1, <1>2 DEF CoversKept
<1>5. mem' # NULL => CoversKept(Durable, log)'
  BY <1>3 DEF CoversKept
<1> QED BY <1>1, <1>2, <1>3, <1>4, <1>5 DEF OneTranscript, CheckpointsKept

\* No session, no transcript.
LEMMA NoFiles ==
  ASSUME snap' = NULL
  PROVE  OneTranscript' /\ CheckpointsKept'
  BY DEF OneTranscript, CheckpointsKept

-----------------------------------------------------------------------------
\* The event that compaction records is the only one of its operation.

LEMMA NothingDue ==
  ASSUME op'.todo = <<>>
  PROVE  CheckpointDue'
<1>1. 1..Len(<<>>) = {}
  OBVIOUS
<1> QED BY <1>1 DEF CheckpointDue

\* Between two records no checkpoint is left to record.
LEMMA RestDue ==
  ASSUME CheckpointDue, ~Creating, pc \notin {"append", "apply"}, op'.todo = op.todo
  PROVE  CheckpointDue'
<1>1. \A j \in 1..Len(op.todo) : op.todo[j].type # "checkpoint"
  BY DEF CheckpointDue
<1> QED BY <1>1 DEF CheckpointDue

\* The base of a new checkpoint is at or after every transcript message.
LEMMA LastIdBounds ==
  ASSUME NEW st \in State, Aligned(st), NEW e \in Entries(st)
  PROVE  e[1] <= LastId(st)
<1> DEFINE n == Len(st.messages)
           end == PreambleEnd(st.messages)
<1>1. /\ n \in Nat /\ Len(st.message_ids) = n /\ st.messages \in Seq(Message)
      /\ \A i \in 1..n : st.message_ids[i] \in Nat
  BY AlignedLength, StateFields
<1>2. PICK i \in 1..n : /\ st.messages[i].role # "system"
                        /\ e = <<st.message_ids[i], st.messages[i]>>
  BY DEF Entries
<1>3. end \in 0..n /\ \A j \in 1..end : st.messages[j].role = "system"
  BY <1>1, PreambleEndProperties
<1> HIDE DEF end
<1>4. i \in end + 1..n /\ n \in end + 1..n /\ n \in 1..n
  BY <1>1, <1>2, <1>3
<1>5. LastId(st) = st.message_ids[n]
  BY <1>1, <1>4 DEF LastId
<1>6. i < n => st.message_ids[i] < st.message_ids[n]
  BY <1>4 DEF Aligned, end
<1> QED BY <1>1, <1>2, <1>4, <1>5, <1>6

LEMMA CompactDue ==
  ASSUME IInv, IdInv, CompactContext
  PROVE  CheckpointDue'
<1>1. pc = "idle" /\ mem # NULL
  BY DEF CompactContext, Ready
<1>2. PICK p \in Preambles :
         LET st == ReplacePreamble(mem, p)
         IN  /\ mem' = st
             /\ Start(<<ContextCheckpoint([base |-> LastId(st),
                                           covers |-> Entries(st)])>>, TRUE, "worker")
  BY DEF CompactContext
<1>3. mem' \in State /\ Aligned(mem')
  BY <1>1, <1>2, SwapPlaced DEF Placed
<1> DEFINE ck == [base |-> LastId(mem'), covers |-> Entries(mem')]
           ev == ContextCheckpoint(ck)
           evs == <<ev>>
<1>4. Start(evs, TRUE, "worker")
  BY <1>2
<1>5. ck.base = LastId(mem') /\ ck.covers = Entries(mem')
  OBVIOUS
<1> HIDE DEF ck
<1>6. ev.checkpoint = ck
  BY DEF ContextCheckpoint, Plain
<1> HIDE DEF ev
<1>7. Len(evs) = 1 /\ evs[1] = ev /\ evs # <<>> /\ 1..1 = {1}
  OBVIOUS
<1> HIDE DEF evs
<1>8. op'.todo = evs /\ pc' = "append"
  BY <1>4, <1>7 DEF Start
<1>9. \A e \in Entries(mem') : e[1] <= LastId(mem')
  BY <1>3, LastIdBounds
<1> QED BY <1>5, <1>6, <1>7, <1>8, <1>9 DEF CheckpointDue

LEMMA OperationsDue ==
  ASSUME IInv, IdInv, CheckpointDue, Operation \/ Regenerate
  PROVE  CheckpointDue'
<1>1. pc = "idle" /\ mem # NULL
  BY DEF Operation, Regenerate, RecordMessage, RecordOutcome, RecordGoalProgress,
         ChangeGoal, EditUserMessage, CheckRegenerate, PatchSettings, ApplySettings,
         CompactContext, Ready
<1>2. ASSUME NEW ev, ev.type # "checkpoint", NEW save, NEW by, Start(<<ev>>, save, by)
      PROVE  CheckpointDue'
  <2>1. op'.todo = <<ev>>
    BY <1>2 DEF Start
  <2>2. Len(<<ev>>) = 1 /\ <<ev>>[1] = ev /\ 1..1 = {1}
    OBVIOUS
  <2> QED BY <1>2, <2>1, <2>2 DEF CheckpointDue
<1>3. ASSUME NEW save, NEW by, Start(<<>>, save, by)
      PROVE  CheckpointDue'
  <2>1. op'.todo = <<>>
    BY <1>3 DEF Start
  <2> QED BY <2>1, NothingDue
<1>4. /\ \A t \in {"finish", "error", "goal_usage", "goal_cleared"} :
            Plain(t).type # "checkpoint"
      /\ \A m : MessageEvent(m).type # "checkpoint"
      /\ \A id : TruncateAfter(id).type # "checkpoint"
      /\ \A id, m : MessageEdit(id, m).type # "checkpoint"
      /\ \A g : GoalCompleted(g).type # "checkpoint"
      /\ GoalSet.type # "checkpoint"
  BY DEF Plain, MessageEvent, TruncateAfter, MessageEdit, GoalCompleted, GoalSet
<1>5. CASE RecordMessage
  BY <1>2, <1>4, <1>5 DEF RecordMessage
<1>6. CASE RecordOutcome
  BY <1>2, <1>4, <1>6 DEF RecordOutcome
<1>7. CASE RecordGoalProgress
  BY <1>2, <1>4, <1>7 DEF RecordGoalProgress
<1>8. CASE ChangeGoal
  BY <1>2, <1>4, <1>8 DEF ChangeGoal
<1>9. CASE EditUserMessage
  <2>1. PICK id \in UserMessageIds(mem), b \in Body :
           Start(<<MessageEdit(id, [role |-> "user", body |-> b]), TruncateAfter(id)>>,
                 TRUE, "handler")
    BY <1>9 DEF EditUserMessage
  <2> DEFINE x == MessageEdit(id, [role |-> "user", body |-> b])
             y == TruncateAfter(id)
             evs == <<x, y>>
  <2>2. x.type # "checkpoint" /\ y.type # "checkpoint"
    BY <1>4
  <2>3. op'.todo = evs
    BY <2>1 DEF Start
  <2> HIDE DEF x, y
  <2>4. Len(evs) = 2 /\ evs[1] = x /\ evs[2] = y /\ 1..2 = {1, 2}
    OBVIOUS
  <2> HIDE DEF evs
  <2> QED BY <2>2, <2>3, <2>4 DEF CheckpointDue
<1>10. CASE CheckRegenerate
  BY <1>1, <1>10, RestDue DEF CheckRegenerate, Creating
<1>11. CASE Regenerate
  BY <1>2, <1>4, <1>11 DEF Regenerate
<1>12. CASE PatchSettings
  BY <1>3, <1>12 DEF PatchSettings
<1>13. CASE ApplySettings
  BY <1>3, <1>13 DEF ApplySettings
<1>14. CASE CompactContext
  BY <1>14, CompactDue
<1> QED BY <1>5, <1>6, <1>7, <1>8, <1>9, <1>10, <1>11, <1>12, <1>13, <1>14 DEF Operation

LEMMA DueStep ==
  ASSUME IInv, IdInv, CheckpointDue, Next
  PROVE  CheckpointDue'
<1>1. op.todo \in Seq(Event) /\ NoOp.todo = <<>> /\ op \in Op
  BY OpFields DEF IInv, TypeOK, NoOp
<1>2. CASE Create \/ CreateAppend \/ CreateMeta
  BY <1>2 DEF Create, CreateAppend, CreateMeta, CheckpointDue, Creating
<1>3. CASE CreateSnapshot \/ Delete \/ Crash \/ WriteFails \/ TornCrash
  <2>1. op' = NoOp
    BY <1>3 DEF CreateSnapshot, Delete, Crash, WriteFails, TornCrash, IdInv, IdleOp
  <2> QED BY <1>1, <2>1, NothingDue
<1>4. CASE Operation \/ Regenerate
  BY <1>4, OperationsDue
<1>5. CASE AppendEventLine
  BY <1>5 DEF AppendEventLine, CheckpointDue, Creating
<1>6. CASE Apply
  <2>1. pc = "apply" /\ op'.todo = Tail(op.todo) /\ op.todo # <<>>
    BY <1>1, <1>6 DEF Apply, IInv, TypeOK, Op
  <2> SUFFICES ASSUME NEW j \in 1..Len(op'.todo), op'.todo[j].type = "checkpoint"
               PROVE  FALSE
    BY DEF CheckpointDue
  <2>2. j + 1 \in 1..Len(op.todo) /\ j + 1 # 1 /\ op'.todo[j] = op.todo[j + 1]
    BY <1>1, <2>1
  <2> QED BY <2>1, <2>2 DEF CheckpointDue, Creating
<1>7. CASE WriteMeta \/ WriteSnapshotMeta
  <2>1. pc \in {"meta", "snapshot_meta"} /\ (op'.todo = op.todo \/ op' = NoOp)
    <3>1. [op EXCEPT !.save = FALSE].todo = op.todo
      BY <1>1 DEF Op
    <3> QED BY <1>7, <3>1 DEF WriteMeta, WriteSnapshotMeta, Advance
  <2> QED BY <1>1, <2>1, RestDue, NothingDue DEF Creating
<1>8. CASE WriteSnapshot
  BY <1>8, RestDue DEF WriteSnapshot, Creating
<1>9. CASE Load
  <2>1. op'.todo = <<>>
    BY <1>9 DEF Load, NoOp
  <2> QED BY <2>1, NothingDue
<1>10. CASE DropHandler
  <2>1. CASE op' = NoOp
    BY <1>1, <2>1, NothingDue
  <2>2. CASE UNCHANGED <<pc, op>>
    BY <1>10, <2>2 DEF DropHandler, CheckpointDue, Creating
  <2> QED BY <1>10, <2>1, <2>2 DEF DropHandler
<1> QED BY <1>2, <1>3, <1>4, <1>5, <1>6, <1>7, <1>8, <1>9, <1>10 DEF Next

-----------------------------------------------------------------------------
\* Recording an event: the three sessions take it alike.
LEMMA RecordStep ==
  ASSUME IInv, IdInv, AppendEventLine
  PROVE  LET ev == Head(op.todo)
             q == mem.last_seq + 1
         IN  /\ mem # NULL /\ snap # NULL /\ pc = "append"
             /\ UNCHANGED <<snap, mem, op>> /\ pc' = "apply"
             /\ ev \in Event /\ q \in Nat /\ LogState \in State
             /\ ev.type = "message" => ev.message.role # "system"
             /\ LogState.last_seq \in Nat /\ LogState.last_seq < q
             /\ log \in Seq(Line) /\ log' = Append(log, EventLine(q, ev))
             /\ LogState' = ApplyEvent(LogState, ev, q)
             /\ Recovered' = ApplyEvent(Recovered, ev, q)
             /\ Durable = mem /\ Durable' = ApplyEvent(mem, ev, q)
             /\ \A st \in {LogState, Recovered, mem} :
                   /\ st \in State /\ Aligned(st) /\ Fits(st, ev, q)
                   /\ Entries(ApplyEvent(st, ev, q)) = EntriesAfter(Entries(st), ev, q)
<1> DEFINE ev == Head(op.todo)
           q == mem.last_seq + 1
<1>1. /\ pc = "append" /\ pc' = "apply" /\ UNCHANGED <<snap, meta, mem, op, regen, unsaved>>
      /\ mem # NULL /\ ended = TRUE
  BY DEF AppendEventLine, IInv, TypeOK, LogReadable
<1>2. /\ snap # NULL /\ mem.last_seq \in Nat /\ ReplayBase(snap) \in State
      /\ ReplayBase(snap).last_snapshot_seq \in Nat
      /\ ReplayBase(snap).last_snapshot_seq <= mem.last_seq
  BY <1>1, LiveFacts
<1>3. ev \in Event /\ EventGood(ev, TRUE, op.by, mem, log, Whole)
  BY <1>1, PendingEvent
<1>4. /\ log \in Seq(Line)
      /\ \A st \in {LogState, Recovered, mem} :
            st \in State /\ Aligned(st) /\ st.last_seq <= mem.last_seq
  BY <1>1, ThreeStates
<1>5. \A st \in {LogState, Recovered, mem} : Fits(st, ev, q)
  BY <1>1, EventFits
<1>6. q \in Nat /\ q > mem.last_seq /\ q > 0
  BY <1>2
<1>7. log' = AppendTo(log, TRUE, EventLine(q, ev))
  BY <1>1, Zenon DEF AppendEventLine, NewLine
<1> HIDE DEF ev, q
<1>8. /\ EventLine(q, ev) \in Line /\ log' = Append(log, EventLine(q, ev))
      /\ EventLine(q, ev).ok = TRUE /\ EventLine(q, ev).seq = q
      /\ EventLine(q, ev).event = ev
  <2>1. EventLine(q, ev) \in Line /\ log' = Append(log, EventLine(q, ev))
    BY <1>3, <1>4, <1>6, <1>7, AppendLine
  <2> QED BY <2>1, EventLineFields
<1>9. LogState' = ApplyEvent(LogState, ev, q)
  <2>1. EmptyState \in State /\ EmptyState.last_snapshot_seq = 0
    BY EmptyStateType
  <2>2. LogState' = ReplayLine(LogState, EventLine(q, ev), EmptyState.last_snapshot_seq)
    BY <1>4, <1>8, <2>1, ReplayAppend DEF LogState
  <2> QED BY <1>6, <1>8, <2>1, <2>2 DEF ReplayLine
<1>10. Recovered' = ApplyEvent(Recovered, ev, q)
  <2>1. Recovered' = ReplayLine(Recovered, EventLine(q, ev),
                                ReplayBase(snap).last_snapshot_seq)
    BY <1>1, <1>2, <1>4, <1>8, ReplayAppend DEF Recovered
  <2> QED BY <1>2, <1>6, <1>8, <2>1 DEF ReplayLine
<1>11. Durable = mem /\ Durable' = ApplyEvent(mem, ev, q)
  BY <1>1 DEF Durable, ev, q
<1>12. ASSUME NEW st \in {LogState, Recovered, mem}
       PROVE  Entries(ApplyEvent(st, ev, q)) = EntriesAfter(Entries(st), ev, q)
  BY <1>3, <1>4, <1>5, <1>6, ApplyKeeps
<1>13. LogState.last_seq \in Nat /\ LogState.last_seq < q
  <2>1. LogState.last_seq \in Nat
    BY <1>4 DEF State
  <2> QED BY <1>2, <1>4, <1>6, <2>1
<1>14. ev.type = "message" => ev.message.role # "system"
  BY <1>3 DEF EventGood
<1> QED BY <1>1, <1>2, <1>3, <1>4, <1>5, <1>6, <1>8, <1>9, <1>10, <1>11, <1>12, <1>13, <1>14
        DEF ev, q

LEMMA AppendTranscript ==
  ASSUME TranscriptInv, AppendEventLine
  PROVE  OneTranscript' /\ CheckpointsKept'
<1> DEFINE ev == Head(op.todo)
           q == mem.last_seq + 1
<1>1. /\ mem # NULL /\ snap # NULL /\ pc = "append" /\ UNCHANGED <<snap, mem>>
      /\ ev \in Event /\ q \in Nat /\ log \in Seq(Line)
      /\ log' = Append(log, EventLine(q, ev))
      /\ LogState' = ApplyEvent(LogState, ev, q)
      /\ Recovered' = ApplyEvent(Recovered, ev, q)
      /\ Durable = mem /\ Durable' = ApplyEvent(mem, ev, q)
      /\ \A st \in {LogState, Recovered, mem} :
            /\ st \in State /\ Aligned(st) /\ Fits(st, ev, q)
            /\ Entries(ApplyEvent(st, ev, q)) = EntriesAfter(Entries(st), ev, q)
  BY RecordStep DEF TranscriptInv
<1>2. /\ Entries(Recovered) = Entries(LogState) /\ Entries(mem) = Entries(LogState)
      /\ CoversKept(Recovered, log) /\ CoversKept(mem, log)
  BY <1>1 DEF TranscriptInv, OneTranscript, CheckpointsKept
<1>3. ev.type = "checkpoint" => /\ ev.checkpoint.covers = Entries(mem)
                                /\ \A e \in Entries(mem) : e[1] <= ev.checkpoint.base
  <2>1. op.todo \in Seq(Event) /\ op.todo # <<>>
    BY <1>1, PendingEvent DEF TranscriptInv
  <2>2. ev = op.todo[1] /\ 1 \in 1..Len(op.todo)
    BY <2>1
  <2> QED BY <1>1, <2>2 DEF TranscriptInv, CheckpointDue, Creating
<1> HIDE DEF ev, q
<1>4. OneTranscript'
  <2>1. /\ Entries(Recovered') = EntriesAfter(Entries(Recovered), ev, q)
        /\ Entries(LogState') = EntriesAfter(Entries(LogState), ev, q)
        /\ Entries(Durable') = EntriesAfter(Entries(mem), ev, q)
    BY <1>1
  <2> QED BY <1>2, <2>1 DEF OneTranscript
<1>5. CheckpointsKept'
  <2>1. CoversKept(ApplyEvent(mem, ev, q), Append(log, EventLine(q, ev)))
    BY <1>1, <1>2, <1>3, CoversStep
  <2>2. CoversKept(ApplyEvent(Recovered, ev, q), Append(log, EventLine(q, ev)))
    BY <1>1, <1>2, <1>3, CoversStep
  <2>3. CoversKept(Recovered', log') /\ CoversKept(Durable', log')
    BY <1>1, <2>1, <2>2
  <2>4. CoversKept(Recovered, log)' /\ CoversKept(Durable, log)'
    BY <2>3 DEF CoversKept
  <2> QED BY <2>4 DEF CheckpointsKept
<1> QED BY <1>4, <1>5

-----------------------------------------------------------------------------
\* Creating a session, and writing its snapshot.
LEMMA CreateTranscript ==
  ASSUME TranscriptInv, Create \/ CreateAppend \/ CreateMeta \/ CreateSnapshot
  PROVE  OneTranscript' /\ CheckpointsKept'
<1>1. CASE Create \/ CreateAppend \/ CreateMeta
  <2>1. snap' = NULL
    BY <1>1 DEF Create, CreateAppend, CreateMeta, disk, TranscriptInv, IInv,
                CreationInOrder, Creating
  <2> QED BY <2>1, NoFiles
<1>2. CASE CreateSnapshot
  <2> DEFINE st == [LogState EXCEPT !.last_snapshot_seq = Len(log)]
  <2>1. /\ pc = "create_snapshot" /\ pc' = "idle" /\ snap' = st /\ mem' = st
        /\ UNCHANGED <<log, ended>>
    BY <1>2 DEF CreateSnapshot, LogState
  <2>2. /\ log \in Seq(Line) /\ Len(log) \in Nat
        /\ \A i \in 1..Len(log) : /\ log[i].ok /\ log[i].seq = i
                                  /\ log[i].event.type = "message"
    BY <2>1 DEF TranscriptInv, IInv, TypeOK, IdInv, CreatingGood, Creating
  <2>3. LogState \in State /\ LogState.context_checkpoint = NULL
    <3>1. /\ EmptyState \in State /\ SameLength(EmptyState)
          /\ EmptyState.context_checkpoint = NULL
      BY EmptyStateType DEF EmptyState
    <3>2. EmptyState.last_snapshot_seq <= EmptyState.last_seq
      BY EmptyStateType
    <3>3. Replay(EmptyState, log) \in State
      BY <2>2, <3>1, <3>2, ReplayType
    <3>4. Replay(EmptyState, log).context_checkpoint = NULL
      BY <2>2, <3>1, ReplayNoCheckpoint
    <3> QED BY <3>3, <3>4 DEF LogState
  <2>4. /\ st \in State /\ SameLength(st) /\ st.last_snapshot_seq = Len(log)
        /\ \A i \in 1..Len(log) : log[i].seq <= Len(log)
    BY <2>2, CreatedState DEF LogState
  <2>5. Entries(st) = Entries(LogState) /\ st.context_checkpoint = NULL
    BY <2>2, <2>3, MarkKeeps
  <2> HIDE DEF st
  <2>6. Replay(ReplayBase(st), log) = st
    BY <2>2, <2>4, SnapshotRecovers
  <2>7. Recovered' = st /\ Durable' = st /\ LogState' = LogState
    BY <2>1, <2>6 DEF Recovered, Durable, LogState
  <2>8. OneTranscript'
    BY <2>5, <2>7 DEF OneTranscript
  <2>9. CoversKept(Recovered, log)' /\ CoversKept(Durable, log)'
    BY <2>5, <2>7 DEF CoversKept
  <2> QED BY <2>8, <2>9 DEF CheckpointsKept
<1> QED BY <1>1, <1>2

LEMMA SnapshotTranscript ==
  ASSUME TranscriptInv, WriteSnapshot
  PROVE  OneTranscript' /\ CheckpointsKept'
<1> DEFINE st == [mem EXCEPT !.last_snapshot_seq = mem.last_seq]
<1>1. /\ pc = "snapshot" /\ pc' = "snapshot_meta" /\ mem' = st /\ snap' = st
      /\ UNCHANGED <<log, ended>> /\ mem # NULL
  BY DEF WriteSnapshot, TranscriptInv, IInv, TypeOK
<1>2. /\ mem \in State /\ Aligned(mem) /\ mem.last_seq \in Nat /\ log \in Seq(Line)
      /\ snap # NULL
  BY <1>1, LiveIds DEF TranscriptInv
<1>3. /\ st \in State /\ Aligned(st) /\ st.last_snapshot_seq = mem.last_seq
      /\ Entries(st) = Entries(mem) /\ st.context_checkpoint = mem.context_checkpoint
  BY <1>2, MarkKeeps
<1> HIDE DEF st
<1>4. \A i \in 1..Len(log) : log[i].seq <= mem.last_seq
  BY <1>1 DEF TranscriptInv, IInv, MemoryCoversLog, LastSeqUsed
<1>5. Replay(ReplayBase(st), log) = st
  BY <1>2, <1>3, <1>4, AlignedLength, SnapshotRecovers
<1>6. Recovered' = st /\ Durable' = st /\ LogState' = LogState /\ Durable = mem
  BY <1>1, <1>5 DEF Recovered, Durable, LogState
<1>7. Entries(mem) = Entries(LogState) /\ CoversKept(mem, log)
  BY <1>1, <1>2, <1>6 DEF TranscriptInv, OneTranscript, CheckpointsKept
<1>8. OneTranscript'
  BY <1>3, <1>6, <1>7 DEF OneTranscript
<1>9. CoversKept(Recovered, log)' /\ CoversKept(Durable, log)'
  BY <1>1, <1>3, <1>6, <1>7 DEF CoversKept
<1> QED BY <1>8, <1>9 DEF CheckpointsKept

-----------------------------------------------------------------------------
\* The steps that append nothing: what is shown stays as it was, or comes from the files.
LEMMA QuietTranscript ==
  ASSUME TranscriptInv, UNCHANGED <<log, snap, mem>>,
         (pc = "apply") = (pc' = "apply"), pc = "apply" => op' = op
  PROVE  OneTranscript' /\ CheckpointsKept'
<1>1. Durable' = Durable
  BY DEF Durable
<1> QED BY <1>1, SameFiles DEF TranscriptInv

LEMMA OperationsTranscript ==
  ASSUME TranscriptInv, Operation \/ Regenerate
  PROVE  OneTranscript' /\ CheckpointsKept'
<1>1. pc = "idle" /\ mem # NULL
  BY DEF Operation, Regenerate, RecordMessage, RecordOutcome, RecordGoalProgress,
         ChangeGoal, EditUserMessage, CheckRegenerate, PatchSettings, ApplySettings,
         CompactContext, Ready
<1>2. OperationEffect
  <2>1. TypeOK /\ MemoryCoversSnapshot
    BY DEF TranscriptInv, IInv
  <2> QED BY <2>1, OperationStep
<1>3. UNCHANGED <<log, snap>> /\ pc' # "apply"
  BY <1>2 DEF OperationEffect, disk
<1>4. mem' = mem \/ \E p \in Preambles : mem' = ReplacePreamble(mem, p)
  BY DEF Operation, Regenerate, RecordMessage, RecordOutcome, RecordGoalProgress,
         ChangeGoal, EditUserMessage, CheckRegenerate, PatchSettings, ApplySettings,
         CompactContext
<1>5. Entries(mem') = Entries(mem) /\ mem'.context_checkpoint = mem.context_checkpoint
  <2>1. ASSUME NEW p \in Preambles, mem' = ReplacePreamble(mem, p)
        PROVE  /\ Entries(mem') = Entries(mem)
               /\ mem'.context_checkpoint = mem.context_checkpoint
    BY <1>1, <2>1, SwapPlaced DEF TranscriptInv
  <2> QED BY <1>4, <2>1
<1>6. Durable = mem /\ Durable' = mem'
  BY <1>1, <1>3 DEF Durable
<1> QED BY <1>1, <1>3, <1>5, <1>6, SameFiles DEF TranscriptInv

LEMMA WriteFailsTranscript ==
  ASSUME TranscriptInv, WriteFails
  PROVE  OneTranscript' /\ CheckpointsKept'
<1>1. /\ pc \in {"append", "meta", "snapshot", "snapshot_meta"} /\ pc' = "idle"
      /\ UNCHANGED <<log, snap>> /\ mem # NULL
  BY DEF WriteFails, disk, TranscriptInv, IInv, TypeOK
<1>2. mem \in State /\ mem.last_seq \in Nat
  BY <1>1, LiveIds DEF TranscriptInv
<1>3. Durable = mem /\ Durable' = mem'
  BY <1>1 DEF Durable
<1> DEFINE st == [mem EXCEPT !.last_snapshot_seq = mem.last_seq]
<1>4. mem' \in {NULL, mem, st}
  BY DEF WriteFails
<1>5. Entries(st) = Entries(mem) /\ st.context_checkpoint = mem.context_checkpoint
  BY <1>2, MarkKeeps
<1> HIDE DEF st
<1>6. mem' # NULL => /\ Entries(mem') = Entries(mem)
                     /\ mem'.context_checkpoint = mem.context_checkpoint
  BY <1>4, <1>5
<1> QED BY <1>1, <1>3, <1>6, SameFiles DEF TranscriptInv

LEMMA NextTranscript ==
  ASSUME NoTornNoDrop, TranscriptInv, [Next]_vars
  PROVE  TranscriptInv'
<1>1. IInv' /\ IdInv'
  BY NextIInv, NextIds DEF TranscriptInv
<1>2. CheckpointDue'
  <2>1. CASE Next
    BY <2>1, DueStep DEF TranscriptInv
  <2>2. CASE UNCHANGED vars
    BY <2>2 DEF vars, TranscriptInv, CheckpointDue, Creating
  <2> QED BY <2>1, <2>2
<1>3. OneTranscript' /\ CheckpointsKept'
  <2>1. CASE Create \/ CreateAppend \/ CreateMeta \/ CreateSnapshot
    BY <2>1, CreateTranscript
  <2>2. CASE Delete
    BY <2>2, NoFiles DEF Delete
  <2>3. CASE Operation \/ Regenerate
    BY <2>3, OperationsTranscript
  <2>4. CASE AppendEventLine
    BY <2>4, AppendTranscript
  <2>5. CASE Apply
    <3>1. mem # NULL /\ UNCHANGED <<log, snap>>
      BY <2>5 DEF Apply, disk, TranscriptInv, IInv, TypeOK
    <3>2. Durable' = Durable
      BY <2>5 DEF Apply, Durable
    <3> QED BY <3>1, <3>2, SameFiles DEF TranscriptInv
  <2>6. CASE WriteMeta \/ WriteSnapshotMeta
    <3>1. UNCHANGED <<log, snap, mem>> /\ pc # "apply" /\ pc' # "apply"
      BY <2>6 DEF WriteMeta, WriteSnapshotMeta, Advance
    <3> QED BY <3>1, QuietTranscript
  <2>7. CASE WriteSnapshot
    BY <2>7, SnapshotTranscript
  <2>8. CASE Load
    <3>1. UNCHANGED <<log, snap>> /\ mem' = Recovered /\ pc' = "snapshot"
      BY <2>8 DEF Load, disk
    <3>2. Durable' = Recovered
      BY <3>1 DEF Durable
    <3> QED BY <3>1, <3>2, SameFiles DEF TranscriptInv
  <2>9. CASE Crash
    BY <2>9, SameFiles DEF Crash, disk, TranscriptInv
  <2>10. CASE WriteFails
    BY <2>10, WriteFailsTranscript
  <2>11. CASE TornCrash \/ DropHandler
    BY <2>11 DEF TornCrash, DropHandler, NoTornNoDrop
  <2>12. CASE UNCHANGED vars
    BY <2>12, QuietTranscript DEF vars
  <2> QED BY <2>1, <2>2, <2>3, <2>4, <2>5, <2>6, <2>7, <2>8, <2>9, <2>10, <2>11, <2>12
          DEF Next
<1> QED BY <1>1, <1>2, <1>3 DEF TranscriptInv

LEMMA InitTranscript == Init => TranscriptInv
<1> SUFFICES ASSUME Init PROVE TranscriptInv
  OBVIOUS
<1>1. IInv /\ IdInv
  BY InitIInv, InitIds
<1>2. op = NoOp /\ mem = NULL
  BY DEF Init, NoSession, LegacySession
<1>3. CheckpointDue
  <2>1. op.todo = <<>> /\ 1..Len(<<>>) = {}
    BY <1>2 DEF NoOp
  <2> QED BY <2>1 DEF CheckpointDue
<1>4. CASE snap = NULL
  BY <1>1, <1>3, <1>4 DEF TranscriptInv, OneTranscript, CheckpointsKept
<1>5. ASSUME NEW ms \in InitialMessages, LegacySession(ms)
      PROVE  OneTranscript /\ CheckpointsKept
  <2>1. /\ log \in Seq(Line) /\ \A i \in 1..Len(log) : log[i].event.type = "message"
        /\ Base \in State /\ Base.messages = <<>> /\ Base.message_ids = <<>>
        /\ Base.last_snapshot_seq = 0 /\ Base.context_checkpoint = NULL
    BY <1>5, LegacyFiles
  <2>2. /\ EmptyState \in State /\ EmptyState.last_snapshot_seq = 0
        /\ EmptyState.messages = <<>> /\ EmptyState.message_ids = <<>>
    BY EmptyStateType DEF EmptyState
  <2>3. Entries(Recovered) = Entries(LogState)
    BY <2>1, <2>2, ReplayEntries DEF Recovered, LogState, Base
  <2>4. Recovered.context_checkpoint = NULL
    <3>1. SameLength(Base)
      BY <2>1 DEF SameLength
    <3> QED BY <2>1, <3>1, ReplayNoCheckpoint DEF Recovered, Base
  <2> QED BY <1>2, <2>3, <2>4 DEF OneTranscript, CheckpointsKept, CoversKept
<1>6. CASE \E ms \in InitialMessages : LegacySession(ms)
  BY <1>1, <1>3, <1>5, <1>6 DEF TranscriptInv
<1> QED BY <1>4, <1>6 DEF Init, NoSession

\* One transcript, in every state, when appends are not torn and handlers run to
\* completion.
THEOREM TranscriptInvariance ==
  ASSUME NoTornNoDrop
  PROVE  Spec => []TranscriptInv
<1>1. Init => TranscriptInv
  BY InitTranscript
<1>2. TranscriptInv /\ [Next]_vars => TranscriptInv'
  BY NextTranscript
<1> QED BY <1>1, <1>2, PTL DEF Spec

\* The transcript in memory is the one events.jsonl alone replays to: the snapshot that
\* load starts from never contributes a message and never hides one.
THEOREM LogIsTheSource ==
  ASSUME NoTornNoDrop
  PROVE  Spec => []LogIsSourceOfTruth
<1>1. TranscriptInv => LogIsSourceOfTruth
  BY DEF TranscriptInv, IInv, MemoryCoversSnapshot, OneTranscript, Durable, LogState,
         LogIsSourceOfTruth
<1> QED BY <1>1, TranscriptInvariance, PTL

\* The context checkpoint that compaction recorded and later requests send to the model
\* summarises only messages that are in the transcript, with the text they have there:
\* an edit or a truncation below its base drops it, through crashes and loads too.
THEOREM CheckpointIsFresh ==
  ASSUME NoTornNoDrop
  PROVE  Spec => []CheckpointFresh
<1>1. TranscriptInv => CheckpointFresh
  <2> SUFFICES ASSUME TranscriptInv, mem # NULL, pc = "idle", ~CutEdit,
                      mem.context_checkpoint # NULL,
                      NEW e \in mem.context_checkpoint.covers
               PROVE  e \in Entries(mem)
    BY DEF CheckpointFresh
  <2>1. CoversKept(mem, log)
    BY DEF TranscriptInv, IInv, MemoryCoversSnapshot, CheckpointsKept, Durable
  <2>2. ~CutAt(log, e[1])
    BY DEF CutAt, CutEdit
  <2> QED BY <2>1, <2>2 DEF CoversKept
<1> QED BY <1>1, TranscriptInvariance, PTL

-----------------------------------------------------------------------------
(***************************************************************************)
(* The store implements Transcript.  Each step of the store is one of: the *)
(* session comes into being (CreateSnapshot), an event is recorded (the    *)
(* line is appended), what is shown changes (memory applies the event, is  *)
(* lost, is loaded), the session is deleted, or nothing that Transcript    *)
(* can see.                                                                *)
(***************************************************************************)
KeptInv == TranscriptInv /\ kept = Kept(log)

LEMMA KeptFields ==
  ASSUME NEW lines \in Seq(Line)
  PROVE  LET st == Replay(EmptyState, lines)
         IN  /\ st \in State /\ SameLength(st)
             /\ Kept(lines).entries = Entries(st) /\ Kept(lines).last = st.last_seq
             /\ Kept(lines) # NULL
             /\ \A e \in Entries(st) : e \in Nat \X Message /\ e = <<e[1], e[2]>>
<1> DEFINE st == Replay(EmptyState, lines)
<1>1. st \in State /\ SameLength(st)
  <2>1. EmptyState.last_snapshot_seq <= EmptyState.last_seq
    BY EmptyStateType
  <2> QED BY <2>1, EmptyStateType, ReplayType
<1>2. Kept(lines) = [entries |-> Entries(st), last |-> st.last_seq]
  BY DEF Kept
<1> HIDE DEF st
<1>3. \A i \in 1..Len(st.messages) : st.message_ids[i] \in Nat /\ st.messages[i] \in Message
  BY <1>1, StateFields
<1>4. \A e \in Entries(st) : e \in Nat \X Message /\ e = <<e[1], e[2]>>
  BY <1>3 DEF Entries
<1>5. Entries(st) \in SUBSET (Nat \X Message) /\ st.last_seq \in Nat
  BY <1>1, <1>4 DEF State
<1>6. Kept(lines) # NULL
  BY <1>2, <1>5, KeptAssumption
<1> QED BY <1>1, <1>2, <1>4, <1>6 DEF st

\* The messages a session is created with are numbered from 1.
LEMMA CreatedNumbered ==
  ASSUME NEW lines \in Seq(Line),
         \A i \in 1..Len(lines) : /\ lines[i].ok /\ lines[i].seq = i
                                  /\ lines[i].event.type = "message"
  PROVE  Abstract!Numbered(Kept(lines))
<1> DEFINE r == Replay(EmptyState, lines)
           n == Len(lines)
           st == [r EXCEPT !.last_snapshot_seq = n]
<1>1. /\ r \in State /\ n \in Nat
      /\ Kept(lines).entries = Entries(r) /\ Kept(lines).last = r.last_seq
      /\ \A e \in Entries(r) : e \in Nat \X Message /\ e = <<e[1], e[2]>>
  BY KeptFields
<1>2. EntryIds(st) \subseteq Recorded(lines) /\ st.last_seq = n
  BY CreatedAligned DEF Placed
<1> HIDE DEF r, n
<1>3. st.last_seq = r.last_seq /\ EntryIds(st) = EntryIds(r)
  BY <1>1, MarkKeeps
<1> HIDE DEF st
<1>4. \A x \in Recorded(lines) : x \in 1..n
  BY DEF Recorded, n
<1>5. ASSUME NEW e \in Entries(r) PROVE e \in (1..r.last_seq) \X Message
  <2>1. e[1] \in 1..n
    BY <1>2, <1>3, <1>4 DEF EntryIds
  <2> QED BY <1>1, <1>2, <1>3, <2>1
<1> QED BY <1>1, <1>5 DEF Abstract!Numbered

\* An id names one message of the transcript.
LEMMA EntryUnique ==
  ASSUME NEW st \in State, Aligned(st), NEW e \in Entries(st), NEW f \in Entries(st),
         e[1] = f[1]
  PROVE  e = f
<1>1. PICK i \in 1..Len(st.messages) : e = <<st.message_ids[i], st.messages[i]>>
  BY DEF Entries
<1>2. PICK j \in 1..Len(st.messages) : f = <<st.message_ids[j], st.messages[j]>>
  BY DEF Entries
<1>3. i = j
  <2>1. Len(st.message_ids) = Len(st.messages)
    BY AlignedLength DEF SameLength
  <2> QED BY <1>1, <1>2, <2>1 DEF Aligned
<1> QED BY <1>1, <1>2, <1>3

\* An event changes the transcript as Transcript says.
LEMMA EventIsOne ==
  ASSUME NEW st \in State, Aligned(st), NEW ev \in Event, NEW q \in Nat,
         st.last_seq < q, ev.type = "message" => ev.message.role # "system",
         NEW old, old.entries = Entries(st), old.last = st.last_seq,
         NEW new, new.entries = EntriesAfter(Entries(st), ev, q), new.last = q
  PROVE  Abstract!OneEvent(old, new)
<1>1. st.last_seq \in Nat /\ new.last > old.last
  BY DEF State
<1>2. ev.type \in {"message", "edit"} => ev.message \in Message
  BY DEF Event, AnyEvent
<1>3. CASE ev.type = "message"
  <2>1. new.entries = old.entries \cup {<<new.last, ev.message>>}
    BY <1>3 DEF EntriesAfter
  <2> QED BY <1>1, <1>2, <1>3, <2>1 DEF Abstract!OneEvent
<1>4. CASE ev.type = "edit"
  <2>1. new.entries = {IF e[1] = ev.id THEN <<ev.id, ev.message>> ELSE e : e \in Entries(st)}
    BY <1>4 DEF EntriesAfter
  <2>2. CASE ~\E e \in Entries(st) : e[1] = ev.id
    <3>1. new.entries = old.entries
      BY <2>1, <2>2
    <3> QED BY <1>1, <3>1 DEF Abstract!OneEvent
  <2>3. ASSUME NEW e \in Entries(st), e[1] = ev.id
        PROVE  Abstract!OneEvent(old, new)
    <3>1. \A f \in Entries(st) : f[1] = ev.id <=> f = e
      BY <2>3, EntryUnique
    <3>2. new.entries = (old.entries \ {e}) \cup {<<e[1], ev.message>>}
      BY <2>1, <2>3, <3>1
    <3> QED BY <1>1, <1>2, <1>4, <3>2 DEF Abstract!OneEvent
  <2> QED BY <2>2, <2>3
<1>5. CASE ev.type = "truncate"
  <2>1. new.entries = IF \E e \in Entries(st) : e[1] = ev.id
                      THEN {e \in Entries(st) : e[1] <= ev.id} ELSE Entries(st)
    BY <1>5 DEF EntriesAfter
  <2>2. CASE ~\E e \in Entries(st) : e[1] = ev.id
    BY <1>1, <2>1, <2>2 DEF Abstract!OneEvent
  <2>3. ASSUME NEW e \in Entries(st), e[1] = ev.id
        PROVE  Abstract!OneEvent(old, new)
    <3>1. new.entries = {f \in old.entries : f[1] <= e[1]}
      BY <2>1, <2>3
    <3> QED BY <1>1, <2>3, <3>1 DEF Abstract!OneEvent
  <2> QED BY <2>2, <2>3
<1>6. CASE ev.type \notin {"message", "edit", "truncate"}
  <2>1. new.entries = old.entries
    BY <1>6 DEF EntriesAfter
  <2> QED BY <1>1, <2>1 DEF Abstract!OneEvent
<1> QED BY <1>3, <1>4, <1>5, <1>6

-----------------------------------------------------------------------------
\* What each kind of step does to the two files that matter here.
LEMMA StepKinds ==
  ASSUME NoTornNoDrop, TranscriptInv, Next
  PROVE  \/ /\ CreateSnapshot /\ snap = NULL /\ UNCHANGED log
            /\ pc = "create_snapshot" /\ pc' = "idle"
         \/ snap = NULL /\ snap' = NULL
         \/ Delete
         \/ AppendEventLine
         \/ snap # NULL /\ snap' # NULL /\ UNCHANGED log /\ pc' # "apply"
<1>1. CASE Create \/ CreateAppend \/ CreateMeta
  BY <1>1 DEF Create, CreateAppend, CreateMeta, disk, Creating, TranscriptInv, IInv,
              CreationInOrder
<1>2. CASE CreateSnapshot
  BY <1>2 DEF CreateSnapshot, Creating, TranscriptInv, IInv, CreationInOrder
<1>3. CASE Operation \/ Regenerate
  <2>1. OperationEffect
    <3>1. TypeOK /\ MemoryCoversSnapshot
      BY DEF TranscriptInv, IInv
    <3> QED BY <1>3, <3>1, OperationStep
  <2>2. snap # NULL
    BY <2>1 DEF OperationEffect, TranscriptInv, IInv, MemoryCoversSnapshot
  <2> QED BY <2>1, <2>2 DEF OperationEffect, disk
<1>4. CASE Apply \/ WriteMeta \/ WriteSnapshotMeta
  <2>1. mem # NULL /\ snap # NULL
    BY <1>4 DEF Apply, WriteMeta, WriteSnapshotMeta, TranscriptInv, IInv, TypeOK,
                MemoryCoversSnapshot
  <2> QED BY <1>4, <2>1 DEF Apply, WriteMeta, WriteSnapshotMeta, Advance, disk
<1>5. CASE WriteSnapshot
  <2>1. mem # NULL /\ snap # NULL
    BY <1>5 DEF WriteSnapshot, TranscriptInv, IInv, TypeOK, MemoryCoversSnapshot
  <2>2. mem \in State /\ mem.last_seq \in Nat
    BY <2>1, LiveFacts DEF TranscriptInv
  <2>3. snap' # NULL
    BY <1>5, <2>2, MarkKeeps DEF WriteSnapshot
  <2> QED BY <1>5, <2>1, <2>3 DEF WriteSnapshot
<1>6. CASE Load
  BY <1>6 DEF Load, disk
<1>7. CASE Crash \/ WriteFails
  BY <1>7 DEF Crash, WriteFails, disk
<1>8. CASE TornCrash \/ DropHandler
  BY <1>8 DEF TornCrash, DropHandler, NoTornNoDrop
<1> QED BY <1>1, <1>2, <1>3, <1>4, <1>5, <1>6, <1>7, <1>8 DEF Next

\* Every step of the store is a step of Transcript, or leaves it as it is.
LEMMA NextRefines ==
  ASSUME NoTornNoDrop, KeptInv, KeptNext \/ UNCHANGED <<vars, kept>>
  PROVE  [Abstract!TranscriptNext]_(Abstract!transcriptVars)
<1>1. TranscriptInv /\ kept = Kept(log) /\ log \in Seq(Line)
  BY DEF KeptInv, TranscriptInv, IInv, TypeOK
<1>2. CASE UNCHANGED <<vars, kept>>
  BY <1>2 DEF vars, Abstract!transcriptVars
<1>3. CASE KeptNext
  <2> DEFINE D1 == IF snap = NULL THEN NULL ELSE Kept(log)
             D2 == IF snap' = NULL THEN NULL ELSE Kept(log')
             S1 == IF mem = NULL THEN NULL ELSE Entries(mem)
             S2 == IF mem' = NULL THEN NULL ELSE Entries(mem')
  <2>1. Next /\ kept' = Kept(log')
    BY <1>3 DEF KeptNext
  <2>2. TranscriptInv'
    BY <1>1, <2>1, NextTranscript
  <2>3. /\ log' \in Seq(Line)
        /\ mem = NULL \/ snap # NULL
        /\ mem' = NULL \/ snap' # NULL
    BY <1>1, <2>2 DEF TranscriptInv, IInv, TypeOK, MemoryCoversSnapshot
  <2>4. /\ Kept(log) # NULL /\ Kept(log').entries = Entries(LogState')
        /\ Kept(log).entries = Entries(LogState) /\ Kept(log).last = LogState.last_seq
        /\ Kept(log').last = LogState'.last_seq /\ Kept(log') # NULL
    BY <1>1, <2>3, KeptFields DEF LogState
  <2>5. /\ snap # NULL /\ mem # NULL => Entries(Durable) = Entries(LogState)
        /\ snap' # NULL /\ mem' # NULL => Entries(Durable') = Entries(LogState')
    BY <1>1, <2>2 DEF TranscriptInv, OneTranscript
  <2>6. CASE /\ CreateSnapshot /\ snap = NULL /\ UNCHANGED log
             /\ pc = "create_snapshot" /\ pc' = "idle"
    <3>1. mem' = snap' /\ mem' # NULL
      <4>1. mem' = [Replay(EmptyState, log) EXCEPT !.last_snapshot_seq = Len(log)]
            /\ snap' = mem'
        BY <2>6 DEF CreateSnapshot
      <4>2. Replay(EmptyState, log) \in State /\ Len(log) \in Nat
        BY <1>1, KeptFields
      <4> QED BY <4>1, <4>2, MarkKeeps
    <3>2. Durable' = mem'
      BY <2>6 DEF Durable
    <3>3. Abstract!Numbered(Kept(log))
      <4>1. \A i \in 1..Len(log) : /\ log[i].ok /\ log[i].seq = i
                                   /\ log[i].event.type = "message"
        BY <1>1, <2>6 DEF TranscriptInv, IdInv, CreatingGood, Creating
      <4> QED BY <1>1, <4>1, CreatedNumbered
    <3>4. Entries(mem') = Kept(log').entries
      BY <2>4, <2>5, <3>1, <3>2
    <3>5. Abstract!Numbered(Kept(log'))
      BY <2>6, <3>3
    <3> QED BY <1>1, <2>1, <2>4, <2>6, <3>1, <3>4, <3>5
            DEF Abstract!TranscriptNext, Abstract!Begin
  <2>7. CASE snap = NULL /\ snap' = NULL
    BY <2>3, <2>7 DEF Abstract!transcriptVars
  <2>8. CASE Delete
    <3>1. mem = NULL /\ mem' = NULL /\ snap' = NULL
      BY <2>8 DEF Delete
    <3>2. CASE snap = NULL
      BY <3>1, <3>2 DEF Abstract!transcriptVars
    <3>3. CASE snap # NULL
      BY <1>1, <2>4, <3>1, <3>3 DEF Abstract!TranscriptNext, Abstract!Remove
    <3> QED BY <3>2, <3>3
  <2>9. CASE AppendEventLine
    <3> DEFINE ev == Head(op.todo)
               q == mem.last_seq + 1
    <3>1. /\ mem # NULL /\ snap # NULL /\ UNCHANGED <<snap, mem>>
          /\ ev \in Event /\ q \in Nat /\ LogState \in State
          /\ ev.type = "message" => ev.message.role # "system"
          /\ LogState.last_seq \in Nat /\ LogState.last_seq < q
          /\ LogState' = ApplyEvent(LogState, ev, q)
          /\ Durable = mem
          /\ Aligned(LogState)
          /\ Entries(ApplyEvent(LogState, ev, q)) = EntriesAfter(Entries(LogState), ev, q)
      BY <1>1, <2>9, RecordStep DEF TranscriptInv
    <3> HIDE DEF ev, q
    <3>2. LogState'.last_seq = q
      <4>1. SameLength(LogState)
        BY <3>1, AlignedLength
      <4> QED BY <3>1, <4>1, ApplyEventType
    <3>3. Abstract!OneEvent(Kept(log), Kept(log'))
      BY <2>4, <3>1, <3>2, EventIsOne
    <3>4. Entries(mem) = Kept(log).entries
      BY <2>4, <2>5, <3>1
    <3> QED BY <1>1, <2>1, <2>4, <3>1, <3>3, <3>4
            DEF Abstract!TranscriptNext, Abstract!Record
  <2>10. CASE snap # NULL /\ snap' # NULL /\ UNCHANGED log /\ pc' # "apply"
    <3>1. Durable' = mem'
      BY <2>10 DEF Durable
    <3>2. mem' # NULL => Entries(mem') = Kept(log).entries
      BY <2>4, <2>5, <2>10, <3>1
    <3>3. kept' = kept
      BY <1>1, <2>1, <2>10
    <3> QED BY <1>1, <2>1, <2>4, <2>10, <3>2, <3>3
            DEF Abstract!TranscriptNext, Abstract!Show
  <2> QED BY <1>1, <2>1, <2>6, <2>7, <2>8, <2>9, <2>10, StepKinds
<1> QED BY <1>2, <1>3

LEMMA InitRefines ==
  ASSUME KeptInit
  PROVE  Abstract!TranscriptInit
<1>1. Init /\ kept = Kept(log) /\ mem = NULL
  BY DEF KeptInit, Init, NoSession, LegacySession
<1>2. CASE snap = NULL
  BY <1>1, <1>2 DEF Abstract!TranscriptInit
<1>3. ASSUME NEW ms \in InitialMessages, LegacySession(ms)
      PROVE  Abstract!Numbered(Kept(log))
  <2>1. /\ log \in Seq(Line)
        /\ \A i \in 1..Len(log) : /\ log[i].ok /\ log[i].seq = i
                                  /\ log[i].event.type = "message"
    BY <1>3, LegacyFiles
  <2> QED BY <2>1, CreatedNumbered
<1>4. CASE \E ms \in InitialMessages : LegacySession(ms)
  BY <1>1, <1>3, <1>4 DEF Abstract!TranscriptInit
<1> QED BY <1>1, <1>2, <1>4 DEF Init, NoSession

\* The session store implements the abstract transcript: an event is in it from the moment
\* its line is appended, one at a time and under a new id; a crash at any point takes away
\* what is shown and nothing else; a load shows exactly what was kept.
THEOREM StoreImplementsTranscript ==
  ASSUME NoTornNoDrop
  PROVE  KeptSpec => ImplementsTranscript
<1>1. KeptInit => KeptInv
  BY InitTranscript DEF KeptInit, KeptInv
<1>2. KeptInv /\ [KeptNext]_<<vars, kept>> => KeptInv'
  <2> SUFFICES ASSUME KeptInv, [KeptNext]_<<vars, kept>> PROVE KeptInv'
    OBVIOUS
  <2>1. [Next]_vars
    BY DEF KeptNext
  <2>2. TranscriptInv'
    BY <2>1, NextTranscript DEF KeptInv
  <2>3. kept' = Kept(log')
    <3>1. CASE KeptNext
      BY <3>1 DEF KeptNext
    <3>2. CASE UNCHANGED <<vars, kept>>
      BY <3>2 DEF KeptInv, vars
    <3> QED BY <3>1, <3>2
  <2>4. (kept = Kept(log))'
    BY <2>3 DEF Kept
  <2> QED BY <2>2, <2>4 DEF KeptInv
<1>3. KeptInit => Abstract!TranscriptInit
  BY InitRefines
<1>4. KeptInv /\ [KeptNext]_<<vars, kept>>
         => [Abstract!TranscriptNext]_(Abstract!transcriptVars)
  BY NextRefines
<1> QED BY <1>1, <1>2, <1>3, <1>4, PTL
        DEF KeptSpec, ImplementsTranscript, Abstract!TranscriptSpec

-----------------------------------------------------------------------------
(***************************************************************************)
(* Paging.  read_message_page scans events.jsonl from its end, carrying    *)
(* the edits and the lowest truncation it has met, and stops at a full     *)
(* page; a client follows next_before from page to page.  What it gets is  *)
(* the visible part of the transcript, as apply_event built it forward.    *)
(* First the three recursive functions of SessionLog, then lists of        *)
(* entries under ascending ids, the scan of one page, and the walk.        *)
(***************************************************************************)
\* The recursive definition of PageScan defines a function: the reverse scan of
\* read_message_page has one result for every log.
IsScan(f, lines, limit, before) ==
    f = [k \in 0..Len(lines) |->
            IF k = 0 THEN PageAcc({}, NULL, <<>>)
            ELSE IF Len(f[k - 1].collected) > limit THEN f[k - 1]
                 ELSE HandlePageLine(f[k - 1], lines[Len(lines) + 1 - k], before, limit)]

LEMMA PageScanDef ==
  ASSUME NEW lines, Len(lines) \in Nat, NEW limit, NEW before
  PROVE  IsScan(PageScan(lines, limit, before), lines, limit, before)
<1> DEFINE L == Len(lines)
           First == PageAcc({}, NULL, <<>>)
           Step(acc, k) == IF Len(acc.collected) > limit THEN acc
                           ELSE HandlePageLine(acc, lines[L + 1 - k], before, limit)
           Run(f, n) == f = [k \in 0..n |-> IF k = 0 THEN First ELSE Step(f[k - 1], k)]
           S == {n \in Nat : \E f : Run(f, n)}
<1> HIDE DEF First, Step
<1>1. 0 \in S
  <2> DEFINE f == [i \in 0..0 |-> First]
  <2>1. Run(f, 0)
    OBVIOUS
  <2> QED BY <2>1
<1>2. \A n \in 1..L : n - 1 \in S => n \in S
  <2> SUFFICES ASSUME NEW n \in 1..L, n - 1 \in S PROVE n \in S
    OBVIOUS
  <2>1. PICK f : Run(f, n - 1)
    OBVIOUS
  <2> DEFINE g == [i \in 0..n |-> IF i = n THEN Step(f[n - 1], n) ELSE f[i]]
  <2>2. \A i \in 0..n : g[i] = IF i = 0 THEN First ELSE Step(g[i - 1], i)
    <3> SUFFICES ASSUME NEW i \in 0..n
                 PROVE  g[i] = IF i = 0 THEN First ELSE Step(g[i - 1], i)
      OBVIOUS
    <3>1. CASE i = n
      <4>1. g[i - 1] = f[n - 1] /\ i # 0
        BY <3>1
      <4> QED BY <3>1, <4>1
    <3>2. CASE i # n
      <4>1. i \in 0..(n - 1) /\ g[i] = f[i]
        BY <3>2
      <4>2. f[i] = IF i = 0 THEN First ELSE Step(f[i - 1], i)
        BY <2>1, <4>1
      <4>3. i # 0 => g[i - 1] = f[i - 1]
        BY <4>1
      <4> QED BY <4>1, <4>2, <4>3
    <3> QED BY <3>1, <3>2
  <2>3. Run(g, n)
    BY <2>2
  <2> HIDE DEF Run
  <2> QED BY <2>3
<1>3. L \in S
  <2> HIDE DEF S
  <2>1. \A i \in 0..L : i \in S
    BY <1>1, <1>2, BoundedInduction
  <2> QED BY <2>1
<1>4. \E f : Run(f, L)
  BY <1>3
<1> QED BY <1>4 DEF IsScan, PageScan, First, Step

\* The recursive definition of WalkStates defines a function: following next_before has
\* one result for every log.
IsWalk(f, lines, limit) ==
    f = [k \in 0..Len(lines) + 1 |->
            IF k = 0 THEN [seen |-> <<>>, before |-> NULL, done |-> FALSE]
            ELSE IF f[k - 1].done THEN f[k - 1]
                 ELSE LET page == ReadMessagePage(lines, limit, f[k - 1].before)
                      IN  [seen |-> page.items \o f[k - 1].seen,
                           before |-> page.next_before,
                           done |-> page.next_before = NULL]]

LEMMA WalkStatesDef ==
  ASSUME NEW lines, Len(lines) \in Nat, NEW limit
  PROVE  IsWalk(WalkStates(lines, limit), lines, limit)
<1> DEFINE L == Len(lines) + 1
           First == [seen |-> <<>>, before |-> NULL, done |-> FALSE]
           Step(w) == IF w.done THEN w
                      ELSE LET page == ReadMessagePage(lines, limit, w.before)
                           IN  [seen |-> page.items \o w.seen,
                                before |-> page.next_before,
                                done |-> page.next_before = NULL]
           Run(f, n) == f = [k \in 0..n |-> IF k = 0 THEN First ELSE Step(f[k - 1])]
           S == {n \in Nat : \E f : Run(f, n)}
<1> HIDE DEF First, Step
<1>1. 0 \in S
  <2> DEFINE f == [i \in 0..0 |-> First]
  <2>1. Run(f, 0)
    OBVIOUS
  <2> QED BY <2>1
<1>2. \A n \in 1..L : n - 1 \in S => n \in S
  <2> SUFFICES ASSUME NEW n \in 1..L, n - 1 \in S PROVE n \in S
    OBVIOUS
  <2>1. PICK f : Run(f, n - 1)
    OBVIOUS
  <2> DEFINE g == [i \in 0..n |-> IF i = n THEN Step(f[n - 1]) ELSE f[i]]
  <2>2. \A i \in 0..n : g[i] = IF i = 0 THEN First ELSE Step(g[i - 1])
    <3> SUFFICES ASSUME NEW i \in 0..n
                 PROVE  g[i] = IF i = 0 THEN First ELSE Step(g[i - 1])
      OBVIOUS
    <3>1. CASE i = n
      <4>1. g[i - 1] = f[n - 1] /\ i # 0
        BY <3>1
      <4> QED BY <3>1, <4>1
    <3>2. CASE i # n
      <4>1. i \in 0..(n - 1) /\ g[i] = f[i]
        BY <3>2
      <4>2. f[i] = IF i = 0 THEN First ELSE Step(f[i - 1])
        BY <2>1, <4>1
      <4>3. i # 0 => g[i - 1] = f[i - 1]
        BY <4>1
      <4> QED BY <4>1, <4>2, <4>3
    <3> QED BY <3>1, <3>2
  <2>3. Run(g, n)
    BY <2>2
  <2> HIDE DEF Run
  <2> QED BY <2>3
<1>3. L \in Nat /\ L \in S
  <2>0. L \in Nat
    OBVIOUS
  <2> HIDE DEF S, L
  <2>1. \A i \in 0..L : i \in S
    BY <1>1, <1>2, <2>0, BoundedInduction
  <2> QED BY <2>0, <2>1
<1>4. \E f : Run(f, L)
  BY <1>3
<1> QED BY <1>4 DEF IsWalk, WalkStates, First, Step

\* The recursive definition of DisplayPrefixes defines a function: the visible messages
\* of a session are one list.
IsDisplay(f, st) ==
    f = [i \in 0..Len(st.messages) |->
            IF i = 0 THEN <<>>
            ELSE IF IsDisplayMessage(st.messages[i])
                 THEN Append(f[i - 1], <<st.message_ids[i], st.messages[i]>>)
                 ELSE f[i - 1]]

LEMMA DisplayPrefixesDef ==
  ASSUME NEW st, Len(st.messages) \in Nat
  PROVE  IsDisplay(DisplayPrefixes(st), st)
<1> DEFINE L == Len(st.messages)
           Step(s, i) == IF IsDisplayMessage(st.messages[i])
                         THEN Append(s, <<st.message_ids[i], st.messages[i]>>)
                         ELSE s
           Run(f, n) == f = [i \in 0..n |-> IF i = 0 THEN <<>> ELSE Step(f[i - 1], i)]
           S == {n \in Nat : \E f : Run(f, n)}
<1> HIDE DEF Step
<1>1. 0 \in S
  <2> DEFINE f == [i \in 0..0 |-> <<>>]
  <2>1. Run(f, 0)
    OBVIOUS
  <2> QED BY <2>1
<1>2. \A n \in 1..L : n - 1 \in S => n \in S
  <2> SUFFICES ASSUME NEW n \in 1..L, n - 1 \in S PROVE n \in S
    OBVIOUS
  <2>1. PICK f : Run(f, n - 1)
    OBVIOUS
  <2> DEFINE g == [i \in 0..n |-> IF i = n THEN Step(f[n - 1], n) ELSE f[i]]
  <2>2. \A i \in 0..n : g[i] = IF i = 0 THEN <<>> ELSE Step(g[i - 1], i)
    <3> SUFFICES ASSUME NEW i \in 0..n
                 PROVE  g[i] = IF i = 0 THEN <<>> ELSE Step(g[i - 1], i)
      OBVIOUS
    <3>1. CASE i = n
      <4>1. g[i - 1] = f[n - 1] /\ i # 0
        BY <3>1
      <4> QED BY <3>1, <4>1
    <3>2. CASE i # n
      <4>1. i \in 0..(n - 1) /\ g[i] = f[i]
        BY <3>2
      <4>2. f[i] = IF i = 0 THEN <<>> ELSE Step(f[i - 1], i)
        BY <2>1, <4>1
      <4>3. i # 0 => g[i - 1] = f[i - 1]
        BY <4>1
      <4> QED BY <4>1, <4>2, <4>3
    <3> QED BY <3>1, <3>2
  <2>3. Run(g, n)
    BY <2>2
  <2> HIDE DEF Run
  <2> QED BY <2>3
<1>3. L \in S
  <2> HIDE DEF S
  <2>1. \A i \in 0..L : i \in S
    BY <1>1, <1>2, BoundedInduction
  <2> QED BY <2>1
<1>4. \E f : Run(f, L)
  BY <1>3
<1> QED BY <1>4 DEF IsDisplay, DisplayPrefixes, Step
-----------------------------------------------------------------------------
\* s lists the entries S under ascending ids.
Lists(s, S) ==
    /\ s \in Seq(Nat \X Message)
    /\ \A i, j \in 1..Len(s) : i < j => s[i][1] < s[j][1]
    /\ S = {s[i] : i \in 1..Len(s)}

\* The list without entries, and one with a single entry.
LEMMA ListEmpty == Lists(<<>>, {})
<1>1. <<>> \in Seq(Nat \X Message) /\ Len(<<>>) = 0 /\ 1..0 = {}
  OBVIOUS
<1> QED BY <1>1 DEF Lists

LEMMA ListOne ==
  ASSUME NEW e \in Nat \X Message
  PROVE  Lists(<<e>>, {e})
<1> DEFINE s == <<e>>
<1>1. s \in Seq(Nat \X Message) /\ Len(s) = 1 /\ s[1] = e
  OBVIOUS
<1> HIDE DEF s
<1>2. Lists(s, {e})
  BY <1>1 DEF Lists
<1> QED BY <1>2 DEF s

\* One list after another.
LEMMA ListConcat ==
  ASSUME NEW S, NEW T, NEW s, NEW t, Lists(s, S), Lists(t, T),
         \A e \in S, f \in T : e[1] < f[1]
  PROVE  Lists(s \o t, S \cup T)
<1> DEFINE r == s \o t
           n == Len(s)
           E == Nat \X Message
<1>1. /\ s \in Seq(E) /\ t \in Seq(E)
      /\ \A i, j \in 1..Len(s) : i < j => s[i][1] < s[j][1]
      /\ \A i, j \in 1..Len(t) : i < j => t[i][1] < t[j][1]
      /\ S = {s[i] : i \in 1..Len(s)} /\ T = {t[i] : i \in 1..Len(t)}
  BY DEF Lists
<1> HIDE DEF E
<1>2. /\ n \in Nat /\ Len(t) \in Nat /\ r \in Seq(E) /\ Len(r) = n + Len(t)
      /\ \A i \in 1..n : r[i] = s[i]
      /\ \A i \in 1..Len(t) : r[n + i] = t[i]
  BY <1>1
<1> HIDE DEF r
<1>3. ASSUME NEW i \in 1..Len(r)
      PROVE  \/ i \in 1..n /\ r[i] = s[i]
             \/ i - n \in 1..Len(t) /\ ~(i <= n) /\ r[i] = t[i - n]
  <2>1. CASE i <= n
    BY <1>2, <2>1
  <2>2. CASE ~(i <= n)
    <3>1. i - n \in 1..Len(t) /\ n + (i - n) = i
      BY <1>2, <2>2
    <3> QED BY <1>2, <2>2, <3>1
  <2> QED BY <2>1, <2>2
<1>4. ASSUME NEW i \in 1..Len(r), NEW j \in 1..Len(r), i < j
      PROVE  r[i][1] < r[j][1]
  <2>1. CASE i \in 1..n /\ j \in 1..n
    BY <1>1, <1>2, <1>4, <2>1
  <2>2. CASE i \in 1..n /\ ~(j <= n)
    <3>1. r[i] \in S
      BY <1>1, <1>2, <2>2
    <3>2. r[j] \in T
      BY <1>1, <1>2, <1>3, <2>2
    <3> QED BY <3>1, <3>2
  <2>3. CASE ~(i <= n)
    <3>1. ~(j <= n) /\ j - n \in 1..Len(t) /\ i - n \in 1..Len(t) /\ i - n < j - n
      BY <1>2, <1>4, <2>3
    <3>2. r[i] = t[i - n] /\ r[j] = t[j - n]
      BY <1>2, <1>3, <2>3, <3>1
    <3> QED BY <1>1, <3>1, <3>2
  <2> QED BY <1>2, <1>4, <2>1, <2>2, <2>3
<1>5. S \cup T = {r[i] : i \in 1..Len(r)}
  <2>1. ASSUME NEW e \in S PROVE \E i \in 1..Len(r) : r[i] = e
    <3>1. PICK i \in 1..n : s[i] = e
      BY <1>1
    <3>2. i \in 1..Len(r)
      BY <1>2
    <3> QED BY <1>2, <3>1, <3>2
  <2>2. ASSUME NEW e \in T PROVE \E i \in 1..Len(r) : r[i] = e
    <3>1. PICK i \in 1..Len(t) : t[i] = e
      BY <1>1
    <3>2. n + i \in 1..Len(r)
      BY <1>2
    <3> QED BY <1>2, <3>1, <3>2
  <2>3. \A i \in 1..Len(r) : r[i] \in S \cup T
    BY <1>1, <1>3
  <2> QED BY <2>1, <2>2, <2>3
<1>6. Lists(r, S \cup T)
  BY <1>2, <1>4, <1>5 DEF Lists, E
<1> QED BY <1>6 DEF r

\* Without its first entry.
LEMMA ListTail ==
  ASSUME NEW S, NEW s, Lists(s, S), s # <<>>
  PROVE  /\ s[1] \in S /\ \A e \in S : s[1][1] <= e[1]
         /\ \A e \in S \ {s[1]} : s[1][1] < e[1]
         /\ Lists(Tail(s), S \ {s[1]})
<1> DEFINE t == Tail(s)
           E == Nat \X Message
<1>1. /\ s \in Seq(E)
      /\ \A i, j \in 1..Len(s) : i < j => s[i][1] < s[j][1]
      /\ S = {s[i] : i \in 1..Len(s)}
  BY DEF Lists
<1>2. \A e \in E : e[1] \in Nat
  OBVIOUS
<1> HIDE DEF E
<1>3. /\ Len(s) \in Nat /\ Len(s) # 0 /\ t \in Seq(E) /\ Len(t) = Len(s) - 1
      /\ \A i \in 1..Len(t) : t[i] = s[i + 1]
  BY <1>1
<1> HIDE DEF t
<1>4. 1 \in 1..Len(s) /\ s[1] \in S /\ s[1] \in E
  BY <1>1, <1>3
<1>5. ASSUME NEW e \in S PROVE e = s[1] \/ s[1][1] < e[1]
  <2>1. PICK i \in 1..Len(s) : e = s[i]
    BY <1>1
  <2>2. i = 1 \/ 1 < i
    BY <1>3
  <2> QED BY <1>1, <1>4, <2>1, <2>2
<1>6. \A e \in S : s[1][1] <= e[1]
  <2> SUFFICES ASSUME NEW e \in S PROVE s[1][1] <= e[1]
    OBVIOUS
  <2>1. e \in E
    BY <1>1
  <2>2. e[1] \in Nat /\ s[1][1] \in Nat
    BY <1>2, <1>4, <2>1
  <2> QED BY <1>5, <2>2
<1>7. S \ {s[1]} = {t[i] : i \in 1..Len(t)}
  <2>1. ASSUME NEW e \in S \ {s[1]} PROVE \E i \in 1..Len(t) : t[i] = e
    <3>1. PICK i \in 1..Len(s) : e = s[i]
      BY <1>1
    <3>2. i # 1
      BY <2>1, <3>1
    <3>3. i - 1 \in 1..Len(t) /\ (i - 1) + 1 = i
      BY <1>3, <3>2
    <3> QED BY <1>3, <3>1, <3>3
  <2>2. ASSUME NEW i \in 1..Len(t) PROVE t[i] \in S \ {s[1]}
    <3>1. i + 1 \in 1..Len(s) /\ 1 < i + 1
      BY <1>3
    <3>2. s[i + 1] \in S /\ s[1][1] < s[i + 1][1]
      BY <1>1, <1>4, <3>1
    <3>3. s[1][1] \in Nat
      BY <1>2, <1>4
    <3>4. s[i + 1] # s[1]
      BY <3>2, <3>3
    <3> QED BY <1>3, <3>2, <3>4
  <2> QED BY <2>1, <2>2
<1>8. ASSUME NEW i \in 1..Len(t), NEW j \in 1..Len(t), i < j
      PROVE  t[i][1] < t[j][1]
  <2>1. i + 1 \in 1..Len(s) /\ j + 1 \in 1..Len(s) /\ i + 1 < j + 1
    BY <1>3, <1>8
  <2> QED BY <1>1, <1>3, <2>1
<1>9. Lists(t, S \ {s[1]})
  BY <1>3, <1>7, <1>8 DEF Lists, E
<1> QED BY <1>4, <1>5, <1>6, <1>9 DEF t

\* A set of entries has one listing.
LEMMA ListUnique ==
  ASSUME NEW S, NEW s, NEW t, Lists(s, S), Lists(t, S)
  PROVE  s = t
<1> DEFINE E == Nat \X Message
<1>1. /\ s \in Seq(E) /\ t \in Seq(E) /\ Len(s) \in Nat /\ Len(t) \in Nat
      /\ \A i \in 1..Len(s) : s[i] \in E
      /\ \A i \in 1..Len(t) : t[i] \in E
      /\ \A i, j \in 1..Len(s) : i < j => s[i][1] < s[j][1]
      /\ \A i, j \in 1..Len(t) : i < j => t[i][1] < t[j][1]
      /\ \A i \in 1..Len(s) : \E j \in 1..Len(t) : s[i] = t[j]
      /\ \A i \in 1..Len(t) : \E j \in 1..Len(s) : t[i] = s[j]
  <2>1. s \in Seq(E) /\ t \in Seq(E)
    BY DEF Lists
  <2>2. S = {s[i] : i \in 1..Len(s)} /\ S = {t[i] : i \in 1..Len(t)}
    BY DEF Lists
  <2>3. \A i \in 1..Len(s) : s[i] \in S
    BY <2>2
  <2>4. \A i \in 1..Len(t) : t[i] \in S
    BY <2>2
  <2>5. \A i \in 1..Len(s) : \E j \in 1..Len(t) : s[i] = t[j]
    BY <2>2, <2>3
  <2>6. \A i \in 1..Len(t) : \E j \in 1..Len(s) : t[i] = s[j]
    BY <2>2, <2>4
  <2> HIDE DEF E
  <2>7. \A i \in 1..Len(s) : s[i] \in E
    BY <2>1
  <2>8. \A i \in 1..Len(t) : t[i] \in E
    BY <2>1
  <2>9. Len(s) \in Nat /\ Len(t) \in Nat
    BY <2>1
  <2> QED BY <2>1, <2>5, <2>6, <2>7, <2>8, <2>9 DEF Lists
<1>2. \A e \in E : e[1] \in Nat
  OBVIOUS
<1> HIDE DEF E
<1>3. ASSUME NEW i \in Nat, i \in 1..Len(s), i \in 1..Len(t)
      PROVE  ~(s[i] # t[i] /\ \A k \in 1..(i - 1) : s[k] = t[k])
  <2> SUFFICES ASSUME s[i] # t[i], \A k \in 1..(i - 1) : s[k] = t[k] PROVE FALSE
    OBVIOUS
  <2>1. PICK j \in 1..Len(t) : s[i] = t[j]
    BY <1>1, <1>3
  <2>2. PICK k \in 1..Len(s) : t[i] = s[k]
    BY <1>1, <1>3
  <2>3. s[i][1] \in Nat /\ t[i][1] \in Nat
    BY <1>1, <1>2, <1>3
  <2>4. i < j
    <3>1. j # i
      BY <2>1
    <3>2. ASSUME j < i PROVE FALSE
      <4>1. j \in 1..(i - 1) /\ j \in 1..Len(s)
        BY <1>1, <1>3, <3>2
      <4>2. s[j] = s[i] /\ s[j][1] < s[i][1]
        BY <1>1, <1>3, <2>1, <3>2, <4>1
      <4> QED BY <2>3, <4>2
    <3> QED BY <1>1, <3>1, <3>2
  <2>5. i < k
    <3>1. k # i
      BY <2>2
    <3>2. ASSUME k < i PROVE FALSE
      <4>1. k \in 1..(i - 1) /\ k \in 1..Len(t)
        BY <1>1, <1>3, <3>2
      <4>2. t[k] = t[i] /\ t[k][1] < t[i][1]
        BY <1>1, <1>3, <2>2, <3>2, <4>1
      <4> QED BY <2>3, <4>2
    <3> QED BY <1>1, <3>1, <3>2
  <2>6. t[i][1] < t[j][1] /\ s[i][1] < s[k][1]
    BY <1>1, <1>3, <2>4, <2>5
  <2> QED BY <2>1, <2>2, <2>3, <2>6
<1>4. ASSUME NEW i \in 1..Len(s), i \in 1..Len(t) PROVE s[i] = t[i]
  <2> DEFINE D == {k \in 1..Len(s) : k \in 1..Len(t) /\ s[k] # t[k]}
  <2> SUFFICES ASSUME s[i] # t[i] PROVE FALSE
    OBVIOUS
  <2>1. D \in SUBSET Nat /\ D # {}
    BY <1>4
  <2>2. PICK m \in D : \A k \in D : m <= k
    BY <2>1, LeastElement
  <2>3. m \in Nat /\ m \in 1..Len(s) /\ m \in 1..Len(t) /\ s[m] # t[m]
    BY <2>2
  <2>4. \A k \in 1..(m - 1) : s[k] = t[k]
    <3> SUFFICES ASSUME NEW k \in 1..(m - 1), s[k] # t[k] PROVE FALSE
      OBVIOUS
    <3>0. k < m /\ k \in 1..Len(s) /\ k \in 1..Len(t)
      <4>1. Len(s) \in Nat /\ Len(t) \in Nat
        BY <1>1
      <4> QED BY <2>3, <4>1
    <3>1. k \in D /\ ~(m <= k)
      BY <2>3, <3>0
    <3> QED BY <2>2, <3>1
  <2> QED BY <1>3, <2>3, <2>4
<1>5. Len(s) = Len(t)
  <2>1. ASSUME Len(s) < Len(t) PROVE FALSE
    <3> DEFINE i == Len(s) + 1
    <3>1. i \in 1..Len(t)
      BY <1>1, <2>1
    <3>2. PICK j \in 1..Len(s) : t[i] = s[j]
      BY <1>1, <3>1
    <3>3. j \in 1..Len(t) /\ j < i
      BY <1>1, <2>1
    <3>4. t[j] = t[i] /\ t[j][1] < t[i][1] /\ t[i][1] \in Nat
      BY <1>1, <1>2, <1>4, <3>1, <3>2, <3>3
    <3> QED BY <3>4
  <2>2. ASSUME Len(t) < Len(s) PROVE FALSE
    <3> DEFINE i == Len(t) + 1
    <3>1. i \in 1..Len(s)
      BY <1>1, <2>2
    <3>2. PICK j \in 1..Len(t) : s[i] = t[j]
      BY <1>1, <3>1
    <3>3. j \in 1..Len(s) /\ j < i
      BY <1>1, <2>2
    <3>4. s[j] = s[i] /\ s[j][1] < s[i][1] /\ s[i][1] \in Nat
      BY <1>1, <1>2, <1>4, <3>1, <3>2, <3>3
    <3> QED BY <3>4
  <2> QED BY <1>1, <2>1, <2>2
<1>6. \A i \in 1..Len(s) : s[i] = t[i]
  BY <1>4, <1>5
<1>7. s = [i \in 1..Len(s) |-> s[i]] /\ t = [i \in 1..Len(t) |-> t[i]]
  BY <1>1
<1> QED BY <1>5, <1>6, <1>7

\* The visible messages of a session in memory, under ascending ids.
DisplayPart(entries) == {e \in entries : IsDisplayMessage(e[2])}

\* What a session shows is its visible entries, under ascending ids.
LEMMA DisplayLists ==
  ASSUME NEW st \in State, Aligned(st)
  PROVE  Lists(DisplayEntries(st), DisplayPart(Entries(st)))
<1> DEFINE n == Len(st.messages)
           d == DisplayPrefixes(st)
           At(k) == <<st.message_ids[k], st.messages[k]>>
           Upto(i) == {At(k) : k \in {j \in 1..i : IsDisplayMessage(st.messages[j])}}
           S == {i \in Nat : Lists(d[i], Upto(i))}
<1>1. /\ n \in Nat /\ SameLength(st)
      /\ \A k \in 1..n : st.messages[k] \in Message /\ st.message_ids[k] \in Nat
  BY AlignedLength, StateFields
<1>2. d = [i \in 0..n |->
             IF i = 0 THEN <<>>
             ELSE IF IsDisplayMessage(st.messages[i]) THEN Append(d[i - 1], At(i))
             ELSE d[i - 1]]
  BY <1>1, DisplayPrefixesDef DEF IsDisplay
<1>3. DisplayEntries(st) = d[n]
  BY DEF DisplayEntries
<1>4. /\ d[0] = <<>>
      /\ \A i \in 1..n : d[i] = IF IsDisplayMessage(st.messages[i])
                                 THEN Append(d[i - 1], At(i)) ELSE d[i - 1]
  <2> DEFINE Next1(s, i) == IF IsDisplayMessage(st.messages[i])
                            THEN Append(s, At(i)) ELSE s
  <2>1. d = [i \in 0..n |-> IF i = 0 THEN <<>> ELSE Next1(d[i - 1], i)]
    BY <1>2
  <2> HIDE DEF d, n, At, Next1
  <2>2. d[0] = <<>> /\ \A i \in 1..n : d[i] = Next1(d[i - 1], i)
    BY <1>1, <2>1
  <2> QED BY <2>2 DEF Next1
<1> HIDE DEF d
<1>5. ASSUME NEW i \in 1..n, NEW j \in 1..n, i < j,
             IsDisplayMessage(st.messages[i]), IsDisplayMessage(st.messages[j])
      PROVE  st.message_ids[i] < st.message_ids[j]
  <2> DEFINE p == PreambleEnd(st.messages)
  <2>1. p \in 0..n /\ \A k \in 1..p : st.messages[k].role = "system"
    <3>1. st.messages \in Seq(Message)
      BY <1>1, StateFields
    <3> QED BY <3>1, PreambleEndProperties
  <2>2. \A k \in 1..n : IsDisplayMessage(st.messages[k]) => k \in p + 1..n
    BY <1>1, <2>1 DEF IsDisplayMessage
  <2> HIDE DEF p
  <2>3. i \in p + 1..n /\ j \in p + 1..n
    BY <1>5, <2>2
  <2> QED BY <1>5, <2>3 DEF Aligned, p
<1>6. 0 \in S
  <2>1. Upto(0) = {}
    OBVIOUS
  <2> QED BY <1>4, <2>1, ListEmpty
<1>7. ASSUME NEW i \in 1..n, i - 1 \in S PROVE i \in S
  <2>0. Lists(d[i - 1], Upto(i - 1)) /\ i \in Nat
    BY <1>1, <1>7
  <2>1. CASE IsDisplayMessage(st.messages[i])
    <3>1. Upto(i) = Upto(i - 1) \cup {At(i)}
      <4>1. \A k : k \in 1..i <=> k \in 1..(i - 1) \/ k = i
        BY <1>1
      <4> HIDE DEF At
      <4> QED BY <2>1, <4>1
    <3>2. \A e \in Upto(i - 1), f \in {At(i)} : e[1] < f[1]
      <4> SUFFICES ASSUME NEW k \in 1..(i - 1), IsDisplayMessage(st.messages[k])
                   PROVE  At(k)[1] < At(i)[1]
        OBVIOUS
      <4>1. k \in 1..n /\ k < i
        BY <1>1
      <4> QED BY <1>5, <2>1, <4>1
    <3>3. At(i) \in Nat \X Message
      BY <1>1
    <3>4. d[i] = d[i - 1] \o <<At(i)>>
      <4>1. d[i - 1] \in Seq(Nat \X Message)
        BY <2>0 DEF Lists
      <4>2. d[i] = Append(d[i - 1], At(i))
        BY <1>4, <2>1
      <4> HIDE DEF At
      <4> QED BY <3>3, <4>1, <4>2
    <3> HIDE DEF At, Upto
    <3>5. Lists(<<At(i)>>, {At(i)})
      BY <3>3, ListOne
    <3>6. Lists(d[i - 1] \o <<At(i)>>, Upto(i - 1) \cup {At(i)})
      BY <2>0, <3>2, <3>5, ListConcat
    <3> QED BY <2>0, <3>1, <3>4, <3>6
  <2>2. CASE ~IsDisplayMessage(st.messages[i])
    <3>1. Upto(i) = Upto(i - 1)
      <4>1. \A k : k \in 1..i <=> k \in 1..(i - 1) \/ k = i
        BY <1>1
      <4> HIDE DEF At
      <4> QED BY <2>2, <4>1
    <3> QED BY <1>4, <2>0, <2>2, <3>1
  <2> QED BY <2>1, <2>2
<1>8. \A i \in 0..n : i \in S
  <2> HIDE DEF S
  <2> QED BY <1>1, <1>6, <1>7, BoundedInduction
<1>9. Lists(d[n], Upto(n))
  <2>1. n \in S
    <3> HIDE DEF S
    <3> QED BY <1>1, <1>8
  <2> HIDE DEF Upto
  <2> QED BY <2>1
<1>10. Upto(n) = DisplayPart(Entries(st))
  <2>1. \A m : IsDisplayMessage(m) => m.role # "system"
    BY DEF IsDisplayMessage
  <2>2. \A e : e \in Entries(st) <=> \E k \in 1..n : st.messages[k].role # "system"
                                                    /\ e = At(k)
    BY <1>1, EntryMembers
  <2>3. \A k : At(k)[2] = st.messages[k]
    OBVIOUS
  <2> HIDE DEF At
  <2>4. ASSUME NEW e \in Upto(n) PROVE e \in DisplayPart(Entries(st))
    BY <2>1, <2>2, <2>3 DEF DisplayPart
  <2>5. ASSUME NEW e \in DisplayPart(Entries(st)) PROVE e \in Upto(n)
    <3>1. e \in Entries(st) /\ IsDisplayMessage(e[2])
      BY DEF DisplayPart
    <3>2. PICK k \in 1..n : e = At(k)
      BY <2>2, <3>1
    <3> QED BY <2>3, <3>1, <3>2
  <2> QED BY <2>4, <2>5
<1> QED BY <1>3, <1>9, <1>10

-----------------------------------------------------------------------------
(***************************************************************************)
(* The reverse scan.  E[i] is the transcript after the first i lines.      *)
(***************************************************************************)
Historic(lines, E) ==
    /\ lines \in Seq(Line) /\ \A i \in 1..Len(lines) : lines[i].ok
    /\ Ordered(lines) /\ RefersBack(lines)
    /\ E[0] = {}
    /\ \A i \in 1..Len(lines) :
          E[i] = EntriesAfter(E[i - 1], lines[i].event, lines[i].seq)
    /\ \A i \in 1..Len(lines) :
          lines[i].event.type = "truncate" =>
             \E e \in E[i - 1] : e[1] = lines[i].event.id

\* The message an event carries.
LEMMA EventMessages ==
  ASSUME NEW ev \in Event
  PROVE  /\ ev.type \in EventType /\ ev.id \in Nat
         /\ ev.type \in {"message", "edit"} => ev.message \in Message
  BY DEF Event, AnyEvent

\* The entries of a transcript are messages recorded before.
LEMMA HistoricEntries ==
  ASSUME NEW lines, NEW E, Historic(lines, E)
  PROVE  \A i \in 0..Len(lines) : \A e \in E[i] :
            /\ e \in Nat \X Message
            /\ \E j \in 1..i : IsTranscript(lines[j]) /\ lines[j].seq = e[1]
<1> DEFINE n == Len(lines)
           Back(e, i) == \E j \in 1..i : IsTranscript(lines[j]) /\ lines[j].seq = e[1]
           S == {i \in Nat : \A e \in E[i] : e \in Nat \X Message /\ Back(e, i)}
<1>1. /\ n \in Nat /\ lines \in Seq(Line) /\ \A i \in 1..n : lines[i].ok
      /\ E[0] = {}
      /\ \A i \in 1..n : E[i] = EntriesAfter(E[i - 1], lines[i].event, lines[i].seq)
  BY DEF Historic
<1>2. 0 \in S
  BY <1>1
<1>3. ASSUME NEW i \in 1..n, i - 1 \in S PROVE i \in S
  <2> DEFINE ev == lines[i].event
             q == lines[i].seq
  <2>1. /\ E[i] = EntriesAfter(E[i - 1], ev, q) /\ lines[i].ok
        /\ ev \in Event /\ q \in Nat /\ i \in Nat
    BY <1>1, LineFields
  <2>2. \A e \in E[i - 1] : e \in Nat \X Message /\ Back(e, i - 1)
    BY <1>3
  <2>3. \A e : Back(e, i - 1) => Back(e, i)
    <3>1. \A j \in 1..(i - 1) : j \in 1..i
      BY <2>1
    <3> QED BY <3>1
  <2>4. ev.type \in {"message", "edit"} => ev.message \in Message
    BY <2>1, EventMessages
  <2>5. ev.type = "message" /\ ev.message.role # "system" => \A m : Back(<<q, m>>, i)
    <3>1. i \in 1..i
      BY <2>1
    <3> QED BY <2>1, <3>1 DEF IsTranscript, IsMessage
  <2>6. \A e, m : Back(e, i) => Back(<<e[1], m>>, i)
    OBVIOUS
  <2>7. \A e \in Nat \X Message : e[1] \in Nat
    OBVIOUS
  <2> HIDE DEF Back, ev, q
  <2>8. ASSUME NEW e \in E[i] PROVE e \in Nat \X Message /\ Back(e, i)
    <3>1. CASE ev.type = "message"
      <4>1. e \in E[i - 1] \/ (ev.message.role # "system" /\ e = <<q, ev.message>>)
        BY <2>1, <2>8, <3>1 DEF EntriesAfter
      <4> QED BY <2>1, <2>2, <2>3, <2>4, <2>5, <3>1, <4>1
    <3>2. CASE ev.type = "edit"
      <4>1. PICK f \in E[i - 1] : e = IF f[1] = ev.id THEN <<ev.id, ev.message>> ELSE f
        BY <2>1, <2>8, <3>2 DEF EntriesAfter
      <4>2. CASE f[1] = ev.id
        <5>1. e = <<f[1], ev.message>> /\ f[1] \in Nat
          BY <2>2, <2>7, <4>1, <4>2
        <5> QED BY <2>2, <2>3, <2>4, <2>6, <3>2, <4>1, <5>1
      <4>3. CASE f[1] # ev.id
        BY <2>2, <2>3, <4>1, <4>3
      <4> QED BY <4>2, <4>3
    <3>3. CASE ev.type = "truncate"
      <4>1. e \in E[i - 1]
        BY <2>1, <2>8, <3>3 DEF EntriesAfter
      <4> QED BY <2>2, <2>3, <4>1
    <3>4. CASE ev.type \notin {"message", "edit", "truncate"}
      <4>1. e \in E[i - 1]
        BY <2>1, <2>8, <3>4 DEF EntriesAfter
      <4> QED BY <2>2, <2>3, <4>1
    <3> QED BY <3>1, <3>2, <3>3, <3>4
  <2> QED BY <2>1, <2>8
<1>4. \A i \in 0..n : i \in S
  <2> HIDE DEF S
  <2> QED BY <1>1, <1>2, <1>3, BoundedInduction
<1> QED BY <1>4

\* The text an entry gets from the edits met so far, all of them later than it.
AnyOf(S) == CHOOSE d \in S : TRUE

Text(e, edits) ==
    LET edited == {d \in edits : d[1] = e[1]}
    IN  IF edited = {} THEN e ELSE <<e[1], AnyOf(edited)[2]>>

\* What the page will show of the entries S, given the edits and the truncations after
\* them.
Coming(S, edits, cutoff, before) ==
    {x \in {Text(e, edits) : e \in {f \in S : /\ Before(f[1], before)
                                           /\ ~DeletedByLaterTruncate(f[1], cutoff)}} :
        IsDisplayMessage(x[2])}

\* Its members, one by one.
LEMMA ComingMembers ==
  ASSUME NEW S, NEW edits, NEW cutoff, NEW before
  PROVE  \A x : x \in Coming(S, edits, cutoff, before) <=>
            \E e \in S : /\ Before(e[1], before) /\ ~DeletedByLaterTruncate(e[1], cutoff)
                        /\ x = Text(e, edits) /\ IsDisplayMessage(x[2])
  BY DEF Coming

\* Two ways to the same set of entries.
LEMMA ComingSame ==
  ASSUME NEW S, NEW edits, NEW cutoff, NEW T, NEW more, NEW lower, NEW before,
         \A e \in S : Before(e[1], before) /\ ~DeletedByLaterTruncate(e[1], cutoff) =>
            \E f \in T : /\ Before(f[1], before) /\ ~DeletedByLaterTruncate(f[1], lower)
                        /\ Text(f, more) = Text(e, edits)
  PROVE  Coming(S, edits, cutoff, before) \subseteq Coming(T, more, lower, before)
<1> SUFFICES ASSUME NEW x \in Coming(S, edits, cutoff, before)
             PROVE  x \in Coming(T, more, lower, before)
  OBVIOUS
<1>1. PICK e \in S : /\ Before(e[1], before) /\ ~DeletedByLaterTruncate(e[1], cutoff)
                     /\ x = Text(e, edits) /\ IsDisplayMessage(x[2])
  BY ComingMembers
<1>2. PICK f \in T : /\ Before(f[1], before) /\ ~DeletedByLaterTruncate(f[1], lower)
                     /\ Text(f, more) = Text(e, edits)
  BY <1>1
<1> QED BY <1>1, <1>2, ComingMembers

\* The text of an entry depends on the edits of that entry alone.
LEMMA TextProperties ==
  ASSUME NEW e, NEW edits
  PROVE  /\ (\A d \in edits : d[1] # e[1]) => Text(e, edits) = e
         /\ \A f : f[1] = e[1] /\ (\E d \in edits : d[1] = e[1]) =>
               Text(f, edits) = Text(e, edits)
         /\ \A more : {d \in more : d[1] = e[1]} = {d \in edits : d[1] = e[1]} =>
               Text(e, more) = Text(e, edits)
         /\ e \in Nat \X Message /\ edits \subseteq Nat \X Message =>
               /\ Text(e, edits) \in Nat \X Message
               /\ Text(e, edits)[1] = e[1]
<1> DEFINE edited == {d \in edits : d[1] = e[1]}
           c == AnyOf(edited)
<1>1. Text(e, edits) = IF edited = {} THEN e ELSE <<e[1], c[2]>>
  BY DEF Text
<1>2. ASSUME \A d \in edits : d[1] # e[1] PROVE Text(e, edits) = e
  BY <1>1, <1>2
<1>3. ASSUME NEW f, f[1] = e[1], \E d \in edits : d[1] = e[1]
      PROVE  Text(f, edits) = Text(e, edits)
  <2>1. {d \in edits : d[1] = f[1]} = edited /\ edited # {}
    BY <1>3
  <2>2. Text(f, edits) = <<f[1], c[2]>>
    BY <2>1, Zenon DEF Text
  <2> QED BY <1>1, <1>3, <2>1, <2>2
<1>4. ASSUME NEW more, {d \in more : d[1] = e[1]} = edited
      PROVE  Text(e, more) = Text(e, edits)
  BY <1>1, <1>4 DEF Text
<1>5. ASSUME e \in Nat \X Message, edits \subseteq Nat \X Message
      PROVE  Text(e, edits) \in Nat \X Message /\ Text(e, edits)[1] = e[1]
  <2>1. CASE edited = {}
    BY <1>1, <1>5, <2>1
  <2>2. CASE edited # {}
    <3>1. c \in edited
      BY <2>2 DEF AnyOf
    <3>2. c \in Nat \X Message
      BY <1>5, <3>1
    <3> HIDE DEF edited, c
    <3>3. c[2] \in Message /\ e[1] \in Nat
      BY <1>5, <3>2
    <3>4. Text(e, edits) = <<e[1], c[2]>>
      BY <1>1, <2>2
    <3> QED BY <3>3, <3>4
  <2> QED BY <2>1, <2>2
<1> QED BY <1>2, <1>3, <1>4, <1>5

-----------------------------------------------------------------------------
(***************************************************************************)
(* One line of the scan.  V is what the page is to show: what has been     *)
(* collected, and what will come of the entries at the lines left.         *)
(***************************************************************************)
Listed(s) == {s[i] : i \in 1..Len(s)}

\* The scan with p lines left: its edits are of recorded messages, what it collected is
\* in order and above every message line left, and nothing of V is lost.
ScanInv(acc, p, lines, E, V, before, limit) ==
    /\ acc = PageAcc(acc.edits, acc.cutoff, acc.collected)
    /\ acc.edits \subseteq Nat \X Message
    /\ \A d \in acc.edits : d[1] \in Recorded(lines)
    /\ acc.cutoff \in Nat \cup {NULL}
    /\ Lists(acc.collected, Listed(acc.collected))
    /\ \A c \in Listed(acc.collected) : \A i \in 1..p :
          IsMessage(lines[i]) => lines[i].seq < c[1]
    /\ Len(acc.collected) <= limit + 1
    /\ V = Listed(acc.collected) \cup Coming(E[p], acc.edits, acc.cutoff, before)

\* An accumulator with one field changed.
LEMMA AccChanges ==
  ASSUME NEW acc, acc = PageAcc(acc.edits, acc.cutoff, acc.collected), NEW x
  PROVE  /\ [acc EXCEPT !.edits = x] = PageAcc(x, acc.cutoff, acc.collected)
         /\ [acc EXCEPT !.cutoff = x] = PageAcc(acc.edits, x, acc.collected)
         /\ [acc EXCEPT !.collected = x] = PageAcc(acc.edits, acc.cutoff, x)
<1>1. ASSUME NEW e, NEW c, NEW s
      PROVE  /\ [PageAcc(e, c, s) EXCEPT !.edits = x] = PageAcc(x, c, s)
             /\ [PageAcc(e, c, s) EXCEPT !.cutoff = x] = PageAcc(e, x, s)
             /\ [PageAcc(e, c, s) EXCEPT !.collected = x] = PageAcc(e, c, x)
  BY DEF PageAcc
<1> DEFINE e == acc.edits
           c == acc.cutoff
           s == acc.collected
<1>2. acc = PageAcc(e, c, s)
  OBVIOUS
<1> HIDE DEF e, c, s
<1>3. /\ [acc EXCEPT !.edits = x] = PageAcc(x, c, s)
      /\ [acc EXCEPT !.cutoff = x] = PageAcc(e, x, s)
      /\ [acc EXCEPT !.collected = x] = PageAcc(e, c, x)
  BY <1>1, <1>2
<1> QED BY <1>3 DEF e, c, s

\* A line that keeps the collected messages and changes what is known about the rest.
LEMMA ScanKeeps ==
  ASSUME NEW lines, NEW E, NEW V, NEW before, NEW limit, NEW p \in Nat,
         NEW acc, ScanInv(acc, p, lines, E, V, before, limit),
         NEW edits, NEW cutoff, edits \subseteq Nat \X Message,
         \A d \in edits : d[1] \in Recorded(lines),
         cutoff \in Nat \cup {NULL},
         Coming(E[p], acc.edits, acc.cutoff, before) = Coming(E[p - 1], edits, cutoff, before)
  PROVE  ScanInv(PageAcc(edits, cutoff, acc.collected), p - 1, lines, E, V, before, limit)
<1> DEFINE r == PageAcc(edits, cutoff, acc.collected)
<1>1. r.edits = edits /\ r.cutoff = cutoff /\ r.collected = acc.collected
  BY DEF PageAcc
<1>2. r = PageAcc(r.edits, r.cutoff, r.collected)
  BY <1>1
<1> HIDE DEF r
<1>3. \A i \in 1..(p - 1) : i \in 1..p
  OBVIOUS
<1>4. /\ Lists(acc.collected, Listed(acc.collected))
      /\ \A c \in Listed(acc.collected) : \A i \in 1..p :
            IsMessage(lines[i]) => lines[i].seq < c[1]
      /\ Len(acc.collected) <= limit + 1
      /\ V = Listed(acc.collected) \cup Coming(E[p], acc.edits, acc.cutoff, before)
  BY DEF ScanInv
<1> QED BY <1>1, <1>2, <1>3, <1>4 DEF ScanInv, r

\* A truncation: what it takes away is what its id as a cutoff takes away.
LEMMA ScanTruncate ==
  ASSUME NEW lines, NEW E, Historic(lines, E), NEW V, NEW before, NEW limit,
         NEW p \in 1..Len(lines), NEW acc, ScanInv(acc, p, lines, E, V, before, limit),
         lines[p].event.type = "truncate"
  PROVE  ScanInv(HandlePageLine(acc, lines[p], before, limit), p - 1, lines, E, V, before, limit)
<1> DEFINE ev == lines[p].event
           S == E[p - 1]
           low == LowerCutoff(acc.cutoff, ev.id)
<1>1. lines \in Seq(Line) /\ Len(lines) \in Nat /\ p \in Nat
  BY DEF Historic
<1>2. ev \in Event /\ ev.id \in Nat
  BY <1>1, LineFields, EventMessages
<1>3. E[p] = {e \in S : e[1] <= ev.id}
  BY DEF Historic, EntriesAfter
<1>4. \A e \in S : e[1] \in Nat
  <2>1. p - 1 \in 0..Len(lines)
    BY <1>1
  <2>2. \A e \in S : e \in Nat \X Message
    BY <2>1, HistoricEntries
  <2> QED BY <2>2
<1>5. /\ acc = PageAcc(acc.edits, acc.cutoff, acc.collected)
      /\ acc.edits \subseteq Nat \X Message
      /\ \A d \in acc.edits : d[1] \in Recorded(lines)
      /\ acc.cutoff \in Nat \cup {NULL}
  BY DEF ScanInv
<1>6. HandlePageLine(acc, lines[p], before, limit) = PageAcc(acc.edits, low, acc.collected)
  <2>1. HandlePageLine(acc, lines[p], before, limit) = [acc EXCEPT !.cutoff = low]
    BY DEF HandlePageLine
  <2> HIDE DEF low
  <2> QED BY <1>5, <2>1, AccChanges
<1>7. low \in Nat /\ low \in Nat \cup {NULL}
  BY <1>2, <1>5 DEF LowerCutoff
<1>8. ASSUME NEW e \in S
      PROVE  ~DeletedByLaterTruncate(e[1], low)
                <=> e[1] <= ev.id /\ ~DeletedByLaterTruncate(e[1], acc.cutoff)
  <2>1. NULL \notin Nat
    BY NullAssumption
  <2> HIDE DEF ev, S
  <2>2. e[1] \in Nat
    BY <1>4
  <2>3. CASE acc.cutoff = NULL
    BY <1>2, <2>1, <2>2, <2>3 DEF DeletedByLaterTruncate, LowerCutoff
  <2>4. CASE acc.cutoff # NULL
    <3>1. acc.cutoff \in Nat
      BY <1>5, <2>4
    <3> QED BY <1>2, <2>1, <2>2, <2>4, <3>1 DEF DeletedByLaterTruncate, LowerCutoff
  <2> QED BY <2>3, <2>4
<1> HIDE DEF low, ev
<1>9. Coming(E[p], acc.edits, acc.cutoff, before) = Coming(S, acc.edits, low, before)
  <2>1. Coming(E[p], acc.edits, acc.cutoff, before) \subseteq Coming(S, acc.edits, low, before)
    <3>1. \A e \in E[p] : ~DeletedByLaterTruncate(e[1], acc.cutoff) =>
             e \in S /\ ~DeletedByLaterTruncate(e[1], low)
      BY <1>3, <1>8
    <3> HIDE DEF S
    <3> QED BY <3>1, ComingSame
  <2>2. Coming(S, acc.edits, low, before) \subseteq Coming(E[p], acc.edits, acc.cutoff, before)
    <3>1. \A e \in S : ~DeletedByLaterTruncate(e[1], low) =>
             e \in E[p] /\ ~DeletedByLaterTruncate(e[1], acc.cutoff)
      BY <1>3, <1>8
    <3> HIDE DEF S
    <3> QED BY <3>1, ComingSame
  <2> QED BY <2>1, <2>2
<1> QED BY <1>1, <1>5, <1>6, <1>7, <1>9, ScanKeeps

\* An edit: the first one met is the one the message keeps.
LEMMA ScanEdit ==
  ASSUME NEW lines, NEW E, Historic(lines, E), NEW V, NEW before, NEW limit,
         NEW p \in 1..Len(lines), NEW acc, ScanInv(acc, p, lines, E, V, before, limit),
         lines[p].event.type = "edit"
  PROVE  ScanInv(HandlePageLine(acc, lines[p], before, limit), p - 1, lines, E, V, before, limit)
<1> DEFINE ev == lines[p].event
           S == E[p - 1]
           Upd(e) == IF e[1] = ev.id THEN <<ev.id, ev.message>> ELSE e
           Out == \/ ~Before(ev.id, before)
                  \/ DeletedByLaterTruncate(ev.id, acc.cutoff)
                  \/ \E e \in acc.edits : e[1] = ev.id
           more == IF Out THEN acc.edits ELSE acc.edits \cup {<<ev.id, ev.message>>}
<1>1. lines \in Seq(Line) /\ Len(lines) \in Nat /\ p \in Nat /\ lines[p].ok
  BY DEF Historic
<1>2. ev \in Event /\ ev.id \in Nat /\ ev.message \in Message
  BY <1>1, LineFields, EventMessages
<1>3. E[p] = {Upd(e) : e \in S}
  BY DEF Historic, EntriesAfter
<1>4. ev.id \in Recorded(lines)
  <2>1. PICK i \in 1..(p - 1) : IsTranscript(lines[i]) /\ lines[i].seq = ev.id
    BY <1>1 DEF Historic, RefersBack, Refers
  <2>2. i \in 1..Len(lines)
    BY <1>1
  <2> QED BY <2>1, <2>2 DEF Recorded
<1>5. /\ acc = PageAcc(acc.edits, acc.cutoff, acc.collected)
      /\ acc.edits \subseteq Nat \X Message
      /\ \A d \in acc.edits : d[1] \in Recorded(lines)
      /\ acc.cutoff \in Nat \cup {NULL}
  BY DEF ScanInv
<1>6. HandlePageLine(acc, lines[p], before, limit) = PageAcc(more, acc.cutoff, acc.collected)
  <2>1. HandlePageLine(acc, lines[p], before, limit)
           = IF Out THEN acc ELSE [acc EXCEPT !.edits = @ \cup {<<ev.id, ev.message>>}]
    BY DEF HandlePageLine
  <2> HIDE DEF Out, ev
  <2>2. [acc EXCEPT !.edits = @ \cup {<<ev.id, ev.message>>}]
           = PageAcc(acc.edits \cup {<<ev.id, ev.message>>}, acc.cutoff, acc.collected)
    BY <1>5, AccChanges
  <2> QED BY <1>5, <2>1, <2>2
<1>7. more \subseteq Nat \X Message /\ \A d \in more : d[1] \in Recorded(lines)
  <2> HIDE DEF Out, ev
  <2>1. <<ev.id, ev.message>>[1] = ev.id
    OBVIOUS
  <2> QED BY <1>2, <1>4, <1>5, <2>1
<1>8. \A e : Upd(e)[1] = e[1]
  OBVIOUS
<1>9. ASSUME NEW e \in S, Before(e[1], before), ~DeletedByLaterTruncate(e[1], acc.cutoff)
      PROVE  Text(Upd(e), acc.edits) = Text(e, more)
  <2>1. CASE e[1] # ev.id
    <3>1. Upd(e) = e
      BY <2>1
    <3>2. {d \in more : d[1] = e[1]} = {d \in acc.edits : d[1] = e[1]}
      <4>1. <<ev.id, ev.message>>[1] # e[1]
        BY <2>1
      <4> HIDE DEF Out, ev
      <4> QED BY <4>1
    <3> HIDE DEF more, Upd
    <3> QED BY <3>1, <3>2, TextProperties
  <2>2. CASE e[1] = ev.id /\ \E d \in acc.edits : d[1] = ev.id
    <3>1. more = acc.edits
      BY <2>2
    <3> HIDE DEF more, Upd
    <3> QED BY <1>8, <2>2, <3>1, TextProperties
  <2>3. CASE e[1] = ev.id /\ ~\E d \in acc.edits : d[1] = ev.id
    <3> DEFINE new == <<ev.id, ev.message>>
    <3>1. more = acc.edits \cup {new} /\ Upd(e) = new /\ new[1] = ev.id
      BY <1>9, <2>3
    <3>2. Text(Upd(e), acc.edits) = new
      <4>1. \A d \in acc.edits : d[1] # new[1]
        BY <2>3, <3>1
      <4> HIDE DEF more, Upd, new
      <4> QED BY <3>1, <4>1, TextProperties
    <3>3. Text(e, more) = new
      <4>1. {d \in more : d[1] = e[1]} = {new}
        BY <2>3, <3>1
      <4>2. AnyOf({new}) = new
        BY DEF AnyOf
      <4>3. Text(e, more) = <<e[1], new[2]>>
        <5> HIDE DEF more, new, Upd
        <5> QED BY <4>1, <4>2 DEF Text
      <4> QED BY <2>3, <4>3
    <3> QED BY <3>2, <3>3
  <2> QED BY <2>1, <2>2, <2>3
<1> HIDE DEF more, ev
<1>10. Coming(E[p], acc.edits, acc.cutoff, before) = Coming(S, more, acc.cutoff, before)
  <2>1. Coming(E[p], acc.edits, acc.cutoff, before) \subseteq Coming(S, more, acc.cutoff, before)
    <3>1. ASSUME NEW f \in E[p], Before(f[1], before), ~DeletedByLaterTruncate(f[1], acc.cutoff)
          PROVE  \E e \in S : /\ Before(e[1], before)
                             /\ ~DeletedByLaterTruncate(e[1], acc.cutoff)
                             /\ Text(e, more) = Text(f, acc.edits)
      <4>1. PICK e \in S : f = Upd(e)
        BY <1>3
      <4> HIDE DEF S, Upd
      <4>2. f[1] = e[1]
        BY <1>8, <4>1
      <4> QED BY <1>9, <3>1, <4>1, <4>2
    <3> HIDE DEF S, Upd
    <3> QED BY <3>1, ComingSame
  <2>2. Coming(S, more, acc.cutoff, before) \subseteq Coming(E[p], acc.edits, acc.cutoff, before)
    <3>1. ASSUME NEW e \in S, Before(e[1], before), ~DeletedByLaterTruncate(e[1], acc.cutoff)
          PROVE  \E f \in E[p] : /\ Before(f[1], before)
                                /\ ~DeletedByLaterTruncate(f[1], acc.cutoff)
                                /\ Text(f, acc.edits) = Text(e, more)
      <4>1. Upd(e) \in E[p]
        BY <1>3
      <4> HIDE DEF S, Upd
      <4> QED BY <1>8, <1>9, <3>1, <4>1
    <3> HIDE DEF S, Upd
    <3> QED BY <3>1, ComingSame
  <2> QED BY <2>1, <2>2
<1> QED BY <1>1, <1>5, <1>6, <1>7, <1>10, ScanKeeps

\* A message: it is collected when it is wanted, with the edit it has.
LEMMA ScanMessage ==
  ASSUME NEW lines, NEW E, Historic(lines, E), NEW V, NEW before, NEW limit \in Nat,
         NEW p \in 1..Len(lines), NEW acc, ScanInv(acc, p, lines, E, V, before, limit),
         Len(acc.collected) <= limit, lines[p].event.type = "message"
  PROVE  ScanInv(HandlePageLine(acc, lines[p], before, limit), p - 1, lines, E, V, before, limit)
<1> DEFINE ev == lines[p].event
           q == lines[p].seq
           S == E[p - 1]
           C == Listed(acc.collected)
           edited == {d \in acc.edits : d[1] = q}
           t == <<q, IF edited = {} THEN ev.message ELSE AnyOf(edited)[2]>>
           fewer == acc.edits \ edited
           r == HandlePageLine(acc, lines[p], before, limit)
           Out == ~Before(q, before) \/ DeletedByLaterTruncate(q, acc.cutoff)
           Now == Coming(E[p], acc.edits, acc.cutoff, before)
           Then == Coming(S, fewer, acc.cutoff, before)
<1>1. /\ lines \in Seq(Line) /\ Len(lines) \in Nat /\ p \in Nat /\ lines[p].ok
      /\ Ordered(lines) /\ IsMessage(lines[p])
  BY DEF Historic, IsMessage
<1>2. ev \in Event /\ q \in Nat /\ ev.message \in Message
  BY <1>1, LineFields, EventMessages
<1>3. /\ acc = PageAcc(acc.edits, acc.cutoff, acc.collected)
      /\ acc.edits \subseteq Nat \X Message
      /\ \A d \in acc.edits : d[1] \in Recorded(lines)
      /\ acc.cutoff \in Nat \cup {NULL}
      /\ Lists(acc.collected, C)
      /\ \A c \in C : \A i \in 1..p : IsMessage(lines[i]) => lines[i].seq < c[1]
      /\ V = C \cup Now
  BY DEF ScanInv
<1>4. ASSUME NEW i \in 1..(p - 1), IsMessage(lines[i]) PROVE lines[i].seq < q
  <2>1. i \in 1..Len(lines) /\ i < p
    BY <1>1
  <2> QED BY <1>1, <1>4, <2>1 DEF Ordered
<1>5. ASSUME NEW e \in S PROVE e[1] # q
  <2>1. p - 1 \in 0..Len(lines)
    BY <1>1
  <2>2. PICK j \in 1..(p - 1) : IsTranscript(lines[j]) /\ lines[j].seq = e[1]
    BY <2>1, <1>5, HistoricEntries
  <2> HIDE DEF q
  <2>3. e[1] < q
    BY <1>4, <2>2 DEF IsTranscript
  <2> QED BY <1>2, <2>3
<1>6. r = IF Len(acc.collected) > limit \/ Out THEN acc
          ELSE IF IsDisplayMessage(t[2])
               THEN [[acc EXCEPT !.edits = fewer] EXCEPT !.collected = <<t>> \o acc.collected]
               ELSE [acc EXCEPT !.edits = fewer]
  <2>1. AnyOf(edited) = CHOOSE e \in edited : TRUE
    BY DEF AnyOf
  <2>2. [acc EXCEPT !.edits = fewer].collected = acc.collected
    <3> HIDE DEF fewer
    <3> QED BY <1>3, AccChanges DEF PageAcc
  <2>3. t = <<q, t[2]>> /\ t[2] = IF edited = {} THEN ev.message ELSE AnyOf(edited)[2]
    <3> HIDE DEF edited
    <3> QED OBVIOUS
  <2> QED BY <2>1, <2>2, <2>3 DEF HandlePageLine
<1>7. Len(acc.collected) \in Nat /\ ~(Len(acc.collected) > limit)
  <2>1. acc.collected \in Seq(Nat \X Message)
    BY <1>3 DEF Lists
  <2> QED BY <2>1
<1>8. /\ [acc EXCEPT !.edits = fewer] = PageAcc(fewer, acc.cutoff, acc.collected)
      /\ [[acc EXCEPT !.edits = fewer] EXCEPT !.collected = <<t>> \o acc.collected]
            = PageAcc(fewer, acc.cutoff, <<t>> \o acc.collected)
  <2> HIDE DEF fewer, t
  <2>1. [acc EXCEPT !.edits = fewer] = PageAcc(fewer, acc.cutoff, acc.collected)
    BY <1>3, AccChanges
  <2> DEFINE x == [acc EXCEPT !.edits = fewer]
  <2>2. x.edits = fewer /\ x.cutoff = acc.cutoff /\ x.collected = acc.collected
    BY <2>1 DEF PageAcc
  <2>3. x = PageAcc(x.edits, x.cutoff, x.collected)
    BY <2>1, <2>2
  <2> HIDE DEF x
  <2>4. [x EXCEPT !.collected = <<t>> \o acc.collected]
           = PageAcc(x.edits, x.cutoff, <<t>> \o acc.collected)
    BY <2>3, AccChanges
  <2> QED BY <2>1, <2>2, <2>4 DEF x
<1>9. fewer \subseteq Nat \X Message /\ \A d \in fewer : d[1] \in Recorded(lines)
  BY <1>3
<1>10. Coming(S, acc.edits, acc.cutoff, before) = Then
  <2>1. ASSUME NEW e \in S PROVE Text(e, fewer) = Text(e, acc.edits)
    <3>1. e[1] # q
      BY <1>5
    <3>2. {d \in fewer : d[1] = e[1]} = {d \in acc.edits : d[1] = e[1]}
      BY <3>1
    <3> HIDE DEF fewer, S
    <3> QED BY <3>2, TextProperties
  <2> HIDE DEF S, fewer
  <2>2. /\ Coming(S, acc.edits, acc.cutoff, before) \subseteq Coming(S, fewer, acc.cutoff, before)
        /\ Coming(S, fewer, acc.cutoff, before) \subseteq Coming(S, acc.edits, acc.cutoff, before)
    BY <2>1, ComingSame
  <2> QED BY <2>2
<1>11. CASE ev.message.role = "system"
  <2>1. E[p] = S
    BY <1>11 DEF Historic, EntriesAfter
  <2>2. edited = {}
    <3> SUFFICES ASSUME NEW d \in acc.edits, d[1] = q PROVE FALSE
      OBVIOUS
    <3>1. PICK j \in 1..Len(lines) : IsTranscript(lines[j]) /\ lines[j].seq = q
      BY <1>3 DEF Recorded
    <3>2. j # p /\ IsMessage(lines[j])
      BY <1>11, <3>1 DEF IsTranscript
    <3>3. j < p \/ p < j
      BY <1>1, <3>2
    <3>4. lines[j].seq < lines[p].seq \/ lines[p].seq < lines[j].seq
      BY <1>1, <3>2, <3>3 DEF Ordered
    <3> QED BY <1>2, <3>1, <3>4
  <2>3. ~IsDisplayMessage(t[2]) /\ fewer = acc.edits
    BY <1>11, <2>2 DEF IsDisplayMessage
  <2>4. r = PageAcc(fewer, acc.cutoff, acc.collected)
    <3> HIDE DEF r, fewer, t, Out
    <3> QED BY <1>3, <1>6, <1>8, <2>3
  <2>5. Now = Then
    <3> HIDE DEF Then, S, fewer
    <3> QED BY <1>10, <2>1
  <2> HIDE DEF r, fewer
  <2>6. ScanInv(PageAcc(fewer, acc.cutoff, acc.collected), p - 1, lines, E, V, before, limit)
    BY <1>1, <1>3, <1>9, <2>5, ScanKeeps
  <2> QED BY <2>4, <2>6 DEF r
<1>12. CASE ev.message.role # "system"
  <2> DEFINE new == <<q, ev.message>>
  <2>1. E[p] = S \cup {new}
    BY <1>12 DEF Historic, EntriesAfter
  <2>2. new \in Nat \X Message /\ new[1] = q
    BY <1>2
  <2>3. Text(new, acc.edits) = t
    BY DEF Text
  <2>4. t \in Nat \X Message /\ t[1] = q
    <3> HIDE DEF t, new
    <3> QED BY <1>3, <2>2, <2>3, TextProperties
  <2> HIDE DEF t, edited, new
  <2>5. CASE Out
    <3>1. r = PageAcc(acc.edits, acc.cutoff, acc.collected)
      <4> HIDE DEF r, fewer, Out
      <4> QED BY <1>3, <1>6, <2>5
    <3>2. Now = Coming(S, acc.edits, acc.cutoff, before)
      <4>1. \A e \in E[p] : Before(e[1], before) /\ ~DeletedByLaterTruncate(e[1], acc.cutoff)
                            => e \in S
        BY <2>1, <2>2, <2>5
      <4>2. \A e \in S : e \in E[p]
        BY <2>1
      <4> HIDE DEF S
      <4>3. Now \subseteq Coming(S, acc.edits, acc.cutoff, before)
        BY <4>1, ComingSame
      <4>4. Coming(S, acc.edits, acc.cutoff, before) \subseteq Now
        BY <4>2, ComingSame
      <4> QED BY <4>3, <4>4
    <3> HIDE DEF r
    <3>3. ScanInv(PageAcc(acc.edits, acc.cutoff, acc.collected), p - 1,
                  lines, E, V, before, limit)
      BY <1>1, <1>3, <3>2, ScanKeeps
    <3> QED BY <3>1, <3>3 DEF r
  <2>6. ASSUME ~Out
        PROVE  Now = Then \cup (IF IsDisplayMessage(t[2]) THEN {t} ELSE {})
    <3> HIDE DEF fewer, S
    <3>1. \A x : x \in Now <=>
             \E e \in E[p] : /\ Before(e[1], before) /\ ~DeletedByLaterTruncate(e[1], acc.cutoff)
                            /\ x = Text(e, acc.edits) /\ IsDisplayMessage(x[2])
      BY ComingMembers
    <3>2. \A x : x \in Then <=>
             \E e \in S : /\ Before(e[1], before) /\ ~DeletedByLaterTruncate(e[1], acc.cutoff)
                         /\ x = Text(e, acc.edits) /\ IsDisplayMessage(x[2])
      BY <1>10, ComingMembers
    <3>3. Before(new[1], before) /\ ~DeletedByLaterTruncate(new[1], acc.cutoff)
      BY <2>2, <2>6
    <3> HIDE DEF Now, Then, Out
    <3> QED BY <2>1, <2>3, <3>1, <3>2, <3>3
  <2>7. CASE ~Out /\ ~IsDisplayMessage(t[2])
    <3>1. r = PageAcc(fewer, acc.cutoff, acc.collected)
      <4> HIDE DEF r, fewer, Out
      <4> QED BY <1>6, <1>7, <1>8, <2>7
    <3>2. Now = Then
      <4> HIDE DEF Now, Then, Out
      <4> QED BY <2>6, <2>7
    <3> HIDE DEF r, fewer
    <3>3. ScanInv(PageAcc(fewer, acc.cutoff, acc.collected), p - 1, lines, E, V, before, limit)
      BY <1>1, <1>3, <1>9, <3>2, ScanKeeps
    <3> QED BY <3>1, <3>3 DEF r
  <2>8. CASE ~Out /\ IsDisplayMessage(t[2])
    <3> DEFINE more == <<t>> \o acc.collected
    <3>1. r = PageAcc(fewer, acc.cutoff, more)
      <4> HIDE DEF r, fewer, Out, more
      <4>1. ~(Len(acc.collected) > limit \/ Out)
        BY <1>7, <2>8
      <4> QED BY <1>6, <1>8, <2>8, <4>1 DEF more
    <3>2. Now = Then \cup {t}
      <4> HIDE DEF Now, Then, Out
      <4> QED BY <2>6, <2>8
    <3>3. \A c \in C : q < c[1]
      <4>1. p \in 1..p
        BY <1>1
      <4> QED BY <1>1, <1>3, <4>1
    <3>4. Lists(more, {t} \cup C)
      <4>1. Lists(<<t>>, {t})
        BY <2>4, ListOne
      <4>2. \A e \in {t}, c \in C : e[1] < c[1]
        <5> HIDE DEF C, q
        <5> QED BY <2>4, <3>3
      <4> HIDE DEF C
      <4> QED BY <1>3, <4>1, <4>2, ListConcat
    <3>5. Listed(more) = {t} \cup C /\ Lists(more, Listed(more))
      BY <3>4 DEF Lists, Listed
    <3>6. Len(more) <= limit + 1
      <4>1. acc.collected \in Seq(Nat \X Message)
        BY <1>3 DEF Lists
      <4>2. Len(more) = 1 + Len(acc.collected)
        BY <2>4, <4>1
      <4> QED BY <1>7, <4>2
    <3>7. \A c \in Listed(more) : \A i \in 1..(p - 1) :
             IsMessage(lines[i]) => lines[i].seq < c[1]
      <4> SUFFICES ASSUME NEW c \in Listed(more), NEW i \in 1..(p - 1), IsMessage(lines[i])
                   PROVE  lines[i].seq < c[1]
        OBVIOUS
      <4>1. c = t \/ c \in C
        BY <3>5
      <4>2. i \in 1..p
        BY <1>1
      <4> QED BY <1>3, <1>4, <2>4, <4>1, <4>2
    <3>8. V = Listed(more) \cup Then
      <4> HIDE DEF Now, Then, more, C
      <4> QED BY <1>3, <3>2, <3>5
    <3>9. r.edits = fewer /\ r.cutoff = acc.cutoff /\ r.collected = more
      <4> HIDE DEF r, fewer, more
      <4> QED BY <3>1 DEF PageAcc
    <3>10. r = PageAcc(r.edits, r.cutoff, r.collected)
      <4> HIDE DEF r, fewer, more
      <4> QED BY <3>1, <3>9
    <3> HIDE DEF r, fewer, more
    <3>11. V = Listed(r.collected) \cup Coming(E[p - 1], r.edits, r.cutoff, before)
      BY <3>8, <3>9
    <3>12. ScanInv(r, p - 1, lines, E, V, before, limit)
      BY <1>3, <1>9, <3>5, <3>6, <3>7, <3>9, <3>10, <3>11 DEF ScanInv
    <3> QED BY <3>12 DEF r
  <2> QED BY <2>5, <2>7, <2>8
<1> QED BY <1>11, <1>12

\* One line, whatever its event.
LEMMA ScanStep ==
  ASSUME NEW lines, NEW E, Historic(lines, E), NEW V, NEW before, NEW limit \in Nat,
         NEW p \in 1..Len(lines), NEW acc, ScanInv(acc, p, lines, E, V, before, limit),
         Len(acc.collected) <= limit
  PROVE  ScanInv(HandlePageLine(acc, lines[p], before, limit), p - 1, lines, E, V, before, limit)
<1>1. CASE lines[p].event.type \notin {"message", "edit", "truncate"}
  <2>1. /\ acc = PageAcc(acc.edits, acc.cutoff, acc.collected)
        /\ acc.edits \subseteq Nat \X Message
        /\ \A d \in acc.edits : d[1] \in Recorded(lines)
        /\ acc.cutoff \in Nat \cup {NULL}
    BY DEF ScanInv
  <2>2. E[p] = E[p - 1]
    BY <1>1 DEF Historic, EntriesAfter
  <2>3. HandlePageLine(acc, lines[p], before, limit) = acc
    BY <1>1 DEF HandlePageLine
  <2>4. ScanInv(PageAcc(acc.edits, acc.cutoff, acc.collected), p - 1, lines, E, V, before, limit)
    <3>1. p \in Nat
      OBVIOUS
    <3> QED BY <2>1, <2>2, <3>1, ScanKeeps
  <2> QED BY <2>1, <2>3, <2>4
<1> QED BY <1>1, ScanTruncate, ScanEdit, ScanMessage

-----------------------------------------------------------------------------
(***************************************************************************)
(* A page, and a walk over pages.                                          *)
(***************************************************************************)
\* What is to be shown below an id.
Below(V, before) == {e \in V : Before(e[1], before)}

\* A list says what it lists.
LEMMA ListedOnly ==
  ASSUME NEW s, NEW S, Lists(s, S)
  PROVE  Listed(s) = S /\ Lists(s, Listed(s))
  BY DEF Lists, Listed

\* A page holds the newest messages below `before`; what it leaves are those below its
\* next_before, which is the id of one of its messages.
LEMMA PageProperties ==
  ASSUME NEW lines, NEW E, Historic(lines, E), NEW limit \in Nat \ {0},
         NEW before \in Nat \cup {NULL}
  PROVE  LET page == ReadMessagePage(lines, limit, before)
             V == DisplayPart(E[Len(lines)])
             next == page.next_before
         IN  /\ Lists(page.items, Listed(page.items))
             /\ Listed(page.items) \subseteq Below(V, before)
             /\ next = NULL => Below(V, before) = Listed(page.items)
             /\ next # NULL =>
                  /\ next \in Nat
                  /\ Below(V, before) = Below(V, next) \cup Listed(page.items)
                  /\ \A e \in Listed(page.items) : next <= e[1]
                  /\ \E e \in Listed(page.items) : next = e[1]
<1> DEFINE n == Len(lines)
           scan == PageScan(lines, limit, before)
           V == DisplayPart(E[n])
           W == Below(V, before)
           Good(acc, p) == ScanInv(acc, p, lines, E, W, before, limit)
           Full(acc) == Len(acc.collected) > limit
           S == {k \in Nat : \E p \in 0..n : /\ Good(scan[k], p)
                                          /\ (p = n - k \/ Full(scan[k]))}
<1>1. /\ lines \in Seq(Line) /\ n \in Nat
      /\ E[0] = {} /\ \A i \in 0..n : \A e \in E[i] : e \in Nat \X Message
  <2>1. \A i \in 0..n : \A e \in E[i] : e \in Nat \X Message
    BY HistoricEntries
  <2>2. lines \in Seq(Line) /\ E[0] = {}
    BY DEF Historic
  <2> QED BY <2>1, <2>2
<1>2. /\ scan[0] = PageAcc({}, NULL, <<>>)
      /\ \A k \in 1..n : scan[k] = IF Full(scan[k - 1]) THEN scan[k - 1]
                                  ELSE HandlePageLine(scan[k - 1], lines[n + 1 - k], before, limit)
  <2> DEFINE Step(acc, k) == IF Full(acc) THEN acc
                             ELSE HandlePageLine(acc, lines[n + 1 - k], before, limit)
  <2>1. scan = [k \in 0..n |-> IF k = 0 THEN PageAcc({}, NULL, <<>>)
                              ELSE Step(scan[k - 1], k)]
    BY <1>1, PageScanDef DEF IsScan
  <2> HIDE DEF scan, n, Step
  <2>2. scan[0] = PageAcc({}, NULL, <<>>) /\ \A k \in 1..n : scan[k] = Step(scan[k - 1], k)
    BY <1>1, <2>1
  <2> QED BY <2>2 DEF Step
<1> HIDE DEF scan
<1>3. 0 \in S
  <2> DEFINE a == PageAcc({}, NULL, <<>>)
  <2>1. /\ a.edits = {} /\ a.cutoff = NULL /\ a.collected = <<>>
        /\ a = PageAcc(a.edits, a.cutoff, a.collected)
    BY DEF PageAcc
  <2>2. Lists(<<>>, {}) /\ Listed(<<>>) = {} /\ Len(<<>>) = 0
    BY ListEmpty, ListedOnly
  <2>3. W = Coming(E[n], {}, NULL, before)
    <3>1. \A e : Text(e, {}) = e
      BY TextProperties
    <3>2. \A x : ~DeletedByLaterTruncate(x, NULL)
      BY DEF DeletedByLaterTruncate
    <3>3. \A x : x \in Coming(E[n], {}, NULL, before) <=>
                    x \in E[n] /\ Before(x[1], before) /\ IsDisplayMessage(x[2])
      BY <3>1, <3>2, ComingMembers
    <3>4. \A x : x \in W <=> x \in E[n] /\ Before(x[1], before) /\ IsDisplayMessage(x[2])
      BY DEF Below, DisplayPart
    <3> QED BY <3>3, <3>4
  <2>4. Good(a, n)
    <3> HIDE DEF W, a, n
    <3>1. W = Listed(a.collected) \cup Coming(E[n], a.edits, a.cutoff, before)
      BY <2>1, <2>2, <2>3
    <3>2. Lists(a.collected, Listed(a.collected)) /\ Listed(a.collected) = {}
      BY <2>1, <2>2
    <3>3. Len(a.collected) <= limit + 1
      BY <2>1, <2>2
    <3> QED BY <2>1, <3>1, <3>2, <3>3 DEF ScanInv
  <2> HIDE DEF Good, n
  <2> QED BY <1>1, <1>2, <2>4
<1>4. ASSUME NEW k \in 1..n, k - 1 \in S PROVE k \in S
  <2>1. PICK p \in 0..n : /\ Good(scan[k - 1], p)
                          /\ (p = n - (k - 1) \/ Full(scan[k - 1]))
    BY <1>4
  <2>2. CASE Full(scan[k - 1])
    <3>1. scan[k] = scan[k - 1]
      BY <1>2, <2>2
    <3> HIDE DEF Good
    <3> QED BY <1>1, <2>1, <2>2, <3>1
  <2>3. CASE ~Full(scan[k - 1])
    <3>1. p = n + 1 - k /\ p \in 1..n /\ p - 1 = n - k /\ p - 1 \in 0..n
      BY <1>1, <2>1, <2>3
    <3>2. scan[k] = HandlePageLine(scan[k - 1], lines[p], before, limit)
      BY <1>2, <2>3, <3>1
    <3>3. Len(scan[k - 1].collected) <= limit
      <4>1. scan[k - 1].collected \in Seq(Nat \X Message)
        BY <2>1 DEF ScanInv, Lists
      <4> QED BY <2>3, <4>1
    <3>4. Good(scan[k], p - 1)
      BY <2>1, <3>1, <3>2, <3>3, ScanStep
    <3> HIDE DEF Good, Full, n
    <3>5. k \in Nat /\ p - 1 = n - k /\ p - 1 \in 0..n
      BY <1>1, <3>1
    <3> QED BY <3>4, <3>5
  <2> QED BY <2>2, <2>3
<1>5. PICK p \in 0..n : Good(scan[n], p) /\ (p = 0 \/ Full(scan[n]))
  <2>1. n \in S
    <3> HIDE DEF S, n
    <3>1. \A k \in 0..n : k \in S
      BY <1>1, <1>3, <1>4, BoundedInduction
    <3> QED BY <1>1, <3>1
  <2> HIDE DEF Good, Full
  <2> QED BY <1>1, <2>1
<1> DEFINE all == scan[n].collected
           C == Listed(all)
           page == ReadMessagePage(lines, limit, before)
<1>6. page = [items |-> IF Full(scan[n]) THEN Tail(all) ELSE all,
              next_before |-> IF Full(scan[n]) THEN all[2][1] ELSE NULL]
  BY DEF ReadMessagePage, scan
<1>7. /\ Lists(all, C) /\ all \in Seq(Nat \X Message) /\ Len(all) \in Nat
      /\ Len(all) <= limit + 1
      /\ \A c \in C : \A i \in 1..p : IsMessage(lines[i]) => lines[i].seq < c[1]
      /\ W = C \cup Coming(E[p], scan[n].edits, scan[n].cutoff, before)
      /\ scan[n].edits \subseteq Nat \X Message
  <2>1. all \in Seq(Nat \X Message)
    BY <1>5 DEF ScanInv, Lists
  <2> QED BY <1>5, <2>1 DEF ScanInv
<1>8. ASSUME NEW x \in Coming(E[p], scan[n].edits, scan[n].cutoff, before), NEW c \in C
      PROVE  x[1] < c[1]
  <2>1. PICK e \in E[p] : x = Text(e, scan[n].edits)
    BY ComingMembers
  <2>2. PICK j \in 1..p : IsTranscript(lines[j]) /\ lines[j].seq = e[1]
    BY HistoricEntries
  <2>3. x[1] = e[1]
    BY <1>1, <1>7, <2>1, TextProperties
  <2>4. lines[j].seq < c[1]
    BY <1>7, <2>2 DEF IsTranscript
  <2> QED BY <2>2, <2>3, <2>4
<1>9. CASE ~Full(scan[n])
  <2>1. p = 0 /\ E[p] = {}
    BY <1>1, <1>5, <1>9
  <2>2. Coming(E[p], scan[n].edits, scan[n].cutoff, before) = {}
    BY <2>1, ComingMembers
  <2>3. W = C
    <3> HIDE DEF W, C
    <3> QED BY <1>7, <2>2
  <2>4. page.items = all /\ page.next_before = NULL
    <3> HIDE DEF page, all
    <3> QED BY <1>6, <1>9
  <2> HIDE DEF W, page, all
  <2> QED BY <1>7, <2>3, <2>4 DEF W, page
<1>10. CASE Full(scan[n])
  <2> DEFINE D == C \ {all[1]}
             t == Tail(all)
             next == all[2][1]
  <2>1. page.items = t /\ page.next_before = next
    <3> HIDE DEF page, all, t, next
    <3>1. page = [items |-> t, next_before |-> next]
      BY <1>6, <1>10 DEF t, next
    <3> QED BY <3>1
  <2>2. Len(all) >= 2 /\ all # <<>> /\ t # <<>> /\ t[1] = all[2]
    <3> DEFINE A == Nat \X Message
    <3>1. Len(all) >= 2 /\ all \in Seq(A)
      BY <1>7, <1>10
    <3> HIDE DEF all, A
    <3>2. all # <<>>
      BY <3>1
    <3>3. Tail(all) \in Seq(A) /\ Len(Tail(all)) = Len(all) - 1 /\ Tail(all)[1] = all[2]
      BY <3>1, <3>2
    <3>4. Tail(all) # <<>>
      <4> DEFINE u == Tail(all)
      <4>1. Len(u) >= 1
        BY <3>1, <3>3
      <4> HIDE DEF u
      <4>2. u # <<>>
        BY <4>1
      <4> QED BY <4>2 DEF u
    <3> QED BY <3>1, <3>2, <3>3, <3>4
  <2>3. /\ all[1] \in C /\ (\A e \in D : all[1][1] < e[1]) /\ Lists(t, D)
    <3> HIDE DEF all
    <3> QED BY <1>7, <2>2, ListTail
  <2>4. t[1] \in D /\ \A e \in D : t[1][1] <= e[1]
    <3> HIDE DEF t, D
    <3> QED BY <2>2, <2>3, ListTail
  <2>5. Listed(t) = D
    BY <2>3, ListedOnly
  <2>6. next \in Nat /\ next # NULL /\ next = t[1][1] /\ all[1][1] < next
    <3>1. next = t[1][1]
      BY <2>2
    <3>2. t[1] \in C
      BY <2>4
    <3>3. t[1] \in Nat \X Message
      BY <2>2, <1>7
    <3>4. t[1][1] \in Nat
      <4> HIDE DEF t
      <4> QED BY <3>3
    <3>5. NULL \notin Nat
      BY NullAssumption
    <3> HIDE DEF next, t, D
    <3> QED BY <2>3, <2>4, <3>1, <3>4, <3>5
  <2>7. \A e \in W : e[1] \in Nat /\ e \in V /\ Before(e[1], before)
    <3>1. \A e \in E[n] : e \in Nat \X Message
      BY <1>1
    <3>2. \A e \in Nat \X Message : e[1] \in Nat
      OBVIOUS
    <3>3. \A e \in W : e \in E[n] /\ e \in V /\ Before(e[1], before)
      BY DEF Below, DisplayPart
    <3> QED BY <3>1, <3>2, <3>3
  <2>8. W = Below(V, next) \cup D
    <3>1. ASSUME NEW e \in W, e \notin D PROVE e \in Below(V, next)
      <4>1. e = all[1] \/ e \in Coming(E[p], scan[n].edits, scan[n].cutoff, before)
        <5> HIDE DEF W
        <5> QED BY <1>7, <3>1
      <4>2. e[1] < next
        <5>1. CASE e = all[1]
          BY <2>6, <5>1
        <5>2. CASE e \in Coming(E[p], scan[n].edits, scan[n].cutoff, before)
          <6>1. t[1] \in C
            BY <2>4
          <6> HIDE DEF t, next, C
          <6> QED BY <1>8, <2>6, <5>2, <6>1
        <5> QED BY <4>1, <5>1, <5>2
      <4> HIDE DEF W, next, V
      <4> QED BY <2>7, <3>1, <4>2 DEF Below, Before
    <3>2. ASSUME NEW e \in D PROVE e \in W
      <4> HIDE DEF W, C, all
      <4> QED BY <1>7, <3>2
    <3>3. ASSUME NEW e \in Below(V, next) PROVE e \in W
      <4>1. e \in V /\ e[1] < next
        <5> HIDE DEF V, next
        <5> QED BY <2>6 DEF Below, Before
      <4>2. e[1] \in Nat
        <5>1. e \in Nat \X Message
          BY <1>1, <4>1 DEF DisplayPart
        <5> QED BY <5>1
      <4>3. t[1] \in W
        BY <2>4, <3>2
      <4>4. Before(t[1][1], before)
        <5> HIDE DEF W, t
        <5> QED BY <2>7, <4>3
      <4>5. Before(e[1], before)
        <5> HIDE DEF t, next
        <5> QED BY <2>6, <4>1, <4>2, <4>4 DEF Before
      <4> HIDE DEF V
      <4> QED BY <4>1, <4>5 DEF Below
    <3> HIDE DEF W, V, D, next
    <3> QED BY <3>1, <3>2, <3>3
  <2>9. D \subseteq W
    <3> HIDE DEF W, V, D, next
    <3> QED BY <2>8
  <2> HIDE DEF W, V, D, next, t, page, all
  <2> QED BY <2>1, <2>3, <2>4, <2>5, <2>6, <2>8, <2>9 DEF W, page, V, n
<1> QED BY <1>9, <1>10

\* A client that follows next_before from the newest page gets every visible message of
\* the log's replay once, in order, after at most one page per line and one more.
LEMMA WalkShowsAll ==
  ASSUME NEW lines, NEW E, Historic(lines, E), NEW limit \in Nat \ {0}
  PROVE  Lists(WalkPages(lines, limit), DisplayPart(E[Len(lines)]))
<1> DEFINE n == Len(lines)
           V == DisplayPart(E[n])
           w == WalkStates(lines, limit)
           Left(before, k) == \/ before = NULL /\ k = 0
                              \/ \E i \in 1..n : /\ IsTranscript(lines[i]) /\ i <= n + 1 - k
                                               /\ before = lines[i].seq
           Good(x, k) ==
              /\ Lists(x.seen, Listed(x.seen)) /\ Listed(x.seen) \subseteq V
              /\ x.done \in BOOLEAN
              /\ x.done => V = Listed(x.seen)
              /\ ~x.done =>
                   /\ x.before \in Nat \cup {NULL} /\ Left(x.before, k)
                   /\ V = Below(V, x.before) \cup Listed(x.seen)
                   /\ \A e \in Listed(x.seen) : x.before # NULL /\ x.before <= e[1]
           S == {k \in Nat : Good(w[k], k)}
<1>1. /\ lines \in Seq(Line) /\ n \in Nat /\ Ordered(lines)
      /\ \A e \in V : /\ e[1] \in Nat
                     /\ \E j \in 1..n : IsTranscript(lines[j]) /\ lines[j].seq = e[1]
  <2>1. lines \in Seq(Line) /\ Ordered(lines)
    BY DEF Historic
  <2>2. n \in Nat /\ n \in 0..n
    BY <2>1
  <2>3. \A e \in E[n] : /\ e \in Nat \X Message
                       /\ \E j \in 1..n : IsTranscript(lines[j]) /\ lines[j].seq = e[1]
    BY <2>2, HistoricEntries
  <2>4. \A e \in Nat \X Message : e[1] \in Nat
    OBVIOUS
  <2> QED BY <2>1, <2>2, <2>3, <2>4 DEF DisplayPart
<1> DEFINE Start1 == [seen |-> <<>>, before |-> NULL, done |-> FALSE]
           Step(x) == IF x.done THEN x
                      ELSE LET page == ReadMessagePage(lines, limit, x.before)
                           IN  [seen |-> page.items \o x.seen,
                                before |-> page.next_before,
                                done |-> page.next_before = NULL]
<1>2. w[0] = Start1 /\ \A k \in 1..n + 1 : w[k] = Step(w[k - 1])
  <2>1. IsWalk(w, lines, limit)
    BY <1>1, WalkStatesDef
  <2>2. w = [k \in 0..n + 1 |-> IF k = 0 THEN Start1 ELSE Step(w[k - 1])]
    <3> HIDE DEF w
    <3> QED BY <2>1, Zenon DEF IsWalk
  <2> HIDE DEF w, n, Step, Start1
  <2> QED BY <1>1, <2>2
<1>3. WalkPages(lines, limit) = w[n + 1].seen
  BY DEF WalkPages
<1> HIDE DEF w, V, Step
<1>4. 0 \in S
  <2>1. Lists(<<>>, {}) /\ Listed(<<>>) = {}
    BY ListEmpty, ListedOnly
  <2>2. Below(V, NULL) = V
    BY DEF Below, Before
  <2>3. w[0].seen = <<>> /\ w[0].before = NULL /\ w[0].done = FALSE
    BY <1>2
  <2>4. Left(NULL, 0)
    OBVIOUS
  <2> HIDE DEF Left
  <2> QED BY <2>1, <2>2, <2>3, <2>4
<1>5. ASSUME NEW k \in 1..n + 1, k - 1 \in S PROVE k \in S
  <2> DEFINE x == w[k - 1]
             page == ReadMessagePage(lines, limit, x.before)
             next == page.next_before
             more == page.items \o x.seen
  <2>1. Good(x, k - 1) /\ k \in Nat
    BY <1>5
  <2>0. w[k] = Step(x)
    BY <1>2
  <2> HIDE DEF x
  <2>2. CASE x.done
    <3>1. w[k] = x
      BY <2>2, <2>0 DEF Step
    <3> HIDE DEF Left
    <3> QED BY <2>1, <2>2, <3>1
  <2>3. CASE ~x.done
    <3>1. /\ x.before \in Nat \cup {NULL} /\ Left(x.before, k - 1)
          /\ V = Below(V, x.before) \cup Listed(x.seen)
          /\ \A e \in Listed(x.seen) : x.before # NULL /\ x.before <= e[1]
          /\ Lists(x.seen, Listed(x.seen)) /\ Listed(x.seen) \subseteq V
      BY <2>1, <2>3
    <3>2. w[k] = [seen |-> more, before |-> next, done |-> next = NULL]
      BY <2>0, <2>3 DEF Step
    <3>3. /\ Lists(page.items, Listed(page.items))
          /\ Listed(page.items) \subseteq Below(V, x.before)
          /\ next = NULL => Below(V, x.before) = Listed(page.items)
          /\ next # NULL =>
               /\ next \in Nat
               /\ Below(V, x.before) = Below(V, next) \cup Listed(page.items)
               /\ \A e \in Listed(page.items) : next <= e[1]
               /\ \E e \in Listed(page.items) : next = e[1]
      <4> HIDE DEF Left
      <4> QED BY <3>1, PageProperties DEF V
    <3> HIDE DEF page
    <3> DEFINE I == Listed(page.items)
               O == Listed(x.seen)
    <3>4. \A e \in I : e \in V /\ e[1] \in Nat /\ Before(e[1], x.before)
      <4>1. \A e \in I : e \in V /\ Before(e[1], x.before)
        BY <3>3 DEF Below
      <4> QED BY <1>1, <4>1
    <3>5. \A f \in O : f[1] \in Nat
      BY <1>1, <3>1
    <3>6. \A e \in I, f \in O : e[1] < f[1]
      <4> SUFFICES ASSUME NEW e \in I, NEW f \in O PROVE e[1] < f[1]
        OBVIOUS
      <4>1. x.before # NULL /\ x.before <= f[1] /\ x.before \in Nat
        BY <3>1
      <4>2. e[1] < x.before
        BY <3>4, <4>1 DEF Before
      <4> HIDE DEF I, O
      <4> QED BY <3>4, <3>5, <4>1, <4>2
    <3>7. Lists(more, I \cup O)
      <4> HIDE DEF I, O
      <4> QED BY <3>1, <3>3, <3>6, ListConcat DEF I, O
    <3>8. Listed(more) = I \cup O /\ Lists(more, Listed(more)) /\ Listed(more) \subseteq V
      <4>1. Listed(more) = I \cup O /\ Lists(more, Listed(more))
        BY <3>7, ListedOnly
      <4> HIDE DEF more
      <4> QED BY <3>1, <3>4, <4>1
    <3>9. w[k].seen = more /\ w[k].before = next /\ w[k].done = (next = NULL)
      <4> HIDE DEF more, next
      <4> QED BY <3>2
    <3>10. CASE next = NULL
      <4>1. V = Listed(more)
        <5> HIDE DEF I, O, more, next
        <5> QED BY <3>1, <3>3, <3>8, <3>10 DEF I, O
      <4>2. Good(w[k], k)
        <5> HIDE DEF more, next, Left
        <5> QED BY <3>8, <3>9, <3>10, <4>1
      <4> QED BY <2>1, <4>2
    <3>11. CASE next # NULL
      <4>1. /\ next \in Nat /\ Below(V, x.before) = Below(V, next) \cup I
            /\ \A e \in I : next <= e[1]
            /\ \E e \in I : next = e[1]
        BY <3>3, <3>11
      <4>2. V = Below(V, next) \cup Listed(more)
        <5> HIDE DEF I, O, more, next
        <5> QED BY <3>1, <3>8, <4>1 DEF O
      <4>3. PICK e \in I : next = e[1]
        BY <4>1
      <4>4. \A f \in Listed(more) : next # NULL /\ next <= f[1]
        <5>1. ASSUME NEW f \in O PROVE next <= f[1]
          <6>1. e[1] < f[1] /\ f[1] \in Nat
            BY <3>5, <3>6, <4>3
          <6> HIDE DEF next, I, O
          <6> QED BY <4>1, <4>3, <6>1
        <5> HIDE DEF next, I, O, more
        <5> QED BY <3>8, <3>11, <4>1, <5>1
      <4>5. Left(next, k)
        <5>1. PICK j \in 1..n : IsTranscript(lines[j]) /\ lines[j].seq = e[1]
          BY <1>1, <3>4, <4>3
        <5>2. j <= n + 1 - k
          <6>1. CASE x.before = NULL /\ k - 1 = 0
            BY <1>1, <2>1, <6>1
          <6>2. ASSUME NEW i \in 1..n, IsTranscript(lines[i]), i <= n + 1 - (k - 1),
                       x.before = lines[i].seq
                PROVE  j <= n + 1 - k
            <7>1. lines[i].seq \in Nat /\ x.before # NULL
              <8>1. lines[i].seq \in Nat
                BY <1>1, LineFields
              <8> QED BY <6>2, <8>1, NullAssumption
            <7>2. lines[j].seq < lines[i].seq
              BY <3>4, <4>3, <5>1, <6>2, <7>1 DEF Before
            <7>3. IsMessage(lines[i]) /\ IsMessage(lines[j])
              BY <5>1, <6>2 DEF IsTranscript
            <7>4. j < i
              <8>1. lines[j].seq \in Nat
                BY <1>1, LineFields
              <8>2. ~(i < j) /\ i # j
                BY <1>1, <7>1, <7>2, <7>3, <8>1 DEF Ordered
              <8> QED BY <1>1, <8>2
            <7> HIDE DEF n
            <7> QED BY <1>1, <2>1, <6>2, <7>4
          <6> HIDE DEF n
          <6> QED BY <3>1, <6>1, <6>2 DEF n
        <5> HIDE DEF next
        <5> QED BY <4>3, <5>1, <5>2
      <4>6. Good(w[k], k)
        <5> HIDE DEF more, next, Left
        <5> QED BY <3>8, <3>9, <3>11, <4>1, <4>2, <4>4, <4>5
      <4> QED BY <2>1, <4>6
    <3> QED BY <3>10, <3>11
  <2> QED BY <2>1, <2>2, <2>3
<1>6. n + 1 \in S
  <2> DEFINE N == n + 1
  <2>1. N \in Nat
    BY <1>1
  <2>2. \A k \in 1..N : k - 1 \in S => k \in S
    BY <1>5
  <2> HIDE DEF S, N
  <2>3. \A k \in 0..N : k \in S
    BY <1>4, <2>1, <2>2, BoundedInduction
  <2>4. N \in S
    BY <2>1, <2>3
  <2> QED BY <2>4 DEF N
<1>7. Good(w[n + 1], n + 1)
  BY <1>6
<1>8. ~Left(w[n + 1].before, n + 1)
  BY <1>1
<1>9. w[n + 1].done
  <2> HIDE DEF Left
  <2> QED BY <1>7, <1>8
<1> HIDE DEF Left
<1> QED BY <1>3, <1>7, <1>9 DEF V

-----------------------------------------------------------------------------
(***************************************************************************)
(* The log that read_message_page reads.  A reverse scan cannot know, when *)
(* it meets a truncation, whether the message it names was still there:    *)
(* apply_event ignores the truncation if it was not, the scan cuts all the *)
(* same.  The two agree because no such truncation is ever recorded: the   *)
(* message that an edit or a regenerate request names is in memory, and    *)
(* nothing that happens until the truncation is appended removes it.       *)
(***************************************************************************)
SeqPositive == \A i \in 1..Len(log) : log[i].seq > 0

\* Each truncation in the log names a message of the transcript before it.
LogPresent ==
    \A j \in 1..Len(log) :
        log[j].event.type = "truncate" =>
            log[j].event.id \in EntryIds(ReplayStates(EmptyState, log)[j - 1])

\* A truncation still to record comes last, after an edit at most, excludes a
\* regenerate request, and names a message of the transcript.
TruncateDue ==
    ~Creating =>
        \A j \in 1..Len(op.todo) :
            op.todo[j].type = "truncate" =>
                /\ j = Len(op.todo) /\ regen = NULL
                /\ \A i \in 1..(j - 1) : op.todo[i].type = "edit"
                /\ op.todo[j].id \in EntryIds(mem)

\* The message a regenerate request found is still there when the request truncates.
RegenPresent == regen # NULL => regen \in EntryIds(mem)

\* The inductive invariant behind PagesShowTranscript.
PageInv == /\ TranscriptInv
           /\ SeqPositive /\ LogPresent
           /\ TruncateDue /\ RegenPresent

-----------------------------------------------------------------------------
\* Only a truncation takes messages out of the transcript.
LEMMA EntryIdsKept ==
  ASSUME NEW st, NEW r, NEW ev, NEW seq, ev.type # "truncate",
         Entries(r) = EntriesAfter(Entries(st), ev, seq)
  PROVE  EntryIds(st) \subseteq EntryIds(r)
<1> SUFFICES ASSUME NEW e \in Entries(st)
             PROVE  \E f \in Entries(r) : f[1] = e[1]
  BY DEF EntryIds
<1>1. CASE ev.type = "message"
  <2>1. e \in Entries(r)
    BY <1>1 DEF EntriesAfter
  <2> QED BY <2>1
<1>2. CASE ev.type = "edit"
  <2> DEFINE f == IF e[1] = ev.id THEN <<ev.id, ev.message>> ELSE e
  <2>1. f \in Entries(r)
    BY <1>2 DEF EntriesAfter
  <2>2. f[1] = e[1]
    OBVIOUS
  <2> HIDE DEF f
  <2> QED BY <2>1, <2>2
<1>3. CASE ev.type \notin {"message", "edit"}
  <2>1. e \in Entries(r)
    BY <1>3 DEF EntriesAfter
  <2> QED BY <2>1
<1> QED BY <1>1, <1>2, <1>3

\* What the user wrote is in the transcript.
LEMMA UserEntries ==
  ASSUME NEW st \in State, SameLength(st)
  PROVE  /\ UserMessageIds(st) \subseteq EntryIds(st)
         /\ VisibleUserMessageIds(st) \subseteq EntryIds(st)
<1>1. ASSUME NEW i \in 1..Len(st.messages), st.messages[i].role # "system"
      PROVE  st.message_ids[i] \in EntryIds(st)
  <2> DEFINE e == <<st.message_ids[i], st.messages[i]>>
  <2>1. e \in Entries(st)
    BY <1>1, EntryMembers
  <2>2. e[1] = st.message_ids[i]
    OBVIOUS
  <2> HIDE DEF e
  <2> QED BY <2>1, <2>2 DEF EntryIds
<1> QED BY <1>1 DEF UserMessageIds, VisibleUserMessageIds

\* The log takes one more line.
LEMMA PresentAppend ==
  ASSUME log \in Seq(Line), SeqPositive, LogPresent,
         NEW line \in Line, line.seq > 0,
         line.event.type = "truncate" => line.event.id \in EntryIds(LogState),
         log' = Append(log, line)
  PROVE  SeqPositive' /\ LogPresent'
<1> DEFINE n == Len(log)
           more == Append(log, line)
           h == ReplayStates(EmptyState, log)
           g == ReplayStates(EmptyState, more)
<1>1. /\ n \in Nat /\ more \in Seq(Line) /\ Len(more) = n + 1 /\ more[n + 1] = line
      /\ \A i \in 1..n : more[i] = log[i]
  BY AppendProperties
<1>2. log' = more /\ ReplayStates(EmptyState, log)' = g
  OBVIOUS
<1>3. \A i \in 0..n : g[i] = h[i]
  BY ReplayPrefix
<1>4. LogState = h[n]
  BY ReplayStatesProperties DEF LogState
<1> HIDE DEF more, g, h
<1>5. \A i \in 1..Len(more) : i \in 1..n \/ i = n + 1
  BY <1>1
<1>6. SeqPositive'
  BY <1>1, <1>2, <1>5 DEF SeqPositive
<1>7. LogPresent'
  <2> SUFFICES ASSUME NEW j \in 1..Len(more), more[j].event.type = "truncate"
               PROVE  more[j].event.id \in EntryIds(g[j - 1])
    BY <1>2 DEF LogPresent
  <2>1. CASE j \in 1..n
    <3>1. j - 1 \in 0..n /\ more[j] = log[j]
      BY <1>1, <2>1
    <3>2. log[j].event.id \in EntryIds(h[j - 1])
      BY <2>1, <3>1 DEF LogPresent, h
    <3> QED BY <1>3, <3>1, <3>2
  <2>2. CASE j = n + 1
    <3>1. j - 1 = n /\ n \in 0..n /\ more[j] = line
      BY <1>1, <2>2
    <3> QED BY <1>3, <1>4, <3>1
  <2> QED BY <1>5, <2>1, <2>2
<1> QED BY <1>6, <1>7

\* The files as they were, or empty.
LEMMA PresentKept ==
  ASSUME SeqPositive, LogPresent, log' = log \/ log' = <<>>
  PROVE  SeqPositive' /\ LogPresent'
<1>1. CASE log' = log
  <2>1. ReplayStates(EmptyState, log)' = ReplayStates(EmptyState, log)
    BY <1>1
  <2> QED BY <1>1, <2>1 DEF SeqPositive, LogPresent
<1>2. CASE log' = <<>>
  <2>1. 1..Len(log') = {}
    <3>1. Len(<<>>) = 0 /\ 1..0 = {}
      OBVIOUS
    <3> QED BY <1>2, <3>1
  <2> QED BY <2>1 DEF SeqPositive, LogPresent
<1> QED BY <1>1, <1>2

\* No truncation is left to record.
LEMMA NoTruncateDue ==
  ASSUME op'.todo = <<>> \/ op' = NoOp
  PROVE  TruncateDue'
<1>1. op'.todo = <<>> /\ 1..Len(<<>>) = {}
  BY DEF NoOp
<1> QED BY <1>1 DEF TruncateDue

\* Memory shows the messages it showed.
LEMMA StillPresent ==
  ASSUME TruncateDue, RegenPresent, ~Creating, mem # NULL,
         EntryIds(mem) \subseteq EntryIds(mem'), regen' = regen,
         op'.todo = op.todo \/ op'.todo = <<>> \/ op' = NoOp
  PROVE  TruncateDue' /\ RegenPresent'
<1>1. EntryIds(mem)' = EntryIds(mem')
  BY DEF EntryIds, Entries
<1>2. RegenPresent'
  BY <1>1 DEF RegenPresent
<1>3. CASE op'.todo = op.todo
  <2>1. TruncateDue'
    BY <1>1, <1>3 DEF TruncateDue
  <2> QED BY <1>2, <2>1
<1>4. CASE op'.todo = <<>> \/ op' = NoOp
  BY <1>2, <1>4, NoTruncateDue
<1> QED BY <1>3, <1>4

-----------------------------------------------------------------------------
\* Operations: an edit and a regenerate request name a message of the transcript, and
\* a preamble swap or a checkpoint leaves the transcript as it is.
LEMMA OperationsPresent ==
  ASSUME PageInv, Operation \/ Regenerate
  PROVE  TruncateDue' /\ RegenPresent'
<1>1. pc = "idle" /\ mem # NULL /\ ~Creating
  BY DEF Operation, Regenerate, RecordMessage, RecordOutcome, RecordGoalProgress,
         ChangeGoal, EditUserMessage, CheckRegenerate, PatchSettings, ApplySettings,
         CompactContext, Ready, Creating
<1>2. /\ mem \in State /\ SameLength(mem) /\ op = NoOp
      /\ TruncateDue /\ RegenPresent /\ IdInv
  BY <1>1, LiveIds DEF PageInv, TranscriptInv, IdInv, IdleOp
<1>3. /\ UserMessageIds(mem) \subseteq EntryIds(mem)
      /\ VisibleUserMessageIds(mem) \subseteq EntryIds(mem)
  BY <1>2, UserEntries
<1>4. EntryIds(mem) \subseteq EntryIds(mem')
  <2>1. mem' = mem \/ \E p \in Preambles : mem' = ReplacePreamble(mem, p)
    BY DEF Operation, Regenerate, RecordMessage, RecordOutcome, RecordGoalProgress,
           ChangeGoal, EditUserMessage, CheckRegenerate, PatchSettings, ApplySettings,
           CompactContext
  <2>2. ASSUME NEW p \in Preambles, mem' = ReplacePreamble(mem, p)
        PROVE  Entries(mem') = Entries(mem)
    BY <1>1, <1>2, <2>2, SwapPlaced
  <2>3. Entries(mem') = Entries(mem)
    BY <2>1, <2>2
  <2> QED BY <2>3 DEF EntryIds
<1>5. ASSUME regen' = regen PROVE RegenPresent'
  BY <1>2, <1>4, <1>5 DEF RegenPresent
<1>6. ASSUME NEW ev, ev.type # "truncate", NEW save, NEW by, Start(<<ev>>, save, by)
      PROVE  TruncateDue'
  <2>1. op'.todo = <<ev>>
    BY <1>6 DEF Start
  <2>2. Len(<<ev>>) = 1 /\ <<ev>>[1] = ev /\ 1..1 = {1}
    OBVIOUS
  <2> QED BY <1>6, <2>1, <2>2 DEF TruncateDue
<1>7. ASSUME NEW save, NEW by, Start(<<>>, save, by)
      PROVE  TruncateDue'
  <2>1. op'.todo = <<>>
    BY <1>7 DEF Start
  <2> QED BY <2>1, NoTruncateDue
<1>8. /\ \A t \in {"finish", "error", "goal_usage", "goal_cleared"} :
            Plain(t).type # "truncate"
      /\ \A m : MessageEvent(m).type # "truncate"
      /\ \A id, m : MessageEdit(id, m).type = "edit"
      /\ \A g : GoalCompleted(g).type # "truncate"
      /\ \A c : ContextCheckpoint(c).type # "truncate"
      /\ GoalSet.type # "truncate"
      /\ \A id : TruncateAfter(id).type = "truncate" /\ TruncateAfter(id).id = id
  BY DEF Plain, MessageEvent, TruncateAfter, MessageEdit, GoalCompleted, GoalSet,
         ContextCheckpoint
<1>9. CASE RecordMessage
  BY <1>5, <1>6, <1>8, <1>9 DEF RecordMessage
<1>10. CASE RecordOutcome
  BY <1>5, <1>6, <1>8, <1>10 DEF RecordOutcome
<1>11. CASE RecordGoalProgress
  BY <1>5, <1>6, <1>8, <1>11 DEF RecordGoalProgress
<1>12. CASE ChangeGoal
  BY <1>5, <1>6, <1>8, <1>12 DEF ChangeGoal
<1>13. CASE EditUserMessage
  <2>1. PICK id \in UserMessageIds(mem), b \in Body :
           Start(<<MessageEdit(id, [role |-> "user", body |-> b]), TruncateAfter(id)>>,
                 TRUE, "handler")
    BY <1>13 DEF EditUserMessage
  <2> DEFINE x == MessageEdit(id, [role |-> "user", body |-> b])
             y == TruncateAfter(id)
             evs == <<x, y>>
  <2>2. x.type = "edit" /\ y.type = "truncate" /\ y.id \in EntryIds(mem)
    BY <1>3, <1>8
  <2>3. op'.todo = evs /\ regen = NULL /\ regen' = regen /\ mem' = mem
    BY <1>13, <2>1 DEF Start, EditUserMessage
  <2> HIDE DEF x, y
  <2>4. Len(evs) = 2 /\ evs[1] = x /\ evs[2] = y /\ 1..2 = {1, 2} /\ 1..(2 - 1) = {1}
    OBVIOUS
  <2> HIDE DEF evs
  <2>5. TruncateDue'
    BY <2>2, <2>3, <2>4 DEF TruncateDue
  <2> QED BY <1>5, <2>3, <2>5
<1>14. CASE CheckRegenerate
  <2>1. /\ UNCHANGED <<mem, op>> /\ regen' \in VisibleUserMessageIds(mem)
    BY <1>14 DEF CheckRegenerate
  <2>2. RegenPresent'
    BY <1>3, <2>1 DEF RegenPresent
  <2>3. op' = NoOp
    BY <1>2, <2>1
  <2> QED BY <2>2, <2>3, NoTruncateDue
<1>15. CASE Regenerate
  <2>1. Start(<<TruncateAfter(regen)>>, TRUE, "handler") /\ regen' = NULL /\ mem' = mem
        /\ regen \in EntryIds(mem)
    BY <1>2, <1>15 DEF Regenerate, RegenPresent
  <2> DEFINE y == TruncateAfter(regen)
             evs == <<y>>
  <2>2. y.id \in EntryIds(mem)
    BY <1>8, <2>1
  <2>3. op'.todo = evs
    BY <2>1 DEF Start
  <2> HIDE DEF y
  <2>4. Len(evs) = 1 /\ evs[1] = y /\ 1..1 = {1} /\ 1..(1 - 1) = {}
    OBVIOUS
  <2> HIDE DEF evs
  <2>5. TruncateDue'
    BY <2>1, <2>2, <2>3, <2>4 DEF TruncateDue
  <2> QED BY <2>1, <2>5 DEF RegenPresent
<1>16. CASE PatchSettings
  BY <1>5, <1>7, <1>16 DEF PatchSettings
<1>17. CASE ApplySettings
  BY <1>5, <1>7, <1>17 DEF ApplySettings
<1>18. CASE CompactContext
  <2>1. PICK p \in Preambles :
           LET st == ReplacePreamble(mem, p)
           IN  /\ mem' = st
               /\ Start(<<ContextCheckpoint([base |-> LastId(st),
                                             covers |-> Entries(st)])>>, TRUE, "worker")
    BY <1>18 DEF CompactContext
  <2> DEFINE c == [base |-> LastId(mem'), covers |-> Entries(mem')]
  <2>2. Start(<<ContextCheckpoint(c)>>, TRUE, "worker") /\ regen' = regen
    BY <1>18, <2>1 DEF CompactContext
  <2> HIDE DEF c
  <2>3. TruncateDue'
    BY <1>6, <1>8, <2>2
  <2> QED BY <1>5, <2>2, <2>3
<1> QED BY <1>9, <1>10, <1>11, <1>12, <1>13, <1>14, <1>15, <1>16, <1>17, <1>18
        DEF Operation

\* Memory takes the event that was appended.
LEMMA ApplyPresent ==
  ASSUME PageInv, Apply
  PROVE  TruncateDue' /\ RegenPresent'
<1> DEFINE ev == Head(op.todo)
           q == mem.last_seq + 1
<1>1. /\ pc = "apply" /\ pc' = "meta" /\ mem' = ApplyEvent(mem, ev, q)
      /\ regen' = regen /\ op' = [op EXCEPT !.todo = Tail(@)]
      /\ IdInv /\ TypeOK /\ TruncateDue /\ RegenPresent
  BY DEF Apply, PageInv, TranscriptInv, IdInv
<1>2. /\ mem # NULL /\ op.todo # <<>> /\ op.todo \in Seq(Event) /\ ev \in Event
      /\ EventGood(ev, TRUE, op.by, mem, log, Whole) /\ ~Creating /\ ~Creating'
  BY <1>1, PendingEvent DEF Creating
<1>3. /\ op'.todo = Tail(op.todo) /\ ev = op.todo[1] /\ 1 \in 1..Len(op.todo)
      /\ Len(op.todo) \in Nat
  BY <1>1, <1>2 DEF TypeOK, Op
<1>4. mem \in State /\ Aligned(mem) /\ mem.last_seq \in Nat
  BY <1>1, <1>2, LiveIds
<1>5. q \in Nat /\ q > mem.last_seq
  BY <1>4
<1> HIDE DEF ev, q
<1>6. Fits(mem, ev, q)
  <2>1. \A x \in Ids(mem) : x < q
    <3>1. \A x \in Ids(mem) : x \in Nat /\ x <= mem.last_seq
      BY <1>4, AlignedIds
    <3> QED BY <1>4, <1>5, <3>1
  <2> QED BY <1>2, <2>1 DEF EventGood, Fits
<1>7. Entries(mem') = EntriesAfter(Entries(mem), ev, q)
  BY <1>1, <1>2, <1>4, <1>5, <1>6, ApplyKeeps
<1>8. ev.type # "truncate" => EntryIds(mem) \subseteq EntryIds(mem')
  BY <1>7, EntryIdsKept
<1>9. RegenPresent'
  <2> SUFFICES ASSUME regen # NULL PROVE regen \in EntryIds(mem')
    BY <1>1 DEF RegenPresent
  <2>1. ev.type # "truncate"
    BY <1>1, <1>2, <1>3 DEF TruncateDue
  <2> QED BY <1>1, <1>8, <2>1 DEF RegenPresent
<1>10. TruncateDue'
  <2> SUFFICES ASSUME NEW j \in 1..Len(Tail(op.todo)), Tail(op.todo)[j].type = "truncate"
               PROVE  /\ j = Len(Tail(op.todo)) /\ regen = NULL
                      /\ \A i \in 1..(j - 1) : Tail(op.todo)[i].type = "edit"
                      /\ Tail(op.todo)[j].id \in EntryIds(mem')
    BY <1>1, <1>3 DEF TruncateDue
  <2>1. /\ Len(Tail(op.todo)) = Len(op.todo) - 1
        /\ \A i \in 1..Len(Tail(op.todo)) :
              Tail(op.todo)[i] = op.todo[i + 1] /\ i + 1 \in 1..Len(op.todo)
    BY <1>2, <1>3
  <2>2. /\ j + 1 = Len(op.todo) /\ regen = NULL
        /\ \A i \in 1..j : op.todo[i].type = "edit"
        /\ op.todo[j + 1].id \in EntryIds(mem)
    <3>1. /\ j + 1 \in 1..Len(op.todo) /\ op.todo[j + 1].type = "truncate"
          /\ (j + 1) - 1 = j
      BY <2>1
    <3>2. /\ j + 1 = Len(op.todo) /\ regen = NULL
          /\ \A i \in 1..((j + 1) - 1) : op.todo[i].type = "edit"
          /\ op.todo[j + 1].id \in EntryIds(mem)
      BY <1>1, <1>2, <3>1 DEF TruncateDue
    <3> QED BY <3>1, <3>2
  <2>3. ev.type = "edit"
    <3>1. 1 \in 1..j
      BY <2>1
    <3> QED BY <1>3, <2>2, <3>1
  <2>4. \A i \in 1..(j - 1) : Tail(op.todo)[i].type = "edit"
    <3> TAKE i \in 1..(j - 1)
    <3>1. i \in 1..Len(Tail(op.todo)) /\ i + 1 \in 1..j
      BY <1>3, <2>1
    <3> QED BY <2>1, <2>2, <3>1
  <2> QED BY <1>3, <1>8, <2>1, <2>2, <2>3, <2>4
<1> QED BY <1>9, <1>10

\* Every step, when appends are not torn and handlers run to completion.
LEMMA DuePresent ==
  ASSUME NoTornNoDrop, PageInv, [Next]_vars
  PROVE  TruncateDue' /\ RegenPresent'
<1>1. /\ IdInv /\ TypeOK /\ TruncateDue /\ RegenPresent /\ IdleOp /\ CreatingGood /\ RegenGood
  BY DEF PageInv, TranscriptInv, IdInv
<1>2. ASSUME mem = NULL, regen' = regen PROVE RegenPresent'
  BY <1>1, <1>2 DEF RegenGood, RegenPresent
<1>3. CASE Create \/ CreateAppend \/ CreateMeta
  <2>1. Creating' /\ mem = NULL /\ regen' = regen
    BY <1>1, <1>3 DEF Create, CreateAppend, CreateMeta, Creating, CreatingGood
  <2> QED BY <1>2, <2>1 DEF TruncateDue
<1>4. CASE CreateSnapshot
  <2>1. op' = NoOp /\ mem = NULL /\ regen' = regen
    BY <1>1, <1>4 DEF CreateSnapshot, Creating, CreatingGood
  <2> QED BY <1>2, <2>1, NoTruncateDue
<1>5. CASE Delete \/ Crash
  <2>1. op' = NoOp /\ regen' = NULL
    BY <1>1, <1>5 DEF Delete, Crash, IdleOp
  <2> QED BY <2>1, NoTruncateDue DEF RegenPresent
<1>6. CASE Operation \/ Regenerate
  BY <1>6, OperationsPresent
<1>7. CASE AppendEventLine
  <2>1. UNCHANGED <<mem, op, regen>> /\ ~Creating /\ mem # NULL
    BY <1>1, <1>7 DEF AppendEventLine, Creating, TypeOK
  <2>2. EntryIds(mem) \subseteq EntryIds(mem')
    BY <2>1
  <2> QED BY <1>1, <2>1, <2>2, StillPresent
<1>8. CASE Apply
  BY <1>8, ApplyPresent
<1>9. CASE WriteMeta \/ WriteSnapshotMeta
  <2>1. UNCHANGED <<mem, regen>> /\ ~Creating /\ mem # NULL
    BY <1>1, <1>9 DEF WriteMeta, WriteSnapshotMeta, Creating, TypeOK
  <2>2. op'.todo = op.todo \/ op' = NoOp
    <3>1. [op EXCEPT !.save = FALSE].todo = op.todo
      BY <1>1 DEF TypeOK, Op
    <3> QED BY <1>9, <3>1 DEF WriteMeta, WriteSnapshotMeta, Advance
  <2>3. EntryIds(mem) \subseteq EntryIds(mem')
    BY <2>1
  <2> QED BY <1>1, <2>1, <2>2, <2>3, StillPresent
<1>10. CASE WriteSnapshot
  <2>1. /\ mem' = [mem EXCEPT !.last_snapshot_seq = mem.last_seq]
        /\ UNCHANGED <<op, regen>> /\ ~Creating /\ mem # NULL
    BY <1>1, <1>10 DEF WriteSnapshot, Creating, TypeOK
  <2>2. mem \in State /\ mem.last_seq \in Nat
    BY <1>1, <2>1, LiveIds
  <2>3. EntryIds(mem') = EntryIds(mem)
    BY <2>1, <2>2, MarkKeeps
  <2> QED BY <1>1, <2>1, <2>3, StillPresent
<1>11. CASE Load
  <2>1. op'.todo = <<>> /\ mem = NULL /\ regen' = regen
    BY <1>11 DEF Load, NoOp
  <2> QED BY <1>2, <2>1, NoTruncateDue
<1>12. CASE WriteFails
  <2>1. op' = NoOp /\ regen' = regen /\ ~Creating /\ mem # NULL
    BY <1>1, <1>12 DEF WriteFails, Creating, TypeOK
  <2> SUFFICES ASSUME regen # NULL PROVE RegenPresent'
    BY <2>1, NoTruncateDue DEF RegenPresent
  <2>2. op.by # "resume"
    BY <1>1 DEF RegenGood
  <2> DEFINE st == [mem EXCEPT !.last_snapshot_seq = mem.last_seq]
  <2>3. mem' = mem \/ mem' = st
    BY <1>12, <2>2 DEF WriteFails
  <2>4. mem \in State /\ mem.last_seq \in Nat
    BY <1>1, <2>1, LiveIds
  <2>5. EntryIds(st) = EntryIds(mem)
    BY <2>4, MarkKeeps
  <2> HIDE DEF st
  <2>6. EntryIds(mem') = EntryIds(mem)
    BY <2>3, <2>5
  <2> QED BY <1>1, <2>1, <2>6 DEF RegenPresent
<1>13. CASE TornCrash \/ DropHandler
  BY <1>13 DEF TornCrash, DropHandler, NoTornNoDrop
<1>14. CASE UNCHANGED vars
  BY <1>1, <1>14 DEF vars, TruncateDue, RegenPresent, Creating, EntryIds, Entries
<1> QED BY <1>3, <1>4, <1>5, <1>6, <1>7, <1>8, <1>9, <1>10, <1>11, <1>12, <1>13, <1>14
        DEF Next

\* What each step appends to the log: a first message, the event that is due, or nothing.
LEMMA LogStepPresent ==
  ASSUME NoTornNoDrop, PageInv, [Next]_vars
  PROVE  SeqPositive' /\ LogPresent'
<1>1. /\ IInv /\ IdInv /\ TypeOK /\ TruncateDue /\ SeqPositive /\ LogPresent
      /\ log \in Seq(Line)
  BY DEF PageInv, TranscriptInv, IdInv, TypeOK
<1>2. CASE CreateAppend
  <2> DEFINE ev == Head(op.todo)
             q == Len(log) + 1
  <2>1. /\ ended = TRUE /\ op.todo # <<>> /\ op.todo \in Seq(Event) /\ ev \in Event
        /\ log' = AppendTo(log, ended, EventLine(q, ev))
        /\ \A i \in 1..Len(op.todo) : op.todo[i].type = "message"
    BY <1>1, <1>2, OpFields DEF CreateAppend, IdInv, CreatingGood, Creating
  <2>2. ev.type = "message"
    <3>1. ev = op.todo[1] /\ 1 \in 1..Len(op.todo)
      BY <2>1
    <3> QED BY <2>1, <3>1
  <2>3. q \in Nat /\ q > 0
    BY <1>1
  <2> HIDE DEF ev, q
  <2>4. EventLine(q, ev) \in Line /\ log' = Append(log, EventLine(q, ev))
    BY <1>1, <2>1, <2>3, AppendLine
  <2>5. EventLine(q, ev).event.type # "truncate" /\ EventLine(q, ev).seq > 0
    <3>1. EventLine(q, ev).event = ev /\ EventLine(q, ev).seq = q
      BY EventLineFields
    <3> QED BY <2>2, <2>3, <3>1
  <2> QED BY <1>1, <2>4, <2>5, PresentAppend
<1>3. CASE AppendEventLine
  <2> DEFINE ev == Head(op.todo)
             q == mem.last_seq + 1
  <2>1. /\ mem # NULL /\ snap # NULL /\ pc = "append" /\ ev \in Event /\ q \in Nat
        /\ log' = Append(log, EventLine(q, ev)) /\ Durable = mem
    BY <1>1, <1>3, RecordStep
  <2>2. q > 0
    <3>1. mem.last_seq \in Nat
      BY <1>1, <2>1, LiveIds
    <3> QED BY <3>1
  <2>3. ev.type = "truncate" => ev.id \in EntryIds(LogState)
    <3> SUFFICES ASSUME ev.type = "truncate" PROVE ev.id \in EntryIds(LogState)
      OBVIOUS
    <3>1. op.todo # <<>> /\ op.todo \in Seq(Event) /\ ~Creating
      BY <1>1, <2>1, PendingEvent DEF Creating
    <3>2. ev = op.todo[1] /\ 1 \in 1..Len(op.todo)
      BY <3>1
    <3>3. ev.id \in EntryIds(mem)
      BY <1>1, <3>1, <3>2 DEF TruncateDue
    <3>4. Entries(mem) = Entries(LogState)
      BY <2>1 DEF PageInv, TranscriptInv, OneTranscript
    <3> QED BY <3>3, <3>4 DEF EntryIds
  <2> HIDE DEF ev, q
  <2>4. EventLine(q, ev).seq = q /\ EventLine(q, ev).event = ev
    BY EventLineFields
  <2>5. EventLine(q, ev) \in Line
    BY <1>1, <2>1, AppendLine
  <2> QED BY <1>1, <2>1, <2>2, <2>3, <2>4, <2>5, PresentAppend
<1>4. CASE ~CreateAppend /\ ~AppendEventLine
  <2>1. CASE Create \/ CreateMeta \/ CreateSnapshot \/ Delete
    BY <1>1, <2>1, PresentKept DEF Create, CreateMeta, CreateSnapshot, Delete, disk
  <2>2. CASE Operation \/ Regenerate
    <3>1. OperationEffect
      <4>1. MemoryCoversSnapshot
        BY <1>1 DEF IInv
      <4> QED BY <1>1, <2>2, <4>1, OperationStep
    <3> QED BY <1>1, <3>1, PresentKept DEF OperationEffect, disk
  <2>3. CASE Apply \/ WriteMeta \/ WriteSnapshot \/ WriteSnapshotMeta \/ Load \/ Crash \/ WriteFails
    BY <1>1, <2>3, PresentKept
       DEF Apply, WriteMeta, WriteSnapshot, WriteSnapshotMeta, Load, Crash, WriteFails, disk
  <2>4. CASE TornCrash \/ DropHandler
    BY <2>4 DEF TornCrash, DropHandler, NoTornNoDrop
  <2>5. CASE UNCHANGED vars
    BY <1>1, <2>5, PresentKept DEF vars
  <2> QED BY <1>4, <2>1, <2>2, <2>3, <2>4, <2>5 DEF Next
<1> QED BY <1>2, <1>3, <1>4

\* A new session, and one an older version left.
LEMMA InitPages == Init => PageInv
<1> SUFFICES ASSUME Init PROVE PageInv
  OBVIOUS
<1>1. TranscriptInv
  BY InitTranscript
<1>2. TruncateDue /\ RegenPresent
  <2>1. op = NoOp /\ regen = NULL
    BY DEF Init, NoSession, LegacySession
  <2>2. op.todo = <<>>
    BY <2>1 DEF NoOp
  <2>3. 1..Len(<<>>) = {}
    OBVIOUS
  <2> QED BY <2>1, <2>2, <2>3 DEF TruncateDue, RegenPresent
<1>3. SeqPositive /\ LogPresent
  <2>1. CASE NoSession
    <3>1. log = <<>> /\ 1..Len(<<>>) = {}
      BY <2>1 DEF NoSession
    <3> QED BY <3>1 DEF SeqPositive, LogPresent
  <2>2. ASSUME NEW ms \in InitialMessages, LegacySession(ms)
        PROVE  SeqPositive /\ LogPresent
    <3>1. \A i \in 1..Len(log) : log[i].seq = i /\ log[i].event.type = "message"
      BY <2>2, LegacyFiles
    <3> QED BY <3>1 DEF SeqPositive, LogPresent
  <2> QED BY <2>1, <2>2 DEF Init
<1> QED BY <1>1, <1>2, <1>3 DEF PageInv

\* Every truncation that gets into events.jsonl names a message that is there, in every
\* state, when appends are not torn and handlers run to completion.
THEOREM PageInvariance ==
  ASSUME NoTornNoDrop
  PROVE  Spec => []PageInv
<1>1. Init => PageInv
  BY InitPages
<1>2. PageInv /\ [Next]_vars => PageInv'
  <2> SUFFICES ASSUME PageInv, [Next]_vars PROVE PageInv'
    OBVIOUS
  <2>1. TranscriptInv'
    BY NextTranscript DEF PageInv
  <2>2. TruncateDue' /\ RegenPresent'
    BY DuePresent
  <2>3. SeqPositive' /\ LogPresent'
    BY LogStepPresent
  <2> QED BY <2>1, <2>2, <2>3 DEF PageInv
<1> QED BY <1>1, <1>2, PTL DEF Spec

\* The transcript after each line of the log, which replay gives one line after another.
History == [i \in 0..Len(log) |-> Entries(ReplayStates(EmptyState, log)[i])]

\* The log of a session at rest is the history of the transcript in memory.
LEMMA LogHistory ==
  ASSUME PageInv, mem # NULL, pc = "idle"
  PROVE  Historic(log, History) /\ History[Len(log)] = Entries(mem)
<1> DEFINE n == Len(log)
           h == ReplayStates(EmptyState, log)
<1>1. /\ log \in Seq(Line) /\ n \in Nat /\ Whole /\ Ordered(log) /\ RefersBack(log)
      /\ \A i \in 1..n : log[i].ok
  <2>1. log \in Seq(Line) /\ Whole
    BY ThreeStates DEF PageInv, TranscriptInv
  <2>2. \A i \in 1..n : log[i].ok
    BY DEF PageInv, TranscriptInv, IInv, LogReadable
  <2> QED BY <2>1, <2>2 DEF PageInv, TranscriptInv, IdInv, LogGood, Whole
<1>2. /\ EmptyState \in State /\ EmptyState.last_seq = 0 /\ EmptyState.last_snapshot_seq = 0
      /\ Aligned(EmptyState) /\ SystemIds(EmptyState) = {} /\ Entries(EmptyState) = {}
  <2>1. EmptyState.messages = <<>> /\ EmptyState.message_ids = <<>>
    BY DEF EmptyState
  <2> QED BY <2>1, EmptyStateType, EmptyAligned
<1>3. \A i \in 1..n : log[i].ok /\ ~(log[i].seq <= 0) =>
         Entries(h[i]) = EntriesAfter(Entries(h[i - 1]), log[i].event, log[i].seq)
  BY <1>1, <1>2, ReplayHistory
<1>4. h[0] = EmptyState /\ h[n] = LogState
  BY <1>1, ReplayStatesProperties DEF LogState
<1>5. Entries(LogState) = Entries(mem)
  <2>1. snap # NULL /\ Durable = mem
    BY LiveIds DEF PageInv, TranscriptInv, Durable
  <2> QED BY <2>1 DEF PageInv, TranscriptInv, OneTranscript
<1>6. \A i \in 1..n : log[i].seq > 0 /\ log[i].seq \in Nat
  BY <1>1, LineFields DEF PageInv, SeqPositive
<1>7. \A i \in 1..n : log[i].event.type = "truncate" =>
         \E e \in Entries(h[i - 1]) : e[1] = log[i].event.id
  BY DEF PageInv, LogPresent, EntryIds
<1> HIDE DEF h
<1>8. \A i \in 0..n : History[i] = Entries(h[i])
  BY DEF History, h
<1>9. History[0] = {} /\ History[n] = Entries(mem)
  BY <1>1, <1>2, <1>4, <1>5, <1>8
<1>10. \A i \in 1..n : /\ i \in 0..n /\ i - 1 \in 0..n /\ ~(log[i].seq <= 0)
                       /\ History[i] = Entries(h[i]) /\ History[i - 1] = Entries(h[i - 1])
  BY <1>1, <1>6, <1>8
<1>11. \A i \in 1..n :
          History[i] = EntriesAfter(History[i - 1], log[i].event, log[i].seq)
  BY <1>1, <1>3, <1>10
<1>12. \A i \in 1..n : log[i].event.type = "truncate" =>
          \E e \in History[i - 1] : e[1] = log[i].event.id
  BY <1>7, <1>10
<1> QED BY <1>1, <1>9, <1>11, <1>12 DEF Historic

\* read_message_page, in reverse over the file, and apply_event, forward in memory, agree:
\* pages of any size, followed from the newest by next_before, show each visible message
\* of the session in memory once, in order, with the text edits gave it and nothing a
\* truncation took away, through crashes, failed writes and loads.
THEOREM PagesShowAll ==
  ASSUME NoTornNoDrop
  PROVE  Spec => [](mem # NULL /\ pc = "idle" =>
                       \A limit \in Nat \ {0} : WalkPages(log, limit) = DisplayEntries(mem))
<1>1. ASSUME PageInv, mem # NULL, pc = "idle", NEW limit \in Nat \ {0}
      PROVE  WalkPages(log, limit) = DisplayEntries(mem)
  <2>1. Historic(log, History) /\ History[Len(log)] = Entries(mem)
    BY <1>1, LogHistory
  <2>2. Lists(WalkPages(log, limit), DisplayPart(Entries(mem)))
    BY <2>1, WalkShowsAll
  <2>3. mem \in State /\ Aligned(mem)
    BY <1>1, LiveIds DEF PageInv, TranscriptInv
  <2>4. Lists(DisplayEntries(mem), DisplayPart(Entries(mem)))
    BY <2>3, DisplayLists
  <2> QED BY <2>2, <2>4, ListUnique
<1>2. PageInv => (mem # NULL /\ pc = "idle" =>
                    \A limit \in Nat \ {0} : WalkPages(log, limit) = DisplayEntries(mem))
  BY <1>1
<1> QED BY <1>2, PageInvariance, PTL

\* The same as the property that is checked.
THEOREM PagesAreComplete ==
  ASSUME NoTornNoDrop
  PROVE  Spec => []PagesShowTranscript
<1>1. (mem # NULL /\ pc = "idle" =>
          \A limit \in Nat \ {0} : WalkPages(log, limit) = DisplayEntries(mem))
        => PagesShowTranscript
  BY DEF PagesShowTranscript
<1> QED BY <1>1, PagesShowAll, PTL
=============================================================================
