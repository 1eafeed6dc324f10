-------------------------- MODULE EventStreamProofs --------------------------
(***************************************************************************)
(* Proofs about EventStream: what a client may have seen is in the file    *)
(* unless its append met another, the id of a new event is not one that    *)
(* can still be read, the snapshot of an answer in progress is all of it   *)
(* but for the piece being added, and a client that follows the stream     *)
(* misses only what was sent before it subscribed, was overtaken on its    *)
(* way to the ring or lost its line; for any number of clients, any ring   *)
(* sizes, failed appends, configuration changes and restarts.              *)
(***************************************************************************)
EXTENDS EventStream, SequenceLemmas

\* Cutting the ring leaves events that were in it.
LEMMA LastOfProperties ==
  ASSUME NEW S, NEW s \in Seq(S), NEW n \in Nat
  PROVE  LastOf(s, n) \in Seq(S) /\ ToSet(LastOf(s, n)) \subseteq ToSet(s)
<1> DEFINE m == IF Len(s) > n THEN Len(s) - n + 1 ELSE 1
<1>1. Len(s) \in Nat /\ m \in Nat /\ m >= 1 /\ m <= Len(s) + 1 /\ DOMAIN s = 1..Len(s)
  OBVIOUS
<1> HIDE DEF m
<1>2. LastOf(s, n) = SubSeq(s, m, Len(s))
  BY DEF LastOf, m
<1>3. /\ LastOf(s, n) \in Seq(S)
      /\ \A i \in DOMAIN LastOf(s, n) : i + m - 1 \in 1..Len(s) /\ LastOf(s, n)[i] = s[i + m - 1]
  BY <1>1, <1>2
<1> QED BY <1>1, <1>3 DEF ToSet

-----------------------------------------------------------------------------
(***************************************************************************)
(* The inductive invariant.  Ids that are taken are never beyond           *)
(* next_event_id; an emission's id is its own, and not in the file before  *)
(* it is written; an emission that is past its newline has a line in the   *)
(* file, unless its append met another.                                    *)
(***************************************************************************)
Push == [id : Id, kept : BOOLEAN, alone : BOOLEAN]

SequenceTypes ==
    /\ next_event_id \in Nat
    /\ log \in Seq(Event) /\ unfinished \in Seq(Event \cup {NULL})
    /\ ring \in Seq(Event) /\ sent \in Seq(Event)
    /\ pushed \in Seq(Push) /\ ring_size \in RingSizes

Waiting(t) == emit[t] # NULL
Unwritten == {"apply", "append"}

EmissionTypes ==
    /\ DOMAIN emit = Task
    /\ \A t \in Task : Waiting(t) => emit[t] \in Emission

IdsCovered ==
    /\ \A e \in ToSet(Readable) \cup ToSet(ring) \cup ToSet(sent) : e.id <= next_event_id
    /\ \A t \in Task : Waiting(t) => emit[t].ev.id <= next_event_id

IdsOnce ==
    /\ \A i, j \in 1..Len(Readable) : Readable[i].id = Readable[j].id => i = j
    /\ \A t, u \in Task : Waiting(t) /\ Waiting(u) /\ emit[t].ev.id = emit[u].ev.id => t = u
    /\ \A t \in Task : Waiting(t) /\ emit[t].at \in Unwritten
                         => \A e \in ToSet(Readable) : e.id # emit[t].ev.id

\* Where a durable event is once the emission x has written it.
Filed(x) ==
    Emitted(x.ev).durable =>
        /\ x.at = "newline" /\ x.alone =>
              Emitted(x.ev) \in ToSet(log) \/ unfinished = <<Emitted(x.ev)>>
        /\ x.at = "push" /\ x.alone => Emitted(x.ev) \in ToSet(log)
        /\ x.at = "send" => Emitted(x.ev) \in ToSet(log) \/ Glued(x.ev.id)

FileFirst ==
    /\ \A e \in ToSet(ring) \cup ToSet(sent) : e.durable => e \in ToSet(log) \/ Glued(e.id)
    /\ \A t \in Task : Waiting(t) => Filed(emit[t])

\* While nothing failed, the file ends in the middle of a line only because an append is
\* between its two writes.
LinesEnd ==
    /\ faults \in Nat
    /\ faults = 0 /\ unfinished # <<>> => \E t \in Task : Waiting(t) /\ emit[t].at = "newline"

EventInv == SequenceTypes /\ EmissionTypes /\ IdsCovered /\ IdsOnce /\ FileFirst /\ LinesEnd

LEMMA EmittedFields ==
  ASSUME NEW ev
  PROVE  /\ Emitted(ev).id = ev.id
         /\ Emitted(ev).durable = (ev.kind \notin Ephemeral)
  BY DEF Emitted

LEMMA EmittedType ==
  ASSUME NEW e \in Emission
  PROVE  /\ Emitted(e.ev) \in Event /\ Emitted(e.ev) # NULL /\ e.ev.id \in Nat /\ e.size \in Nat
         /\ e # NULL /\ e.at \in EmitAt /\ e.alone \in BOOLEAN
<1>1. e.ev.id \in Id /\ e.ev.id \in Nat
  BY EventBounds DEF Emission, Id
<1>2. (e.ev.kind \notin Ephemeral) \in BOOLEAN
  OBVIOUS
<1>3. Emitted(e.ev) \in Event
  BY <1>1, <1>2 DEF Emitted, Event
<1>4. e.size \in Nat
  BY EventBounds DEF Emission
<1> QED BY <1>1, <1>3, <1>4, NothingIsNull DEF Emission

\* What is read of the file: its lines, and perhaps one event behind them.
LEMMA ReadableLines ==
  ASSUME log \in Seq(Event), unfinished \in Seq(Event \cup {NULL})
  PROVE  /\ Readable \in Seq(Event) /\ ToSet(log) \subseteq ToSet(Readable)
         /\ Len(log) \in Nat /\ Len(log) <= Len(Readable)
         /\ \A i \in 1..Len(log) : i \in 1..Len(Readable) /\ Readable[i] = log[i]
         /\ unfinished = <<>> => Readable = log
<1>1. CASE IsEvent(unfinished)
  <2>1. unfinished[1] \in Event
    BY <1>1 DEF IsEvent
  <2> DEFINE e == unfinished[1]
  <2>2. Readable = Append(log, e)
    BY <1>1 DEF Readable
  <2>3. unfinished # <<>>
    <3>1. Len(unfinished) = 1
      BY <1>1 DEF IsEvent
    <3>2. ASSUME unfinished = <<>> PROVE FALSE
      <4>1. Len(unfinished) = Len(<<>>)
        BY <3>2, Zenon
      <4> QED BY <3>1, <4>1
    <3> QED BY <3>2
  <2> HIDE DEF e
  <2>4. ToSet(Append(log, e)) = ToSet(log) \cup {e}
    BY <2>1, ToSetAppend DEF e
  <2> QED BY <2>1, <2>2, <2>3, <2>4, AppendProperties DEF e
<1>2. CASE ~IsEvent(unfinished)
  BY <1>2 DEF Readable
<1> QED BY <1>1, <1>2

\* An emission goes one step further: it enters the file, or the ring or the channel, or
\* it ends.  The others keep their events; one that waits for its newline may lose its
\* claim to a line of its own.
LEMMA EmissionMoves ==
  ASSUME EventInv, SequenceTypes', UNCHANGED next_event_id,
         NEW t \in Task, Waiting(t), NEW x, DOMAIN emit' = Task, emit'[t] = x,
         \A u \in Task : u # t =>
            \/ emit'[u] = emit[u]
            \/ /\ Waiting(u) /\ emit[u].at = "newline" /\ emit'[u] \in Emission
               /\ emit'[u].ev = emit[u].ev /\ emit'[u].at = "newline",
         NEW E, E = Emitted(emit[t].ev),
         x # NULL => /\ x \in Emission /\ x.ev = emit[t].ev
                     /\ x.at \in Unwritten => emit[t].at \in Unwritten,
         \/ ToSet(Readable') \subseteq ToSet(Readable)
         \/ /\ emit[t].at = "append" /\ ToSet(Readable') \subseteq ToSet(Readable) \cup {E}
            /\ x # NULL => x.at \notin Unwritten,
         \A i, j \in 1..Len(Readable') : Readable'[i].id = Readable'[j].id => i = j,
         ToSet(ring') \cup ToSet(sent') \subseteq ToSet(ring) \cup ToSet(sent) \cup {E},
         FileFirst', LinesEnd'
  PROVE  EventInv'
<1>1. E.id = emit[t].ev.id
  BY EmittedFields
<1>2. \A u \in Task : emit'[u] # NULL =>
         /\ emit[u] # NULL /\ emit'[u] \in Emission /\ emit'[u].ev = emit[u].ev
         /\ emit'[u].at \in Unwritten => emit[u].at \in Unwritten
  BY NothingIsNull DEF EventInv, EmissionTypes, Waiting, Unwritten
<1>3. EmissionTypes'
  BY <1>2 DEF EmissionTypes, Waiting
<1>4. IdsCovered'
  <2>1. emit[t].ev.id <= next_event_id
    BY DEF EventInv, IdsCovered
  <2>2. \A e \in ToSet(Readable') \cup ToSet(ring') \cup ToSet(sent') :
           e = E \/ e \in ToSet(Readable) \cup ToSet(ring) \cup ToSet(sent)
    OBVIOUS
  <2>3. \A e \in ToSet(Readable') \cup ToSet(ring') \cup ToSet(sent') : e.id <= next_event_id
    BY <1>1, <2>1, <2>2 DEF EventInv, IdsCovered
  <2>4. \A u \in Task : emit'[u] # NULL => emit'[u].ev.id <= next_event_id
    BY <1>2, <2>1 DEF EventInv, IdsCovered, Waiting
  <2> QED BY <2>3, <2>4 DEF IdsCovered, Waiting
<1>5. IdsOnce'
  <2>1. \A u, v \in Task : emit'[u] # NULL /\ emit'[v] # NULL /\ emit'[u].ev.id = emit'[v].ev.id => u = v
    BY <1>2 DEF EventInv, IdsOnce, Waiting
  <2>2. ASSUME NEW u \in Task, emit'[u] # NULL, emit'[u].at \in Unwritten, NEW e \in ToSet(Readable')
        PROVE  e.id # emit'[u].ev.id
    <3>1. emit[u] # NULL /\ emit[u].at \in Unwritten /\ emit'[u].ev.id = emit[u].ev.id
      BY <1>2, <2>2
    <3>2. CASE e \in ToSet(Readable)
      BY <3>1, <3>2 DEF EventInv, IdsOnce, Waiting
    <3>3. CASE e \notin ToSet(Readable)
      <4>1. e = E /\ u # t
        BY <2>2, <3>3
      <4> QED BY <1>1, <3>1, <4>1 DEF EventInv, IdsOnce, Waiting
    <3> QED BY <3>2, <3>3
  <2> QED BY <2>1, <2>2 DEF IdsOnce, Waiting
<1> QED BY <1>3, <1>4, <1>5 DEF EventInv

\* An event takes the next id, which nothing has.
LEMMA Allocated ==
  ASSUME EventInv, UNCHANGED <<log, unfinished, ring, sent, ring_size, pushed, faults>>,
         next_event_id' = next_event_id + 1,
         next_event_id + 1 <= MaxId, NEW t \in Task, NEW k \in Kind, NEW at \in Unwritten,
         NEW ev, ev = [id |-> next_event_id + 1, kind |-> k], ~Waiting(t),
         NEW x, x = [ev |-> ev, at |-> at, size |-> ring_size, alone |-> TRUE],
         emit' = [emit EXCEPT ![t] = x]
  PROVE  EventInv'
<1>1. /\ x.ev = ev /\ x.at = at /\ ev.id = next_event_id + 1
      /\ next_event_id \in Nat /\ at \in {"apply", "append"}
  BY DEF EventInv, SequenceTypes, Unwritten
<1>2. ev \in [id : Id, kind : Kind]
  BY <1>1, EventBounds DEF Id
<1>3. x \in Emission
  BY <1>1, <1>2 DEF EventInv, SequenceTypes, Emission, EmitAt
<1>4. ASSUME NEW u \in Task, u # t PROVE emit'[u] = emit[u]
  BY <1>4 DEF EventInv, EmissionTypes
<1>5. emit'[t] = x
  BY DEF EventInv, EmissionTypes
<1>r. Readable' = Readable
  BY DEF Readable, IsEvent
<1>6. SequenceTypes'
  BY DEF EventInv, SequenceTypes
<1>7. EmissionTypes'
  BY <1>3, <1>4, <1>5 DEF EventInv, EmissionTypes, Waiting
<1>8. /\ \A e \in ToSet(Readable) \cup ToSet(ring) \cup ToSet(sent) : e.id \in Nat
      /\ \A u \in Task : emit[u] # NULL => emit[u].ev.id \in Nat
  <2>1. \A e \in ToSet(Readable) \cup ToSet(ring) \cup ToSet(sent) : e \in Event
    BY ReadableLines, InToSet DEF EventInv, SequenceTypes
  <2>2. \A e \in Event : e.id \in Nat
    BY EventBounds DEF Event, Id
  <2> QED BY <2>1, <2>2, EmittedType DEF EventInv, EmissionTypes, Waiting
<1>9. /\ \A e \in ToSet(Readable) \cup ToSet(ring) \cup ToSet(sent) :
            e.id <= next_event_id + 1 /\ e.id # next_event_id + 1
      /\ \A u \in Task : emit[u] # NULL => /\ emit[u].ev.id <= next_event_id + 1
                                           /\ emit[u].ev.id # next_event_id + 1
  BY <1>1, <1>8 DEF EventInv, IdsCovered, Waiting
<1>10. IdsCovered'
  <2>1. \A u \in Task : emit'[u] # NULL => emit'[u].ev.id <= next_event_id'
    BY <1>1, <1>4, <1>5, <1>9
  <2> QED BY <1>9, <1>r, <2>1 DEF IdsCovered, Waiting
<1>11. IdsOnce'
  <2>1. \A u, v \in Task : emit'[u] # NULL /\ emit'[v] # NULL /\ emit'[u].ev.id = emit'[v].ev.id => u = v
    BY <1>1, <1>4, <1>5, <1>9 DEF EventInv, IdsOnce, Waiting
  <2>2. \A u \in Task : emit'[u] # NULL /\ emit'[u].at \in Unwritten
                          => \A e \in ToSet(Readable) : e.id # emit'[u].ev.id
    BY <1>1, <1>4, <1>5, <1>9 DEF EventInv, IdsOnce, Waiting
  <2> QED BY <1>r, <2>1, <2>2 DEF EventInv, IdsOnce, Waiting
<1>12. FileFirst'
  <2>1. \A id : Glued(id)' <=> Glued(id)
    BY DEF Glued
  <2>2. ASSUME NEW u \in Task, emit'[u] # NULL PROVE Filed(emit[u])'
    <3>1. CASE u = t
      BY <1>1, <1>5, <3>1 DEF Filed
    <3>2. CASE u # t
      <4>1. Filed(emit[u]) /\ emit'[u] = emit[u]
        BY <1>4, <2>2, <3>2 DEF EventInv, FileFirst, Waiting
      <4> QED BY <4>1 DEF Filed, Glued
    <3> QED BY <3>1, <3>2
  <2> QED BY <2>1, <2>2 DEF EventInv, FileFirst, Waiting, Glued
<1>13. LinesEnd'
  <2>1. \A u \in Task : Waiting(u) => Waiting(u)' /\ emit'[u] = emit[u]
    BY <1>4 DEF Waiting
  <2> QED BY <2>1 DEF EventInv, LinesEnd
<1> QED BY <1>6, <1>7, <1>10, <1>11, <1>12, <1>13 DEF EventInv

-----------------------------------------------------------------------------
\* A new session has no events.
LEMMA EventInvInit == Init => EventInv
<1> SUFFICES ASSUME Init PROVE EventInv
  OBVIOUS
<1>1. /\ next_event_id = 0 /\ log = <<>> /\ unfinished = <<>> /\ ring = <<>> /\ sent = <<>> /\ pushed = <<>>
      /\ ring_size \in RingSizes /\ emit = [t \in Task |-> NULL] /\ faults = 0
  BY DEF Init
<1>2. /\ log \in Seq(Event) /\ ring \in Seq(Event) /\ sent \in Seq(Event)
      /\ unfinished \in Seq(Event \cup {NULL}) /\ pushed \in Seq(Push)
      /\ ToSet(log) = {} /\ ToSet(ring) = {} /\ ToSet(sent) = {} /\ Len(log) = 0
  BY <1>1 DEF ToSet
<1>3. \A t \in Task : ~Waiting(t)
  BY <1>1 DEF Waiting
<1>4. Readable = log
  BY <1>1, <1>2, ReadableLines
<1> QED BY <1>1, <1>2, <1>3, <1>4
        DEF EventInv, SequenceTypes, EmissionTypes, IdsCovered, IdsOnce, FileFirst, LinesEnd

\* The fields of an emission that goes on.
LEMMA EmissionFields ==
  ASSUME NEW e \in Emission, NEW at \in EmitAt, NEW size \in RingSizes, NEW alone \in BOOLEAN
  PROVE  /\ LET x == [ev |-> e.ev, at |-> at, size |-> size, alone |-> alone]
            IN  x \in Emission /\ x.ev = e.ev /\ x.at = at /\ x.alone = alone
         /\ LET x == [e EXCEPT !.at = at]
            IN  x \in Emission /\ x.ev = e.ev /\ x.at = at /\ x.alone = e.alone
         /\ LET x == [e EXCEPT !.at = at, !.alone = alone]
            IN  x \in Emission /\ x.ev = e.ev /\ x.at = at /\ x.alone = alone
         /\ LET x == [e EXCEPT !.at = at, !.size = size]
            IN  x \in Emission /\ x.ev = e.ev /\ x.at = at /\ x.alone = e.alone
         /\ LET x == [e EXCEPT !.alone = alone]
            IN  x \in Emission /\ x.ev = e.ev /\ x.at = e.at /\ x.alone = alone
  BY DEF Emission

\* A piece is written: what could be read before still can, unless the piece spoils it; the
\* other emissions are what they were, and one that waits for its newline is not alone.
LEMMA Written ==
  ASSUME EventInv, NEW t \in Task, NEW piece \in Event \cup {NULL}, NEW x, Write(t, piece, x),
         UNCHANGED log
  PROVE  /\ unfinished' \in Seq(Event \cup {NULL}) /\ Readable' \in Seq(Event)
         /\ unfinished = <<>> => /\ unfinished' = <<piece>>
                                 /\ Readable' = IF piece # NULL THEN Append(log, piece) ELSE log
         /\ unfinished # <<>> => Readable' = log
         /\ DOMAIN emit' = Task /\ emit'[t] = x
         /\ \A u \in Task : u # t =>
               \/ emit'[u] = emit[u] /\ ~(Waiting(u) /\ emit[u].at = "newline")
               \/ /\ Waiting(u) /\ emit[u].at = "newline" /\ emit'[u] \in Emission
                  /\ emit'[u].ev = emit[u].ev /\ emit'[u].at = "newline" /\ ~emit'[u].alone
<1>1. /\ unfinished' = Append(unfinished, piece)
      /\ emit' = [u \in Task |-> IF u = t THEN x
                    ELSE IF emit[u] # NULL /\ emit[u].at = "newline" THEN [emit[u] EXCEPT !.alone = FALSE]
                    ELSE emit[u]]
  BY DEF Write
<1>2. unfinished \in Seq(Event \cup {NULL}) /\ log \in Seq(Event) /\ Len(unfinished) \in Nat
  BY DEF EventInv, SequenceTypes
<1>3. /\ unfinished' \in Seq(Event \cup {NULL}) /\ Len(unfinished') = Len(unfinished) + 1
      /\ unfinished'[Len(unfinished) + 1] = piece
  BY <1>1, <1>2, AppendProperties
<1>4. unfinished # <<>> => Len(unfinished) # 0
  BY <1>2
<1>5. unfinished # <<>> => ~IsEvent(unfinished')
  BY <1>2, <1>3, <1>4 DEF IsEvent
<1>6. unfinished = <<>> => unfinished' = <<piece>>
  BY <1>1
<1>7. unfinished = <<>> => (IsEvent(unfinished') <=> piece # NULL) /\ unfinished'[1] = piece
  BY <1>3, <1>6 DEF IsEvent
<1>8. /\ unfinished = <<>> => Readable' = IF piece # NULL THEN Append(log, piece) ELSE log
      /\ unfinished # <<>> => Readable' = log
  BY <1>5, <1>7 DEF Readable
<1>9. Readable' \in Seq(Event)
  BY <1>2, <1>8, AppendProperties
<1>10. ASSUME NEW u \in Task, u # t
       PROVE  \/ emit'[u] = emit[u] /\ ~(Waiting(u) /\ emit[u].at = "newline")
              \/ /\ Waiting(u) /\ emit[u].at = "newline" /\ emit'[u] \in Emission
                 /\ emit'[u].ev = emit[u].ev /\ emit'[u].at = "newline" /\ ~emit'[u].alone
  <2>1. CASE Waiting(u) /\ emit[u].at = "newline"
    <3>1. emit'[u] = [emit[u] EXCEPT !.alone = FALSE] /\ emit[u] \in Emission
      BY <1>1, <1>10, <2>1 DEF EventInv, EmissionTypes, Waiting
    <3>2. emit'[u] \in Emission /\ emit'[u].ev = emit[u].ev /\ emit'[u].at = emit[u].at /\ ~emit'[u].alone
      BY <3>1 DEF Emission
    <3> QED BY <2>1, <3>2
  <2>2. CASE ~(Waiting(u) /\ emit[u].at = "newline")
    BY <1>1, <1>10, <2>2 DEF Waiting
  <2> QED BY <2>1, <2>2
<1> QED BY <1>1, <1>3, <1>6, <1>8, <1>9, <1>10

\* An event is added to the lines that could be read, none of which has its id.
LEMMA OnceMore ==
  ASSUME NEW s \in Seq(Event), NEW e \in Event, \A d \in ToSet(s) : d.id # e.id,
         \A i, j \in 1..Len(s) : s[i].id = s[j].id => i = j
  PROVE  \A i, j \in 1..Len(Append(s, e)) : Append(s, e)[i].id = Append(s, e)[j].id => i = j
<1> DEFINE r == Append(s, e)
<1>1. /\ Len(r) = Len(s) + 1 /\ r[Len(s) + 1] = e /\ Len(s) \in Nat
      /\ \A k \in 1..Len(s) : r[k] = s[k] /\ s[k] \in ToSet(s)
  BY AppendProperties, InToSet
<1> HIDE DEF r
<1>2. \A k \in 1..Len(s) : r[k].id # e.id
  BY <1>1
<1>3. \A k \in 1..Len(r) : k = Len(s) + 1 \/ k \in 1..Len(s)
  BY <1>1
<1>4. \A i, j \in 1..Len(r) : r[i].id = r[j].id => i = j
  BY <1>1, <1>2, <1>3
<1> QED BY <1>4 DEF r

\* The lines that could be read before are still read once each.
LEMMA LogOnce ==
  ASSUME EventInv
  PROVE  /\ \A i, j \in 1..Len(log) : log[i].id = log[j].id => i = j
         /\ ToSet(log) \subseteq ToSet(Readable)
<1>1. /\ \A i \in 1..Len(log) : i \in 1..Len(Readable) /\ Readable[i] = log[i]
      /\ ToSet(log) \subseteq ToSet(Readable)
  BY ReadableLines DEF EventInv, SequenceTypes
<1> QED BY <1>1 DEF EventInv, IdsOnce

\* What an emission has filed stays filed while lines and pushes are only added, and what is
\* behind the last newline stays there.
LEMMA FiledStays ==
  ASSUME NEW x, Filed(x), ToSet(log) \subseteq ToSet(log'),
         \A id : Glued(id) => Glued(id)',
         x.at = "newline" /\ x.alone /\ unfinished = <<Emitted(x.ev)>>
           => Emitted(x.ev) \in ToSet(log') \/ unfinished' = <<Emitted(x.ev)>>
  PROVE  Filed(x)'
BY DEF Filed

\* An emission goes on, or ends, without a change to the file, the ring or the channel.
LEMMA EmissionGoesOn ==
  ASSUME EventInv, NEW t \in Task, Waiting(t), NEW x, emit' = [emit EXCEPT ![t] = x],
         UNCHANGED <<next_event_id, ring_size, log, unfinished, ring, sent, pushed>>,
         faults' \in Nat, faults' = 0 => faults = 0 /\ emit[t].at # "newline",
         x # NULL => /\ x \in Emission /\ x.ev = emit[t].ev /\ Filed(x)
                     /\ x.at \in Unwritten => emit[t].at \in Unwritten
  PROVE  EventInv'
<1>1. DOMAIN emit' = Task /\ emit'[t] = x /\ \A u \in Task : u # t => emit'[u] = emit[u]
  BY DEF EventInv, EmissionTypes
<1>2. Readable' = Readable /\ SequenceTypes' /\ \A id : Glued(id) => Glued(id)'
  BY DEF Readable, IsEvent, EventInv, SequenceTypes, Glued
<1>3. FileFirst'
  <2>1. ASSUME NEW u \in Task, emit'[u] # NULL PROVE Filed(emit[u])'
    <3>1. PICK y : y = emit'[u] /\ Filed(y)
      BY <1>1, <2>1 DEF EventInv, FileFirst, Waiting
    <3>2. Filed(y)'
      BY <1>2, <3>1, FiledStays
    <3> QED BY <3>1, <3>2 DEF Filed
  <2> QED BY <1>2, <2>1 DEF EventInv, FileFirst, Waiting
<1>4. LinesEnd'
  BY <1>1 DEF EventInv, LinesEnd, Waiting
<1>5. \A i, j \in 1..Len(Readable') : Readable'[i].id = Readable'[j].id => i = j
  BY <1>2 DEF EventInv, IdsOnce
<1> QED BY <1>1, <1>2, <1>3, <1>4, <1>5, EmissionMoves

\* append_event: the event is written.
LEMMA WriteEventKeeps ==
  ASSUME EventInv, NEW t \in Task, WriteEvent(t)
  PROVE  EventInv'
<1> DEFINE E == Emitted(emit[t].ev)
           one == unfinished = <<>>
           x == [emit[t] EXCEPT !.at = "newline", !.alone = one]
<1>1. /\ Waiting(t) /\ emit[t].at = "append" /\ Write(t, E, x)
      /\ UNCHANGED <<faults, next_event_id, log, ring, ring_size, sent, pushed>>
  BY DEF WriteEvent, Waiting
<1>2. emit[t] \in Emission /\ E \in Event /\ E # NULL /\ E.id = emit[t].ev.id
  BY <1>1, EmittedType, EmittedFields DEF EventInv, EmissionTypes
<1>3. x \in Emission /\ x.ev = emit[t].ev /\ x.at = "newline" /\ x.alone = one
  <2>1. one \in BOOLEAN /\ "newline" \in EmitAt
    BY DEF EmitAt
  <2> HIDE DEF one
  <2> QED BY <1>2, <2>1 DEF Emission
<1>4. Emitted(x.ev) = E
  BY <1>3
<1> HIDE DEF E, x
<1>5. /\ unfinished' \in Seq(Event \cup {NULL}) /\ Readable' \in Seq(Event)
      /\ unfinished = <<>> => unfinished' = <<E>> /\ Readable' = Append(log, E)
      /\ unfinished # <<>> => Readable' = log
      /\ DOMAIN emit' = Task /\ emit'[t] = x
      /\ \A u \in Task : u # t =>
            \/ emit'[u] = emit[u] /\ ~(Waiting(u) /\ emit[u].at = "newline")
            \/ /\ Waiting(u) /\ emit[u].at = "newline" /\ emit'[u] \in Emission
               /\ emit'[u].ev = emit[u].ev /\ emit'[u].at = "newline" /\ ~emit'[u].alone
  BY <1>1, <1>2, Written
<1>6. SequenceTypes'
  BY <1>1, <1>5 DEF EventInv, SequenceTypes
<1>7. /\ log \in Seq(Event) /\ ToSet(log) \subseteq ToSet(Readable)
      /\ \A i, j \in 1..Len(log) : log[i].id = log[j].id => i = j
      /\ \A d \in ToSet(log) : d.id # E.id
  BY <1>1, <1>2, LogOnce DEF EventInv, SequenceTypes, IdsOnce, Unwritten
<1>8. /\ ToSet(Readable') \subseteq ToSet(Readable) \cup {E}
      /\ \A i, j \in 1..Len(Readable') : Readable'[i].id = Readable'[j].id => i = j
  <2>1. CASE unfinished = <<>>
    <3>1. Readable' = Append(log, E)
      BY <1>5, <2>1
    <3>2. ToSet(Append(log, E)) = ToSet(log) \cup {E}
      BY <1>2, <1>7, ToSetAppend
    <3>3. \A i, j \in 1..Len(Append(log, E)) : Append(log, E)[i].id = Append(log, E)[j].id => i = j
      BY <1>2, <1>7, OnceMore
    <3> QED BY <1>7, <3>1, <3>2, <3>3
  <2>2. CASE unfinished # <<>>
    BY <1>5, <1>7, <2>2
  <2> QED BY <2>1, <2>2
<1>9. \A id : Glued(id) => Glued(id)'
  BY <1>1 DEF Glued
<1>10. FileFirst'
  <2>1. ASSUME NEW u \in Task, emit'[u] # NULL PROVE Filed(emit[u])'
    <3>1. CASE u = t
      <4>1. PICK y : y = emit'[u] /\ y.at = "newline" /\ (y.alone => unfinished' = <<Emitted(y.ev)>>)
        BY <1>3, <1>4, <1>5, <3>1 DEF one
      <4> QED BY <4>1 DEF Filed
    <3>2. CASE u # t
      <4>1. PICK y : y = emit'[u]
        OBVIOUS
      <4>2. CASE y = emit[u] /\ y.at # "newline"
        <5>1. Filed(y)
          BY <2>1, <4>1, <4>2 DEF EventInv, FileFirst, Waiting
        <5>2. Filed(y)'
          BY <1>1, <1>9, <4>2, <5>1, FiledStays
        <5> QED BY <4>1, <5>2 DEF Filed
      <4>3. CASE y.at = "newline" /\ ~y.alone
        BY <4>1, <4>3 DEF Filed
      <4> QED BY <1>5, <2>1, <3>2, <4>1, <4>2, <4>3 DEF Waiting
    <3> QED BY <3>1, <3>2
  <2> QED BY <1>1, <1>9, <2>1 DEF EventInv, FileFirst, Waiting
<1>11. LinesEnd'
  <2>1. emit'[t] # NULL /\ emit'[t].at = "newline"
    BY <1>3, <1>5, NothingIsNull
  <2> QED BY <1>1, <2>1 DEF EventInv, LinesEnd, Waiting
<1>12. x.at \notin Unwritten
  BY <1>3 DEF Unwritten
<1> QED BY <1>1, <1>3, <1>5, <1>6, <1>8, <1>10, <1>11, <1>12, EmissionMoves DEF E

\* append_event: the newline.  What could be read is now in finished lines.
LEMMA FinishLineKeeps ==
  ASSUME EventInv, NEW t \in Task, FinishLine(t)
  PROVE  EventInv'
<1> DEFINE E == Emitted(emit[t].ev)
           x == [emit[t] EXCEPT !.at = "push", !.size = ring_size]
<1>1. /\ Waiting(t) /\ emit[t].at = "newline" /\ log' = Readable /\ unfinished' = <<>>
      /\ UNCHANGED <<faults, next_event_id, ring, ring_size, sent, pushed>>
  BY DEF FinishLine, Waiting, Readable
<1>2. /\ emit[t] \in Emission /\ E \in Event /\ ring_size \in RingSizes
      /\ log \in Seq(Event) /\ unfinished \in Seq(Event \cup {NULL})
  BY <1>1, EmittedType DEF EventInv, EmissionTypes, SequenceTypes
<1>3. x \in Emission /\ x.ev = emit[t].ev /\ x.at = "push" /\ x.alone = emit[t].alone
  <2>1. "push" \in EmitAt
    BY DEF EmitAt
  <2> QED BY <1>2, <2>1 DEF Emission
<1>4. DOMAIN emit' = Task /\ emit'[t] = x /\ \A u \in Task : u # t => emit'[u] = emit[u]
  BY DEF FinishLine, EventInv, EmissionTypes
<1> HIDE DEF x
<1>5. Readable \in Seq(Event) /\ ToSet(log) \subseteq ToSet(log')
  BY <1>1, <1>2, ReadableLines
<1>6. Readable' = Readable
  <2>1. ~IsEvent(<<>>)
    BY DEF IsEvent
  <2> QED BY <1>1, <2>1 DEF Readable
<1>7. SequenceTypes'
  BY <1>1, <1>5 DEF EventInv, SequenceTypes
<1>8. ASSUME NEW e \in Event, unfinished = <<e>> PROVE e \in ToSet(log')
  <2>1. IsEvent(unfinished) /\ unfinished[1] = e
    BY <1>8, NothingIsNull DEF IsEvent
  <2>2. log' = Append(log, e)
    BY <1>1, <2>1 DEF Readable
  <2> QED BY <1>2, <2>2, ToSetAppend
<1>9. \A id : Glued(id) => Glued(id)'
  BY <1>1 DEF Glued
<1>10. FileFirst'
  <2>1. ASSUME NEW u \in Task, emit'[u] # NULL PROVE Filed(emit[u])'
    <3>1. CASE u = t
      <4>1. Filed(emit[t])
        BY <1>1 DEF EventInv, FileFirst
      <4>2. E.durable /\ emit[t].alone => E \in ToSet(log) \/ unfinished = <<E>>
        BY <1>1, <4>1 DEF Filed
      <4>3. E.durable /\ emit[t].alone => E \in ToSet(log')
        BY <1>2, <1>5, <1>8, <4>2
      <4>4. PICK y : /\ y = emit'[u] /\ y.at = "push"
                     /\ Emitted(y.ev).durable /\ y.alone => Emitted(y.ev) \in ToSet(log')
        BY <1>3, <1>4, <3>1, <4>3
      <4> QED BY <4>4 DEF Filed
    <3>2. CASE u # t
      <4>1. PICK y : y = emit'[u] /\ Filed(y) /\ Emitted(y.ev) \in Event
        BY <1>4, <2>1, <3>2, EmittedType DEF EventInv, EmissionTypes, FileFirst, Waiting
      <4>2. Filed(y)'
        BY <1>5, <1>8, <1>9, <4>1, FiledStays
      <4> QED BY <4>1, <4>2 DEF Filed
    <3> QED BY <3>1, <3>2
  <2> QED BY <1>1, <1>5, <1>9, <2>1 DEF EventInv, FileFirst, Waiting
<1>11. LinesEnd'
  BY <1>1 DEF EventInv, LinesEnd
<1>12. x.at \notin Unwritten
  BY <1>3 DEF Unwritten
<1>13. \A i, j \in 1..Len(Readable') : Readable'[i].id = Readable'[j].id => i = j
  BY <1>6 DEF EventInv, IdsOnce
<1> QED BY <1>1, <1>3, <1>4, <1>6, <1>7, <1>10, <1>11, <1>12, <1>13, EmissionMoves DEF E

\* append_event fails, perhaps after a part of the event was written.
LEMMA AppendFailsKeeps ==
  ASSUME EventInv, NEW t \in Task, AppendFails(t)
  PROVE  EventInv'
<1>1. /\ Waiting(t) /\ UNCHANGED <<next_event_id, log, ring, ring_size, sent, pushed>>
      /\ faults' \in Nat /\ faults' # 0
  BY DEF AppendFails, Waiting, Fault, EventInv, LinesEnd
<1>2. CASE emit' = [emit EXCEPT ![t] = NULL] /\ UNCHANGED unfinished
  BY <1>1, <1>2, EmissionGoesOn
<1>3. CASE Write(t, NULL, NULL)
  <2>1. /\ unfinished' \in Seq(Event \cup {NULL}) /\ Readable' \in Seq(Event) /\ Readable' = log
        /\ DOMAIN emit' = Task /\ emit'[t] = NULL
        /\ \A u \in Task : u # t =>
              \/ emit'[u] = emit[u] /\ ~(Waiting(u) /\ emit[u].at = "newline")
              \/ /\ Waiting(u) /\ emit[u].at = "newline" /\ emit'[u] \in Emission
                 /\ emit'[u].ev = emit[u].ev /\ emit'[u].at = "newline" /\ ~emit'[u].alone
    BY <1>1, <1>3, Written
  <2>2. SequenceTypes' /\ LinesEnd'
    BY <1>1, <2>1 DEF EventInv, SequenceTypes, LinesEnd
  <2>3. /\ ToSet(Readable') \subseteq ToSet(Readable)
        /\ \A i, j \in 1..Len(Readable') : Readable'[i].id = Readable'[j].id => i = j
    BY <2>1, LogOnce
  <2>4. \A id : Glued(id) => Glued(id)'
    BY <1>1 DEF Glued
  <2>5. FileFirst'
    <3>1. ASSUME NEW u \in Task, emit'[u] # NULL PROVE Filed(emit[u])'
      <4>1. PICK y : y = emit'[u]
        OBVIOUS
      <4>2. CASE y = emit[u] /\ y.at # "newline"
        <5>1. Filed(y)
          BY <3>1, <4>1, <4>2 DEF EventInv, FileFirst, Waiting
        <5>2. Filed(y)'
          BY <1>1, <2>4, <4>2, <5>1, FiledStays
        <5> QED BY <4>1, <5>2 DEF Filed
      <4>3. CASE y.at = "newline" /\ ~y.alone
        BY <4>1, <4>3 DEF Filed
      <4> QED BY <2>1, <3>1, <4>1, <4>2, <4>3 DEF Waiting
    <3> QED BY <1>1, <2>4, <3>1 DEF EventInv, FileFirst, Waiting
  <2> QED BY <1>1, <2>1, <2>2, <2>3, <2>5, EmissionMoves
<1> QED BY <1>2, <1>3 DEF AppendFails

\* The event goes into the ring.
LEMMA PushRingKeeps ==
  ASSUME EventInv, NEW t \in Task, PushRing(t)
  PROVE  EventInv'
<1> DEFINE E == Emitted(emit[t].ev)
           x == [emit[t] EXCEPT !.at = "send"]
           p == [id |-> emit[t].ev.id, kept |-> emit[t].size > 0, alone |-> emit[t].alone]
<1>1. /\ Waiting(t) /\ emit[t].at = "push"
      /\ UNCHANGED <<faults, next_event_id, log, unfinished, ring_size, sent>>
      /\ emit' = [emit EXCEPT ![t] = x] /\ pushed' = Append(pushed, p)
      /\ ring' = IF emit[t].size > 0 THEN LastOf(Append(ring, E), emit[t].size) ELSE ring
  BY DEF PushRing, Waiting, file
<1>2. /\ emit[t] \in Emission /\ E \in Event /\ E.id = emit[t].ev.id /\ emit[t].size \in Nat
      /\ emit[t].alone \in BOOLEAN
  BY <1>1, EmittedType, EmittedFields DEF EventInv, EmissionTypes
<1>3. x \in Emission /\ x.ev = emit[t].ev /\ x.at = "send"
  BY <1>2 DEF Emission, EmitAt
<1>4. DOMAIN emit' = Task /\ emit'[t] = x /\ \A u \in Task : u # t => emit'[u] = emit[u]
  BY <1>1 DEF EventInv, EmissionTypes
<1>5. p \in Push /\ p.id = E.id /\ p.alone = emit[t].alone
  <2>1. emit[t].ev.id \in Id
    BY <1>2 DEF Emission
  <2>2. (emit[t].size > 0) \in BOOLEAN
    BY <1>2
  <2> QED BY <1>2, <2>1, <2>2 DEF Push
<1> HIDE DEF p, x, E
<1>6. /\ pushed \in Seq(Push) /\ pushed' \in Seq(Push) /\ Len(pushed') = Len(pushed) + 1
      /\ Len(pushed) \in Nat /\ pushed'[Len(pushed) + 1] = p
      /\ \A i \in 1..Len(pushed) : i \in 1..Len(pushed') /\ pushed'[i] = pushed[i]
  BY <1>1, <1>5, AppendProperties DEF EventInv, SequenceTypes
<1>7. /\ \A id : Glued(id) => Glued(id)'
      /\ ~emit[t].alone => \A id : id = E.id => Glued(id)'
  <2>1. \A id : Glued(id) => Glued(id)'
    BY <1>6 DEF Glued
  <2>2. Len(pushed) + 1 \in 1..Len(pushed')
    BY <1>6
  <2>3. ASSUME ~emit[t].alone PROVE \A id : id = E.id => Glued(id)'
    BY <1>5, <1>6, <2>2, <2>3 DEF Glued
  <2> QED BY <2>1, <2>3
<1>8. ring' \in Seq(Event) /\ ToSet(ring') \subseteq ToSet(ring) \cup {E}
  <2>1. ring \in Seq(Event)
    BY DEF EventInv, SequenceTypes
  <2>2. Append(ring, E) \in Seq(Event) /\ ToSet(Append(ring, E)) = ToSet(ring) \cup {E}
    BY <1>2, <2>1, ToSetAppend
  <2>3. /\ LastOf(Append(ring, E), emit[t].size) \in Seq(Event)
        /\ ToSet(LastOf(Append(ring, E), emit[t].size)) \subseteq ToSet(ring) \cup {E}
    BY <1>2, <2>2, LastOfProperties
  <2> QED BY <1>1, <2>1, <2>3
<1>9. SequenceTypes' /\ Readable' = Readable
  BY <1>1, <1>6, <1>8 DEF EventInv, SequenceTypes, Readable, IsEvent
<1>10. E.durable => E \in ToSet(log) \/ \A id : id = E.id => Glued(id)'
  BY <1>1, <1>7 DEF EventInv, FileFirst, Filed, E
<1>11. FileFirst'
  <2>1. ASSUME NEW u \in Task, emit'[u] # NULL PROVE Filed(emit[u])'
    <3>1. CASE u = t
      <4>1. PICK y : y = emit'[u] /\ y.at = "send" /\ Emitted(y.ev) = E /\ y.ev.id = E.id
        BY <1>2, <1>3, <1>4, <3>1 DEF E
      <4> QED BY <1>1, <1>10, <4>1 DEF Filed
    <3>2. CASE u # t
      <4>1. PICK y : y = emit'[u] /\ Filed(y)
        BY <1>4, <2>1, <3>2 DEF EventInv, FileFirst, Waiting
      <4>2. Filed(y)'
        BY <1>1, <1>7, <4>1, FiledStays
      <4> QED BY <4>1, <4>2 DEF Filed
    <3> QED BY <3>1, <3>2
  <2>2. ASSUME NEW e \in ToSet(ring') \cup ToSet(sent'), e.durable PROVE e \in ToSet(log') \/ Glued(e.id)'
    <3>1. PICK id : id = e.id
      OBVIOUS
    <3>2. e \in ToSet(log') \/ Glued(id)'
      <4>1. CASE e = E
        BY <1>1, <1>10, <2>2, <3>1, <4>1
      <4>2. CASE e # E
        <5>1. e \in ToSet(ring) \cup ToSet(sent)
          BY <1>1, <1>8, <2>2, <4>2
        <5> QED BY <1>1, <1>7, <2>2, <3>1, <5>1 DEF EventInv, FileFirst
      <4> QED BY <4>1, <4>2
    <3> QED BY <3>1, <3>2
  <2> QED BY <2>1, <2>2 DEF FileFirst, Waiting
<1>12. LinesEnd'
  BY <1>1, <1>4 DEF EventInv, LinesEnd, Waiting
<1>13. x.at \notin Unwritten
  BY <1>3 DEF Unwritten
<1>14. \A i, j \in 1..Len(Readable') : Readable'[i].id = Readable'[j].id => i = j
  BY <1>9 DEF EventInv, IdsOnce
<1> QED BY <1>1, <1>3, <1>4, <1>8, <1>9, <1>11, <1>12, <1>13, <1>14, EmissionMoves DEF E

\* The event is sent.
LEMMA SendEventKeeps ==
  ASSUME EventInv, NEW t \in Task, SendEvent(t)
  PROVE  EventInv'
<1> DEFINE E == Emitted(emit[t].ev)
           x == IF emit[t].ev.kind = "message" THEN [emit[t] EXCEPT !.at = "settle"] ELSE NULL
<1>1. /\ Waiting(t) /\ emit[t].at = "send"
      /\ UNCHANGED <<faults, next_event_id, log, unfinished, ring, ring_size, pushed>>
      /\ emit' = [emit EXCEPT ![t] = x] /\ sent' = Append(sent, E)
  BY DEF SendEvent, Waiting, file
<1>2. emit[t] \in Emission /\ E \in Event /\ E.id = emit[t].ev.id
  BY <1>1, EmittedType, EmittedFields DEF EventInv, EmissionTypes
<1>3. x # NULL => x \in Emission /\ x.ev = emit[t].ev /\ x.at = "settle"
  BY <1>2 DEF Emission, EmitAt
<1>4. DOMAIN emit' = Task /\ emit'[t] = x /\ \A u \in Task : u # t => emit'[u] = emit[u]
  BY <1>1 DEF EventInv, EmissionTypes
<1> HIDE DEF x, E
<1>5. sent' \in Seq(Event) /\ ToSet(sent') = ToSet(sent) \cup {E}
  BY <1>1, <1>2, ToSetAppend DEF EventInv, SequenceTypes
<1>6. SequenceTypes' /\ Readable' = Readable /\ \A id : Glued(id)' <=> Glued(id)
  BY <1>1, <1>5 DEF EventInv, SequenceTypes, Readable, IsEvent, Glued
<1>7. E.durable => E \in ToSet(log) \/ Glued(E.id)
  BY <1>1, <1>2 DEF EventInv, FileFirst, Filed, E
<1>8. FileFirst'
  <2>1. ASSUME NEW u \in Task, emit'[u] # NULL PROVE Filed(emit[u])'
    <3>1. CASE u = t
      BY <1>3, <1>4, <2>1, <3>1 DEF Filed
    <3>2. CASE u # t
      <4>1. PICK y : y = emit'[u] /\ Filed(y)
        BY <1>4, <2>1, <3>2 DEF EventInv, FileFirst, Waiting
      <4>2. Filed(y)'
        BY <1>1, <1>6, <4>1, FiledStays
      <4> QED BY <4>1, <4>2 DEF Filed
    <3> QED BY <3>1, <3>2
  <2>2. \A e \in ToSet(ring) \cup ToSet(sent') : e.durable => e \in ToSet(log) \/ Glued(e.id)
    BY <1>5, <1>7 DEF EventInv, FileFirst
  <2> QED BY <1>1, <2>1, <2>2 DEF FileFirst, Waiting, Glued
<1>9. LinesEnd'
  BY <1>1, <1>4 DEF EventInv, LinesEnd, Waiting
<1>10. x # NULL => x.at \notin Unwritten
  BY <1>3 DEF Unwritten
<1>11. \A i, j \in 1..Len(Readable') : Readable'[i].id = Readable'[j].id => i = j
  BY <1>6 DEF EventInv, IdsOnce
<1> QED BY <1>1, <1>3, <1>4, <1>5, <1>6, <1>8, <1>9, <1>10, <1>11, EmissionMoves DEF E

\* The steps of one emission.
LEMMA EmissionSteps ==
  ASSUME EventInv, NEW t \in Task,
         \/ t = "worker" /\ (ApplySnapshot \/ SettleMessage)
         \/ Emit(t)
  PROVE  EventInv'
<1>1. CASE t = "worker" /\ ApplySnapshot
  <2> DEFINE E == Emitted(emit[t].ev)
             at == IF emit[t].ev.kind \notin Ephemeral THEN "append" ELSE "push"
             x == [ev |-> emit[t].ev, at |-> at, size |-> ring_size, alone |-> TRUE]
  <2>1. /\ UNCHANGED <<next_event_id, ring_size, log, unfinished, ring, sent, pushed, faults>>
        /\ emit[t].at = "apply" /\ emit' = [emit EXCEPT ![t] = x] /\ Waiting(t)
    BY <1>1 DEF ApplySnapshot, published, file, Enter, Waiting
  <2>2. emit[t] \in Emission /\ ring_size \in RingSizes /\ E.durable = (emit[t].ev.kind \notin Ephemeral)
    BY <2>1, EmittedFields DEF EventInv, EmissionTypes, SequenceTypes
  <2>3. at \in EmitAt /\ (E.durable => at = "append") /\ at # "newline" /\ at # "send"
    BY <2>2 DEF EmitAt
  <2>4. x \in Emission /\ x.ev = emit[t].ev /\ x.at = at
    <3> HIDE DEF at
    <3> QED BY <2>2, <2>3, EmissionFields
  <2> HIDE DEF x, at
  <2>5. Filed(x)
    BY <2>3, <2>4 DEF Filed
  <2>6. emit[t].at \in Unwritten /\ emit[t].at # "newline" /\ faults' \in Nat
    BY <2>1 DEF Unwritten, EventInv, LinesEnd
  <2> QED BY <2>1, <2>4, <2>5, <2>6, EmissionGoesOn
<1>2. CASE t = "worker" /\ SettleMessage
  <2>1. /\ UNCHANGED <<next_event_id, ring_size, log, unfinished, ring, sent, pushed, faults>>
        /\ emit[t].at = "settle" /\ emit' = [emit EXCEPT ![t] = NULL] /\ Waiting(t) /\ faults' \in Nat
    BY <1>2 DEF SettleMessage, published, file, Waiting, EventInv, LinesEnd
  <2> QED BY <2>1, EmissionGoesOn
<1> QED BY <1>1, <1>2, WriteEventKeeps, FinishLineKeeps, AppendFailsKeeps, PushRingKeeps, SendEventKeeps DEF Emit

\* read_last_event_id: the highest id in the file.
LEMMA LastLoggedCovers ==
  ASSUME log \in Seq(Event), unfinished \in Seq(Event \cup {NULL})
  PROVE  LastLogged \in Nat /\ \A e \in ToSet(Readable) : e.id <= LastLogged
<1> DEFINE S == {e.id : e \in ToSet(Readable)}
<1>1. \A e \in ToSet(Readable) : e.id \in 0..MaxId
  <2>1. \A e \in ToSet(Readable) : e \in Event
    BY ReadableLines, InToSet
  <2>2. \A e \in Event : e.id \in 0..MaxId
    BY EventBounds DEF Event, Id
  <2> QED BY <2>1, <2>2
<1>2. CASE Readable = <<>>
  <2>1. ToSet(Readable) = {}
    BY <1>2 DEF ToSet
  <2> QED BY <1>2, <2>1 DEF LastLogged
<1>3. CASE Readable # <<>>
  <2>1. S \in SUBSET (0..MaxId)
    BY <1>1
  <2>2. S # {}
    <3>1. 1 \in DOMAIN Readable
      BY <1>3, ReadableLines
    <3> QED BY <3>1 DEF ToSet
  <2>3. PICK n \in S : \A y \in S : y <= n
    <3> HIDE DEF S
    <3> QED BY <2>1, <2>2, EventBounds, GreatestElement
  <2>4. \E m \in S : \A e \in ToSet(Readable) : e.id <= m
    BY <2>3
  <2>5. LastLogged = CHOOSE m \in S : \A e \in ToSet(Readable) : e.id <= m
    BY <1>3 DEF LastLogged
  <2>6. LastLogged \in S /\ \A e \in ToSet(Readable) : e.id <= LastLogged
    BY <2>4, <2>5
  <2> QED BY <2>1, <2>6
<1> QED BY <1>2, <1>3

LEMMA EventInvKept == EventInv /\ [Next]_vars => EventInv'
<1> SUFFICES ASSUME EventInv, [Next]_vars PROVE EventInv'
  OBVIOUS
<1>1. ASSUME UNCHANGED <<next_event_id, log, unfinished, ring, sent, ring_size, emit, pushed, faults>>
      PROVE  EventInv'
  BY <1>1 DEF EventInv, SequenceTypes, EmissionTypes, IdsCovered, IdsOnce, FileFirst, LinesEnd, Filed, Glued,
     Waiting, Readable, IsEvent
<1>2. next_event_id \in Nat /\ MaxId \in Nat /\ MaxShared \in Nat /\ MaxShared <= MaxId
  BY EventBounds DEF EventInv, SequenceTypes
<1>3. ASSUME NEW k \in Kind, AllocAgentEvent(k) PROVE EventInv'
  <2> DEFINE ev == [id |-> next_event_id + 1, kind |-> k]
             x == [ev |-> ev, at |-> "apply", size |-> ring_size, alone |-> TRUE]
  <2>1. /\ UNCHANGED <<log, unfinished, ring, sent, ring_size, pushed, faults>> /\ next_event_id' = next_event_id + 1
        /\ emit' = [emit EXCEPT !["worker"] = x] /\ ~Waiting("worker")
    BY <1>3 DEF AllocAgentEvent, published, file, Enter, Waiting
  <2>2. next_event_id + 1 <= MaxId
    BY <1>2, <1>3 DEF AllocAgentEvent, Room
  <2>3. "worker" \in Task /\ "apply" \in Unwritten
    BY DEF Task, Unwritten
  <2> HIDE DEF ev, x
  <2> QED BY <2>1, <2>2, <2>3, Allocated DEF ev, x
<1>4. CASE AllocHandlerEvent
  <2> DEFINE ev == [id |-> next_event_id + 1, kind |-> "goal"]
             x == [ev |-> ev, at |-> "append", size |-> ring_size, alone |-> TRUE]
  <2>1. /\ UNCHANGED <<log, unfinished, ring, sent, ring_size, pushed, faults>> /\ next_event_id' = next_event_id + 1
        /\ emit' = [emit EXCEPT !["handler"] = x] /\ ~Waiting("handler")
    BY <1>4 DEF AllocHandlerEvent, published, file, Enter, Waiting
  <2>2. next_event_id + 1 <= MaxId
    BY <1>2, <1>4 DEF AllocHandlerEvent
  <2>3. "handler" \in Task /\ "goal" \in Kind /\ "append" \in Unwritten
    BY DEF Task, Kind, Unwritten
  <2> HIDE DEF ev, x
  <2> QED BY <2>1, <2>2, <2>3, Allocated DEF ev, x
<1>5. CASE ApplySnapshot \/ SettleMessage \/ \E t \in Task : Emit(t)
  <2>1. "worker" \in Task
    BY DEF Task
  <2> QED BY <1>5, <2>1, EmissionSteps
<1>6. ASSUME NEW n \in RingSizes, ResizeRing(n) PROVE EventInv'
  <2>1. /\ ring_size' = n /\ ring' = LastOf(ring, n) /\ n \in Nat
        /\ UNCHANGED <<next_event_id, log, unfinished, sent, emit, pushed>> /\ faults' = faults + 1
    BY <1>6, EventBounds DEF ResizeRing, file, Fault
  <2>2. ring' \in Seq(Event) /\ ToSet(ring') \subseteq ToSet(ring)
    BY <2>1, LastOfProperties DEF EventInv, SequenceTypes
  <2>3. Readable' = Readable
    BY <2>1 DEF Readable, IsEvent
  <2>4. SequenceTypes' /\ EmissionTypes' /\ LinesEnd'
    BY <2>1, <2>2 DEF EventInv, SequenceTypes, EmissionTypes, LinesEnd, Waiting
  <2>5. IdsCovered' /\ IdsOnce'
    BY <2>1, <2>2, <2>3 DEF EventInv, IdsCovered, IdsOnce, Waiting
  <2>6. FileFirst'
    BY <2>1, <2>2 DEF EventInv, FileFirst, Filed, Glued, Waiting
  <2> QED BY <2>4, <2>5, <2>6 DEF EventInv
<1>7. CASE Restart
  <2>1. /\ next_event_id' = LastLogged /\ ring' = <<>> /\ sent' = <<>> /\ pushed' = <<>>
        /\ emit' = [t \in Task |-> NULL] /\ UNCHANGED <<log, unfinished, ring_size>>
        /\ faults' \in Nat /\ faults' # 0
    BY <1>7 DEF Restart, file, Fault, EventInv, LinesEnd
  <2>2. LastLogged \in Nat /\ \A e \in ToSet(Readable) : e.id <= LastLogged
    BY LastLoggedCovers DEF EventInv, SequenceTypes
  <2>3. /\ ring' \in Seq(Event) /\ sent' \in Seq(Event) /\ ToSet(ring') = {} /\ ToSet(sent') = {}
        /\ DOMAIN emit' = Task /\ \A t \in Task : emit'[t] = NULL
        /\ pushed' \in Seq(Push)
    BY <2>1 DEF ToSet
  <2>4. Readable' = Readable
    BY <2>1 DEF Readable, IsEvent
  <2> QED BY <2>1, <2>2, <2>3, <2>4
          DEF EventInv, SequenceTypes, EmissionTypes, IdsCovered, IdsOnce, FileFirst, LinesEnd, Waiting
<1>8. ASSUME NEW c \in Clients, ClientStep(c) PROVE EventInv'
  BY <1>1, <1>8 DEF ClientStep, Connect, ReadBacklog, Subscribe, Receive, Lag, Disconnect, published, file
<1>9. CASE UNCHANGED vars
  BY <1>1, <1>9 DEF vars, published, file
<1> QED BY <1>3, <1>4, <1>5, <1>6, <1>7, <1>8, <1>9 DEF Next

\* Whatever emissions interleave, fail or are cut off by a restart: an event that the
\* ring or the channel holds and that is meant to last has a line of its own in
\* events_api.jsonl, unless its append met another; and no event id is taken while a reader
\* can find it (alloc_event_id, append_event and read_last_event_id).
THEOREM SeenIsDurable == Spec => []DurableBeforeVisible
<1>1. EventInv => DurableBeforeVisible
  <2> SUFFICES ASSUME EventInv PROVE DurableBeforeVisible
    OBVIOUS
  <2>1. IsInjective([i \in 1..Len(Readable) |-> Readable[i].id])
    BY DEF EventInv, IdsOnce, IsInjective
  <2> QED BY <2>1 DEF DurableBeforeVisible, EventInv, IdsCovered, FileFirst, LinesEnd, Waiting
<1>2. Spec => []EventInv
  BY EventInvInit, EventInvKept, PTL DEF Spec
<1> QED BY <1>1, <1>2, PTL
-----------------------------------------------------------------------------
(***************************************************************************)
(* The snapshot.  Between the two steps that change it, it still lacks     *)
(* what the event in progress brings, and nothing else.                    *)
(***************************************************************************)
Worker == emit["worker"]
Applying == Worker # NULL /\ Worker.at = "apply"

Parts(o) == {o.thinking, o.assistant, o.tools}
Covered(snap) == \A part \in Parts(snap.out) : \A i \in 1..Len(part) : part[i] <= snap.last

SnapshotInv ==
    /\ output \in Output
    /\ stream = NULL => output = NoOutput
    /\ stream # NULL =>
          /\ stream \in Snapshot /\ Covered(stream)
          /\ stream.started <=> stream.out.assistant # <<>>
          /\ output = IF Applying THEN Produced(stream.out, Worker.ev) ELSE stream.out
    /\ Applying => (Worker.ev.kind \in {"retry", "run_end"} => stream = NULL)

LEMMA OutputFields ==
  ASSUME NEW o \in Output
  PROVE  /\ o.thinking \in Seq(Nat) /\ o.assistant \in Seq(Nat) /\ o.tools \in Seq(Nat)
         /\ o = [thinking |-> o.thinking, assistant |-> o.assistant, tools |-> o.tools]
  BY DEF Output

\* Raising the id of a snapshot changes nothing else, and loses nothing of what it covers.
LEMMA RaiseKeeps ==
  ASSUME NEW s \in Snapshot, NEW id \in Nat, Covered(s)
  PROVE  /\ Raise(s, id) \in Snapshot /\ Raise(s, id).out = s.out
         /\ Raise(s, id).started = s.started /\ Covered(Raise(s, id))
         /\ Raise(s, id).last >= id /\ Raise(s, id).last \in Nat
<1>1. /\ s.last \in Nat /\ s.started \in BOOLEAN /\ s.out \in Output
      /\ Raise(s, id) = [s EXCEPT !.last = IF id > s.last THEN id ELSE s.last]
  BY DEF Snapshot, Raise
<1>2. /\ Raise(s, id) \in Snapshot /\ Raise(s, id).out = s.out /\ Raise(s, id).started = s.started
      /\ Raise(s, id).last = IF id > s.last THEN id ELSE s.last
  BY <1>1 DEF Snapshot
<1>3. \A part \in Parts(s.out) : part \in Seq(Nat)
  BY <1>1, OutputFields DEF Parts
<1>4. Covered(Raise(s, id))
  <2> SUFFICES ASSUME NEW part \in Parts(s.out), NEW i \in 1..Len(part)
               PROVE  part[i] <= Raise(s, id).last
    BY <1>2 DEF Covered
  <2>1. part[i] <= s.last /\ part[i] \in Nat
    BY <1>3 DEF Covered
  <2> QED BY <1>1, <1>2, <2>1
<1> QED BY <1>1, <1>2, <1>4

\* What a tool result leaves of the calls.
LEMMA WithoutCallKeeps ==
  ASSUME NEW calls \in Seq(Nat)
  PROVE  /\ WithoutCall(calls) \in Seq(Nat)
         /\ \A i \in 1..Len(WithoutCall(calls)) :
               \E j \in 1..Len(calls) : WithoutCall(calls)[i] = calls[j]
<1>1. CASE calls = <<>>
  BY <1>1 DEF WithoutCall
<1>2. CASE calls # <<>>
  <2>1. /\ WithoutCall(calls) = Tail(calls) /\ Tail(calls) \in Seq(Nat)
        /\ Len(Tail(calls)) = Len(calls) - 1 /\ Len(calls) \in Nat
        /\ \A i \in 1..Len(Tail(calls)) : Tail(calls)[i] = calls[i + 1]
    BY <1>2 DEF WithoutCall
  <2>2. \A i \in 1..Len(Tail(calls)) : i + 1 \in 1..Len(calls)
    BY <2>1
  <2> QED BY <2>1, <2>2
<1> QED BY <1>1, <1>2
\* The second step gives the snapshot what the event brings.
LEMMA ApplyBrings ==
  ASSUME SnapshotInv, Applying, stream # NULL, Worker.ev \in [id : Id, kind : Kind]
  PROVE  LET s == OnApply(stream, Worker.ev)
         IN  s \in Snapshot /\ Covered(s) /\ s.out = output /\ (s.started <=> s.out.assistant # <<>>)
<1> DEFINE e == Worker.ev
           r == Raise(stream, e.id)
           s == OnApply(stream, e)
<1>1. /\ stream \in Snapshot /\ Covered(stream) /\ output = Produced(stream.out, e)
      /\ stream.started <=> stream.out.assistant # <<>>
      /\ e.kind \notin {"retry", "run_end"} /\ e.kind \in Kind /\ e.id \in Nat
  BY EventBounds DEF SnapshotInv, Id
<1>2. /\ r \in Snapshot /\ r.out = stream.out /\ r.started = stream.started /\ Covered(r)
      /\ r.last >= e.id /\ r.last \in Nat
  BY <1>1, RaiseKeeps
<1>3. /\ r.out \in Output /\ r.started \in BOOLEAN
      /\ r = [last |-> r.last, started |-> r.started, out |-> r.out]
  BY <1>2 DEF Snapshot
<1>4. /\ r.out.thinking \in Seq(Nat) /\ r.out.assistant \in Seq(Nat) /\ r.out.tools \in Seq(Nat)
      /\ \A part \in Parts(r.out) : \A i \in 1..Len(part) : part[i] <= r.last
  BY <1>2, <1>3, OutputFields DEF Covered
<1> HIDE DEF e, r
<1>5. \A part \in Parts(r.out) :
         /\ Append(part, e.id) \in Seq(Nat) /\ Append(part, e.id) # <<>>
         /\ \A i \in 1..Len(Append(part, e.id)) : Append(part, e.id)[i] <= r.last
  <2> SUFFICES ASSUME NEW part \in Parts(r.out)
               PROVE  /\ Append(part, e.id) \in Seq(Nat) /\ Append(part, e.id) # <<>>
                      /\ \A i \in 1..Len(Append(part, e.id)) : Append(part, e.id)[i] <= r.last
    OBVIOUS
  <2>1. part \in Seq(Nat) /\ \A i \in 1..Len(part) : part[i] <= r.last
    BY <1>4 DEF Parts
  <2>2. /\ Append(part, e.id) \in Seq(Nat) /\ Append(part, e.id) # <<>>
        /\ Len(Append(part, e.id)) = Len(part) + 1 /\ Append(part, e.id)[Len(part) + 1] = e.id
        /\ \A i \in 1..Len(part) : Append(part, e.id)[i] = part[i]
    BY <1>1, <2>1, AppendProperties
  <2>3. \A i \in 1..Len(part) + 1 : i = Len(part) + 1 \/ i \in 1..Len(part)
    BY <2>1
  <2> QED BY <1>2, <2>1, <2>2, <2>3
<1>6. s = OnApply(stream, e)
  BY DEF e
<1>7. CASE e.kind = "thinking"
  <2>1. CASE stream.started
    <3>1. s = r
      BY <1>6, <1>7, <2>1 DEF OnApply, r
    <3>2. output = stream.out
      BY <1>1, <1>7, <2>1 DEF Produced
    <3> QED BY <1>1, <1>2, <3>1, <3>2 DEF e
  <2>2. CASE ~stream.started
    <3>1. s = [r EXCEPT !.out.thinking = Append(@, e.id)]
      BY <1>6, <1>7, <2>2 DEF OnApply, r
    <3>2. output = [stream.out EXCEPT !.thinking = Append(@, e.id)]
      BY <1>1, <1>7, <2>2 DEF Produced
    <3>3. /\ s.last = r.last /\ s.started = r.started /\ s.out = output /\ s \in Snapshot
          /\ s.out.thinking = Append(r.out.thinking, e.id)
          /\ s.out.assistant = r.out.assistant /\ s.out.tools = r.out.tools
      BY <1>2, <1>3, <1>4, <1>5, <3>1, <3>2 DEF Snapshot, Output, Parts
    <3>4. Covered(s)
      BY <1>4, <1>5, <3>3 DEF Covered, Parts
    <3> QED BY <1>1, <1>2, <3>3, <3>4 DEF e
  <2> QED BY <2>1, <2>2
<1>8. CASE e.kind = "assistant"
  <2>1. s = [r EXCEPT !.started = TRUE, !.out.assistant = Append(@, e.id)]
    BY <1>1, <1>6, <1>8 DEF OnApply, r
  <2>2. output = [stream.out EXCEPT !.assistant = Append(@, e.id)]
    BY <1>1, <1>8 DEF Produced
  <2>3. /\ s.last = r.last /\ s.started = TRUE /\ s.out = output /\ s \in Snapshot
        /\ s.out.assistant = Append(r.out.assistant, e.id)
        /\ s.out.thinking = r.out.thinking /\ s.out.tools = r.out.tools
    BY <1>2, <1>3, <1>4, <1>5, <2>1, <2>2 DEF Snapshot, Output, Parts
  <2>4. Covered(s)
    BY <1>4, <1>5, <2>3 DEF Covered, Parts
  <2>5. s.out.assistant # <<>>
    BY <1>5, <2>3 DEF Parts
  <2> QED BY <2>3, <2>4, <2>5 DEF e
<1>9. CASE e.kind = "tool_call"
  <2>1. s = [r EXCEPT !.out.tools = Append(@, e.id)]
    BY <1>1, <1>6, <1>9 DEF OnApply, r
  <2>2. output = [stream.out EXCEPT !.tools = Append(@, e.id)]
    BY <1>1, <1>9 DEF Produced
  <2>3. /\ s.last = r.last /\ s.started = r.started /\ s.out = output /\ s \in Snapshot
        /\ s.out.tools = Append(r.out.tools, e.id)
        /\ s.out.thinking = r.out.thinking /\ s.out.assistant = r.out.assistant
    BY <1>2, <1>3, <1>4, <1>5, <2>1, <2>2 DEF Snapshot, Output, Parts
  <2>4. Covered(s)
    BY <1>4, <1>5, <2>3 DEF Covered, Parts
  <2> QED BY <1>1, <1>2, <2>3, <2>4 DEF e
<1>10. CASE e.kind = "tool_result"
  <2>1. s = [r EXCEPT !.out.tools = WithoutCall(@)]
    BY <1>1, <1>6, <1>10 DEF OnApply, r
  <2>2. output = [stream.out EXCEPT !.tools = WithoutCall(@)]
    BY <1>1, <1>10 DEF Produced
  <2>3. /\ WithoutCall(r.out.tools) \in Seq(Nat)
        /\ \A i \in 1..Len(WithoutCall(r.out.tools)) :
              \E j \in 1..Len(r.out.tools) : WithoutCall(r.out.tools)[i] = r.out.tools[j]
    BY <1>4, WithoutCallKeeps
  <2>4. /\ s.last = r.last /\ s.started = r.started /\ s.out = output /\ s \in Snapshot
        /\ s.out.tools = WithoutCall(r.out.tools)
        /\ s.out.thinking = r.out.thinking /\ s.out.assistant = r.out.assistant
    BY <1>2, <1>3, <1>4, <2>1, <2>2, <2>3 DEF Snapshot, Output, Parts
  <2>5. \A i \in 1..Len(WithoutCall(r.out.tools)) : WithoutCall(r.out.tools)[i] <= r.last
    BY <1>4, <2>3 DEF Parts
  <2>6. Covered(s)
    BY <1>4, <2>4, <2>5 DEF Covered, Parts
  <2> QED BY <1>1, <1>2, <2>4, <2>6 DEF e
<1>11. CASE e.kind \notin {"thinking", "assistant", "tool_call", "tool_result"}
  <2>1. s \in {stream, r}
    BY <1>1, <1>6, <1>11 DEF OnApply, r
  <2>2. output = stream.out
    BY <1>1, <1>11 DEF Produced
  <2> QED BY <1>1, <1>2, <2>1, <2>2 DEF e
<1> QED BY <1>7, <1>8, <1>9, <1>10, <1>11

LEMMA ProducedType ==
  ASSUME NEW o \in Output, NEW e \in [id : Id, kind : Kind]
  PROVE  Produced(o, e) \in Output
<1>1. e.id \in Nat /\ o.thinking \in Seq(Nat) /\ o.assistant \in Seq(Nat) /\ o.tools \in Seq(Nat)
  BY EventBounds, OutputFields DEF Id
<1>2. /\ Append(o.thinking, e.id) \in Seq(Nat) /\ Append(o.assistant, e.id) \in Seq(Nat)
      /\ Append(o.tools, e.id) \in Seq(Nat) /\ WithoutCall(o.tools) \in Seq(Nat)
  BY <1>1, WithoutCallKeeps
<1>3. NoOutput \in Output
  BY DEF NoOutput, Output
<1> QED BY <1>2, <1>3 DEF Produced, Output

\* The first step raises the snapshot, begins one or drops it.
LEMMA AllocKeepsSnapshot ==
  ASSUME EventInv, SnapshotInv, NEW k \in Kind, AllocAgentEvent(k)
  PROVE  SnapshotInv'
<1> DEFINE e == [id |-> next_event_id + 1, kind |-> k]
           x == [ev |-> e, at |-> "apply", size |-> ring_size, alone |-> TRUE]
<1>1. /\ Worker = NULL /\ emit' = [emit EXCEPT !["worker"] = x]
      /\ output' = Produced(output, e)
      /\ stream' = IF k = "run_end" THEN NULL ELSE OnAlloc(e)
      /\ Room /\ Follows(k)
  BY DEF AllocAgentEvent, Enter, Worker
<1>2. next_event_id + 1 \in Nat /\ next_event_id + 1 <= MaxId /\ next_event_id + 1 >= 1
  <2>1. next_event_id \in Nat /\ next_event_id < MaxId
    BY <1>1, EventBounds DEF EventInv, SequenceTypes, Room
  <2> QED BY <2>1, EventBounds
<1>3. e \in [id : Id, kind : Kind] /\ e.kind = k /\ e.id = next_event_id + 1
  BY <1>2, EventBounds DEF Id
<1>4. x \in Emission /\ x.ev = e /\ x.at = "apply"
  BY <1>3 DEF Emission, EmitAt, EventInv, SequenceTypes
<1>5. Worker' = x /\ Applying'
  <2>1. Worker' = x
    BY <1>1 DEF Worker, Task, EventInv, EmissionTypes
  <2> QED BY <1>4, <2>1, NothingIsNull DEF Applying
<1> HIDE DEF e, x
<1>6. output' \in Output
  BY <1>1, <1>3, ProducedType DEF SnapshotInv
<1>7. stream # NULL => stream.out = output
  BY <1>1 DEF SnapshotInv, Applying
<1>8. ASSUME stream' # NULL, stream' \in Snapshot, Covered(stream'),
             stream'.started <=> stream'.out.assistant # <<>>, stream'.out = output,
             k \notin {"retry", "run_end"}
      PROVE  SnapshotInv'
  BY <1>1, <1>3, <1>4, <1>5, <1>6, <1>8 DEF SnapshotInv, Covered
<1>9. ASSUME stream' = NULL, output' = NoOutput PROVE SnapshotInv'
  BY <1>6, <1>9 DEF SnapshotInv
<1>10. CASE k \in {"retry", "run_end"}
  <2>1. stream' = NULL /\ output' = NoOutput
    BY <1>1, <1>3, <1>10 DEF OnAlloc, Produced
  <2> QED BY <1>9, <2>1
<1>11. CASE k \in {"step_start", "thinking", "assistant", "tool_call"}
  <2>1. stream' = IF stream = NULL THEN EmptySnapshot(e.id) ELSE Raise(stream, e.id)
    BY <1>1, <1>3, <1>11 DEF OnAlloc, EnsureSnapshot
  <2>2. CASE stream = NULL
    <3>1. stream' = [last |-> e.id, started |-> FALSE, out |-> NoOutput] /\ output = NoOutput
      BY <2>1, <2>2 DEF EmptySnapshot, SnapshotInv
    <3>2. stream' \in Snapshot
      BY <1>2, <1>3, <3>1 DEF Snapshot, Output, NoOutput
    <3>3. /\ stream'.out = NoOutput /\ stream'.started = FALSE
          /\ NoOutput.thinking = <<>> /\ NoOutput.assistant = <<>> /\ NoOutput.tools = <<>>
      BY <3>1 DEF NoOutput
    <3>4. Covered(stream')
      BY <3>3 DEF Covered, Parts
    <3>5. stream' # NULL
      BY <3>2, NothingIsNull
    <3> QED BY <1>8, <1>11, <3>1, <3>2, <3>3, <3>4, <3>5
  <2>3. CASE stream # NULL
    <3>1. /\ stream' \in Snapshot /\ stream'.out = stream.out /\ stream'.started = stream.started
          /\ Covered(stream')
      BY <1>2, <1>3, <2>1, <2>3, RaiseKeeps DEF SnapshotInv
    <3>2. stream' # NULL
      BY <3>1, NothingIsNull
    <3> QED BY <1>7, <1>8, <1>11, <2>3, <3>1, <3>2 DEF SnapshotInv
  <2> QED BY <2>2, <2>3
<1>12. CASE k \notin {"retry", "run_end", "step_start", "thinking", "assistant", "tool_call"}
  <2>1. stream' = stream
    BY <1>1, <1>3, <1>12 DEF OnAlloc
  <2>2. CASE stream = NULL
    <3>1. output = NoOutput
      BY <2>2 DEF SnapshotInv
    <3>2. k # "tool_result"
      BY <1>1, <3>1 DEF Follows, NoOutput
    <3>3. output' = NoOutput
      BY <1>1, <1>3, <1>12, <3>1, <3>2 DEF Produced
    <3> QED BY <1>9, <2>1, <2>2, <3>3
  <2>3. CASE stream # NULL
    BY <1>7, <1>8, <1>12, <2>1, <2>3 DEF SnapshotInv
  <2> QED BY <2>2, <2>3
<1> QED BY <1>10, <1>11, <1>12

LEMMA SnapshotInvInit == Init => SnapshotInv
  BY DEF Init, SnapshotInv, Applying, Worker, Task, Output, NoOutput

\* Steps that leave the snapshot, the output and whether the worker applies.
LEMMA SnapshotUntouched ==
  ASSUME SnapshotInv, UNCHANGED <<stream, output>>,
         (~Applying /\ ~Applying') \/ Worker' = Worker
  PROVE  SnapshotInv'
<1>1. CASE ~Applying /\ ~Applying'
  BY <1>1 DEF SnapshotInv, Covered
<1>2. CASE Worker' = Worker
  BY <1>2 DEF SnapshotInv, Applying, Covered
<1> QED BY <1>1, <1>2

LEMMA SnapshotInvKept == EventInv /\ SnapshotInv /\ [Next]_vars => SnapshotInv'
<1> SUFFICES ASSUME EventInv, SnapshotInv, [Next]_vars PROVE SnapshotInv'
  OBVIOUS
<1>1. /\ DOMAIN emit = Task
      /\ Worker # NULL => Worker \in Emission
      /\ "worker" \in Task /\ "handler" \in Task
  BY DEF EventInv, EmissionTypes, Waiting, Worker, Task
<1>2. Worker # NULL => Worker.ev \in [id : Id, kind : Kind]
  BY <1>1 DEF Emission
<1>3. NoOutput \in Output /\ NULL \notin Snapshot /\ NULL \notin Emission
  BY NothingIsNull DEF NoOutput, Output
<1>4. ASSUME stream' = NULL, output' = NoOutput PROVE SnapshotInv'
  BY <1>3, <1>4 DEF SnapshotInv
<1>5. CASE AllocHandlerEvent
  <2>1. UNCHANGED <<stream, output>> /\ Worker' = Worker
    BY <1>1, <1>5 DEF AllocHandlerEvent, Enter, Worker
  <2> QED BY <2>1, SnapshotUntouched
<1>6. CASE ApplySnapshot
  <2> DEFINE x == [ev |-> Worker.ev, at |-> IF Worker.ev.kind \notin Ephemeral THEN "append" ELSE "push",
                   size |-> ring_size, alone |-> TRUE]
  <2>1. Applying /\ stream' = OnApply(stream, Worker.ev) /\ UNCHANGED output /\ Worker' = x
    BY <1>1, <1>6 DEF ApplySnapshot, Enter, Worker, Applying
  <2>2. ~Applying'
    BY <2>1 DEF Applying
  <2>3. CASE stream = NULL
    <3>1. stream' = NULL
      BY <2>1, <2>3 DEF OnApply
    <3> QED BY <1>4, <2>1, <2>3, <3>1 DEF SnapshotInv
  <2>4. CASE stream # NULL
    <3>1. /\ stream' \in Snapshot /\ Covered(stream') /\ stream'.out = output
          /\ stream'.started <=> stream'.out.assistant # <<>>
      BY <1>2, <2>1, <2>4, ApplyBrings DEF Applying
    <3>2. stream' # NULL
      BY <1>3, <3>1
    <3> QED BY <2>1, <2>2, <3>1, <3>2 DEF SnapshotInv, Covered
  <2> QED BY <2>3, <2>4
<1>7. CASE SettleMessage \/ Restart
  BY <1>4, <1>7 DEF SettleMessage, Restart
<1>8. ASSUME NEW t \in Task, Emit(t) PROVE SnapshotInv'
  <2>1. UNCHANGED <<stream, output>>
    BY <1>8 DEF Emit, WriteEvent, FinishLine, AppendFails, PushRing, SendEvent
  <2>2. /\ emit[t] # NULL /\ emit[t].at # "apply"
        /\ emit'[t] # NULL => emit'[t].at # "apply"
        /\ \A u \in Task : u # t => emit'[u] = emit[u] \/ (/\ emit[u].at = "newline" /\ emit'[u] # NULL
                                                           /\ emit'[u].at = "newline")
    <3>1. emit[t] # NULL => emit[t] \in Emission
      BY DEF EventInv, EmissionTypes, Waiting
    <3>2. ASSUME NEW piece \in Event \cup {NULL}, NEW y, Write(t, piece, y), UNCHANGED log
          PROVE  /\ emit'[t] = y
                 /\ \A u \in Task : u # t => emit'[u] = emit[u] \/ (/\ emit[u].at = "newline" /\ emit'[u] # NULL
                                                                    /\ emit'[u].at = "newline")
      BY <1>3, <3>2, Written
    <3>3. CASE WriteEvent(t)
      <4> DEFINE y == [emit[t] EXCEPT !.at = "newline", !.alone = unfinished = <<>>]
                 piece == Emitted(emit[t].ev)
      <4>1. emit[t] # NULL /\ emit[t].at = "append" /\ Write(t, piece, y) /\ UNCHANGED log
        BY <3>3 DEF WriteEvent
      <4>2. y.at = "newline" /\ piece \in Event
        BY <3>1, <4>1, EmittedType DEF Emission
      <4> HIDE DEF y, piece
      <4> QED BY <3>2, <4>1, <4>2
    <3>4. CASE FinishLine(t)
      <4> DEFINE y == [emit[t] EXCEPT !.at = "push", !.size = ring_size]
      <4>1. emit[t] # NULL /\ emit[t].at = "newline"
        BY <3>4 DEF FinishLine
      <4>2. y.at = "push"
        BY <3>1, <4>1 DEF Emission
      <4>3. emit'[t] = y /\ \A u \in Task : u # t => emit'[u] = emit[u]
        BY <1>1, <3>4 DEF FinishLine
      <4> HIDE DEF y
      <4> QED BY <4>1, <4>2, <4>3
    <3>5. CASE AppendFails(t)
      <4>1. emit[t] # NULL /\ emit[t].at # "apply" /\ UNCHANGED log
        BY <3>5 DEF AppendFails
      <4>2. CASE emit' = [emit EXCEPT ![t] = NULL]
        BY <1>1, <4>1, <4>2
      <4>3. CASE Write(t, NULL, NULL)
        BY <3>2, <4>1, <4>3
      <4> QED BY <3>5, <4>2, <4>3 DEF AppendFails
    <3>6. CASE PushRing(t)
      <4>1. emit[t] # NULL /\ emit[t].at = "push" /\ emit' = [emit EXCEPT ![t] = [emit[t] EXCEPT !.at = "send"]]
        BY <3>6 DEF PushRing
      <4>2. [emit[t] EXCEPT !.at = "send"].at = "send"
        BY <3>1, <4>1 DEF Emission
      <4> QED BY <1>1, <4>1, <4>2
    <3>7. CASE SendEvent(t)
      <4> DEFINE y == IF emit[t].ev.kind = "message" THEN [emit[t] EXCEPT !.at = "settle"] ELSE NULL
      <4>1. emit[t] # NULL /\ emit[t].at = "send" /\ emit' = [emit EXCEPT ![t] = y]
        BY <3>7 DEF SendEvent
      <4>2. y # NULL => y.at = "settle"
        BY <3>1, <4>1 DEF Emission
      <4> HIDE DEF y
      <4> QED BY <1>1, <4>1, <4>2
    <3> QED BY <1>8, <3>3, <3>4, <3>5, <3>6, <3>7 DEF Emit
  <2>3. (~Applying /\ ~Applying') \/ Worker' = Worker
    BY <1>1, <2>2 DEF Applying, Worker
  <2> QED BY <2>1, <2>3, SnapshotUntouched
<1>9. CASE UNCHANGED <<stream, output, emit>>
  BY <1>9, SnapshotUntouched DEF Worker
<1>10. CASE \E n \in RingSizes : ResizeRing(n)
  BY <1>9, <1>10 DEF ResizeRing
<1>11. CASE \E c \in Clients : ClientStep(c)
  BY <1>9, <1>11 DEF ClientStep, Connect, ReadBacklog, Subscribe, Receive, Lag, Disconnect
<1>12. CASE UNCHANGED vars
  BY <1>9, <1>12 DEF vars
<1> QED BY <1>5, <1>6, <1>7, <1>8, <1>10, <1>11, <1>12, AllocKeepsSnapshot DEF Next

\* The snapshot holds what the model has produced since the last retry or recorded message,
\* but for the piece it is about to take, and its id covers what it holds: handle_agent_event
\* takes the snapshot's mutex twice for an event.
THEOREM SnapshotIsWhole == Spec => []SnapshotIsOutput
<1>1. EventInv /\ SnapshotInv => SnapshotIsOutput
  <2> SUFFICES ASSUME EventInv, SnapshotInv, stream # NULL
               PROVE  /\ Pending.out = output
                      /\ \A part \in {stream.out.thinking, stream.out.assistant, stream.out.tools} :
                            \A i \in 1..Len(part) : part[i] <= stream.last
    BY DEF SnapshotIsOutput
  <2>1. \A part \in {stream.out.thinking, stream.out.assistant, stream.out.tools} :
           \A i \in 1..Len(part) : part[i] <= stream.last
    BY DEF SnapshotInv, Covered, Parts
  <2>2. CASE Applying
    <3>1. Worker.ev \in [id : Id, kind : Kind] /\ Pending = OnApply(stream, Worker.ev)
      BY <2>2 DEF EventInv, EmissionTypes, Emission, Waiting, Worker, Applying, Task, Pending
    <3> QED BY <2>1, <2>2, <3>1, ApplyBrings
  <2>3. CASE ~Applying
    BY <2>1, <2>3 DEF SnapshotInv, Applying, Worker, Pending
  <2> QED BY <2>2, <2>3
<1>2. Spec => [](EventInv /\ SnapshotInv)
  BY EventInvInit, EventInvKept, SnapshotInvInit, SnapshotInvKept, PTL DEF Spec
<1> QED BY <1>1, <1>2, PTL

-----------------------------------------------------------------------------
(***************************************************************************)
(* What is read of the file or of the ring: the recursive function of      *)
(* After exists, and selects.                                              *)
(***************************************************************************)
Selects(f, s, n, k) ==
    /\ f \in [0..k -> Seq(Event)]
    /\ f[0] = <<>>
    /\ \A i \in 1..k : f[i] = IF s[i].id > n THEN Append(f[i - 1], s[i]) ELSE f[i - 1]

\* The recursive function of After exists.
LEMMA AfterFunction ==
  ASSUME NEW s \in Seq(Event), NEW n
  PROVE  \E f : Selects(f, s, n, Len(s)) /\ After(s, n) = f[Len(s)]
<1> DEFINE K == {k \in 0..Len(s) : \E f : Selects(f, s, n, k)}
           Body(f, i) == IF i = 0 THEN <<>>
                         ELSE IF s[i].id > n THEN Append(f[i - 1], s[i]) ELSE f[i - 1]
<1>1. Len(s) \in Nat /\ \A i \in 1..Len(s) : s[i] \in Event
  OBVIOUS
<1>2. 0 \in K
  <2>1. Selects([i \in 0..0 |-> <<>>], s, n, 0)
    BY DEF Selects
  <2> QED BY <1>1, <2>1
<1>3. ASSUME NEW k \in 1..Len(s), k - 1 \in K PROVE k \in K
  <2>1. PICK f : Selects(f, s, n, k - 1)
    BY <1>3
  <2> DEFINE g == [i \in 0..k |-> IF i = k THEN Body(f, k) ELSE f[i]]
  <2>2. Body(f, k) \in Seq(Event)
    <3>1. f[k - 1] \in Seq(Event) /\ s[k] \in Event
      BY <1>1, <2>1 DEF Selects
    <3>2. Append(f[k - 1], s[k]) \in Seq(Event)
      BY <3>1
    <3> QED BY <3>1, <3>2
  <2>3. /\ \A i \in 0..k - 1 : g[i] = f[i] /\ f[i] \in Seq(Event)
        /\ g[k] = Body(f, k) /\ k - 1 \in 0..k - 1
    BY <2>1 DEF Selects
  <2>4. g \in [0..k -> Seq(Event)]
    <3> HIDE DEF Body
    <3>1. \A i \in 0..k : i = k \/ i \in 0..k - 1
      OBVIOUS
    <3> QED BY <2>2, <2>3, <3>1
  <2>5. ASSUME NEW i \in 1..k
        PROVE  g[i] = IF s[i].id > n THEN Append(g[i - 1], s[i]) ELSE g[i - 1]
    <3>1. CASE i = k
      <4>1. g[i - 1] = f[i - 1] /\ i # 0
        BY <2>3, <3>1
      <4> QED BY <2>3, <3>1, <4>1
    <3>2. CASE i # k
      <4>1. i \in 1..k - 1 /\ i - 1 \in 0..k - 1 /\ i \in 0..k - 1
        BY <3>2
      <4>2. g[i] = f[i] /\ g[i - 1] = f[i - 1]
        BY <2>3, <4>1
      <4> HIDE DEF g
      <4> QED BY <2>1, <4>1, <4>2 DEF Selects
    <3> QED BY <3>1, <3>2
  <2>6. g[0] = <<>>
    BY <2>1, <2>3 DEF Selects
  <2> HIDE DEF g
  <2>7. Selects(g, s, n, k)
    BY <2>4, <2>5, <2>6 DEF Selects
  <2> QED BY <2>7
<1>4. Len(s) \in K
  <2>1. \A i \in 1..Len(s) : i - 1 \in K => i \in K
    BY <1>3
  <2> HIDE DEF K
  <2>2. \A i \in 0..Len(s) : i \in K
    BY <1>1, <1>2, <2>1, BoundedInduction
  <2> QED BY <1>1, <2>2
<1>5. PICK f : Selects(f, s, n, Len(s))
  BY <1>4
<1>6. f = [i \in 0..Len(s) |-> Body(f, i)]
  <2>1. \A i \in 0..Len(s) : f[i] = Body(f, i)
    <3>1. \A i \in 0..Len(s) : i = 0 \/ i \in 1..Len(s)
      BY <1>1
    <3> QED BY <1>5, <3>1 DEF Selects
  <2> HIDE DEF Body
  <2> QED BY <1>5, <2>1 DEF Selects
<1> DEFINE Fits(h) == h = [i \in 0..Len(s) |-> Body(h, i)]
           g == CHOOSE h : Fits(h)
<1>7. Fits(g)
  <2>1. Fits(f)
    BY <1>6
  <2> HIDE DEF Fits
  <2> QED BY <2>1
<1>8. After(s, n) = g[Len(s)]
  BY DEF After
<1> HIDE DEF g
<1>9. g[0] = <<>> /\ \A i \in 1..Len(s) : g[i] = Body(g, i)
  <2>1. \A i \in 0..Len(s) : g[i] = Body(g, i)
    <3> HIDE DEF Body
    <3> QED BY <1>7
  <2>3. g[0] = Body(g, 0)
    <3> HIDE DEF Body
    <3> QED BY <1>1, <2>1
  <2>4. Body(g, 0) = <<>>
    OBVIOUS
  <2>5. \A i \in 1..Len(s) : g[i] = Body(g, i)
    <3> HIDE DEF Body
    <3> QED BY <1>1, <2>1
  <2> QED BY <2>3, <2>4, <2>5
<1>10. \A i \in 0..Len(s) : g[i] = f[i]
  <2> DEFINE E == {i \in 0..Len(s) : g[i] = f[i]}
  <2>1. 0 \in E
    BY <1>1, <1>5, <1>9 DEF Selects
  <2>2. ASSUME NEW i \in 1..Len(s), i - 1 \in E PROVE i \in E
    <3>1. g[i] = Body(g, i) /\ f[i] = Body(f, i) /\ g[i - 1] = f[i - 1]
      BY <1>5, <1>9, <2>2 DEF Selects
    <3> QED BY <3>1
  <2>3. \A i \in 0..Len(s) : i \in E
    <3> HIDE DEF E
    <3> QED BY <1>1, <2>1, <2>2, BoundedInduction
  <2> QED BY <2>3
<1>11. After(s, n) = f[Len(s)]
  BY <1>1, <1>8, <1>10
<1> QED BY <1>5, <1>11

\* Selecting keeps exactly the events above n, and keeps ids distinct.
LEMMA AfterProperties ==
  ASSUME NEW s \in Seq(Event), NEW n
  PROVE  /\ After(s, n) \in Seq(Event)
         /\ ToSet(After(s, n)) = {e \in ToSet(s) : e.id > n}
         /\ Distinct(s) => Distinct(After(s, n))
<1>1. PICK f : Selects(f, s, n, Len(s)) /\ After(s, n) = f[Len(s)]
  BY AfterFunction
<1>2. Len(s) \in Nat /\ Len(s) \in 0..Len(s)
  OBVIOUS
<1> DEFINE Part(i) == {e \in Event : \E j \in 1..i : s[j] = e /\ s[j].id > n}
           K == {i \in 0..Len(s) : /\ ToSet(f[i]) = Part(i)
                                   /\ Distinct(s) => Distinct(f[i])}
<1>3. 0 \in K
  <2>1. f[0] = <<>> /\ Part(0) = {}
    BY <1>1 DEF Selects
  <2>2. ToSet(<<>>) = {} /\ Distinct(<<>>)
    BY DEF ToSet, Distinct
  <2> HIDE DEF Part
  <2> QED BY <1>2, <2>1, <2>2
<1>4. ASSUME NEW i \in 1..Len(s), i - 1 \in K PROVE i \in K
  <2>1. /\ f[i - 1] \in Seq(Event) /\ s[i] \in Event
        /\ f[i] = IF s[i].id > n THEN Append(f[i - 1], s[i]) ELSE f[i - 1]
        /\ ToSet(f[i - 1]) = Part(i - 1)
        /\ Distinct(s) => Distinct(f[i - 1])
    <3>1. i - 1 \in 0..Len(s) /\ i \in 0..Len(s)
      BY <1>2
    <3>2. ToSet(f[i - 1]) = Part(i - 1) /\ (Distinct(s) => Distinct(f[i - 1]))
      <4> HIDE DEF Part
      <4> QED BY <1>4
    <3>3. f[i] = IF s[i].id > n THEN Append(f[i - 1], s[i]) ELSE f[i - 1]
      BY <1>1 DEF Selects
    <3>4. f[i - 1] \in Seq(Event)
      BY <1>1, <3>1 DEF Selects
    <3> HIDE DEF Part
    <3> QED BY <3>2, <3>3, <3>4
  <2>2. CASE s[i].id > n
    <3>1. f[i] = Append(f[i - 1], s[i])
      BY <2>1, <2>2
    <3>2. ToSet(f[i]) = ToSet(f[i - 1]) \cup {s[i]}
      BY <2>1, <3>1, ToSetAppend
    <3>3. Part(i) = Part(i - 1) \cup {s[i]}
      <4>1. \A j \in 1..i : j = i \/ j \in 1..i - 1
        BY <1>2
      <4>2. \A j \in 1..i - 1 : j \in 1..i
        BY <1>2
      <4> QED BY <1>2, <2>1, <2>2, <4>1, <4>2
    <3>4. ASSUME Distinct(s) PROVE Distinct(f[i])
      <4>1. s[i] \notin Part(i - 1)
        BY <3>4 DEF Distinct
      <4> HIDE DEF Part
      <4> QED BY <2>1, <3>1, <3>4, <4>1, DistinctAppend
    <3>5. ToSet(f[i]) = Part(i)
      <4> HIDE DEF Part
      <4> QED BY <2>1, <3>2, <3>3
    <3> HIDE DEF Part
    <3> QED BY <1>2, <3>4, <3>5
  <2>3. CASE ~(s[i].id > n)
    <3>1. f[i] = f[i - 1]
      BY <2>1, <2>3
    <3>2. Part(i) = Part(i - 1)
      <4>1. \A j \in 1..i : j = i \/ j \in 1..i - 1
        BY <1>2
      <4>2. \A j \in 1..i - 1 : j \in 1..i
        BY <1>2
      <4> QED BY <2>3, <4>1, <4>2
    <3> HIDE DEF Part
    <3> QED BY <2>1, <3>1, <3>2
  <2> QED BY <2>2, <2>3
<1>5. Len(s) \in K
  <2>1. \A i \in 1..Len(s) : i - 1 \in K => i \in K
    BY <1>4
  <2> HIDE DEF K
  <2>2. \A i \in 0..Len(s) : i \in K
    BY <1>2, <1>3, <2>1, BoundedInduction
  <2> QED BY <1>2, <2>2
<1>6. Part(Len(s)) = {e \in ToSet(s) : e.id > n}
  <2>1. /\ \A e : e \in ToSet(s) <=> \E j \in 1..Len(s) : s[j] = e
        /\ ToSet(s) \subseteq Event
    BY InToSet
  <2> QED BY <2>1
<1>7. f[Len(s)] \in Seq(Event)
  BY <1>1, <1>2 DEF Selects
<1> HIDE DEF Part
<1> QED BY <1>1, <1>5, <1>6, <1>7

-----------------------------------------------------------------------------
(***************************************************************************)
(* The ring against the pushes since the process began: its events are     *)
(* the last that were pushed while it was on, in their order.              *)
(***************************************************************************)
WasPushed(r, p) == \A a \in 1..Len(r) : \E i \in 1..Len(p) : p[i].kept /\ p[i].id = r[a].id

InPushOrder(r, p) ==
    \A a, b \in 1..Len(r), i, j \in 1..Len(p) :
        a < b /\ p[i].id = r[a].id /\ p[j].id = r[b].id => i < j

Before(i, r, p) == \A a \in 1..Len(r), j \in 1..Len(p) : p[j].id = r[a].id => i < j

IsLastPushed(r, p) ==
    \A i \in 1..Len(p) : p[i].kept =>
        (\E a \in 1..Len(r) : r[a].id = p[i].id) \/ Before(i, r, p)

RingOfPushes(r, p) == WasPushed(r, p) /\ InPushOrder(r, p) /\ IsLastPushed(r, p)

LEMMA RingCut ==
  ASSUME NEW r \in Seq(Event), NEW p \in Seq(Push), NEW n \in Nat, RingOfPushes(r, p)
  PROVE  RingOfPushes(LastOf(r, n), p)
<1> DEFINE m == IF Len(r) > n THEN Len(r) - n ELSE 0
           c == LastOf(r, n)
<1>1. Len(r) \in Nat /\ Len(p) \in Nat /\ m \in Nat /\ m <= Len(r)
  OBVIOUS
<1>2. c = SubSeq(r, m + 1, Len(r))
  BY <1>1 DEF LastOf
<1> HIDE DEF m
<1>3. /\ Len(c) = Len(r) - m
      /\ \A a \in 1..Len(c) : a + m \in 1..Len(r) /\ c[a] = r[a + m]
  BY <1>1, <1>2
<1> HIDE DEF c
<1>4. Len(c) \in Nat
  BY <1>1, <1>3
<1>5. WasPushed(c, p)
  BY <1>3 DEF RingOfPushes, WasPushed
<1>6. InPushOrder(c, p)
  <2> SUFFICES ASSUME NEW a \in 1..Len(c), NEW b \in 1..Len(c),
                      NEW i \in 1..Len(p), NEW j \in 1..Len(p),
                      a < b, p[i].id = c[a].id, p[j].id = c[b].id
               PROVE  i < j
    BY DEF InPushOrder
  <2>1. a + m < b + m /\ a + m \in 1..Len(r) /\ b + m \in 1..Len(r)
    BY <1>1, <1>3, <1>4
  <2>2. p[i].id = r[a + m].id /\ p[j].id = r[b + m].id
    BY <1>3
  <2> QED BY <2>1, <2>2 DEF RingOfPushes, InPushOrder
<1>7. IsLastPushed(c, p)
  <2> SUFFICES ASSUME NEW i \in 1..Len(p), p[i].kept, ~\E a \in 1..Len(c) : c[a].id = p[i].id,
                      NEW b \in 1..Len(c), NEW j \in 1..Len(p), p[j].id = c[b].id
               PROVE  i < j
    BY DEF IsLastPushed, Before
  <2>1. b + m \in 1..Len(r) /\ p[j].id = r[b + m].id
    BY <1>3
  <2>2. CASE \E a \in 1..Len(r) : r[a].id = p[i].id
    <3>1. PICK a \in 1..Len(r) : r[a].id = p[i].id
      BY <2>2
    <3>2. ~(a > m)
      <4>1. SUFFICES ASSUME a > m PROVE FALSE
        OBVIOUS
      <4>2. a - m \in 1..Len(c) /\ (a - m) + m = a
        BY <1>1, <1>3, <4>1
      <4> QED BY <1>3, <3>1, <4>2
    <3>3. a < b + m
      BY <1>1, <1>4, <3>2
    <3> QED BY <2>1, <3>1, <3>3 DEF RingOfPushes, InPushOrder
  <2>3. CASE Before(i, r, p)
    BY <2>1, <2>3 DEF Before
  <2> QED BY <2>2, <2>3 DEF RingOfPushes, IsLastPushed
<1> QED BY <1>5, <1>6, <1>7 DEF RingOfPushes, c

\* An event that was not pushed yet is pushed while the ring is off.
LEMMA PushedPast ==
  ASSUME NEW r, NEW p, NEW q, RingOfPushes(r, p), Len(p) \in Nat, NEW id,
         Len(q) = Len(p) + 1, \A i \in 1..Len(p) : q[i] = p[i] /\ p[i].id # id,
         q[Len(p) + 1].id = id, ~q[Len(p) + 1].kept
  PROVE  RingOfPushes(r, q)
<1>1. \A i \in 1..Len(q) : i = Len(p) + 1 \/ i \in 1..Len(p)
  OBVIOUS
<1>2. \A i \in 1..Len(p) : i \in 1..Len(q)
  OBVIOUS
<1>3. ASSUME NEW a \in 1..Len(r), NEW i \in 1..Len(q), q[i].id = r[a].id
      PROVE  i \in 1..Len(p) /\ p[i].id = r[a].id
  <2>1. r[a].id # id
    BY DEF RingOfPushes, WasPushed
  <2> QED BY <1>1, <1>3, <2>1
<1>4. WasPushed(r, q)
  BY <1>2 DEF RingOfPushes, WasPushed
<1>5. InPushOrder(r, q)
  <2> SUFFICES ASSUME NEW a \in 1..Len(r), NEW b \in 1..Len(r),
                      NEW i \in 1..Len(q), NEW j \in 1..Len(q),
                      a < b, q[i].id = r[a].id, q[j].id = r[b].id
               PROVE  i < j
    BY DEF InPushOrder
  <2>1. /\ i \in 1..Len(p) /\ p[i].id = r[a].id
        /\ j \in 1..Len(p) /\ p[j].id = r[b].id
    BY <1>3
  <2> QED BY <2>1 DEF RingOfPushes, InPushOrder
<1>6. IsLastPushed(r, q)
  <2> SUFFICES ASSUME NEW i \in 1..Len(q), q[i].kept, ~\E a \in 1..Len(r) : r[a].id = q[i].id,
                      NEW b \in 1..Len(r), NEW j \in 1..Len(q), q[j].id = r[b].id
               PROVE  i < j
    BY DEF IsLastPushed, Before
  <2>1. i \in 1..Len(p) /\ q[i] = p[i]
    BY <1>1
  <2>2. j \in 1..Len(p) /\ p[j].id = r[b].id
    BY <1>3
  <2>3. Before(i, r, p)
    BY <2>1 DEF RingOfPushes, IsLastPushed
  <2> QED BY <2>2, <2>3 DEF Before
<1> QED BY <1>4, <1>5, <1>6 DEF RingOfPushes

\* An event that was not pushed yet is pushed into the ring.
LEMMA PushedInto ==
  ASSUME NEW r, NEW s, NEW p, NEW q, RingOfPushes(r, p), Len(p) \in Nat, Len(r) \in Nat,
         NEW e, Len(q) = Len(p) + 1, \A i \in 1..Len(p) : q[i] = p[i] /\ p[i].id # e.id,
         q[Len(p) + 1].id = e.id, q[Len(p) + 1].kept,
         Len(s) = Len(r) + 1, \A a \in 1..Len(r) : s[a] = r[a], s[Len(r) + 1] = e
  PROVE  RingOfPushes(s, q)
<1>1. /\ \A i \in 1..Len(q) : i = Len(p) + 1 \/ i \in 1..Len(p)
      /\ \A i \in 1..Len(p) : i \in 1..Len(q) /\ i < Len(p) + 1
      /\ Len(p) + 1 \in 1..Len(q)
  OBVIOUS
<1>2. /\ \A a \in 1..Len(s) : a = Len(r) + 1 \/ a \in 1..Len(r)
      /\ \A a \in 1..Len(r) : a \in 1..Len(s)
      /\ Len(r) + 1 \in 1..Len(s)
  OBVIOUS
<1>3. ASSUME NEW a \in 1..Len(r), NEW i \in 1..Len(q), q[i].id = s[a].id
      PROVE  i \in 1..Len(p) /\ p[i].id = r[a].id
  <2>1. r[a].id # e.id /\ s[a] = r[a]
    BY DEF RingOfPushes, WasPushed
  <2> QED BY <1>1, <1>3, <2>1
<1>4. WasPushed(s, q)
  <2> SUFFICES ASSUME NEW a \in 1..Len(s) PROVE \E i \in 1..Len(q) : q[i].kept /\ q[i].id = s[a].id
    BY DEF WasPushed
  <2>1. CASE a = Len(r) + 1
    BY <1>1, <2>1
  <2>2. CASE a \in 1..Len(r)
    <3>1. PICK i \in 1..Len(p) : p[i].kept /\ p[i].id = r[a].id
      BY <2>2 DEF RingOfPushes, WasPushed
    <3>2. i \in 1..Len(q) /\ q[i] = p[i] /\ s[a] = r[a]
      BY <1>1, <2>2, <3>1
    <3> QED BY <3>1, <3>2
  <2> QED BY <1>2, <2>1, <2>2
<1>5. InPushOrder(s, q)
  <2> SUFFICES ASSUME NEW a \in 1..Len(s), NEW b \in 1..Len(s),
                      NEW i \in 1..Len(q), NEW j \in 1..Len(q),
                      a < b, q[i].id = s[a].id, q[j].id = s[b].id
               PROVE  i < j
    BY DEF InPushOrder
  <2>1. a \in 1..Len(r)
    <3>1. b <= Len(r) + 1
      OBVIOUS
    <3> QED BY <3>1
  <2>2. i \in 1..Len(p) /\ p[i].id = r[a].id
    BY <1>3, <2>1
  <2>3. CASE b = Len(r) + 1
    <3>1. j \notin 1..Len(p)
      BY <2>3
    <3>2. j = Len(p) + 1
      BY <1>1, <3>1
    <3> QED BY <1>1, <2>2, <3>2
  <2>4. CASE b \in 1..Len(r)
    <3>1. j \in 1..Len(p) /\ p[j].id = r[b].id
      BY <1>3, <2>4
    <3> QED BY <2>1, <2>2, <2>4, <3>1 DEF RingOfPushes, InPushOrder
  <2> QED BY <1>2, <2>3, <2>4
<1>6. IsLastPushed(s, q)
  <2> SUFFICES ASSUME NEW i \in 1..Len(q), q[i].kept, ~\E a \in 1..Len(s) : s[a].id = q[i].id,
                      NEW b \in 1..Len(s), NEW j \in 1..Len(q), q[j].id = s[b].id
               PROVE  i < j
    BY DEF IsLastPushed, Before
  <2>1. i # Len(p) + 1
    BY <1>2
  <2>2. i \in 1..Len(p) /\ q[i] = p[i]
    BY <1>1, <2>1
  <2>3. ~\E a \in 1..Len(r) : r[a].id = p[i].id
    BY <1>2, <2>2
  <2>4. Before(i, r, p)
    BY <2>2, <2>3 DEF RingOfPushes, IsLastPushed
  <2>5. CASE j = Len(p) + 1
    BY <1>1, <2>2, <2>5
  <2>6. CASE j \in 1..Len(p)
    <3>1. b # Len(r) + 1
      BY <2>6
    <3>2. b \in 1..Len(r)
      BY <1>2, <3>1
    <3>3. p[j].id = r[b].id
      BY <1>3, <3>2
    <3> QED BY <2>4, <2>6, <3>2, <3>3 DEF Before
  <2> QED BY <1>1, <2>5, <2>6
<1> QED BY <1>4, <1>5, <1>6 DEF RingOfPushes

-----------------------------------------------------------------------------
(***************************************************************************)
(* Every event is pushed once, after it took its id, and sent after it was *)
(* pushed; an id is one event.                                             *)
(***************************************************************************)
AtPush == {"apply", "append", "newline", "push"}

InFlight == {Emitted(emit[t].ev) : t \in {u \in Task : Waiting(u)}}
Visible == ToSet(ring) \cup ToSet(sent) \cup InFlight

PushedOnce ==
    /\ pushed \in Seq(Push)
    /\ \A i, j \in 1..Len(pushed) : pushed[i].id = pushed[j].id => i = j
    /\ \A i \in 1..Len(pushed) : pushed[i].id <= next_event_id
    /\ \A t \in Task : Waiting(t) /\ emit[t].at \in AtPush
          => \A i \in 1..Len(pushed) : pushed[i].id # emit[t].ev.id

SentIsPushed ==
    /\ \A e \in ToSet(sent) : \E i \in 1..Len(pushed) : pushed[i].id = e.id
    /\ \A t \in Task : Waiting(t) /\ emit[t].at \notin AtPush
          => \E i \in 1..Len(pushed) : pushed[i].id = emit[t].ev.id

OneEventPerId == \A e, f \in Visible : e.id = f.id => e = f

PushInv == PushedOnce /\ SentIsPushed /\ OneEventPerId /\ RingOfPushes(ring, pushed)

LEMMA InFlightMember ==
  ASSUME NEW t \in Task, Waiting(t) PROVE Emitted(emit[t].ev) \in InFlight
  BY DEF InFlight

LEMMA PushInvInit == Init => PushInv
<1> SUFFICES ASSUME Init PROVE PushInv
  OBVIOUS
<1>1. ring = <<>> /\ sent = <<>> /\ pushed = <<>> /\ emit = [t \in Task |-> NULL]
  BY DEF Init
<1>2. Len(pushed) = 0 /\ Len(ring) = 0 /\ pushed \in Seq(Push) /\ ToSet(ring) = {} /\ ToSet(sent) = {}
  BY <1>1 DEF ToSet
<1>3. \A t \in Task : ~Waiting(t)
  BY <1>1 DEF Waiting
<1> QED BY <1>1, <1>2, <1>3 DEF PushInv, PushedOnce, SentIsPushed, OneEventPerId, Visible, InFlight,
           RingOfPushes, WasPushed, InPushOrder, IsLastPushed

\* An event takes an id that nothing has.
LEMMA AllocKeepsPushes ==
  ASSUME EventInv, EventInv', PushInv, UNCHANGED <<ring, sent, pushed>>,
         next_event_id' = next_event_id + 1, NEW t \in Task, NEW x, x.at \in AtPush,
         x.ev.id = next_event_id + 1, emit' = [emit EXCEPT ![t] = x]
  PROVE  PushInv'
<1>1. /\ emit'[t] = x /\ \A u \in Task : u # t => emit'[u] = emit[u]
      /\ next_event_id \in Nat
  BY DEF EventInv, EmissionTypes, SequenceTypes
<1>2. PushedOnce'
  <2>1. pushed \in Seq(Push) /\ \A i \in 1..Len(pushed) : pushed[i].id \in Nat
    <3>1. pushed \in Seq(Push)
      BY DEF PushInv, PushedOnce
    <3>2. \A y \in Push : y.id \in Nat
      BY EventBounds DEF Push, Id
    <3> QED BY <3>1, <3>2
  <2>2. \A i \in 1..Len(pushed) : pushed[i].id <= next_event_id + 1 /\ pushed[i].id # next_event_id + 1
    BY <1>1, <2>1 DEF PushInv, PushedOnce
  <2>3. \A u \in Task : Waiting(u)' /\ emit'[u].at \in AtPush
          => \A i \in 1..Len(pushed) : pushed[i].id # emit'[u].ev.id
    BY <1>1, <2>2 DEF PushInv, PushedOnce, Waiting
  <2> QED BY <2>1, <2>2, <2>3 DEF PushInv, PushedOnce, Waiting
<1>3. SentIsPushed'
  BY <1>1 DEF PushInv, SentIsPushed, Waiting
<1>4. OneEventPerId'
  <2> DEFINE E == Emitted(x.ev)
  <2>1. E.id = next_event_id + 1
    BY EmittedFields
  <2>2. \A e \in Visible : e.id \in Nat /\ e.id <= next_event_id
    <3>1. \A e \in ToSet(ring) \cup ToSet(sent) : e.id \in Nat
      <4>1. \A e \in ToSet(ring) \cup ToSet(sent) : e \in Event
        BY DEF EventInv, SequenceTypes, ToSet
      <4> QED BY <4>1, EventBounds DEF Event, Id
    <3>2. \A u \in Task : Waiting(u) => /\ Emitted(emit[u].ev).id = emit[u].ev.id
                                        /\ emit[u].ev.id \in Nat
      BY EmittedType, EmittedFields DEF EventInv, EmissionTypes
    <3> QED BY <3>1, <3>2 DEF EventInv, IdsCovered, Visible, InFlight
  <2>3. \A e \in Visible' : e = E \/ e \in Visible
    BY <1>1 DEF Visible, InFlight, Waiting
  <2> HIDE DEF E
  <2>4. \A e \in Visible : e.id # E.id
    BY <1>1, <2>1, <2>2
  <2> QED BY <2>3, <2>4 DEF PushInv, OneEventPerId
<1>5. RingOfPushes(ring, pushed)'
  BY DEF PushInv
<1> QED BY <1>2, <1>3, <1>4, <1>5 DEF PushInv

\* An emission goes on without being pushed or sent, or ends.
LEMMA EmissionKeepsPushes ==
  ASSUME EventInv, PushInv, UNCHANGED <<next_event_id, pushed>>, NEW t \in Task, Waiting(t), NEW x,
         emit'[t] = x, x # NULL => x.ev = emit[t].ev /\ (x.at \in AtPush <=> emit[t].at \in AtPush),
         \A u \in Task : u # t =>
            \/ emit'[u] = emit[u]
            \/ Waiting(u) /\ emit'[u].ev = emit[u].ev /\ emit'[u].at = emit[u].at,
         ring' = ring,
         \/ sent' = sent
         \/ emit[t].at \notin AtPush /\ ToSet(sent') = ToSet(sent) \cup {Emitted(emit[t].ev)}
  PROVE  PushInv'
<1> DEFINE E == Emitted(emit[t].ev)
<1>1. /\ \A u \in Task : emit'[u] # NULL =>
            /\ emit[u] # NULL /\ emit'[u].ev = emit[u].ev
            /\ (emit'[u].at \in AtPush <=> emit[u].at \in AtPush)
      /\ E.id = emit[t].ev.id /\ E \in InFlight
  BY EmittedFields, InFlightMember DEF Waiting
<1> HIDE DEF E
<1>2. PushedOnce'
  BY <1>1 DEF PushInv, PushedOnce, Waiting
<1>3. SentIsPushed'
  <2>1. \A e \in ToSet(sent') : \E i \in 1..Len(pushed) : pushed[i].id = e.id
    BY <1>1 DEF PushInv, SentIsPushed, E
  <2>2. \A u \in Task : Waiting(u)' /\ emit'[u].at \notin AtPush
          => \E i \in 1..Len(pushed) : pushed[i].id = emit'[u].ev.id
    BY <1>1 DEF PushInv, SentIsPushed, Waiting
  <2> QED BY <2>1, <2>2 DEF SentIsPushed
<1>4. OneEventPerId'
  <2>1. \A e \in InFlight' : e \in InFlight
    BY <1>1 DEF InFlight, Waiting
  <2>2. ToSet(ring') \cup ToSet(sent') \subseteq Visible
    BY <1>1 DEF Visible, E
  <2>3. \A e \in Visible' : e \in Visible
    BY <2>1, <2>2 DEF Visible
  <2> QED BY <2>3 DEF PushInv, OneEventPerId
<1> QED BY <1>2, <1>3, <1>4 DEF PushInv

\* An event is pushed.
LEMMA PushKeepsPushes ==
  ASSUME EventInv, EventInv', PushInv, NEW t \in Task, PushRing(t)
  PROVE  PushInv'
<1> DEFINE E == Emitted(emit[t].ev)
           x == [emit[t] EXCEPT !.at = "send"]
           on == emit[t].size > 0
           p == [id |-> emit[t].ev.id, kept |-> on, alone |-> emit[t].alone]
           longer == Append(ring, E)
<1>1. /\ Waiting(t) /\ emit[t].at = "push" /\ UNCHANGED <<next_event_id, sent>>
      /\ emit' = [emit EXCEPT ![t] = x]
      /\ ring' = IF on THEN LastOf(longer, emit[t].size) ELSE ring
      /\ pushed' = Append(pushed, p)
  BY DEF PushRing, Waiting
<1>2. /\ emit[t] \in Emission /\ E \in Event /\ E.id = emit[t].ev.id /\ emit[t].size \in Nat
      /\ E \in InFlight
  BY <1>1, EmittedType, EmittedFields, InFlightMember DEF EventInv, EmissionTypes
<1>3. x \in Emission /\ x.ev = emit[t].ev /\ x.at = "send"
  BY <1>2 DEF Emission, EmitAt
<1>4. emit'[t] = x /\ \A u \in Task : u # t => emit'[u] = emit[u]
  BY <1>1 DEF EventInv, EmissionTypes
<1>5. ring \in Seq(Event) /\ pushed \in Seq(Push) /\ p \in Push /\ p.id = E.id /\ p.kept = on
  <2>1. on \in BOOLEAN /\ emit[t].ev.id \in Id /\ emit[t].alone \in BOOLEAN
    BY <1>2, EmittedType DEF Emission
  <2> HIDE DEF on
  <2> QED BY <1>2, <2>1 DEF EventInv, SequenceTypes, PushInv, PushedOnce, Push
<1>6. /\ pushed' \in Seq(Push) /\ Len(pushed) \in Nat /\ Len(pushed') = Len(pushed) + 1
      /\ pushed'[Len(pushed) + 1] = p /\ \A i \in 1..Len(pushed) : pushed'[i] = pushed[i]
  BY <1>1, <1>5, AppendProperties
<1>7. /\ longer \in Seq(Event) /\ Len(ring) \in Nat /\ Len(longer) = Len(ring) + 1
      /\ longer[Len(ring) + 1] = E /\ \A a \in 1..Len(ring) : longer[a] = ring[a]
  BY <1>2, <1>5, AppendProperties
<1>8. ToSet(longer) = ToSet(ring) \cup {E}
  BY <1>2, <1>5, ToSetAppend
<1>9. \A i \in 1..Len(pushed) : pushed[i].id # E.id
  BY <1>1, <1>2 DEF PushInv, PushedOnce, AtPush
<1> HIDE DEF E, x, p, longer, on
<1>10. \A i \in 1..Len(pushed') : i = Len(pushed) + 1 \/ i \in 1..Len(pushed)
  BY <1>6
<1>11. PushedOnce'
  <2>1. \A i, j \in 1..Len(pushed') : pushed'[i].id = pushed'[j].id => i = j
    BY <1>5, <1>6, <1>9, <1>10 DEF PushInv, PushedOnce
  <2>2. \A i \in 1..Len(pushed') : pushed'[i].id <= next_event_id'
    <3>1. E.id <= next_event_id
      BY <1>1, <1>2 DEF EventInv, IdsCovered
    <3> QED BY <1>1, <1>5, <1>6, <1>10, <3>1 DEF PushInv, PushedOnce
  <2>3. ASSUME NEW u \in Task, Waiting(u)', emit'[u].at \in AtPush, NEW i \in 1..Len(pushed')
        PROVE  pushed'[i].id # emit'[u].ev.id
    <3>1. u # t /\ Waiting(u) /\ emit[u].at \in AtPush /\ emit'[u] = emit[u]
      BY <1>3, <1>4, <2>3 DEF AtPush, Waiting
    <3>2. emit[u].ev.id # E.id
      BY <1>1, <1>2, <3>1 DEF EventInv, IdsOnce
    <3> QED BY <1>5, <1>6, <1>10, <3>1, <3>2 DEF PushInv, PushedOnce
  <2> QED BY <1>6, <2>1, <2>2, <2>3 DEF PushedOnce
<1>12. SentIsPushed'
  <2>1. \A i \in 1..Len(pushed) : i \in 1..Len(pushed')
    BY <1>6
  <2>2. Len(pushed) + 1 \in 1..Len(pushed')
    BY <1>6
  <2>3. \A e \in ToSet(sent') : \E i \in 1..Len(pushed') : pushed'[i].id = e.id
    BY <1>1, <1>6, <2>1 DEF PushInv, SentIsPushed
  <2>4. ASSUME NEW u \in Task, Waiting(u)', emit'[u].at \notin AtPush
        PROVE  \E i \in 1..Len(pushed') : pushed'[i].id = emit'[u].ev.id
    <3>1. CASE u = t
      BY <1>2, <1>3, <1>4, <1>5, <1>6, <2>2, <3>1
    <3>2. CASE u # t
      <4>1. Waiting(u) /\ emit[u].at \notin AtPush /\ emit'[u] = emit[u]
        BY <1>4, <2>4, <3>2 DEF Waiting
      <4>2. PICK i \in 1..Len(pushed) : pushed[i].id = emit[u].ev.id
        BY <4>1 DEF PushInv, SentIsPushed
      <4> QED BY <1>6, <2>1, <4>1, <4>2
    <3> QED BY <3>1, <3>2
  <2> QED BY <2>3, <2>4 DEF SentIsPushed
<1>13. OneEventPerId'
  <2>1. \A e \in InFlight' : e \in InFlight
    BY <1>1, <1>3, <1>4 DEF InFlight, Waiting
  <2>2. ToSet(ring') \subseteq ToSet(ring) \cup {E}
    BY <1>1, <1>2, <1>7, <1>8, LastOfProperties
  <2>3. \A e \in Visible' : e \in Visible
    BY <1>1, <1>2, <2>1, <2>2 DEF Visible
  <2> QED BY <2>3 DEF PushInv, OneEventPerId
<1>14. RingOfPushes(ring', pushed')
  <2>1. /\ RingOfPushes(ring, pushed)
        /\ \A i \in 1..Len(pushed) : pushed'[i] = pushed[i] /\ pushed[i].id # E.id
        /\ pushed'[Len(pushed) + 1].id = E.id /\ pushed'[Len(pushed) + 1].kept = on
    BY <1>5, <1>6, <1>9 DEF PushInv
  <2>2. CASE on
    <3>1. pushed'[Len(pushed) + 1].kept
      BY <2>1, <2>2
    <3>2. RingOfPushes(longer, pushed')
      <4>1. Len(pushed') = Len(pushed) + 1 /\ Len(pushed) \in Nat
        BY <1>6
      <4>2. Len(longer) = Len(ring) + 1 /\ Len(ring) \in Nat /\ longer[Len(ring) + 1] = E
        BY <1>7
      <4>3. \A a \in 1..Len(ring) : longer[a] = ring[a]
        BY <1>7
      <4> QED BY <2>1, <3>1, <4>1, <4>2, <4>3, PushedInto, Z3T(30)
    <3> QED BY <1>1, <1>2, <1>6, <1>7, <2>2, <3>2, RingCut
  <2>3. CASE ~on
    <3>1. RingOfPushes(ring, pushed')
      BY <1>6, <2>1, <2>3, PushedPast
    <3> QED BY <1>1, <2>3, <3>1
  <2> QED BY <2>2, <2>3
<1> QED BY <1>11, <1>12, <1>13, <1>14 DEF PushInv

LEMMA PushInvKept == EventInv /\ EventInv' /\ PushInv /\ [Next]_vars => PushInv'
<1> SUFFICES ASSUME EventInv, EventInv', PushInv, [Next]_vars PROVE PushInv'
  OBVIOUS
<1>1. ASSUME UNCHANGED <<next_event_id, ring, sent, pushed, emit>> PROVE PushInv'
  BY <1>1 DEF PushInv, PushedOnce, SentIsPushed, OneEventPerId, Visible, InFlight, Waiting
<1>2. "worker" \in Task /\ "handler" \in Task
  BY DEF Task
<1>3. \A t \in Task : Waiting(t) => emit[t] \in Emission
  BY DEF EventInv, EmissionTypes
<1>4. ASSUME NEW t \in Task, NEW ev, NEW at \in AtPush, ev.id = next_event_id + 1,
             emit' = [emit EXCEPT ![t] = [ev |-> ev, at |-> at, size |-> ring_size, alone |-> TRUE]],
             next_event_id' = next_event_id + 1, UNCHANGED <<ring, sent, pushed>>
      PROVE  PushInv'
  <2> DEFINE x == [ev |-> ev, at |-> at, size |-> ring_size, alone |-> TRUE]
  <2>1. x.ev = ev /\ x.at = at
    OBVIOUS
  <2> HIDE DEF x
  <2> QED BY <1>4, <2>1, AllocKeepsPushes DEF x
<1>5. ASSUME NEW k \in Kind, AllocAgentEvent(k) PROVE PushInv'
  <2> DEFINE ev == [id |-> next_event_id + 1, kind |-> k]
  <2>1. /\ emit' = [emit EXCEPT !["worker"] = [ev |-> ev, at |-> "apply", size |-> ring_size, alone |-> TRUE]]
        /\ next_event_id' = next_event_id + 1 /\ UNCHANGED <<ring, sent, pushed>>
    BY <1>5 DEF AllocAgentEvent, Enter, published, file
  <2>2. ev.id = next_event_id + 1 /\ "apply" \in AtPush
    BY DEF AtPush
  <2> HIDE DEF ev
  <2> QED BY <1>2, <1>4, <2>1, <2>2
<1>6. CASE AllocHandlerEvent
  <2> DEFINE ev == [id |-> next_event_id + 1, kind |-> "goal"]
  <2>1. /\ emit' = [emit EXCEPT !["handler"] = [ev |-> ev, at |-> "append", size |-> ring_size, alone |-> TRUE]]
        /\ next_event_id' = next_event_id + 1 /\ UNCHANGED <<ring, sent, pushed>>
    BY <1>6 DEF AllocHandlerEvent, Enter, published, file
  <2>2. ev.id = next_event_id + 1 /\ "append" \in AtPush
    BY DEF AtPush
  <2> HIDE DEF ev
  <2> QED BY <1>2, <1>4, <2>1, <2>2
<1>7. ASSUME NEW t \in Task, NEW at \in AtPush, Waiting(t), emit[t].at \in AtPush,
             emit' = [emit EXCEPT ![t] = [ev |-> emit[t].ev, at |-> at, size |-> ring_size, alone |-> TRUE]],
             UNCHANGED <<next_event_id, ring, sent, pushed>>
      PROVE  PushInv'
  <2> DEFINE x == [ev |-> emit[t].ev, at |-> at, size |-> ring_size, alone |-> TRUE]
  <2>1. x.ev = emit[t].ev /\ x.at = at
    OBVIOUS
  <2>2. emit'[t] = x /\ \A u \in Task : u # t => emit'[u] = emit[u]
    BY <1>7 DEF EventInv, EmissionTypes
  <2> HIDE DEF x
  <2> QED BY <1>7, <2>1, <2>2, EmissionKeepsPushes DEF x
<1>8. ASSUME NEW t \in Task, Waiting(t), emit' = [emit EXCEPT ![t] = NULL],
             UNCHANGED <<next_event_id, ring, sent, pushed>>
      PROVE  PushInv'
  <2>1. emit'[t] = NULL /\ \A u \in Task : u # t => emit'[u] = emit[u]
    BY <1>8 DEF EventInv, EmissionTypes
  <2> QED BY <1>8, <2>1, EmissionKeepsPushes
<1>9. CASE ApplySnapshot
  <2> DEFINE at == IF emit["worker"].ev.kind \notin Ephemeral THEN "append" ELSE "push"
  <2>1. /\ Waiting("worker") /\ emit["worker"].at = "apply"
        /\ emit' = [emit EXCEPT !["worker"] = [ev |-> emit["worker"].ev, at |-> at, size |-> ring_size, alone |-> TRUE]]
        /\ UNCHANGED <<next_event_id, ring, sent, pushed>>
    BY <1>9 DEF ApplySnapshot, Enter, published, file, Waiting
  <2>2. at \in AtPush /\ "apply" \in AtPush
    BY DEF AtPush
  <2> HIDE DEF at
  <2> QED BY <1>2, <1>7, <2>1, <2>2
<1>10. CASE SettleMessage
  BY <1>2, <1>8, <1>10 DEF SettleMessage, published, file, Waiting
<1>11. ASSUME NEW t \in Task, Emit(t) PROVE PushInv'
  <2>0. ASSUME NEW piece \in Event \cup {NULL}, NEW x, Write(t, piece, x), Waiting(t),
               x # NULL => x.ev = emit[t].ev /\ (x.at \in AtPush <=> emit[t].at \in AtPush),
               UNCHANGED <<next_event_id, log, ring, sent, pushed>>
        PROVE  PushInv'
    <3>1. /\ emit'[t] = x
          /\ \A u \in Task : u # t =>
                \/ emit'[u] = emit[u]
                \/ Waiting(u) /\ emit'[u].ev = emit[u].ev /\ emit'[u].at = emit[u].at
      BY <2>0, Written
    <3> QED BY <2>0, <3>1, EmissionKeepsPushes
  <2>1. CASE WriteEvent(t)
    <3> DEFINE piece == Emitted(emit[t].ev)
               x == [emit[t] EXCEPT !.at = "newline", !.alone = unfinished = <<>>]
    <3>1. /\ Waiting(t) /\ emit[t].at = "append" /\ Write(t, piece, x)
          /\ UNCHANGED <<next_event_id, log, ring, sent, pushed>>
      BY <2>1 DEF WriteEvent, Waiting
    <3>2. piece \in Event /\ x.ev = emit[t].ev /\ x.at \in AtPush /\ emit[t].at \in AtPush
      BY <1>3, <3>1, EmittedType DEF Emission, AtPush
    <3> HIDE DEF piece, x
    <3> QED BY <2>0, <3>1, <3>2
  <2>5. CASE FinishLine(t)
    <3> DEFINE x == [emit[t] EXCEPT !.at = "push", !.size = ring_size]
    <3>1. /\ Waiting(t) /\ emit[t].at = "newline" /\ UNCHANGED <<next_event_id, ring, sent, pushed>>
          /\ emit'[t] = x /\ \A u \in Task : u # t => emit'[u] = emit[u]
      BY <2>5 DEF FinishLine, Waiting, EventInv, EmissionTypes
    <3>2. x.ev = emit[t].ev /\ x.at \in AtPush /\ emit[t].at \in AtPush
      BY <1>3, <3>1 DEF Emission, AtPush
    <3> HIDE DEF x
    <3> QED BY <3>1, <3>2, EmissionKeepsPushes
  <2>2. CASE AppendFails(t)
    <3>1. Waiting(t) /\ UNCHANGED <<next_event_id, log, ring, sent, pushed>>
      BY <2>2 DEF AppendFails, Waiting
    <3>2. CASE emit' = [emit EXCEPT ![t] = NULL]
      BY <1>8, <3>1, <3>2
    <3>3. CASE Write(t, NULL, NULL)
      BY <2>0, <3>1, <3>3
    <3> QED BY <2>2, <3>2, <3>3 DEF AppendFails
  <2>3. CASE PushRing(t)
    BY <2>3, PushKeepsPushes
  <2>4. CASE SendEvent(t)
    <3> DEFINE x == IF emit[t].ev.kind = "message" THEN [emit[t] EXCEPT !.at = "settle"] ELSE NULL
               E == Emitted(emit[t].ev)
    <3>1. /\ Waiting(t) /\ emit[t].at = "send" /\ emit' = [emit EXCEPT ![t] = x]
          /\ sent' = Append(sent, E) /\ UNCHANGED <<next_event_id, ring, pushed>>
      BY <2>4 DEF SendEvent, Waiting
    <3>2. x # NULL => x.ev = emit[t].ev /\ x.at = "settle"
      BY <1>3, <3>1 DEF Emission
    <3>3. ToSet(sent') = ToSet(sent) \cup {E}
      <4>1. E \in Event /\ sent \in Seq(Event)
        BY <1>3, <3>1, EmittedType DEF EventInv, SequenceTypes
      <4> HIDE DEF E
      <4> QED BY <3>1, <4>1, ToSetAppend
    <3>4. "send" \notin AtPush /\ "settle" \notin AtPush
      BY DEF AtPush
    <3>5. emit'[t] = x /\ \A u \in Task : u # t => emit'[u] = emit[u]
      BY <3>1 DEF EventInv, EmissionTypes
    <3> HIDE DEF x
    <3> QED BY <3>1, <3>2, <3>3, <3>4, <3>5, EmissionKeepsPushes
  <2> QED BY <1>11, <2>1, <2>2, <2>3, <2>4, <2>5 DEF Emit
<1>12. ASSUME NEW n \in RingSizes, ResizeRing(n) PROVE PushInv'
  <2>1. /\ ring' = LastOf(ring, n) /\ n \in Nat /\ UNCHANGED <<next_event_id, sent, pushed, emit>>
    BY <1>12, EventBounds DEF ResizeRing
  <2>2. ToSet(ring') \subseteq ToSet(ring)
    BY <2>1, LastOfProperties DEF EventInv, SequenceTypes
  <2>3. OneEventPerId'
    <3>1. \A e \in Visible' : e \in Visible
      BY <2>1, <2>2 DEF Visible, InFlight, Waiting
    <3> QED BY <3>1 DEF PushInv, OneEventPerId
  <2>4. RingOfPushes(ring', pushed')
    BY <2>1, RingCut DEF EventInv, SequenceTypes, PushInv, PushedOnce
  <2>5. PushedOnce' /\ SentIsPushed'
    BY <2>1 DEF PushInv, PushedOnce, SentIsPushed, Waiting
  <2> QED BY <2>3, <2>4, <2>5 DEF PushInv
<1>13. CASE Restart
  <2>1. ring' = <<>> /\ sent' = <<>> /\ pushed' = <<>> /\ emit' = [t \in Task |-> NULL]
    BY <1>13 DEF Restart
  <2>2. /\ Len(pushed') = 0 /\ Len(ring') = 0 /\ pushed' \in Seq(Push)
        /\ ToSet(ring') = {} /\ ToSet(sent') = {}
    BY <2>1 DEF ToSet
  <2>3. \A t \in Task : ~Waiting(t)'
    BY <2>1 DEF Waiting
  <2> QED BY <2>1, <2>2, <2>3 DEF PushInv, PushedOnce, SentIsPushed, OneEventPerId, Visible, InFlight,
             RingOfPushes, WasPushed, InPushOrder, IsLastPushed
<1>14. CASE (\E c \in Clients : ClientStep(c)) \/ UNCHANGED vars
  BY <1>1, <1>14 DEF ClientStep, Connect, ReadBacklog, Subscribe, Receive, Lag, Disconnect, published, file, vars
<1> QED BY <1>5, <1>6, <1>9, <1>10, <1>11, <1>12, <1>13, <1>14 DEF Next

-----------------------------------------------------------------------------
\* The ring has every event once.
LEMMA RingDistinct ==
  ASSUME PushInv, ring \in Seq(Event)
  PROVE  Distinct(ring)
<1> SUFFICES ASSUME NEW a \in 1..Len(ring), NEW b \in 1..Len(ring), ring[a] = ring[b], a < b
             PROVE  FALSE
  <2>1. \A a, b \in 1..Len(ring) : a < b \/ b < a \/ a = b
    OBVIOUS
  <2> QED BY <2>1 DEF Distinct
<1>1. PICK i \in 1..Len(pushed) : pushed[i].id = ring[a].id
  BY DEF PushInv, RingOfPushes, WasPushed
<1>2. i < i
  BY <1>1 DEF PushInv, RingOfPushes, InPushOrder
<1>3. i \in Nat
  OBVIOUS
<1> QED BY <1>2, <1>3

\* What is read of the file has every event once.
LEMMA ReadableDistinct ==
  ASSUME EventInv PROVE Distinct(Readable)
  BY DEF EventInv, IdsOnce, Distinct

-----------------------------------------------------------------------------
(***************************************************************************)
(* What a client has: its backlog covers what was sent when it was read,   *)
(* and after it comes what was sent since it subscribed.                   *)
(***************************************************************************)
Follower == [at : ClientAt, after : Nat, got : Seq(Event), base : SUBSET Event,
             from : Nat, rx : Nat, pos : Nat]

Lost(e) == Overtook(e.id) \/ Bypassed(e.id) \/ Glued(e.id)

Covers(k) ==
    k.at \in {"subscribe", "streaming"} =>
        /\ k.from <= Len(sent) /\ Cardinality(k.base) \in Nat
        /\ \A i \in 1..k.from :
              sent[i].durable /\ sent[i].id > k.after => sent[i] \in k.base \/ Lost(sent[i])

Continues(k) ==
    /\ k.at = "subscribe" => Len(k.got) = Cardinality(k.base)
    /\ k.at = "streaming" =>
          /\ k.rx <= k.pos /\ k.pos <= Len(sent)
          /\ Len(k.got) = Cardinality(k.base) + (k.pos - k.rx)
          /\ \A j \in 1..k.pos - k.rx : k.got[Cardinality(k.base) + j] = sent[k.rx + j]

ClientInv ==
    /\ last_event_id \in Nat
    /\ client \in [Clients -> Follower]
    /\ \A c \in Clients : Covers(client[c]) /\ Continues(client[c])

LEMMA NoClientFollows ==
  /\ NoClient \in Follower /\ Covers(NoClient) /\ Continues(NoClient)
<1>1. NoClient.at = "off"
  BY DEF NoClient
<1>2. NoClient \in Follower
  BY DEF NoClient, Follower, ClientAt
<1> QED BY <1>1, <1>2 DEF Covers, Continues

LEMMA ClientInvInit == Init => ClientInv
  BY NoClientFollows DEF Init, ClientInv

\* The client of c changes and nothing else that matters.
LEMMA OneClient ==
  ASSUME ClientInv, UNCHANGED <<last_event_id, sent, pushed>>, NEW c \in Clients, NEW k \in Follower,
         client' = [client EXCEPT ![c] = k], Covers(k), Continues(k)
  PROVE  ClientInv'
<1>1. /\ client' \in [Clients -> Follower] /\ client'[c] = k
      /\ \A d \in Clients : d # c => client'[d] = client[d]
  BY DEF ClientInv
<1>2. ASSUME NEW d \in Clients PROVE Covers(client[d])' /\ Continues(client[d])'
  <2>1. CASE d = c
    <3>1. client'[d] = k
      BY <1>1, <2>1
    <3> QED BY <3>1 DEF Covers, Continues, Lost, Overtook, Bypassed, Glued
  <2>2. CASE d # c
    <3>1. client'[d] = client[d] /\ Covers(client[d]) /\ Continues(client[d])
      BY <1>1, <2>2 DEF ClientInv
    <3> QED BY <3>1 DEF Covers, Continues, Lost, Overtook, Bypassed, Glued
  <2> QED BY <2>1, <2>2
<1> QED BY <1>1, <1>2 DEF ClientInv

\* What is sent and pushed is added at the end: what was lost stays lost, and clients
\* have what they had.
LEMMA ClientsKeep ==
  ASSUME EventInv, EventInv', PushInv, PushInv', ClientInv, last_event_id' \in Nat, UNCHANGED client,
         sent' = sent \/ \E e \in Event : sent' = Append(sent, e),
         pushed' = pushed \/ \E p \in Push : pushed' = Append(pushed, p)
  PROVE  ClientInv'
<1>1. /\ Len(sent) \in Nat /\ Len(sent') \in Nat /\ Len(sent) <= Len(sent')
      /\ \A i \in 1..Len(sent) : sent'[i] = sent[i]
  <2>1. sent \in Seq(Event)
    BY DEF EventInv, SequenceTypes
  <2>2. CASE sent' = sent
    BY <2>1, <2>2
  <2>3. CASE \E e \in Event : sent' = Append(sent, e)
    BY <2>1, <2>3, AppendProperties
  <2> QED BY <2>2, <2>3
<1>2. \A i \in 1..Len(pushed) : i \in 1..Len(pushed') /\ pushed'[i] = pushed[i]
  <2>1. pushed \in Seq(Push)
    BY DEF PushInv, PushedOnce
  <2>2. CASE pushed' = pushed
    BY <2>1, <2>2
  <2>3. CASE \E p \in Push : pushed' = Append(pushed, p)
    BY <2>1, <2>3, AppendProperties
  <2> QED BY <2>2, <2>3
<1>3. ASSUME NEW e, Lost(e) PROVE Lost(e)'
  <2>1. CASE Overtook(e.id)
    BY <1>2, <2>1 DEF Overtook, Lost
  <2>2. CASE Bypassed(e.id)
    BY <1>2, <2>2 DEF Bypassed, Lost
  <2>3. CASE Glued(e.id)
    BY <1>2, <2>3 DEF Glued, Lost
  <2> QED BY <1>3, <2>1, <2>2, <2>3 DEF Lost
<1>4. ASSUME NEW c \in Clients PROVE Covers(client[c])' /\ Continues(client[c])'
  <2>1. PICK k \in Follower : client[c] = k /\ client'[c] = k /\ Covers(k) /\ Continues(k)
    BY DEF ClientInv
  <2>2. k.from \in Nat /\ k.rx \in Nat /\ k.pos \in Nat
    BY DEF Follower
  <2>3. Covers(k)'
    <3> SUFFICES ASSUME k.at \in {"subscribe", "streaming"}
                 PROVE  /\ k.from <= Len(sent') /\ Cardinality(k.base) \in Nat
                        /\ \A i \in 1..k.from : sent'[i].durable /\ sent'[i].id > k.after
                              => sent'[i] \in k.base \/ Lost(sent[i])'
      BY DEF Covers
    <3>1. k.from <= Len(sent) /\ k.from <= Len(sent') /\ Cardinality(k.base) \in Nat
      BY <1>1, <2>1, <2>2 DEF Covers
    <3>2. ASSUME NEW i \in 1..k.from, sent'[i].durable, sent'[i].id > k.after
          PROVE  sent'[i] \in k.base \/ Lost(sent[i])'
      <4>1. i \in 1..Len(sent)
        BY <1>1, <2>2, <3>1
      <4>2. PICK e : e = sent[i] /\ e = sent'[i]
        BY <1>1, <4>1
      <4>3. e \in k.base \/ Lost(e)
        BY <2>1, <3>2, <4>2 DEF Covers
      <4>4. Lost(e)' => Lost(sent[i])'
        BY <4>2 DEF Lost, Overtook, Bypassed, Glued
      <4> QED BY <1>3, <4>2, <4>3, <4>4
    <3> QED BY <3>1, <3>2
  <2>4. Continues(k)'
    <3>1. CASE k.at = "streaming"
      <4>1. /\ k.rx <= k.pos /\ k.pos <= Len(sent)
            /\ Len(k.got) = Cardinality(k.base) + (k.pos - k.rx)
            /\ \A j \in 1..k.pos - k.rx : k.got[Cardinality(k.base) + j] = sent[k.rx + j]
        BY <2>1, <3>1 DEF Continues
      <4>2. \A j \in 1..k.pos - k.rx : k.rx + j \in 1..Len(sent)
        <5>1. \A p, r, n \in Nat : r <= p /\ p <= n => \A j \in 1..p - r : r + j \in 1..n
          OBVIOUS
        <5>2. Len(sent) \in Nat
          BY <1>1
        <5>3. k.rx <= k.pos /\ k.pos <= Len(sent)
          BY <4>1
        <5> QED BY <2>2, <5>1, <5>2, <5>3
      <4>3. \A j \in 1..k.pos - k.rx : k.got[Cardinality(k.base) + j] = sent'[k.rx + j]
        BY <1>1, <4>1, <4>2
      <4>4. k.pos <= Len(sent')
        BY <1>1, <2>2, <4>1
      <4> QED BY <3>1, <4>1, <4>3, <4>4 DEF Continues
    <3>2. CASE k.at # "streaming"
      BY <2>1, <3>2 DEF Continues
    <3> QED BY <3>1, <3>2
  <2>5. (Covers(k)' => Covers(client[c])') /\ (Continues(k)' => Continues(client[c])')
    BY <2>1 DEF Covers, Continues, Lost
  <2> QED BY <2>3, <2>4, <2>5
<1> QED BY <1>4 DEF ClientInv

\* The backlog has every durable event that was sent after n, or it was lost on its way
\* to the file or the ring.
LEMMA BacklogCovers ==
  ASSUME EventInv, PushInv, NEW n \in Nat
  PROVE  /\ Backlog(n) \in Seq(Event) /\ Distinct(Backlog(n))
         /\ \A e \in ToSet(sent) : e.durable /\ e.id > n => e \in ToSet(Backlog(n)) \/ Lost(e)
<1>1. log \in Seq(Event) /\ ring \in Seq(Event) /\ sent \in Seq(Event) /\ pushed \in Seq(Push)
  BY DEF EventInv, SequenceTypes, PushInv, PushedOnce
<1>2. CASE ring = <<>> \/ n + 1 < Head(ring).id
  <2>1. Backlog(n) = After(Readable, n)
    BY <1>2 DEF Backlog, FileAfter
  <2>2. Readable \in Seq(Event) /\ ToSet(log) \subseteq ToSet(Readable)
    BY ReadableLines DEF EventInv, SequenceTypes
  <2>3. \A e \in ToSet(sent) : e.durable => e \in ToSet(Readable) \/ Lost(e)
    BY <2>2 DEF EventInv, FileFirst, Lost
  <2> QED BY <2>1, <2>2, <2>3, AfterProperties, ReadableDistinct
<1>3. CASE ~(ring = <<>> \/ n + 1 < Head(ring).id)
  <2>1. Backlog(n) = After(ring, n)
    BY <1>3 DEF Backlog
  <2>2. /\ Backlog(n) \in Seq(Event) /\ Distinct(Backlog(n))
        /\ ToSet(Backlog(n)) = {e \in ToSet(ring) : e.id > n}
    BY <1>1, <2>1, AfterProperties, RingDistinct
  <2>3. 1 \in 1..Len(ring) /\ Head(ring) = ring[1] /\ ring[1] \in ToSet(ring)
    BY <1>1, <1>3, InToSet
  <2>4. ASSUME NEW e \in ToSet(sent), e.id > n, e \notin ToSet(ring) PROVE Lost(e)
    <3>1. e \in Event /\ ring[1] \in Event /\ e.id \in Nat /\ ring[1].id \in Nat
      <4>1. e \in Event /\ ring[1] \in Event
        BY <1>1, <2>3, InToSet
      <4> QED BY <4>1, EventBounds DEF Event, Id
    <3>2. \A r \in ToSet(ring) : r.id # e.id
      BY <2>4 DEF PushInv, OneEventPerId, Visible
    <3>3. ring[1].id < e.id
      <4>1. ~(n + 1 < ring[1].id) /\ ring[1].id # e.id
        BY <1>3, <2>3, <3>2
      <4> QED BY <2>4, <3>1, <4>1
    <3>4. PICK j \in 1..Len(pushed) : pushed[j].id = e.id
      BY DEF PushInv, SentIsPushed
    <3>5. PICK h \in 1..Len(pushed) : pushed[h].kept /\ pushed[h].id = ring[1].id
      BY <2>3 DEF PushInv, RingOfPushes, WasPushed
    <3>6. h # j
      BY <3>1, <3>3, <3>4, <3>5
    <3>7. CASE j < h
      BY <3>3, <3>4, <3>5, <3>7 DEF Lost, Overtook
    <3>8. CASE h < j
      <4>1. CASE ~pushed[j].kept
        BY <3>4, <3>5, <3>8, <4>1 DEF Lost, Bypassed
      <4>2. CASE pushed[j].kept
        <5>1. ~\E a \in 1..Len(ring) : ring[a].id = pushed[j].id
          BY <1>1, <3>2, <3>4, InToSet
        <5>2. Before(j, ring, pushed)
          BY <4>2, <5>1 DEF PushInv, RingOfPushes, IsLastPushed
        <5>3. j < h
          BY <2>3, <3>5, <5>2 DEF Before
        <5> QED BY <3>7, <5>3
      <4> QED BY <4>1, <4>2
    <3> QED BY <3>6, <3>7, <3>8
  <2> QED BY <2>2, <2>4
<1> QED BY <1>2, <1>3

-----------------------------------------------------------------------------
\* The steps of a client.
LEMMA ClientSteps ==
  ASSUME EventInv, SnapshotInv, PushInv, ClientInv, NEW c \in Clients, ClientStep(c)
  PROVE  ClientInv'
<1> DEFINE k == client[c]
<1>1. k \in Follower /\ Covers(k) /\ Continues(k) /\ last_event_id \in Nat
  BY DEF ClientInv
<1>2. UNCHANGED <<last_event_id, sent, pushed>>
  BY DEF ClientStep, Connect, ReadBacklog, Subscribe, Receive, Lag, Disconnect, published
<1>3. sent \in Seq(Event) /\ Len(sent) \in Nat
  BY DEF EventInv, SequenceTypes
<1>4. /\ k.after \in Nat /\ k.got \in Seq(Event) /\ k.base \in SUBSET Event
      /\ k.from \in Nat /\ k.rx \in Nat /\ k.pos \in Nat /\ k.at \in ClientAt
  BY <1>1 DEF Follower
<1>5. CASE Connect(c)
  <2>1. PICK n \in {0, IF stream # NULL THEN stream.last ELSE last_event_id} :
           client' = [client EXCEPT ![c] = [NoClient EXCEPT !.at = "backlog", !.after = n]]
    BY <1>5 DEF Connect
  <2>2. n \in Nat
    BY <1>1, <2>1 DEF SnapshotInv, Snapshot
  <2> DEFINE x == [NoClient EXCEPT !.at = "backlog", !.after = n]
  <2>3. x \in Follower /\ x.at = "backlog"
    BY <2>2, NoClientFollows DEF Follower, ClientAt
  <2> HIDE DEF x
  <2>4. Covers(x) /\ Continues(x)
    BY <2>3 DEF Covers, Continues
  <2> QED BY <1>2, <2>1, <2>3, <2>4, OneClient DEF x
<1>6. CASE ReadBacklog(c)
  <2> DEFINE back == Backlog(k.after)
             x == [k EXCEPT !.at = "subscribe", !.got = back, !.base = ToSet(back),
                            !.from = Len(sent)]
  <2>1. client' = [client EXCEPT ![c] = x]
    BY <1>6 DEF ReadBacklog
  <2>2. /\ back \in Seq(Event) /\ Distinct(back)
        /\ \A e \in ToSet(sent) : e.durable /\ e.id > k.after => e \in ToSet(back) \/ Lost(e)
    BY <1>4, BacklogCovers
  <2>3. IsFiniteSet(ToSet(back)) /\ Cardinality(ToSet(back)) = Len(back) /\ Len(back) \in Nat
    BY <2>2, DistinctCardinality
  <2>4. ToSet(back) \subseteq Event
    BY <2>2, InToSet
  <2> HIDE DEF back
  <2>5. /\ x \in Follower /\ x.at = "subscribe" /\ x.got = back /\ x.base = ToSet(back)
        /\ x.from = Len(sent) /\ x.after = k.after
    BY <1>1, <1>3, <2>2, <2>4 DEF Follower, ClientAt
  <2> HIDE DEF x, k
  <2>6. Covers(x)
    <3>1. \A i \in 1..Len(sent) : sent[i] \in ToSet(sent)
      BY <1>3, InToSet
    <3> QED BY <1>3, <2>2, <2>3, <2>5, <3>1 DEF Covers
  <2>7. Continues(x)
    BY <2>3, <2>5 DEF Continues
  <2> QED BY <1>2, <2>1, <2>5, <2>6, <2>7, OneClient
<1>7. CASE Subscribe(c)
  <2> DEFINE x == [k EXCEPT !.at = "streaming", !.rx = Len(sent), !.pos = Len(sent)]
  <2>1. client' = [client EXCEPT ![c] = x] /\ k.at = "subscribe"
    BY <1>7 DEF Subscribe
  <2>2. /\ x \in Follower /\ x.at = "streaming" /\ x.rx = Len(sent) /\ x.pos = Len(sent)
        /\ x.got = k.got /\ x.base = k.base /\ x.from = k.from /\ x.after = k.after
    BY <1>1, <1>3 DEF Follower, ClientAt
  <2> HIDE DEF x, k
  <2>3. Covers(x)
    BY <1>1, <2>1, <2>2 DEF Covers
  <2>4. Continues(x)
    <3>1. Len(k.got) = Cardinality(k.base) /\ Cardinality(k.base) \in Nat
      BY <1>1, <2>1 DEF Covers, Continues
    <3> QED BY <1>3, <2>2, <3>1 DEF Continues
  <2> QED BY <1>2, <2>1, <2>2, <2>3, <2>4, OneClient
<1>8. CASE Receive(c)
  <2> DEFINE e == sent[k.pos + 1]
             g == Append(k.got, e)
             x == [k EXCEPT !.pos = k.pos + 1, !.got = g]
             b == Cardinality(k.base)
  <2>1. client' = [client EXCEPT ![c] = x] /\ k.at = "streaming" /\ k.pos < Len(sent)
    BY <1>8 DEF Receive, ClientInv, Follower
  <2>2. k.pos + 1 \in 1..Len(sent) /\ e \in Event
    BY <1>3, <1>4, <2>1
  <2> HIDE DEF e
  <2>3. /\ g \in Seq(Event) /\ Len(g) = Len(k.got) + 1 /\ Len(k.got) \in Nat
        /\ g[Len(k.got) + 1] = e /\ \A i \in 1..Len(k.got) : g[i] = k.got[i]
    BY <1>4, <2>2, AppendProperties
  <2> HIDE DEF g
  <2>4. /\ x \in Follower /\ x.at = "streaming" /\ x.rx = k.rx /\ x.pos = k.pos + 1
        /\ x.got = g /\ x.base = k.base /\ x.from = k.from /\ x.after = k.after
    <3> DEFINE n == k.pos + 1
    <3>1. n \in Nat
      BY <1>4
    <3> HIDE DEF n, k
    <3>2. LET y == [k EXCEPT !.pos = n, !.got = g]
          IN  /\ y \in Follower /\ y.at = k.at /\ y.rx = k.rx /\ y.pos = n
              /\ y.got = g /\ y.base = k.base /\ y.from = k.from /\ y.after = k.after
      BY <1>1, <2>3, <3>1 DEF Follower
    <3> QED BY <2>1, <3>2 DEF n
  <2> HIDE DEF x, b, k
  <2>5. Covers(x)
    BY <1>1, <2>1, <2>4 DEF Covers
  <2>6. Continues(x)
    <3> DEFINE rx == k.rx
               pos == k.pos
               got == k.got
    <3>1. /\ b \in Nat /\ rx \in Nat /\ pos \in Nat /\ rx <= pos /\ pos < Len(sent)
          /\ Len(got) = b + (pos - rx)
          /\ \A j \in 1..pos - rx : got[b + j] = sent[rx + j]
      BY <1>1, <1>4, <2>1 DEF Covers, Continues, b
    <3>2. Len(g) = Len(got) + 1 /\ g[Len(got) + 1] = sent[pos + 1]
          /\ \A i \in 1..Len(got) : g[i] = got[i]
      BY <2>3 DEF e
    <3> HIDE DEF rx, pos, got
    <3>3. Len(g) = b + ((pos + 1) - rx)
      BY <3>1, <3>2
    <3>4. ASSUME NEW j \in 1..(pos + 1) - rx PROVE g[b + j] = sent[rx + j]
      <4>1. CASE j = (pos + 1) - rx
        <5>1. b + j = Len(got) + 1 /\ rx + j = pos + 1
          BY <3>1, <4>1
        <5> QED BY <3>2, <5>1
      <4>2. CASE j # (pos + 1) - rx
        <5>1. j \in 1..pos - rx /\ b + j \in 1..Len(got)
          BY <3>1, <4>2
        <5> QED BY <3>1, <3>2, <5>1
      <4> QED BY <4>1, <4>2
    <3>5. rx <= pos + 1 /\ pos + 1 <= Len(sent)
      BY <1>3, <3>1
    <3> QED BY <2>4, <3>3, <3>4, <3>5 DEF Continues, rx, pos, b
  <2> QED BY <1>2, <2>1, <2>4, <2>5, <2>6, OneClient
<1>9. CASE Lag(c) \/ Disconnect(c)
  BY <1>2, <1>9, OneClient, NoClientFollows DEF Lag, Disconnect
<1> QED BY <1>5, <1>6, <1>7, <1>8, <1>9 DEF ClientStep

\* The steps of everything else.
LEMMA ClientInvKept ==
  EventInv /\ EventInv' /\ SnapshotInv /\ PushInv /\ PushInv' /\ ClientInv /\ [Next]_vars => ClientInv'
<1> SUFFICES ASSUME EventInv, EventInv', SnapshotInv, PushInv, PushInv', ClientInv, [Next]_vars
             PROVE  ClientInv'
  OBVIOUS
<1>1. last_event_id \in Nat
  BY DEF ClientInv
<1>2. ASSUME UNCHANGED <<last_event_id, sent, pushed, client>> PROVE ClientInv'
  BY <1>1, <1>2, ClientsKeep
<1>3. ASSUME NEW t \in Task, Emit(t) PROVE ClientInv'
  <2>1. CASE WriteEvent(t) \/ FinishLine(t) \/ AppendFails(t)
    BY <1>2, <2>1 DEF WriteEvent, FinishLine, AppendFails
  <2>2. CASE PushRing(t)
    <3>1. emit[t] # NULL /\ UNCHANGED <<last_event_id, sent, client>>
          /\ pushed' = Append(pushed, [id |-> emit[t].ev.id, kept |-> emit[t].size > 0, alone |-> emit[t].alone])
      BY <2>2 DEF PushRing
    <3>2. [id |-> emit[t].ev.id, kept |-> emit[t].size > 0, alone |-> emit[t].alone] \in Push
      BY <3>1 DEF EventInv, EmissionTypes, Waiting, Emission, Push
    <3> QED BY <1>1, <3>1, <3>2, ClientsKeep
  <2>3. CASE SendEvent(t)
    <3> DEFINE E == Emitted(emit[t].ev)
    <3>1. /\ Waiting(t) /\ UNCHANGED <<pushed, client>> /\ sent' = Append(sent, E)
          /\ last_event_id' = IF emit[t].ev.id > last_event_id THEN emit[t].ev.id ELSE last_event_id
      BY <2>3 DEF SendEvent, Waiting
    <3>2. E \in Event /\ emit[t].ev.id \in Nat
      BY <3>1, EmittedType DEF EventInv, EmissionTypes
    <3>3. last_event_id' \in Nat
      BY <1>1, <3>1, <3>2
    <3> HIDE DEF E
    <3> QED BY <3>1, <3>2, <3>3, ClientsKeep
  <2> QED BY <1>3, <2>1, <2>2, <2>3 DEF Emit
<1>4. CASE Restart
  <2>1. last_event_id' \in Nat
    BY <1>4, LastLoggedCovers DEF Restart, EventInv, SequenceTypes
  <2>2. client' = [c \in Clients |-> NoClient]
    BY <1>4 DEF Restart
  <2>3. Covers(NoClient)' /\ Continues(NoClient)'
    BY DEF NoClient, Covers, Continues
  <2>4. \A c \in Clients : client'[c] = NoClient
    BY <2>2
  <2>5. client' \in [Clients -> Follower]
    BY <2>2, NoClientFollows
  <2>6. ASSUME NEW c \in Clients PROVE Covers(client[c])' /\ Continues(client[c])'
    <3>1. client'[c].at = "off"
      BY <2>4 DEF NoClient
    <3> QED BY <3>1 DEF Covers, Continues
  <2> QED BY <2>1, <2>5, <2>6 DEF ClientInv
<1>5. CASE \E c \in Clients : ClientStep(c)
  BY <1>5, ClientSteps
<1>6. CASE (\E k \in Kind : AllocAgentEvent(k)) \/ AllocHandlerEvent \/ ApplySnapshot \/ SettleMessage
  BY <1>2, <1>6 DEF AllocAgentEvent, AllocHandlerEvent, ApplySnapshot, SettleMessage, published
<1>7. CASE (\E n \in RingSizes : ResizeRing(n)) \/ UNCHANGED vars
  BY <1>2, <1>7 DEF ResizeRing, vars
<1> QED BY <1>3, <1>4, <1>5, <1>6, <1>7 DEF Next

\* The four invariants together.
LEMMA FollowersInvariant == Spec => [](EventInv /\ SnapshotInv /\ PushInv /\ ClientInv)
  BY EventInvInit, EventInvKept, SnapshotInvInit, SnapshotInvKept, PushInvInit, PushInvKept,
     ClientInvInit, ClientInvKept, PTL DEF Spec

\* What a client that follows the stream misses was sent between its reading of the backlog
\* and its subscription, or overtaken on the way to the ring, or pushed while the ring was
\* off, or its line in the file was spoilt by another append (append_event's two writes):
\* nothing else is lost (backlog_after and subscribe_events), whatever the sizes of the ring
\* and however often it overflowed.
THEOREM LossIsExplained == Spec => []LossOnlyInWindow
<1>1. ClientInv => LossOnlyInWindow
  <2> SUFFICES ASSUME ClientInv, NEW c \in Clients, client[c].at = "streaming",
                      NEW i \in 1..client[c].rx, sent[i].durable, sent[i].id > client[c].after,
                      ~(i > client[c].from)
               PROVE  sent[i] \in client[c].base \/ Lost(sent[i])
    BY DEF LossOnlyInWindow, Lost
  <2>1. client[c].from \in Nat /\ client[c].rx \in Nat /\ Covers(client[c])
    BY DEF ClientInv, Follower
  <2>2. i \in 1..client[c].from
    BY <2>1
  <2> QED BY <2>1, <2>2 DEF Covers
<1> QED BY <1>1, FollowersInvariant, PTL

\* A client that is still connected has its backlog and then everything that was sent since
\* it subscribed, in order: a receiver that lags is disconnected (RecvError::Lagged).
THEOREM StreamsHaveNoGap == Spec => []NoSilentGap
<1>1. EventInv /\ ClientInv => NoSilentGap
  <2> SUFFICES ASSUME EventInv, ClientInv, NEW c \in Clients, client[c].at = "streaming"
               PROVE  LET n == client[c].pos - client[c].rx
                      IN  /\ n <= Len(client[c].got)
                          /\ SubSeq(client[c].got, Len(client[c].got) - n + 1, Len(client[c].got))
                                = SubSeq(sent, client[c].rx + 1, client[c].pos)
                          /\ Len(client[c].got) - n = Cardinality(client[c].base)
    BY DEF NoSilentGap
  <2>1. PICK k \in Follower : k = client[c] /\ Covers(k) /\ Continues(k)
    BY DEF ClientInv
  <2>2. k.rx \in Nat /\ k.pos \in Nat /\ k.got \in Seq(Event)
    BY DEF Follower
  <2> DEFINE n == k.pos - k.rx
             b == Cardinality(k.base)
             got == k.got
             rx == k.rx
             pos == k.pos
  <2>3. /\ b \in Nat /\ rx \in Nat /\ pos \in Nat /\ rx <= pos /\ pos <= Len(sent)
        /\ got \in Seq(Event) /\ sent \in Seq(Event)
        /\ Len(got) = b + (pos - rx) /\ n = pos - rx
        /\ \A j \in 1..pos - rx : got[b + j] = sent[rx + j]
    BY <2>1, <2>2 DEF Covers, Continues, EventInv, SequenceTypes
  <2> HIDE DEF n, b, got, rx, pos
  <2>4. n <= Len(got) /\ Len(got) - n = b /\ Len(got) - n + 1 = b + 1
    BY <2>3
  <2>5. SubSeq(got, b + 1, Len(got)) = SubSeq(sent, rx + 1, pos)
    <3>1. /\ Len(SubSeq(got, b + 1, Len(got))) = n /\ SubSeq(got, b + 1, Len(got)) \in Seq(Event)
          /\ \A j \in 1..n : SubSeq(got, b + 1, Len(got))[j] = got[b + j]
      BY <2>3
    <3>2. /\ Len(SubSeq(sent, rx + 1, pos)) = n /\ SubSeq(sent, rx + 1, pos) \in Seq(Event)
          /\ \A j \in 1..n : SubSeq(sent, rx + 1, pos)[j] = sent[rx + j]
      BY <2>3
    <3> DEFINE x == SubSeq(got, b + 1, Len(got))
               y == SubSeq(sent, rx + 1, pos)
    <3>3. \A j \in 1..n : x[j] = y[j]
      BY <2>3, <3>1, <3>2
    <3> HIDE DEF x, y
    <3> QED BY <3>1, <3>2, <3>3, SeqEqual DEF x, y
  <2> QED BY <2>1, <2>4, <2>5 DEF n, b, got, rx, pos
<1> QED BY <1>1, FollowersInvariant, PTL
=============================================================================
