--------------------------- MODULE MultiAgentProofs ---------------------------
(***************************************************************************)
(* Proofs about MultiAgent: wait_agent loses no wakeup, the number of      *)
(* agents exceeds its limit by no more than the spawns in progress at      *)
(* once, and close_agent closes a whole subtree, for any number of agents, *)
(* calls, restarts and resumes.                                            *)
(***************************************************************************)
EXTENDS MultiAgent, FiniteSetTheorems, TLAPS

MailboxTypes == mailbox \in [Session -> SUBSET {"message", "update"}]

\* A call that waits, or sleeps, is wait_agent's and of a session of the tree.
WaitsAreWaits ==
    /\ DOMAIN calls = Calls
    /\ \A c \in Calls :
          /\ DOMAIN calls[c] = DOMAIN Idle
          /\ calls[c].op = "wait" => calls[c].me \in Session
          /\ calls[c].at = "asleep" => calls[c].op = "wait"

WaitInv == MailboxTypes /\ WaitsAreWaits /\ NoLostWakeup

-----------------------------------------------------------------------------
LEMMA WaitInvInit == Init => WaitInv
  BY MultiAgentBounds DEF Init, WaitInv, MailboxTypes, WaitsAreWaits, NoLostWakeup, Idle, Session

\* A step that returns call c, or moves it without putting it to sleep, and leaves the
\* mailboxes alone.
LEMMA OneCallMoves ==
  ASSUME WaitInv, UNCHANGED mailbox, NEW c \in Calls, NEW call, calls' = [calls EXCEPT ![c] = call],
         DOMAIN call = DOMAIN Idle, call.at # "asleep",
         call.op = "wait" => call.me \in Session
  PROVE  WaitInv'
  BY DEF WaitInv, MailboxTypes, WaitsAreWaits, NoLostWakeup

\* What an update of its fields leaves of a call.
LEMMA FieldsUpdated ==
  ASSUME NEW call, DOMAIN call = DOMAIN Idle, NEW at, NEW x
  PROVE  /\ LET new == [call EXCEPT !.at = at]
            IN  DOMAIN new = DOMAIN Idle /\ new.at = at /\ new.op = call.op /\ new.me = call.me
         /\ LET new == [call EXCEPT !.at = at, !.path = x]
            IN  DOMAIN new = DOMAIN Idle /\ new.at = at /\ new.op = call.op /\ new.me = call.me
         /\ LET new == [call EXCEPT !.at = at, !.to = x]
            IN  DOMAIN new = DOMAIN Idle /\ new.at = at /\ new.op = call.op /\ new.me = call.me
         /\ LET new == [call EXCEPT !.at = at, !.changed = x]
            IN  DOMAIN new = DOMAIN Idle /\ new.at = at /\ new.op = call.op /\ new.me = call.me
         /\ LET new == [call EXCEPT !.at = at, !.todo = x]
            IN  DOMAIN new = DOMAIN Idle /\ new.at = at /\ new.op = call.op /\ new.me = call.me
         /\ LET new == [call EXCEPT !.changed = TRUE]
            IN  /\ DOMAIN new = DOMAIN Idle /\ new.at = call.at /\ new.op = call.op
                /\ new.me = call.me /\ new.changed = TRUE
<1>1. DOMAIN Idle = {"op", "at", "me", "path", "to", "changed", "todo"}
  BY DEF Idle
<1> QED BY <1>1

\* A message or an update reaches a mailbox, and every call that waits is told.
LEMMA AllAreTold ==
  ASSUME WaitInv, mailbox' \in [Session -> SUBSET {"message", "update"}], calls' = Bump(calls)
  PROVE  WaitInv'
<1>1. \A c \in Calls : /\ DOMAIN calls'[c] = DOMAIN Idle
                       /\ calls'[c].at = calls[c].at /\ calls'[c].op = calls[c].op
                       /\ calls'[c].me = calls[c].me
                       /\ calls[c].op = "wait" => calls'[c].changed = TRUE
  BY FieldsUpdated DEF Bump, WaitInv, WaitsAreWaits
<1>2. DOMAIN calls' = Calls
  BY DEF Bump
<1> QED BY <1>1, <1>2 DEF WaitInv, MailboxTypes, WaitsAreWaits, NoLostWakeup

LEMMA IdleCall == Idle.op = "none" /\ Idle.at = "none"
  BY DEF Idle

LEMMA StepKeeps == WaitInv /\ [Next]_vars => WaitInv'
<1> SUFFICES ASSUME WaitInv, [Next]_vars PROVE WaitInv'
  OBVIOUS
<1>1. ASSUME UNCHANGED <<mailbox, calls>> PROVE WaitInv'
  BY <1>1 DEF WaitInv, MailboxTypes, WaitsAreWaits, NoLostWakeup
<1>2. ASSUME NEW c \in Calls, Return(c), UNCHANGED mailbox PROVE WaitInv'
  BY <1>2, OneCallMoves, IdleCall DEF Return
<1>3. \A c \in Calls : DOMAIN calls[c] = DOMAIN Idle /\ (calls[c].op = "wait" => calls[c].me \in Session)
  BY DEF WaitInv, WaitsAreWaits
<1>4. ASSUME NEW c \in Calls, NEW call, UNCHANGED mailbox, calls' = [calls EXCEPT ![c] = call],
             DOMAIN call = DOMAIN Idle, call.at # "asleep", call.op = calls[c].op, call.me = calls[c].me
      PROVE  WaitInv'
  BY <1>3, <1>4, OneCallMoves
<1>5. ASSUME NEW c \in Calls, NEW at, at # "asleep", Goto(c, at), UNCHANGED mailbox
      PROVE  WaitInv'
  <2> DEFINE call == [calls[c] EXCEPT !.at = at]
  <2>1. UNCHANGED mailbox /\ calls' = [calls EXCEPT ![c] = call]
    BY <1>5 DEF Goto
  <2>2. /\ DOMAIN call = DOMAIN Idle /\ call.at # "asleep"
        /\ call.op = calls[c].op /\ call.me = calls[c].me
    BY <1>3, <1>5, FieldsUpdated
  <2> HIDE DEF call
  <2> QED BY <1>4, <2>1, <2>2
<1>6. ASSUME NEW c \in Calls, NEW op \in Op, NEW me \in Session, Begin(c, op, me) PROVE WaitInv'
  <2> DEFINE call == [Idle EXCEPT !.op = op, !.at = "begin", !.me = me]
  <2>1. DOMAIN call = DOMAIN Idle /\ call.at = "begin" /\ call.me = me
    BY DEF Idle
  <2>2. calls' = [calls EXCEPT ![c] = call] /\ UNCHANGED mailbox
    BY <1>6 DEF Begin
  <2> HIDE DEF call
  <2> QED BY <2>1, <2>2, OneCallMoves
<1>7. ASSUME NEW c \in Calls, CallStep(c) PROVE WaitInv'
  <2>1. CASE Drop(c) \/ SpawnFails(c) \/ PushRun(c) \/ WaitTimeout(c) \/ CloseDone(c)
    <3>1. Return(c) /\ UNCHANGED mailbox
      BY <2>1 DEF Drop, SpawnFails, PushRun, WaitTimeout, CloseDone
    <3> QED BY <1>2, <3>1
  <2>2. ASSUME NEW name \in Names, ReserveSpawn(c, name) PROVE WaitInv'
    <3> DEFINE path == Append(disk[calls[c].me].path, name)
               call == [calls[c] EXCEPT !.at = "create", !.path = path]
    <3>1. UNCHANGED mailbox /\ (Return(c) \/ calls' = [calls EXCEPT ![c] = call])
      BY <2>2 DEF ReserveSpawn
    <3>2. /\ DOMAIN call = DOMAIN Idle /\ call.at # "asleep"
          /\ call.op = calls[c].op /\ call.me = calls[c].me
      BY <1>3, FieldsUpdated
    <3> HIDE DEF call
    <3> QED BY <1>2, <1>4, <3>1, <3>2
  <2>3. CASE CreateChild(c)
    <3>1. PICK s \in Session : calls' = [calls EXCEPT ![c].at = "identify", ![c].to = s]
      BY <2>3 DEF CreateChild
    <3> DEFINE call == [calls[c] EXCEPT !.at = "identify", !.to = s]
    <3>2. calls' = [calls EXCEPT ![c] = call] /\ UNCHANGED mailbox
      BY <2>3, <3>1 DEF CreateChild
    <3>3. /\ DOMAIN call = DOMAIN Idle /\ call.at # "asleep"
          /\ call.op = calls[c].op /\ call.me = calls[c].me
      BY <1>3, FieldsUpdated
    <3> HIDE DEF call
    <3> QED BY <1>4, <3>2, <3>3
  <2>4. CASE RegisterChild(c)
    <3> DEFINE call == [calls[c] EXCEPT !.at = "enqueue", !.to = Len(copies) + 1]
    <3>1. UNCHANGED mailbox /\ calls' = [calls EXCEPT ![c] = call]
      BY <2>4 DEF RegisterChild
    <3>2. /\ DOMAIN call = DOMAIN Idle /\ call.at # "asleep"
          /\ call.op = calls[c].op /\ call.me = calls[c].me
      BY <1>3, FieldsUpdated
    <3> HIDE DEF call
    <3> QED BY <1>4, <3>1, <3>2
  <2>5. ASSUME NEW s \in Session, ResolveTarget(c, s) PROVE WaitInv'
    <3> DEFINE call == [calls[c] EXCEPT !.at = calls[c].op, !.to = s]
    <3>1. /\ UNCHANGED mailbox /\ (Return(c) \/ calls' = [calls EXCEPT ![c] = call])
          /\ calls[c].op # "asleep"
      BY <2>5 DEF ResolveTarget
    <3>2. /\ DOMAIN call = DOMAIN Idle /\ call.at = calls[c].op
          /\ call.op = calls[c].op /\ call.me = calls[c].me
      BY <1>3, FieldsUpdated
    <3> HIDE DEF call
    <3> QED BY <1>2, <1>4, <3>1, <3>2
  <2>6. CASE QueueMessage(c)
    <3>1. mailbox' \in [Session -> SUBSET {"message", "update"}]
      BY <2>6 DEF QueueMessage, WaitInv, MailboxTypes
    <3>2. \A d \in Calls : /\ DOMAIN Bump(calls)[d] = DOMAIN Idle
                           /\ Bump(calls)[d].at = calls[d].at /\ Bump(calls)[d].op = calls[d].op
                           /\ Bump(calls)[d].me = calls[d].me
                           /\ calls[d].op = "wait" => Bump(calls)[d].changed = TRUE
      BY <1>3, FieldsUpdated DEF Bump
    <3>3. DOMAIN Bump(calls) = Calls
      BY DEF Bump
    <3>4. calls' = [Bump(calls) EXCEPT ![c] = Idle]
      BY <2>6 DEF QueueMessage
    <3>5. \A d \in Calls : \/ calls'[d] = Idle
                           \/ calls'[d] = Bump(calls)[d]
      BY <3>3, <3>4
    <3>6. DOMAIN calls' = Calls
      BY <3>3, <3>4
    <3> QED BY <3>1, <3>2, <3>5, <3>6, IdleCall DEF WaitInv, MailboxTypes, WaitsAreWaits, NoLostWakeup
  <2>7. CASE FollowupTask(c)
    <3> DEFINE i == by[calls[c].to].live
               call == [calls[c] EXCEPT !.at = "push", !.to = i]
    <3>1. UNCHANGED mailbox /\ (Return(c) \/ calls' = [calls EXCEPT ![c] = call])
      BY <2>7 DEF FollowupTask
    <3>2. /\ DOMAIN call = DOMAIN Idle /\ call.at # "asleep"
          /\ call.op = calls[c].op /\ call.me = calls[c].me
      BY <1>3, FieldsUpdated
    <3> HIDE DEF call
    <3> QED BY <1>2, <1>4, <3>1, <3>2
  <2>8. CASE Subscribe(c) \/ Wake(c)
    <3> DEFINE call == [calls[c] EXCEPT !.at = "drain", !.changed = FALSE]
    <3>1. UNCHANGED mailbox /\ calls' = [calls EXCEPT ![c] = call]
      BY <2>8 DEF Subscribe, Wake
    <3>2. /\ DOMAIN call = DOMAIN Idle /\ call.at # "asleep"
          /\ call.op = calls[c].op /\ call.me = calls[c].me
      BY <1>3, FieldsUpdated
    <3> HIDE DEF call
    <3> QED BY <1>4, <3>1, <3>2
  <2>9. CASE DrainMailbox(c)
    <3>1. mailbox' = [mailbox EXCEPT ![calls[c].me] = {}] /\ calls[c].op = "wait"
      BY <2>9 DEF DrainMailbox
    <3>2. CASE Return(c)
      BY <3>1, <3>2, IdleCall
         DEF Return, WaitInv, MailboxTypes, WaitsAreWaits, NoLostWakeup
    <3>3. CASE Goto(c, "asleep")
      <4> DEFINE call == [calls[c] EXCEPT !.at = "asleep"]
      <4>1. /\ DOMAIN call = DOMAIN Idle /\ call.op = calls[c].op /\ call.me = calls[c].me
        BY <1>3, FieldsUpdated
      <4>2. calls' = [calls EXCEPT ![c] = call]
        BY <3>3 DEF Goto
      <4> HIDE DEF call
      <4> QED BY <3>1, <4>1, <4>2 DEF WaitInv, MailboxTypes, WaitsAreWaits, NoLostWakeup
    <3> QED BY <2>9, <3>2, <3>3 DEF DrainMailbox
  <2>10. CASE MarkSubtree(c)
    <3>1. PICK todo : calls' = [calls EXCEPT ![c].at = "closing", ![c].todo = todo]
      BY <2>10 DEF MarkSubtree
    <3> DEFINE call == [calls[c] EXCEPT !.at = "closing", !.todo = todo]
    <3>2. UNCHANGED mailbox /\ calls' = [calls EXCEPT ![c] = call]
      BY <2>10, <3>1 DEF MarkSubtree
    <3>3. /\ DOMAIN call = DOMAIN Idle /\ call.at # "asleep"
          /\ call.op = calls[c].op /\ call.me = calls[c].me
      BY <1>3, FieldsUpdated
    <3> HIDE DEF call
    <3> QED BY <1>4, <3>2, <3>3
  <2>11. ASSUME NEW i \in calls[c].todo, CloseMeta(c, i) PROVE WaitInv'
    <3> DEFINE call == [calls[c] EXCEPT !.at = "stop", !.to = i]
    <3>1. UNCHANGED mailbox /\ calls' = [calls EXCEPT ![c] = call]
      BY <2>11 DEF CloseMeta
    <3>2. /\ DOMAIN call = DOMAIN Idle /\ call.at # "asleep"
          /\ call.op = calls[c].op /\ call.me = calls[c].me
      BY <1>3, FieldsUpdated
    <3> HIDE DEF call
    <3> QED BY <1>4, <3>1, <3>2
  <2>12. CASE IdentifyChild(c) \/ EnqueueChild(c) \/ CloseStop(c) \/ CloseClear(c)
    <3>1. /\ UNCHANGED mailbox
          /\ Return(c) \/ \E at \in {"register", "push", "clear", "signal"} : Goto(c, at)
      BY <2>12 DEF IdentifyChild, EnqueueChild, CloseStop, CloseClear
    <3> QED BY <1>2, <1>5, <3>1
  <2>13. CASE CloseSignal(c)
    <3> DEFINE call == [calls[c] EXCEPT !.at = "closing", !.todo = calls[c].todo \ {calls[c].to}]
    <3>1. UNCHANGED mailbox /\ calls' = [calls EXCEPT ![c] = call]
      BY <2>13 DEF CloseSignal
    <3>2. /\ DOMAIN call = DOMAIN Idle /\ call.at # "asleep"
          /\ call.op = calls[c].op /\ call.me = calls[c].me
      BY <1>3, FieldsUpdated
    <3> HIDE DEF call
    <3> QED BY <1>4, <3>1, <3>2
  <2> QED BY <1>7, <2>1, <2>2, <2>3, <2>4, <2>5, <2>6, <2>7, <2>8, <2>9, <2>10, <2>11, <2>12, <2>13
      DEF CallStep
<1>8. ASSUME NEW i \in DOMAIN copies, RunStarts(i) PROVE WaitInv'
  BY <1>8 DEF RunStarts, WaitInv, MailboxTypes, WaitsAreWaits, NoLostWakeup
<1>13. ASSUME NEW i \in DOMAIN copies, RunPops(i) \/ ContinueGoal(i) \/ RunAborts(i) PROVE WaitInv'
  BY <1>1, <1>13 DEF RunPops, ContinueGoal, RunAborts
<1>9. ASSUME NEW i \in DOMAIN copies, RunEnds(i) PROVE WaitInv'
  <2>1. CASE UNCHANGED <<mailbox, calls>>
    BY <1>1, <2>1
  <2>2. CASE /\ mailbox' = [mailbox EXCEPT ![disk[copies[i].sess].parent] = @ \cup {"update"}]
             /\ calls' = Bump(calls)
    <3>1. mailbox' \in [Session -> SUBSET {"message", "update"}]
      BY <2>2 DEF WaitInv, MailboxTypes
    <3> QED BY <2>2, <3>1, AllAreTold
  <2> QED BY <1>9, <2>1, <2>2 DEF RunEnds
<1>10. ASSUME NEW s \in Session, ResumeOverHttp(s) PROVE WaitInv'
  BY <1>1, <1>10 DEF ResumeOverHttp
<1>11. CASE Restart
  BY <1>11, IdleCall DEF Restart, WaitInv, MailboxTypes, WaitsAreWaits, NoLostWakeup
<1>12. CASE UNCHANGED vars
  BY <1>1, <1>12 DEF vars
<1> QED BY <1>6, <1>7, <1>8, <1>9, <1>10, <1>11, <1>12, <1>13 DEF Next

\* Whatever messages, ends of runs, closes, resumes and restarts meet a wait: wait_agent
\* does not go to sleep, or stay asleep, over something in the mailbox without having
\* been told (queue_message, notify_finished and wait_for_updates).
THEOREM NoWakeupIsLost == Spec => []NoLostWakeup
<1>1. WaitInv => NoLostWakeup
  BY DEF WaitInv
<1> QED BY <1>1, WaitInvInit, StepKeeps, PTL DEF Spec
-----------------------------------------------------------------------------
(***************************************************************************)
(* The limit.  An agent that is being spawned is not counted before it is  *)
(* registered: those that count and those about to are bounded together.   *)
(***************************************************************************)
Counted == Active \ opened
Spawners == {c \in Calls : Spawning(c)}
Excess == IF overlap = 0 THEN 0 ELSE overlap - 1

CallTypes == DOMAIN calls = Calls /\ \A c \in Calls : DOMAIN calls[c] = DOMAIN Idle

LimitInv ==
    /\ CallTypes
    /\ IsFiniteSet(DOMAIN by)
    /\ overlap \in Nat
    /\ Cardinality(Counted) + Cardinality(Spawners) <= MaxAgents + Excess

LEMMA Finite ==
  ASSUME IsFiniteSet(DOMAIN by)
  PROVE  /\ IsFiniteSet(Active) /\ IsFiniteSet(Counted) /\ IsFiniteSet(Spawners)
         /\ Cardinality(Active) \in Nat /\ Cardinality(Counted) \in Nat /\ Cardinality(Spawners) \in Nat
         /\ Cardinality(Counted) <= Cardinality(Active)
<1>1. Active \subseteq DOMAIN by /\ Counted \subseteq Active /\ Spawners \subseteq Calls
  BY DEF Active, Counted, Spawners
<1> QED BY <1>1, CallsFinite, FS_Subset, FS_CardinalityType

LEMMA OneMore ==
  ASSUME NEW S, NEW x, IsFiniteSet(S)
  PROVE  /\ IsFiniteSet(S \cup {x}) /\ Cardinality(S) \in Nat /\ Cardinality(S \cup {x}) \in Nat
         /\ Cardinality(S \cup {x}) <= Cardinality(S) + 1
<1>1. IsFiniteSet(S \cup {x}) /\ Cardinality(S) \in Nat
  BY FS_AddElement, FS_CardinalityType
<1>2. Cardinality(S \cup {x}) = Cardinality(S) \/ Cardinality(S \cup {x}) = Cardinality(S) + 1
  BY FS_AddElement, Zenon
<1>3. Cardinality(S \cup {x}) \in Nat
  BY <1>1, FS_CardinalityType, Zenon
<1> QED BY <1>1, <1>2, <1>3

LEMMA OneLess ==
  ASSUME NEW S, NEW x \in S, IsFiniteSet(S)
  PROVE  /\ IsFiniteSet(S \ {x}) /\ Cardinality(S) \in Nat /\ Cardinality(S \ {x}) \in Nat
         /\ Cardinality(S \ {x}) + 1 = Cardinality(S)
<1>1. IsFiniteSet(S \ {x}) /\ Cardinality(S \ {x}) = Cardinality(S) - 1
  BY FS_RemoveElement, Zenon
<1>2. Cardinality(S) \in Nat /\ Cardinality(S \ {x}) \in Nat
  BY <1>1, FS_CardinalityType, Zenon
<1> QED BY <1>1, <1>2

LEMMA LimitInit == Init => LimitInv
<1> SUFFICES ASSUME Init PROVE LimitInv
  OBVIOUS
<1>1. CallTypes /\ overlap = 0 /\ DOMAIN by = {Root}
  BY DEF Init, CallTypes
<1>2. Counted = {} /\ Spawners = {}
  BY <1>1, IdleCall DEF Init, Counted, Active, Spawners, Spawning
<1>3. IsFiniteSet(DOMAIN by) /\ Cardinality({}) = 0
  <2>1. IsFiniteSet({Root})
    BY FS_Singleton, Zenon
  <2>2. Cardinality({}) = 0
    BY FS_EmptySet, Zenon
  <2> QED BY <1>1, <2>1, <2>2, Zenon
<1> QED BY <1>1, <1>2, <1>3, MultiAgentBounds DEF LimitInv, Excess

\* Most steps add no agent and no spawn.
LEMMA NoneAdded ==
  ASSUME LimitInv, CallTypes', IsFiniteSet(DOMAIN by'), UNCHANGED overlap,
         Counted' \subseteq Counted, Spawners' \subseteq Spawners
  PROVE  LimitInv'
<1>1. /\ Cardinality(Counted') <= Cardinality(Counted) /\ Cardinality(Counted') \in Nat
      /\ Cardinality(Spawners') <= Cardinality(Spawners) /\ Cardinality(Spawners') \in Nat
  <2>1. IsFiniteSet(Counted) /\ IsFiniteSet(Spawners)
    BY Finite DEF LimitInv
  <2>2. /\ IsFiniteSet(Counted') /\ Cardinality(Counted') <= Cardinality(Counted)
        /\ IsFiniteSet(Spawners') /\ Cardinality(Spawners') <= Cardinality(Spawners)
    BY <2>1, FS_Subset
  <2> QED BY <2>2, FS_CardinalityType
<1>2. /\ Cardinality(Counted) \in Nat /\ Cardinality(Spawners) \in Nat
      /\ MaxAgents \in Nat /\ Excess \in Nat /\ Excess' = Excess
  BY Finite, MultiAgentBounds DEF LimitInv, Excess
<1> QED BY <1>1, <1>2 DEF LimitInv

\* A step that leaves the tree alone and takes one call on without making it spawn.
LEMMA OneCallGoesOn ==
  ASSUME LimitInv, UNCHANGED <<by, opened, overlap>>,
         NEW c \in Calls, NEW call, calls' = [calls EXCEPT ![c] = call], DOMAIN call = DOMAIN Idle,
         call.op = "spawn" /\ call.at \in {"create", "identify", "register"} => Spawning(c)
  PROVE  LimitInv'
<1>1. CallTypes' /\ Spawners' \subseteq Spawners
  BY DEF LimitInv, CallTypes, Spawners, Spawning
<1>2. Counted' = Counted /\ IsFiniteSet(DOMAIN by')
  BY DEF LimitInv, Counted, Active, Open
<1> QED BY <1>1, <1>2, NoneAdded

\* reserve_spawn has counted fewer agents than the limit, and the spawn is one of `overlap'.
LEMMA SpawnAdded ==
  ASSUME LimitInv, NEW c \in Calls, NEW name \in Names, ReserveSpawn(c, name)
  PROVE  LimitInv'
<1> DEFINE path == Append(disk[calls[c].me].path, name)
           call == [calls[c] EXCEPT !.at = "create", !.path = path]
           now == 1 + Cardinality(Spawners)
<1>1. /\ DOMAIN call = DOMAIN Idle /\ call.op = calls[c].op
  BY FieldsUpdated DEF LimitInv, CallTypes
<1>2. CASE Return(c) /\ UNCHANGED overlap
  BY <1>2, OneCallGoesOn, IdleCall DEF ReserveSpawn, Return
<1>3. CASE /\ calls' = [calls EXCEPT ![c] = call] /\ Cardinality(Active) < MaxAgents
           /\ overlap' = IF now > overlap THEN now ELSE overlap
  <2>1. UNCHANGED <<by, opened>>
    BY DEF ReserveSpawn
  <2>2. CallTypes' /\ Spawners' \subseteq Spawners \cup {c}
    <3> HIDE DEF call
    <3> QED BY <1>1, <1>3 DEF LimitInv, CallTypes, Spawners, Spawning
  <2>3. Counted' = Counted /\ IsFiniteSet(DOMAIN by')
    BY <2>1 DEF LimitInv, Counted, Active, Open
  <2>4. /\ IsFiniteSet(Spawners) /\ Cardinality(Spawners) \in Nat
        /\ Cardinality(Counted) \in Nat /\ Cardinality(Active) \in Nat
        /\ Cardinality(Counted) <= Cardinality(Active)
    BY Finite DEF LimitInv
  <2>5. /\ IsFiniteSet(Spawners \cup {c}) /\ Cardinality(Spawners \cup {c}) <= Cardinality(Spawners) + 1
    BY <2>4, OneMore
  <2>6. Cardinality(Spawners') <= Cardinality(Spawners \cup {c}) /\ Cardinality(Spawners') \in Nat
    BY <2>2, <2>5, FS_Subset, FS_CardinalityType
  <2>7. Cardinality(Spawners \cup {c}) \in Nat
    BY <2>5, FS_CardinalityType
  <2>8. now \in Nat /\ now > 0 /\ overlap \in Nat /\ MaxAgents \in Nat
    BY <2>4, MultiAgentBounds DEF LimitInv
  <2>9. Cardinality(Spawners') <= now
    BY <2>4, <2>5, <2>6, <2>7
  <2>10. overlap' \in Nat /\ now <= overlap' /\ Excess' = overlap' - 1
    BY <1>3, <2>8 DEF Excess
  <2> HIDE DEF now
  <2> QED BY <1>3, <2>2, <2>3, <2>4, <2>6, <2>8, <2>9, <2>10 DEF LimitInv
<1> QED BY <1>2, <1>3 DEF ReserveSpawn, Spawners

\* The child that is registered is an agent, and its spawn is no longer one to come.
LEMMA SpawnRegistered ==
  ASSUME LimitInv, NEW c \in Calls, RegisterChild(c)
  PROVE  LimitInv'
<1> DEFINE s == calls[c].to
           call == [calls[c] EXCEPT !.at = "enqueue", !.to = Len(copies) + 1]
<1>1. /\ DOMAIN call = DOMAIN Idle /\ call.op = calls[c].op /\ call.at = "enqueue"
  BY FieldsUpdated DEF LimitInv, CallTypes
<1>2. calls' = [calls EXCEPT ![c] = call] /\ UNCHANGED <<opened, overlap>>
  BY DEF RegisterChild, history
<1>3. CallTypes' /\ Spawners' \subseteq Spawners \ {c} /\ c \in Spawners
  <2> HIDE DEF call
  <2> QED BY <1>1, <1>2 DEF LimitInv, CallTypes, Spawners, Spawning, RegisterChild
<1>4. DOMAIN by' = DOMAIN by \cup {s} /\ \A t \in DOMAIN by \ {s} : by'[t] = by[t]
  BY DEF RegisterChild, Register, Put
<1>5. Counted' \subseteq Counted \cup {s}
  BY <1>2, <1>4 DEF Counted, Active, Open
<1>6. /\ IsFiniteSet(Counted) /\ IsFiniteSet(Spawners)
      /\ Cardinality(Counted) \in Nat /\ Cardinality(Spawners) \in Nat
  BY Finite DEF LimitInv
<1>7. /\ IsFiniteSet(Counted \cup {s}) /\ Cardinality(Counted \cup {s}) <= Cardinality(Counted) + 1
      /\ IsFiniteSet(Spawners \ {c}) /\ Cardinality(Spawners \ {c}) + 1 = Cardinality(Spawners)
      /\ IsFiniteSet(DOMAIN by')
  <2>1. IsFiniteSet(DOMAIN by \cup {s})
    BY OneMore DEF LimitInv
  <2>2. /\ IsFiniteSet(Counted \cup {s}) /\ Cardinality(Counted \cup {s}) <= Cardinality(Counted) + 1
    BY <1>6, OneMore
  <2>3. /\ IsFiniteSet(Spawners \ {c}) /\ Cardinality(Spawners \ {c}) + 1 = Cardinality(Spawners)
    BY <1>3, <1>6, OneLess
  <2> QED BY <1>4, <2>1, <2>2, <2>3
<1>8. /\ Cardinality(Counted') <= Cardinality(Counted \cup {s}) /\ IsFiniteSet(Counted')
      /\ Cardinality(Spawners') <= Cardinality(Spawners \ {c}) /\ IsFiniteSet(Spawners')
  BY <1>3, <1>5, <1>7, FS_Subset
<1>9. /\ Cardinality(Counted') \in Nat /\ Cardinality(Spawners') \in Nat
      /\ Cardinality(Counted \cup {s}) \in Nat /\ Cardinality(Spawners \ {c}) \in Nat
  BY <1>7, <1>8, FS_CardinalityType
<1>10. MaxAgents \in Nat /\ Excess \in Nat /\ Excess' = Excess
  BY <1>2, MultiAgentBounds DEF LimitInv, Excess
<1>11. Cardinality(Counted') + Cardinality(Spawners') <= MaxAgents + Excess
  BY <1>6, <1>7, <1>8, <1>9, <1>10 DEF LimitInv
<1> QED BY <1>2, <1>3, <1>7, <1>10, <1>11 DEF LimitInv

\* A step in which every call keeps its operation and its place, or returns, and which
\* leaves the tree alone.
LEMMA CallsKeepPlace ==
  ASSUME LimitInv, UNCHANGED <<by, opened, overlap>>, CallTypes',
         \A d \in Calls : \/ calls'[d] = Idle
                          \/ calls'[d].op = calls[d].op /\ calls'[d].at = calls[d].at
  PROVE  LimitInv'
<1>1. Spawners' \subseteq Spawners
  BY IdleCall DEF Spawners, Spawning
<1>2. Counted' = Counted /\ IsFiniteSet(DOMAIN by')
  BY DEF LimitInv, Counted, Active, Open
<1> QED BY <1>1, <1>2, NoneAdded

LEMMA LimitKept == LimitInv /\ [Next]_vars => LimitInv'
<1> SUFFICES ASSUME LimitInv, [Next]_vars PROVE LimitInv'
  OBVIOUS
<1> DEFINE Still == UNCHANGED <<by, opened, overlap>>
<1>1. \A c \in Calls : DOMAIN calls[c] = DOMAIN Idle
  BY DEF LimitInv, CallTypes
<1>2. ASSUME NEW c \in Calls, Return(c), Still PROVE LimitInv'
  BY <1>2, OneCallGoesOn, IdleCall DEF Return
<1>3. ASSUME NEW c \in Calls, NEW call, Still, calls' = [calls EXCEPT ![c] = call],
             DOMAIN call = DOMAIN Idle, call.op = calls[c].op,
             call.at \in {"create", "identify", "register"} => Spawning(c) \/ calls[c].op # "spawn"
      PROVE  LimitInv'
  BY <1>3, OneCallGoesOn
<1>4. ASSUME NEW c \in Calls, NEW at, at \in {"asleep", "register", "push", "clear", "signal"},
             Goto(c, at), Still,
             at = "register" => Spawning(c)
      PROVE  LimitInv'
  <2> DEFINE call == [calls[c] EXCEPT !.at = at]
  <2>1. DOMAIN call = DOMAIN Idle /\ call.at = at /\ call.op = calls[c].op
    BY <1>1, FieldsUpdated
  <2>2. Still /\ calls' = [calls EXCEPT ![c] = call]
    BY <1>4 DEF Goto
  <2> HIDE DEF call
  <2> QED BY <1>3, <1>4, <2>1, <2>2
<1>5. ASSUME NEW c \in Calls, NEW op \in Op, NEW me \in Session, Begin(c, op, me) PROVE LimitInv'
  <2> DEFINE call == [Idle EXCEPT !.op = op, !.at = "begin", !.me = me]
  <2>1. DOMAIN call = DOMAIN Idle /\ call.at = "begin"
    BY DEF Idle
  <2>2. calls' = [calls EXCEPT ![c] = call] /\ Still
    BY <1>5 DEF Begin, history
  <2> HIDE DEF call
  <2> QED BY <2>1, <2>2, OneCallGoesOn
<1>6. ASSUME NEW c \in Calls, CallStep(c) PROVE LimitInv'
  <2>1. CASE Drop(c) \/ SpawnFails(c) \/ PushRun(c) \/ WaitTimeout(c) \/ CloseDone(c)
    <3>1. Return(c) /\ Still
      BY <2>1 DEF Drop, SpawnFails, PushRun, WaitTimeout, CloseDone, history
    <3> QED BY <1>2, <3>1
  <2>2. ASSUME NEW name \in Names, ReserveSpawn(c, name) PROVE LimitInv'
    BY <2>2, SpawnAdded
  <2>3. CASE CreateChild(c)
    <3>1. PICK s \in Session : calls' = [calls EXCEPT ![c].at = "identify", ![c].to = s]
      BY <2>3 DEF CreateChild
    <3> DEFINE call == [calls[c] EXCEPT !.at = "identify", !.to = s]
    <3>2. calls' = [calls EXCEPT ![c] = call] /\ Still /\ Spawning(c)
      BY <2>3, <3>1 DEF CreateChild, history, Spawning
    <3>3. DOMAIN call = DOMAIN Idle /\ call.op = calls[c].op
      BY <1>1, FieldsUpdated
    <3> HIDE DEF call
    <3> QED BY <1>3, <3>2, <3>3
  <2>4. CASE IdentifyChild(c)
    <3>1. Goto(c, "register") /\ Still /\ Spawning(c)
      BY <2>4 DEF IdentifyChild, history, Spawning
    <3> QED BY <1>4, <3>1
  <2>5. CASE RegisterChild(c)
    BY <2>5, SpawnRegistered
  <2>6. ASSUME NEW s \in Session, ResolveTarget(c, s) PROVE LimitInv'
    <3> DEFINE call == [calls[c] EXCEPT !.at = calls[c].op, !.to = s]
    <3>1. /\ Still /\ (Return(c) \/ calls' = [calls EXCEPT ![c] = call])
          /\ calls[c].op \in {"send", "followup", "close"}
      BY <2>6 DEF ResolveTarget, history
    <3>2. DOMAIN call = DOMAIN Idle /\ call.at = calls[c].op /\ call.op = calls[c].op
      BY <1>1, FieldsUpdated
    <3> HIDE DEF call
    <3> QED BY <1>2, <1>3, <3>1, <3>2
  <2>7. CASE QueueMessage(c)
    <3>1. calls' = [Bump(calls) EXCEPT ![c] = Idle] /\ Still
      BY <2>7 DEF QueueMessage, history
    <3>2. \A d \in Calls : /\ DOMAIN Bump(calls)[d] = DOMAIN Idle
                           /\ Bump(calls)[d].at = calls[d].at /\ Bump(calls)[d].op = calls[d].op
      BY <1>1, FieldsUpdated DEF Bump
    <3>3. DOMAIN Bump(calls) = Calls
      BY DEF Bump
    <3>4. DOMAIN calls' = Calls /\ \A d \in Calls : calls'[d] = Idle \/ calls'[d] = Bump(calls)[d]
      BY <3>1, <3>3
    <3>5. CallTypes'
      BY <3>2, <3>4 DEF CallTypes
    <3> QED BY <3>1, <3>2, <3>4, <3>5, CallsKeepPlace
  <2>8. CASE FollowupTask(c)
    <3> DEFINE i == by[calls[c].to].live
               call == [calls[c] EXCEPT !.at = "push", !.to = i]
    <3>1. Still /\ (Return(c) \/ calls' = [calls EXCEPT ![c] = call])
      BY <2>8 DEF FollowupTask, history
    <3>2. DOMAIN call = DOMAIN Idle /\ call.at = "push" /\ call.op = calls[c].op
      BY <1>1, FieldsUpdated
    <3> HIDE DEF call
    <3> QED BY <1>2, <1>3, <3>1, <3>2
  <2>9. CASE Subscribe(c) \/ Wake(c)
    <3> DEFINE call == [calls[c] EXCEPT !.at = "drain", !.changed = FALSE]
    <3>1. Still /\ calls' = [calls EXCEPT ![c] = call]
      BY <2>9 DEF Subscribe, Wake, history
    <3>2. DOMAIN call = DOMAIN Idle /\ call.at = "drain" /\ call.op = calls[c].op
      BY <1>1, FieldsUpdated
    <3> HIDE DEF call
    <3> QED BY <1>3, <3>1, <3>2
  <2>10. CASE DrainMailbox(c)
    <3>1. Still /\ (Return(c) \/ Goto(c, "asleep"))
      BY <2>10 DEF DrainMailbox, history
    <3> QED BY <1>2, <1>4, <3>1
  <2>11. CASE MarkSubtree(c)
    <3>1. PICK todo : calls' = [calls EXCEPT ![c].at = "closing", ![c].todo = todo]
      BY <2>11 DEF MarkSubtree
    <3> DEFINE call == [calls[c] EXCEPT !.at = "closing", !.todo = todo]
    <3>2. DOMAIN call = DOMAIN Idle /\ call.at = "closing" /\ call.op = calls[c].op
      BY <1>1, FieldsUpdated
    <3>3. calls' = [calls EXCEPT ![c] = call]
      BY <3>1
    <3>4. CallTypes' /\ Spawners' \subseteq Spawners
      <4> HIDE DEF call
      <4> QED BY <1>1, <3>2, <3>3 DEF LimitInv, CallTypes, Spawners, Spawning
    <3>5. DOMAIN by' = DOMAIN by /\ \A s \in DOMAIN by : by'[s].closed \/ by'[s] = by[s]
      BY <2>11 DEF MarkSubtree
    <3>6. UNCHANGED <<opened, overlap>>
      BY <2>11 DEF MarkSubtree
    <3>7. Counted' \subseteq Counted /\ IsFiniteSet(DOMAIN by')
      BY <3>5, <3>6 DEF LimitInv, Counted, Active, Open
    <3> QED BY <3>4, <3>6, <3>7, NoneAdded
  <2>12. ASSUME NEW i \in calls[c].todo, CloseMeta(c, i) PROVE LimitInv'
    <3> DEFINE call == [calls[c] EXCEPT !.at = "stop", !.to = i]
    <3>1. Still /\ calls' = [calls EXCEPT ![c] = call]
      BY <2>12 DEF CloseMeta, history
    <3>2. DOMAIN call = DOMAIN Idle /\ call.at = "stop" /\ call.op = calls[c].op
      BY <1>1, FieldsUpdated
    <3> HIDE DEF call
    <3> QED BY <1>3, <3>1, <3>2
  <2>13. CASE EnqueueChild(c) \/ CloseStop(c) \/ CloseClear(c)
    <3>1. Still /\ (Return(c) \/ \E at \in {"push", "clear", "signal"} : Goto(c, at))
      BY <2>13 DEF EnqueueChild, CloseStop, CloseClear, history
    <3> QED BY <1>2, <1>4, <3>1
  <2>14. CASE CloseSignal(c)
    <3> DEFINE call == [calls[c] EXCEPT !.at = "closing", !.todo = calls[c].todo \ {calls[c].to}]
    <3>1. Still /\ calls' = [calls EXCEPT ![c] = call]
      BY <2>14 DEF CloseSignal, history
    <3>2. DOMAIN call = DOMAIN Idle /\ call.at = "closing" /\ call.op = calls[c].op
      BY <1>1, FieldsUpdated
    <3> HIDE DEF call
    <3> QED BY <1>3, <3>1, <3>2
  <2> QED BY <1>6, <2>1, <2>2, <2>3, <2>4, <2>5, <2>6, <2>7, <2>8, <2>9, <2>10, <2>11, <2>12, <2>13,
             <2>14 DEF CallStep
<1>7. ASSUME CallTypes', Still, UNCHANGED calls PROVE LimitInv'
  BY <1>7, CallsKeepPlace
<1>8. ASSUME UNCHANGED calls PROVE CallTypes'
  BY <1>8 DEF LimitInv, CallTypes
<1>9. ASSUME NEW i \in DOMAIN copies, RunPops(i) \/ RunStarts(i) \/ ContinueGoal(i) \/ RunAborts(i)
      PROVE  LimitInv'
  <2>1. Still /\ UNCHANGED calls
    BY <1>9 DEF RunPops, RunStarts, ContinueGoal, RunAborts, history
  <2> QED BY <1>7, <1>8, <2>1
<1>10. ASSUME NEW i \in DOMAIN copies, RunEnds(i) PROVE LimitInv'
  <2>1. Still /\ (UNCHANGED calls \/ calls' = Bump(calls))
    BY <1>10 DEF RunEnds, history
  <2>2. CASE calls' = Bump(calls)
    <3>1. \A d \in Calls : /\ DOMAIN calls'[d] = DOMAIN Idle
                           /\ calls'[d].at = calls[d].at /\ calls'[d].op = calls[d].op
      BY <1>1, <2>2, FieldsUpdated DEF Bump
    <3>2. CallTypes'
      BY <2>2, <3>1 DEF CallTypes, Bump
    <3> QED BY <2>1, <3>1, <3>2, CallsKeepPlace
  <2> QED BY <1>7, <1>8, <2>1, <2>2
<1>11. ASSUME NEW s \in Session, ResumeOverHttp(s) PROVE LimitInv'
  <2>1. opened' = opened \cup {s} /\ UNCHANGED <<calls, overlap>>
    BY <1>11 DEF ResumeOverHttp
  <2>2. DOMAIN by' = DOMAIN by \cup {s} /\ \A t \in DOMAIN by \ {s} : by'[t] = by[t]
    BY <1>11 DEF ResumeOverHttp, Register, Put
  <2>3. Counted' \subseteq Counted
    BY <2>1, <2>2 DEF Counted, Active, Open
  <2>4. IsFiniteSet(DOMAIN by \cup {s})
    BY OneMore DEF LimitInv
  <2>5. IsFiniteSet(DOMAIN by')
    BY <2>2, <2>4
  <2>6. CallTypes' /\ Spawners' \subseteq Spawners
    BY <1>8, <2>1 DEF Spawners, Spawning
  <2> QED BY <2>1, <2>3, <2>5, <2>6, NoneAdded
<1>12. CASE Restart
  <2>1. by' = << >> /\ calls' = [c \in Calls |-> Idle] /\ UNCHANGED overlap
    BY <1>12 DEF Restart
  <2>2. DOMAIN by' = {}
    BY <2>1
  <2>3. IsFiniteSet(DOMAIN by')
    BY <2>2, FS_EmptySet
  <2>4. Counted' = {}
    BY <2>2 DEF Counted, Active
  <2>5. CallTypes' /\ Spawners' \subseteq Spawners
    BY <2>1, IdleCall DEF CallTypes, Spawners, Spawning
  <2> QED BY <2>1, <2>3, <2>4, <2>5, NoneAdded
<1>13. CASE UNCHANGED vars
  <2>1. Still /\ UNCHANGED calls
    BY <1>13 DEF vars, history
  <2> QED BY <1>7, <1>8, <2>1
<1> QED BY <1>5, <1>6, <1>9, <1>10, <1>11, <1>12, <1>13 DEF Next

\* However spawns, closes, resumes and restarts interleave, the agents of the tree exceed
\* the limit of reserve_spawn by no more than the spawns that were in progress at once.
THEOREM SpawnLimit == Spec => []LimitHeld
<1>1. LimitInv => LimitHeld
  <2> SUFFICES ASSUME LimitInv PROVE LimitHeld
    OBVIOUS
  <2>1. Cardinality(Counted) \in Nat /\ Cardinality(Spawners) \in Nat
    BY Finite DEF LimitInv
  <2>2. MaxAgents \in Nat /\ Excess \in Nat
    BY MultiAgentBounds DEF LimitInv, Excess
  <2>3. Cardinality(Counted) <= MaxAgents + Excess
    BY <2>1, <2>2 DEF LimitInv
  <2> QED BY <2>3 DEF LimitHeld, Counted, Excess
<1>2. Spec => []LimitInv
  BY LimitInit, LimitKept, PTL DEF Spec
<1> QED BY <1>1, <1>2, PTL

-----------------------------------------------------------------------------
(***************************************************************************)
(* Closing.  Two things have to be known of every moment of a close: who   *)
(* is below the target, registered or on the way to it, and which copies   *)
(* are still to be closed.                                                 *)
(***************************************************************************)
Runs == {"none", "popped", "running", "cancelled", "continuing"}
Copy == [sess : Session, closed : BOOLEAN, closing : BOOLEAN, queue : Nat, run : Runs]

\* The places of close_for_multi_agent at one copy, and of the whole of close_agent.
AtCopy == {"stop", "clear", "signal"}
AtClose == {"close", "closing"} \cup AtCopy

\* Calls that have created their child and not registered it.
Making(c) == calls[c].op = "spawn" /\ calls[c].at \in {"identify", "register"}

TreeTypes ==
    /\ CallTypes
    /\ copies \in Seq(Copy)
    /\ disk \in [Session -> Meta \cup {NULL}]
    /\ \A s \in DOMAIN by :
          /\ s \in Session /\ disk[s] # NULL /\ disk[s].path \in Path
          /\ by[s].live \in DOMAIN copies \cup {NULL}
    /\ \A i \in DOMAIN copies : disk[copies[i].sess] # NULL

CallsShaped ==
    \A c \in Calls :
        /\ calls[c].op # "none" => calls[c].me \in Session
        /\ Spawning(c) => calls[c].path \in Path
        /\ calls[c].at \in AtClose => calls[c].op = "close"
        /\ calls[c].at = "close" => calls[c].to \in DOMAIN by
        /\ calls[c].at \in AtCopy => calls[c].to \in calls[c].todo
        /\ calls[c].todo \subseteq DOMAIN copies
        /\ calls[c].todo # {} => calls[c].at \in {"closing"} \cup AtCopy

\* A child that is being made is nobody else's, and not known to the tree; it may only
\* have been resumed over HTTP, once it has its path.
ChildrenHidden ==
    \A c \in Calls : Making(c) =>
        /\ calls[c].to \in Session /\ disk[calls[c].to] # NULL
        /\ calls[c].at = "identify" => disk[calls[c].to].path = NULL /\ calls[c].to \notin DOMAIN by
        /\ calls[c].at = "register" => disk[calls[c].to].path = calls[c].path
        /\ calls[c].to \notin opened =>
              /\ calls[c].to \notin DOMAIN by
              /\ \A i \in DOMAIN copies : copies[i].sess # calls[c].to
        /\ \A d \in Calls : Making(d) /\ calls[d].to = calls[c].to => d = c

\* Who was not resumed has one copy, and as long as it is open it is registered with it.
OneCopy ==
    \A i, j \in DOMAIN copies :
        copies[i].sess = copies[j].sess /\ copies[i].sess \notin opened => i = j

OpenHasCopy ==
    \A s \in DOMAIN by :
        s \notin opened /\ ~by[s].closed =>
            by[s].live \in DOMAIN copies /\ copies[by[s].live].sess = s

\* What is being spawned under a closed agent is known to be.
SpawnsRaced ==
    \A c \in Calls : Spawning(c) /\ ClosedAbove(calls[c].path) => calls[c].path \in raced

\* A copy whose queue was cleared gets a run only from a push that was late; its close
\* goes on with that known.
Cleared(i) == copies[i].closing /\ (copies[i].queue = 0 \/ i \in late)

ClosesGoOn ==
    \A c \in Calls : /\ calls[c].at = "clear" => copies[calls[c].to].closing
                     /\ calls[c].at = "signal" => Cleared(calls[c].to)

\* What ClosedCopiesRest asks of a copy
Rests(i) ==
    \/ i \in late
    \/ /\ copies[i].closing /\ copies[i].queue = 0
       /\ copies[i].run \notin {"popped", "running"}

CloseInv ==
    /\ TreeTypes /\ CallsShaped /\ ChildrenHidden /\ OneCopy /\ OpenHasCopy
    /\ SpawnsRaced /\ SubtreeClosed /\ ClosesGoOn /\ ClosedCopiesRest

LEMMA CallUpdated ==
  ASSUME NEW call, DOMAIN call = DOMAIN Idle, NEW at, NEW x
  PROVE  /\ LET new == [call EXCEPT !.at = at]
            IN  new.path = call.path /\ new.to = call.to /\ new.todo = call.todo
         /\ LET new == [call EXCEPT !.at = at, !.path = x]
            IN  new.path = x /\ new.to = call.to /\ new.todo = call.todo
         /\ LET new == [call EXCEPT !.at = at, !.to = x]
            IN  new.path = call.path /\ new.to = x /\ new.todo = call.todo
         /\ LET new == [call EXCEPT !.at = at, !.changed = x]
            IN  new.path = call.path /\ new.to = call.to /\ new.todo = call.todo
         /\ LET new == [call EXCEPT !.at = at, !.todo = x]
            IN  new.path = call.path /\ new.to = call.to /\ new.todo = x
         /\ LET new == [call EXCEPT !.changed = TRUE]
            IN  new.path = call.path /\ new.to = call.to /\ new.todo = call.todo
<1>1. DOMAIN Idle = {"op", "at", "me", "path", "to", "changed", "todo"}
  BY DEF Idle
<1> QED BY <1>1

LEMMA IdleFields == Idle.op = "none" /\ Idle.at = "none" /\ Idle.todo = {}
  BY DEF Idle

LEMMA BelowTransitive ==
  ASSUME NEW p \in Path, NEW q \in Path, NEW r \in Path, Below(q, p), Below(r, q)
  PROVE  Below(r, p)
<1>1. \A x \in Path : x \in Seq(Names)
  BY DEF Path, SeqOf
<1>2. /\ Len(p) <= Len(q) /\ SubSeq(p, 1, Len(p)) = SubSeq(q, 1, Len(p))
      /\ Len(q) <= Len(r) /\ SubSeq(q, 1, Len(q)) = SubSeq(r, 1, Len(q))
  BY DEF Below, IsPrefix
<1>3. Len(p) \in Nat /\ Len(q) \in Nat /\ Len(r) \in Nat
  BY <1>1
<1>4. ASSUME NEW k \in 1..Len(p) PROVE q[k] = r[k]
  <2>1. SubSeq(q, 1, Len(q))[k] = q[k] /\ SubSeq(r, 1, Len(q))[k] = r[k]
    BY <1>1, <1>2, <1>3
  <2> QED BY <1>2, <2>1
<1>5. SubSeq(q, 1, Len(p)) = SubSeq(r, 1, Len(p))
  BY <1>1, <1>2, <1>3, <1>4
<1> QED BY <1>2, <1>3, <1>5 DEF Below, IsPrefix

\* A write of a session's closed mark leaves who is on disk and where.
LEMMA MarkedOnDisk ==
  ASSUME disk \in [Session -> Meta \cup {NULL}], NEW s \in Session, disk[s] # NULL,
         NEW b \in BOOLEAN, disk' = [disk EXCEPT ![s].closed = b]
  PROVE  /\ disk' \in [Session -> Meta \cup {NULL}]
         /\ \A t \in Session : /\ disk'[t] # NULL <=> disk[t] # NULL
                               /\ disk[t] # NULL => disk'[t].path = disk[t].path
<1> DEFINE m == [disk[s] EXCEPT !.closed = b]
<1>1. disk' = [disk EXCEPT ![s] = m] /\ disk[s] \in Meta
  OBVIOUS
<1>2. m \in Meta /\ m.path = disk[s].path
  BY <1>1 DEF Meta
<1> HIDE DEF m
<1>3. m # NULL
  BY <1>2, MultiAgentNull
<1> QED BY <1>1, <1>2, <1>3

LEMMA IsSequence ==
  ASSUME NEW S, NEW n \in Nat, NEW f \in [1..n -> S]
  PROVE  f \in Seq(S)
OBVIOUS

LEMMA FreshCopy ==
  ASSUME NEW s \in Session, NEW b \in BOOLEAN
  PROVE  NewCopy(s, b) \in Copy /\ NewCopy(s, b).sess = s
BY DEF NewCopy, Copy, Runs

LEMMA CopyRuns ==
  ASSUME NEW copy \in Copy, NEW run \in Runs
  PROVE  LET new == [copy EXCEPT !.run = run]
         IN  /\ new \in Copy /\ new.sess = copy.sess /\ new.closing = copy.closing
             /\ new.queue = copy.queue /\ new.run = run
BY DEF Copy

LEMMA CopyQueues ==
  ASSUME NEW copy \in Copy, NEW k \in Nat
  PROVE  LET new == [copy EXCEPT !.queue = k]
         IN  /\ new \in Copy /\ new.sess = copy.sess /\ new.closing = copy.closing
             /\ new.queue = k /\ new.run = copy.run
BY DEF Copy

LEMMA CopyCloses ==
  ASSUME NEW copy \in Copy
  PROVE  /\ LET new == [copy EXCEPT !.closed = TRUE]
            IN  /\ new \in Copy /\ new.sess = copy.sess /\ new.closing = copy.closing
                /\ new.queue = copy.queue /\ new.run = copy.run
         /\ LET new == [copy EXCEPT !.closing = TRUE]
            IN  /\ new \in Copy /\ new.sess = copy.sess /\ new.closing = TRUE
                /\ new.queue = copy.queue /\ new.run = copy.run
BY DEF Copy

LEMMA CopyTypes ==
  ASSUME NEW copy \in Copy
  PROVE  copy.sess \in Session /\ copy.closed \in BOOLEAN /\ copy.queue \in Nat /\ copy.run \in Runs
BY DEF Copy

LEMMA CloseInit == Init => CloseInv
<1> SUFFICES ASSUME Init PROVE CloseInv
  OBVIOUS
<1>1. /\ DOMAIN calls = Calls /\ \A c \in Calls : calls[c] = Idle
      /\ DOMAIN by = {Root} /\ by[Root].closed = FALSE /\ by[Root].live = 1
  BY DEF Init
<1>2. Root \in Session /\ RootPath \in Path
  BY MultiAgentBounds DEF Session, Root, RootPath, Path, SeqOf
<1>3. Len(copies) = 1 /\ copies[1] \in Copy /\ copies[1].sess = Root /\ copies \in Seq(Copy)
  <2> DEFINE new == NewCopy(Root, FALSE)
             i == [new EXCEPT !.run = "running"]
  <2>1. i \in Copy /\ i.sess = Root
    <3>1. new \in Copy /\ new.sess = Root
      BY <1>2, FreshCopy
    <3>2. "running" \in Runs
      BY DEF Runs
    <3> HIDE DEF new
    <3> QED BY <3>1, <3>2, CopyRuns
  <2>2. copies = <<i>>
    BY DEF Init
  <2> HIDE DEF i
  <2> QED BY <2>1, <2>2
<1>4. /\ disk \in [Session -> Meta \cup {NULL}] /\ disk[Root] # NULL /\ disk[Root].path \in Path
  <2> DEFINE m == [path |-> RootPath, parent |-> NULL, closed |-> FALSE]
  <2>1. m \in Meta /\ m.path = RootPath
    BY <1>2 DEF Meta
  <2>2. disk = [s \in Session |-> IF s = Root THEN m ELSE NULL]
    BY DEF Init
  <2> HIDE DEF m
  <2> QED BY <1>2, <2>1, <2>2, MultiAgentNull
<1>5. DOMAIN copies = {1}
  BY <1>3
<1>6. CallTypes
  BY <1>1 DEF CallTypes
<1>7. TreeTypes
  BY <1>1, <1>2, <1>3, <1>4, <1>5, <1>6 DEF TreeTypes
<1>8. CallsShaped /\ ChildrenHidden /\ SpawnsRaced
  BY <1>1, IdleFields DEF CallsShaped, ChildrenHidden, SpawnsRaced, Making, Spawning, AtClose, AtCopy
<1>9. OneCopy /\ OpenHasCopy /\ SubtreeClosed /\ ClosesGoOn /\ ClosedCopiesRest
  BY <1>1, <1>3, <1>5, IdleFields
     DEF OneCopy, OpenHasCopy, SubtreeClosed, ClosesGoOn, ClosedCopiesRest, Open, ClosedAbove
<1> QED BY <1>7, <1>8, <1>9 DEF CloseInv

\* What most steps do to a call: it stays where it is, or it returns, begins or takes
\* another turn, reserve_spawn included, or it goes on with its closing.
CallStays(c) ==
    /\ calls'[c].op = calls[c].op /\ calls'[c].at = calls[c].at /\ calls'[c].me = calls[c].me
    /\ calls'[c].path = calls[c].path /\ calls'[c].to = calls[c].to
    /\ calls'[c].todo = calls[c].todo

CallTurns(c) ==
    /\ calls'[c].todo = {} /\ calls[c].todo = {}
    /\ calls'[c].op = "spawn" => calls'[c].at \notin {"identify", "register"}
    /\ calls'[c].op = "spawn" /\ calls'[c].at = "create" =>
          calls'[c].path \in Path /\ (ClosedAbove(calls'[c].path) => calls'[c].path \in raced')
    /\ calls'[c].op # "none" => calls'[c].me \in Session
    /\ calls'[c].at \in {"close", "closing"} => calls'[c].op = "close"
    /\ calls'[c].at \notin AtCopy
    /\ calls'[c].at = "close" => calls'[c].to \in DOMAIN by

CallCloses(c) ==
    /\ calls'[c].op = "close" /\ calls'[c].me \in Session
    /\ calls'[c].at \in {"closing"} \cup AtCopy
    /\ calls'[c].at \in AtCopy => calls'[c].to \in calls'[c].todo
    /\ calls'[c].todo \subseteq calls[c].todo

\* A step in which nobody is registered or closed.
LEMMA TreeKept ==
  ASSUME CloseInv, UNCHANGED <<by, opened>>, raced \subseteq raced', CallTypes',
         copies' \in Seq(Copy), DOMAIN copies' = DOMAIN copies,
         \A i \in DOMAIN copies : copies'[i].sess = copies[i].sess,
         disk' \in [Session -> Meta \cup {NULL}],
         \A t \in Session : /\ disk'[t] # NULL <=> disk[t] # NULL
                            /\ disk[t] # NULL => disk'[t].path = disk[t].path,
         \A c \in Calls : CallStays(c) \/ CallTurns(c) \/ CallCloses(c),
         ClosesGoOn', ClosedCopiesRest'
  PROVE  CloseInv'
<1> USE DEF CloseInv
<1>1. \A i \in DOMAIN copies : copies[i].sess \in Session
  <2>1. \A i \in DOMAIN copies : copies[i] \in Copy
    BY DEF TreeTypes
  <2> QED BY <2>1 DEF Copy
<1>2. TreeTypes'
  BY <1>1 DEF TreeTypes
<1>3. \A c \in Calls :
         Spawning(c)' => \/ CallStays(c) /\ Spawning(c)
                         \/ calls'[c].path \in Path /\ (ClosedAbove(calls'[c].path) => calls'[c].path \in raced')
  BY DEF CallStays, CallTurns, CallCloses, Spawning
<1>4. \A c \in Calls : Making(c)' => CallStays(c) /\ Making(c)
  BY DEF CallStays, CallTurns, CallCloses, Making
<1>5. CallsShaped'
  <2> SUFFICES ASSUME NEW c \in Calls
               PROVE  /\ calls'[c].op # "none" => calls'[c].me \in Session
                      /\ Spawning(c)' => calls'[c].path \in Path
                      /\ calls'[c].at \in AtClose => calls'[c].op = "close"
                      /\ calls'[c].at = "close" => calls'[c].to \in DOMAIN by
                      /\ calls'[c].at \in AtCopy => calls'[c].to \in calls'[c].todo
                      /\ calls'[c].todo \subseteq DOMAIN copies
                      /\ calls'[c].todo # {} => calls'[c].at \in {"closing"} \cup AtCopy
    BY DEF CallsShaped
  <2>1. Spawning(c)' => calls'[c].path \in Path
    BY <1>3 DEF CallsShaped, CallStays
  <2>2. CASE CallStays(c)
    BY <2>1, <2>2 DEF CallsShaped, CallStays
  <2>3. CASE CallTurns(c)
    BY <2>1, <2>3 DEF CallTurns, AtClose, AtCopy
  <2>4. CASE CallCloses(c)
    BY <2>1, <2>4 DEF CallsShaped, CallCloses, AtClose, AtCopy
  <2> QED BY <2>2, <2>3, <2>4
<1>6. ChildrenHidden'
  <2> SUFFICES ASSUME NEW c \in Calls, Making(c)'
               PROVE  /\ calls'[c].to \in Session /\ disk'[calls'[c].to] # NULL
                      /\ calls'[c].at = "identify" =>
                            disk'[calls'[c].to].path = NULL /\ calls'[c].to \notin DOMAIN by
                      /\ calls'[c].at = "register" => disk'[calls'[c].to].path = calls'[c].path
                      /\ calls'[c].to \notin opened =>
                            /\ calls'[c].to \notin DOMAIN by
                            /\ \A i \in DOMAIN copies : copies'[i].sess # calls'[c].to
                      /\ \A d \in Calls : Making(d)' /\ calls'[d].to = calls'[c].to => d = c
    BY DEF ChildrenHidden
  <2>1. Making(c) /\ calls'[c].to = calls[c].to /\ calls'[c].at = calls[c].at /\ calls'[c].path = calls[c].path
    BY <1>4 DEF CallStays
  <2>2. /\ calls[c].to \in Session /\ disk[calls[c].to] # NULL
        /\ calls[c].at = "identify" => disk[calls[c].to].path = NULL /\ calls[c].to \notin DOMAIN by
        /\ calls[c].at = "register" => disk[calls[c].to].path = calls[c].path
        /\ calls[c].to \notin opened =>
              /\ calls[c].to \notin DOMAIN by
              /\ \A i \in DOMAIN copies : copies[i].sess # calls[c].to
    BY <2>1 DEF ChildrenHidden
  <2>3. ASSUME NEW d \in Calls, Making(d)', calls'[d].to = calls'[c].to PROVE d = c
    BY <1>4, <2>1, <2>3 DEF CallStays, ChildrenHidden
  <2> QED BY <2>1, <2>2, <2>3
<1>7. OneCopy' /\ OpenHasCopy'
  BY DEF OneCopy, OpenHasCopy
<1>8. \A s \in DOMAIN by : s \in Session /\ disk'[s].path = disk[s].path
  BY DEF TreeTypes
<1>9. ASSUME NEW p, ClosedAbove(p)' PROVE ClosedAbove(p)
  BY <1>8, <1>9 DEF ClosedAbove
<1>10. SpawnsRaced'
  BY <1>3, <1>9 DEF SpawnsRaced, CallStays
<1>11. SubtreeClosed'
  BY <1>8, <1>9 DEF SubtreeClosed, Open
<1> QED BY <1>2, <1>5, <1>6, <1>7, <1>10, <1>11

\* A step in which no call closes, and no run comes to a copy that is closing, but one
\* that is late.
LEMMA RestKept ==
  ASSUME CallsShaped, ClosesGoOn, ClosedCopiesRest, UNCHANGED <<by, opened>>,
         DOMAIN copies' = DOMAIN copies,
         \A c \in Calls : CallStays(c) \/ CallTurns(c),
         \A i \in DOMAIN copies :
            /\ copies'[i].sess = copies[i].sess
            /\ copies[i].closing => copies'[i].closing
            /\ Cleared(i) => Cleared(i)'
            /\ Rests(i) => Rests(i)'
  PROVE  ClosesGoOn' /\ ClosedCopiesRest'
<1>1. \A c \in Calls : calls'[c].todo = calls[c].todo
  BY DEF CallStays, CallTurns
<1>2. ClosedCopiesRest'
  BY <1>1 DEF ClosedCopiesRest, Rests
<1>3. ASSUME NEW c \in Calls, calls'[c].at \in AtCopy
      PROVE  /\ calls'[c].at = calls[c].at /\ calls'[c].to = calls[c].to
             /\ calls[c].to \in DOMAIN copies
  BY <1>3 DEF CallStays, CallTurns, CallsShaped
<1>4. ClosesGoOn'
  <2> SUFFICES ASSUME NEW c \in Calls
               PROVE  /\ calls'[c].at = "clear" => copies'[calls'[c].to].closing
                      /\ calls'[c].at = "signal" => /\ copies'[calls'[c].to].closing
                                                    /\ \/ copies'[calls'[c].to].queue = 0
                                                       \/ calls'[c].to \in late'
    BY DEF ClosesGoOn, Cleared
  <2>1. CASE calls'[c].at = "clear"
    BY <1>3, <2>1 DEF ClosesGoOn, AtCopy
  <2>2. CASE calls'[c].at = "signal"
    <3>1. /\ calls'[c].to = calls[c].to /\ calls[c].to \in DOMAIN copies
          /\ calls[c].at = "signal"
      BY <1>3, <2>2 DEF AtCopy
    <3>2. Cleared(calls[c].to)
      BY <3>1 DEF ClosesGoOn
    <3>3. \A i \in DOMAIN copies : Cleared(i) => copies'[i].closing /\ (copies'[i].queue = 0 \/ i \in late')
      BY DEF Cleared
    <3> QED BY <2>2, <3>1, <3>2, <3>3
  <2> QED BY <2>1, <2>2
<1> QED BY <1>2, <1>4

\* A step of the calls alone.
LEMMA CallsMove ==
  ASSUME CloseInv, UNCHANGED <<disk, by, copies, opened, late>>, raced \subseteq raced', CallTypes',
         \A c \in Calls : CallStays(c) \/ CallTurns(c)
  PROVE  CloseInv'
<1>1. ClosesGoOn' /\ ClosedCopiesRest'
  BY RestKept DEF CloseInv, Cleared, Rests
<1>2. copies \in Seq(Copy) /\ disk \in [Session -> Meta \cup {NULL}]
  BY DEF CloseInv, TreeTypes
<1> QED BY <1>1, <1>2, TreeKept

LEMMA CallMoves ==
  ASSUME CloseInv, UNCHANGED <<disk, by, copies, opened, late>>, raced \subseteq raced',
         NEW c \in Calls, NEW call, calls' = [calls EXCEPT ![c] = call], DOMAIN call = DOMAIN Idle,
         call.todo = {}, calls[c].todo = {},
         call.op = "spawn" => call.at \notin {"identify", "register"},
         call.op = "spawn" /\ call.at = "create" =>
            call.path \in Path /\ (ClosedAbove(call.path) => call.path \in raced'),
         call.op # "none" => call.me \in Session,
         call.at \in {"close", "closing"} => call.op = "close",
         call.at \notin {"stop", "clear", "signal"},
         call.at = "close" => call.to \in DOMAIN by
  PROVE  CloseInv'
<1>1. DOMAIN calls = Calls /\ \A d \in Calls : DOMAIN calls[d] = DOMAIN Idle
  BY DEF CloseInv, TreeTypes, CallTypes
<1>2. CallTypes'
  BY <1>1 DEF CallTypes
<1>3. \A d \in Calls : calls'[d] = IF d = c THEN call ELSE calls[d]
  BY <1>1
<1>4. CallTurns(c)
  BY <1>3 DEF CallTurns, AtCopy
<1>5. \A d \in Calls : d # c => CallStays(d)
  BY <1>3 DEF CallStays
<1> QED BY <1>2, <1>4, <1>5, CallsMove

\* Calls that only get told keep everything.
LEMMA BumpFields ==
  ASSUME CallTypes
  PROVE  /\ DOMAIN Bump(calls) = Calls
         /\ \A c \in Calls :
               /\ DOMAIN Bump(calls)[c] = DOMAIN Idle
               /\ Bump(calls)[c].op = calls[c].op /\ Bump(calls)[c].at = calls[c].at
               /\ Bump(calls)[c].me = calls[c].me /\ Bump(calls)[c].path = calls[c].path
               /\ Bump(calls)[c].to = calls[c].to /\ Bump(calls)[c].todo = calls[c].todo
BY FieldsUpdated, CallUpdated DEF CallTypes, Bump

LEMMA CallsKept ==
  ASSUME CloseInv, NEW c \in Calls,
         \/ Drop(c) \/ SpawnFails(c) \/ QueueMessage(c) \/ FollowupTask(c) \/ Subscribe(c)
         \/ DrainMailbox(c) \/ Wake(c) \/ WaitTimeout(c) \/ CloseDone(c) \/ EnqueueChild(c)
         \/ \E s \in Session : disk[s] # NULL /\ ResolveTarget(c, s)
         \/ \E name \in Names : ReserveSpawn(c, name)
  PROVE  CloseInv'
<1>1. /\ DOMAIN calls = Calls /\ DOMAIN calls[c] = DOMAIN Idle
      /\ calls[c].op # "none" => calls[c].me \in Session
      /\ calls[c].at \in {"close", "closing", "stop", "clear", "signal"} => calls[c].op = "close"
      /\ calls[c].todo # {} => calls[c].at \in {"closing", "stop", "clear", "signal"}
  BY DEF CloseInv, TreeTypes, CallTypes, CallsShaped, AtClose, AtCopy
<1>2. ASSUME Return(c), calls[c].todo = {}, UNCHANGED <<disk, by, copies, opened, raced, late>>
      PROVE  CloseInv'
  BY <1>2, CallMoves, IdleFields DEF Return
<1>3. CASE Drop(c) \/ SpawnFails(c) \/ WaitTimeout(c) \/ CloseDone(c)
  <2>1. Return(c) /\ UNCHANGED <<disk, by, copies, opened, raced, late>>
    BY <1>3 DEF Drop, SpawnFails, WaitTimeout, CloseDone, history
  <2>2. calls[c].todo = {}
    BY <1>1, <1>3 DEF Drop, SpawnFails, Spawning, WaitTimeout, CloseDone
  <2> QED BY <1>2, <2>1, <2>2
<1>4. CASE QueueMessage(c)
  <2>1. CallTypes
    BY DEF CloseInv, TreeTypes
  <2>2. /\ calls' = [Bump(calls) EXCEPT ![c] = Idle] /\ calls[c].at = "send"
        /\ UNCHANGED <<disk, by, copies, opened, raced, late>>
    BY <1>4 DEF QueueMessage, history
  <2>3. DOMAIN calls' = Calls /\ \A d \in Calls : calls'[d] = IF d = c THEN Idle ELSE Bump(calls)[d]
    BY <2>1, <2>2, BumpFields
  <2>4. CallTypes'
    BY <2>1, <2>3, BumpFields DEF CallTypes
  <2>5. \A d \in Calls : d # c => CallStays(d)
    BY <2>1, <2>3, BumpFields DEF CallStays
  <2>6. CallTurns(c)
    BY <1>1, <2>2, <2>3, IdleFields DEF CallTurns, AtCopy
  <2> QED BY <2>2, <2>4, <2>5, <2>6, CallsMove
<1>5. CASE FollowupTask(c)
  <2> DEFINE i == by[calls[c].to].live
             call == [calls[c] EXCEPT !.at = "push", !.to = i]
  <2>1. /\ UNCHANGED <<disk, by, copies, opened, raced, late>> /\ calls[c].at = "followup"
        /\ Return(c) \/ calls' = [calls EXCEPT ![c] = call]
    BY <1>5 DEF FollowupTask, history
  <2>2. /\ DOMAIN call = DOMAIN Idle /\ call.at = "push" /\ call.op = calls[c].op
        /\ call.me = calls[c].me /\ call.todo = calls[c].todo
    BY <1>1, FieldsUpdated, CallUpdated
  <2>3. calls[c].todo = {}
    BY <1>1, <2>1
  <2> HIDE DEF call
  <2>4. CASE Return(c)
    BY <1>2, <2>1, <2>3, <2>4
  <2>5. CASE calls' = [calls EXCEPT ![c] = call]
    <3>1. call.op # "none" => call.me \in Session
      BY <1>1, <2>2
    <3> QED BY <2>1, <2>2, <2>3, <2>5, <3>1, CallMoves
  <2> QED BY <2>1, <2>4, <2>5
<1>6. CASE Subscribe(c) \/ Wake(c)
  <2> DEFINE call == [calls[c] EXCEPT !.at = "drain", !.changed = FALSE]
  <2>1. /\ UNCHANGED <<disk, by, copies, opened, raced, late>> /\ calls[c].at \in {"begin", "asleep"}
        /\ calls' = [calls EXCEPT ![c] = call]
    BY <1>6 DEF Subscribe, Wake, history
  <2>2. /\ DOMAIN call = DOMAIN Idle /\ call.at = "drain" /\ call.op = calls[c].op
        /\ call.me = calls[c].me /\ call.todo = calls[c].todo
    BY <1>1, FieldsUpdated, CallUpdated
  <2>3. calls[c].todo = {}
    BY <1>1, <2>1
  <2> HIDE DEF call
  <2>4. call.op # "none" => call.me \in Session
    BY <1>1, <2>2
  <2> QED BY <2>1, <2>2, <2>3, <2>4, CallMoves
<1>7. CASE DrainMailbox(c)
  <2> DEFINE call == [calls[c] EXCEPT !.at = "asleep"]
  <2>1. /\ UNCHANGED <<disk, by, copies, opened, raced, late>> /\ calls[c].at = "drain"
        /\ Return(c) \/ calls' = [calls EXCEPT ![c] = call]
    BY <1>7 DEF DrainMailbox, Goto, history
  <2>2. /\ DOMAIN call = DOMAIN Idle /\ call.at = "asleep" /\ call.op = calls[c].op
        /\ call.me = calls[c].me /\ call.todo = calls[c].todo
    BY <1>1, FieldsUpdated, CallUpdated
  <2>3. calls[c].todo = {}
    BY <1>1, <2>1
  <2> HIDE DEF call
  <2>4. CASE Return(c)
    BY <1>2, <2>1, <2>3, <2>4
  <2>5. CASE calls' = [calls EXCEPT ![c] = call]
    <3>1. call.op # "none" => call.me \in Session
      BY <1>1, <2>2
    <3> QED BY <2>1, <2>2, <2>3, <2>5, <3>1, CallMoves
  <2> QED BY <2>1, <2>4, <2>5
<1>8. ASSUME NEW s \in Session, ResolveTarget(c, s) PROVE CloseInv'
  <2> DEFINE call == [calls[c] EXCEPT !.at = calls[c].op, !.to = s]
  <2>1. /\ UNCHANGED <<disk, by, copies, opened, raced, late>> /\ calls[c].at = "begin"
        /\ Return(c) \/ (calls' = [calls EXCEPT ![c] = call] /\ s \in DOMAIN by)
        /\ calls[c].op \in {"send", "followup", "close"}
    BY <1>8 DEF ResolveTarget, Open, history
  <2>2. /\ DOMAIN call = DOMAIN Idle /\ call.at = calls[c].op /\ call.op = calls[c].op
        /\ call.me = calls[c].me /\ call.to = s /\ call.todo = calls[c].todo
    BY <1>1, FieldsUpdated, CallUpdated
  <2>3. calls[c].todo = {}
    BY <1>1, <2>1
  <2> HIDE DEF call
  <2>4. CASE Return(c)
    BY <1>2, <2>1, <2>3, <2>4
  <2>5. CASE calls' = [calls EXCEPT ![c] = call] /\ s \in DOMAIN by
    <3>1. call.op # "none" => call.me \in Session
      BY <1>1, <2>2
    <3>2. /\ call.op # "spawn" /\ call.todo = {}
          /\ call.at \in {"close", "closing"} => call.op = "close"
          /\ call.at = "close" => call.to \in DOMAIN by
      BY <2>1, <2>2, <2>3, <2>5
    <3> QED BY <2>1, <2>2, <2>3, <2>5, <3>1, <3>2, CallMoves
  <2> QED BY <2>1, <2>4, <2>5
<1>9. ASSUME NEW name \in Names, ReserveSpawn(c, name) PROVE CloseInv'
  <2> DEFINE path == Append(disk[calls[c].me].path, name)
             call == [calls[c] EXCEPT !.at = "create", !.path = path]
  <2>1. /\ UNCHANGED <<disk, by, copies, opened, late>> /\ calls[c].at = "begin"
        /\ \/ Return(c) /\ raced' = raced
           \/ /\ calls' = [calls EXCEPT ![c] = call] /\ path \in Path
              /\ raced' = IF ClosedAbove(path) THEN raced \cup {path} ELSE raced
    BY <1>9 DEF ReserveSpawn
  <2>2. /\ DOMAIN call = DOMAIN Idle /\ call.at = "create" /\ call.op = calls[c].op
        /\ call.me = calls[c].me /\ call.path = path /\ call.todo = calls[c].todo
    BY <1>1, FieldsUpdated, CallUpdated
  <2>3. calls[c].todo = {}
    BY <1>1, <2>1
  <2> HIDE DEF call, path
  <2>4. CASE Return(c) /\ raced' = raced
    BY <1>2, <2>1, <2>3, <2>4
  <2>5. CASE /\ calls' = [calls EXCEPT ![c] = call] /\ path \in Path
             /\ raced' = IF ClosedAbove(path) THEN raced \cup {path} ELSE raced
    <3>1. call.op # "none" => call.me \in Session
      BY <1>1, <2>2
    <3>2. raced \subseteq raced' /\ (ClosedAbove(call.path) => call.path \in raced')
      BY <2>2, <2>5
    <3> QED BY <2>1, <2>2, <2>3, <2>5, <3>1, <3>2, CallMoves
  <2> QED BY <2>1, <2>4, <2>5
<1>10. CASE EnqueueChild(c)
  <2> DEFINE call == [calls[c] EXCEPT !.at = "push"]
  <2>1. /\ UNCHANGED <<disk, by, copies, opened, raced, late>> /\ calls[c].at = "enqueue"
        /\ Return(c) \/ calls' = [calls EXCEPT ![c] = call]
    BY <1>10 DEF EnqueueChild, Goto, history
  <2>2. /\ DOMAIN call = DOMAIN Idle /\ call.at = "push" /\ call.op = calls[c].op
        /\ call.me = calls[c].me /\ call.todo = calls[c].todo
    BY <1>1, FieldsUpdated, CallUpdated
  <2>3. calls[c].todo = {}
    BY <1>1, <2>1
  <2> HIDE DEF call
  <2>4. CASE Return(c)
    BY <1>2, <2>1, <2>3, <2>4
  <2>5. CASE calls' = [calls EXCEPT ![c] = call]
    <3>1. call.op # "none" => call.me \in Session
      BY <1>1, <2>2
    <3> QED BY <2>1, <2>2, <2>3, <2>5, <3>1, CallMoves
  <2> QED BY <2>1, <2>4, <2>5
<1> QED BY <1>3, <1>4, <1>5, <1>6, <1>7, <1>8, <1>9, <1>10

LEMMA CallBegins ==
  ASSUME CloseInv, NEW c \in Calls, NEW op \in Op, NEW me \in Session, Begin(c, op, me)
  PROVE  CloseInv'
<1> DEFINE call == [Idle EXCEPT !.op = op, !.at = "begin", !.me = me]
<1>1. DOMAIN call = DOMAIN Idle /\ call.at = "begin" /\ call.me = me /\ call.todo = {}
  BY DEF Idle
<1>2. calls' = [calls EXCEPT ![c] = call] /\ UNCHANGED <<disk, by, copies, opened, raced, late>>
  BY DEF Begin, history
<1>3. calls[c].todo = {}
  <2>1. calls[c].op = "none"
    BY DEF Begin
  <2> QED BY <2>1 DEF CloseInv, CallsShaped, AtClose, AtCopy
<1> HIDE DEF call
<1> QED BY <1>1, <1>2, <1>3, CallMoves

-----------------------------------------------------------------------------
\* An update of one copy that keeps its session.
LEMMA CopyMoves ==
  ASSUME copies \in Seq(Copy), NEW i, NEW new \in Copy, i \in DOMAIN copies => new.sess = copies[i].sess,
         copies' = [copies EXCEPT ![i] = new]
  PROVE  /\ copies' \in Seq(Copy) /\ DOMAIN copies' = DOMAIN copies
         /\ \A j \in DOMAIN copies : /\ copies'[j] = IF j = i THEN new ELSE copies[j]
                                     /\ copies'[j].sess = copies[j].sess
<1>1. DOMAIN copies' = 1..Len(copies) /\ Len(copies) \in Nat
  OBVIOUS
<1>2. \A j \in DOMAIN copies : copies[j] \in Copy /\ copies'[j] = IF j = i THEN new ELSE copies[j]
  OBVIOUS
<1>3. \A j \in 1..Len(copies) : copies'[j] \in Copy
  BY <1>1, <1>2
<1>4. copies' = [j \in 1..Len(copies) |-> copies'[j]]
  BY <1>1
<1>5. copies' \in [1..Len(copies) -> Copy]
  BY <1>3, <1>4, Zenon
<1>6. copies' \in Seq(Copy)
  BY <1>1, <1>5, IsSequence
<1> QED BY <1>1, <1>2, <1>6

\* The worker, or a request to it, moves a run; a call returns or stays.
LEMMA RunMoves ==
  ASSUME CloseInv, UNCHANGED <<by, opened, raced>>, CallTypes',
         \A c \in Calls : CallStays(c) \/ CallTurns(c),
         disk' \in [Session -> Meta \cup {NULL}],
         \A t \in Session : /\ disk'[t] # NULL <=> disk[t] # NULL
                            /\ disk[t] # NULL => disk'[t].path = disk[t].path,
         NEW i \in DOMAIN copies, NEW new \in Copy,
         copies' = [copies EXCEPT ![i] = new],
         new.sess = copies[i].sess, new.closing = copies[i].closing,
         late' = late \/ (late' = late \cup {i}),
         new.queue = 0 \/ copies[i].queue # 0 \/ ~copies[i].closing \/ i \in late',
         new.run \in {"none", "continuing"} \/ copies[i].run \in {"popped", "running"}
            \/ copies[i].queue # 0 \/ ~copies[i].closing \/ i \in late'
  PROVE  CloseInv'
<1>1. copies \in Seq(Copy)
  BY DEF CloseInv, TreeTypes
<1>2. /\ copies' \in Seq(Copy) /\ DOMAIN copies' = DOMAIN copies
      /\ \A j \in DOMAIN copies : /\ copies'[j] = IF j = i THEN new ELSE copies[j]
                                  /\ copies'[j].sess = copies[j].sess
  BY <1>1, CopyMoves
<1>3. ASSUME NEW j \in DOMAIN copies
      PROVE  /\ copies[j].closing => copies'[j].closing
             /\ Cleared(j) => Cleared(j)'
             /\ Rests(j) => Rests(j)'
  <2>1. CASE j = i
    <3>1. copies'[j] = new /\ (j \in late => j \in late')
      BY <1>2, <2>1
    <3>2. Cleared(j) => new.closing /\ (new.queue = 0 \/ j \in late')
      BY <2>1, <3>1 DEF Cleared
    <3>3. Rests(j) => \/ j \in late'
                      \/ (new.closing /\ new.queue = 0 /\ new.run \notin {"popped", "running"})
      BY <2>1, <3>1 DEF Rests
    <3> QED BY <2>1, <3>1, <3>2, <3>3 DEF Cleared, Rests
  <2>2. CASE j # i
    <3>1. copies'[j] = copies[j] /\ (j \in late => j \in late')
      BY <1>2, <2>2
    <3> QED BY <3>1 DEF Cleared, Rests
  <2> QED BY <2>1, <2>2
<1>4. ClosesGoOn' /\ ClosedCopiesRest'
  BY <1>2, <1>3, RestKept DEF CloseInv
<1> QED BY <1>2, <1>4, TreeKept

LEMMA Returned ==
  ASSUME CloseInv, NEW c \in Calls, Return(c), calls[c].todo = {}
  PROVE  /\ CallTypes'
         /\ \A d \in Calls : CallStays(d) \/ CallTurns(d)
<1>1. DOMAIN calls = Calls /\ \A d \in Calls : DOMAIN calls[d] = DOMAIN Idle
  BY DEF CloseInv, TreeTypes, CallTypes
<1>2. \A d \in Calls : calls'[d] = IF d = c THEN Idle ELSE calls[d]
  BY <1>1 DEF Return
<1>3. CallTypes'
  BY <1>1 DEF CallTypes, Return
<1>4. CallTurns(c)
  BY <1>2, IdleFields DEF CallTurns, AtCopy
<1>5. \A d \in Calls : d # c => CallStays(d)
  BY <1>2 DEF CallStays
<1> QED BY <1>3, <1>4, <1>5

LEMMA DiskKept ==
  ASSUME CloseInv, UNCHANGED disk
  PROVE  /\ disk' \in [Session -> Meta \cup {NULL}]
         /\ \A t \in Session : /\ disk'[t] # NULL <=> disk[t] # NULL
                               /\ disk[t] # NULL => disk'[t].path = disk[t].path
BY DEF CloseInv, TreeTypes

LEMMA CallsStay ==
  ASSUME CloseInv, UNCHANGED calls
  PROVE  CallTypes' /\ \A c \in Calls : CallStays(c)
BY DEF CloseInv, TreeTypes, CallTypes, CallStays

LEMMA RunPushed ==
  ASSUME CloseInv, NEW c \in Calls, PushRun(c)
  PROVE  CloseInv'
<1> DEFINE i == calls[c].to
           new == [copies[i] EXCEPT !.queue = copies[i].queue + 1]
<1>1. calls[c].todo # {} => calls[c].at \in {"closing", "stop", "clear", "signal"}
  BY DEF CloseInv, CallsShaped, AtCopy
<1>2. /\ Return(c) /\ calls[c].todo = {} /\ UNCHANGED <<disk, by, opened, raced>>
      /\ copies' = [copies EXCEPT ![i] = new] /\ (late' = late \/ late' = late \cup {i})
      /\ copies[i].closing => i \in late'
  BY <1>1 DEF PushRun
<1>3. /\ CallTypes'
      /\ \A d \in Calls : CallStays(d) \/ CallTurns(d)
  BY <1>2, Returned
<1>4. /\ disk' \in [Session -> Meta \cup {NULL}]
      /\ \A t \in Session : /\ disk'[t] # NULL <=> disk[t] # NULL
                            /\ disk[t] # NULL => disk'[t].path = disk[t].path
  BY <1>2, DiskKept
<1>5. copies \in Seq(Copy)
  BY DEF CloseInv, TreeTypes
<1>6. CASE i \in DOMAIN copies
  <2>1. copies[i] \in Copy
    BY <1>5, <1>6
  <2>2. copies[i].queue + 1 \in Nat /\ copies[i].queue + 1 # 0 /\ copies[i].run \in Runs
    BY <2>1, CopyTypes
  <2>3. new \in Copy /\ new.sess = copies[i].sess /\ new.closing = copies[i].closing
        /\ new.run = copies[i].run
    BY <2>1, <2>2, CopyQueues
  <2> HIDE DEF new, i
  <2>4. \/ copies[i].closing /\ i \in late'
        \/ ~copies[i].closing
    BY <1>2
  <2> QED BY <1>2, <1>3, <1>4, <1>6, <2>3, <2>4, RunMoves
<1>7. CASE i \notin DOMAIN copies
  <2> HIDE DEF new, i
  <2>1. DOMAIN copies' = 1..Len(copies) /\ DOMAIN copies = 1..Len(copies) /\ Len(copies) \in Nat
    BY <1>2, <1>5
  <2>2. \A j \in DOMAIN copies : copies'[j] = copies[j] /\ copies[j] \in Copy
    BY <1>2, <1>5, <1>7
  <2>3. copies' = [j \in 1..Len(copies) |-> copies'[j]]
    BY <1>2, <2>1
  <2>4. copies' \in [1..Len(copies) -> Copy]
    <3>1. \A j \in 1..Len(copies) : copies'[j] \in Copy
      BY <2>1, <2>2
    <3> QED BY <2>3, <3>1, Zenon
  <2>5. copies' \in Seq(Copy)
    BY <2>1, <2>4, IsSequence
  <2>6. \A j \in DOMAIN copies : (Cleared(j) => Cleared(j)') /\ (Rests(j) => Rests(j)')
    BY <1>2, <2>2 DEF Cleared, Rests
  <2>7. ClosesGoOn' /\ ClosedCopiesRest'
    BY <1>2, <1>3, <2>1, <2>2, <2>6, RestKept DEF CloseInv
  <2> QED BY <1>2, <1>3, <1>4, <2>1, <2>2, <2>5, <2>7, TreeKept
<1> QED BY <1>6, <1>7

LEMMA RunsKept ==
  ASSUME CloseInv, NEW i \in DOMAIN copies,
         RunPops(i) \/ RunStarts(i) \/ RunEnds(i) \/ ContinueGoal(i) \/ RunAborts(i)
  PROVE  CloseInv'
<1> DEFINE queue == copies[i].queue
           run == copies[i].run
<1>1. copies[i] \in Copy
  BY DEF CloseInv, TreeTypes
<1>2. copies[i].sess \in Session /\ copies[i].closed \in BOOLEAN /\ queue \in Nat /\ run \in Runs
  BY <1>1, CopyTypes
<1>3. UNCHANGED disk => /\ disk' \in [Session -> Meta \cup {NULL}]
                        /\ \A t \in Session : /\ disk'[t] # NULL <=> disk[t] # NULL
                                              /\ disk[t] # NULL => disk'[t].path = disk[t].path
  BY DiskKept
<1>4. UNCHANGED calls => CallTypes' /\ \A c \in Calls : CallStays(c) \/ CallTurns(c)
  BY CallsStay
<1>5. CASE RunPops(i)
  <2>1. /\ UNCHANGED <<disk, by, opened, raced, late, calls>> /\ queue > 0
        /\ copies' = [copies EXCEPT ![i].queue = queue - 1, ![i].run = "popped"]
    BY <1>5 DEF RunPops, history
  <2>4. PICK k \in Nat : k = queue - 1
    BY <1>2, <2>1
  <2> DEFINE new == [copies[i] EXCEPT !.queue = k, !.run = "popped"]
  <2>5. copies' = [copies EXCEPT ![i] = new]
    BY <2>1, <2>4
  <2>2. queue # 0 /\ "popped" \in Runs
    BY <1>2, <2>1 DEF Runs
  <2>3. new \in Copy /\ new.sess = copies[i].sess /\ new.closing = copies[i].closing
    BY <1>1, <2>2 DEF Copy
  <2> HIDE DEF new
  <2> QED BY <1>3, <1>4, <2>1, <2>2, <2>3, <2>5, RunMoves
<1>6. CASE RunStarts(i)
  <2> DEFINE new == [copies[i] EXCEPT !.run = "running"]
  <2>1. /\ UNCHANGED <<disk, by, opened, raced, late, calls>> /\ run = "popped"
        /\ copies' = [copies EXCEPT ![i] = new]
    BY <1>6 DEF RunStarts, history
  <2>2. "running" \in Runs
    BY DEF Runs
  <2>3. /\ new \in Copy /\ new.sess = copies[i].sess /\ new.closing = copies[i].closing
        /\ new.queue = queue
    BY <1>1, <1>2, <2>2, CopyRuns
  <2> HIDE DEF new
  <2> QED BY <1>3, <1>4, <2>1, <2>3, RunMoves
<1>7. CASE RunEnds(i)
  <2> DEFINE s == copies[i].sess
             b == copies[i].closed
  <2>1. PICK next \in {"none", "continuing"} : copies' = [copies EXCEPT ![i].run = next]
    BY <1>7 DEF RunEnds
  <2> DEFINE new == [copies[i] EXCEPT !.run = next]
  <2>2. /\ UNCHANGED <<by, opened, raced, late>> /\ (UNCHANGED calls \/ calls' = Bump(calls))
        /\ disk' = [disk EXCEPT ![s].closed = b]
    BY <1>7 DEF RunEnds, history
  <2>3. s \in Session /\ b \in BOOLEAN /\ disk[s] # NULL /\ disk \in [Session -> Meta \cup {NULL}]
    BY <1>2 DEF CloseInv, TreeTypes
  <2>4. copies' = [copies EXCEPT ![i] = new]
    BY <2>1
  <2>5. next \in Runs
    BY <2>1 DEF Runs
  <2>6. /\ new \in Copy /\ new.sess = s /\ new.closing = copies[i].closing
        /\ new.queue = queue /\ new.run = next
    BY <1>1, <1>2, <2>5, CopyRuns
  <2> HIDE DEF new, b
  <2>7. /\ disk' \in [Session -> Meta \cup {NULL}]
        /\ \A t \in Session : /\ disk'[t] # NULL <=> disk[t] # NULL
                              /\ disk[t] # NULL => disk'[t].path = disk[t].path
    <3> HIDE DEF s
    <3> QED BY <2>2, <2>3, MarkedOnDisk
  <2>8. CallTypes' /\ \A c \in Calls : CallStays(c) \/ CallTurns(c)
    <3>1. CallTypes
      BY DEF CloseInv, TreeTypes
    <3>2. CASE calls' = Bump(calls)
      BY <3>1, <3>2, BumpFields DEF CallTypes, CallStays
    <3> QED BY <1>4, <2>2, <3>2
  <2> QED BY <2>2, <2>4, <2>6, <2>7, <2>8, RunMoves
<1>8. CASE ContinueGoal(i)
  <2>4. PICK k \in Nat : k = queue + 1
    BY <1>2
  <2> DEFINE new == [copies[i] EXCEPT !.queue = k, !.run = "none"]
  <2>1. /\ UNCHANGED <<disk, by, opened, raced, calls>>
        /\ copies' = [copies EXCEPT ![i].queue = queue + 1, ![i].run = "none"] /\ (late' = late \/ late' = late \cup {i})
        /\ copies[i].closing => i \in late'
    BY <1>8 DEF ContinueGoal
  <2>5. copies' = [copies EXCEPT ![i] = new]
    BY <2>1, <2>4
  <2>2. "none" \in Runs
    BY DEF Runs
  <2>3. /\ new \in Copy /\ new.sess = copies[i].sess /\ new.closing = copies[i].closing
        /\ new.run = "none"
    BY <1>1, <2>2 DEF Copy
  <2> HIDE DEF new
  <2> QED BY <1>3, <1>4, <2>1, <2>3, <2>5, RunMoves
<1>9. CASE RunAborts(i)
  <2> DEFINE new == [copies[i] EXCEPT !.run = "none"]
  <2>1. /\ UNCHANGED <<disk, by, opened, raced, late, calls>>
        /\ copies' = [copies EXCEPT ![i] = new]
    BY <1>9 DEF RunAborts, history
  <2>2. "none" \in Runs
    BY DEF Runs
  <2>3. /\ new \in Copy /\ new.sess = copies[i].sess /\ new.closing = copies[i].closing
        /\ new.queue = queue /\ new.run = "none"
    BY <1>1, <1>2, <2>2, CopyRuns
  <2> HIDE DEF new
  <2> QED BY <1>3, <1>4, <2>1, <2>3, RunMoves
<1> QED BY <1>5, <1>6, <1>7, <1>8, <1>9

-----------------------------------------------------------------------------
\* A step of a close at one copy: the call goes on, and what the other calls and copies
\* are known for stays.
LEMMA CloseGoesOn ==
  ASSUME CloseInv, UNCHANGED <<by, opened, raced>>,
         NEW c \in Calls, NEW i \in calls[c].todo, calls[c].op = "close",
         NEW call, calls' = [calls EXCEPT ![c] = call], DOMAIN call = DOMAIN Idle,
         call.op = "close", call.me = calls[c].me, call.at \in {"closing", "stop", "clear", "signal"},
         call.at \in {"stop", "clear", "signal"} => call.to = i /\ call.todo = calls[c].todo,
         call.at = "closing" => call.todo = calls[c].todo \ {i},
         disk' \in [Session -> Meta \cup {NULL}],
         \A t \in Session : /\ disk'[t] # NULL <=> disk[t] # NULL
                            /\ disk[t] # NULL => disk'[t].path = disk[t].path,
         NEW new \in Copy, copies' = [copies EXCEPT ![i] = new],
         new.sess = copies[i].sess, copies[i].closing => new.closing,
         late \ {i} \subseteq late',
         Cleared(i) => new.queue = 0 \/ i \in late',
         call.at \in {"clear", "signal"} => new.closing,
         call.at = "signal" => new.queue = 0 \/ i \in late',
         call.at = "closing" =>
            i \in late' \/ (new.closing /\ new.queue = 0 /\ new.run \notin {"popped", "running"})
  PROVE  CloseInv'
<1>1. /\ DOMAIN calls = Calls /\ \A d \in Calls : DOMAIN calls[d] = DOMAIN Idle
      /\ copies \in Seq(Copy) /\ i \in DOMAIN copies /\ calls[c].me \in Session
  BY DEF CloseInv, TreeTypes, CallTypes, CallsShaped
<1>2. /\ copies' \in Seq(Copy) /\ DOMAIN copies' = DOMAIN copies
      /\ \A j \in DOMAIN copies : /\ copies'[j] = IF j = i THEN new ELSE copies[j]
                                  /\ copies'[j].sess = copies[j].sess
  BY <1>1, CopyMoves
<1>3. DOMAIN calls' = Calls /\ \A d \in Calls : calls'[d] = IF d = c THEN call ELSE calls[d]
  BY <1>1
<1>4. CallTypes'
  BY <1>1, <1>3 DEF CallTypes
<1>5. \A d \in Calls \ {c} : CallStays(d)
  BY <1>3 DEF CallStays
<1>6. CallCloses(c)
  BY <1>1, <1>3 DEF CallCloses, AtCopy
<1>7. ClosesGoOn'
  <2> SUFFICES ASSUME NEW d \in Calls
               PROVE  /\ calls'[d].at = "clear" => copies'[calls'[d].to].closing
                      /\ calls'[d].at = "signal" => /\ copies'[calls'[d].to].closing
                                                    /\ \/ copies'[calls'[d].to].queue = 0
                                                       \/ calls'[d].to \in late'
    BY DEF ClosesGoOn, Cleared
  <2>1. CASE d = c
    BY <1>1, <1>2, <1>3, <2>1
  <2>2. CASE d # c
    <3> DEFINE j == calls[d].to
    <3>1. calls'[d] = calls[d]
      BY <1>3, <2>2
    <3>2. calls[d].at \in {"clear", "signal"} => j \in DOMAIN copies
      BY DEF CloseInv, CallsShaped, AtCopy
    <3>3. /\ calls[d].at = "clear" => copies[j].closing
          /\ calls[d].at = "signal" => Cleared(j)
      BY DEF CloseInv, ClosesGoOn
    <3> HIDE DEF j
    <3>4. j \in DOMAIN copies => (copies[j].closing => copies'[j].closing)
      BY <1>2
    <3>5. j \in DOMAIN copies /\ Cleared(j) => copies'[j].queue = 0 \/ j \in late'
      BY <1>2 DEF Cleared
    <3>6. calls'[d].to = j /\ calls'[d].at = calls[d].at
      BY <3>1 DEF j
    <3>7. Cleared(j) => copies[j].closing
      BY DEF Cleared
    <3> QED BY <3>2, <3>3, <3>4, <3>5, <3>6, <3>7
  <2> QED BY <2>1, <2>2
<1>8. ClosedCopiesRest'
  <2> SUFFICES ASSUME NEW j \in DOMAIN copies, copies'[j].sess \in DOMAIN by, by[copies'[j].sess].closed,
                      \A d \in Calls : j \notin calls'[d].todo
               PROVE  \/ copies'[j].sess \in opened \/ j \in late'
                      \/ /\ copies'[j].closing /\ copies'[j].queue = 0
                         /\ copies'[j].run \notin {"popped", "running"}
    BY <1>2 DEF ClosedCopiesRest
  <2>1. CASE j = i
    <3>1. call.at = "closing"
      BY <1>3, <2>1
    <3> QED BY <1>2, <2>1, <3>1
  <2>2. CASE j # i
    <3>1. copies'[j] = copies[j] /\ (j \in late => j \in late')
      BY <1>2, <2>2
    <3>2. \A d \in Calls : j \notin calls[d].todo
      BY <1>3, <2>2
    <3> QED BY <3>1, <3>2 DEF CloseInv, ClosedCopiesRest
  <2> QED BY <2>1, <2>2
<1>9. \A d \in Calls : CallStays(d) \/ CallTurns(d) \/ CallCloses(d)
  BY <1>5, <1>6
<1> QED BY <1>2, <1>4, <1>7, <1>8, <1>9, TreeKept

LEMMA CopyClosed ==
  ASSUME CloseInv, NEW c \in Calls,
         \/ \E i \in calls[c].todo : CloseMeta(c, i)
         \/ CloseStop(c) \/ CloseClear(c) \/ CloseSignal(c)
  PROVE  CloseInv'
<1>1. /\ DOMAIN calls = Calls /\ DOMAIN calls[c] = DOMAIN Idle
      /\ calls[c].at \in {"closing", "stop", "clear", "signal"} => calls[c].op = "close"
      /\ calls[c].at \in {"stop", "clear", "signal"} => calls[c].to \in calls[c].todo
      /\ calls[c].todo \subseteq DOMAIN copies
      /\ disk \in [Session -> Meta \cup {NULL}] /\ copies \in Seq(Copy)
  BY DEF CloseInv, TreeTypes, CallTypes, CallsShaped, AtClose, AtCopy
<1>2. \A i \in calls[c].todo : i \in DOMAIN copies /\ copies[i] \in Copy
  BY <1>1
<1>3. UNCHANGED disk => /\ disk' \in [Session -> Meta \cup {NULL}]
                        /\ \A t \in Session : /\ disk'[t] # NULL <=> disk[t] # NULL
                                              /\ disk[t] # NULL => disk'[t].path = disk[t].path
  BY DiskKept
<1>4. ASSUME NEW i \in calls[c].todo, CloseMeta(c, i) PROVE CloseInv'
  <2> DEFINE s == copies[i].sess
             new == [copies[i] EXCEPT !.closed = TRUE]
             call == [calls[c] EXCEPT !.at = "stop", !.to = i]
  <2>1. /\ copies' = [copies EXCEPT ![i] = new] /\ calls' = [calls EXCEPT ![c] = call]
        /\ UNCHANGED disk \/ disk' = [disk EXCEPT ![s].closed = TRUE]
        /\ calls[c].at = "closing" /\ UNCHANGED <<by, opened, raced, late>>
    BY <1>4 DEF CloseMeta, history
  <2>2. s \in Session /\ disk[s] # NULL
    BY <1>2, CopyTypes DEF CloseInv, TreeTypes
  <2>3. /\ new \in Copy /\ new.sess = s /\ new.closing = copies[i].closing
        /\ new.queue = copies[i].queue
    BY <1>2, CopyCloses
  <2>4. /\ DOMAIN call = DOMAIN Idle /\ call.op = calls[c].op /\ call.at = "stop"
        /\ call.me = calls[c].me /\ call.to = i /\ call.todo = calls[c].todo
    BY <1>1, FieldsUpdated, CallUpdated
  <2> HIDE DEF new, call
  <2>5. /\ disk' \in [Session -> Meta \cup {NULL}]
        /\ \A t \in Session : /\ disk'[t] # NULL <=> disk[t] # NULL
                              /\ disk[t] # NULL => disk'[t].path = disk[t].path
    <3> HIDE DEF s
    <3>1. CASE disk' = [disk EXCEPT ![s].closed = TRUE]
      <4>1. TRUE \in BOOLEAN
        OBVIOUS
      <4> QED BY <1>1, <2>2, <3>1, <4>1, MarkedOnDisk
    <3> QED BY <1>3, <2>1, <3>1
  <2>6. Cleared(i) => new.queue = 0 \/ i \in late'
    BY <2>1, <2>3 DEF Cleared
  <2> HIDE DEF CloseInv
  <2> QED BY <1>1, <2>1, <2>3, <2>4, <2>5, <2>6, CloseGoesOn
<1>5. CASE CloseStop(c)
  <2> DEFINE i == calls[c].to
             new == [copies[i] EXCEPT !.closing = TRUE]
             call == [calls[c] EXCEPT !.at = "clear"]
  <2>1. /\ copies' = [copies EXCEPT ![i] = new] /\ calls' = [calls EXCEPT ![c] = call]
        /\ calls[c].at = "stop" /\ UNCHANGED <<disk, by, opened, raced, late>>
    BY <1>5 DEF CloseStop, Goto, history
  <2>2. i \in calls[c].todo /\ calls[c].op = "close"
    BY <1>1, <2>1
  <2>3. /\ new \in Copy /\ new.sess = copies[i].sess /\ new.closing = TRUE
        /\ new.queue = copies[i].queue
    BY <1>2, <2>2, CopyCloses
  <2>4. /\ DOMAIN call = DOMAIN Idle /\ call.op = calls[c].op /\ call.at = "clear"
        /\ call.me = calls[c].me /\ call.to = i /\ call.todo = calls[c].todo
    BY <1>1, FieldsUpdated, CallUpdated
  <2> HIDE DEF new, call, i
  <2>5. Cleared(i) => new.queue = 0 \/ i \in late'
    BY <2>1, <2>3 DEF Cleared
  <2>6. new.closing
    BY <2>3
  <2>7. /\ new \in Copy /\ new.sess = copies[i].sess /\ late \ {i} \subseteq late'
        /\ call.op = "close" /\ call.at = "clear"
    BY <2>1, <2>2, <2>3, <2>4
  <2> QED BY <1>3, <2>1, <2>2, <2>4, <2>5, <2>6, <2>7, CloseGoesOn
<1>6. CASE CloseClear(c)
  <2> DEFINE i == calls[c].to
             new == [copies[i] EXCEPT !.queue = 0]
             call == [calls[c] EXCEPT !.at = "signal"]
  <2>1. /\ copies' = [copies EXCEPT ![i] = new] /\ calls' = [calls EXCEPT ![c] = call]
        /\ calls[c].at = "clear" /\ UNCHANGED <<disk, by, opened, raced>> /\ late' = late \ {i}
    BY <1>6 DEF CloseClear, Goto
  <2>2. i \in calls[c].todo /\ calls[c].op = "close" /\ copies[i].closing
    BY <1>1, <2>1 DEF CloseInv, ClosesGoOn
  <2>3. /\ new \in Copy /\ new.sess = copies[i].sess /\ new.closing = copies[i].closing
        /\ new.queue = 0
    <3>1. PICK k \in Nat : k = 0
      OBVIOUS
    <3>2. new = [copies[i] EXCEPT !.queue = k] /\ copies[i] \in Copy
      BY <1>2, <2>2, <3>1
    <3> HIDE DEF new
    <3> QED BY <3>1, <3>2, CopyQueues
  <2>4. /\ DOMAIN call = DOMAIN Idle /\ call.op = calls[c].op /\ call.at = "signal"
        /\ call.me = calls[c].me /\ call.to = i /\ call.todo = calls[c].todo
    BY <1>1, FieldsUpdated, CallUpdated
  <2> HIDE DEF new, call, i
  <2>5. late \ {i} \subseteq late'
    BY <2>1
  <2> QED BY <1>3, <2>1, <2>2, <2>3, <2>4, <2>5, CloseGoesOn
<1>7. CASE CloseSignal(c)
  <2> DEFINE i == calls[c].to
             run == IF copies[i].run = "running" THEN "cancelled" ELSE copies[i].run
             new == [copies[i] EXCEPT !.run = run]
             call == [calls[c] EXCEPT !.at = "closing", !.todo = calls[c].todo \ {i}]
  <2>1. /\ copies' = [copies EXCEPT ![i] = new] /\ calls' = [calls EXCEPT ![c] = call]
        /\ calls[c].at = "signal" /\ UNCHANGED <<disk, by, opened, raced>>
        /\ late' = IF copies[i].run = "popped" THEN late \cup {i} ELSE late
    BY <1>7 DEF CloseSignal
  <2>2. i \in calls[c].todo /\ calls[c].op = "close" /\ Cleared(i)
    BY <1>1, <2>1 DEF CloseInv, ClosesGoOn
  <2>3. copies[i] \in Copy /\ copies[i].queue \in Nat /\ run \in Runs
    BY <1>2, <2>2, CopyTypes DEF Runs
  <2>4. run \notin {"popped", "running"} \/ i \in late'
    BY <2>1
  <2> HIDE DEF run
  <2>5. /\ new \in Copy /\ new.sess = copies[i].sess /\ new.closing = copies[i].closing
        /\ new.queue = copies[i].queue /\ new.run = run
    BY <2>3, CopyRuns
  <2>6. /\ DOMAIN call = DOMAIN Idle /\ call.op = calls[c].op /\ call.at = "closing"
        /\ call.me = calls[c].me /\ call.todo = calls[c].todo \ {i}
    BY <1>1, FieldsUpdated, CallUpdated
  <2> HIDE DEF new, call, i
  <2>7. late \subseteq late' /\ late \ {i} \subseteq late'
    BY <2>1
  <2>8. new.closing /\ (new.queue = 0 \/ i \in late')
    BY <2>2, <2>5, <2>7 DEF Cleared
  <2>9. i \in late' \/ (new.closing /\ new.queue = 0 /\ new.run \notin {"popped", "running"})
    BY <2>4, <2>5, <2>8
  <2> QED BY <1>3, <2>1, <2>2, <2>5, <2>6, <2>7, <2>8, <2>9, CloseGoesOn
<1> QED BY <1>4, <1>5, <1>6, <1>7

\* A file with the child of call c, or with its place: nobody else has to do with it.
LEMMA ChildOnDisk ==
  ASSUME CloseInv, NEW c \in Calls, UNCHANGED <<by, copies, opened, raced, late>>,
         CallTypes', \A d \in Calls \ {c} : calls'[d] = calls[d],
         Spawning(c), Making(c)', calls'[c].me = calls[c].me, calls'[c].path = calls[c].path,
         calls'[c].todo = {}, calls'[c].to \in Session, calls'[c].to \notin DOMAIN by,
         calls'[c].to \notin opened => \A i \in DOMAIN copies : copies[i].sess # calls'[c].to,
         \A d \in Calls \ {c} : Making(d) => calls[d].to # calls'[c].to,
         disk' \in [Session -> Meta \cup {NULL}], disk'[calls'[c].to] \in Meta,
         \A t \in Session \ {calls'[c].to} : disk'[t] = disk[t],
         calls'[c].at = "identify" => disk'[calls'[c].to].path = NULL,
         calls'[c].at = "register" => disk'[calls'[c].to].path = calls[c].path
  PROVE  CloseInv'
<1> DEFINE s == calls'[c].to
           m == disk'[s]
           call == calls'[c]
<1> USE DEF CloseInv
<1>1. /\ DOMAIN calls = Calls /\ \A d \in Calls : DOMAIN calls[d] = DOMAIN Idle
      /\ disk \in [Session -> Meta \cup {NULL}]
  BY DEF TreeTypes, CallTypes
<1>2. /\ \A d \in Calls : calls'[d] = IF d = c THEN call ELSE calls[d]
      /\ call.op = "spawn" /\ call.at \in {"identify", "register"}
  BY DEF Making
<1>3. m # NULL /\ \A t \in Session : disk'[t] = IF t = s THEN m ELSE disk[t]
  BY MultiAgentNull
<1> HIDE DEF call, m
<1>4. \A t \in DOMAIN by : t \in Session /\ disk'[t] = disk[t]
  BY <1>3 DEF TreeTypes
<1>5. TreeTypes'
  <2>1. \A i \in DOMAIN copies : disk'[copies[i].sess] # NULL
    <3>1. \A i \in DOMAIN copies : copies[i] \in Copy
      BY DEF TreeTypes
    <3> QED BY <1>3, <3>1 DEF TreeTypes, Copy
  <2> QED BY <1>4, <2>1 DEF TreeTypes
<1>6. calls[c].path \in Path /\ calls[c].me \in Session
  BY DEF CallsShaped, Spawning
<1>7. CallsShaped'
  BY <1>2, <1>6 DEF CallsShaped, Spawning, AtClose, AtCopy
<1>8. ChildrenHidden'
  <2> SUFFICES ASSUME NEW d \in Calls, Making(d)'
               PROVE  /\ calls'[d].to \in Session /\ disk'[calls'[d].to] # NULL
                      /\ calls'[d].at = "identify" =>
                            disk'[calls'[d].to].path = NULL /\ calls'[d].to \notin DOMAIN by
                      /\ calls'[d].at = "register" => disk'[calls'[d].to].path = calls'[d].path
                      /\ calls'[d].to \notin opened =>
                            /\ calls'[d].to \notin DOMAIN by
                            /\ \A i \in DOMAIN copies : copies[i].sess # calls'[d].to
                      /\ \A e \in Calls : Making(e)' /\ calls'[e].to = calls'[d].to => e = d
    BY DEF ChildrenHidden
  <2>1. \A e \in Calls \ {c} : Making(e)' => Making(e) /\ calls'[e] = calls[e] /\ calls[e].to # s
    BY <1>2 DEF Making
  <2>2. calls'[c].to = s
    BY <1>2
  <2>3. CASE d = c
    <3>1. \A e \in Calls : Making(e)' /\ calls'[e].to = calls'[d].to => e = d
      BY <2>1, <2>2, <2>3
    <3> QED BY <1>2, <1>3, <2>2, <2>3, <3>1
  <2>4. CASE d # c
    <3>1. Making(d) /\ calls'[d] = calls[d] /\ calls[d].to # s
      BY <2>1, <2>4
    <3>2. disk'[calls[d].to] = disk[calls[d].to] /\ calls[d].to \in Session
      BY <1>3, <3>1 DEF ChildrenHidden
    <3>3. ASSUME NEW e \in Calls, Making(e)', calls'[e].to = calls'[d].to PROVE e = d
      <4>1. e # c
        BY <2>2, <3>1, <3>3
      <4> QED BY <2>1, <3>1, <3>3, <4>1 DEF ChildrenHidden
    <3> QED BY <3>1, <3>2, <3>3 DEF ChildrenHidden
  <2> QED BY <2>3, <2>4
<1>9. \A p : ClosedAbove(p)' <=> ClosedAbove(p)
  BY <1>4 DEF ClosedAbove
<1>10. SpawnsRaced'
  BY <1>2, <1>9 DEF SpawnsRaced, Spawning
<1>11. SubtreeClosed'
  BY <1>4, <1>9 DEF SubtreeClosed, Open
<1>12. calls[c].todo = {}
  BY DEF CallsShaped, Spawning, AtCopy
<1>13. ClosesGoOn' /\ ClosedCopiesRest'
  BY <1>2, <1>12 DEF ClosesGoOn, Cleared, ClosedCopiesRest
<1>14. OneCopy' /\ OpenHasCopy'
  BY DEF OneCopy, OpenHasCopy
<1> QED BY <1>5, <1>7, <1>8, <1>10, <1>11, <1>13, <1>14

LEMMA ChildMade ==
  ASSUME CloseInv, NEW c \in Calls, CreateChild(c) \/ IdentifyChild(c)
  PROVE  CloseInv'
<1> USE DEF CloseInv
<1>1. /\ DOMAIN calls = Calls /\ \A d \in Calls : DOMAIN calls[d] = DOMAIN Idle
      /\ Spawning(c) => calls[c].path \in Path
      /\ calls[c].op # "none" => calls[c].me \in Session
      /\ calls[c].todo # {} => calls[c].at \in {"closing", "stop", "clear", "signal"}
  BY DEF TreeTypes, CallTypes, CallsShaped, AtCopy
<1>2. CASE CreateChild(c)
  <2>1. PICK s \in Session :
           /\ calls[c].op = "spawn" /\ calls[c].at = "create" /\ disk[s] = NULL
           /\ disk' = [disk EXCEPT ![s] = [path |-> NULL, parent |-> NULL, closed |-> FALSE]]
           /\ calls' = [calls EXCEPT ![c].at = "identify", ![c].to = s]
           /\ UNCHANGED <<by, copies, opened, raced, late>>
    BY <1>2 DEF CreateChild, history
  <2> DEFINE m == [path |-> NULL, parent |-> NULL, closed |-> FALSE]
             call == [calls[c] EXCEPT !.at = "identify", !.to = s]
  <2>2. m \in Meta /\ m.path = NULL
    BY DEF Meta
  <2>3. disk' = [disk EXCEPT ![s] = m] /\ calls' = [calls EXCEPT ![c] = call]
    BY <2>1
  <2>4. /\ DOMAIN call = DOMAIN Idle /\ call.op = calls[c].op /\ call.me = calls[c].me
        /\ call.path = calls[c].path /\ call.to = s /\ call.todo = calls[c].todo
        /\ call.at = "identify"
    BY <1>1, FieldsUpdated, CallUpdated
  <2>5. Spawning(c) /\ calls[c].todo = {} /\ call.op = "spawn" /\ call.todo = {}
    BY <1>1, <2>1, <2>4 DEF Spawning
  <2>6. /\ s \notin DOMAIN by /\ \A i \in DOMAIN copies : copies[i].sess # s
        /\ \A d \in Calls \ {c} : Making(d) => calls[d].to # s
    BY <2>1 DEF TreeTypes, ChildrenHidden
  <2> HIDE DEF m, call
  <2>7. /\ disk' \in [Session -> Meta \cup {NULL}]
        /\ \A t \in Session : disk'[t] = IF t = s THEN m ELSE disk[t]
    BY <2>2, <2>3 DEF TreeTypes
  <2> HIDE DEF CloseInv
  <2>8. calls'[c] = call /\ \A d \in Calls \ {c} : calls'[d] = calls[d]
    BY <1>1, <2>1, <2>3
  <2>9. CallTypes' /\ Making(c)'
    BY <1>1, <2>1, <2>3, <2>4, <2>5, <2>6, <2>8 DEF CallTypes, Making
  <2>10. /\ calls'[c].me = calls[c].me /\ calls'[c].path = calls[c].path /\ calls'[c].todo = {}
         /\ calls'[c].to = s /\ disk'[s] = m
         /\ \A t \in Session \ {s} : disk'[t] = disk[t]
    BY <2>4, <2>5, <2>6, <2>7, <2>8
  <2>11. /\ calls'[c].at = "identify" => disk'[calls'[c].to].path = NULL
         /\ calls'[c].at = "register" => disk'[calls'[c].to].path = calls[c].path
    BY <2>2, <2>3, <2>4, <2>8, <2>10
  <2> QED BY <2>1, <2>2, <2>3, <2>5, <2>6, <2>7, <2>8, <2>9, <2>10, <2>11, ChildOnDisk
<1>3. CASE IdentifyChild(c)
  <2> DEFINE s == calls[c].to
             m == [path |-> calls[c].path, parent |-> calls[c].me, closed |-> FALSE]
             call == [calls[c] EXCEPT !.at = "register"]
  <2>1. /\ calls[c].op = "spawn" /\ calls[c].at = "identify"
        /\ disk' = [disk EXCEPT ![s] = m] /\ calls' = [calls EXCEPT ![c] = call]
        /\ UNCHANGED <<by, copies, opened, raced, late>>
    BY <1>3 DEF IdentifyChild, Goto, history
  <2>2. Spawning(c) /\ Making(c) /\ calls[c].todo = {}
    BY <1>1, <2>1 DEF Spawning, Making
  <2>3. m \in Meta /\ m.path = calls[c].path
    BY <1>1, <2>1, <2>2 DEF Meta
  <2>4. /\ DOMAIN call = DOMAIN Idle /\ call.op = calls[c].op /\ call.me = calls[c].me
        /\ call.path = calls[c].path /\ call.to = s /\ call.todo = calls[c].todo
        /\ call.at = "register"
    BY <1>1, FieldsUpdated, CallUpdated
  <2>5. /\ s \in Session /\ s \notin DOMAIN by
        /\ s \in opened \/ \A i \in DOMAIN copies : copies[i].sess # s
        /\ \A d \in Calls \ {c} : Making(d) => calls[d].to # s
    BY <2>1, <2>2 DEF ChildrenHidden
  <2> HIDE DEF m, call, s
  <2>7. /\ disk' \in [Session -> Meta \cup {NULL}]
        /\ \A t \in Session : disk'[t] = IF t = s THEN m ELSE disk[t]
    BY <2>1, <2>3, <2>5 DEF TreeTypes
  <2> HIDE DEF CloseInv
  <2>6. call.op = "spawn" /\ call.todo = {}
    BY <2>1, <2>2, <2>4
  <2>8. calls'[c] = call /\ \A d \in Calls \ {c} : calls'[d] = calls[d]
    BY <1>1, <2>1, <2>3
  <2>9. CallTypes' /\ Making(c)'
    BY <1>1, <2>1, <2>3, <2>4, <2>5, <2>6, <2>8 DEF CallTypes, Making
  <2>10. /\ calls'[c].me = calls[c].me /\ calls'[c].path = calls[c].path /\ calls'[c].todo = {}
         /\ calls'[c].to = s /\ disk'[s] = m
         /\ \A t \in Session \ {s} : disk'[t] = disk[t]
    BY <2>4, <2>5, <2>6, <2>7, <2>8
  <2>11. /\ calls'[c].at = "identify" => disk'[calls'[c].to].path = NULL
         /\ calls'[c].at = "register" => disk'[calls'[c].to].path = calls[c].path
    BY <2>2, <2>3, <2>4, <2>8, <2>10
  <2> QED BY <2>1, <2>2, <2>3, <2>5, <2>6, <2>7, <2>8, <2>9, <2>10, <2>11, ChildOnDisk
<1> QED BY <1>2, <1>3

\* A copy of session s is registered: for its spawn, or because it was resumed.
LEMMA CopyAdded ==
  ASSUME copies \in Seq(Copy), NEW copy \in Copy, copies' = Append(copies, copy)
  PROVE  /\ copies' \in Seq(Copy) /\ DOMAIN copies = 1..Len(copies) /\ Len(copies) \in Nat
         /\ DOMAIN copies' = 1..(Len(copies) + 1)
         /\ copies'[Len(copies) + 1] = copy
         /\ \A i \in DOMAIN copies : copies'[i] = copies[i]
OBVIOUS

\* A child is registered open, under its path; if an ancestor was closed meanwhile, the
\* path is one that raced.
LEMMA ChildRegistered ==
  ASSUME CloseInv, NEW c \in Calls, RegisterChild(c)
  PROVE  CloseInv'
<1> USE DEF CloseInv
<1> DEFINE s == calls[c].to
           n == Len(copies) + 1
           copy == NewCopy(s, FALSE)
           call == [calls[c] EXCEPT !.at = "enqueue", !.to = n]
<1>1. /\ calls[c].op = "spawn" /\ calls[c].at = "register"
      /\ copies' = Append(copies, copy) /\ calls' = [calls EXCEPT ![c] = call]
      /\ DOMAIN by' = DOMAIN by \cup {s}
      /\ \A t \in DOMAIN by : t # s => by'[t] = by[t]
      /\ by'[s].closed = FALSE /\ by'[s].live = n
      /\ UNCHANGED <<disk, opened, raced, late>>
  BY DEF RegisterChild, Register, Put, history
<1>2. /\ DOMAIN calls = Calls /\ \A d \in Calls : DOMAIN calls[d] = DOMAIN Idle
      /\ copies \in Seq(Copy)
  BY DEF TreeTypes, CallTypes
<1>3. Spawning(c) /\ Making(c)
  BY <1>1 DEF Spawning, Making
<1>4. /\ s \in Session /\ disk[s] # NULL /\ disk[s].path = calls[c].path
      /\ s \notin opened => s \notin DOMAIN by /\ \A i \in DOMAIN copies : copies[i].sess # s
      /\ \A d \in Calls \ {c} : Making(d) => calls[d].to # s
  BY <1>1, <1>3 DEF ChildrenHidden
<1>5. /\ calls[c].path \in Path /\ calls[c].me \in Session /\ calls[c].todo = {}
  BY <1>1, <1>3 DEF CallsShaped, AtCopy
<1>6. copy \in Copy /\ copy.sess = s
  BY <1>4, FreshCopy
<1>7. /\ DOMAIN call = DOMAIN Idle /\ call.op = "spawn" /\ call.at = "enqueue"
      /\ call.me = calls[c].me /\ call.todo = {}
  BY <1>1, <1>2, <1>5, FieldsUpdated, CallUpdated
<1> HIDE DEF copy, call, s
<1>8. /\ copies' \in Seq(Copy) /\ DOMAIN copies = 1..Len(copies) /\ Len(copies) \in Nat
      /\ DOMAIN copies' = 1..n /\ copies'[n] = copy
      /\ \A i \in DOMAIN copies : copies'[i] = copies[i]
  BY <1>1, <1>2, <1>6, CopyAdded
<1>9. DOMAIN copies' = DOMAIN copies \cup {n} /\ n \notin DOMAIN copies
  BY <1>8
<1> HIDE DEF n
<1>10. DOMAIN calls' = Calls /\ \A d \in Calls : calls'[d] = IF d = c THEN call ELSE calls[d]
  BY <1>1, <1>2
<1>11. \A d \in Calls : /\ Spawning(d)' => d # c /\ Spawning(d) /\ calls'[d] = calls[d]
                        /\ Making(d)' => d # c /\ Making(d) /\ calls'[d] = calls[d]
  BY <1>7, <1>10 DEF Spawning, Making
<1>12. TreeTypes'
  <2>1. CallTypes'
    BY <1>2, <1>7, <1>10 DEF CallTypes
  <2>2. \A t \in DOMAIN by' : /\ t \in Session /\ disk'[t] # NULL /\ disk'[t].path \in Path
                              /\ by'[t].live \in DOMAIN copies' \cup {NULL}
    BY <1>1, <1>4, <1>5, <1>9 DEF TreeTypes
  <2>3. \A i \in DOMAIN copies' : disk'[copies'[i].sess] # NULL
    BY <1>1, <1>4, <1>6, <1>8, <1>9 DEF TreeTypes
  <2> QED BY <1>1, <1>8, <2>1, <2>2, <2>3 DEF TreeTypes
<1>13. CallsShaped'
  BY <1>1, <1>5, <1>7, <1>9, <1>10 DEF CallsShaped, Spawning, AtClose, AtCopy
<1>14. ChildrenHidden'
  <2> SUFFICES ASSUME NEW d \in Calls, Making(d)'
               PROVE  /\ calls'[d].to \in Session /\ disk'[calls'[d].to] # NULL
                      /\ calls'[d].at = "identify" =>
                            disk'[calls'[d].to].path = NULL /\ calls'[d].to \notin DOMAIN by'
                      /\ calls'[d].at = "register" => disk'[calls'[d].to].path = calls'[d].path
                      /\ calls'[d].to \notin opened' =>
                            /\ calls'[d].to \notin DOMAIN by'
                            /\ \A i \in DOMAIN copies' : copies'[i].sess # calls'[d].to
                      /\ \A e \in Calls : Making(e)' /\ calls'[e].to = calls'[d].to => e = d
    BY DEF ChildrenHidden
  <2>1. d # c /\ Making(d) /\ calls'[d] = calls[d] /\ calls[d].to # s
    BY <1>4, <1>11
  <2>2. \A e \in Calls : Making(e)' /\ calls'[e].to = calls'[d].to => e = d
    BY <1>11, <2>1 DEF ChildrenHidden
  <2> QED BY <1>1, <1>6, <1>8, <1>9, <2>1, <2>2 DEF ChildrenHidden
<1>15. OneCopy'
  BY <1>1, <1>4, <1>6, <1>8, <1>9 DEF OneCopy
<1>16. OpenHasCopy'
  BY <1>1, <1>6, <1>8, <1>9 DEF OpenHasCopy
<1>17. ASSUME NEW p, ClosedAbove(p)' PROVE ClosedAbove(p)
  BY <1>1, <1>17 DEF ClosedAbove
<1>18. SpawnsRaced'
  BY <1>1, <1>11, <1>17 DEF SpawnsRaced
<1>19. SubtreeClosed'
  <2> SUFFICES ASSUME NEW t \in Session, Open(t)', ClosedAbove(disk[t].path)'
               PROVE  disk[t].path \in raced \/ t \in opened
    BY <1>1 DEF SubtreeClosed
  <2>1. ClosedAbove(disk[t].path)
    BY <1>1, <1>17 DEF ClosedAbove
  <2>2. CASE t = s
    BY <1>3, <1>4, <2>1, <2>2 DEF SpawnsRaced
  <2>3. CASE t # s
    BY <1>1, <2>1, <2>3 DEF SubtreeClosed, Open
  <2> QED BY <2>2, <2>3
<1>20. ClosedCopiesRest'
  <2> SUFFICES ASSUME NEW i \in DOMAIN copies', copies'[i].sess \in DOMAIN by', by'[copies'[i].sess].closed,
                      \A d \in Calls : i \notin calls'[d].todo
               PROVE  \/ copies'[i].sess \in opened' \/ i \in late'
                      \/ /\ copies'[i].closing /\ copies'[i].queue = 0
                         /\ copies'[i].run \notin {"popped", "running"}
    BY DEF ClosedCopiesRest
  <2>1. copies'[i].sess # s /\ i # n /\ i \in DOMAIN copies /\ copies'[i] = copies[i]
    BY <1>1, <1>6, <1>8, <1>9
  <2>2. \A d \in Calls : i \notin calls[d].todo
    BY <1>5, <1>10
  <2> QED BY <1>1, <2>1, <2>2 DEF ClosedCopiesRest
<1>21. ClosesGoOn'
  <2> SUFFICES ASSUME NEW d \in Calls
               PROVE  /\ calls'[d].at = "clear" => copies'[calls'[d].to].closing
                      /\ calls'[d].at = "signal" => /\ copies'[calls'[d].to].closing
                                                    /\ \/ copies'[calls'[d].to].queue = 0
                                                       \/ calls'[d].to \in late'
    BY DEF ClosesGoOn, Cleared
  <2>1. CASE d = c
    BY <1>7, <1>10, <2>1
  <2>2. CASE d # c
    <3>1. calls'[d] = calls[d] /\ (calls[d].at \in {"clear", "signal"} => calls[d].to \in DOMAIN copies)
      BY <1>10, <2>2 DEF CallsShaped, AtCopy
    <3> QED BY <1>1, <1>8, <3>1 DEF ClosesGoOn, Cleared
  <2> QED BY <2>1, <2>2
<1> QED BY <1>12, <1>13, <1>14, <1>15, <1>16, <1>18, <1>19, <1>20, <1>21

\* Marking a subtree closes whoever is registered in it, puts every copy that is live
\* there on the list, and what is on its way there is known to race.
LEMMA SubtreeMarked ==
  ASSUME CloseInv, NEW c \in Calls, MarkSubtree(c)
  PROVE  CloseInv'
<1> USE DEF CloseInv
<1> DEFINE prefix == disk[calls[c].to].path
           gone == {s \in DOMAIN by : Below(disk[s].path, prefix)}
           todo == {by[s].live : s \in gone} \ {NULL}
           call == [calls[c] EXCEPT !.at = "closing", !.todo = todo]
<1>1. /\ calls[c].at = "close" /\ calls' = [calls EXCEPT ![c] = call]
      /\ DOMAIN by' = DOMAIN by
      /\ \A s \in DOMAIN by : IF s \in gone THEN by'[s].closed /\ by'[s].live = NULL ELSE by'[s] = by[s]
      /\ raced' = raced \cup SpawnedBelow(prefix)
      /\ UNCHANGED <<disk, copies, opened, late>>
  <2>1. by' = [s \in DOMAIN by |-> IF s \in gone THEN [closed |-> TRUE, live |-> NULL] ELSE by[s]]
    BY DEF MarkSubtree
  <2>2. calls' = [calls EXCEPT ![c] = call]
    BY DEF MarkSubtree
  <2>3. /\ calls[c].at = "close" /\ raced' = raced \cup SpawnedBelow(prefix)
        /\ UNCHANGED <<disk, copies, opened, late>>
    BY DEF MarkSubtree
  <2> HIDE DEF call, todo, gone, prefix
  <2> QED BY <2>1, <2>2, <2>3
<1>2. /\ DOMAIN calls = Calls /\ \A d \in Calls : DOMAIN calls[d] = DOMAIN Idle
      /\ calls[c].op = "close" /\ calls[c].todo = {} /\ calls[c].to \in DOMAIN by
      /\ calls[c].me \in Session
  BY <1>1 DEF TreeTypes, CallTypes, CallsShaped, AtClose, AtCopy
<1>3. prefix \in Path /\ \A s \in DOMAIN by : s \in Session /\ disk[s].path \in Path
  BY <1>2 DEF TreeTypes
<1>4. todo \subseteq DOMAIN copies
  BY DEF TreeTypes
<1>5. gone \subseteq DOMAIN by
  OBVIOUS
<1>6. \A s \in DOMAIN by : s \in gone <=> Below(disk[s].path, prefix)
  OBVIOUS
<1>7. \A s \in gone : by[s].live # NULL => by[s].live \in todo
  OBVIOUS
<1>8. /\ DOMAIN call = DOMAIN Idle /\ call.op = "close" /\ call.at = "closing"
      /\ call.me = calls[c].me /\ call.todo = todo
  BY <1>2, FieldsUpdated, CallUpdated
<1> HIDE DEF call, todo, gone, prefix
<1>9. DOMAIN calls' = Calls /\ \A d \in Calls : calls'[d] = IF d = c THEN call ELSE calls[d]
  BY <1>1, <1>2
<1>10. \A d \in Calls : /\ Spawning(d)' => d # c /\ Spawning(d) /\ calls'[d] = calls[d]
                        /\ Making(d)' => d # c /\ Making(d) /\ calls'[d] = calls[d]
  BY <1>8, <1>9 DEF Spawning, Making
<1>11. TreeTypes'
  <2>1. CallTypes'
    BY <1>2, <1>8, <1>9 DEF CallTypes
  <2>2. \A s \in DOMAIN by : by'[s].live \in DOMAIN copies \cup {NULL}
    BY <1>1 DEF TreeTypes
  <2> QED BY <1>1, <2>1, <2>2 DEF TreeTypes
<1>12. CallsShaped'
  BY <1>1, <1>2, <1>4, <1>8, <1>9 DEF CallsShaped, Spawning, AtClose, AtCopy
<1>13. ChildrenHidden'
  BY <1>1, <1>10 DEF ChildrenHidden
<1>14. OneCopy'
  BY <1>1 DEF OneCopy
<1>15. OpenHasCopy'
  BY <1>1, <1>5 DEF OpenHasCopy
<1>16. ASSUME NEW p \in Path, NEW s \in DOMAIN by, by'[s].closed, Below(p, disk[s].path)
       PROVE  ClosedAbove(p) \/ Below(p, prefix)
  <2>1. CASE s \in gone
    <3>1. Below(disk[s].path, prefix)
      BY <1>6, <2>1
    <3> QED BY <1>3, <1>16, <3>1, BelowTransitive
  <2>2. CASE s \notin gone
    BY <1>1, <1>16, <2>2 DEF ClosedAbove
  <2> QED BY <2>1, <2>2
<1>17. SpawnsRaced'
  <2> SUFFICES ASSUME NEW d \in Calls, Spawning(d)', NEW s \in DOMAIN by, by'[s].closed,
                      Below(calls'[d].path, disk[s].path)
               PROVE  calls'[d].path \in raced'
    BY <1>1 DEF SpawnsRaced, ClosedAbove
  <2>1. Spawning(d) /\ calls'[d] = calls[d] /\ calls[d].path \in Path
    BY <1>10 DEF CallsShaped
  <2>2. CASE ClosedAbove(calls[d].path)
    BY <1>1, <2>1, <2>2 DEF SpawnsRaced
  <2>3. CASE Below(calls[d].path, prefix)
    BY <1>1, <2>1, <2>3 DEF SpawnedBelow
  <2> QED BY <1>16, <2>1, <2>2, <2>3
<1>18. SubtreeClosed'
  <2> SUFFICES ASSUME NEW t \in DOMAIN by, ~by'[t].closed, NEW s \in DOMAIN by, by'[s].closed,
                      Below(disk[t].path, disk[s].path)
               PROVE  disk[t].path \in raced' \/ t \in opened
    BY <1>1 DEF SubtreeClosed, Open, ClosedAbove
  <2>1. t \notin gone /\ by'[t] = by[t] /\ disk[t].path \in Path /\ t \in Session
    BY <1>1, <1>3
  <2>2. ClosedAbove(disk[t].path)
    BY <1>6, <1>16, <2>1
  <2> QED BY <1>1, <2>1, <2>2 DEF SubtreeClosed, Open
<1>19. ClosedCopiesRest'
  <2> SUFFICES ASSUME NEW i \in DOMAIN copies, copies[i].sess \in DOMAIN by, by'[copies[i].sess].closed,
                      \A d \in Calls : i \notin calls'[d].todo, copies[i].sess \notin opened
               PROVE  \/ i \in late
                      \/ /\ copies[i].closing /\ copies[i].queue = 0
                         /\ copies[i].run \notin {"popped", "running"}
    BY <1>1 DEF ClosedCopiesRest
  <2> DEFINE s == copies[i].sess
  <2>1. \A d \in Calls : i \notin calls[d].todo
    BY <1>2, <1>9
  <2>2. CASE by[s].closed
    BY <2>1, <2>2 DEF ClosedCopiesRest
  <2>3. CASE ~by[s].closed
    <3>1. s \in gone
      BY <1>1, <2>3
    <3>2. by[s].live \in DOMAIN copies /\ copies[by[s].live].sess = s
      BY <2>3 DEF OpenHasCopy
    <3>3. by[s].live = i
      BY <3>2 DEF OneCopy
    <3>4. i # NULL
      BY MultiAgentNull DEF TreeTypes
    <3> QED BY <1>7, <1>8, <1>9, <3>1, <3>3, <3>4
  <2> QED BY <2>2, <2>3
<1>20. ClosesGoOn'
  BY <1>1, <1>8, <1>9 DEF ClosesGoOn, Cleared
<1> QED BY <1>11, <1>12, <1>13, <1>14, <1>15, <1>17, <1>18, <1>19, <1>20

\* A session resumed from its files has a copy of its own from here on, and if they say
\* it is closed, then whoever is open below it raced.
LEMMA SessionResumed ==
  ASSUME CloseInv, NEW s \in Session, ResumeOverHttp(s)
  PROVE  CloseInv'
<1> USE DEF CloseInv
<1> DEFINE n == Len(copies) + 1
           copy == [NewCopy(s, disk[s].closed) EXCEPT !.run = IF s = Root THEN "running" ELSE "none"]
<1>1. /\ disk[s] # NULL /\ disk[s].path # NULL
      /\ copies' = Append(copies, copy)
      /\ DOMAIN by' = DOMAIN by \cup {s}
      /\ \A t \in DOMAIN by : t # s => by'[t] = by[t]
      /\ by'[s].closed = disk[s].closed /\ by'[s].live = n
      /\ opened' = opened \cup {s}
      /\ raced' = IF disk[s].closed
                  THEN raced \cup SpawnedBelow(disk[s].path) \cup OpenBelow(disk[s].path) ELSE raced
      /\ UNCHANGED <<disk, calls, late>>
  BY DEF ResumeOverHttp, Register, Put
<1>2. /\ copies \in Seq(Copy) /\ disk[s].path \in Path /\ disk[s].closed \in BOOLEAN
      /\ raced \subseteq raced'
  BY <1>1 DEF TreeTypes, Meta
<1>3. copy \in Copy /\ copy.sess = s
  <2> DEFINE new == NewCopy(s, disk[s].closed)
             run == IF s = Root THEN "running" ELSE "none"
  <2>1. new \in Copy /\ new.sess = s
    BY <1>2, FreshCopy
  <2>2. run \in Runs
    BY DEF Runs
  <2>3. copy = [new EXCEPT !.run = run]
    OBVIOUS
  <2> HIDE DEF new, run, copy
  <2> QED BY <2>1, <2>2, <2>3, CopyRuns
<1> HIDE DEF copy
<1>4. /\ copies' \in Seq(Copy) /\ DOMAIN copies = 1..Len(copies) /\ Len(copies) \in Nat
      /\ DOMAIN copies' = 1..n /\ copies'[n] = copy
      /\ \A i \in DOMAIN copies : copies'[i] = copies[i]
  BY <1>1, <1>2, <1>3, CopyAdded
<1>5. DOMAIN copies' = DOMAIN copies \cup {n} /\ n \notin DOMAIN copies
  BY <1>4
<1> HIDE DEF n
<1>6. TreeTypes'
  <2>1. CallTypes'
    BY <1>1 DEF TreeTypes, CallTypes
  <2>2. \A t \in DOMAIN by' : /\ t \in Session /\ disk'[t] # NULL /\ disk'[t].path \in Path
                              /\ by'[t].live \in DOMAIN copies' \cup {NULL}
    BY <1>1, <1>2, <1>5 DEF TreeTypes
  <2>3. \A i \in DOMAIN copies' : disk'[copies'[i].sess] # NULL
    BY <1>1, <1>3, <1>4, <1>5 DEF TreeTypes
  <2> QED BY <1>1, <1>4, <2>1, <2>2, <2>3 DEF TreeTypes
<1>7. CallsShaped'
  BY <1>1, <1>5 DEF CallsShaped, Spawning
<1>8. ChildrenHidden'
  <2> SUFFICES ASSUME NEW d \in Calls, Making(d)
               PROVE  /\ calls[d].to \in Session /\ disk[calls[d].to] # NULL
                      /\ calls[d].at = "identify" =>
                            disk[calls[d].to].path = NULL /\ calls[d].to \notin DOMAIN by'
                      /\ calls[d].at = "register" => disk[calls[d].to].path = calls[d].path
                      /\ calls[d].to \notin opened' =>
                            /\ calls[d].to \notin DOMAIN by'
                            /\ \A i \in DOMAIN copies' : copies'[i].sess # calls[d].to
                      /\ \A e \in Calls : Making(e) /\ calls[e].to = calls[d].to => e = d
    BY <1>1 DEF ChildrenHidden, Making
  <2> QED BY <1>1, <1>3, <1>4, <1>5 DEF ChildrenHidden
<1>9. OneCopy'
  BY <1>1, <1>3, <1>4, <1>5 DEF OneCopy
<1>10. OpenHasCopy'
  BY <1>1, <1>4, <1>5 DEF OpenHasCopy
<1>11. ASSUME NEW p, NEW t \in DOMAIN by', by'[t].closed, Below(p, disk[t].path)
       PROVE  ClosedAbove(p) \/ (disk[s].closed /\ Below(p, disk[s].path))
  BY <1>1, <1>11 DEF ClosedAbove
<1>12. SpawnsRaced'
  <2> SUFFICES ASSUME NEW d \in Calls, Spawning(d), NEW t \in DOMAIN by', by'[t].closed,
                      Below(calls[d].path, disk[t].path)
               PROVE  calls[d].path \in raced'
    BY <1>1 DEF SpawnsRaced, ClosedAbove, Spawning
  <2>1. CASE ClosedAbove(calls[d].path)
    BY <1>2, <2>1 DEF SpawnsRaced
  <2>2. CASE disk[s].closed /\ Below(calls[d].path, disk[s].path)
    BY <1>1, <2>2 DEF SpawnedBelow
  <2> QED BY <1>11, <2>1, <2>2
<1>13. SubtreeClosed'
  <2> SUFFICES ASSUME NEW u \in DOMAIN by', ~by'[u].closed, NEW t \in DOMAIN by', by'[t].closed,
                      Below(disk[u].path, disk[t].path), u # s
               PROVE  disk[u].path \in raced' \/ u \in opened
    BY <1>1 DEF SubtreeClosed, Open, ClosedAbove
  <2>1. u \in DOMAIN by /\ Open(u) /\ u \in Session
    BY <1>1 DEF Open, TreeTypes
  <2>2. CASE ClosedAbove(disk[u].path)
    BY <1>2, <2>1, <2>2 DEF SubtreeClosed
  <2>3. CASE disk[s].closed /\ Below(disk[u].path, disk[s].path)
    BY <1>1, <2>1, <2>3 DEF OpenBelow
  <2> QED BY <1>11, <2>2, <2>3
<1>14. ClosedCopiesRest'
  <2> SUFFICES ASSUME NEW i \in DOMAIN copies', copies'[i].sess \in DOMAIN by', by'[copies'[i].sess].closed,
                      \A d \in Calls : i \notin calls[d].todo, copies'[i].sess \notin opened'
               PROVE  \/ i \in late
                      \/ /\ copies'[i].closing /\ copies'[i].queue = 0
                         /\ copies'[i].run \notin {"popped", "running"}
    BY <1>1 DEF ClosedCopiesRest
  <2>1. copies'[i].sess # s /\ i \in DOMAIN copies /\ copies'[i] = copies[i]
    BY <1>1, <1>3, <1>4, <1>5
  <2> QED BY <1>1, <2>1 DEF ClosedCopiesRest
<1>15. ClosesGoOn'
  <2>1. \A d \in Calls : calls[d].at \in {"clear", "signal"} => calls[d].to \in DOMAIN copies
    BY DEF CallsShaped, AtCopy
  <2> QED BY <1>1, <1>4, <2>1 DEF ClosesGoOn, Cleared
<1> QED BY <1>6, <1>7, <1>8, <1>9, <1>10, <1>12, <1>13, <1>14, <1>15

LEMMA CloseKept == CloseInv /\ [Next]_vars => CloseInv'
<1> SUFFICES ASSUME CloseInv, [Next]_vars PROVE CloseInv'
  OBVIOUS
<1>1. ASSUME NEW c \in Calls, CallStep(c) PROVE CloseInv'
  <2>1. CASE \/ Drop(c) \/ SpawnFails(c) \/ QueueMessage(c) \/ FollowupTask(c) \/ Subscribe(c)
             \/ DrainMailbox(c) \/ Wake(c) \/ WaitTimeout(c) \/ CloseDone(c) \/ EnqueueChild(c)
             \/ \E s \in Session : disk[s] # NULL /\ ResolveTarget(c, s)
             \/ \E name \in Names : ReserveSpawn(c, name)
    BY <2>1, CallsKept
  <2>2. CASE PushRun(c)
    BY <2>2, RunPushed
  <2>3. CASE CreateChild(c) \/ IdentifyChild(c)
    BY <2>3, ChildMade
  <2>4. CASE RegisterChild(c)
    BY <2>4, ChildRegistered
  <2>5. CASE MarkSubtree(c)
    BY <2>5, SubtreeMarked
  <2>6. CASE \/ \E i \in calls[c].todo : CloseMeta(c, i)
             \/ CloseStop(c) \/ CloseClear(c) \/ CloseSignal(c)
    BY <2>6, CopyClosed
  <2> QED BY <1>1, <2>1, <2>2, <2>3, <2>4, <2>5, <2>6 DEF CallStep
<1>2. CASE Restart
  <2>1. /\ by' = << >> /\ copies' = << >> /\ calls' = [c \in Calls |-> Idle]
        /\ UNCHANGED disk
    BY <1>2 DEF Restart
  <2>2. DOMAIN by' = {} /\ DOMAIN copies' = {} /\ copies' \in Seq(Copy)
    BY <2>1
  <2>3. DOMAIN calls' = Calls /\ \A c \in Calls : calls'[c] = Idle
    BY <2>1
  <2>4. TreeTypes'
    BY <2>1, <2>2, <2>3 DEF TreeTypes, CallTypes, CloseInv
  <2>5. CallsShaped' /\ ChildrenHidden' /\ SpawnsRaced'
    BY <2>3, IdleFields
       DEF CallsShaped, ChildrenHidden, SpawnsRaced, Making, Spawning, AtClose, AtCopy
  <2>6. OneCopy' /\ OpenHasCopy' /\ SubtreeClosed' /\ ClosesGoOn' /\ ClosedCopiesRest'
    BY <2>2, <2>3, IdleFields
       DEF OneCopy, OpenHasCopy, SubtreeClosed, ClosesGoOn, ClosedCopiesRest, Open
  <2> QED BY <2>4, <2>5, <2>6 DEF CloseInv
<1>3. CASE UNCHANGED vars
  <2>1. UNCHANGED <<disk, by, copies, opened, raced, late, calls>>
    BY <1>3 DEF vars, history
  <2>2. CallTypes' /\ \A c \in Calls : CallStays(c)
    BY <2>1 DEF CloseInv, TreeTypes, CallTypes, CallStays
  <2> QED BY <2>1, <2>2, CallsMove
<1> QED BY <1>1, <1>2, <1>3, CallBegins, RunsKept, SessionResumed DEF Next

\* However closes interleave with spawns, messages, runs, resumes and restarts: no agent
\* stays open below a closed one, and the copies of a closed agent take no run, but those
\* that the code is known to leave (close_agent, close_for_multi_agent).
THEOREM CloseIsComplete == Spec => []CloseComplete
<1>1. CloseInv => CloseComplete
  BY DEF CloseInv, CloseComplete
<1> QED BY <1>1, CloseInit, CloseKept, PTL DEF Spec

===============================================================================
