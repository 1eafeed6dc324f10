----------------------------- MODULE ProcessProofs -----------------------------
(***************************************************************************)
(* Proofs about what kiliax starts and calls: what the results of a shell  *)
(* command may leave out, whose answer a custom tool's call returns, that  *)
(* the engine and the hub agree on the MCP server, that one background     *)
(* server runs and is found, that it can be started again from its         *)
(* configuration, that a patch changes all its files or none, and that a   *)
(* provider gets the reasoning it asks for.  The seven share nothing; each *)
(* has its own specification.                                              *)
(***************************************************************************)
EXTENDS ShellSessions, CustomTools, McpConnections, Daemon, ConfigAdmin, FileTools, Providers,
        SequenceLemmas, FiniteSetTheorems, TLAPS

-----------------------------------------------------------------------------
(***************************************************************************)
(* ShellSessions                                                           *)
(***************************************************************************)
ShellType ==
    [read : [Streams -> Nat], taken : [Streams -> Nat], cut : [Streams -> BOOLEAN],
     handle : BOOLEAN, exit : BOOLEAN, timedOut : BOOLEAN, stdin : BOOLEAN, listed : BOOLEAN]
ProcessType ==
    [state : {"none", "running", "exited"}, written : [Streams -> Nat],
     deadline : BOOLEAN, due : BOOLEAN]
ShownType ==
    [truncated : BOOLEAN, seen : [Streams -> Nat], got : [Streams -> Nat],
     done : BOOLEAN, aborted : BOOLEAN]
CallType ==
    [at : {"waiting", "render", "conclude"}, cmd : ShellCmds,
     tool : {"shell_command", "write_stdin"}, until : BOOLEAN, budget : Nat]

ShellTypeOK ==
    /\ process \in [ShellCmds -> ProcessType]
    /\ shell \in [ShellCmds -> ShellType]
    /\ shown \in [ShellCmds -> ShownType]
    /\ caller \in [ShellCallers -> CallType \cup {NoCall}]

\* A buffer holds what was read and not taken; unless a result said that something is
\* missing, the results hold all that was read when the last was rendered, and all that
\* was taken since unless the buffer remembers that it dropped some.
Accounted(session, results) ==
    /\ \A s \in Streams : session.taken[s] <= session.read[s]
    /\ ~results.truncated =>
          /\ results.got = results.seen
          /\ \A s \in Streams : ~session.cut[s] => results.got[s] = session.taken[s]

ShellInv == ShellTypeOK /\ \A c \in ShellCmds : Accounted(shell[c], shown[c])

LEMMA ShellInvInit == ShellInit => ShellInv
<1> SUFFICES ASSUME ShellInit PROVE ShellInv
  OBVIOUS
<1>1. /\ NotStarted \in ProcessType /\ NoSession \in ShellType /\ Nothing \in ShownType
  BY DEF NotStarted, NoSession, Nothing, ProcessType, ShellType, ShownType, OnStreams
<1>2. Accounted(NoSession, Nothing)
  BY DEF NoSession, Nothing, Accounted, OnStreams
<1> QED BY <1>1, <1>2 DEF ShellInit, ShellInv, ShellTypeOK

\* A step that changes the session of one command.
LEMMA SessionChanges ==
  ASSUME ShellInv, NEW c \in ShellCmds, NEW new \in ShellType,
         shell' = [shell EXCEPT ![c] = new], UNCHANGED shown, Accounted(new, shown[c]),
         process' \in [ShellCmds -> ProcessType],
         caller' \in [ShellCallers -> CallType \cup {NoCall}]
  PROVE  ShellInv'
<1>1. shell'[c] = new /\ \A d \in ShellCmds : d # c => shell'[d] = shell[d]
  BY DEF ShellInv, ShellTypeOK
<1>2. ShellTypeOK'
  BY DEF ShellInv, ShellTypeOK
<1> QED BY <1>1, <1>2 DEF ShellInv

\* A step that leaves the buffers and what the results said.
LEMMA BuffersKept ==
  ASSUME ShellInv, UNCHANGED <<shell, shown>>, process' \in [ShellCmds -> ProcessType],
         caller' \in [ShellCallers -> CallType \cup {NoCall}]
  PROVE  ShellInv'
  BY DEF ShellInv, ShellTypeOK

\* The child and the watcher.
LEMMA ChildKeepsShellInv ==
  ASSUME ShellInv, NEW c \in ShellCmds,
         \/ Exits(c) \/ DeadlinePasses(c) \/ Watch(c)
         \/ \E s \in Streams : Writes(c, s) \/ ReadOutput(c, s)
  PROVE  ShellInv'
<1>1. /\ process[c] \in ProcessType /\ shell[c] \in ShellType /\ shown[c] \in ShownType
      /\ process \in [ShellCmds -> ProcessType] /\ shell \in [ShellCmds -> ShellType]
      /\ Accounted(shell[c], shown[c])
  BY DEF ShellInv, ShellTypeOK
<1>2. CASE Exits(c) \/ DeadlinePasses(c)
  <2>1. PICK new \in {[process[c] EXCEPT !.state = "exited"], [process[c] EXCEPT !.due = TRUE]} :
           process' = [process EXCEPT ![c] = new]
    BY <1>1, <1>2 DEF Exits, DeadlinePasses
  <2>2. new \in ProcessType
    BY <1>1, <2>1 DEF ProcessType
  <2>3. process' \in [ShellCmds -> ProcessType]
    BY <1>1, <2>1, <2>2
  <2> QED BY <1>2, <2>3, BuffersKept DEF Exits, DeadlinePasses, ShellInv, ShellTypeOK
<1>3. ASSUME NEW s \in Streams, Writes(c, s) PROVE ShellInv'
  <2> DEFINE written == [process[c].written EXCEPT ![s] = process[c].written[s] + 1]
             new == [process[c] EXCEPT !.written = written]
  <2>1. process' = [process EXCEPT ![c] = new]
    <3>1. process' = [process EXCEPT ![c].written[s] = @ + 1]
      BY <1>3 DEF Writes
    <3> QED BY <1>1, <3>1
  <2>2. written \in [Streams -> Nat]
    BY <1>1 DEF ProcessType
  <2> HIDE DEF written
  <2>4. new \in ProcessType
    BY <1>1, <2>2 DEF ProcessType
  <2> HIDE DEF new
  <2>3. process' \in [ShellCmds -> ProcessType]
    BY <1>1, <2>1, <2>4
  <2> QED BY <1>3, <2>3, BuffersKept DEF Writes, ShellInv, ShellTypeOK
<1>4. ASSUME NEW s \in Streams, ReadOutput(c, s) PROVE ShellInv'
  <2> DEFINE full == Buffered(c, s) = BufferCap
             read == [shell[c].read EXCEPT ![s] = shell[c].read[s] + 1]
             taken == [shell[c].taken EXCEPT ![s] = IF full THEN shell[c].taken[s] + 1
                                                    ELSE shell[c].taken[s]]
             cut == [shell[c].cut EXCEPT ![s] = IF full THEN TRUE ELSE shell[c].cut[s]]
             new == [shell[c] EXCEPT !.read = read, !.taken = taken, !.cut = cut]
  <2>1. shell' = [shell EXCEPT ![c] = new]
    <3>1. shell' = [shell EXCEPT ![c] = [shell[c] EXCEPT
             !.read[s] = @ + 1, !.taken[s] = IF full THEN @ + 1 ELSE @,
             !.cut[s] = IF full THEN TRUE ELSE @]]
      BY <1>4 DEF ReadOutput
    <3> HIDE DEF full
    <3>2. new = [shell[c] EXCEPT
             !.read[s] = @ + 1, !.taken[s] = IF full THEN @ + 1 ELSE @,
             !.cut[s] = IF full THEN TRUE ELSE @]
      BY <1>1 DEF ShellType
    <3> HIDE DEF new
    <3> QED BY <1>1, <3>1, <3>2
  <2>2. /\ shell[c].read \in [Streams -> Nat] /\ shell[c].taken \in [Streams -> Nat]
        /\ shell[c].cut \in [Streams -> BOOLEAN]
    BY <1>1 DEF ShellType
  <2>3. /\ read \in [Streams -> Nat] /\ taken \in [Streams -> Nat] /\ cut \in [Streams -> BOOLEAN]
    <3> HIDE DEF full
    <3>1. read \in [Streams -> Nat] /\ taken \in [Streams -> Nat]
      BY <2>2
    <3>2. cut \in [Streams -> BOOLEAN]
      BY <2>2
    <3> QED BY <3>1, <3>2
  <2>4. \A t \in Streams : /\ taken[t] <= read[t]
                           /\ ~cut[t] => ~shell[c].cut[t] /\ taken[t] = shell[c].taken[t]
    <3> TAKE t \in Streams
    <3>1. shell[c].taken[t] <= shell[c].read[t]
      BY <1>1 DEF Accounted
    <3>2. CASE t # s
      BY <2>2, <3>1, <3>2
    <3>3. CASE t = s
      <4>1. /\ read[t] = shell[c].read[t] + 1 /\ (~cut[t] => ~shell[c].cut[t] /\ ~full)
            /\ taken[t] = IF full THEN shell[c].taken[t] + 1 ELSE shell[c].taken[t]
            /\ shell[c].read[t] \in Nat /\ shell[c].taken[t] \in Nat
        BY <2>2, <3>3
      <4> HIDE DEF full, read, taken, cut
      <4> QED BY <3>1, <4>1
    <3> QED BY <3>2, <3>3
  <2> HIDE DEF read, taken, cut
  <2>5. new \in ShellType /\ new.read = read /\ new.taken = taken /\ new.cut = cut
    BY <1>1, <2>3 DEF ShellType
  <2> HIDE DEF new
  <2>6. Accounted(new, shown[c])
    BY <1>1, <2>4, <2>5 DEF Accounted
  <2> QED BY <1>4, <2>1, <2>5, <2>6, SessionChanges DEF ReadOutput, ShellInv, ShellTypeOK
<1>5. CASE Watch(c)
  <2> DEFINE ended == [process[c] EXCEPT !.state = "exited"]
             n1 == [shell[c] EXCEPT !.handle = FALSE, !.exit = TRUE, !.stdin = FALSE]
             n2 == [shell[c] EXCEPT !.handle = FALSE, !.exit = TRUE, !.timedOut = TRUE,
                                    !.stdin = FALSE]
  <2>1. ended \in ProcessType /\ (process' = process \/ process' = [process EXCEPT ![c] = ended])
    BY <1>1, <1>5 DEF Watch, ProcessType
  <2>2. process' \in [ShellCmds -> ProcessType]
    BY <1>1, <2>1
  <2>3. PICK new \in {n1, n2} : shell' = [shell EXCEPT ![c] = new]
    BY <1>5 DEF Watch
  <2>4. /\ new \in ShellType /\ new.read = shell[c].read /\ new.taken = shell[c].taken
        /\ new.cut = shell[c].cut
    BY <1>1, <2>3 DEF ShellType
  <2>5. Accounted(new, shown[c])
    BY <1>1, <2>4 DEF Accounted
  <2> QED BY <1>5, <2>2, <2>3, <2>4, <2>5, SessionChanges DEF Watch, ShellInv, ShellTypeOK
<1> QED BY <1>2, <1>3, <1>4, <1>5

\* A call starts a command, polls it, or is aborted.
LEMMA CallKeepsShellInv ==
  ASSUME ShellInv, NEW k \in ShellCallers,
         \/ Awaits(k) \/ AbortShellCall(k)
         \/ \E c \in ShellCmds, b \in Budgets, x, y \in BOOLEAN :
               StartCommand(k, c, x, y, b) \/ WriteStdin(k, c, x, b)
  PROVE  ShellInv'
<1>1. /\ process \in [ShellCmds -> ProcessType] /\ shell \in [ShellCmds -> ShellType]
      /\ shown \in [ShellCmds -> ShownType]
      /\ caller \in [ShellCallers -> CallType \cup {NoCall}]
  BY DEF ShellInv, ShellTypeOK
<1>2. \A call : call \in CallType \cup {NoCall} /\ call.at # "idle" => call \in CallType
  BY DEF NoCall
<1>3. CASE Awaits(k)
  <2>1. caller[k] \in CallType
    BY <1>1, <1>2, <1>3 DEF Awaits
  <2>2. [caller[k] EXCEPT !.at = "render"] \in CallType
    BY <2>1 DEF CallType
  <2>3. caller' = [caller EXCEPT ![k] = [caller[k] EXCEPT !.at = "render"]]
    BY <1>1, <1>3 DEF Awaits
  <2>4. caller' \in [ShellCallers -> CallType \cup {NoCall}]
    BY <1>1, <2>2, <2>3
  <2> QED BY <1>1, <1>3, <2>4, BuffersKept DEF Awaits
<1>4. CASE AbortShellCall(k)
  <2> DEFINE c == caller[k].cmd
             lost == shown[c].aborted \/ caller[k].at = "conclude"
             new == [shown[c] EXCEPT !.aborted = lost]
  <2>1. c \in ShellCmds /\ caller' = [caller EXCEPT ![k] = NoCall] /\ UNCHANGED <<process, shell>>
    BY <1>1, <1>4 DEF AbortShellCall, CallType
  <2>2. shown' = [shown EXCEPT ![c] = new]
    BY <1>1, <1>4, <2>1 DEF AbortShellCall
  <2>3. lost \in BOOLEAN
    OBVIOUS
  <2> HIDE DEF lost
  <2>4. /\ new \in ShownType /\ new.truncated = shown[c].truncated
        /\ new.got = shown[c].got /\ new.seen = shown[c].seen
  <3>1. shown[c] \in ShownType
    BY <1>1, <2>1
  <3> HIDE DEF c
  <3> QED BY <2>3, <3>1 DEF ShownType
  <2> HIDE DEF new, c
  <2>5. ShellTypeOK'
    BY <1>1, <2>1, <2>2, <2>4 DEF ShellTypeOK
  <2>6. Accounted(shell[c], new)
    BY <2>1, <2>4 DEF ShellInv, Accounted
  <2>7. shown'[c] = new /\ \A d \in ShellCmds : d # c => shown'[d] = shown[d]
    BY <1>1, <2>1, <2>2
  <2> QED BY <2>1, <2>5, <2>6, <2>7 DEF ShellInv
<1>5. ASSUME NEW c \in ShellCmds, NEW b \in Budgets, NEW x \in BOOLEAN, NEW y \in BOOLEAN,
             StartCommand(k, c, x, y, b)
      PROVE  ShellInv'
  <2> DEFINE p == [process[c] EXCEPT !.state = "running", !.deadline = y]
             n == [shell[c] EXCEPT !.handle = TRUE, !.stdin = TRUE, !.listed = x]
             call == [at |-> "waiting", cmd |-> c, tool |-> "shell_command", until |-> ~x,
                      budget |-> b]
  <2>1. /\ process' = [process EXCEPT ![c] = p] /\ shell' = [shell EXCEPT ![c] = n]
        /\ caller' = [caller EXCEPT ![k] = call] /\ UNCHANGED shown
    BY <1>5 DEF StartCommand
  <2>2. p \in ProcessType
    BY <1>1 DEF ProcessType
  <2>3. n \in ShellType /\ n.read = shell[c].read /\ n.taken = shell[c].taken /\ n.cut = shell[c].cut
    BY <1>1 DEF ShellType
  <2>4. call \in CallType
    BY ShellAssumption DEF CallType
  <2> HIDE DEF p, n, call
  <2>5. /\ process' \in [ShellCmds -> ProcessType]
        /\ caller' \in [ShellCallers -> CallType \cup {NoCall}]
    BY <1>1, <2>1, <2>2, <2>4
  <2>6. Accounted(n, shown[c])
    BY <2>3 DEF ShellInv, Accounted
  <2> QED BY <2>1, <2>3, <2>5, <2>6, SessionChanges
<1>6. ASSUME NEW c \in ShellCmds, NEW b \in Budgets, NEW x \in BOOLEAN, WriteStdin(k, c, x, b)
      PROVE  ShellInv'
  <2> DEFINE call == [at |-> "waiting", cmd |-> c, tool |-> "write_stdin", until |-> FALSE,
                      budget |-> b]
  <2>1. call \in CallType
    BY ShellAssumption DEF CallType
  <2>2. caller' = caller \/ caller' = [caller EXCEPT ![k] = call]
    BY <1>6 DEF WriteStdin
  <2> HIDE DEF call
  <2>3. caller' \in [ShellCallers -> CallType \cup {NoCall}]
    BY <1>1, <2>1, <2>2
  <2> QED BY <1>1, <1>6, <2>3, BuffersKept DEF WriteStdin
<1> QED BY <1>3, <1>4, <1>5, <1>6

\* Rendering takes what the budget allows; what it leaves is reported.
LEMMA RenderKeepsShellInv ==
  ASSUME ShellInv, NEW k \in ShellCallers, Render(k)
  PROVE  ShellInv'
<1> DEFINE c == caller[k].cmd
           b == caller[k].budget
           out == Drained(c, "stdout", b)
           limit == [s \in Streams |-> IF s = "stdout" THEN b ELSE b - out]
           take == [s \in Streams |-> Drained(c, s, limit[s])]
           taken == [s \in Streams |-> shell[c].taken[s] + take[s]]
           got == [s \in Streams |-> shown[c].got[s] + take[s]]
           some == shown[c].truncated \/ \E s \in Streams : Cut(c, s, limit[s])
           n == [shell[c] EXCEPT !.taken = taken, !.cut = OnStreams(FALSE)]
           w == [shown[c] EXCEPT !.truncated = some, !.seen = shell[c].read, !.got = got]
<1>1. /\ process \in [ShellCmds -> ProcessType] /\ shell \in [ShellCmds -> ShellType]
      /\ shown \in [ShellCmds -> ShownType]
      /\ caller \in [ShellCallers -> CallType \cup {NoCall}]
  BY DEF ShellInv, ShellTypeOK
<1>2. caller[k] \in CallType
  BY <1>1 DEF Render, NoCall
<1>3. c \in ShellCmds /\ b \in Nat
  BY <1>2 DEF CallType
<1>4. /\ shell' = [shell EXCEPT ![c] = n] /\ shown' = [shown EXCEPT ![c] = w]
      /\ caller' = [caller EXCEPT ![k].at = "conclude"] /\ UNCHANGED process
  BY DEF Render
<1>5. caller' \in [ShellCallers -> CallType \cup {NoCall}]
  <2>1. [caller[k] EXCEPT !.at = "conclude"] \in CallType
    BY <1>2 DEF CallType
  <2> QED BY <1>1, <1>4, <2>1
<1>6. /\ shell[c].read \in [Streams -> Nat] /\ shell[c].taken \in [Streams -> Nat]
      /\ shell[c].cut \in [Streams -> BOOLEAN] /\ shown[c].got \in [Streams -> Nat]
      /\ shown[c].seen \in [Streams -> Nat] /\ shown[c].truncated \in BOOLEAN
  BY <1>1, <1>3 DEF ShellType, ShownType
<1>7. \A s \in Streams : Buffered(c, s) \in Nat
  BY <1>3, <1>6 DEF ShellInv, Accounted, Buffered
<1>8. /\ limit \in [Streams -> Nat]
      /\ take \in [Streams -> Nat]
      /\ \A s \in Streams : take[s] <= Buffered(c, s)
      /\ \A s \in Streams : take[s] = Buffered(c, s) \/ Buffered(c, s) > limit[s]
  <2>1. out \in Nat /\ out <= b
    BY <1>3, <1>7 DEF Drained, Streams
  <2> HIDE DEF out
  <2>2. limit \in [Streams -> Nat]
    BY <1>3, <2>1
  <2> HIDE DEF limit
  <2>3. \A s \in Streams : /\ Drained(c, s, limit[s]) \in Nat
                           /\ Drained(c, s, limit[s]) <= Buffered(c, s)
                           /\ \/ Drained(c, s, limit[s]) = Buffered(c, s)
                              \/ Buffered(c, s) > limit[s]
    BY <1>7, <2>2 DEF Drained
  <2> QED BY <2>2, <2>3
<1> HIDE DEF limit, take
<1>9. taken \in [Streams -> Nat] /\ got \in [Streams -> Nat]
  BY <1>6, <1>8
<1>10. some \in BOOLEAN
  BY <1>6
<1>11. ~some => /\ ~shown[c].truncated
                /\ \A s \in Streams : ~shell[c].cut[s] /\ take[s] = Buffered(c, s)
  BY <1>8 DEF Cut
<1>12. \A s \in Streams : taken[s] <= shell[c].read[s]
  BY <1>6, <1>7, <1>8 DEF Buffered
<1>13. ~some => got = shell[c].read /\ got = taken
  <2> SUFFICES ASSUME ~some, NEW s \in Streams
               PROVE  got[s] = shell[c].read[s] /\ got[s] = taken[s]
    BY <1>6, <1>9
  <2>1. shown[c].got[s] = shell[c].taken[s]
    BY <1>3, <1>11 DEF ShellInv, Accounted
  <2> QED BY <1>6, <1>7, <1>8, <1>11, <2>1 DEF Buffered
<1> HIDE DEF some, taken, got
<1>14. /\ n \in ShellType /\ n.read = shell[c].read /\ n.taken = taken
       /\ w \in ShownType /\ w.truncated = some /\ w.seen = shell[c].read /\ w.got = got
  <2>1. OnStreams(FALSE) \in [Streams -> BOOLEAN]
    BY DEF OnStreams
  <2>2. shell[c] \in ShellType /\ shown[c] \in ShownType
    BY <1>1, <1>3
  <2>3. n \in ShellType /\ n.read = shell[c].read /\ n.taken = taken
    BY <1>9, <2>1, <2>2 DEF ShellType
  <2>4. w \in ShownType /\ w.truncated = some /\ w.seen = shell[c].read /\ w.got = got
    BY <1>6, <1>9, <1>10, <2>2 DEF ShownType
  <2> QED BY <2>3, <2>4
<1> HIDE DEF n, w, c
<1>15. Accounted(n, w)
  BY <1>12, <1>13, <1>14 DEF Accounted
<1>16. ShellTypeOK'
  BY <1>1, <1>3, <1>4, <1>5, <1>14 DEF ShellTypeOK
<1>17. /\ shell'[c] = n /\ shown'[c] = w
       /\ \A d \in ShellCmds : d # c => shell'[d] = shell[d] /\ shown'[d] = shown[d]
  BY <1>1, <1>3, <1>4
<1> QED BY <1>15, <1>16, <1>17 DEF ShellInv

LEMMA ConcludeKeepsShellInv ==
  ASSUME ShellInv, NEW k \in ShellCallers, Conclude(k)
  PROVE  ShellInv'
<1> DEFINE c == caller[k].cmd
           n == [shell[c] EXCEPT !.listed = FALSE]
           w == [shown[c] EXCEPT !.done = TRUE]
<1>1. /\ process \in [ShellCmds -> ProcessType] /\ shell \in [ShellCmds -> ShellType]
      /\ shown \in [ShellCmds -> ShownType]
      /\ caller \in [ShellCallers -> CallType \cup {NoCall}]
  BY DEF ShellInv, ShellTypeOK
<1>2. c \in ShellCmds
  BY <1>1 DEF Conclude, NoCall, CallType
<1>3. caller' \in [ShellCallers -> CallType \cup {NoCall}] /\ UNCHANGED process
  BY <1>1 DEF Conclude
<1>4. CASE UNCHANGED <<shell, shown>>
  BY <1>1, <1>3, <1>4, BuffersKept
<1>5. CASE shell[c].exit
  <2>1. shell' = [shell EXCEPT ![c] = n] /\ shown' = [shown EXCEPT ![c] = w]
    BY <1>1, <1>5 DEF Conclude
  <2> HIDE DEF c
  <2>0. shell[c] \in ShellType /\ shown[c] \in ShownType
    BY <1>1, <1>2
  <2>2. /\ n \in ShellType /\ n.read = shell[c].read /\ n.taken = shell[c].taken
        /\ n.cut = shell[c].cut
    BY <2>0 DEF ShellType
  <2>3. /\ w \in ShownType /\ w.truncated = shown[c].truncated
        /\ w.seen = shown[c].seen /\ w.got = shown[c].got
    BY <2>0 DEF ShownType
  <2> HIDE DEF n, w
  <2>4. Accounted(n, w)
    BY <1>2, <2>2, <2>3 DEF ShellInv, Accounted
  <2>5. ShellTypeOK'
    BY <1>1, <1>2, <1>3, <2>1, <2>2, <2>3 DEF ShellTypeOK
  <2>6. /\ shell'[c] = n /\ shown'[c] = w
        /\ \A d \in ShellCmds : d # c => shell'[d] = shell[d] /\ shown'[d] = shown[d]
    BY <1>1, <1>2, <2>1
  <2> QED BY <2>4, <2>5, <2>6 DEF ShellInv
<1> QED BY <1>4, <1>5 DEF Conclude

\* Whatever overflows, is polled, aborted or times out, the results of a command that
\* ended hold all output that had arrived when the last was rendered, unless one of them
\* says that output was truncated.
THEOREM OutputIsAccounted == ShellSpec => []SilentLossOnlyLate
<1>1. ASSUME ShellInv, [ShellNext]_shellVars PROVE ShellInv'
  <2>1. CASE UNCHANGED shellVars
    BY <1>1, <2>1 DEF shellVars, ShellInv, ShellTypeOK
  <2>2. CASE ShellNext
    BY <1>1, <2>2, ChildKeepsShellInv, CallKeepsShellInv, RenderKeepsShellInv,
       ConcludeKeepsShellInv DEF ShellNext, CallerStep
  <2> QED BY <1>1, <2>1, <2>2
<1>2. ShellInv => SilentLossOnlyLate
  BY DEF ShellInv, Accounted, SilentLossOnlyLate
<1> QED BY <1>1, <1>2, ShellInvInit, PTL DEF ShellSpec

-----------------------------------------------------------------------------
(***************************************************************************)
(* CustomTools                                                             *)
(***************************************************************************)
\* Whoever starts a request and is not yet done with it holds the lock.
Stage == {"start", "send", "read", "stop"}
CustomLine == [of : ToolCalls, kind : {"content", "error", "garbage"}]
CustomTypes ==
    /\ rpc \in [ToolCalls -> Stage \cup {"new", "done", "failed", "aborted"}]
    /\ answered \in [ToolCalls -> ToolCalls \cup {NoOne}]
    /\ inbox \in Seq(ToolCalls)
    /\ lines \in Seq(CustomLine)
    /\ \A x \in ToolCalls : rpc[x] \in Stage <=> turn = x

\* A call with the id of x was aborted.
IdAborted(x) == \E y \in ToolCalls : rpc[y] = "aborted" /\ RequestId[y] = RequestId[x]

\* A request is with the child, or answered, once; then its call is reading, or it left
\* the answer behind.
Asked ==
    {x \in ToolCalls : /\ rpc[x] \notin {"new", "start", "send"}
                       /\ (rpc[x] \in {"read", "stop"} \/ IdAborted(x))}
RequestsAreOnce ==
    /\ \A i, j \in 1..Len(inbox) : inbox[i] = inbox[j] => i = j
    /\ \A i, j \in 1..Len(lines) : lines[i].of = lines[j].of => i = j
    /\ \A i \in 1..Len(inbox), j \in 1..Len(lines) : inbox[i] # lines[j].of
RequestsAreAsked ==
    /\ \A i \in 1..Len(inbox) : inbox[i] \in Asked
    /\ \A i \in 1..Len(lines) : lines[i].of \in Asked

CustomInv == CustomTypes /\ RequestsAreOnce /\ RequestsAreAsked /\ AnswerIsOwn

\* A line is the answer to some call of the tool.
LEMMA LinesAreTyped ==
  ASSUME lines \in Seq(CustomLine)
  PROVE  /\ Len(lines) \in Nat
         /\ \A i \in 1..Len(lines) : lines[i] \in CustomLine /\ lines[i].of \in ToolCalls
<1>1. \A l \in CustomLine : l.of \in ToolCalls
  BY DEF CustomLine
<1> HIDE DEF CustomLine
<1> QED BY <1>1

\* Before the first call no request is in the pipes.
LEMMA CustomInvInit == CustomInit => CustomInv
BY CustomAssumption DEF CustomInit, CustomInv, CustomTypes, RequestsAreOnce, RequestsAreAsked, AnswerIsOwn, Stage

\* Nothing is asked of a child that was just started, or is gone.
LEMMA EmptyPipes ==
  ASSUME CustomTypes', AnswerIsOwn', inbox' = <<>>, lines' = <<>>
  PROVE  CustomInv'
BY DEF CustomInv, RequestsAreOnce, RequestsAreAsked

\* A step of a call that leaves the pipes alone and does not end it.
LEMMA StepKeeps ==
  ASSUME CustomInv, NEW x \in ToolCalls, NEW stage \in Stage \cup {"aborted", "failed"},
         rpc[x] \in {"new", "start", "send", "read", "stop"}, stage \in {"start", "send"} => rpc[x] \in {"new", "start"},
         stage = "failed" => rpc[x] = "start",
         rpc' = [rpc EXCEPT ![x] = stage], answered' = answered, inbox' = inbox, lines' = lines,
         CustomTypes'
  PROVE  CustomInv'
<1>1. \A y \in ToolCalls : rpc'[y] = IF y = x THEN stage ELSE rpc[y]
  BY DEF CustomInv, CustomTypes
<1>2. \A y \in ToolCalls : IdAborted(y) => IdAborted(y)'
  BY <1>1 DEF IdAborted, Stage
<1>3. \A y \in ToolCalls : y \in Asked => y \in Asked'
  BY <1>1, <1>2 DEF Asked, IdAborted, Stage
<1>4. RequestsAreOnce' /\ RequestsAreAsked'
  <2>1. \A i \in 1..Len(inbox) : inbox[i] \in ToolCalls
    BY DEF CustomInv, CustomTypes
  <2>2. \A i \in 1..Len(lines) : lines[i].of \in ToolCalls
    BY LinesAreTyped DEF CustomInv, CustomTypes
  <2> QED BY <1>3, <2>1, <2>2 DEF CustomInv, RequestsAreOnce, RequestsAreAsked
<1>5. AnswerIsOwn'
  BY <1>1, <1>2 DEF CustomInv, CustomTypes, AnswerIsOwn, IdAborted, Stage
<1> QED BY <1>4, <1>5 DEF CustomInv

\* Every step of the child and of the calls keeps the requests and the answers in order.
LEMMA CustomInvKept == CustomInv /\ [CustomNext]_customVars => CustomInv'
<1> SUFFICES ASSUME CustomInv, [CustomNext]_customVars PROVE CustomInv'
  OBVIOUS
<1> USE CustomAssumption
<1>t. /\ Len(inbox) \in Nat /\ Len(lines) \in Nat
      /\ \A i \in 1..Len(inbox) : inbox[i] \in ToolCalls
      /\ \A i \in 1..Len(lines) : lines[i].of \in ToolCalls
      /\ \A x \in ToolCalls : rpc[x] \in Stage => turn = x
  BY LinesAreTyped DEF CustomInv, CustomTypes
<1>1. CASE UNCHANGED customVars
  BY <1>1 DEF customVars, CustomInv, CustomTypes, RequestsAreOnce, RequestsAreAsked, Asked, IdAborted, AnswerIsOwn
<1>2. CASE ChildAnswers
  <2>1. PICK kind \in {"content", "error", "garbage"} :
           lines' = Append(lines, [of |-> Head(inbox), kind |-> kind])
    BY <1>2 DEF ChildAnswers
  <2> DEFINE n == Len(inbox)
             m == Len(lines)
             e == [of |-> Head(inbox), kind |-> kind]
  <2>2. /\ n \in Nat /\ m \in Nat /\ n >= 1 /\ Head(inbox) = inbox[1] /\ Head(inbox) \in ToolCalls
        /\ inbox' \in Seq(ToolCalls) /\ Len(inbox') = n - 1
        /\ \A i \in 1..n - 1 : inbox'[i] = inbox[i + 1]
    BY <1>2 DEF ChildAnswers, CustomInv, CustomTypes
  <2>3. /\ Len(lines') = m + 1 /\ lines'[m + 1].of = inbox[1]
        /\ \A i \in 1..m : lines'[i] = lines[i]
        /\ lines' \in Seq(CustomLine)
    <3>1. e \in CustomLine /\ e.of = inbox[1]
      BY <2>2 DEF CustomLine
    <3> HIDE DEF e
    <3> QED BY <2>1, <2>2, <3>1, AppendProperties DEF CustomInv, CustomTypes, e
  <2>4. rpc' = rpc /\ turn' = turn /\ answered' = answered
    BY <1>2 DEF ChildAnswers
  <2>5. CustomTypes' /\ AnswerIsOwn'
    BY <2>2, <2>3, <2>4 DEF CustomInv, CustomTypes, AnswerIsOwn
  <2>6. \A i \in 1..m + 1 : i = m + 1 \/ i \in 1..m
    BY <2>2
  <2> HIDE DEF n, m
  <2>7. RequestsAreOnce'
    <3>1. \A i, j \in 1..n - 1 : inbox'[i] = inbox'[j] => i = j
      BY <2>2 DEF CustomInv, RequestsAreOnce, n
    <3>2. \A i \in 1..n - 1 : inbox'[i] # inbox[1]
      BY <2>2 DEF CustomInv, RequestsAreOnce, n
    <3>3. \A j \in 1..m : lines[j].of # inbox[1]
      BY <2>2 DEF CustomInv, RequestsAreOnce, n, m
    <3>4. \A i \in 1..n - 1, j \in 1..m : inbox'[i] # lines[j].of
      BY <2>2 DEF CustomInv, RequestsAreOnce, n, m
    <3>5. \A i, j \in 1..m + 1 : lines'[i].of = lines'[j].of => i = j
      BY <2>3, <2>6, <3>3 DEF CustomInv, RequestsAreOnce, m
    <3>6. \A i \in 1..n - 1, j \in 1..m + 1 : inbox'[i] # lines'[j].of
      BY <2>3, <2>6, <3>2, <3>4
    <3> QED BY <2>2, <2>3, <3>1, <3>5, <3>6 DEF RequestsAreOnce
  <2>8. RequestsAreAsked'
    <3>1. \A x \in ToolCalls : x \in Asked => x \in Asked'
      BY <2>4 DEF Asked, IdAborted
    <3>2. \A i \in 1..n - 1 : i + 1 \in 1..n
      BY <2>2
    <3>3. 1 \in 1..n
      BY <2>2
    <3>4. \A i \in 1..n - 1 : inbox'[i] \in Asked'
      BY <2>2, <2>4, <3>1, <3>2, <1>t DEF CustomInv, RequestsAreAsked, n
    <3>5. \A i \in 1..m + 1 : lines'[i].of \in Asked'
      BY <2>3, <2>4, <2>6, <3>1, <3>3, <1>t DEF CustomInv, RequestsAreAsked, n, m
    <3> QED BY <2>2, <2>3, <3>4, <3>5 DEF RequestsAreAsked
  <2> QED BY <2>5, <2>7, <2>8 DEF CustomInv
<1>3. CASE ChildDies
  BY <1>3 DEF ChildDies, CustomInv, CustomTypes, RequestsAreOnce, RequestsAreAsked, Asked, IdAborted, AnswerIsOwn
<1>4. ASSUME NEW x \in ToolCalls, TakeTurn(x) PROVE CustomInv'
  <2>1. CustomTypes'
    BY <1>4 DEF TakeTurn, CustomInv, CustomTypes, Stage
  <2> QED BY <1>4, <2>1, StepKeeps DEF TakeTurn, Stage
<1>5. ASSUME NEW x \in ToolCalls, EnsureStarted(x) PROVE CustomInv'
  <2>1. CASE rpc' = [rpc EXCEPT ![x] = "send"] /\ UNCHANGED <<turn, inbox, lines>>
    <3>1. CustomTypes'
      BY <1>5, <2>1 DEF EnsureStarted, CustomInv, CustomTypes, Stage
    <3> QED BY <1>5, <2>1, <3>1, StepKeeps DEF EnsureStarted, Stage
  <2>2. CASE inbox' = <<>> /\ lines' = <<>> /\ rpc' = [rpc EXCEPT ![x] = "send"] /\ UNCHANGED turn
    <3>1. CustomTypes'
      BY <1>5, <2>2 DEF EnsureStarted, CustomInv, CustomTypes, Stage
    <3>2. AnswerIsOwn'
      BY <1>5, <2>2 DEF EnsureStarted, CustomInv, CustomTypes, AnswerIsOwn
    <3> QED BY <2>2, <3>1, <3>2, EmptyPipes
  <2>3. CASE Release(x, "failed") /\ UNCHANGED <<child, inbox, lines>>
    <3>1. CustomTypes'
      BY <1>5, <2>3 DEF EnsureStarted, Release, CustomInv, CustomTypes, Stage
    <3> QED BY <1>5, <2>3, <3>1, StepKeeps DEF EnsureStarted, Release, Stage
  <2> QED BY <1>5, <2>1, <2>2, <2>3 DEF EnsureStarted
<1>6. ASSUME NEW x \in ToolCalls, SendRequest(x) PROVE CustomInv'
  <2>1. CASE rpc' = [rpc EXCEPT ![x] = "stop"] /\ UNCHANGED inbox
    <3>1. CustomTypes'
      BY <1>6, <2>1 DEF SendRequest, CustomInv, CustomTypes, Stage
    <3> QED BY <1>6, <2>1, <3>1, StepKeeps DEF SendRequest, Stage
  <2>2. CASE inbox' = Append(inbox, x) /\ rpc' = [rpc EXCEPT ![x] = "read"]
    <3>1. CustomTypes'
      BY <1>6, <2>2, AppendProperties DEF SendRequest, CustomInv, CustomTypes, Stage
    <3> DEFINE n == Len(inbox)
    <3>2. /\ n \in Nat /\ Len(inbox') = n + 1 /\ inbox'[n + 1] = x
          /\ \A i \in 1..n : inbox'[i] = inbox[i]
          /\ lines' = lines /\ answered' = answered
          /\ \A i \in 1..n + 1 : i = n + 1 \/ i \in 1..n
      BY <1>6, <2>2, AppendProperties DEF SendRequest, CustomInv, CustomTypes
    <3> HIDE DEF n
    <3>3. \A y \in ToolCalls : rpc'[y] = IF y = x THEN "read" ELSE rpc[y]
      BY <2>2 DEF CustomInv, CustomTypes
    <3>4. /\ \A i \in 1..n : inbox[i] # x /\ inbox[i] \in Asked
          /\ \A i \in 1..Len(lines) : lines[i].of # x /\ lines[i].of \in Asked
      <4>1. x \notin Asked
        BY <1>6 DEF SendRequest, Asked
      <4> QED BY <4>1 DEF CustomInv, RequestsAreAsked, n
    <3>5. \A y \in ToolCalls : y \in Asked => y \in Asked'
      BY <3>3, <1>6 DEF Asked, IdAborted, SendRequest
    <3>6. RequestsAreOnce'
      BY <3>2, <3>4 DEF CustomInv, RequestsAreOnce, n
    <3>7. RequestsAreAsked'
      <4>1. x \in Asked'
        BY <3>3 DEF Asked
      <4>2. \A i \in 1..n : inbox'[i] \in Asked'
        BY <3>2, <3>3, <3>4, <3>5, <1>t DEF CustomInv, RequestsAreAsked, n
      <4>3. \A i \in 1..Len(lines) : lines'[i].of \in Asked'
        BY <3>2, <3>3, <3>4, <3>5, <1>t DEF CustomInv, RequestsAreAsked
      <4> QED BY <3>2, <3>3, <4>1, <4>2, <4>3 DEF RequestsAreAsked
    <3>8. AnswerIsOwn'
      BY <3>2, <3>3, <1>6 DEF CustomInv, CustomTypes, AnswerIsOwn, SendRequest
    <3> QED BY <3>1, <3>6, <3>7, <3>8 DEF CustomInv
  <2> QED BY <1>6, <2>1, <2>2 DEF SendRequest
<1>7. ASSUME NEW x \in ToolCalls, ReadResponse(x) PROVE CustomInv'
  <2>1. CASE rpc' = [rpc EXCEPT ![x] = "stop"] /\ UNCHANGED <<turn, lines, answered>>
    <3>1. CustomTypes'
      BY <1>7, <2>1 DEF ReadResponse, CustomInv, CustomTypes, Stage
    <3> QED BY <1>7, <2>1, <3>1, StepKeeps DEF ReadResponse, Stage
  <2>2. CASE lines # <<>> /\ lines' = Tail(lines)
    <3> DEFINE m == Len(lines)
               y == lines[1].of
    <3>1. /\ m \in Nat /\ m >= 1 /\ Head(lines) = lines[1] /\ y \in ToolCalls
          /\ lines' \in Seq(CustomLine)
          /\ Len(lines') = m - 1 /\ \A i \in 1..m - 1 : lines'[i] = lines[i + 1] /\ i + 1 \in 1..m /\ i + 1 # 1
          /\ 1 \in 1..m
      BY <2>2, <1>t DEF CustomInv, CustomTypes
    <3>2. inbox' = inbox /\ turn = x /\ rpc[x] = "read"
      BY <1>7, <1>t DEF ReadResponse, Stage
    <3> HIDE DEF m
    <3>3. RequestsAreOnce'
      <4>1. \A i, j \in 1..m - 1 : lines'[i].of = lines'[j].of => i = j
        <5> SUFFICES ASSUME NEW i \in 1..m - 1, NEW j \in 1..m - 1, lines'[i].of = lines'[j].of
                     PROVE  i = j
          OBVIOUS
        <5>1. lines[i + 1].of = lines[j + 1].of /\ i + 1 \in 1..m /\ j + 1 \in 1..m
          BY <3>1
        <5>2. i + 1 = j + 1
          BY <5>1 DEF CustomInv, RequestsAreOnce, m
        <5> QED BY <5>2, <3>1
      <4>2. \A i \in 1..Len(inbox), j \in 1..m - 1 : inbox[i] # lines'[j].of
        BY <3>1 DEF CustomInv, RequestsAreOnce, m
      <4> QED BY <3>1, <3>2, <4>1, <4>2 DEF CustomInv, RequestsAreOnce
    <3>4. /\ \A i \in 1..m - 1 : lines'[i].of # y
          /\ \A i \in 1..Len(inbox) : inbox[i] # y
      BY <3>1 DEF CustomInv, RequestsAreOnce, m
    <3>5. CASE rpc' = [rpc EXCEPT ![x] = "stop"] /\ UNCHANGED <<turn, answered>>
      <4>1. CustomTypes'
        BY <3>1, <3>2, <3>5 DEF CustomInv, CustomTypes, Stage
      <4>2. \A z \in ToolCalls : rpc'[z] = IF z = x THEN "stop" ELSE rpc[z]
        BY <3>5 DEF CustomInv, CustomTypes
      <4>3. \A z \in ToolCalls : z \in Asked => z \in Asked'
        BY <4>2, <3>2 DEF Asked, IdAborted
      <4>4. RequestsAreAsked'
        <5>1. \A i \in 1..m - 1 : lines'[i].of \in Asked'
          BY <3>1, <4>2, <4>3, <1>t DEF CustomInv, RequestsAreAsked, m
        <5> QED BY <3>1, <3>2, <4>2, <4>3, <5>1, <1>t DEF CustomInv, RequestsAreAsked
      <4>5. AnswerIsOwn'
        BY <3>5, <4>2, <3>2 DEF CustomInv, CustomTypes, AnswerIsOwn
      <4> QED BY <4>1, <3>3, <4>4, <4>5 DEF CustomInv
    <3>6. CASE /\ Accepted(x, Head(lines)) /\ answered' = [answered EXCEPT ![x] = Head(lines).of]
               /\ Release(x, "done")
      <4>1. rpc' = [rpc EXCEPT ![x] = "done"] /\ turn' = NoOne /\ answered' = [answered EXCEPT ![x] = y]
        BY <3>1, <3>6 DEF Release
      <4>2. CustomTypes'
        BY <3>1, <3>2, <4>1 DEF CustomInv, CustomTypes, Stage
      <4>3. \A z \in ToolCalls : rpc'[z] = IF z = x THEN "done" ELSE rpc[z]
        BY <4>1 DEF CustomInv, CustomTypes
      <4>4. RequestId[y] = RequestId[x]
        BY <3>1, <3>6 DEF Accepted
      <4>5. y = x \/ IdAborted(x)'
        <5>1. y \in Asked
          BY <3>1 DEF CustomInv, RequestsAreAsked, m
        <5>2. CASE rpc[y] \in {"read", "stop"}
          BY <3>1, <3>2, <5>2, <1>t DEF Stage
        <5>3. CASE IdAborted(y)
          BY <5>3, <4>3, <4>4, <3>2 DEF IdAborted
        <5> QED BY <5>1, <5>2, <5>3 DEF Asked
      <4>6. \A z \in ToolCalls : z # y /\ z \in Asked => z \in Asked'
        <5>1. \A z \in ToolCalls : IdAborted(z) => IdAborted(z)'
          BY <4>3, <3>2 DEF IdAborted
        <5>2. \A z \in ToolCalls : rpc[z] \in {"read", "stop"} => z = x
          BY <3>2, <1>t DEF Stage
        <5> QED BY <4>3, <4>5, <5>1, <5>2 DEF Asked
      <4>7. RequestsAreAsked'
        <5>1. \A i \in 1..m - 1 : lines'[i].of \in Asked'
          BY <3>1, <3>4, <4>3, <4>6, <1>t DEF CustomInv, RequestsAreAsked, m
        <5>2. \A i \in 1..Len(inbox) : inbox[i] \in Asked'
          BY <3>4, <4>3, <4>6, <1>t DEF CustomInv, RequestsAreAsked
        <5> QED BY <3>1, <3>2, <5>1, <5>2 DEF RequestsAreAsked
      <4>8. AnswerIsOwn'
        <5> SUFFICES ASSUME NEW z \in ToolCalls, rpc'[z] = "done"
                     PROVE  RequestId[answered'[z]] = RequestId[z] /\ (answered'[z] = z \/ IdAborted(z)')
          BY DEF AnswerIsOwn, IdAborted
        <5>1. CASE z = x
          BY <4>1, <4>4, <4>5, <5>1 DEF CustomInv, CustomTypes
        <5>2. CASE z # x
          <6>1. answered'[z] = answered[z] /\ rpc[z] = "done"
            BY <4>1, <4>3, <5>2 DEF CustomInv, CustomTypes
          <6>2. RequestId[answered[z]] = RequestId[z] /\ (answered[z] = z \/ IdAborted(z))
            BY <6>1 DEF CustomInv, AnswerIsOwn, IdAborted
          <6>3. IdAborted(z) => IdAborted(z)'
            BY <4>3, <3>2 DEF IdAborted
          <6> QED BY <6>1, <6>2, <6>3
        <5> QED BY <5>1, <5>2
      <4> QED BY <4>2, <3>3, <4>7, <4>8 DEF CustomInv
    <3> QED BY <1>7, <2>2, <3>5, <3>6 DEF ReadResponse
  <2> QED BY <1>7, <2>1, <2>2 DEF ReadResponse
<1>8. ASSUME NEW x \in ToolCalls, CallTimesOut(x) PROVE CustomInv'
  <2>1. CustomTypes'
    BY <1>8 DEF CallTimesOut, CustomInv, CustomTypes, Stage
  <2> QED BY <1>8, <2>1, StepKeeps DEF CallTimesOut, Stage
<1>9. ASSUME NEW x \in ToolCalls, StopChild(x) PROVE CustomInv'
  <2>1. CustomTypes'
    BY <1>9 DEF StopChild, Release, CustomInv, CustomTypes, Stage
  <2>2. AnswerIsOwn'
    BY <1>9 DEF StopChild, Release, CustomInv, CustomTypes, AnswerIsOwn
  <2> QED BY <1>9, <2>1, <2>2, EmptyPipes DEF StopChild
<1>10. ASSUME NEW x \in ToolCalls, AbortCall(x) PROVE CustomInv'
  <2>1. /\ turn = x /\ turn' = NoOne /\ rpc' = [rpc EXCEPT ![x] = "aborted"] /\ answered' = answered
        /\ rpc[x] \in Stage
    BY <1>10 DEF AbortCall, Release, CustomInv, CustomTypes
  <2>2. \A z \in ToolCalls : rpc'[z] = IF z = x THEN "aborted" ELSE rpc[z]
    BY <2>1 DEF CustomInv, CustomTypes
  <2>3. /\ Len(lines') = Len(lines)
        /\ lines' \in Seq(CustomLine)
        /\ \A i \in 1..Len(lines) : lines'[i].of = lines[i].of
    <3>1. CASE lines' = lines
      BY <3>1 DEF CustomInv, CustomTypes
    <3>2. CASE lines # <<>> /\ lines' = <<[of |-> Head(lines).of, kind |-> "garbage"]>> \o Tail(lines)
      <4> DEFINE e == [of |-> Head(lines).of, kind |-> "garbage"]
      <4>1. /\ lines \in Seq(CustomLine) /\ Len(lines) \in Nat /\ Len(lines) >= 1 /\ Head(lines) = lines[1]
            /\ lines[1] \in CustomLine /\ Tail(lines) \in Seq(CustomLine) /\ Len(Tail(lines)) = Len(lines) - 1
            /\ \A i \in 1..Len(lines) - 1 : Tail(lines)[i] = lines[i + 1]
        BY <3>2 DEF CustomInv, CustomTypes
      <4>2. e \in CustomLine /\ e.of = lines[1].of
        BY <4>1, <1>t DEF CustomLine
      <4> HIDE DEF e
      <4>3. /\ <<e>> \in Seq(CustomLine) /\ Len(<<e>>) = 1 /\ <<e>>[1] = e
        BY <4>2
      <4>4. lines' \in Seq(CustomLine) /\ Len(lines') = Len(lines)
        BY <3>2, <4>1, <4>3 DEF e
      <4>5. ASSUME NEW i \in 1..Len(lines) PROVE lines'[i].of = lines[i].of
        <5>1. CASE i = 1
          BY <3>2, <4>1, <4>2, <4>3, <5>1 DEF e
        <5>2. CASE i # 1
          <6>1. i - 1 \in 1..Len(Tail(lines)) /\ lines'[i] = Tail(lines)[i - 1]
            BY <3>2, <4>1, <4>3, <5>2 DEF e
          <6> QED BY <4>1, <6>1
        <5> QED BY <5>1, <5>2
      <4> QED BY <4>4, <4>5
    <3> QED BY <1>10, <3>1, <3>2 DEF AbortCall
  <2>4. inbox' = inbox \/ inbox' = <<>>
    BY <1>10 DEF AbortCall
  <2>5. CustomTypes'
    <3>1. inbox' \in Seq(ToolCalls)
      <4>1. inbox \in Seq(ToolCalls) /\ <<>> \in Seq(ToolCalls)
        BY DEF CustomInv, CustomTypes
      <4> QED BY <4>1, <2>4
    <3>2. rpc' \in [ToolCalls -> Stage \cup {"new", "done", "failed", "aborted"}]
      BY <2>1 DEF CustomInv, CustomTypes
    <3>3. \A z \in ToolCalls : rpc'[z] \in Stage <=> turn' = z
      BY <2>1, <2>2, <1>t DEF Stage, CustomAssumption
    <3> QED BY <2>1, <2>3, <3>1, <3>2, <3>3 DEF CustomInv, CustomTypes
  <2>6. \A z \in ToolCalls : z \in Asked => z \in Asked'
    BY <2>1, <2>2 DEF Asked, IdAborted
  <2>7. RequestsAreOnce' /\ RequestsAreAsked'
    BY <2>2, <2>3, <2>4, <2>6, <1>t DEF CustomInv, RequestsAreOnce, RequestsAreAsked
  <2>8. AnswerIsOwn'
    BY <2>1, <2>2 DEF CustomInv, CustomTypes, AnswerIsOwn, Stage
  <2> QED BY <2>5, <2>7, <2>8 DEF CustomInv
<1> QED BY <1>1, <1>2, <1>3, <1>4, <1>5, <1>6, <1>7, <1>8, <1>9, <1>10 DEF CustomNext

\* A call that returns a content returns the child's answer to a request with its own id, and
\* another than its own only after a call with that id was aborted, whatever calls failed or
\* timed out on the same child before it.
THEOREM AnswersAreOwn == CustomSpec => []AnswerIsOwn
<1>1. CustomInv => AnswerIsOwn
  BY DEF CustomInv
<1> QED BY <1>1, CustomInvInit, CustomInvKept, PTL DEF CustomSpec

-----------------------------------------------------------------------------
(***************************************************************************)
(* McpConnections                                                          *)
(***************************************************************************)
Sigs == Signatures \cup {NoSig}
\* Who is about to stop what the hub has, and who works for a server the config wants.
StopStages == {"stop", "restop", "marked"}
WantStages == {"spawn", "restop", "wait", "claim", "connect", "connected"}
Stages == {"idle", "sync", "ensure", "call", "failed", "mark"} \cup StopStages \cup WantStages
ActorType ==
    {x \in [at : Stages, sig : Sigs, call : BOOLEAN, spawn : BOOLEAN] :
        /\ x.at \in WantStages \/ x.spawn => x.sig # NoSig
        /\ x.at = "spawn" => x.spawn}
SpawnType == [at : {"connecting", "connected", "failed", "unwanted", "done"}, sig : Signatures]

McpTypes ==
    /\ mcpConfig \in Sigs /\ connected \in Sigs
    /\ hub \in [sig : Sigs, alive : BOOLEAN]
    /\ actor \in [Actors -> ActorType]
    /\ spawned \in Seq(SpawnType)
    /\ crossed \in BOOLEAN

\* The servers of the connections that are to be stored, and who is about to stop one.
HeldSigs ==
    {s \in Sigs : \/ \E a \in Actors : actor[a].at = "connected" /\ actor[a].sig = s
                  \/ \E c \in DOMAIN spawned : spawned[c].at = "connected" /\ spawned[c].sig = s}
HasUnwanted == \E c \in DOMAIN spawned : spawned[c].at = "unwanted"
HasStopper == \E a \in Actors : actor[a].at \in StopStages

\* A connection to be stored is the hub's; the engine is connected to no server while the
\* hub has none; and what else parts them is on its way, or was left behind.
HubFits ==
    /\ \A s \in HeldSigs : hub.sig = s
    /\ hub.sig = NoSig => connected = NoSig
    /\ \/ hub.sig = connected
       \/ HeldSigs # {} \/ HasUnwanted
       \/ connected = NoSig /\ (hub.sig = forgotten \/ HasStopper)

McpInv == McpTypes /\ (~crossed => HubFits)

-----------------------------------------------------------------------------
(* What a step does to a request or to a background connection *)

LEMMA GoMoves ==
  ASSUME McpTypes, NEW a \in Actors, NEW stage \in Stages, Go(a, stage),
         stage \in WantStages => actor[a].sig # NoSig,
         stage = "spawn" => actor[a].spawn
  PROVE  /\ actor' \in [Actors -> ActorType]
         /\ actor'[a].at = stage /\ actor'[a].sig = actor[a].sig
         /\ \A b \in Actors : b # a => actor'[b] = actor[b]
<1> DEFINE x == [actor[a] EXCEPT !.at = stage]
<1>1. actor \in [Actors -> ActorType] /\ actor[a] \in ActorType
  BY DEF McpTypes
<1>2. x \in ActorType /\ x.at = stage /\ x.sig = actor[a].sig
  BY <1>1 DEF ActorType
<1>3. actor' = [actor EXCEPT ![a] = x]
  BY DEF Go
<1> HIDE DEF x
<1> QED BY <1>1, <1>2, <1>3

LEMMA LeaveMoves ==
  ASSUME McpTypes, NEW a \in Actors, LeaveMcp(a)
  PROVE  /\ actor' \in [Actors -> ActorType]
         /\ actor'[a].at = "idle"
         /\ \A b \in Actors : b # a => actor'[b] = actor[b]
<1>1. actor \in [Actors -> ActorType]
  BY DEF McpTypes
<1>2. IdleActor \in ActorType /\ IdleActor.at = "idle"
  BY DEF IdleActor, ActorType, Sigs, Stages, WantStages
<1>3. actor' = [actor EXCEPT ![a] = IdleActor]
  BY DEF LeaveMcp
<1> QED BY <1>1, <1>2, <1>3

LEMMA AfterSyncMoves ==
  ASSUME McpTypes, NEW a \in Actors, AfterSync(a)
  PROVE  /\ actor' \in [Actors -> ActorType]
         /\ actor'[a].at \in {"ensure", "idle"}
         /\ \A b \in Actors : b # a => actor'[b] = actor[b]
<1> DEFINE y == [actor[a] EXCEPT !.at = "ensure", !.spawn = FALSE]
           x == IF actor[a].call THEN y ELSE IdleActor
<1>1. actor \in [Actors -> ActorType] /\ actor[a] \in ActorType
  BY DEF McpTypes
<1>2. IdleActor \in ActorType /\ IdleActor.at = "idle"
  BY DEF IdleActor, ActorType, Sigs, Stages, WantStages
<1>3. y \in ActorType /\ y.at = "ensure"
  BY <1>1 DEF ActorType, Stages, WantStages
<1>4. actor' = [actor EXCEPT ![a] = x]
  BY DEF AfterSync
<1>5. x \in ActorType /\ x.at \in {"ensure", "idle"}
  BY <1>2, <1>3
<1> HIDE DEF x
<1> QED BY <1>1, <1>4, <1>5

LEMMA SyncMoves ==
  ASSUME McpTypes, NEW a \in Actors, NEW stage \in {"stop", "spawn"}, NEW connect \in BOOLEAN,
         connect => actor[a].sig # NoSig, stage = "spawn" => connect,
         actor' = [actor EXCEPT ![a].at = stage, ![a].spawn = connect]
  PROVE  /\ actor' \in [Actors -> ActorType]
         /\ actor'[a].at = stage
         /\ \A b \in Actors : b # a => actor'[b] = actor[b]
<1> DEFINE x == [actor[a] EXCEPT !.at = stage, !.spawn = connect]
<1>1. actor \in [Actors -> ActorType] /\ actor[a] \in ActorType
  BY DEF McpTypes
<1>2. x \in ActorType /\ x.at = stage
  BY <1>1 DEF ActorType, Stages, WantStages, StopStages
<1>3. actor' = [actor EXCEPT ![a] = x]
  BY <1>1
<1> HIDE DEF x
<1> QED BY <1>1, <1>2, <1>3

\* A background connection that moves on keeps its signature and its place.
LEMMA SpawnedMoves ==
  ASSUME McpTypes, NEW c \in DOMAIN spawned, NEW stage \in {"connected", "failed", "unwanted", "done"},
         spawned' = [spawned EXCEPT ![c].at = stage]
  PROVE  /\ spawned' \in Seq(SpawnType) /\ DOMAIN spawned' = DOMAIN spawned
         /\ spawned'[c].at = stage /\ spawned'[c].sig = spawned[c].sig
         /\ \A d \in DOMAIN spawned : d # c => spawned'[d] = spawned[d]
<1> DEFINE x == [spawned[c] EXCEPT !.at = stage]
<1>1. spawned \in Seq(SpawnType) /\ spawned[c] \in SpawnType
  BY DEF McpTypes
<1>2. x \in SpawnType /\ x.at = stage /\ x.sig = spawned[c].sig
  BY <1>1 DEF SpawnType
<1>3. spawned' = [spawned EXCEPT ![c] = x]
  OBVIOUS
<1> HIDE DEF x
<1>4. /\ spawned' \in Seq(SpawnType) /\ DOMAIN spawned' = DOMAIN spawned
      /\ spawned'[c] = x /\ \A d \in DOMAIN spawned : d # c => spawned'[d] = spawned[d]
  BY <1>1, <1>2, <1>3
<1> QED BY <1>2, <1>4

\* A new one is neither stored nor unwanted.
LEMMA SpawnIsTyped ==
  ASSUME McpTypes, NEW sig \in Signatures, Spawn(sig)
  PROVE  /\ spawned' \in Seq(SpawnType)
         /\ DOMAIN spawned \subseteq DOMAIN spawned'
         /\ \A c \in DOMAIN spawned : spawned'[c] = spawned[c]
         /\ \A c \in DOMAIN spawned' : c \notin DOMAIN spawned => spawned'[c].at = "connecting"
<1> DEFINE x == [at |-> "connecting", sig |-> sig]
<1>1. x \in SpawnType /\ x.at = "connecting"
  BY DEF SpawnType
<1>2. spawned \in Seq(SpawnType) /\ spawned' = Append(spawned, x)
  BY DEF McpTypes, Spawn
<1> HIDE DEF x
<1> QED BY <1>1, <1>2

\* A request that moves neither into nor out of the stage "connected" leaves the connections
\* to be stored as they are, and the others about to stop one.
LEMMA RequestShifts ==
  ASSUME McpTypes, NEW a \in Actors,
         \A b \in Actors : b # a => actor'[b] = actor[b],
         \/ UNCHANGED spawned
         \/ \E sig \in Signatures : Spawn(sig),
         actor[a].at # "connected", actor'[a].at # "connected"
  PROVE  /\ HeldSigs' = HeldSigs /\ (HasUnwanted' <=> HasUnwanted)
         /\ actor[a].at \notin StopStages => (HasStopper => HasStopper')
         /\ actor'[a].at \in StopStages => HasStopper'
<1>1. /\ DOMAIN spawned \subseteq DOMAIN spawned'
      /\ \A c \in DOMAIN spawned : spawned'[c] = spawned[c]
      /\ \A c \in DOMAIN spawned' : c \notin DOMAIN spawned => spawned'[c].at = "connecting"
  BY SpawnIsTyped
<1>2. ASSUME NEW s PROVE
        (\E c \in DOMAIN spawned' : spawned'[c].at = "connected" /\ spawned'[c].sig = s)
          <=> (\E c \in DOMAIN spawned : spawned[c].at = "connected" /\ spawned[c].sig = s)
  BY <1>1
<1>3. ASSUME NEW s PROVE
        (\E b \in Actors : actor'[b].at = "connected" /\ actor'[b].sig = s)
          <=> (\E b \in Actors : actor[b].at = "connected" /\ actor[b].sig = s)
  OBVIOUS
<1>4. HeldSigs' = HeldSigs
  BY <1>2, <1>3 DEF HeldSigs
<1>5. HasUnwanted' <=> HasUnwanted
  BY <1>1 DEF HasUnwanted
<1> QED BY <1>4, <1>5 DEF HasStopper

LEMMA ServersAreTyped ==
  /\ NoServer \in [sig : Sigs, alive : BOOLEAN] /\ NoServer.sig = NoSig /\ NoSig \in Sigs
  /\ \A sig \in Sigs : /\ [sig |-> sig, alive |-> TRUE] \in [sig : Sigs, alive : BOOLEAN]
                       /\ [sig |-> sig, alive |-> TRUE].sig = sig
BY DEF NoServer, Sigs

-----------------------------------------------------------------------------
(* What a step does to the hub and to what the engine believes *)

Looks ==
    /\ hub'.sig = hub.sig /\ UNCHANGED connected /\ UNCHANGED forgotten
    /\ HeldSigs' = HeldSigs /\ (HasUnwanted => HasUnwanted') /\ (HasStopper => HasStopper')
Stops == hub'.sig = NoSig /\ UNCHANGED connected /\ HeldSigs' = HeldSigs
Connects ==
    /\ hub'.sig \in Signatures /\ UNCHANGED connected
    /\ HeldSigs' = HeldSigs \cup {hub'.sig}
Stores == hub'.sig = hub.sig /\ connected' \in HeldSigs /\ HeldSigs' \subseteq HeldSigs
Forgets ==
    /\ hub'.sig = hub.sig /\ connected' = NoSig /\ HeldSigs' = HeldSigs /\ HasStopper'
Leaves ==
    /\ hub'.sig = hub.sig /\ UNCHANGED connected /\ forgotten' = hub.sig
    /\ HeldSigs' = HeldSigs /\ (HasUnwanted => HasUnwanted')
Refuses ==
    /\ hub'.sig = hub.sig /\ UNCHANGED connected
    /\ HeldSigs' \subseteq HeldSigs /\ HasUnwanted'
Effect == Looks \/ Stops \/ Connects \/ Stores \/ Forgets \/ Leaves \/ Refuses

\* Unsettled and Stopping in these terms.
LEMMA UnsettledHolds ==
  ASSUME McpTypes
  PROVE  /\ Unsettled <=> HeldSigs # {}
         /\ Stopping <=> HasStopper \/ HasUnwanted
<1>1. /\ \A a \in Actors : actor[a].sig \in Sigs
      /\ \A c \in DOMAIN spawned : spawned[c].sig \in Sigs
  <2>1. /\ \A a \in Actors : actor[a] \in ActorType
        /\ \A c \in DOMAIN spawned : spawned[c] \in SpawnType
    BY DEF McpTypes
  <2> QED BY <2>1 DEF ActorType, SpawnType, Sigs
<1> QED BY <1>1 DEF Unsettled, Stopping, HeldSigs, HasStopper, HasUnwanted, StopStages

\* None of these breaks the agreement without crossing another.
LEMMA EffectFits ==
  ASSUME McpTypes, HubFits, Effect, ~Crossing
  PROVE  HubFits'
<1>1. ~(hub'.sig # hub.sig /\ (HeldSigs # {} \/ (hub'.sig = NoSig /\ connected # NoSig)))
  BY UnsettledHolds DEF Crossing
<1>2. CASE Looks
  BY <1>2 DEF Looks, HubFits
<1>3. CASE Stops
  <2>1. connected' = NoSig
    BY <1>1, <1>3 DEF Stops, HubFits
  <2>2. \A s \in HeldSigs' : hub'.sig = s
    BY <1>1, <1>3 DEF Stops, HubFits
  <2> QED BY <1>3, <2>1, <2>2 DEF Stops, HubFits
<1>4. CASE Connects
  <2>1. hub'.sig # NoSig
    BY <1>4, McpAssumption DEF Connects
  <2>2. \A s \in HeldSigs' : hub'.sig = s
    BY <1>1, <1>4 DEF Connects, HubFits
  <2> QED BY <1>4, <2>1, <2>2 DEF Connects, HubFits
<1>5. CASE Stores
  BY <1>5 DEF Stores, HubFits
<1>6. CASE Forgets
  BY <1>6 DEF Forgets, HubFits
<1>7. CASE Leaves
  BY <1>7 DEF Leaves, HubFits
<1>8. CASE Refuses
  BY <1>8 DEF Refuses, HubFits
<1> QED BY <1>2, <1>3, <1>4, <1>5, <1>6, <1>7, <1>8 DEF Effect

McpActorTypes ==
    /\ connected' \in Sigs /\ hub' \in [sig : Sigs, alive : BOOLEAN]
    /\ actor' \in [Actors -> ActorType] /\ spawned' \in Seq(SpawnType)

\* The steps of a request.
LEMMA SyncEffect ==
  ASSUME McpTypes, NEW a \in Actors, Sync(a)
  PROVE  McpActorTypes /\ Effect
<1> DEFINE wanted == actor[a].sig
           stop == connected \notin {NoSig, wanted}
           remains == IF stop THEN NoSig ELSE connected
           pending == IF wanted = NoSig THEN NoSig ELSE connecting
           connect == wanted # NoSig /\ remains = NoSig /\ pending = NoSig /\ ~backoff
           stage == IF stop THEN "stop" ELSE "spawn"
<1>1. /\ actor[a].at = "sync" /\ connected' = remains /\ UNCHANGED <<hub, spawned, forgotten>>
      /\ IF stop \/ connect
         THEN actor' = [actor EXCEPT ![a].at = stage, ![a].spawn = connect]
         ELSE AfterSync(a)
  BY Zenon DEF Sync, losses
<1>2. connect \in BOOLEAN /\ (connect => actor[a].sig # NoSig) /\ stage \in {"stop", "spawn"}
  OBVIOUS
<1>3. stop => connected' = NoSig
  BY <1>1
<1>4. ~stop => UNCHANGED connected
  BY <1>1
<1>5. stop => stage = "stop"
  OBVIOUS
<1>6. ~stop => stage = "spawn"
  OBVIOUS
<1> HIDE DEF stop, connect, stage, remains
<1>7. /\ actor' \in [Actors -> ActorType]
      /\ actor'[a].at \in {"stop", "spawn", "ensure", "idle"}
      /\ stop => actor'[a].at = "stop"
      /\ \A b \in Actors : b # a => actor'[b] = actor[b]
  <2>1. CASE stop \/ connect
    BY <1>1, <1>2, <1>5, <1>6, <2>1, SyncMoves
  <2>2. CASE ~(stop \/ connect)
    BY <1>1, <2>2, AfterSyncMoves
  <2> QED BY <2>1, <2>2
<1>8. McpActorTypes
  BY <1>1, <1>3, <1>4, <1>7, ServersAreTyped DEF McpActorTypes, McpTypes
<1>9. /\ HeldSigs' = HeldSigs /\ (HasUnwanted' <=> HasUnwanted)
      /\ HasStopper => HasStopper'
      /\ stop => HasStopper'
  BY <1>1, <1>7, RequestShifts DEF StopStages
<1>10. Effect
  <2>1. stop => Forgets
    BY <1>1, <1>3, <1>9 DEF Forgets
  <2>2. ~stop => Looks
    BY <1>1, <1>4, <1>9 DEF Looks
  <2> QED BY <2>1, <2>2 DEF Effect
<1> QED BY <1>8, <1>10

LEMMA StopEffect ==
  ASSUME McpTypes, NEW a \in Actors, StopOld(a) \/ StopAgain(a) \/ StopMarked(a)
  PROVE  McpActorTypes /\ Effect
<1>1. /\ hub' = NoServer /\ UNCHANGED <<connected, spawned>> /\ actor[a].at \in StopStages
      /\ actor[a] \in ActorType
  BY DEF StopOld, StopAgain, StopMarked, mcpState, StopStages, McpTypes
<1>2. /\ actor' \in [Actors -> ActorType]
      /\ actor'[a].at \in {"spawn", "ensure", "idle", "wait"}
      /\ \A b \in Actors : b # a => actor'[b] = actor[b]
  <2>1. CASE StopOld(a)
    <3>1. CASE actor[a].spawn
      <4>1. Go(a, "spawn") /\ actor[a].sig # NoSig
        BY <1>1, <2>1, <3>1 DEF StopOld, ActorType
      <4> QED BY <3>1, <4>1, GoMoves DEF Stages, WantStages
    <3>2. CASE ~actor[a].spawn
      BY <2>1, <3>2, AfterSyncMoves DEF StopOld
    <3> QED BY <3>1, <3>2
  <2>2. CASE StopAgain(a)
    <3>1. Go(a, "wait") /\ actor[a].sig # NoSig
      BY <1>1, <2>2 DEF StopAgain, ActorType, WantStages
    <3> QED BY <3>1, GoMoves DEF Stages, WantStages
  <2>3. CASE StopMarked(a)
    BY <2>3, LeaveMoves DEF StopMarked
  <2> QED BY <2>1, <2>2, <2>3
<1>3. McpActorTypes
  BY <1>1, <1>2, ServersAreTyped DEF McpActorTypes, McpTypes
<1>4. HeldSigs' = HeldSigs
  BY <1>1, <1>2, RequestShifts DEF StopStages
<1> QED BY <1>1, <1>3, <1>4, ServersAreTyped DEF Effect, Stops

LEMMA SpawnEffect ==
  ASSUME McpTypes, NEW a \in Actors, SpawnNew(a)
  PROVE  McpActorTypes /\ Effect
<1>1. /\ actor[a].at = "spawn" /\ AfterSync(a) /\ Spawn(actor[a].sig)
      /\ UNCHANGED <<connected, hub, forgotten>> /\ actor[a] \in ActorType
  BY DEF SpawnNew, mcpState, losses, McpTypes
<1>2. actor[a].sig \in Signatures
  BY <1>1 DEF ActorType, WantStages, Sigs
<1>3. /\ HeldSigs' = HeldSigs /\ (HasUnwanted' <=> HasUnwanted)
      /\ HasStopper => HasStopper'
  BY <1>1, <1>2, AfterSyncMoves, RequestShifts DEF StopStages
<1>4. McpActorTypes
  BY <1>1, <1>2, AfterSyncMoves, SpawnIsTyped DEF McpActorTypes, McpTypes
<1> QED BY <1>1, <1>3, <1>4 DEF Effect, Looks

\* Looking at the state, announcing a connection, and a call.
LEMMA LookEffect ==
  ASSUME McpTypes, NEW a \in Actors,
         \/ Await(a) \/ Claim(a) \/ CallTool(a)
         \/ Ensure(a) /\ UNCHANGED connected
         \/ \E call \in BOOLEAN : BeginMcp(a, call)
  PROVE  McpActorTypes /\ Effect
<1>1. /\ UNCHANGED <<hub, connected, spawned, forgotten>> /\ actor[a] \in ActorType
      /\ actor[a].at \in {"ensure", "wait", "claim", "call", "idle"}
  BY DEF Ensure, Await, Claim, CallTool, BeginMcp, IdleActor, mcpState, losses, McpTypes
<1>2. /\ actor' \in [Actors -> ActorType]
      /\ actor'[a].at # "connected"
      /\ \A b \in Actors : b # a => actor'[b] = actor[b]
  <2>1. CASE Await(a) \/ Claim(a) \/ CallTool(a) \/ Ensure(a)
    <3>1. \/ LeaveMcp(a)
          \/ \E stage \in {"call", "restop", "wait", "claim", "connect", "mark"} :
                Go(a, stage) /\ (stage \in WantStages => actor[a].sig # NoSig)
      BY <1>1, <2>1 DEF Ensure, Await, Claim, CallTool, ActorType, WantStages
    <3>2. ASSUME NEW stage \in {"call", "restop", "wait", "claim", "connect", "mark"},
                 Go(a, stage), stage \in WantStages => actor[a].sig # NoSig
          PROVE  /\ actor' \in [Actors -> ActorType]
                 /\ actor'[a].at # "connected"
                 /\ \A b \in Actors : b # a => actor'[b] = actor[b]
      BY <3>2, GoMoves DEF Stages, WantStages, StopStages
    <3> QED BY <3>1, <3>2, LeaveMoves
  <2>2. ASSUME NEW call \in BOOLEAN, BeginMcp(a, call)
        PROVE  /\ actor' \in [Actors -> ActorType]
               /\ actor'[a].at # "connected"
               /\ \A b \in Actors : b # a => actor'[b] = actor[b]
    <3> DEFINE x == [at |-> "sync", sig |-> mcpConfig, call |-> call, spawn |-> FALSE]
    <3>1. x \in ActorType /\ x.at = "sync"
      BY DEF McpTypes, ActorType, Stages, WantStages
    <3>2. actor' = [actor EXCEPT ![a] = x] /\ actor \in [Actors -> ActorType]
      BY <2>2 DEF BeginMcp, McpTypes
    <3> HIDE DEF x
    <3> QED BY <3>1, <3>2
  <2> QED BY <2>1, <2>2
<1>3. /\ HeldSigs' = HeldSigs /\ (HasUnwanted' <=> HasUnwanted)
      /\ HasStopper => HasStopper'
  BY <1>1, <1>2, RequestShifts DEF StopStages
<1>4. McpActorTypes
  BY <1>1, <1>2 DEF McpActorTypes, McpTypes
<1> QED BY <1>1, <1>3, <1>4 DEF Effect, Looks

\* Another signature is to be stopped, or the server failed a call.
LEMMA ForgetEffect ==
  ASSUME McpTypes, NEW a \in Actors, MarkDisconnected(a) \/ (Ensure(a) /\ connected' # connected)
  PROVE  McpActorTypes /\ Effect
<1>1. /\ connected' = NoSig /\ UNCHANGED <<hub, spawned>> /\ actor[a] \in ActorType
      /\ actor[a].at \in {"ensure", "mark"}
      /\ \/ Go(a, "marked")
         \/ Go(a, "restop") /\ actor[a].sig # NoSig
  BY DEF MarkDisconnected, Ensure, McpTypes
<1>2. /\ actor' \in [Actors -> ActorType]
      /\ actor'[a].at \in StopStages /\ actor'[a].at # "connected"
      /\ \A b \in Actors : b # a => actor'[b] = actor[b]
  <2>1. CASE Go(a, "marked")
    BY <2>1, GoMoves DEF Stages, WantStages, StopStages
  <2>2. CASE Go(a, "restop") /\ actor[a].sig # NoSig
    BY <2>2, GoMoves DEF Stages, WantStages, StopStages
  <2> QED BY <1>1, <2>1, <2>2
<1>3. HeldSigs' = HeldSigs /\ HasStopper'
  BY <1>1, <1>2, RequestShifts
<1>4. McpActorTypes
  BY <1>1, <1>2, ServersAreTyped DEF McpActorTypes, McpTypes
<1> QED BY <1>1, <1>3, <1>4 DEF Effect, Forgets

LEMMA ConnectEffect ==
  ASSUME McpTypes, NEW a \in Actors, CallConnects(a)
  PROVE  McpActorTypes /\ Effect
<1>1. /\ actor[a].at = "connect" /\ actor[a] \in ActorType /\ UNCHANGED <<connected, spawned, forgotten>>
  BY DEF CallConnects, mcpState, losses, McpTypes
<1>2. actor[a].sig # NoSig /\ actor[a].sig \in Signatures /\ actor[a].sig \in Sigs
  BY <1>1 DEF ActorType, WantStages, Sigs
<1>3. CASE hub' = [sig |-> actor[a].sig, alive |-> TRUE] /\ Go(a, "connected")
  <2>1. /\ actor' \in [Actors -> ActorType]
        /\ actor'[a].at = "connected" /\ actor'[a].sig = actor[a].sig
        /\ \A b \in Actors : b # a => actor'[b] = actor[b]
    BY <1>2, <1>3, GoMoves DEF Stages, WantStages
  <2>2. HeldSigs' = HeldSigs \cup {actor[a].sig}
    BY <1>1, <1>2, <2>1 DEF HeldSigs
  <2>3. McpActorTypes
    BY <1>1, <1>2, <1>3, <2>1, ServersAreTyped DEF McpActorTypes, McpTypes
  <2> QED BY <1>1, <1>2, <1>3, <2>2, <2>3, ServersAreTyped DEF Effect, Connects
<1>4. CASE UNCHANGED hub /\ Go(a, "failed")
  <2>1. /\ actor' \in [Actors -> ActorType]
        /\ actor'[a].at = "failed"
        /\ \A b \in Actors : b # a => actor'[b] = actor[b]
    BY <1>2, <1>4, GoMoves DEF Stages, WantStages
  <2>2. /\ HeldSigs' = HeldSigs /\ (HasUnwanted' <=> HasUnwanted)
        /\ HasStopper => HasStopper'
    BY <1>1, <2>1, RequestShifts DEF StopStages
  <2>3. McpActorTypes
    BY <1>1, <1>4, <2>1 DEF McpActorTypes, McpTypes
  <2> QED BY <1>1, <1>4, <2>2, <2>3 DEF Effect, Looks
<1> QED BY <1>3, <1>4 DEF CallConnects

LEMMA SettleEffect ==
  ASSUME McpTypes, NEW a \in Actors, CallSettles(a)
  PROVE  McpActorTypes /\ Effect
<1>1. /\ actor[a] \in ActorType /\ UNCHANGED <<hub, spawned, forgotten>> /\ actor[a].sig \in Sigs
      /\ actor \in [Actors -> ActorType]
  BY DEF CallSettles, losses, McpTypes, ActorType
<1>2. CASE actor[a].at = "connected"
  <2>1. connected' = actor[a].sig /\ Go(a, "call")
    BY <1>2 DEF CallSettles
  <2>2. /\ actor' \in [Actors -> ActorType]
        /\ actor'[a].at = "call"
        /\ \A b \in Actors : b # a => actor'[b] = actor[b]
    BY <2>1, GoMoves DEF Stages, WantStages, StopStages
  <2>3. actor[a].sig \in HeldSigs /\ HeldSigs' \subseteq HeldSigs
    BY <1>1, <1>2, <2>2 DEF HeldSigs
  <2>4. McpActorTypes
    BY <1>1, <2>1, <2>2 DEF McpActorTypes, McpTypes
  <2> QED BY <1>1, <2>1, <2>3, <2>4 DEF Effect, Stores
<1>3. CASE actor[a].at # "connected"
  <2>1. LeaveMcp(a) /\ UNCHANGED connected /\ actor[a].at = "failed"
    BY <1>3 DEF CallSettles
  <2>2. /\ HeldSigs' = HeldSigs /\ (HasUnwanted' <=> HasUnwanted)
        /\ HasStopper => HasStopper'
    BY <1>1, <2>1, LeaveMoves, RequestShifts DEF StopStages
  <2>3. McpActorTypes
    BY <1>1, <2>1, LeaveMoves DEF McpActorTypes, McpTypes
  <2> QED BY <1>1, <2>1, <2>2, <2>3 DEF Effect, Looks
<1> QED BY <1>2, <1>3

LEMMA DropEffect ==
  ASSUME McpTypes, NEW a \in Actors, DropRequest(a)
  PROVE  McpActorTypes /\ Effect
<1>1. /\ actor[a].at \in {"stop", "spawn"} /\ LeaveMcp(a) /\ UNCHANGED <<hub, connected, spawned>>
      /\ forgotten' = IF actor[a].at = "stop" THEN hub.sig ELSE forgotten
  BY DEF DropRequest, mcpState
<1>2. /\ HeldSigs' = HeldSigs /\ (HasUnwanted' <=> HasUnwanted)
      /\ actor[a].at \notin StopStages => (HasStopper => HasStopper')
  BY <1>1, LeaveMoves, RequestShifts
<1>3. McpActorTypes
  BY <1>1, LeaveMoves DEF McpActorTypes, McpTypes
<1>4. CASE actor[a].at = "stop"
  BY <1>1, <1>2, <1>3, <1>4 DEF Effect, Leaves
<1>5. CASE actor[a].at = "spawn"
  BY <1>1, <1>2, <1>3, <1>5 DEF Effect, Looks, StopStages
<1> QED BY <1>1, <1>4, <1>5

\* The steps of a background connection.
LEMMA BackgroundEffect ==
  ASSUME McpTypes, NEW c \in DOMAIN spawned, BackgroundStep(c)
  PROVE  McpActorTypes /\ Effect
<1>1. /\ spawned[c].sig \in Signatures /\ spawned[c].sig \in Sigs /\ UNCHANGED <<actor, forgotten>>
  <2>1. spawned[c] \in SpawnType
    BY DEF McpTypes
  <2> QED BY <2>1 DEF SpawnType, Sigs, BackgroundStep, BackgroundConnects, BackgroundSettles,
                      BackgroundStops, losses
<1>2. \E stage \in {"connected", "failed", "unwanted", "done"} :
         spawned' = [spawned EXCEPT ![c].at = stage]
  BY DEF BackgroundStep, BackgroundConnects, BackgroundSettles, BackgroundStops
<1>3. PICK stage \in {"connected", "failed", "unwanted", "done"} :
         spawned' = [spawned EXCEPT ![c].at = stage]
  BY <1>2
<1>4. /\ spawned' \in Seq(SpawnType) /\ DOMAIN spawned' = DOMAIN spawned
      /\ spawned'[c].at = stage /\ spawned'[c].sig = spawned[c].sig
      /\ \A d \in DOMAIN spawned : d # c => spawned'[d] = spawned[d]
  BY <1>3, SpawnedMoves
<1>5. HasStopper => HasStopper'
  BY <1>1 DEF HasStopper
<1>6. stage # "connected" => HeldSigs' \subseteq HeldSigs
  BY <1>1, <1>4 DEF HeldSigs
<1>7. spawned[c].at # "connected" /\ stage # "connected" => HeldSigs' = HeldSigs
  BY <1>1, <1>4 DEF HeldSigs
<1>8. spawned[c].at # "unwanted" => (HasUnwanted => HasUnwanted')
  BY <1>4 DEF HasUnwanted
<1>9. CASE BackgroundConnects(c)
  <2>1. spawned[c].at = "connecting" /\ UNCHANGED connected
    BY <1>9 DEF BackgroundConnects, mcpState
  <2>2. CASE hub' = [sig |-> spawned[c].sig, alive |-> TRUE]
             /\ spawned' = [spawned EXCEPT ![c].at = "connected"]
    <3>1. /\ spawned' \in Seq(SpawnType) /\ DOMAIN spawned' = DOMAIN spawned
          /\ spawned'[c].at = "connected" /\ spawned'[c].sig = spawned[c].sig
          /\ \A d \in DOMAIN spawned : d # c => spawned'[d] = spawned[d]
      BY <2>2, SpawnedMoves
    <3>2. HeldSigs' = HeldSigs \cup {spawned[c].sig}
      BY <1>1, <2>1, <3>1 DEF HeldSigs
    <3>3. McpActorTypes
      BY <1>1, <2>1, <2>2, <3>1, ServersAreTyped DEF McpActorTypes, McpTypes
    <3> QED BY <1>1, <2>1, <2>2, <3>2, <3>3, ServersAreTyped DEF Effect, Connects
  <2>3. CASE UNCHANGED hub /\ spawned' = [spawned EXCEPT ![c].at = "failed"]
    <3>1. /\ spawned' \in Seq(SpawnType) /\ DOMAIN spawned' = DOMAIN spawned
          /\ spawned'[c].at = "failed"
          /\ \A d \in DOMAIN spawned : d # c => spawned'[d] = spawned[d]
      BY <2>3, SpawnedMoves
    <3>2. HeldSigs' = HeldSigs
      BY <1>1, <2>1, <3>1 DEF HeldSigs
    <3>3. McpActorTypes
      BY <1>1, <2>1, <2>3, <3>1 DEF McpActorTypes, McpTypes
    <3> QED BY <1>1, <1>5, <1>8, <2>1, <2>3, <3>2, <3>3 DEF Effect, Looks
  <2> QED BY <1>9, <2>2, <2>3 DEF BackgroundConnects
<1>10. CASE BackgroundSettles(c)
  <2>1. UNCHANGED hub /\ spawned[c].at \in {"connected", "failed"}
    BY <1>10 DEF BackgroundSettles
  <2>2. McpActorTypes
    BY <1>1, <1>4, <1>10, <2>1 DEF BackgroundSettles, McpActorTypes, McpTypes
  <2>3. CASE spawned[c].at = "connected" /\ connecting # NoSig
    <3>1. connected' = spawned[c].sig /\ spawned' = [spawned EXCEPT ![c].at = "done"]
      BY <1>10, <2>3 DEF BackgroundSettles
    <3>2. spawned[c].sig \in HeldSigs /\ HeldSigs' \subseteq HeldSigs
      BY <1>1, <2>3, <3>1, SpawnedMoves DEF HeldSigs
    <3> QED BY <2>1, <2>2, <3>1, <3>2 DEF Effect, Stores
  <2>4. CASE spawned[c].at = "connected" /\ connecting = NoSig
    <3>1. UNCHANGED connected /\ spawned' = [spawned EXCEPT ![c].at = "unwanted"]
      BY <1>10, <2>4 DEF BackgroundSettles
    <3>2. HeldSigs' \subseteq HeldSigs /\ HasUnwanted'
      BY <1>1, <3>1, SpawnedMoves DEF HeldSigs, HasUnwanted
    <3> QED BY <2>1, <2>2, <3>1, <3>2 DEF Effect, Refuses
  <2>5. CASE spawned[c].at = "failed"
    <3>1. UNCHANGED connected /\ spawned' = [spawned EXCEPT ![c].at = "done"]
      BY <1>10, <2>5 DEF BackgroundSettles
    <3>2. HeldSigs' = HeldSigs
      BY <1>1, <2>5, <3>1, SpawnedMoves DEF HeldSigs
    <3> QED BY <1>1, <1>5, <1>8, <2>1, <2>2, <2>5, <3>1, <3>2 DEF Effect, Looks
  <2> QED BY <2>1, <2>3, <2>4, <2>5
<1>11. CASE BackgroundStops(c)
  <2>1. /\ hub' = NoServer /\ UNCHANGED connected /\ spawned[c].at = "unwanted"
        /\ spawned' = [spawned EXCEPT ![c].at = "done"]
    BY <1>11 DEF BackgroundStops, mcpState
  <2>2. HeldSigs' = HeldSigs
    BY <1>1, <2>1, SpawnedMoves DEF HeldSigs
  <2>3. McpActorTypes
    BY <1>1, <1>4, <2>1, ServersAreTyped DEF McpActorTypes, McpTypes
  <2> QED BY <2>1, <2>2, <2>3, ServersAreTyped DEF Effect, Stops
<1> QED BY <1>9, <1>10, <1>11 DEF BackgroundStep

\* The config, time and the server process.
LEMMA OutsideEffect ==
  ASSUME McpTypes,
         (\E new \in Signatures \cup {NoSig} : Reconfigure(new)) \/ RetryDue \/ ServerDies
  PROVE  McpActorTypes /\ Effect
<1>1. /\ UNCHANGED <<connected, actor, spawned, forgotten>> /\ hub'.sig = hub.sig
      /\ hub' \in [sig : Sigs, alive : BOOLEAN]
  BY DEF Reconfigure, RetryDue, ServerDies, mcpState, losses, McpTypes
<1>2. /\ HeldSigs' = HeldSigs /\ (HasUnwanted' <=> HasUnwanted) /\ (HasStopper' <=> HasStopper)
  BY <1>1 DEF HeldSigs, HasUnwanted, HasStopper
<1>3. McpActorTypes
  BY <1>1 DEF McpActorTypes, McpTypes
<1> QED BY <1>1, <1>2, <1>3 DEF Effect, Looks

LEMMA McpStepHasEffect ==
  ASSUME McpTypes, McpNext
  PROVE  McpActorTypes /\ Effect /\ mcpConfig' \in Sigs
<1>1. CASE McpEnvironment
  <2>1. McpActorTypes /\ Effect
    BY <1>1, OutsideEffect, DropEffect, LookEffect DEF McpEnvironment
  <2>2. mcpConfig' \in Sigs
    BY <1>1 DEF McpEnvironment, Reconfigure, RetryDue, ServerDies, DropRequest, BeginMcp, McpTypes, Sigs
  <2> QED BY <2>1, <2>2
<1>2. ASSUME NEW a \in Actors, ActorStep(a) PROVE McpActorTypes /\ Effect /\ mcpConfig' \in Sigs
  <2>1. UNCHANGED mcpConfig
    BY <1>2 DEF ActorStep, Sync, StopOld, SpawnNew, Ensure, StopAgain, Await, Claim,
           CallConnects, CallSettles, CallTool, MarkDisconnected, StopMarked
  <2>2. McpActorTypes /\ Effect
    BY <1>2, SyncEffect, StopEffect, SpawnEffect, LookEffect, ForgetEffect, ConnectEffect,
       SettleEffect DEF ActorStep
  <2> QED BY <2>1, <2>2 DEF McpTypes
<1>3. ASSUME NEW c \in DOMAIN spawned, BackgroundStep(c)
      PROVE  McpActorTypes /\ Effect /\ mcpConfig' \in Sigs
  <2>1. UNCHANGED mcpConfig
    BY <1>3 DEF BackgroundStep, BackgroundConnects, BackgroundSettles, BackgroundStops
  <2> QED BY <1>3, <2>1, BackgroundEffect DEF McpTypes
<1> QED BY <1>1, <1>2, <1>3 DEF McpNext, McpActorStep, McpBackgroundStep, Watching

\* Once every connection is stored and every shutdown decided on is done, the server the
\* engine believes in is the hub's, unless one took away what another had just connected, or
\* a dropped request left its server there: for any number of requests, connections, configs
\* and failures, and however they overlap.
THEOREM EngineKnowsTheHub == McpSpec => []StateMatchesHub
<1>1. McpInit => McpInv
  <2> SUFFICES ASSUME McpInit PROVE McpInv
    OBVIOUS
  <2>1. IdleActor \in ActorType /\ IdleActor.at = "idle"
    BY DEF IdleActor, ActorType, Sigs, Stages, WantStages
  <2>2. /\ actor \in [Actors -> ActorType] /\ \A a \in Actors : actor[a].at = "idle"
        /\ spawned \in Seq(SpawnType) /\ DOMAIN spawned = {}
    BY <2>1 DEF McpInit
  <2>3. McpTypes
    BY <2>2, ServersAreTyped DEF McpInit, McpTypes, Sigs
  <2>4. HeldSigs = {} /\ hub.sig = NoSig /\ connected = NoSig
    BY <2>2, ServersAreTyped DEF McpInit, HeldSigs
  <2> QED BY <2>3, <2>4 DEF McpInv, HubFits
<1>2. ASSUME McpInv, [McpNext]_mcpVars PROVE McpInv'
  <2>1. CASE UNCHANGED mcpVars
    BY <1>2, <2>1 DEF mcpVars, mcpState, losses, McpInv, McpTypes, HubFits, HeldSigs, HasUnwanted,
                      HasStopper
  <2>2. CASE McpNext
    <3>1. crossed \in BOOLEAN /\ crossed' = (crossed \/ Crossing)
      BY <1>2, <2>2, Zenon DEF McpInv, McpTypes, McpNext, McpActorStep, McpBackgroundStep, Watching
    <3>2. crossed' \in BOOLEAN /\ (~crossed' => ~crossed /\ ~Crossing)
      BY <3>1, Zenon
    <3>3. McpTypes'
      BY <1>2, <2>2, <3>2, McpStepHasEffect DEF McpInv, McpTypes, McpActorTypes
    <3> QED BY <1>2, <2>2, <3>2, <3>3, McpStepHasEffect, EffectFits DEF McpInv
  <2> QED BY <1>2, <2>1, <2>2
<1>3. McpInv => StateMatchesHub
  BY UnsettledHolds DEF McpInv, HubFits, StateMatchesHub
<1> QED BY <1>1, <1>2, <1>3, PTL DEF McpSpec
-----------------------------------------------------------------------------
(***************************************************************************)
(* Daemon                                                                  *)
(***************************************************************************)
DaemonSpec == DaemonInit /\ [][DaemonNext]_daemonVars

Server == [state : {"starting", "up", "stopping", "gone"}, port : Values,
           token : Values, ws : Workspaces \cup {NoValue}]
Trying == {"candidate", "candidate_required", "candidate_info", "evict", "await", "scan"}
Binding == {"taken", "free", "stop_free", "port", "await", "scan"}
Halting == {"stop_read", "stop_post", "stop_free", "stop_forget"}
Ensuring == {"probe", "refused", "taken", "identify", "required", "info", "rewrite", "replace", "free",
             "clear", "forget", "port", "adopt", "spawn", "record"} \cup Trying
At == {"idle", "read"} \cup Halting \cup Ensuring
Command == [pc : At, kind : {"start", "stop", "restart"}, ws : Workspaces \cup {NoValue},
            prior : Record \cup {NoValue}, token : Values, port : Values, holds : BOOLEAN]

\* A port is held only while it is checked; the ports that are tried can be counted up.
Sound(k) == /\ k.holds => k.pc \in Binding
            /\ k.pc \in Trying /\ setting.port = NoValue => k.port \in Nat

DaemonTypeOK ==
    /\ record \in Record \cup {NoValue, Torn}
    /\ servers \in Seq(Server)
    /\ cmds \in [Commands -> Command] /\ \A c \in Commands : Sound(cmds[c])
    /\ \E s \in Settings : setting = [token |-> s.token, port |-> s.port] /\ foreign = s.foreign
    /\ begun \in Nat

Active(c) == cmds[c].pc # "idle"
Alive == {s \in DOMAIN servers : servers[s].state # "gone"}

\* Once its record is no longer fresh, a server is no longer starting.
Recorded(s) ==
    /\ record \notin {NoValue, Torn}
    /\ record.port = servers[s].port /\ record.token = servers[s].token
    /\ servers[s].state = "starting" => record.age = "new"
Recording(c, s) ==
    cmds[c].pc = "record" /\ cmds[c].port = servers[s].port /\ cmds[c].token = servers[s].token

\* A server is where it can be found without its record, if anything can; a command knows its
\* token, and finds it.
AtItsPort(s) ==
    /\ servers[s].port \notin foreign
    /\ Desired \notin foreign => servers[s].port = Desired
    /\ setting.token # NoValue => servers[s].token = setting.token
Entitled(c) == IF setting.token # NoValue THEN cmds[c].token = setting.token
               ELSE cmds[c].prior # NoValue => cmds[c].token = cmds[c].prior.token
Reaches(c, s) ==
    servers[s].state = "up" /\ servers[s].port = Desired /\ servers[s].token = cmds[c].token

\* Where the record of a server that was late is gone, and where a server was told to stop.
Seeking == {"port", "candidate", "candidate_required", "candidate_info", "adopt", "evict"}
Awaiting == {"free", "stop_free", "await"}

\* What a command that runs alone may count on: on what it read being still there, on finding
\* whatever is left when it looks for a port, on the server it told to stop doing so.
Coherent(c) ==
    /\ cmds[c].pc \in Ensuring => Entitled(c)
    /\ cmds[c].pc \in {"stop_post", "stop_free", "probe", "refused", "taken", "identify", "required", "info",
                       "rewrite", "replace", "free"}
          => record # NoValue /\ cmds[c].prior = record
    /\ cmds[c].pc \in Seeking \cup {"forget"} => \A s \in Alive : Reaches(c, s)
    /\ cmds[c].pc \in Awaiting => \A s \in Alive : servers[s].state = "stopping"
    /\ cmds[c].pc \in {"clear", "stop_forget", "scan", "spawn"} => Alive = {}
    /\ cmds[c].holds => Checked(c) \notin foreign /\ \A s \in Alive : servers[s].state = "starting"
    /\ cmds[c].pc \in (Trying \ {"scan"}) \cup {"adopt"} => cmds[c].port = Desired
    /\ cmds[c].pc \in {"scan", "spawn"} /\ Desired \notin foreign => cmds[c].port = Desired
    /\ cmds[c].pc = "spawn" => cmds[c].port \notin foreign
    /\ cmds[c].pc = "record" => \A s \in Alive : Recording(c, s)

\* Commands come one after another: a server is on record, or about to be, or found anyway.
OneByOne ==
    /\ record # Torn
    /\ \A c, d \in Commands : Active(c) /\ Active(d) => c = d
    /\ \A s, t \in Alive : s = t
    /\ \A s \in Alive : AtItsPort(s)
    /\ \A s \in Alive : \/ Recorded(s)
                        \/ \E c \in Commands : Recording(c, s) \/ cmds[c].pc \in Seeking \cup {"await"}
    /\ \A s \in Alive : servers[s].state = "stopping" => \E c \in Commands : cmds[c].pc \in Awaiting
    /\ \A c \in Commands : Coherent(c)

\* One workspace is opened side by side: every server takes the configured token at the wanted
\* port, so whoever finds the port taken finds the server there.
Wanted(p) == p.port = Desired /\ p.token = setting.token
Opening(c) ==
    /\ cmds[c].pc \in At \ (Halting \cup {"replace", "free", "clear", "evict", "await", "scan"})
    /\ cmds[c].pc # "idle" => cmds[c].kind = "start" /\ cmds[c].ws = Main
    /\ cmds[c].pc \notin {"idle", "read"} => cmds[c].token = setting.token
    /\ cmds[c].pc \in Trying \cup {"adopt", "spawn", "record"} => cmds[c].port = Desired
    /\ cmds[c].pc \in {"probe", "refused", "taken", "identify", "required", "info", "rewrite"} =>
          cmds[c].prior # NoValue /\ Wanted(cmds[c].prior)
    /\ cmds[c].pc \in Trying \cup {"identify", "required", "info"} => Up # {}
SideBySide ==
    /\ record \notin {NoValue, Torn} => Wanted(record)
    /\ \A s \in DOMAIN servers :
          Wanted(servers[s]) /\ servers[s].ws = Main /\ servers[s].state # "stopping"
    /\ \A s, t \in Up : s = t
    /\ \A c \in Commands : Opening(c)

Undisturbed == faults \subseteq Orderly
OnlyOpened == Findable /\ faults \subseteq {"overlapped", "killed", "late"}

DaemonInv == DaemonTypeOK /\ (Undisturbed => OneByOne) /\ (OnlyOpened => SideBySide)

-----------------------------------------------------------------------------
(* Types *)

\* Steps that go on with a command, and that end it.
LEMMA GoesOn ==
  ASSUME DaemonTypeOK, NEW c \in Commands, NEW pc \in At, pc \in Trying => cmds[c].pc \in Trying, Goto(c, pc)
  PROVE  /\ cmds' \in [Commands -> Command] /\ \A d \in Commands : Sound(cmds'[d])
         /\ cmds'[c].pc = pc /\ cmds'[c].kind = cmds[c].kind /\ cmds'[c].ws = cmds[c].ws
         /\ cmds'[c].prior = cmds[c].prior /\ cmds'[c].token = cmds[c].token
         /\ cmds'[c].port = cmds[c].port /\ cmds'[c].holds = FALSE
         /\ \A d \in Commands : d # c => cmds'[d] = cmds[d]
<1>1. cmds \in [Commands -> Command] /\ cmds[c] \in Command /\ \A d \in Commands : Sound(cmds[d])
  BY DEF DaemonTypeOK
<1>2. cmds' = [cmds EXCEPT ![c] = [cmds[c] EXCEPT !.pc = pc, !.holds = FALSE]]
  BY DEF Goto
<1>3. /\ cmds' \in [Commands -> Command]
      /\ cmds'[c].pc = pc /\ cmds'[c].kind = cmds[c].kind /\ cmds'[c].ws = cmds[c].ws
      /\ cmds'[c].prior = cmds[c].prior /\ cmds'[c].token = cmds[c].token
      /\ cmds'[c].port = cmds[c].port /\ cmds'[c].holds = FALSE
      /\ \A d \in Commands : d # c => cmds'[d] = cmds[d]
  BY <1>1, <1>2 DEF Command
<1>4. Sound(cmds'[c])
  BY <1>1, <1>3 DEF Sound
<1> QED BY <1>1, <1>3, <1>4

LEMMA Ends ==
  ASSUME DaemonTypeOK, NEW c \in Commands, End(c)
  PROVE  /\ cmds' \in [Commands -> Command] /\ \A d \in Commands : Sound(cmds'[d])
         /\ cmds'[c].pc = "idle" /\ cmds'[c] = NoCommand /\ cmds'[c].holds = FALSE
         /\ \A d \in Commands : d # c => cmds'[d] = cmds[d]
<1>1. NoCommand \in Command /\ NoCommand.pc = "idle" /\ NoCommand.holds = FALSE
  BY DEF NoCommand, Command, Values, At
<1>2. Sound(NoCommand)
  BY <1>1 DEF Sound, Trying
<1> QED BY <1>1, <1>2 DEF End, DaemonTypeOK

\* A request that is answered in time.
LEMMA AnsweredInTime ==
  ASSUME NEW c, NEW p, NEW found, NEW yes, NEW no, Ask(c, p, found, yes, no), "slow" \notin faults'
  PROVE  (found # {} /\ Goto(c, yes)) \/ (found = {} /\ Goto(c, no))
  BY DEF Ask, Slow

LEMMA StoppedType ==
  ASSUME DaemonTypeOK, NEW S
  PROVE  /\ Stopped(S) \in Seq(Server)
         /\ DOMAIN Stopped(S) = DOMAIN servers
         /\ \A s \in DOMAIN servers :
               Stopped(S)[s] = IF s \in S THEN [servers[s] EXCEPT !.state = "stopping"] ELSE servers[s]
<1>1. servers \in Seq(Server) /\ DOMAIN servers = 1..Len(servers) /\ Len(servers) \in Nat
  BY DEF DaemonTypeOK
<1>2. \A s \in DOMAIN servers : servers[s] \in Server
  BY <1>1
<1>3. \A s \in DOMAIN servers : [servers[s] EXCEPT !.state = "stopping"] \in Server
  BY <1>2 DEF Server
<1>4. \A s \in DOMAIN servers :
         Stopped(S)[s] = IF s \in S THEN [servers[s] EXCEPT !.state = "stopping"] ELSE servers[s]
  BY DEF Stopped
<1>5. Stopped(S) \in [1..Len(servers) -> Server]
  BY <1>1, <1>2, <1>3 DEF Stopped
<1> QED BY <1>1, <1>4, <1>5, IsASeq

LEMMA DaemonTypesInit == DaemonInit => DaemonTypeOK
<1> SUFFICES ASSUME DaemonInit PROVE DaemonTypeOK
  OBVIOUS
<1>1. NoCommand \in Command /\ Sound(NoCommand)
  BY DEF NoCommand, Command, Values, At, Sound, Trying
<1> QED BY <1>1 DEF DaemonInit, DaemonTypeOK

\* What the configured token and port may be, and what a command may be.
LEMMA SettingTypes ==
  ASSUME DaemonTypeOK
  PROVE  /\ setting.token \in Values /\ setting.port \in Values /\ Desired \in Values
         /\ setting.port = NoValue => Desired \in Nat
  BY DEF DaemonTypeOK, Values, Desired

LEMMA CommandTypes ==
  ASSUME DaemonTypeOK, NEW c \in Commands
  PROVE  /\ cmds \in [Commands -> Command] /\ cmds[c] \in Command /\ cmds[c].pc \in At
         /\ cmds[c].prior \in Record \cup {NoValue} /\ cmds[c].token \in Values /\ cmds[c].port \in Values
         /\ cmds[c].ws \in Workspaces \cup {NoValue} /\ cmds[c].kind \in {"start", "stop", "restart"}
         /\ cmds[c].holds \in BOOLEAN /\ Sound(cmds[c]) /\ \A d \in Commands : Sound(cmds[d])
         /\ record \in Record \cup {NoValue, Torn} /\ servers \in Seq(Server) /\ begun \in Nat
  BY DEF DaemonTypeOK, Command

\* A step that puts something else in a command's place.
LEMMA Becomes ==
  ASSUME DaemonTypeOK, NEW c \in Commands, NEW k \in Command, Sound(k), cmds' = [cmds EXCEPT ![c] = k]
  PROVE  /\ cmds' \in [Commands -> Command] /\ \A d \in Commands : Sound(cmds'[d])
         /\ cmds'[c] = k /\ \A d \in Commands : d # c => cmds'[d] = cmds[d]
  BY DEF DaemonTypeOK

\* What is read of the record.
LEMMA ReadableTypes ==
  ASSUME DaemonTypeOK, NEW text \in Readable
  PROVE  /\ text \in Record \cup {NoValue, Torn}
         /\ text = record \/ (text = Torn /\ \E d \in Commands : cmds[d].pc \in RecordWriting)
  BY DEF DaemonTypeOK, Readable

\* What a step of each action makes of the command that takes it.
LEMMA ReadsToStop ==
  ASSUME DaemonTypeOK, NEW c \in Commands, ReadToStop(c)
  PROVE  /\ cmds' \in [Commands -> Command] /\ \A d \in Commands : Sound(cmds'[d])
         /\ \A d \in Commands : d # c => cmds'[d] = cmds[d]
         /\ \/ End(c)
            \/ Goto(c, "read") /\ NoValue \in Readable
            \/ /\ cmds'[c].pc = "stop_post" /\ ~cmds'[c].holds /\ cmds'[c].prior \in Readable \cap Record
<1> USE CommandTypes
<1>1. PICK text \in Readable : CASE text = NoValue -> AfterStop(c)
                                 [] text = Torn -> End(c)
                                 [] OTHER -> cmds' = [cmds EXCEPT ![c].prior = text, ![c].pc = "stop_post"]
  BY DEF ReadToStop
<1>2. text \in Record \cup {NoValue, Torn} /\ cmds[c].pc = "stop_read"
  BY ReadableTypes DEF ReadToStop
<1>3. CASE text \in Record
  <2> DEFINE k == [cmds[c] EXCEPT !.prior = text, !.pc = "stop_post"]
  <2>1. cmds' = [cmds EXCEPT ![c] = k]
    BY <1>1, <1>3, DaemonAssumption
  <2>2. k \in Command /\ k.pc = "stop_post" /\ k.holds = cmds[c].holds /\ k.prior = text
    BY <1>3 DEF Command, At, Halting
  <2>3. ~cmds[c].holds
    BY <1>2 DEF Sound, Binding
  <2>4. Sound(k)
    BY <2>2, <2>3 DEF Sound, Trying
  <2> HIDE DEF k
  <2> QED BY <1>3, <2>1, <2>2, <2>3, <2>4, Becomes
<1>4. CASE text \notin Record
  <2>1. (text = NoValue /\ Goto(c, "read")) \/ End(c)
    BY <1>1, <1>2, <1>4, DaemonAssumption DEF AfterStop
  <2> QED BY <2>1, Ends, GoesOn DEF At, Trying
<1> QED BY <1>3, <1>4

LEMMA ReadsRecord ==
  ASSUME DaemonTypeOK, NEW c \in Commands, ReadRecord(c)
  PROVE  /\ cmds' \in [Commands -> Command] /\ \A d \in Commands : Sound(cmds'[d])
         /\ \A d \in Commands : d # c => cmds'[d] = cmds[d]
         /\ cmds'[c].kind = cmds[c].kind /\ cmds'[c].ws = cmds[c].ws /\ ~cmds'[c].holds
         /\ setting.token # NoValue => cmds'[c].token = setting.token
         /\ setting.token = NoValue /\ cmds'[c].prior # NoValue => cmds'[c].token = cmds'[c].prior.token
         /\ \E text \in Readable :
               /\ cmds'[c].prior = IF text = Torn THEN NoValue ELSE text
               /\ cmds'[c].pc = CASE text = Torn -> "forget" [] text = NoValue -> "port" [] OTHER -> "probe"
<1> USE CommandTypes
<1> DEFINE Prior(text) == IF text = Torn THEN NoValue ELSE text
           Token(text) == IF setting.token # NoValue THEN setting.token
                          ELSE IF Prior(text) # NoValue THEN Prior(text).token ELSE cmds[c].port
           Pc(text) == CASE text = Torn -> "forget" [] text = NoValue -> "port" [] OTHER -> "probe"
<1>0. PICK text \in Readable :
         cmds' = [cmds EXCEPT ![c].prior = Prior(text), ![c].token = Token(text), ![c].pc = Pc(text)]
  BY Zenon DEF ReadRecord
<1>1. cmds' = [cmds EXCEPT ![c] = [cmds[c] EXCEPT !.prior = Prior(text), !.token = Token(text), !.pc = Pc(text)]]
  <2> HIDE DEF Prior, Token, Pc
  <2> QED BY <1>0
<1>2. Prior(text) \in Record \cup {NoValue} /\ Pc(text) \in {"forget", "port", "probe"}
  BY ReadableTypes
<1>3. Token(text) \in Values
  BY <1>2, SettingTypes DEF Record
<1>4. setting.token # NoValue => Token(text) = setting.token
  OBVIOUS
<1>5. setting.token = NoValue /\ Prior(text) # NoValue => Token(text) = Prior(text).token
  OBVIOUS
<1> DEFINE prior == Prior(text)
           token == Token(text)
           pc == Pc(text)
           k == [cmds[c] EXCEPT !.prior = prior, !.token = token, !.pc = pc]
<1>6. /\ cmds' = [cmds EXCEPT ![c] = k] /\ prior \in Record \cup {NoValue} /\ token \in Values
      /\ pc \in {"forget", "port", "probe"}
  BY <1>1, <1>2, <1>3
<1>7. /\ prior = IF text = Torn THEN NoValue ELSE text
      /\ pc = CASE text = Torn -> "forget" [] text = NoValue -> "port" [] OTHER -> "probe"
      /\ setting.token # NoValue => token = setting.token
      /\ setting.token = NoValue /\ prior # NoValue => token = prior.token
  BY <1>4, <1>5
<1> HIDE DEF prior, token, pc, Prior, Token, Pc
<1>8. /\ k \in Command /\ k.prior = prior /\ k.token = token /\ k.pc = pc
      /\ k.kind = cmds[c].kind /\ k.ws = cmds[c].ws /\ k.holds = cmds[c].holds
  BY <1>6 DEF Command, At, Ensuring
<1>9. ~cmds[c].holds
  BY DEF Sound, Binding, ReadRecord
<1>10. Sound(k)
  BY <1>6, <1>8, <1>9 DEF Sound, Trying
<1> HIDE DEF k
<1>11. /\ cmds' \in [Commands -> Command] /\ \A d \in Commands : Sound(cmds'[d])
       /\ cmds'[c] = k /\ \A d \in Commands : d # c => cmds'[d] = cmds[d]
  BY <1>6, <1>8, <1>10, Becomes
<1> QED BY <1>7, <1>8, <1>9, <1>11

LEMMA Begins ==
  ASSUME DaemonTypeOK, NEW c \in Commands, NEW kind \in {"start", "stop", "restart"}, NEW ws \in Workspaces,
         Begin(c, kind, ws)
  PROVE  /\ cmds' \in [Commands -> Command] /\ \A d \in Commands : Sound(cmds'[d])
         /\ \A d \in Commands : d # c => cmds'[d] = cmds[d]
         /\ cmds'[c].pc = (IF kind = "start" THEN "read" ELSE "stop_read") /\ ~cmds'[c].holds
         /\ cmds'[c].kind = kind /\ cmds'[c].ws = ws
<1> USE CommandTypes
<1> DEFINE pc == IF kind = "start" THEN "read" ELSE "stop_read"
           n == begun + 1
           k == [NoCommand EXCEPT !.kind = kind, !.ws = ws, !.port = n, !.pc = pc]
<1>1. begun' = begun + 1
  BY DEF Begin
<1>2. cmds' = [cmds EXCEPT ![c] = [NoCommand EXCEPT !.kind = kind, !.ws = ws, !.port = begun', !.pc = pc]]
  BY DEF Begin
<1>3. cmds' = [cmds EXCEPT ![c] = k]
  BY <1>1, <1>2
<1>4. pc \in {"read", "stop_read"} /\ n \in Values
  BY DEF Values
<1> HIDE DEF n, pc
<1>5. k \in Command /\ k.kind = kind /\ k.ws = ws /\ k.pc = pc /\ ~k.holds
  BY <1>4 DEF NoCommand, Command, At, Halting, Values
<1>6. Sound(k)
  BY <1>4, <1>5 DEF Sound, Trying
<1> HIDE DEF k
<1> QED BY <1>3, <1>5, <1>6, Becomes DEF pc

\* A port is held, or looked for.
LEMMA Holds ==
  ASSUME DaemonTypeOK, NEW c \in Commands, Hold(c)
  PROVE  /\ cmds' \in [Commands -> Command] /\ \A d \in Commands : Sound(cmds'[d])
         /\ \A d \in Commands : d # c => cmds'[d] = cmds[d]
         /\ cmds'[c].pc = cmds[c].pc /\ cmds'[c].prior = cmds[c].prior /\ cmds'[c].port = cmds[c].port
         /\ cmds'[c].token = cmds[c].token /\ cmds'[c].kind = cmds[c].kind /\ cmds'[c].ws = cmds[c].ws
         /\ cmds[c].pc \in Binding
<1> USE CommandTypes
<1> DEFINE k == [cmds[c] EXCEPT !.holds = TRUE]
<1>1. cmds[c].pc \in Binding
  BY DEF Hold, Binding
<1>2. cmds' = [cmds EXCEPT ![c] = k]
  BY DEF Hold
<1>3. /\ k \in Command /\ k.pc = cmds[c].pc /\ k.prior = cmds[c].prior /\ k.port = cmds[c].port
      /\ k.token = cmds[c].token /\ k.kind = cmds[c].kind /\ k.ws = cmds[c].ws
  BY DEF Command
<1>4. Sound(k)
  BY <1>1, <1>3 DEF Sound
<1> HIDE DEF k
<1> QED BY <1>1, <1>2, <1>3, <1>4, Becomes

LEMMA Chooses ==
  ASSUME DaemonTypeOK, NEW c \in Commands, ChoosePort(c)
  PROVE  /\ cmds' \in [Commands -> Command] /\ \A d \in Commands : Sound(cmds'[d])
         /\ \A d \in Commands : d # c => cmds'[d] = cmds[d]
         /\ cmds'[c].port = Desired /\ ~cmds'[c].holds /\ cmds'[c].prior = cmds[c].prior
         /\ cmds'[c].token = cmds[c].token /\ cmds'[c].kind = cmds[c].kind /\ cmds'[c].ws = cmds[c].ws
         /\ \/ cmds[c].holds /\ cmds'[c].pc = "spawn"
            \/ InUse(c) /\ cmds'[c].pc = "candidate" /\ faults' = faults \cup Collided(c)
<1> USE CommandTypes
<1> DEFINE k(pc) == [cmds[c] EXCEPT !.port = Desired, !.pc = pc, !.holds = FALSE]
<1>1. PICK pc \in {"spawn", "candidate"} :
         /\ cmds' = [cmds EXCEPT ![c] = k(pc)]
         /\ \/ cmds[c].holds /\ pc = "spawn"
            \/ InUse(c) /\ pc = "candidate" /\ faults' = faults \cup Collided(c)
  <2>1. CASE cmds[c].holds /\ cmds' = [cmds EXCEPT ![c].port = Desired, ![c].pc = "spawn", ![c].holds = FALSE]
    <3>1. cmds' = [cmds EXCEPT ![c] = k("spawn")]
      BY <2>1
    <3> QED BY <2>1, <3>1
  <2>2. CASE /\ InUse(c) /\ cmds' = [cmds EXCEPT ![c].port = Desired, ![c].pc = "candidate"]
             /\ faults' = faults \cup Collided(c)
    <3>1. cmds[c].holds = FALSE
      BY <2>2 DEF InUse
    <3>2. [cmds[c] EXCEPT !.port = Desired, !.pc = "candidate"] = k("candidate")
      BY <3>1 DEF Command
    <3>3. cmds' = [cmds EXCEPT ![c] = [cmds[c] EXCEPT !.port = Desired, !.pc = "candidate"]]
      BY <2>2
    <3>4. cmds' = [cmds EXCEPT ![c] = k("candidate")]
      BY <3>2, <3>3
    <3> QED BY <2>2, <3>4
  <2> QED BY <2>1, <2>2 DEF ChoosePort
<1>2. /\ k(pc) \in Command /\ k(pc).pc = pc /\ k(pc).port = Desired /\ ~k(pc).holds
      /\ k(pc).prior = cmds[c].prior /\ k(pc).token = cmds[c].token
      /\ k(pc).kind = cmds[c].kind /\ k(pc).ws = cmds[c].ws
  BY SettingTypes DEF Command, At, Ensuring, Trying
<1>3. Sound(k(pc))
  BY <1>2, SettingTypes DEF Sound
<1> HIDE DEF k
<1> QED BY <1>1, <1>2, <1>3, Becomes

LEMMA Scans ==
  ASSUME DaemonTypeOK, NEW c \in Commands, Scan(c)
  PROVE  /\ cmds' \in [Commands -> Command] /\ \A d \in Commands : Sound(cmds'[d])
         /\ \A d \in Commands : d # c => cmds'[d] = cmds[d]
         /\ \/ cmds[c].holds /\ Goto(c, "spawn")
            \/ /\ InUse(c) /\ faults' = faults \cup Collided(c)
               /\ \/ End(c)
                  \/ /\ cmds'[c].pc = "scan" /\ ~cmds'[c].holds
                     /\ cmds'[c].prior = cmds[c].prior /\ cmds'[c].token = cmds[c].token
<1> USE CommandTypes
<1>1. CASE cmds[c].holds /\ Goto(c, "spawn")
  BY <1>1, GoesOn DEF At, Ensuring, Trying
<1>2. CASE InUse(c) /\ End(c) /\ faults' = faults \cup Collided(c)
  BY <1>2, Ends
<1>3. CASE /\ InUse(c) /\ setting.port = NoValue /\ cmds' = [cmds EXCEPT ![c].port = @ + 1]
           /\ faults' = faults \cup Collided(c)
  <2> DEFINE n == cmds[c].port + 1
             k == [cmds[c] EXCEPT !.port = n]
  <2>1. cmds' = [cmds EXCEPT ![c] = k] /\ cmds[c].pc = "scan" /\ ~cmds[c].holds
    BY <1>3 DEF Scan, InUse
  <2>2. cmds[c].port \in Nat
    BY <1>3, <2>1 DEF Sound, Trying
  <2>3. n \in Nat /\ n \in Values
    BY <2>2 DEF Values
  <2> HIDE DEF n
  <2>4. /\ k \in Command /\ k.pc = cmds[c].pc /\ k.port = n /\ k.holds = cmds[c].holds
        /\ k.prior = cmds[c].prior /\ k.token = cmds[c].token
    BY <2>3 DEF Command
  <2>5. Sound(k)
    BY <2>1, <2>3, <2>4 DEF Sound
  <2> HIDE DEF k
  <2> QED BY <1>3, <2>1, <2>4, <2>5, Becomes
<1> QED BY <1>1, <1>2, <1>3 DEF Scan

\* A step whose command only goes on or ends.
LEMMA GoesOnOrEnds ==
  ASSUME DaemonTypeOK, NEW c \in Commands,
         End(c) \/ \E pc \in At : Goto(c, pc) /\ (pc \in Trying => cmds[c].pc \in Trying)
  PROVE  /\ cmds' \in [Commands -> Command] /\ \A d \in Commands : Sound(cmds'[d])
         /\ \A d \in Commands : d # c => cmds'[d] = cmds[d]
  BY Ends, GoesOn

LEMMA Simple ==
  ASSUME DaemonTypeOK, NEW c \in Commands,
         \/ PostStop(c) \/ Probe(c) \/ Refused(c) \/ Taken(c) \/ Identify(c) \/ Rewrite(c) \/ StopRecorded(c)
         \/ AwaitPort(c) \/ Forget(c) \/ Candidate(c) \/ Adopt(c) \/ StopCandidate(c) \/ AwaitCandidate(c)
         \/ SpawnServer(c) \/ WriteRecord(c) \/ Killed(c)
  PROVE  End(c) \/ \E pc \in At : Goto(c, pc) /\ (pc \in Trying => cmds[c].pc \in Trying)
<1> USE DEF At, Halting, Ensuring, Trying
<1>1. CASE PostStop(c) \/ Refused(c) \/ Taken(c) \/ Rewrite(c) \/ StopRecorded(c) \/ AwaitPort(c) \/ Forget(c)
  BY <1>1 DEF PostStop, AfterStop, Refused, Taken, Rewrite, StopRecorded, AwaitPort, Forget
<1>2. CASE Probe(c) \/ Identify(c)
  BY <1>2 DEF Probe, Identify, Ask
<1>3. CASE Candidate(c)
  BY <1>3 DEF Candidate, Ask
<1>4. CASE Adopt(c) \/ StopCandidate(c) \/ AwaitCandidate(c) \/ SpawnServer(c) \/ WriteRecord(c) \/ Killed(c)
  BY <1>4 DEF Adopt, StopCandidate, AwaitCandidate, SpawnServer, WriteRecord, Killed
<1> QED BY <1>1, <1>2, <1>3, <1>4

LEMMA CommandTypesKept ==
  ASSUME DaemonTypeOK, NEW c \in Commands,
         \/ \E kind \in {"start", "stop", "restart"}, ws \in Workspaces : Begin(c, kind, ws)
         \/ CommandStep(c) \/ Killed(c)
  PROVE  DaemonTypeOK' /\ \A d \in Commands : d # c => cmds'[d] = cmds[d]
<1> USE CommandTypes
<1>1. ASSUME UNCHANGED <<setting, foreign>>, record' \in Record \cup {NoValue, Torn},
             servers' \in Seq(Server), begun' \in Nat,
             cmds' \in [Commands -> Command], \A d \in Commands : Sound(cmds'[d])
      PROVE  DaemonTypeOK'
  BY <1>1 DEF DaemonTypeOK, Sound
<1>2. CASE \E kind \in {"start", "stop", "restart"}, ws \in Workspaces : Begin(c, kind, ws)
  <2>1. PICK kind \in {"start", "stop", "restart"}, ws \in Workspaces : Begin(c, kind, ws)
    BY <1>2
  <2>2. UNCHANGED <<record, servers, setting, foreign>> /\ begun' = begun + 1
    BY <2>1 DEF Begin
  <2>3. /\ cmds' \in [Commands -> Command] /\ \A d \in Commands : Sound(cmds'[d])
        /\ \A d \in Commands : d # c => cmds'[d] = cmds[d]
    BY <2>1, Begins
  <2> QED BY <1>1, <2>2, <2>3
<1>3. CASE ReadToStop(c) \/ ReadRecord(c) \/ Hold(c) \/ ChoosePort(c) \/ Scan(c)
  <2>1. UNCHANGED <<record, servers, setting, foreign, begun>>
    BY <1>3 DEF ReadToStop, ReadRecord, Hold, ChoosePort, Scan
  <2>2. /\ cmds' \in [Commands -> Command] /\ \A d \in Commands : Sound(cmds'[d])
        /\ \A d \in Commands : d # c => cmds'[d] = cmds[d]
    BY <1>3, ReadsToStop, ReadsRecord, Holds, Chooses, Scans
  <2> QED BY <1>1, <2>1, <2>2
<1>4. CASE \/ PostStop(c) \/ Probe(c) \/ Refused(c) \/ Taken(c) \/ Identify(c) \/ Rewrite(c) \/ StopRecorded(c)
           \/ AwaitPort(c) \/ Forget(c) \/ Candidate(c) \/ Adopt(c) \/ StopCandidate(c) \/ AwaitCandidate(c)
           \/ SpawnServer(c) \/ WriteRecord(c) \/ Killed(c)
  <2>1. /\ cmds' \in [Commands -> Command] /\ \A d \in Commands : Sound(cmds'[d])
        /\ \A d \in Commands : d # c => cmds'[d] = cmds[d]
    BY <1>4, Simple, GoesOnOrEnds
  <2>2. UNCHANGED <<setting, foreign, begun>>
    BY <1>4 DEF PostStop, Probe, Refused, Taken, Identify, Rewrite, StopRecorded, AwaitPort, Forget, Candidate,
                Adopt, StopCandidate, AwaitCandidate, SpawnServer, WriteRecord, Killed
  <2>3. servers' \in Seq(Server)
    <3>1. CASE SpawnServer(c)
      <4>1. [state |-> "starting", port |-> cmds[c].port, token |-> cmds[c].token, ws |-> cmds[c].ws] \in Server
        BY DEF Server
      <4> QED BY <3>1, <4>1 DEF SpawnServer
    <3>2. CASE PostStop(c) \/ StopRecorded(c) \/ StopCandidate(c)
      BY <3>2, StoppedType DEF PostStop, StopRecorded, StopCandidate, Slow
    <3>3. CASE ~(SpawnServer(c) \/ PostStop(c) \/ StopRecorded(c) \/ StopCandidate(c))
      BY <1>4, <3>3 DEF Probe, Refused, Taken, Identify, Rewrite, AwaitPort, Forget, Candidate, Adopt,
                        AwaitCandidate, WriteRecord, Killed
    <3> QED BY <3>1, <3>2, <3>3
  <2>4. record' \in Record \cup {NoValue, Torn}
    <3>1. CASE Adopt(c) \/ WriteRecord(c)
      <4>1. \A age \in {"unknown", "new"} :
               [port |-> cmds[c].port, token |-> cmds[c].token, age |-> age] \in Record
        BY DEF Record
      <4> QED BY <3>1, <4>1 DEF Adopt, WriteRecord
    <3>2. CASE ~(Adopt(c) \/ WriteRecord(c))
      BY <1>4, <3>2 DEF PostStop, Probe, Refused, Taken, Identify, Rewrite, StopRecorded, AwaitPort, Forget,
                        Candidate, StopCandidate, AwaitCandidate, SpawnServer, Killed
    <3> QED BY <3>1, <3>2
  <2> QED BY <1>1, <2>1, <2>2, <2>3, <2>4
<1> QED BY <1>2, <1>3, <1>4 DEF CommandStep

LEMMA ServerTypesKept ==
  ASSUME DaemonTypeOK, GracePasses \/ \E s \in DOMAIN servers : Bind(s) \/ ServerEnds(s)
  PROVE  DaemonTypeOK'
<1>1. servers \in Seq(Server) /\ \A s \in DOMAIN servers : servers[s] \in Server
  BY DEF DaemonTypeOK
<1>2. CASE GracePasses
  <2>1. record \in Record
    BY <1>2 DEF DaemonTypeOK, GracePasses
  <2>2. [record EXCEPT !.age = "old"] \in Record
    BY <2>1 DEF Record
  <2> QED BY <1>2, <2>2 DEF GracePasses, DaemonTypeOK, Sound
<1>3. ASSUME NEW s \in DOMAIN servers, Bind(s) \/ ServerEnds(s)
      PROVE  DaemonTypeOK'
  <2>1. PICK x \in {"up", "gone"} : servers' = [servers EXCEPT ![s] = [servers[s] EXCEPT !.state = x]]
    BY <1>3 DEF Bind, ServerEnds
  <2>2. [servers[s] EXCEPT !.state = x] \in Server
    BY <1>1, <2>1 DEF Server
  <2>3. servers' \in Seq(Server)
    BY <1>1, <2>1, <2>2
  <2> QED BY <1>3, <2>3 DEF Bind, ServerEnds, DaemonTypeOK, Sound
<1> QED BY <1>2, <1>3

-----------------------------------------------------------------------------
(* One command after another *)

LEMMA AliveServers ==
  ASSUME DaemonTypeOK
  PROVE  /\ servers \in Seq(Server) /\ DOMAIN servers = 1..Len(servers)
         /\ \A s \in DOMAIN servers : servers[s] \in Server
         /\ Alive \subseteq DOMAIN servers /\ Up \subseteq Alive
         /\ \A p, token : Serving(p, token) \subseteq Up /\ Listening(p) \subseteq Up
  BY DEF DaemonTypeOK, Alive, Up, Serving, Listening

\* Nothing is undone of what disturbed the commands.
LEMMA FaultsStay ==
  ASSUME DaemonNext
  PROVE  faults \subseteq faults' /\ UNCHANGED <<setting, foreign>>
<1>1. ASSUME NEW c, NEW p, NEW found, NEW yes, NEW no, Ask(c, p, found, yes, no) PROVE faults \subseteq faults'
  BY <1>1 DEF Ask, Slow
<1>2. ASSUME NEW c, CommandStep(c) PROVE faults \subseteq faults' /\ UNCHANGED <<setting, foreign>>
  <2>1. CASE Hold(c) \/ ReadToStop(c) \/ ReadRecord(c) \/ Rewrite(c) \/ Forget(c) \/ Adopt(c) \/ SpawnServer(c) \/ WriteRecord(c)
    BY <2>1 DEF Hold, ReadToStop, ReadRecord, Rewrite, Forget, Adopt, SpawnServer, WriteRecord
  <2>2. CASE Probe(c) \/ Identify(c) \/ Candidate(c)
    BY <1>1, <2>2 DEF Probe, Identify, Candidate
  <2>3. CASE PostStop(c) \/ Refused(c) \/ Taken(c) \/ StopRecorded(c) \/ AwaitPort(c)
    BY <2>3 DEF PostStop, Refused, Taken, StopRecorded, AwaitPort, Slow
  <2>4. CASE ChoosePort(c) \/ StopCandidate(c) \/ AwaitCandidate(c) \/ Scan(c)
    BY <2>4 DEF ChoosePort, StopCandidate, AwaitCandidate, Scan, Slow
  <2> QED BY <1>2, <2>1, <2>2, <2>3, <2>4 DEF CommandStep
<1>3. ASSUME NEW c, Killed(c) \/ \E kind \in {"start", "stop", "restart"}, ws \in Workspaces : Begin(c, kind, ws)
      PROVE  faults \subseteq faults' /\ UNCHANGED <<setting, foreign>>
  BY <1>3 DEF Killed, Begin
<1>4. ASSUME GracePasses \/ \E s \in DOMAIN servers : Bind(s) \/ ServerEnds(s)
      PROVE  faults \subseteq faults' /\ UNCHANGED <<setting, foreign>>
  BY <1>4 DEF GracePasses, Bind, ServerEnds
<1> QED BY <1>2, <1>3, <1>4 DEF DaemonNext

\* What rules out a command that is killed, waits too long or begins beside another.
LEMMA UndisturbedIs ==
  ASSUME Undisturbed'
  PROVE  /\ "slow" \notin faults' /\ "killed" \notin faults' /\ "overlapped" \notin faults'
         /\ "collided" \notin faults'
         /\ "late" \in faults' => Desired' \notin foreign'
  BY DEF Undisturbed, Orderly

\* The only command there is: the others are idle, and what is alive is recorded unless it
\* is about to be, or sought without its record.
LEMMA OnlyCommand ==
  ASSUME DaemonTypeOK, OneByOne, NEW c \in Commands, Active(c)
  PROVE  /\ \A d \in Commands : d # c => cmds[d].pc = "idle" /\ ~cmds[d].holds
         /\ cmds[c].pc \notin Seeking \cup {"await", "record"} => \A s \in Alive : Recorded(s)
         /\ cmds[c].pc \notin Awaiting => \A s \in Alive : servers[s].state # "stopping"
         /\ Coherent(c) /\ record # Torn
<1>1. \A d \in Commands : d # c => cmds[d].pc = "idle" /\ ~cmds[d].holds
  BY CommandTypes DEF OneByOne, Active, Sound, Binding
<1>2. ASSUME cmds[c].pc \notin Seeking \cup {"await", "record"}, NEW s \in Alive PROVE Recorded(s)
  <2>1. \A d \in Commands : ~Recording(d, s) /\ cmds[d].pc \notin Seeking \cup {"await"}
    BY <1>1, <1>2 DEF Recording, Seeking
  <2> QED BY <2>1 DEF OneByOne
<1>3. ASSUME cmds[c].pc \notin Awaiting, NEW s \in Alive PROVE servers[s].state # "stopping"
  BY <1>1, <1>3 DEF OneByOne, Awaiting
<1> QED BY <1>1, <1>2, <1>3 DEF OneByOne

\* A port the only command finds in use is taken by a server or another program.
LEMMA UsedByOthers ==
  ASSUME DaemonTypeOK, OneByOne, NEW c \in Commands, Active(c), InUse(c)
  PROVE  Occupied(Checked(c)) /\ ~cmds[c].holds
  BY OnlyCommand DEF InUse, PortFree, Held

\* A step of the only command that leaves the servers.
LEMMA OnlyCommandSteps ==
  ASSUME DaemonTypeOK, OneByOne, NEW c \in Commands,
         \A d \in Commands : d # c => cmds[d].pc = "idle" /\ cmds'[d] = cmds[d],
         UNCHANGED <<servers, setting, foreign>>, record' # Torn, Coherent(c)',
         \A s \in Alive : Recorded(s)' \/ Recording(c, s)' \/ cmds'[c].pc \in Seeking \cup {"await"},
         cmds'[c].pc \in Awaiting \/ \A s \in Alive : servers[s].state # "stopping"
  PROVE  OneByOne'
<1>1. Alive' = Alive /\ Desired' = Desired
  BY DEF Alive, Desired
<1>2. \A d \in Commands : d # c => cmds'[d].pc = "idle" /\ ~cmds'[d].holds
  BY CommandTypes DEF Sound, Binding
<1>3. \A d \in Commands : d # c => Coherent(d)'
  BY <1>2 DEF Coherent, Ensuring, Trying, Seeking, Awaiting
<1>4. \A d, e \in Commands : Active(d)' /\ Active(e)' => d = e
  BY <1>2 DEF Active
<1>5. \A s \in Alive' : \/ Recorded(s)'
                        \/ \E d \in Commands : Recording(d, s)' \/ cmds'[d].pc \in Seeking \cup {"await"}
  BY <1>1
<1>6. \A s \in Alive' : servers'[s].state = "stopping" => \E d \in Commands : cmds'[d].pc \in Awaiting
  BY <1>1
<1>7. \A s, t \in Alive' : s = t
  BY <1>1 DEF OneByOne
<1>8. \A s \in Alive' : AtItsPort(s)'
  BY <1>1 DEF OneByOne, AtItsPort
<1>9. \A d \in Commands : Coherent(d)'
  BY <1>3
<1> QED BY <1>4, <1>5, <1>6, <1>7, <1>8, <1>9 DEF OneByOne

\* A command that ends, or goes where nothing is asked of it, and leaves all servers recorded.
LEMMA OnlyCommandMoves ==
  ASSUME DaemonTypeOK, OneByOne, NEW c \in Commands, Active(c), cmds[c].pc \notin Awaiting,
         UNCHANGED <<servers, setting, foreign>>, \A d \in Commands : d # c => cmds'[d] = cmds[d],
         record' # Torn, Coherent(c)',
         (\A s \in Alive : Recorded(s)') \/ cmds'[c].pc \in Seeking
  PROVE  OneByOne'
  BY OnlyCommand, OnlyCommandSteps

\* What ends is coherent.
LEMMA EndIsCoherent ==
  ASSUME DaemonTypeOK, NEW c \in Commands, End(c)
  PROVE  Coherent(c)' /\ \A d \in Commands : d # c => cmds'[d] = cmds[d]
<1>1. cmds'[c].pc = "idle" /\ ~cmds'[c].holds /\ \A d \in Commands : d # c => cmds'[d] = cmds[d]
  BY Ends
<1> QED BY <1>1 DEF Coherent, Ensuring, Trying, Seeking, Awaiting

\* The only command tells the one server to stop.
LEMMA OnlyCommandStops ==
  ASSUME DaemonTypeOK, OneByOne, NEW c \in Commands, Active(c), NEW p, NEW token,
         Serving(p, token) # {}, servers' = Stopped(Serving(p, token)),
         NEW pc \in Awaiting, Goto(c, pc), UNCHANGED <<record, setting, foreign>>,
         \/ pc # "await" /\ cmds[c].pc \in {"stop_post", "replace"}
         \/ pc = "await" /\ cmds[c].pc = "evict",
         pc = "free" => cmds[c].pc = "replace"
  PROVE  OneByOne'
<1> DEFINE found == Serving(p, token)
<1>1. /\ \A d \in Commands : d # c => cmds[d].pc = "idle" /\ ~cmds[d].holds
      /\ Coherent(c) /\ (pc # "await" => \A s \in Alive : Recorded(s))
  BY OnlyCommand DEF Seeking
<1>2. pc \in At /\ (pc \in Trying => cmds[c].pc \in Trying)
  BY DEF At, Ensuring, Halting, Awaiting, Trying
<1>3. /\ \A d \in Commands : d # c => cmds'[d] = cmds[d]
      /\ cmds'[c].pc = pc /\ cmds'[c].prior = cmds[c].prior /\ cmds'[c].port = cmds[c].port
      /\ cmds'[c].token = cmds[c].token /\ ~cmds'[c].holds
  BY <1>2, GoesOn
<1>4. /\ DOMAIN servers' = DOMAIN servers /\ found \subseteq Alive
      /\ \A s \in DOMAIN servers : servers[s] \in Server
                /\ servers'[s] = IF s \in found THEN [servers[s] EXCEPT !.state = "stopping"] ELSE servers[s]
  BY AliveServers, StoppedType
<1>5. \A s \in Alive : s \in found
  BY <1>4 DEF OneByOne
<1>6. \A s \in DOMAIN servers : /\ servers'[s].port = servers[s].port
                                /\ servers'[s].token = servers[s].token
                                /\ s \in found => servers'[s].state = "stopping"
                                /\ s \notin found => servers'[s].state = servers[s].state
  BY <1>4 DEF Server
<1>7. Alive' = Alive /\ Alive \subseteq DOMAIN servers /\ \A s \in Alive' : servers'[s].state = "stopping"
  BY <1>4, <1>5, <1>6 DEF Alive
<1>8. Desired' = Desired
  BY DEF Desired
<1>9. Coherent(c)'
  <2>1. Entitled(c) => Entitled(c)'
    BY <1>3 DEF Entitled
  <2>2. pc \in Ensuring => Entitled(c)'
    <3>1. pc \in Ensuring => cmds[c].pc \in {"replace", "evict"}
      BY DEF Ensuring, Trying, Awaiting
    <3> QED BY <1>1, <2>1, <3>1 DEF Coherent, Ensuring, Trying
  <2>3. pc # "await" => record' # NoValue /\ cmds'[c].prior = record'
    BY <1>1, <1>3 DEF Coherent
  <2>4. pc = "await" => cmds'[c].port = Desired'
    BY <1>1, <1>3, <1>8 DEF Coherent, Trying
  <2> QED BY <1>3, <1>7, <2>2, <2>3, <2>4 DEF Coherent, Seeking, Trying, Awaiting
<1>10. pc # "await" => \A s \in Alive' : Recorded(s)'
  <2> SUFFICES ASSUME NEW s \in Alive, pc # "await" PROVE Recorded(s)'
    BY <1>7
  <2>1. /\ servers'[s].port = servers[s].port /\ servers'[s].token = servers[s].token
        /\ servers'[s].state = "stopping" /\ Recorded(s)
    BY <1>1, <1>6, <1>7
  <2> QED BY <2>1 DEF Recorded
<1>11. \A d \in Commands : d # c => Coherent(d)'
  BY <1>1, <1>3 DEF Coherent, Ensuring, Trying, Seeking, Awaiting
<1>12. \A d, e \in Commands : Active(d)' /\ Active(e)' => d = e
  BY <1>1, <1>3 DEF Active
<1>13. \A s \in Alive' : AtItsPort(s)'
  <2>1. \A s \in Alive : servers'[s].port = servers[s].port /\ servers'[s].token = servers[s].token
    BY <1>6, <1>7
  <2> QED BY <1>7, <1>8, <2>1 DEF OneByOne, AtItsPort
<1>14. record' # Torn /\ (\A s, t \in Alive' : s = t)
  BY <1>7 DEF OneByOne
<1>15. \A s \in Alive' : \/ Recorded(s)'
                         \/ \E d \in Commands : Recording(d, s)' \/ cmds'[d].pc \in Seeking \cup {"await"}
  BY <1>3, <1>10
<1>16. \A d \in Commands : Coherent(d)'
  BY <1>9, <1>11
<1> QED BY <1>3, <1>12, <1>13, <1>14, <1>15, <1>16 DEF OneByOne

\* A recorded server that is up answers to its record.
LEMMA RecordedAnswers ==
  ASSUME DaemonTypeOK, NEW s \in Alive, Recorded(s), servers[s].state = "up"
  PROVE  s \in Listening(record.port) /\ s \in Serving(record.port, record.token)
  BY DEF DaemonTypeOK, Recorded, Alive, Listening, Serving

\* What is alive and neither up nor stopping is starting.
LEMMA OrStarting ==
  ASSUME DaemonTypeOK, NEW s \in Alive, servers[s].state \notin {"up", "stopping"}
  PROVE  servers[s].state = "starting"
  BY AliveServers DEF Alive, Server

LEMMA OneByOneKeptBegin ==
  ASSUME DaemonTypeOK, OneByOne, NEW c \in Commands, NEW kind \in {"start", "stop", "restart"},
         NEW ws \in Workspaces, Begin(c, kind, ws), Undisturbed'
  PROVE  OneByOne'
<1>1. \A d \in Commands : cmds[d].pc = "idle"
  BY UndisturbedIs DEF Begin
<1>2. \A s \in Alive : Recorded(s) /\ servers[s].state # "stopping"
  BY <1>1 DEF OneByOne, Recording, Seeking, Awaiting
<1>3. UNCHANGED <<record, servers, setting, foreign>> /\ \A d \in Commands : d # c => cmds'[d] = cmds[d]
  BY Begins DEF Begin
<1>4. cmds'[c].pc \in {"read", "stop_read"} /\ ~cmds'[c].holds
  BY Begins
<1>5. Coherent(c)'
  BY <1>4 DEF Coherent, Ensuring, Trying, Seeking, Awaiting
<1>6. \A s \in Alive : Recorded(s)'
  BY <1>2, <1>3 DEF Recorded
<1>7. record' # Torn
  BY <1>3 DEF OneByOne
<1> QED BY <1>1, <1>2, <1>3, <1>5, <1>6, <1>7, OnlyCommandSteps

\* A command that goes on, or ends, with the servers and the record as they were.
LEMMA OnlyCommandAsks ==
  ASSUME DaemonTypeOK, OneByOne, NEW c \in Commands, Active(c), cmds[c].pc \notin Awaiting,
         UNCHANGED <<record, servers, setting, foreign>>,
         \/ End(c) /\ (cmds[c].pc \notin Seeking \cup {"record"} \/ Alive = {})
         \/ \E pc \in At :
               /\ Goto(c, pc) /\ pc \notin Awaiting /\ (pc \in Trying => cmds[c].pc \in Trying)
               /\ pc # "record"
               /\ pc \in Seeking \/ cmds[c].pc \notin Seeking \cup {"record"} \/ Alive = {}
               /\ pc \in Ensuring => cmds[c].pc \in Ensuring
               /\ pc \in {"stop_post", "stop_free", "probe", "refused", "taken", "identify", "required", "info",
                          "rewrite", "replace", "free"} => record # NoValue /\ cmds[c].prior = record
               /\ pc \in Seeking \cup {"forget"} => \A s \in Alive : Reaches(c, s)
               /\ pc \in {"clear", "stop_forget", "scan", "spawn"} => Alive = {}
               /\ pc \in (Trying \ {"scan"}) \cup {"adopt"} => cmds[c].port = Desired
               /\ pc \in {"scan", "spawn"} /\ Desired \notin foreign => cmds[c].port = Desired
               /\ pc = "spawn" => cmds[c].port \notin foreign
  PROVE  OneByOne'
<1>1. /\ cmds[c].pc \notin Seeking \cup {"await", "record"} => \A s \in Alive : Recorded(s)
      /\ Coherent(c) /\ record # Torn
  BY OnlyCommand
<1>2. Alive' = Alive /\ Desired' = Desired
  BY DEF Alive, Desired
<1>3. \A s \in Alive : Recorded(s) => Recorded(s)'
  BY DEF Recorded
<1>4. CASE End(c) /\ (cmds[c].pc \notin Seeking \cup {"record"} \/ Alive = {})
  <2>1. \A s \in Alive : Recorded(s)'
    BY <1>1, <1>3, <1>4 DEF Awaiting
  <2> QED BY <1>1, <1>4, <2>1, EndIsCoherent, OnlyCommandMoves
<1>5. ASSUME NEW pc \in At,
             /\ Goto(c, pc) /\ pc \notin Awaiting /\ (pc \in Trying => cmds[c].pc \in Trying)
             /\ pc # "record"
             /\ pc \in Seeking \/ cmds[c].pc \notin Seeking \cup {"record"} \/ Alive = {}
             /\ pc \in Ensuring => cmds[c].pc \in Ensuring
             /\ pc \in {"stop_post", "stop_free", "probe", "refused", "taken", "identify", "required", "info",
                        "rewrite", "replace", "free"} => record # NoValue /\ cmds[c].prior = record
             /\ pc \in Seeking \cup {"forget"} => \A s \in Alive : Reaches(c, s)
             /\ pc \in {"clear", "stop_forget", "scan", "spawn"} => Alive = {}
             /\ pc \in (Trying \ {"scan"}) \cup {"adopt"} => cmds[c].port = Desired
             /\ pc \in {"scan", "spawn"} /\ Desired \notin foreign => cmds[c].port = Desired
             /\ pc = "spawn" => cmds[c].port \notin foreign
      PROVE  OneByOne'
  <2>1. /\ cmds'[c].pc = pc /\ cmds'[c].prior = cmds[c].prior /\ cmds'[c].port = cmds[c].port
        /\ cmds'[c].token = cmds[c].token /\ ~cmds'[c].holds
        /\ \A d \in Commands : d # c => cmds'[d] = cmds[d]
    BY <1>5, GoesOn
  <2>2. pc \in Ensuring => Entitled(c)'
    BY <1>1, <1>5, <2>1 DEF Coherent, Entitled
  <2>3. pc \in Seeking \cup {"forget"} => \A s \in Alive' : Reaches(c, s)'
    BY <1>2, <1>5, <2>1 DEF Reaches
  <2>4. Coherent(c)'
    BY <1>2, <1>5, <2>1, <2>2, <2>3 DEF Coherent
  <2>5. (\A s \in Alive : Recorded(s)') \/ pc \in Seeking
    BY <1>1, <1>3, <1>5 DEF Awaiting
  <2> QED BY <1>1, <2>1, <2>4, <2>5, OnlyCommandMoves
<1> QED BY <1>4, <1>5

\* A command binds the port it checks: no server holds that.
LEMMA OneByOneKeptHold ==
  ASSUME DaemonTypeOK, OneByOne, NEW c \in Commands, Hold(c)
  PROVE  OneByOne'
<1>1. /\ \A d \in Commands : d # c => cmds'[d] = cmds[d]
      /\ cmds'[c].pc = cmds[c].pc /\ cmds'[c].prior = cmds[c].prior /\ cmds'[c].port = cmds[c].port
      /\ cmds'[c].token = cmds[c].token /\ cmds[c].pc \in Binding
  BY Holds
<1>2. Active(c) /\ UNCHANGED <<record, servers, setting, foreign>> /\ PortFree(Checked(c))
  BY <1>1 DEF Active, Binding, Hold
<1>3. /\ \A d \in Commands : d # c => cmds[d].pc = "idle"
      /\ cmds[c].pc \notin Seeking \cup {"await", "record"} => \A s \in Alive : Recorded(s)
      /\ cmds[c].pc \notin Awaiting => \A s \in Alive : servers[s].state # "stopping"
      /\ Coherent(c) /\ record # Torn
  BY <1>2, OnlyCommand
<1>4. Alive' = Alive /\ Desired' = Desired /\ Checked(c)' = Checked(c)
  BY <1>1, <1>2 DEF Alive, Desired, Checked
<1>5. Checked(c) \notin foreign
  BY <1>2 DEF PortFree, Occupied
<1>6. ASSUME NEW s \in Alive PROVE servers[s].state = "starting"
  <2>1. servers[s].port = Checked(c)
    <3>1. CASE cmds[c].pc \in {"taken", "free", "stop_free"}
      BY <1>3, <3>1 DEF Coherent, Recorded, Checked, Seeking
    <3>2. CASE cmds[c].pc = "port"
      BY <1>3, <3>2 DEF Coherent, Reaches, Checked, Seeking
    <3>3. CASE cmds[c].pc = "await"
      <4>1. cmds[c].port = Desired /\ Checked(c) = Desired
        BY <1>3, <3>3 DEF Coherent, Checked, Trying
      <4> QED BY <1>5, <4>1 DEF OneByOne, AtItsPort
    <3>4. CASE cmds[c].pc = "scan"
      BY <1>3, <3>4 DEF Coherent
    <3> QED BY <1>1, <3>1, <3>2, <3>3, <3>4 DEF Binding
  <2>2. servers[s].state \notin {"up", "stopping"}
    BY <1>2, <2>1, AliveServers DEF PortFree, Occupied
  <2> QED BY <2>2, OrStarting
<1>7. Coherent(c)'
  <2>1. cmds'[c].pc \in Ensuring => Entitled(c)'
    BY <1>1, <1>2, <1>3 DEF Coherent, Entitled
  <2>2. cmds'[c].pc \in Seeking \cup {"forget"} => \A s \in Alive' : Reaches(c, s)'
    BY <1>1, <1>2, <1>3, <1>4 DEF Coherent, Reaches
  <2>3. cmds'[c].pc = "record" => \A s \in Alive' : Recording(c, s)'
    BY <1>1 DEF Binding
  <2>4. Checked(c)' \notin foreign' /\ \A s \in Alive' : servers'[s].state = "starting"
    BY <1>2, <1>4, <1>5, <1>6
  <2> QED BY <1>1, <1>2, <1>3, <1>4, <2>1, <2>2, <2>3, <2>4 DEF Coherent
<1>8. \A s \in Alive : Recorded(s)' \/ cmds'[c].pc \in Seeking \cup {"await"}
  BY <1>1, <1>2, <1>3 DEF Recorded, Binding
<1> QED BY <1>1, <1>2, <1>3, <1>7, <1>8, OnlyCommandSteps

\* Commands that read the record and ask the recorded server.
LEMMA OneByOneKeptReading ==
  ASSUME DaemonTypeOK, OneByOne, NEW c \in Commands, Undisturbed',
         ReadToStop(c) \/ ReadRecord(c) \/ Probe(c) \/ Refused(c) \/ Taken(c) \/ Identify(c) \/ Rewrite(c)
  PROVE  OneByOne'
<1>1. /\ Active(c) /\ cmds[c].pc \notin Seeking \cup Awaiting \cup {"record"}
      /\ UNCHANGED <<servers, setting, foreign>>
  BY DEF ReadToStop, ReadRecord, Probe, Refused, Taken, Identify, Rewrite, Active, Seeking, Awaiting
<1>2. /\ \A s \in Alive : Recorded(s) /\ servers[s].state # "stopping"
      /\ \A d \in Commands : d # c => cmds[d].pc = "idle"
      /\ Coherent(c) /\ record # Torn
  BY <1>1, OnlyCommand DEF Awaiting
<1>3. record \in Record \cup {NoValue} /\ NoValue # Torn
  BY <1>2, DaemonAssumption, CommandTypes
<1>4. cmds[c].pc \in {"read", "stop_read"} => Readable = {record}
  BY <1>2 DEF Readable, RecordWriting
<1>5. record = NoValue => Alive = {}
  BY <1>2 DEF Recorded
<1>6. Alive' = Alive /\ Desired' = Desired
  BY <1>1 DEF Alive, Desired
<1>7. CASE ReadToStop(c)
  <2>0. cmds[c].pc = "stop_read" /\ record' = record
    BY <1>7 DEF ReadToStop
  <2>1. CASE End(c) \/ Goto(c, "read")
    BY <1>1, <2>0, <2>1, OnlyCommandAsks DEF At, Ensuring, Trying, Seeking, Awaiting
  <2>2. CASE cmds'[c].pc = "stop_post" /\ ~cmds'[c].holds /\ cmds'[c].prior \in Readable \cap Record
    <3>1. cmds'[c].prior = record /\ record # NoValue
      BY <1>4, <2>0, <2>2, DaemonAssumption
    <3>2. Coherent(c)'
      BY <2>0, <2>2, <3>1 DEF Coherent, Ensuring, Trying, Seeking, Awaiting
    <3>3. \A s \in Alive : Recorded(s)'
      BY <1>1, <1>2, <2>0 DEF Recorded
    <3> QED BY <1>1, <1>2, <1>7, <2>0, <3>2, <3>3, ReadsToStop, OnlyCommandMoves
  <2> QED BY <1>7, <2>1, <2>2, ReadsToStop
<1>8. CASE ReadRecord(c)
  <2>1. cmds[c].pc = "read" /\ record' = record
    BY <1>8 DEF ReadRecord
  <2>2. /\ \A d \in Commands : d # c => cmds'[d] = cmds[d]
        /\ cmds'[c].prior = record /\ cmds'[c].pc = (IF record = NoValue THEN "port" ELSE "probe")
        /\ ~cmds'[c].holds
        /\ setting.token # NoValue => cmds'[c].token = setting.token
        /\ setting.token = NoValue /\ cmds'[c].prior # NoValue => cmds'[c].token = cmds'[c].prior.token
    BY <1>2, <1>3, <1>4, <1>8, <2>1, ReadsRecord
  <2>3. Entitled(c)'
    BY <1>1, <2>2 DEF Entitled
  <2>4. Coherent(c)'
    BY <1>5, <1>6, <2>1, <2>2, <2>3 DEF Coherent, Ensuring, Trying, Seeking, Awaiting
  <2>5. \A s \in Alive : Recorded(s)'
    BY <1>1, <1>2, <2>1 DEF Recorded
  <2> QED BY <1>1, <1>2, <2>1, <2>2, <2>4, <2>5, OnlyCommandMoves
<1>9. CASE Probe(c) \/ Identify(c)
  <2>1. UNCHANGED record /\ cmds[c].pc \in {"probe", "identify", "required", "info"}
    BY <1>9 DEF Probe, Identify
  <2>2. record # NoValue /\ cmds[c].prior = record
    BY <1>2, <2>1 DEF Coherent
  <2>3. \E pc \in {"identify", "refused", "required", "info", "rewrite", "replace"} : Goto(c, pc)
    BY <1>9 DEF Probe, Identify, Ask
  <2> QED BY <1>1, <2>1, <2>2, <2>3, OnlyCommandAsks DEF At, Ensuring, Trying, Seeking, Awaiting
<1>10. CASE Refused(c) \/ Taken(c)
  <2>1. /\ UNCHANGED record /\ cmds[c].pc \in {"refused", "taken"} /\ "slow" \notin faults'
        /\ "collided" \notin faults' /\ ("late" \in faults' => Desired \notin foreign)
    BY <1>1, <1>6, <1>10, UndisturbedIs DEF Refused, Taken
  <2>2. record # NoValue /\ cmds[c].prior = record /\ Entitled(c)
    BY <1>2, <2>1 DEF Coherent, Ensuring
  <2>3. ASSUME Goto(c, "forget"), faults' \in {faults \cup Late(c), faults \cup Late(c) \cup Collided(c)},
               \A s \in Alive : servers[s].state = "up"
        PROVE  OneByOne'
    <3>1. ASSUME NEW s \in Alive PROVE Reaches(c, s)
      <4>1. s \in Serving(record.port, record.token)
        BY <1>2, <2>3, RecordedAnswers
      <4>2. Desired \notin foreign
        BY <2>1, <2>2, <2>3, <4>1 DEF Late
      <4>3. servers[s].port = Desired /\ (setting.token # NoValue => servers[s].token = setting.token)
        BY <4>2 DEF OneByOne, AtItsPort
      <4>4. record.token = servers[s].token
        BY <1>2 DEF Recorded
      <4> QED BY <2>2, <2>3, <4>3, <4>4 DEF Reaches, Entitled
    <3> QED BY <1>1, <2>1, <2>3, <3>1, OnlyCommandAsks DEF At, Ensuring, Trying, Seeking, Awaiting
  <2>4. ASSUME NEW s \in Alive, servers[s].state = "up" PROVE \A t \in Alive : servers[t].state = "up"
    BY <2>4 DEF OneByOne
  <2>5. CASE Refused(c)
    <3>1. CASE Listening(record.port) # {} /\ Goto(c, "forget") /\ faults' = faults \cup Late(c)
      <4>1. \E s \in Alive : servers[s].state = "up"
        BY <3>1 DEF Listening, Alive
      <4> QED BY <2>3, <2>4, <3>1, <4>1
    <3>2. CASE Goto(c, "taken")
      BY <1>1, <2>1, <2>2, <3>2, OnlyCommandAsks DEF At, Ensuring, Trying, Seeking, Awaiting
    <3> QED BY <2>1, <2>2, <2>5, <3>1, <3>2 DEF Refused, Slow
  <2>6. CASE Taken(c)
    <3>1. CASE InUse(c) /\ Goto(c, "forget") /\ faults' = faults \cup Late(c) \cup Collided(c)
      <4>1. Occupied(record.port)
        BY <1>1, <2>2, <2>6, <3>1, UsedByOthers DEF Checked, Taken
      <4>2. ASSUME NEW s \in Alive PROVE servers[s].state = "up"
        <5>1. record.port \notin foreign
          BY <1>2 DEF OneByOne, Recorded, AtItsPort
        <5>2. PICK t \in DOMAIN servers : servers[t].state \in {"up", "stopping"}
          BY <4>1, <5>1 DEF Occupied
        <5>3. t \in Alive
          BY <5>2 DEF Alive
        <5>4. t = s /\ servers[t].state # "stopping"
          BY <1>2, <5>3 DEF OneByOne
        <5> QED BY <5>2, <5>4
      <4> QED BY <2>3, <3>1, <4>2
    <3>2. CASE cmds[c].holds /\ IF record.age = "new" THEN End(c) ELSE Goto(c, "port")
      <4>1. \A s \in Alive : servers[s].state = "starting"
        BY <1>2, <3>2 DEF Coherent
      <4>2. record.age # "new" => Alive = {}
        BY <1>2, <4>1 DEF Recorded
      <4> QED BY <1>1, <2>1, <3>2, <4>2, OnlyCommandAsks DEF At, Ensuring, Trying, Seeking, Awaiting
    <3> QED BY <2>2, <2>6, <3>1, <3>2 DEF Taken
  <2> QED BY <1>10, <2>5, <2>6
<1>11. CASE Rewrite(c)
  <2>1. record' = record /\ End(c)
    BY <1>2, <1>11 DEF Rewrite, Coherent
  <2> QED BY <1>1, <2>1, OnlyCommandAsks
<1> QED BY <1>7, <1>8, <1>9, <1>10, <1>11

\* Commands that tell a server to stop, wait for it and forget it.
LEMMA OneByOneKeptStopping ==
  ASSUME DaemonTypeOK, OneByOne, NEW c \in Commands, Undisturbed',
         PostStop(c) \/ StopRecorded(c) \/ AwaitPort(c) \/ Forget(c)
  PROVE  OneByOne'
<1>1. Active(c) /\ cmds[c].pc \notin Seeking \cup {"await", "record"} /\ UNCHANGED <<setting, foreign>>
  BY DEF PostStop, StopRecorded, AwaitPort, Forget, Active, Seeking
<1>2. /\ \A s \in Alive : Recorded(s)
      /\ cmds[c].pc \notin Awaiting => \A s \in Alive : servers[s].state # "stopping"
      /\ \A d \in Commands : d # c => cmds[d].pc = "idle"
      /\ Coherent(c) /\ record # Torn /\ NoValue # Torn
  BY <1>1, OnlyCommand, DaemonAssumption
<1>3. "slow" \notin faults'
  BY UndisturbedIs
<1>4. CASE PostStop(c)
  <2> DEFINE found == Serving(record.port, record.token)
  <2>1. /\ record # NoValue /\ cmds[c].prior = record /\ cmds[c].pc = "stop_post" /\ UNCHANGED record
    BY <1>2, <1>4 DEF PostStop, Coherent
  <2>2. CASE found # {} /\ servers' = Stopped(found) /\ Goto(c, "stop_free")
    BY <1>1, <2>1, <2>2, OnlyCommandStops DEF Awaiting
  <2>3. CASE UNCHANGED servers /\ (End(c) \/ Goto(c, "read"))
    BY <1>1, <2>1, <2>3, OnlyCommandAsks DEF At, Ensuring, Trying, Seeking, Awaiting
  <2>4. CASE Listening(record.port) = {} /\ UNCHANGED servers /\ record.age # "new" /\ Goto(c, "stop_forget")
    <3>1. Alive = {}
      <4> SUFFICES ASSUME NEW s \in Alive PROVE FALSE
        OBVIOUS
      <4>1. servers[s].state \notin {"up", "stopping"} /\ Recorded(s)
        BY <1>2, <2>1, <2>4, RecordedAnswers DEF Awaiting
      <4>2. servers[s].state = "starting"
        BY <4>1, OrStarting
      <4> QED BY <2>4, <4>1, <4>2 DEF Recorded
    <3> QED BY <1>1, <2>1, <2>4, <3>1, OnlyCommandAsks DEF At, Ensuring, Halting, Trying, Seeking, Awaiting
  <2> QED BY <1>3, <1>4, <2>1, <2>2, <2>3, <2>4 DEF PostStop, AfterStop, Slow
<1>5. CASE StopRecorded(c)
  <2> DEFINE found == Serving(record.port, record.token)
  <2>1. record # NoValue /\ cmds[c].prior = record /\ cmds[c].pc = "replace" /\ UNCHANGED record
    BY <1>2, <1>5 DEF StopRecorded, Coherent
  <2>2. CASE found # {} /\ servers' = Stopped(found) /\ Goto(c, "free")
    BY <1>1, <2>1, <2>2, OnlyCommandStops DEF Awaiting
  <2>3. CASE End(c) /\ UNCHANGED servers
    BY <1>1, <2>1, <2>3, OnlyCommandAsks DEF Awaiting
  <2> QED BY <1>3, <1>5, <2>1, <2>2, <2>3 DEF StopRecorded, Slow
<1>6. CASE AwaitPort(c)
  <2>1. /\ cmds[c].pc \in {"free", "stop_free"} /\ UNCHANGED <<record, servers>> /\ cmds[c].holds
        /\ \E pc \in {"clear", "stop_forget"} : Goto(c, pc) /\ (pc = "clear" => cmds[c].pc = "free")
    BY <1>3, <1>6 DEF AwaitPort
  <2>2. Alive = {}
    BY <1>2, <2>1 DEF Coherent, Awaiting
  <2>3. Alive' = {}
    BY <2>1, <2>2 DEF Alive
  <2>4. PICK pc \in {"clear", "stop_forget"} : Goto(c, pc) /\ (pc = "clear" => cmds[c].pc = "free")
    BY <2>1
  <2>5. /\ cmds'[c].pc = pc /\ cmds'[c].prior = cmds[c].prior /\ cmds'[c].token = cmds[c].token
        /\ ~cmds'[c].holds /\ \A d \in Commands : d # c => cmds'[d] = cmds[d]
    BY <2>4, GoesOn DEF At, Halting, Ensuring, Trying
  <2>6. pc \in Ensuring => Entitled(c)'
    BY <1>1, <1>2, <2>4, <2>5 DEF Coherent, Entitled, Ensuring, Trying
  <2>7. Coherent(c)'
    BY <2>3, <2>5, <2>6 DEF Coherent, Trying, Seeking, Awaiting
  <2> QED BY <1>1, <1>2, <2>1, <2>2, <2>5, <2>7, OnlyCommandSteps
<1>7. CASE Forget(c)
  <2>1. cmds[c].pc \in {"clear", "forget", "stop_forget"} /\ record' = NoValue /\ UNCHANGED servers
    BY <1>7 DEF Forget
  <2>2. cmds[c].pc # "forget" => Alive = {}
    BY <1>2, <2>1 DEF Coherent
  <2>3. Alive' = Alive /\ Desired' = Desired
    BY <1>1, <2>1 DEF Alive, Desired
  <2>4. CASE (End(c) \/ Goto(c, "read")) /\ cmds[c].pc = "stop_forget"
    <3>1. cmds'[c].pc \in {"idle", "read"} /\ ~cmds'[c].holds /\ \A d \in Commands : d # c => cmds'[d] = cmds[d]
      BY <2>4, Ends, GoesOn DEF At, Trying
    <3>2. Coherent(c)'
      BY <3>1 DEF Coherent, Ensuring, Trying, Seeking, Awaiting
    <3> QED BY <1>1, <1>2, <2>1, <2>2, <2>4, <3>1, <3>2, OnlyCommandMoves DEF Awaiting
  <2>5. ASSUME NEW pc \in {"forget", "port"}, Goto(c, pc), cmds[c].pc \in {"clear", "forget"},
               pc = "forget" => cmds[c].pc = "clear"
        PROVE  OneByOne'
    <3>1. /\ cmds'[c].pc = pc /\ cmds'[c].prior = cmds[c].prior /\ cmds'[c].token = cmds[c].token
          /\ ~cmds'[c].holds /\ \A d \in Commands : d # c => cmds'[d] = cmds[d]
      BY <2>5, GoesOn DEF At, Ensuring, Trying
    <3>2. Entitled(c)'
      BY <1>1, <1>2, <2>5, <3>1 DEF Coherent, Entitled, Ensuring
    <3>3. \A s \in Alive : Reaches(c, s)
      BY <1>2, <2>2, <2>5 DEF Coherent
    <3>4. \A s \in Alive' : Reaches(c, s)'
      BY <2>1, <2>3, <3>1, <3>3 DEF Reaches
    <3>5. Coherent(c)'
      BY <3>1, <3>2, <3>4 DEF Coherent, Trying, Seeking, Awaiting
    <3>6. (\A s \in Alive : Recorded(s)') \/ cmds'[c].pc \in Seeking
      BY <2>2, <2>5, <3>1 DEF Seeking
    <3> QED BY <1>1, <1>2, <2>1, <2>5, <3>1, <3>5, <3>6, OnlyCommandMoves DEF Awaiting
  <2> QED BY <1>7, <2>4, <2>5 DEF Forget, AfterStop
<1> QED BY <1>4, <1>5, <1>6, <1>7

\* Commands that look for a port and start a server.
LEMMA OneByOneKeptStarting ==
  ASSUME DaemonTypeOK, OneByOne, NEW c \in Commands, Undisturbed',
         \/ ChoosePort(c) \/ Candidate(c) \/ Adopt(c) \/ StopCandidate(c) \/ AwaitCandidate(c)
         \/ Scan(c) \/ SpawnServer(c) \/ WriteRecord(c)
  PROVE  OneByOne'
<1>1. Active(c) /\ UNCHANGED <<setting, foreign>>
  BY DEF ChoosePort, Candidate, Adopt, StopCandidate, AwaitCandidate, Scan, SpawnServer, WriteRecord, Active
<1>2. /\ \A d \in Commands : d # c => cmds[d].pc = "idle"
      /\ cmds[c].pc \notin Awaiting => \A s \in Alive : servers[s].state # "stopping"
      /\ Coherent(c) /\ record # Torn /\ NoValue # Torn
  BY <1>1, OnlyCommand, DaemonAssumption
<1>3. "slow" \notin faults' /\ "collided" \notin faults'
  BY UndisturbedIs
<1>4. CASE ChoosePort(c)
  <2>1. cmds[c].pc = "port" /\ UNCHANGED <<servers, record>>
    BY <1>4 DEF ChoosePort
  <2>2. /\ \A d \in Commands : d # c => cmds'[d] = cmds[d]
        /\ cmds'[c].port = Desired /\ ~cmds'[c].holds /\ cmds'[c].prior = cmds[c].prior
        /\ cmds'[c].token = cmds[c].token
        /\ (cmds[c].holds /\ cmds'[c].pc = "spawn") \/ cmds'[c].pc = "candidate"
    BY <1>4, Chooses
  <2>3. Alive' = Alive /\ Desired' = Desired
    BY <1>1, <2>1 DEF Alive, Desired
  <2>4. /\ Entitled(c) /\ \A s \in Alive : Reaches(c, s)
        /\ cmds[c].holds => Desired \notin foreign /\ \A s \in Alive : servers[s].state = "starting"
    BY <1>2, <2>1 DEF Coherent, Ensuring, Seeking, Checked
  <2>5. cmds[c].holds => Alive = {} /\ Desired \notin foreign
    BY <2>4 DEF Reaches
  <2>6. Entitled(c)' /\ \A s \in Alive' : Reaches(c, s)'
    BY <1>1, <2>1, <2>2, <2>3, <2>4 DEF Entitled, Reaches
  <2>7. Coherent(c)'
    BY <1>1, <2>2, <2>3, <2>5, <2>6 DEF Coherent, Trying, Seeking, Awaiting
  <2> QED BY <1>1, <1>2, <2>1, <2>2, <2>5, <2>7, OnlyCommandMoves DEF Seeking, Awaiting
<1>5. CASE Candidate(c)
  <2>1. /\ cmds[c].pc \in {"candidate", "candidate_required", "candidate_info"}
        /\ UNCHANGED <<servers, record>>
    BY <1>5 DEF Candidate
  <2>2. cmds[c].port = Desired /\ \A s \in Alive : Reaches(c, s)
    BY <1>2, <2>1 DEF Coherent, Trying, Seeking
  <2>3. Serving(cmds[c].port, cmds[c].token) = {} => Alive = {}
    BY <2>2 DEF Serving, Listening, Alive, Reaches
  <2>4. \E pc \in {"candidate_required", "candidate_info", "adopt", "evict", "scan"} :
           /\ Goto(c, pc) /\ (pc = "scan" => Alive = {})
           /\ pc = "adopt" \/ pc \in Trying
    BY <1>3, <1>5, <2>3, AnsweredInTime DEF Candidate, Trying
  <2>5. PICK pc \in {"candidate_required", "candidate_info", "adopt", "evict", "scan"} :
           Goto(c, pc) /\ (pc = "scan" => Alive = {})
    BY <2>4
  <2>6. pc \in At /\ pc \notin Awaiting /\ cmds[c].pc \in Trying /\ cmds[c].pc \in Ensuring /\ cmds[c].pc \notin Awaiting
    BY <2>1 DEF At, Ensuring, Trying, Awaiting
  <2>7. pc = "scan" \/ pc \in Seeking
    BY DEF Seeking
  <2> QED BY <1>1, <2>1, <2>2, <2>5, <2>6, <2>7, OnlyCommandAsks
<1>6. CASE Adopt(c)
  <2>1. /\ record' = [port |-> cmds[c].port, token |-> cmds[c].token, age |-> "unknown"]
        /\ End(c) /\ UNCHANGED servers /\ cmds[c].pc = "adopt"
    BY <1>6 DEF Adopt
  <2>2. record' \in Record
    BY <2>1, CommandTypes DEF Record
  <2>3. record' \notin {NoValue, Torn}
    BY <2>2, DaemonAssumption
  <2>4. cmds[c].port = Desired /\ \A s \in Alive : Reaches(c, s)
    BY <1>2, <2>1 DEF Coherent, Seeking
  <2>5. \A s \in Alive : Recorded(s)'
    BY <2>1, <2>3, <2>4 DEF Recorded, Reaches
  <2> QED BY <1>1, <2>1, <2>3, <2>5, EndIsCoherent, OnlyCommandMoves DEF Awaiting
<1>7. CASE StopCandidate(c)
  <2> DEFINE found == Serving(cmds[c].port, cmds[c].token)
  <2>1. cmds[c].pc = "evict" /\ UNCHANGED record
    BY <1>7 DEF StopCandidate
  <2>2. cmds[c].port = Desired /\ \A s \in Alive : Reaches(c, s)
    BY <1>2, <2>1 DEF Coherent, Trying, Seeking
  <2>3. found = {} => Alive = {}
    BY <2>2 DEF Serving, Listening, Alive, Reaches
  <2>4. CASE found # {} /\ servers' = Stopped(found) /\ Goto(c, "await")
    BY <1>1, <2>1, <2>4, OnlyCommandStops DEF Awaiting
  <2>5. CASE found = {} /\ UNCHANGED servers /\ (End(c) \/ Goto(c, "scan"))
    BY <1>1, <2>1, <2>2, <2>3, <2>5, OnlyCommandAsks DEF At, Ensuring, Trying, Seeking, Awaiting
  <2> QED BY <1>3, <1>7, <2>4, <2>5 DEF StopCandidate, Slow
<1>8. CASE AwaitCandidate(c)
  <2>1. cmds[c].pc = "await" /\ UNCHANGED <<record, servers>> /\ cmds[c].holds /\ Goto(c, "scan")
    BY <1>3, <1>8 DEF AwaitCandidate
  <2>2. Alive = {} /\ cmds[c].port = Desired /\ Entitled(c)
    BY <1>2, <2>1 DEF Coherent, Awaiting, Trying, Ensuring
  <2>3. Alive' = {} /\ Desired' = Desired
    BY <1>1, <2>1, <2>2 DEF Alive, Desired
  <2>4. /\ cmds'[c].pc = "scan" /\ cmds'[c].prior = cmds[c].prior /\ cmds'[c].token = cmds[c].token
        /\ cmds'[c].port = cmds[c].port
        /\ ~cmds'[c].holds /\ \A d \in Commands : d # c => cmds'[d] = cmds[d]
    BY <2>1, GoesOn DEF At, Ensuring, Trying
  <2>5. Entitled(c)'
    BY <1>1, <2>2, <2>4 DEF Entitled
  <2>6. Coherent(c)'
    BY <2>2, <2>3, <2>4, <2>5 DEF Coherent, Seeking, Awaiting
  <2> QED BY <1>1, <1>2, <2>1, <2>2, <2>4, <2>6, OnlyCommandSteps
<1>9. CASE Scan(c)
  <2>1. cmds[c].pc = "scan" /\ UNCHANGED <<record, servers>>
    BY <1>9 DEF Scan
  <2>2. Alive = {} /\ Entitled(c) /\ (Desired \notin foreign => cmds[c].port = Desired)
    BY <1>2, <2>1 DEF Coherent, Trying, Ensuring
  <2>3. CASE cmds[c].holds /\ Goto(c, "spawn")
    <3>1. cmds[c].port \notin foreign
      BY <1>2, <2>1, <2>3 DEF Coherent, Checked
    <3> QED BY <1>1, <2>1, <2>2, <2>3, <3>1, OnlyCommandAsks DEF At, Ensuring, Trying, Seeking, Awaiting
  <2>4. CASE End(c)
    BY <1>1, <2>1, <2>2, <2>4, OnlyCommandAsks DEF Awaiting
  <2>5. CASE /\ InUse(c) /\ cmds'[c].pc = "scan" /\ ~cmds'[c].holds
             /\ cmds'[c].prior = cmds[c].prior /\ cmds'[c].token = cmds[c].token
    <3>1. Occupied(cmds[c].port)
      BY <1>1, <2>1, <2>5, UsedByOthers DEF Checked
    <3>2. cmds[c].port \in foreign
      BY <2>2, <3>1 DEF Occupied, Alive
    <3>3. Desired \in foreign
      BY <2>2, <3>2
    <3>4. Alive' = {} /\ Desired' \in foreign'
      BY <1>1, <2>1, <2>2, <3>3 DEF Alive, Desired
    <3>5. Entitled(c)'
      BY <1>1, <2>2, <2>5 DEF Entitled
    <3>6. Coherent(c)'
      BY <2>5, <3>4, <3>5 DEF Coherent, Seeking, Awaiting
    <3> QED BY <1>1, <1>2, <1>9, <2>1, <2>2, <3>6, Scans, OnlyCommandMoves DEF Awaiting
  <2> QED BY <1>9, <2>3, <2>4, <2>5, Scans
<1>10. CASE SpawnServer(c)
  <2> DEFINE new == [state |-> "starting", port |-> cmds[c].port,
                     token |-> cmds[c].token, ws |-> cmds[c].ws]
             n == Len(servers) + 1
  <2>1. /\ Alive = {} /\ cmds[c].port \notin foreign /\ record' = record /\ Entitled(c)
        /\ Desired \notin foreign => cmds[c].port = Desired
    BY <1>2, <1>10 DEF SpawnServer, Coherent, Ensuring
  <2>2. /\ cmds'[c].pc = "record" /\ cmds'[c].port = cmds[c].port /\ cmds'[c].token = cmds[c].token
        /\ cmds'[c].prior = cmds[c].prior /\ ~cmds'[c].holds
        /\ \A d \in Commands : d # c => cmds'[d] = cmds[d]
    BY <1>10, GoesOn DEF SpawnServer, At, Ensuring, Trying
  <2>3. servers' = Append(servers, new)
    BY <1>10 DEF SpawnServer
  <2>4. /\ DOMAIN servers' = 1..n /\ servers'[n] = new
        /\ \A s \in DOMAIN servers : servers'[s] = servers[s]
        /\ DOMAIN servers = 1..Len(servers) /\ Len(servers) \in Nat
    BY <2>3, AliveServers
  <2>5. \A s \in Alive' : s = n
    BY <2>1, <2>4 DEF Alive
  <2>6. Desired' = Desired /\ (setting.token # NoValue => cmds[c].token = setting.token)
    BY <1>1, <2>1 DEF Desired, Entitled
  <2>7. \A s \in Alive' : Recording(c, s)' /\ AtItsPort(s)' /\ servers'[s].state # "stopping"
    <3>1. servers'[n].port = cmds[c].port /\ servers'[n].token = cmds[c].token /\ servers'[n].state = "starting"
      BY <2>4
    <3> QED BY <1>1, <2>1, <2>2, <2>5, <2>6, <3>1 DEF Recording, AtItsPort
  <2>8. Coherent(c)'
    <3>1. Entitled(c)'
      BY <1>1, <2>1, <2>2 DEF Entitled
    <3> QED BY <2>2, <2>7, <3>1 DEF Coherent, Trying, Seeking, Awaiting
  <2>9. \A d \in Commands : d # c => Coherent(d)'
    <3>1. \A d \in Commands : d # c => cmds'[d].pc = "idle" /\ ~cmds'[d].holds
      BY <1>1, <2>2, OnlyCommand
    <3> QED BY <3>1 DEF Coherent, Ensuring, Trying, Seeking, Awaiting
  <2>10. \A d, e \in Commands : Active(d)' /\ Active(e)' => d = e
    BY <1>2, <2>2 DEF Active
  <2>11. \A d \in Commands : Coherent(d)'
    BY <2>8, <2>9
  <2> QED BY <1>2, <2>1, <2>5, <2>7, <2>10, <2>11 DEF OneByOne
<1>11. CASE WriteRecord(c)
  <2>1. /\ record' = [port |-> cmds[c].port, token |-> cmds[c].token, age |-> "new"]
        /\ End(c) /\ UNCHANGED servers /\ cmds[c].pc = "record"
    BY <1>11 DEF WriteRecord
  <2>2. record' \in Record
    BY <2>1, CommandTypes DEF Record
  <2>3. record' \notin {NoValue, Torn}
    BY <2>2, DaemonAssumption
  <2>4. \A s \in Alive : Recorded(s)'
    BY <1>2, <2>1, <2>3 DEF Recorded, Coherent, Recording
  <2> QED BY <1>1, <2>1, <2>3, <2>4, EndIsCoherent, OnlyCommandMoves DEF Awaiting
<1> QED BY <1>4, <1>5, <1>6, <1>7, <1>8, <1>9, <1>10, <1>11

\* Servers that come up and end, and time that passes.
LEMMA OneByOneKeptByServers ==
  ASSUME DaemonTypeOK, OneByOne, GracePasses \/ \E s \in DOMAIN servers : Bind(s) \/ ServerEnds(s)
  PROVE  OneByOne'
<1>1. CASE GracePasses
  <2>1. /\ record \in Record /\ record' = [record EXCEPT !.age = "old"]
        /\ UNCHANGED <<servers, cmds, setting, foreign>> /\ \A c \in Commands : cmds[c].pc = "idle"
        /\ \A s \in DOMAIN servers : servers[s].state # "starting"
    BY <1>1 DEF GracePasses, DaemonTypeOK
  <2>2. record' \in Record /\ record'.port = record.port /\ record'.token = record.token
    BY <2>1 DEF Record
  <2>3. record' \notin {NoValue, Torn}
    BY <2>2, DaemonAssumption
  <2>4. Alive' = Alive /\ Alive \subseteq DOMAIN servers /\ Desired' = Desired
    BY <2>1 DEF Alive, Desired
  <2>5. \A s \in Alive : Recorded(s)
    BY <2>1 DEF OneByOne, Recording, Seeking
  <2>6. \A s \in Alive' : Recorded(s)'
    BY <2>1, <2>2, <2>3, <2>4, <2>5 DEF Recorded
  <2>7. \A c \in Commands : Coherent(c)'
    <3>1. \A c \in Commands : cmds'[c].pc = "idle" /\ ~cmds'[c].holds
      BY <2>1, CommandTypes DEF Sound, Binding
    <3> QED BY <3>1 DEF Coherent, Ensuring, Trying, Seeking, Awaiting
  <2>8. \A c, d \in Commands : Active(c)' /\ Active(d)' => c = d
    BY <2>1 DEF Active
  <2>9. \A s \in Alive' : AtItsPort(s)' /\ servers'[s].state = servers[s].state
    BY <2>1, <2>4 DEF OneByOne, AtItsPort
  <2> QED BY <2>1, <2>3, <2>4, <2>6, <2>7, <2>8, <2>9 DEF OneByOne
<1>2. ASSUME NEW s \in DOMAIN servers, Bind(s) \/ ServerEnds(s)
      PROVE  OneByOne'
  <2>1. PICK x \in {"up", "gone"} :
           /\ servers' = [servers EXCEPT ![s].state = x]
           /\ x = "up" => servers[s].state = "starting" /\ PortFree(servers[s].port)
    BY <1>2 DEF Bind, ServerEnds
  <2>2. UNCHANGED <<record, cmds, setting, foreign>> /\ s \in Alive /\ Desired' = Desired
    BY <1>2 DEF Bind, ServerEnds, Alive, Desired
  <2>3. /\ DOMAIN servers' = DOMAIN servers /\ servers[s] \in Server
        /\ servers'[s] = [servers[s] EXCEPT !.state = x]
        /\ \A t \in DOMAIN servers : t # s => servers'[t] = servers[t]
    BY <2>1, AliveServers
  <2>4. /\ servers'[s].state = x /\ servers'[s].port = servers[s].port
        /\ servers'[s].token = servers[s].token
    BY <2>3 DEF Server
  <2>5. Alive' \subseteq Alive /\ \A t \in Alive : t = s
    BY <2>2, <2>3 DEF Alive, OneByOne
  <2>6. \A t \in Alive' : /\ servers'[t].state = "up" /\ servers[t].state = "starting" /\ t = s
                          /\ PortFree(servers[s].port)
    BY <2>1, <2>4, <2>5 DEF Alive
  <2>7. \A t \in Alive' : \/ Recorded(t)'
                          \/ \E c \in Commands : Recording(c, t)' \/ cmds'[c].pc \in Seeking \cup {"await"}
    BY <2>2, <2>4, <2>5, <2>6 DEF OneByOne, Recorded, Recording
  <2>8. ASSUME NEW c \in Commands PROVE Coherent(c)'
    <3>1. Coherent(c) /\ cmds'[c] = cmds[c]
      BY <2>2 DEF OneByOne
    <3>2. cmds[c].pc \in Awaiting \cup Seeking \cup {"forget"} => Alive' = {}
      BY <2>5, <2>6, <3>1 DEF Coherent, Reaches
    <3>3. \A t \in Alive' : Recording(c, t) => Recording(c, t)'
      BY <2>2, <2>4, <2>6 DEF Recording
    <3>4. cmds'[c].pc = "record" => \A t \in Alive' : Recording(c, t)'
      BY <2>5, <3>1, <3>3 DEF Coherent
    <3>5. Alive = {} => Alive' = {}
      BY <2>5
    <3>6. Entitled(c) => Entitled(c)'
      BY <2>2 DEF Entitled
    <3>7. Checked(c)' = Checked(c)
      BY <2>2 DEF Checked, Desired
    <3>8. cmds[c].holds => Alive' = {}
      <4> SUFFICES ASSUME cmds[c].holds, NEW t \in Alive' PROVE FALSE
        OBVIOUS
      <4>1. cmds[c].pc = "taken"
        BY <2>5, <3>1, <3>2, CommandTypes DEF Sound, Binding, Coherent, Awaiting, Seeking
      <4>2. cmds[c].prior = record
        BY <3>1, <4>1 DEF Coherent
      <4>3. Recorded(s)
        BY <2>2, <4>1, OnlyCommand DEF Active, Seeking
      <4>4. Checked(c) = servers[s].port
        BY <4>1, <4>2, <4>3 DEF Checked, Recorded
      <4> QED BY <2>6, <4>4 DEF PortFree, Held
    <3> QED BY <2>2, <3>1, <3>2, <3>4, <3>5, <3>6, <3>7, <3>8 DEF Coherent
  <2>9. \A c, d \in Commands : Active(c)' /\ Active(d)' => c = d
    BY <2>2 DEF Active, OneByOne
  <2>10. \A t \in Alive' : AtItsPort(t)'
    BY <2>2, <2>4, <2>5 DEF OneByOne, AtItsPort
  <2>11. record' # Torn /\ \A t, u \in Alive' : t = u
    BY <2>2, <2>5 DEF OneByOne
  <2>12. \A t \in Alive' : servers'[t].state # "stopping"
    BY <2>6
  <2> QED BY <2>7, <2>8, <2>9, <2>10, <2>11, <2>12 DEF OneByOne
<1> QED BY <1>1, <1>2

-----------------------------------------------------------------------------
(* One workspace opened side by side *)

\* Where a server runs when only openings happened: at the wanted port, for this workspace.
LEMMA UpIsThere ==
  ASSUME DaemonTypeOK, SideBySide, Findable
  PROVE  /\ Up # {} => /\ Serving(Desired, setting.token) # {} /\ Listening(Desired) # {}
                       /\ Matching(Desired, setting.token, Main) # {}
         /\ Occupied(Desired) <=> Up # {}
<1>1. \A s \in DOMAIN servers : /\ servers[s].port = Desired /\ servers[s].token = setting.token
                                /\ servers[s].ws = Main /\ servers[s].state # "stopping"
  BY DEF SideBySide, Wanted
<1>2. Up # {} => /\ Serving(Desired, setting.token) # {} /\ Listening(Desired) # {}
                 /\ Matching(Desired, setting.token, Main) # {}
  BY <1>1 DEF Up, Serving, Listening, Matching
<1>3. Occupied(Desired) <=> Up # {}
  BY <1>1 DEF Occupied, Findable, Up
<1> QED BY <1>2, <1>3

\* A step of one opening that leaves the servers.
LEMMA OpeningSteps ==
  ASSUME DaemonTypeOK, SideBySide, NEW c \in Commands, UNCHANGED <<servers, setting>>,
         \A d \in Commands : d # c => cmds'[d] = cmds[d],
         record' \notin {NoValue, Torn} => Wanted(record'), Opening(c)'
  PROVE  SideBySide'
<1>1. Desired' = Desired /\ Up' = Up
  BY DEF Desired, Up
<1>2. \A d \in Commands : d # c => Opening(d)'
  BY <1>1 DEF SideBySide, Opening, Wanted
<1>3. record' \notin {NoValue, Torn} => Wanted(record)'
  BY <1>1 DEF Wanted
<1>4. \A s \in DOMAIN servers' :
         Wanted(servers[s])' /\ servers'[s].ws = Main /\ servers'[s].state # "stopping"
  BY <1>1 DEF SideBySide, Wanted
<1> QED BY <1>1, <1>2, <1>3, <1>4 DEF SideBySide

\* An opening that goes on, with the record kept or removed.
LEMMA OpeningGoesOn ==
  ASSUME DaemonTypeOK, SideBySide, NEW c \in Commands, UNCHANGED <<servers, setting>>,
         record' \in {record, NoValue},
         NEW pc \in At \ (Halting \cup {"idle", "replace", "free", "clear", "evict", "await", "scan"}),
         Goto(c, pc), pc \in Trying => cmds[c].pc \in Trying, cmds[c].pc \notin {"idle", "read"},
         pc \in Trying \cup {"adopt", "spawn", "record"} => cmds[c].port = Desired,
         pc \in {"probe", "refused", "taken", "identify", "required", "info", "rewrite"}
            => cmds[c].pc \in {"probe", "refused", "taken", "identify", "required", "info", "rewrite"},
         pc \in Trying \cup {"identify", "required", "info"} => Up # {}
  PROVE  SideBySide'
<1>1. /\ cmds'[c].pc = pc /\ cmds'[c].kind = cmds[c].kind /\ cmds'[c].ws = cmds[c].ws
      /\ cmds'[c].prior = cmds[c].prior /\ cmds'[c].token = cmds[c].token
      /\ cmds'[c].port = cmds[c].port /\ \A d \in Commands : d # c => cmds'[d] = cmds[d]
  BY GoesOn
<1>2. Up' = Up /\ Desired' = Desired /\ Opening(c)
  BY DEF Up, Desired, SideBySide
<1>3. Opening(c)'
  BY <1>1, <1>2 DEF Opening, Wanted
<1>4. record' \notin {NoValue, Torn} => Wanted(record')
  BY DEF SideBySide
<1> QED BY <1>1, <1>3, <1>4, OpeningSteps

\* An opening that ends.
LEMMA OpeningEnds ==
  ASSUME DaemonTypeOK, SideBySide, NEW c \in Commands, UNCHANGED <<servers, setting>>, End(c),
         record' \notin {NoValue, Torn} => Wanted(record')
  PROVE  SideBySide'
<1>1. cmds'[c].pc = "idle" /\ \A d \in Commands : d # c => cmds'[d] = cmds[d]
  BY Ends
<1>2. Opening(c)'
  BY <1>1 DEF Opening, At, Halting, Ensuring, Trying
<1> QED BY <1>1, <1>2, OpeningSteps

LEMMA SideBySideKeptByCommands ==
  ASSUME DaemonTypeOK, SideBySide, OnlyOpened, OnlyOpened', NEW c \in Commands,
         \/ \E kind \in {"start", "stop", "restart"}, ws \in Workspaces : Begin(c, kind, ws)
         \/ CommandStep(c) \/ Killed(c)
  PROVE  SideBySide'
<1>1. /\ Opening(c) /\ Findable
      /\ "slow" \notin faults' /\ "collided" \notin faults' /\ "mixed" \notin faults'
      /\ record \notin {NoValue, Torn} => Wanted(record)
  BY DEF SideBySide, OnlyOpened
<1> USE DEF At, Ensuring, Halting, Trying
<1>2. CASE \E kind \in {"start", "stop", "restart"}, ws \in Workspaces : Begin(c, kind, ws)
  <2>1. PICK kind \in {"start", "stop", "restart"}, ws \in Workspaces : Begin(c, kind, ws)
    BY <1>2
  <2>2. kind = "start" /\ ws = Main /\ UNCHANGED <<servers, setting, record>>
    BY <1>1, <2>1 DEF Begin
  <2>3. /\ cmds'[c].pc = "read" /\ cmds'[c].kind = "start" /\ cmds'[c].ws = Main
        /\ \A d \in Commands : d # c => cmds'[d] = cmds[d]
    BY <2>1, <2>2, Begins
  <2>4. Opening(c)'
    BY <2>3 DEF Opening
  <2> QED BY <1>1, <2>2, <2>3, <2>4, OpeningSteps
<1>3. CASE Killed(c)
  <2>1. End(c) /\ record' \in {record, Torn} /\ UNCHANGED <<servers, setting>>
    BY <1>3 DEF Killed
  <2> QED BY <1>1, <2>1, OpeningEnds
<1>4. CASE ReadRecord(c)
  <2>1. setting.token # NoValue /\ cmds[c].pc = "read" /\ UNCHANGED <<record, servers, setting>>
    BY <1>1, <1>4 DEF Findable, ReadRecord
  <2>2. PICK text \in Readable :
           /\ cmds'[c].prior = IF text = Torn THEN NoValue ELSE text
           /\ cmds'[c].pc = CASE text = Torn -> "forget" [] text = NoValue -> "port" [] OTHER -> "probe"
    BY <1>4, ReadsRecord
  <2>3. /\ cmds'[c].token = setting.token /\ cmds'[c].kind = cmds[c].kind /\ cmds'[c].ws = cmds[c].ws
        /\ \A d \in Commands : d # c => cmds'[d] = cmds[d]
    BY <1>4, <2>1, ReadsRecord
  <2>4. text \notin {NoValue, Torn} => Wanted(text)
    BY <1>1, ReadableTypes
  <2>5. Desired' = Desired
    BY <2>1 DEF Desired
  <2>6. Opening(c)'
    <3>1. CASE text \in {NoValue, Torn}
      BY <1>1, <2>1, <2>2, <2>3, <3>1 DEF Opening
    <3>2. CASE text \notin {NoValue, Torn}
      BY <1>1, <2>1, <2>2, <2>3, <2>4, <2>5, <3>2 DEF Opening, Wanted
    <3> QED BY <3>1, <3>2
  <2> QED BY <1>1, <2>1, <2>3, <2>6, OpeningSteps
<1>5. CASE Hold(c)
  <2>1. /\ \A d \in Commands : d # c => cmds'[d] = cmds[d]
        /\ cmds'[c].pc = cmds[c].pc /\ cmds'[c].prior = cmds[c].prior /\ cmds'[c].port = cmds[c].port
        /\ cmds'[c].token = cmds[c].token /\ cmds'[c].kind = cmds[c].kind /\ cmds'[c].ws = cmds[c].ws
    BY <1>5, Holds
  <2>2. UNCHANGED <<record, servers, setting>>
    BY <1>5 DEF Hold
  <2>3. Desired' = Desired /\ Up' = Up
    BY <2>2 DEF Desired, Up
  <2>4. Opening(c)'
    BY <1>1, <2>1, <2>2, <2>3 DEF Opening, Wanted
  <2> QED BY <1>1, <2>1, <2>2, <2>4, OpeningSteps
<1>6. CASE Probe(c) \/ Refused(c) \/ Taken(c) \/ Identify(c)
  <2> DEFINE p == cmds[c].prior
  <2>1. /\ UNCHANGED <<servers, setting, record>>
        /\ cmds[c].pc \in {"probe", "refused", "taken", "identify", "required", "info"}
    BY <1>6 DEF Probe, Refused, Taken, Identify
  <2>2. /\ cmds[c].ws = Main /\ cmds[c].token = setting.token
        /\ p.port = Desired /\ p.token = setting.token
    BY <1>1, <2>1 DEF Opening, Wanted
  <2>3. CASE Probe(c)
    <3>1. Serving(p.port, p.token) # {} => Up # {}
      BY AliveServers
    <3>2. (Up # {} /\ Goto(c, "identify")) \/ Goto(c, "refused")
      BY <1>1, <2>3, <3>1, AnsweredInTime DEF Probe
    <3> QED BY <2>1, <2>3, <3>2, OpeningGoesOn
  <2>4. CASE Refused(c)
    <3>1. Goto(c, "forget") \/ Goto(c, "taken")
      BY <2>4 DEF Refused
    <3> QED BY <2>1, <3>1, OpeningGoesOn
  <2>5. CASE Taken(c)
    <3>1. Goto(c, "forget") \/ Goto(c, "port") \/ End(c)
      BY <2>5 DEF Taken
    <3>2. Goto(c, "forget") \/ Goto(c, "port") => SideBySide'
      BY <2>1, OpeningGoesOn
    <3> QED BY <1>1, <2>1, <3>1, <3>2, OpeningEnds
  <2>6. CASE Identify(c)
    <3>1. cmds[c].pc \in {"identify", "required", "info"} /\ Up # {}
      BY <1>1, <2>6 DEF Identify, Opening
    <3>2. /\ Serving(p.port, cmds[c].token) # {} /\ Listening(p.port) # {} /\ p.token = cmds[c].token
          /\ Matching(p.port, p.token, cmds[c].ws) # {}
      BY <1>1, <2>2, <3>1, UpIsThere
    <3>3. Goto(c, "required") \/ Goto(c, "info") \/ Goto(c, "rewrite")
      BY <1>1, <2>6, <3>2, AnsweredInTime DEF Identify
    <3> QED BY <2>1, <3>1, <3>3, OpeningGoesOn
  <2> QED BY <1>6, <2>3, <2>4, <2>5, <2>6
<1>7. CASE Candidate(c)
  <2>1. /\ UNCHANGED <<servers, setting, record>>
        /\ cmds[c].pc \in {"candidate", "candidate_required", "candidate_info"}
    BY <1>7 DEF Candidate
  <2>2. cmds[c].ws = Main /\ cmds[c].token = setting.token /\ cmds[c].port = Desired /\ Up # {}
    BY <1>1, <2>1 DEF Opening
  <2>3. /\ Serving(cmds[c].port, cmds[c].token) # {} /\ Listening(cmds[c].port) # {}
        /\ Matching(cmds[c].port, cmds[c].token, cmds[c].ws) # {}
    BY <1>1, <2>2, UpIsThere
  <2>4. Goto(c, "candidate_required") \/ Goto(c, "candidate_info") \/ Goto(c, "adopt")
    BY <1>1, <1>7, <2>3, AnsweredInTime DEF Candidate
  <2> QED BY <2>1, <2>2, <2>4, OpeningGoesOn
<1>8. CASE Rewrite(c) \/ Adopt(c) \/ WriteRecord(c)
  <2>1. End(c) /\ UNCHANGED <<servers, setting>> /\ Wanted(record')
    BY <1>1, <1>8 DEF Rewrite, Adopt, WriteRecord, Opening, Wanted
  <2> QED BY <2>1, OpeningEnds
<1>9. CASE Forget(c)
  <2>1. /\ record' = NoValue /\ UNCHANGED <<servers, setting>>
        /\ cmds[c].pc = "forget" /\ Goto(c, "port")
    BY <1>1, <1>9 DEF Forget, Opening
  <2> QED BY <2>1, OpeningGoesOn
<1>10. CASE ChoosePort(c)
  <2>1. UNCHANGED <<record, servers, setting>> /\ cmds[c].pc = "port"
    BY <1>10 DEF ChoosePort
  <2>2. /\ cmds'[c].port = Desired /\ cmds'[c].kind = cmds[c].kind /\ cmds'[c].ws = cmds[c].ws
        /\ cmds'[c].token = cmds[c].token /\ \A d \in Commands : d # c => cmds'[d] = cmds[d]
        /\ \/ cmds'[c].pc = "spawn"
           \/ InUse(c) /\ cmds'[c].pc = "candidate" /\ faults' = faults \cup Collided(c)
    BY <1>10, Chooses
  <2>3. cmds'[c].pc = "candidate" => Up # {}
    <3> SUFFICES ASSUME cmds'[c].pc = "candidate" PROVE Up # {}
      OBVIOUS
    <3>1. InUse(c) /\ faults' = faults \cup Collided(c) /\ Checked(c) = Desired
      BY <2>1, <2>2 DEF Checked
    <3>2. Occupied(Desired)
      BY <1>1, <3>1 DEF Collided
    <3> QED BY <1>1, <3>2, UpIsThere
  <2>4. Desired' = Desired /\ Up' = Up
    BY <2>1 DEF Desired, Up
  <2>5. Opening(c)'
    BY <1>1, <2>1, <2>2, <2>3, <2>4 DEF Opening
  <2> QED BY <1>1, <2>1, <2>2, <2>5, OpeningSteps
<1>11. CASE SpawnServer(c)
  <2> DEFINE new == [state |-> "starting", port |-> cmds[c].port,
                     token |-> cmds[c].token, ws |-> cmds[c].ws]
  <2>1. /\ servers' = Append(servers, new) /\ UNCHANGED <<record, setting>>
        /\ cmds[c].pc = "spawn" /\ Goto(c, "record")
    BY <1>11 DEF SpawnServer
  <2>2. new.port = Desired /\ new.token = setting.token /\ new.ws = Main /\ new.state = "starting"
    BY <1>1, <2>1 DEF Opening
  <2>3. \A s \in DOMAIN servers' : servers'[s] = new \/ (s \in DOMAIN servers /\ servers'[s] = servers[s])
    BY <2>1, AliveServers
  <2>4. DOMAIN servers \subseteq DOMAIN servers' /\ \A s \in DOMAIN servers : servers'[s] = servers[s]
    BY <2>1, AliveServers
  <2>5. Up' = Up /\ Desired' = Desired
    BY <2>1, <2>2, <2>3, <2>4 DEF Up, Desired
  <2>6. /\ cmds'[c].pc = "record" /\ cmds'[c].kind = cmds[c].kind /\ cmds'[c].ws = cmds[c].ws
        /\ cmds'[c].token = cmds[c].token /\ cmds'[c].port = cmds[c].port
        /\ \A d \in Commands : d # c => cmds'[d] = cmds[d]
    BY <2>1, GoesOn
  <2>7. \A d \in Commands : Opening(d)'
    BY <1>1, <2>1, <2>5, <2>6 DEF Opening, SideBySide, Wanted
  <2>8. \A s \in DOMAIN servers' : /\ Wanted(servers[s])' /\ servers'[s].ws = Main
                                   /\ servers'[s].state # "stopping"
    BY <2>1, <2>2, <2>3, <2>5 DEF SideBySide, Wanted
  <2>9. record' \notin {NoValue, Torn} => Wanted(record)'
    BY <1>1, <2>1, <2>5 DEF Wanted
  <2>10. \A s, t \in Up' : s = t
    BY <2>5 DEF SideBySide
  <2> QED BY <2>7, <2>8, <2>9, <2>10 DEF SideBySide
<1>12. CASE \/ ReadToStop(c) \/ PostStop(c) \/ StopRecorded(c) \/ AwaitPort(c) \/ StopCandidate(c)
            \/ AwaitCandidate(c) \/ Scan(c)
  <2>1. cmds[c].pc \in Halting \cup {"replace", "free", "evict", "await", "scan"}
    BY <1>12 DEF ReadToStop, PostStop, StopRecorded, AwaitPort, StopCandidate, AwaitCandidate, Scan
  <2> QED BY <1>1, <2>1 DEF Opening
<1> QED BY <1>2, <1>3, <1>4, <1>5, <1>6, <1>7, <1>8, <1>9, <1>10, <1>11, <1>12 DEF CommandStep

LEMMA SideBySideKeptByServers ==
  ASSUME DaemonTypeOK, SideBySide, OnlyOpened, OnlyOpened',
         GracePasses \/ \E s \in DOMAIN servers : Bind(s) \/ ServerEnds(s)
  PROVE  SideBySide'
<1>1. CASE GracePasses
  <2>1. /\ record \in Record /\ record' = [record EXCEPT !.age = "old"]
        /\ UNCHANGED <<servers, cmds, setting>> /\ record \notin {NoValue, Torn}
    BY <1>1 DEF GracePasses, DaemonTypeOK
  <2>2. record'.port = record.port /\ record'.token = record.token
    BY <2>1 DEF Record
  <2>3. Up' = Up /\ Desired' = Desired
    BY <2>1 DEF Up, Desired
  <2> QED BY <2>1, <2>2, <2>3 DEF SideBySide, Opening, Wanted
<1>2. ASSUME NEW s \in DOMAIN servers, Bind(s) \/ ServerEnds(s)
      PROVE  SideBySide'
  <2>1. PICK x \in {"up", "gone"} :
           /\ servers' = [servers EXCEPT ![s].state = x]
           /\ x = "up" => ~Occupied(servers[s].port)
           /\ servers[s].state # "up"
    BY <1>2 DEF Bind, ServerEnds, OnlyOpened, PortFree
  <2>2. UNCHANGED <<record, cmds, setting>> /\ Desired' = Desired
    BY <1>2 DEF Bind, ServerEnds, Desired
  <2>3. /\ DOMAIN servers' = DOMAIN servers /\ servers[s] \in Server
        /\ servers'[s] = [servers[s] EXCEPT !.state = x]
        /\ \A t \in DOMAIN servers : t # s => servers'[t] = servers[t]
    BY <2>1, AliveServers
  <2>4. /\ servers'[s].state = x /\ servers'[s].port = servers[s].port
        /\ servers'[s].token = servers[s].token /\ servers'[s].ws = servers[s].ws
    BY <2>3 DEF Server
  <2>5. x = "up" => Up = {}
    BY <2>1, UpIsThere DEF OnlyOpened, SideBySide, Wanted
  <2>6. Up \subseteq Up' /\ \A t, u \in Up' : t = u
    BY <2>1, <2>3, <2>4, <2>5 DEF Up, SideBySide
  <2>7. \A t \in DOMAIN servers' : /\ Wanted(servers[t])' /\ servers'[t].ws = Main
                                   /\ servers'[t].state # "stopping"
    BY <2>1, <2>2, <2>3, <2>4 DEF SideBySide, Wanted
  <2>8. \A c \in Commands : Opening(c)'
    BY <2>2, <2>6 DEF SideBySide, Opening, Wanted
  <2>9. record' \notin {NoValue, Torn} => Wanted(record)'
    BY <2>2 DEF SideBySide, Wanted
  <2> QED BY <2>6, <2>7, <2>8, <2>9 DEF SideBySide
<1> QED BY <1>1, <1>2

-----------------------------------------------------------------------------
LEMMA DaemonInvInit == DaemonInit => DaemonInv
<1> SUFFICES ASSUME DaemonInit PROVE DaemonInv
  OBVIOUS
<1>1. Alive = {} /\ Up = {} /\ DOMAIN servers = {}
  BY DEF DaemonInit, Alive, Up
<1>2. \A c \in Commands : cmds[c].pc = "idle" /\ ~cmds[c].holds
  BY DEF DaemonInit, NoCommand
<1> USE DEF At, Halting, Ensuring, Trying, Seeking, Awaiting
<1>3. OneByOne
  BY <1>1, <1>2, DaemonAssumption DEF OneByOne, Coherent, Active, DaemonInit
<1>4. SideBySide
  BY <1>1, <1>2 DEF SideBySide, Opening, DaemonInit
<1> QED BY <1>3, <1>4, DaemonTypesInit DEF DaemonInv

LEMMA DaemonInvStep == DaemonInv /\ [DaemonNext]_daemonVars => DaemonInv'
<1> SUFFICES ASSUME DaemonInv, [DaemonNext]_daemonVars PROVE DaemonInv'
  OBVIOUS
<1> USE DEF DaemonInv
<1>1. CASE UNCHANGED daemonVars
  <2> USE DEF daemonVars
  <2>1. DaemonTypeOK'
    BY <1>1 DEF DaemonTypeOK, Sound
  <2>2. /\ (Undisturbed' <=> Undisturbed) /\ (OnlyOpened' <=> OnlyOpened)
        /\ Desired' = Desired /\ Alive' = Alive /\ Up' = Up
    BY <1>1 DEF Undisturbed, Orderly, OnlyOpened, Findable, Desired, Alive, Up
  <2>3. ASSUME OneByOne PROVE OneByOne'
    BY <1>1, <2>2, <2>3 DEF OneByOne, AtItsPort, Active, Coherent, Entitled, Reaches, Checked, Recorded, Recording
  <2>4. ASSUME SideBySide PROVE SideBySide'
    BY <1>1, <2>2, <2>4 DEF SideBySide, Wanted, Opening
  <2> QED BY <2>1, <2>2, <2>3, <2>4
<1>2. CASE DaemonNext
  <2>1. DaemonTypeOK'
    BY <1>2, CommandTypesKept, ServerTypesKept DEF DaemonNext
  <2>2. faults \subseteq faults' /\ UNCHANGED <<setting, foreign>>
    BY <1>2, FaultsStay
  <2>3. ASSUME Undisturbed' PROVE OneByOne'
    <3>1. OneByOne
      BY <2>2, <2>3 DEF Undisturbed, Orderly, Desired
    <3>2. ~\E c \in Commands : Killed(c)
      BY <2>3, UndisturbedIs DEF Killed
    <3> QED BY <1>2, <2>3, <3>1, <3>2, OneByOneKeptBegin, OneByOneKeptHold, OneByOneKeptReading,
               OneByOneKeptStopping, OneByOneKeptStarting, OneByOneKeptByServers DEF DaemonNext, CommandStep
  <2>4. ASSUME OnlyOpened' PROVE SideBySide'
    <3>1. OnlyOpened
      BY <2>2, <2>4 DEF OnlyOpened, Findable, Desired
    <3> QED BY <1>2, <2>4, <3>1, SideBySideKeptByCommands, SideBySideKeptByServers DEF DaemonNext
  <2> QED BY <2>1, <2>3, <2>4
<1> QED BY <1>1, <1>2

LEMMA DaemonInvHolds == DaemonSpec => []DaemonInv
  BY DaemonInvInit, DaemonInvStep, PTL DEF DaemonSpec

\* One server runs, whatever servers crash, when commands of all kinds come one after another
\* and are answered in time; and however many openings of one workspace run side by side and
\* are killed, as long as the server can be found without its record.
THEOREM OneServerRuns == DaemonSpec => []OneServer
<1>1. DaemonInv => OneServer
  <2> SUFFICES ASSUME DaemonInv, Undisturbed \/ OnlyOpened PROVE Cardinality(Up) <= 1
    BY DEF OneServer, Undisturbed, OnlyOpened
  <2>1. \A s, t \in Up : s = t
    BY AliveServers DEF DaemonInv, OneByOne, SideBySide
  <2>2. CASE Up = {}
    BY <2>2, FS_EmptySet
  <2>3. CASE Up # {}
    <3>1. PICK s : Up = {s}
      BY <2>1, <2>3
    <3>2. Cardinality(Up) = 1
      BY <3>1, FS_Singleton
    <3> QED BY <3>2
  <2> QED BY <2>2, <2>3
<1> QED BY <1>1, DaemonInvHolds, PTL

\* When commands came one after another and none was disturbed, a server that runs is the one
\* server.json leads to.
THEOREM ServersAreOnRecord == DaemonSpec => []ServerOnRecord
<1>1. DaemonInv => ServerOnRecord
  <2> SUFFICES ASSUME DaemonInv, Undisturbed, \A c \in Commands : cmds[c].pc = "idle", NEW s \in Up
               PROVE  /\ record \notin {NoValue, Torn}
                      /\ record.port = servers[s].port /\ record.token = servers[s].token
    BY DEF ServerOnRecord, Undisturbed
  <2>1. s \in Alive
    BY AliveServers DEF DaemonInv
  <2> QED BY <2>1 DEF DaemonInv, OneByOne, Recorded, Recording, Seeking
<1> QED BY <1>1, DaemonInvHolds, PTL

-----------------------------------------------------------------------------
(***************************************************************************)
(* The configuration.  A loaded configuration, written as text, loads as   *)
(* itself: what was made whole stays as it is.                             *)
(***************************************************************************)
AdminSpec == AdminInit /\ [][AdminNext]_adminVars

LEMMA ResolveSerialized ==
  ASSUME NEW d, NEW p, NEW w, NEW s, NEW t
  PROVE  LET c == [default |-> d, providers |-> p, web |-> w, steps |-> s, toggles |-> t]
         IN  ResolveFile(Serialized(c)) = c
<1> DEFINE c == [default |-> d, providers |-> p, web |-> w, steps |-> s, toggles |-> t]
<1>1. Serialized(c) = [default |-> d, providers |-> p, single |-> None, web |-> w,
                       tavily |-> None, steps |-> s, toggles |-> t]
  BY DEF Serialized
<1> QED BY <1>1 DEF ResolveFile

LEMMA LoadedIsWhole ==
  ASSUME NEW f, Load(f).ok
  PROVE  /\ Load(Serialized(Load(f).config)).ok
         /\ Load(Serialized(Load(f).config)).config = Load(f).config
<1> DEFINE r == ResolveFile(f)
           c == Load(f).config
           first == FirstModel(r.providers)
<1>1. c = Normalize(r) /\ Valid(c)
  BY DEF Load
<1>2. r = [default |-> r.default, providers |-> r.providers, web |-> r.web,
           steps |-> r.steps, toggles |-> r.toggles]
  BY DEF ResolveFile
<1>3. \/ c = r /\ ~(Dangling(r) /\ first # None)
      \/ c = [r EXCEPT !.default = first] /\ Dangling(r) /\ first # None
  BY <1>1 DEF Normalize
<1> HIDE DEF r, first
<1>4. /\ c = [default |-> c.default, providers |-> r.providers, web |-> r.web,
              steps |-> r.steps, toggles |-> r.toggles]
      /\ c.providers = r.providers
      /\ c = r \/ c.default = first
  BY <1>2, <1>3
<1>5. ResolveFile(Serialized(c)) = c
  <2> HIDE DEF c
  <2>1. PICK d : d = c.default
    OBVIOUS
  <2>2. c = [default |-> d, providers |-> r.providers, web |-> r.web, steps |-> r.steps,
             toggles |-> r.toggles]
    BY <1>4, <2>1
  <2> QED BY <2>2, ResolveSerialized
<1> HIDE DEF c
<1>6. ~(Dangling(c) /\ FirstModel(c.providers) # None)
  <2> SUFFICES ASSUME Dangling(c), FirstModel(c.providers) # None PROVE FALSE
    OBVIOUS
  <2>1. c.default = None
    BY <1>1 DEF Valid, Dangling
  <2>2. FirstModel(c.providers) = first
    BY <1>4 DEF first
  <2>3. CASE c = r
    BY <1>3, <1>4, <2>1, <2>2, <2>3
  <2>4. CASE c # r
    BY <1>4, <2>1, <2>2, <2>4
  <2> QED BY <2>3, <2>4
<1>7. Normalize(c) = c
  BY <1>6 DEF Normalize
<1>8. Serialized(c).single = None
  BY DEF Serialized
<1> QED BY <1>1, <1>5, <1>7, <1>8 DEF Load, c

-----------------------------------------------------------------------------
(***************************************************************************)
(* A request goes on with a text that loads as its configuration; and as   *)
(* long as requests come one after the other, it is the only one, and the  *)
(* file is its text from the write on.                                     *)
(***************************************************************************)
UnderWay(a) == asked[a].pc # "idle"

AdminInv ==
    /\ Load(disk).ok
    /\ DOMAIN asked = Admins
    /\ \A a \in Admins : UnderWay(a) =>
          /\ Load(asked[a].file).ok /\ Load(asked[a].file).config = asked[a].next
    /\ ~disturbed =>
          /\ \A a, b \in Admins : UnderWay(a) /\ UnderWay(b) => a = b
          /\ \A a \in Admins : asked[a].pc = "store" => disk = asked[a].file
          /\ (\A a \in Admins : asked[a].pc # "store") => Load(disk).config = memory

LEMMA AdminInvInit == AdminInit => AdminInv
<1> SUFFICES ASSUME AdminInit PROVE AdminInv
  OBVIOUS
<1>1. \A a \in Admins : asked[a].pc = "idle"
  BY DEF AdminInit, Idle
<1> QED BY <1>1 DEF AdminInit, AdminInv, UnderWay

\* A request that was accepted goes on with a text that loads as its configuration.
LEMMA AcceptKeeps ==
  ASSUME AdminInv, NEW a \in Admins, NEW f, Request(a), Accept(a, f)
  PROVE  AdminInv'
<1> DEFINE loaded == Load(f)
           text == IF loaded.normalized THEN Serialized(loaded.config) ELSE f
           x == IF loaded.ok THEN [pc |-> "write", file |-> text, next |-> loaded.config] ELSE Idle
<1>1. /\ asked' = [asked EXCEPT ![a] = x] /\ UNCHANGED <<disk, memory>>
      /\ asked[a].pc = "idle" /\ disturbed' = (disturbed \/ \E b \in Admins : asked[b].pc # "idle")
  BY DEF Accept, Request
<1>2. x.pc # "idle" => Load(x.file).ok /\ Load(x.file).config = x.next
  <2> SUFFICES ASSUME x.pc # "idle" PROVE Load(x.file).ok /\ Load(x.file).config = x.next
    OBVIOUS
  <2>1. loaded.ok /\ x.file = text /\ x.next = loaded.config
    BY DEF Idle
  <2> QED BY <2>1, LoadedIsWhole
<1>3. x.pc \in {"idle", "write"}
  BY DEF Idle
<1> HIDE DEF x
<1>4. asked'[a] = x /\ (\A b \in Admins : b # a => asked'[b] = asked[b]) /\ DOMAIN asked' = Admins
  BY <1>1 DEF AdminInv
<1>5. \A b \in Admins : UnderWay(b)' => Load(asked'[b].file).ok /\ Load(asked'[b].file).config = asked'[b].next
  BY <1>2, <1>4 DEF AdminInv, UnderWay
<1>6. ASSUME ~disturbed'
      PROVE  /\ \A b \in Admins : b # a => ~UnderWay(b)'
             /\ \A b \in Admins : asked'[b].pc # "store"
             /\ Load(disk).config = memory
  <2>1. ~disturbed /\ \A b \in Admins : asked[b].pc = "idle"
    BY <1>1, <1>6
  <2>2. Load(disk).config = memory
    BY <2>1 DEF AdminInv
  <2> QED BY <1>3, <1>4, <2>1, <2>2 DEF UnderWay
<1> QED BY <1>1, <1>4, <1>5, <1>6 DEF AdminInv

\* A request ends, or goes on, and nobody else is touched.
LEMMA AdminInvKept == AdminInv /\ [AdminNext]_adminVars => AdminInv'
<1> SUFFICES ASSUME AdminInv, [AdminNext]_adminVars PROVE AdminInv'
  OBVIOUS
<1>1. ASSUME NEW a \in Admins, NEW f \in Files, PutConfig(a, f) PROVE AdminInv'
  BY <1>1, AcceptKeeps DEF PutConfig
<1>2. ASSUME NEW a \in Admins, NEW p \in Patches, PatchConfig(a, p) PROVE AdminInv'
  <2>1. CASE Apply(p).ok
    BY <1>2, <2>1, AcceptKeeps DEF PatchConfig
  <2>2. CASE ~Apply(p).ok
    <3>1. UNCHANGED <<disk, memory, asked>> /\ (disturbed => disturbed')
      BY <1>2, <2>2 DEF PatchConfig, Request
    <3> QED BY <3>1 DEF AdminInv, UnderWay
  <2> QED BY <2>1, <2>2
<1>3. ASSUME NEW a \in Admins, WriteText(a) PROVE AdminInv'
  <2>1. /\ asked[a].pc = "write" /\ disk' = asked[a].file /\ UNCHANGED <<memory, disturbed>>
        /\ asked' = [asked EXCEPT ![a] = [asked[a] EXCEPT !.pc = "store"]]
    BY <1>3 DEF WriteText
  <2>2. /\ \A b \in Admins : b # a => asked'[b] = asked[b]
        /\ DOMAIN asked' = Admins
        /\ asked'[a] = [asked[a] EXCEPT !.pc = "store"]
    BY <2>1 DEF AdminInv
  <2> QED BY <2>1, <2>2 DEF AdminInv, UnderWay
<1>4. ASSUME NEW a \in Admins, WriteFails(a) \/ StoreConfig(a) \/ AbandonRequest(a) PROVE AdminInv'
  <2>1. asked' = [asked EXCEPT ![a] = Idle] /\ disk' = disk
    BY <1>4 DEF WriteFails, StoreConfig, AbandonRequest
  <2>2. /\ \A b \in Admins : b # a => asked'[b] = asked[b]
        /\ DOMAIN asked' = Admins /\ asked'[a] = Idle /\ Idle.pc = "idle"
    BY <2>1 DEF AdminInv, Idle
  <2>3. \A b \in Admins : UnderWay(b)' => b # a /\ UnderWay(b) /\ asked'[b] = asked[b]
    BY <2>2 DEF UnderWay
  <2>4. CASE WriteFails(a)
    <3>1. asked[a].pc = "write" /\ UNCHANGED <<memory, disturbed>>
      BY <2>4 DEF WriteFails
    <3> QED BY <2>1, <2>2, <2>3, <3>1 DEF AdminInv, UnderWay
  <2>5. CASE StoreConfig(a)
    <3>1. asked[a].pc = "store" /\ memory' = asked[a].next /\ UNCHANGED disturbed
      BY <2>5 DEF StoreConfig
    <3>2. ~disturbed => Load(disk).config = memory'
      BY <3>1 DEF AdminInv, UnderWay
    <3> QED BY <2>1, <2>2, <2>3, <3>1, <3>2 DEF AdminInv, UnderWay
  <2>6. CASE AbandonRequest(a)
    <3>1. disturbed'
      BY <2>6 DEF AbandonRequest
    <3> QED BY <2>1, <2>2, <2>3, <3>1 DEF AdminInv, UnderWay
  <2> QED BY <1>4, <2>4, <2>5, <2>6
<1>5. CASE RestartServer
  <2>1. \A a \in Admins : asked'[a].pc = "idle"
    BY <1>5 DEF RestartServer, Idle
  <2> QED BY <1>5, <2>1 DEF RestartServer, AdminInv, UnderWay
<1>6. CASE UNCHANGED adminVars
  BY <1>6 DEF adminVars, AdminInv, UnderWay
<1> QED BY <1>1, <1>2, <1>3, <1>4, <1>5, <1>6 DEF AdminNext

\* Whatever the administrators did, the file is one the server can start from (every request
\* loads the text it writes, and writes it as a whole), and as long as requests came one after
\* the other it comes up with the configuration in force.
THEOREM RestartIsSafe == AdminSpec => []RestartAgrees
<1>1. AdminInv => RestartAgrees
  BY DEF AdminInv, RestartAgrees
<1> QED BY <1>1, AdminInvInit, AdminInvKept, PTL DEF AdminSpec

-----------------------------------------------------------------------------
(***************************************************************************)
(* FileTools: a patch, planned on what was read, written and taken back.   *)
(***************************************************************************)
FileSpec == FilesInit /\ [][FilesNext]_fileVars

\* What a plan read of the files, and what it makes of them.
Reads(plan, files) ==
    /\ DOMAIN plan \subseteq Paths
    /\ \A n \in DOMAIN plan : /\ DOMAIN plan[n] = {"initial", "current"}
                              /\ plan[n].initial = files[FileOf(n)]

Shows(plan, files, now) ==
    /\ now = [f \in WorkFiles |-> now[f]]
    /\ \A n \in DOMAIN plan : now[FileOf(n)] = plan[n].current
    /\ \A f \in WorkFiles : (\A n \in DOMAIN plan : FileOf(n) # f) => now[f] = files[f]

Single(paths) == \A m, n \in paths : FileOf(m) = FileOf(n) => m = n

\* A path that the plan meets is read as it was.
LEMMA PlannedReads ==
  ASSUME NEW plan, NEW n \in Paths, Reads(plan, workspace)
  PROVE  /\ Reads(Planned(plan, n), workspace)
         /\ DOMAIN Planned(plan, n) = DOMAIN plan \cup {n}
<1>1. CASE n \in DOMAIN plan
  BY <1>1 DEF Planned
<1>2. CASE n \notin DOMAIN plan
  BY <1>2 DEF Planned, Reads
<1> QED BY <1>1, <1>2

LEMMA PlannedShows ==
  ASSUME NEW plan, NEW n \in Paths, NEW now, Single(DOMAIN plan \cup {n}),
         Reads(plan, workspace), Shows(plan, workspace, now)
  PROVE  Shows(Planned(plan, n), workspace, now)
<1>1. FileOf(n) \in WorkFiles
  BY DEF WorkFiles, Paths, Range
<1>2. CASE n \in DOMAIN plan
  BY <1>2 DEF Planned
<1>3. CASE n \notin DOMAIN plan
  <2>1. now[FileOf(n)] = workspace[FileOf(n)]
    BY <1>1, <1>3 DEF Single, Shows
  <2>2. /\ DOMAIN Planned(plan, n) = DOMAIN plan \cup {n}
        /\ \A m \in DOMAIN plan : Planned(plan, n)[m] = plan[m]
        /\ Planned(plan, n)[n] = [initial |-> workspace[FileOf(n)], current |-> workspace[FileOf(n)]]
    BY <1>3 DEF Planned
  <2> QED BY <2>1, <2>2 DEF Shows
<1> QED BY <1>2, <1>3

\* A path is given another text.
LEMMA WithTextReads ==
  ASSUME NEW plan, NEW n \in Paths, NEW text, Reads(plan, workspace)
  PROVE  /\ Reads(WithText(plan, n, text), workspace)
         /\ DOMAIN WithText(plan, n, text) = DOMAIN plan \cup {n}
<1> DEFINE p == Planned(plan, n)
<1>1. Reads(p, workspace) /\ DOMAIN p = DOMAIN plan \cup {n}
  BY PlannedReads
<1>2. /\ DOMAIN WithText(plan, n, text) = DOMAIN p
      /\ \A m \in DOMAIN p : /\ WithText(plan, n, text)[m].initial = p[m].initial
                             /\ DOMAIN WithText(plan, n, text)[m] = DOMAIN p[m]
  <2> HIDE DEF p
  <2>1. WithText(plan, n, text) = [p EXCEPT ![n] = [p[n] EXCEPT !.current = text]]
    BY DEF WithText, p
  <2>2. DOMAIN p[n] = {"initial", "current"}
    BY <1>1 DEF Reads
  <2> QED BY <1>1, <2>1, <2>2
<1> HIDE DEF p
<1> QED BY <1>1, <1>2 DEF Reads

LEMMA WithTextShows ==
  ASSUME NEW plan, NEW n \in Paths, NEW text, NEW now, Single(DOMAIN plan \cup {n}),
         Reads(plan, workspace), Shows(plan, workspace, now)
  PROVE  Shows(WithText(plan, n, text), workspace, [now EXCEPT ![FileOf(n)] = text])
<1> DEFINE p == Planned(plan, n)
           q == [p[n] EXCEPT !.current = text]
           after == [now EXCEPT ![FileOf(n)] = text]
<1>1. Reads(p, workspace) /\ DOMAIN p = DOMAIN plan \cup {n} /\ Shows(p, workspace, now)
  BY PlannedReads, PlannedShows
<1>2. WithText(plan, n, text) = [p EXCEPT ![n] = q]
  BY DEF WithText
<1>3. FileOf(n) \in WorkFiles
  BY DEF WorkFiles, Paths, Range
<1> HIDE DEF p
<1>4. q.current = text
  BY <1>1 DEF Reads
<1> HIDE DEF q
<1>5. /\ \A f \in WorkFiles : after[f] = IF f = FileOf(n) THEN text ELSE now[f]
      /\ after = [f \in WorkFiles |-> after[f]]
  BY <1>1, <1>3 DEF Shows
<1> HIDE DEF after
<1>6. ASSUME NEW m \in DOMAIN p PROVE after[FileOf(m)] = [p EXCEPT ![n] = q][m].current
  <2>1. FileOf(m) \in WorkFiles
    BY <1>1 DEF Reads, WorkFiles, Paths, Range
  <2>2. CASE m = n
    BY <1>1, <1>4, <1>5, <2>1, <2>2
  <2>3. CASE m # n
    <3>1. FileOf(m) # FileOf(n)
      BY <1>1, <2>3 DEF Single
    <3>2. now[FileOf(m)] = p[m].current
      BY <1>1 DEF Shows
    <3> QED BY <1>5, <2>1, <2>3, <3>1, <3>2
  <2> QED BY <2>2, <2>3
<1>7. ASSUME NEW f \in WorkFiles, \A m \in DOMAIN p : FileOf(m) # f PROVE after[f] = workspace[f]
  <2>1. f # FileOf(n) /\ now[f] = workspace[f]
    BY <1>1, <1>7 DEF Shows
  <2> QED BY <1>5, <2>1
<1>8. Shows([p EXCEPT ![n] = q], workspace, after)
  BY <1>5, <1>6, <1>7 DEF Shows
<1> QED BY <1>2, <1>8 DEF after

\* An operation is planned as it would happen to the files.
LEMMA PlanWithReads ==
  ASSUME NEW plan, NEW op, op.kind \in {"add", "delete", "update"}, op.path \in Paths, op.to \in Paths,
         Reads(plan, workspace)
  PROVE  /\ Reads(PlanWith(plan, op), workspace)
         /\ DOMAIN PlanWith(plan, op) \subseteq DOMAIN plan \cup {op.path, op.to}
<1>1. CASE op.kind \in {"add", "delete"}
  <2>1. PICK text : PlanWith(plan, op) = WithText(plan, op.path, text)
    BY <1>1 DEF PlanWith
  <2>2. Reads(WithText(plan, op.path, text), workspace)
        /\ DOMAIN WithText(plan, op.path, text) = DOMAIN plan \cup {op.path}
    BY WithTextReads
  <2> QED BY <2>1, <2>2
<1>2. CASE op.kind = "update"
  <2> DEFINE new == ApplyHunks(Current(plan, op.path), op.hunks).text
             gone == WithText(plan, op.path, Absent)
  <2>1. Reads(gone, workspace) /\ DOMAIN gone = DOMAIN plan \cup {op.path}
    BY WithTextReads
  <2>2. PlanWith(plan, op) = WithText(gone, op.to, new)
    BY <1>2 DEF PlanWith
  <2> HIDE DEF gone, new
  <2>3. Reads(WithText(gone, op.to, new), workspace)
        /\ DOMAIN WithText(gone, op.to, new) = DOMAIN gone \cup {op.to}
    BY <2>1, WithTextReads
  <2> QED BY <2>1, <2>2, <2>3
<1> QED BY <1>1, <1>2

LEMMA PlanWithShows ==
  ASSUME NEW plan, NEW op, NEW now, op.kind \in {"add", "delete", "update"},
         op.path \in Paths, op.to \in Paths, Single(DOMAIN plan \cup {op.path, op.to}),
         Reads(plan, workspace), Shows(plan, workspace, now)
  PROVE  Shows(PlanWith(plan, op), workspace, Step(now, op))
<1>1. Single(DOMAIN plan \cup {op.path}) /\ op.path \in DOMAIN plan \cup {op.path}
  BY DEF Single
<1>2. CASE op.kind = "add"
  BY <1>1, <1>2, WithTextShows DEF PlanWith, Step
<1>3. CASE op.kind = "delete"
  BY <1>1, <1>3, WithTextShows DEF PlanWith, Step
<1>4. CASE op.kind = "update"
  <2> DEFINE new == ApplyHunks(now[FileOf(op.path)], op.hunks).text
             gone == WithText(plan, op.path, Absent)
             left == [now EXCEPT ![FileOf(op.path)] = Absent]
  <2>1. Current(plan, op.path) = now[FileOf(op.path)]
    <3>1. Shows(Planned(plan, op.path), workspace, now) /\ op.path \in DOMAIN Planned(plan, op.path)
      BY <1>1, PlannedShows, PlannedReads
    <3> QED BY <3>1 DEF Shows, Current
  <2>2. Shows(gone, workspace, left)
    BY <1>1, WithTextShows
  <2>3. Reads(gone, workspace) /\ DOMAIN gone = DOMAIN plan \cup {op.path}
    BY WithTextReads
  <2>4. PlanWith(plan, op) = WithText(gone, op.to, new)
    BY <1>4, <2>1 DEF PlanWith
  <2>5. Step(now, op) = [left EXCEPT ![FileOf(op.to)] = new]
    BY <1>4 DEF Step
  <2>6. Single(DOMAIN gone \cup {op.to})
    BY <2>3 DEF Single
  <2> HIDE DEF gone, left, new
  <2>7. Shows(WithText(gone, op.to, new), workspace, [left EXCEPT ![FileOf(op.to)] = new])
    BY <2>2, <2>3, <2>6, WithTextShows
  <2> QED BY <2>4, <2>5, <2>7
<1> QED BY <1>2, <1>3, <1>4

-----------------------------------------------------------------------------
\* The operations of a patch, applied one after the other.
Applies(h, files, ops, k) ==
    /\ h = [i \in 0..k |-> h[i]]
    /\ h[0] = files
    /\ \A i \in 1..k : h[i] = Step(h[i - 1], ops[i])

\* The recursive function of Applied exists.
LEMMA AppliedFunction ==
  ASSUME NEW S, NEW ops \in Seq(S), NEW files
  PROVE  Applies(Applied(files, ops), files, ops, Len(ops))
<1> DEFINE K == {k \in 0..Len(ops) : \E h : Applies(h, files, ops, k)}
           Body(h, i) == IF i = 0 THEN files ELSE Step(h[i - 1], ops[i])
           Fits(h) == h = [i \in 0..Len(ops) |-> Body(h, i)]
<1>1. Len(ops) \in Nat
  OBVIOUS
<1>2. 0 \in K
  <2>1. Applies([i \in 0..0 |-> files], files, ops, 0)
    BY DEF Applies
  <2> QED BY <1>1, <2>1
<1>3. ASSUME NEW k \in 1..Len(ops), k - 1 \in K PROVE k \in K
  <2>1. PICK h : Applies(h, files, ops, k - 1)
    BY <1>3
  <2> DEFINE g == [i \in 0..k |-> IF i = k THEN Step(h[k - 1], ops[k]) ELSE h[i]]
  <2>2. /\ \A i \in 0..k - 1 : g[i] = h[i]
        /\ g[k] = Step(h[k - 1], ops[k]) /\ g = [i \in 0..k |-> g[i]]
    BY <1>1
  <2> HIDE DEF g
  <2>3. ASSUME NEW i \in 1..k PROVE g[i] = Step(g[i - 1], ops[i])
    <3>1. i - 1 \in 0..k - 1
      BY <1>1
    <3>2. CASE i = k
      BY <2>2, <3>1, <3>2
    <3>3. CASE i # k
      <4>1. i \in 1..k - 1 /\ i \in 0..k - 1
        BY <1>1, <3>3
      <4> QED BY <2>1, <2>2, <3>1, <4>1 DEF Applies
    <3> QED BY <3>2, <3>3
  <2>4. 0 \in 0..k - 1
    BY <1>1
  <2>5. Applies(g, files, ops, k)
    BY <2>1, <2>2, <2>3, <2>4 DEF Applies
  <2> QED BY <2>5
<1>4. Len(ops) \in K
  <2>1. \A i \in 1..Len(ops) : i - 1 \in K => i \in K
    BY <1>3
  <2> HIDE DEF K
  <2>2. \A i \in 0..Len(ops) : i \in K
    BY <1>1, <1>2, <2>1, BoundedInduction
  <2> QED BY <1>1, <2>2
<1>5. PICK h : Applies(h, files, ops, Len(ops))
  BY <1>4
<1>6. \A i \in 0..Len(ops) : i = 0 \/ i \in 1..Len(ops)
  BY <1>1
<1>7. Fits(h)
  <2>1. \A i \in 0..Len(ops) : h[i] = Body(h, i)
    BY <1>5, <1>6 DEF Applies
  <2>2. h = [i \in 0..Len(ops) |-> h[i]]
    BY <1>5 DEF Applies
  <2> HIDE DEF Body
  <2> QED BY <2>1, <2>2
<1> DEFINE g == CHOOSE x : Fits(x)
<1>8. Fits(g)
  <2> HIDE DEF Fits
  <2> QED BY <1>7
<1>9. Applied(files, ops) = g
  BY DEF Applied
<1> HIDE DEF g
<1>10. \A i \in 0..Len(ops) : g[i] = Body(g, i)
  <2> HIDE DEF Body
  <2> QED BY <1>8
<1>11. g = [i \in 0..Len(ops) |-> g[i]]
  <2> HIDE DEF Body
  <2> QED BY <1>8
<1>12. g[0] = files /\ \A i \in 1..Len(ops) : g[i] = Step(g[i - 1], ops[i])
  <2>1. 0 \in 0..Len(ops) /\ \A i \in 1..Len(ops) : i \in 0..Len(ops) /\ i # 0
    BY <1>1
  <2> QED BY <1>10, <2>1
<1> QED BY <1>9, <1>11, <1>12 DEF Applies

-----------------------------------------------------------------------------
\* The paths of a set that were found up to a spelling.
Orders(f, paths, k) ==
    /\ f \in [0..k -> Seq(Paths)]
    /\ f[0] = <<>>
    /\ \A i \in 1..k : f[i] = IF Spellings[i] \in paths THEN Append(f[i - 1], Spellings[i]) ELSE f[i - 1]

\* The recursive function of InOrder exists.
LEMMA InOrderFunction ==
  ASSUME NEW paths
  PROVE  \E f : Orders(f, paths, Len(Spellings)) /\ InOrder(paths) = f[Len(Spellings)]
<1> DEFINE n == Len(Spellings)
           Body(f, i) == IF i = 0 THEN <<>>
                         ELSE IF Spellings[i] \in paths THEN Append(f[i - 1], Spellings[i])
                         ELSE f[i - 1]
           K == {k \in 0..n : \E f : Orders(f, paths, k)}
           Fits(f) == f = [i \in 0..n |-> Body(f, i)]
<1>1. n \in Nat /\ \A i \in 1..n : Spellings[i] \in Paths
  BY FileAssumption
<1>2. 0 \in K
  <2>1. Orders([i \in 0..0 |-> <<>>], paths, 0)
    BY DEF Orders
  <2> QED BY <1>1, <2>1
<1> HIDE DEF n
<1>3. ASSUME NEW k \in 1..n, k - 1 \in K PROVE k \in K
  <2>1. PICK f : Orders(f, paths, k - 1)
    BY <1>3
  <2>2. /\ k - 1 \in 0..k - 1 /\ 0 \in 0..k - 1
        /\ \A i \in 0..k : i = k \/ i \in 0..k - 1
        /\ \A i \in 1..k : i - 1 \in 0..k - 1 /\ (i # k => i \in 1..k - 1 /\ i \in 0..k - 1)
    BY <1>1
  <2> DEFINE new == Body(f, k)
             g == [i \in 0..k |-> IF i = k THEN new ELSE f[i]]
  <2>3. /\ new \in Seq(Paths)
        /\ new = IF Spellings[k] \in paths THEN Append(f[k - 1], Spellings[k]) ELSE f[k - 1]
    <3>1. f[k - 1] \in Seq(Paths)
      BY <2>1, <2>2 DEF Orders
    <3>2. Append(f[k - 1], Spellings[k]) \in Seq(Paths)
      BY <1>1, <3>1
    <3>3. k # 0
      BY <1>1
    <3> QED BY <3>1, <3>2, <3>3
  <2> HIDE DEF new
  <2>4. /\ \A i \in 0..k - 1 : g[i] = f[i] /\ f[i] \in Seq(Paths)
        /\ g[k] = new /\ g \in [0..k -> Seq(Paths)]
    BY <1>1, <2>1, <2>2, <2>3 DEF Orders
  <2> HIDE DEF g
  <2>5. ASSUME NEW i \in 1..k
        PROVE  g[i] = IF Spellings[i] \in paths THEN Append(g[i - 1], Spellings[i]) ELSE g[i - 1]
    <3>1. CASE i = k
      BY <2>2, <2>3, <2>4, <3>1
    <3>2. CASE i # k
      BY <2>1, <2>2, <2>4, <3>2 DEF Orders
    <3> QED BY <3>1, <3>2
  <2>6. Orders(g, paths, k)
    BY <2>1, <2>2, <2>4, <2>5 DEF Orders
  <2> QED BY <2>6
<1>4. n \in K
  <2>1. \A i \in 1..n : i - 1 \in K => i \in K
    BY <1>3
  <2> HIDE DEF K
  <2>2. \A i \in 0..n : i \in K
    BY <1>1, <1>2, <2>1, BoundedInduction
  <2> QED BY <1>1, <2>2
<1>5. PICK f : Orders(f, paths, n)
  BY <1>4
<1>6. \A i \in 0..n : i = 0 \/ i \in 1..n
  BY <1>1
<1>7. Fits(f)
  <2>1. \A i \in 0..n : f[i] = Body(f, i)
    BY <1>5, <1>6 DEF Orders
  <2>2. f = [i \in 0..n |-> f[i]]
    BY <1>5 DEF Orders
  <2> HIDE DEF Body
  <2> QED BY <2>1, <2>2
<1> DEFINE g == CHOOSE x : Fits(x)
<1>8. Fits(g)
  <2> HIDE DEF Fits
  <2> QED BY <1>7
<1>9. InOrder(paths) = g[n]
  BY DEF InOrder, n
<1> HIDE DEF g
<1>10. \A i \in 0..n : g[i] = Body(g, i)
  <2> HIDE DEF Body
  <2> QED BY <1>8
<1>11. g = [i \in 0..n |-> g[i]]
  <2> HIDE DEF Body
  <2> QED BY <1>8
<1> DEFINE T == {i \in 0..n : g[i] \in Seq(Paths)}
<1>12. g[0] = <<>> /\ \A i \in 1..n : g[i] = IF Spellings[i] \in paths
                                             THEN Append(g[i - 1], Spellings[i]) ELSE g[i - 1]
  <2>1. 0 \in 0..n /\ \A i \in 1..n : i \in 0..n /\ i # 0
    BY <1>1
  <2> QED BY <1>10, <2>1
<1>13. \A i \in 0..n : i \in T
  <2>1. 0 \in T
    <3>1. <<>> \in Seq(Paths) /\ 0 \in 0..n
      BY <1>1
    <3> QED BY <1>12, <3>1
  <2>2. ASSUME NEW i \in 1..n, i - 1 \in T PROVE i \in T
    <3>1. g[i - 1] \in Seq(Paths) /\ Spellings[i] \in Paths /\ i \in 0..n
      BY <1>1, <2>2
    <3>2. Append(g[i - 1], Spellings[i]) \in Seq(Paths)
      BY <3>1
    <3> QED BY <1>12, <3>1, <3>2
  <2> HIDE DEF T
  <2> QED BY <1>1, <2>1, <2>2, BoundedInduction
<1>14. Orders(g, paths, n)
  BY <1>11, <1>12, <1>13 DEF Orders
<1> QED BY <1>9, <1>14 DEF n

\* The paths written are those of the set.
LEMMA InOrderProperties ==
  ASSUME NEW paths, paths \subseteq Paths
  PROVE  InOrder(paths) \in Seq(Paths) /\ ToSet(InOrder(paths)) = paths
<1> DEFINE n == Len(Spellings)
<1>1. PICK f : Orders(f, paths, n) /\ InOrder(paths) = f[n]
  BY InOrderFunction
<1>2. n \in Nat /\ \A i \in 1..n : Spellings[i] \in Paths
  BY FileAssumption
<1>3. Paths = {Spellings[i] : i \in 1..n}
  <2>1. DOMAIN Spellings = 1..n
    BY FileAssumption
  <2> QED BY <2>1 DEF Paths, Range
<1> HIDE DEF n
<1> DEFINE Met(i) == {Spellings[j] : j \in 1..i}
           T == {i \in 0..n : ToSet(f[i]) = paths \cap Met(i)}
<1>4. 0 \in T
  <2>1. ToSet(<<>>) = {}
    BY DEF ToSet
  <2>2. f[0] = <<>> /\ 1..0 = {}
    BY <1>1 DEF Orders
  <2>3. Met(0) = {} /\ 0 \in 0..n
    BY <1>2, <2>2
  <2> HIDE DEF Met
  <2> QED BY <2>1, <2>2, <2>3
<1>5. ASSUME NEW i \in 1..n, i - 1 \in T PROVE i \in T
  <2>1. f[i - 1] \in Seq(Paths) /\ Spellings[i] \in Paths
    <3>1. i - 1 \in 0..n
      BY <1>2
    <3> QED BY <1>1, <1>2, <3>1 DEF Orders
  <2>2. Met(i) = Met(i - 1) \cup {Spellings[i]}
    <3>1. 1..i = (1..i - 1) \cup {i}
      BY <1>2
    <3> QED BY <3>1
  <2>3. ToSet(Append(f[i - 1], Spellings[i])) = ToSet(f[i - 1]) \cup {Spellings[i]}
    BY <2>1, ToSetAppend
  <2>4. f[i] = IF Spellings[i] \in paths THEN Append(f[i - 1], Spellings[i]) ELSE f[i - 1]
    BY <1>1 DEF Orders
  <2>5. ToSet(f[i - 1]) = paths \cap Met(i - 1) /\ i \in 0..n
    BY <1>2, <1>5
  <2> HIDE DEF Met
  <2> QED BY <2>2, <2>3, <2>4, <2>5
<1>6. n \in T
  <2> HIDE DEF T
  <2>1. \A i \in 0..n : i \in T
    BY <1>2, <1>4, <1>5, BoundedInduction
  <2> QED BY <1>2, <2>1
<1>7. InOrder(paths) \in Seq(Paths)
  BY <1>1, <1>2 DEF Orders
<1> QED BY <1>1, <1>3, <1>6, <1>7

-----------------------------------------------------------------------------
\* The first of a list, and the rest.
LEMMA HeadAndTail ==
  ASSUME NEW S, NEW s \in Seq(S), s # <<>>
  PROVE  /\ Head(s) \in S /\ Tail(s) \in Seq(S)
         /\ ToSet(s) = {Head(s)} \cup ToSet(Tail(s))
<1>1. /\ Len(s) \in Nat \ {0} /\ Tail(s) \in Seq(S) /\ Len(Tail(s)) = Len(s) - 1
      /\ \A i \in 1..Len(s) - 1 : Tail(s)[i] = s[i + 1]
      /\ Head(s) = s[1] /\ 1 \in 1..Len(s)
  OBVIOUS
<1>2. ASSUME NEW x PROVE x \in ToSet(s) <=> x = s[1] \/ x \in ToSet(Tail(s))
  <2>1. (x \in ToSet(s) <=> \E i \in 1..Len(s) : s[i] = x)
        /\ (x \in ToSet(Tail(s)) <=> \E i \in 1..Len(Tail(s)) : Tail(s)[i] = x)
    <3>1. \A t \in Seq(S) : x \in ToSet(t) <=> \E i \in 1..Len(t) : t[i] = x
      BY InToSet
    <3> QED BY <1>1, <3>1
  <2>2. ASSUME NEW i \in 1..Len(s), s[i] = x PROVE x = s[1] \/ x \in ToSet(Tail(s))
    <3>1. i = 1 \/ (i - 1 \in 1..Len(s) - 1 /\ (i - 1) + 1 = i)
      BY <1>1
    <3>2. CASE i # 1
      <4>1. Tail(s)[i - 1] = x /\ i - 1 \in 1..Len(Tail(s))
        BY <1>1, <2>2, <3>1, <3>2
      <4> QED BY <2>1, <4>1
    <3> QED BY <2>2, <3>2
  <2>3. ASSUME NEW i \in 1..Len(Tail(s)), Tail(s)[i] = x PROVE x \in ToSet(s)
    <3>1. i + 1 \in 1..Len(s) /\ s[i + 1] = x
      BY <1>1, <2>3
    <3> QED BY <2>1, <3>1
  <2> QED BY <1>1, <2>1, <2>2, <2>3
<1> QED BY <1>1, <1>2

LEMMA ConsToSet ==
  ASSUME NEW S, NEW s \in Seq(S), NEW x \in S
  PROVE  <<x>> \o s \in Seq(S) /\ ToSet(<<x>> \o s) = {x} \cup ToSet(s)
<1> DEFINE t == <<x>> \o s
<1>1. t \in Seq(S) /\ t # <<>> /\ Head(t) = x
  OBVIOUS
<1>2. Tail(t) = s
  OBVIOUS
<1> QED BY <1>1, <1>2, HeadAndTail

-----------------------------------------------------------------------------
Fields == {"at", "tool", "asked", "ops", "next", "plan", "todo", "undo", "text", "before", "alone", "clean"}

\* Only the files of these paths differ from what they were.
Elsewhere(e, paths, files) ==
    \A f \in WorkFiles : (\A n \in paths : FileOf(n) # f) => files[f] = e.before[f]

\* What is known of a patch while no other call writes.
Planning(e, files) ==
    /\ e.ops = e.asked /\ files = e.before /\ e.undo = <<>>
    /\ e.next \in 1..Len(e.asked) + 1
    /\ Reads(e.plan, e.before) /\ DOMAIN e.plan \subseteq PathsOf(e.asked)
    /\ OneSpelling(e.asked) => Shows(e.plan, e.before, Applied(e.before, e.asked)[e.next - 1])

Writing(e, files) ==
    /\ Reads(e.plan, e.before) /\ DOMAIN e.plan \subseteq PathsOf(e.asked)
    /\ e.todo \in Seq(Paths) /\ ToSet(e.todo) \subseteq DOMAIN e.plan
    /\ e.undo \in Seq(Paths) /\ ToSet(e.undo) \subseteq DOMAIN e.plan
    /\ Elsewhere(e, ToSet(e.undo), files)
    /\ OneSpelling(e.asked) =>
          /\ Shows(e.plan, e.before, Outcome(e.before, e.asked))
          /\ \A n \in DOMAIN e.plan \ ToSet(e.todo) : files[FileOf(n)] = e.plan[n].current

Undoing(e, files) ==
    /\ Reads(e.plan, e.before)
    /\ e.undo \in Seq(Paths) /\ ToSet(e.undo) \subseteq DOMAIN e.plan
    /\ e.clean => Elsewhere(e, ToSet(e.undo), files)

PatchFits(e, files) ==
    /\ e.asked \in PatchLists
    /\ e.at = "planning" => Planning(e, files)
    /\ e.at = "writing" => Writing(e, files)
    /\ e.at = "undoing" => Undoing(e, files)
    /\ e.at = "done" /\ OneSpelling(e.asked) => files = Outcome(e.before, e.asked)
    /\ e.at = "failed" /\ e.clean => files = e.before

CallFits(e, files) ==
    /\ DOMAIN e = Fields
    /\ e.at \in {"planning", "writing", "undoing", "done", "failed"}
    /\ e.tool = "apply_patch" /\ e.alone =>
          e.before = [f \in WorkFiles |-> e.before[f]] /\ PatchFits(e, files)

FilesInv ==
    /\ workspace = [f \in WorkFiles |-> workspace[f]]
    /\ DOMAIN editor = Editors
    /\ \A a \in Editors : editor[a] # Idling => CallFits(editor[a], workspace)

LEMMA FilesInvInit == FilesInit => FilesInv
<1> SUFFICES ASSUME FilesInit PROVE FilesInv
  OBVIOUS
<1>1. workspace = [f \in WorkFiles |-> workspace[f]]
  BY FileAssumption DEF FilesInit
<1> QED BY <1>1 DEF FilesInit, FilesInv

\* Nothing is written, and the call a goes on as e.
LEMMA CallGoesOn ==
  ASSUME FilesInv, NEW a \in Editors, NEW e, editor' = [editor EXCEPT ![a] = e],
         workspace' = workspace, e # Idling => CallFits(e, workspace)
  PROVE  FilesInv'
<1>1. editor'[a] = e /\ (\A b \in Editors : b # a => editor'[b] = editor[b]) /\ DOMAIN editor' = Editors
  BY DEF FilesInv
<1>2. ASSUME NEW b \in Editors, editor'[b] # Idling PROVE CallFits(editor'[b], workspace')
  BY <1>1, <1>2 DEF FilesInv
<1> QED BY <1>1, <1>2 DEF FilesInv

\* The call a writes a file and goes on as e; no other call is alone then.
LEMMA FileWritten ==
  ASSUME FilesInv, NEW a \in Editors, NEW f, NEW text, NEW e, Put(a, f, text, e), CallFits(e, workspace')
  PROVE  FilesInv'
<1>1. workspace' = [workspace EXCEPT ![f] = text] /\ workspace' = [g \in WorkFiles |-> workspace'[g]]
  BY DEF Put, FilesInv
<1>2. DOMAIN editor' = Editors /\ editor'[a] = e
  BY DEF Put
<1>3. ASSUME NEW b \in Editors, editor'[b] # Idling PROVE CallFits(editor'[b], workspace')
  <2>1. CASE b = a
    BY <1>2, <2>1
  <2>2. CASE b # a
    <3>1. editor[b] # Idling /\ editor'[b] = [editor[b] EXCEPT !.alone = FALSE]
      BY <1>3, <2>2 DEF Put
    <3>2. CallFits(editor[b], workspace)
      BY <3>1 DEF FilesInv
    <3>3. DOMAIN editor'[b] = Fields /\ editor'[b].at = editor[b].at /\ ~editor'[b].alone
      BY <3>1, <3>2 DEF CallFits, Fields
    <3> QED BY <3>2, <3>3 DEF CallFits
  <2> QED BY <2>1, <2>2
<1> QED BY <1>1, <1>2, <1>3 DEF FilesInv

LEMMA ApplyPatchKeeps ==
  ASSUME FilesInv, NEW a \in Editors, NEW given \in PatchLists, NEW cut \in BOOLEAN,
         ApplyPatch(a, given, cut)
  PROVE  FilesInv'
<1> DEFINE block == PatchLines(given)
           parsed == ParsePatch(IF cut THEN Front(block) ELSE block)
           e == [NewCall("apply_patch") EXCEPT !.asked = given, !.ops = parsed.ops,
                    !.at = IF parsed.at = "ended" THEN @ ELSE "failed"]
<1>1. editor' = [editor EXCEPT ![a] = e] /\ workspace' = workspace
  BY DEF ApplyPatch
<1>2. /\ DOMAIN e = Fields /\ e.asked = given /\ e.ops = parsed.ops
      /\ e.at = IF parsed.at = "ended" THEN "planning" ELSE "failed"
      /\ e.before = workspace /\ e.plan = [n \in {} |-> {}] /\ e.next = 1 /\ e.undo = <<>>
  BY DEF NewCall, Fields
<1> HIDE DEF e
<1>3. parsed.at = "ended" => parsed.ops = given
  BY FileAssumption
<1> HIDE DEF parsed
<1>4. CASE parsed.at = "ended"
  <2>1. given \in Seq(Range(given))
    BY FileAssumption
  <2>2. Applied(workspace, given)[0] = workspace /\ 1 \in 1..Len(given) + 1
    BY <2>1, AppliedFunction DEF Applies
  <2>3. Reads(e.plan, e.before) /\ DOMAIN e.plan = {}
    BY <1>2 DEF Reads
  <2>4. Shows(e.plan, e.before, workspace)
    BY <1>2, <2>3 DEF Shows, FilesInv
  <2>5. Planning(e, workspace)
    BY <1>2, <1>3, <1>4, <2>2, <2>3, <2>4 DEF Planning
  <2>6. CallFits(e, workspace)
    BY <1>2, <1>4, <2>5 DEF CallFits, PatchFits, FilesInv
  <2> QED BY <1>1, <2>6, CallGoesOn
<1>5. CASE parsed.at # "ended"
  <2>1. CallFits(e, workspace)
    BY <1>2, <1>5 DEF CallFits, PatchFits, FilesInv
  <2> QED BY <1>1, <2>1, CallGoesOn
<1> QED BY <1>4, <1>5

LEMMA PlanOpKeeps ==
  ASSUME FilesInv, NEW a \in Editors, editor[a] # Idling, PlanOp(a)
  PROVE  FilesInv'
<1> DEFINE e == editor[a]
           op == e.ops[e.next]
           fresh == [e EXCEPT !.at = "writing", !.todo = InOrder(Altered(e.plan))]
           planned == [e EXCEPT !.next = @ + 1, !.plan = PlanWith(@, op)]
           failed == [e EXCEPT !.at = "failed"]
<1>1. CallFits(e, workspace) /\ DOMAIN e = Fields
  BY DEF FilesInv, CallFits
<1>2. e.at = "planning" /\ e.tool = "apply_patch" /\ workspace' = workspace
  BY DEF PlanOp
<1>3. \/ e.next > Len(e.ops) /\ editor' = [editor EXCEPT ![a] = fresh]
      \/ ~(e.next > Len(e.ops)) /\ CanPlan(e.plan, op) /\ editor' = [editor EXCEPT ![a] = planned]
      \/ editor' = [editor EXCEPT ![a] = failed]
  <2>1. editor' = [editor EXCEPT ![a].at = "failed"] => editor' = [editor EXCEPT ![a] = failed]
    OBVIOUS
  <2> QED BY <2>1 DEF PlanOp
<1>4. /\ DOMAIN fresh = Fields /\ fresh.at = "writing" /\ fresh.todo = InOrder(Altered(e.plan))
      /\ fresh.alone = e.alone /\ fresh.tool = e.tool /\ fresh.asked = e.asked /\ fresh.plan = e.plan
      /\ fresh.before = e.before /\ fresh.undo = e.undo
  BY <1>1 DEF Fields
<1>5. /\ DOMAIN planned = Fields /\ planned.at = "planning" /\ planned.plan = PlanWith(e.plan, op)
      /\ planned.next = e.next + 1 /\ planned.ops = e.ops /\ planned.before = e.before
      /\ planned.alone = e.alone /\ planned.tool = e.tool /\ planned.asked = e.asked
      /\ planned.undo = e.undo
  BY <1>1, <1>2 DEF Fields
<1>6. /\ DOMAIN failed = Fields /\ failed.at = "failed" /\ failed.before = e.before
      /\ failed.alone = e.alone /\ failed.asked = e.asked
  BY <1>1 DEF Fields
<1>7. e.alone => /\ Planning(e, workspace) /\ e.asked \in PatchLists
                 /\ e.before = [f \in WorkFiles |-> e.before[f]]
  BY <1>1, <1>2 DEF CallFits, PatchFits
<1> HIDE DEF fresh, planned, failed
<1>8. e.alone => /\ e.asked \in Seq(Range(e.asked)) /\ PathsOf(e.asked) \subseteq Paths
                 /\ \A x \in Range(e.asked) : x.kind \in {"add", "delete", "update"}
                 /\ Len(e.asked) \in Nat /\ DOMAIN e.asked = 1..Len(e.asked)
  <2> HIDE DEF e
  <2> SUFFICES ASSUME e.alone PROVE e.asked \in Seq(Range(e.asked)) /\ PathsOf(e.asked) \subseteq Paths
                 /\ \A x \in Range(e.asked) : x.kind \in {"add", "delete", "update"}
    OBVIOUS
  <2> QED BY <1>7, FileAssumption
<1>9. CASE e.next > Len(e.ops) /\ editor' = [editor EXCEPT ![a] = fresh]
  <2>1. ASSUME e.alone PROVE Writing(fresh, workspace)
    <3>1. Altered(e.plan) \subseteq DOMAIN e.plan /\ DOMAIN e.plan \subseteq Paths
      BY <1>7, <2>1 DEF Altered, Planning, Reads
    <3>2. fresh.todo \in Seq(Paths) /\ ToSet(fresh.todo) = Altered(e.plan)
      BY <1>4, <3>1, InOrderProperties
    <3>3. <<>> \in Seq(Paths) /\ ToSet(<<>>) = {}
      BY DEF ToSet
    <3>4. Elsewhere(fresh, ToSet(fresh.undo), workspace)
      BY <1>4, <1>7, <2>1 DEF Planning, Elsewhere
    <3>5. ASSUME OneSpelling(e.asked) PROVE Shows(e.plan, e.before, Outcome(e.before, e.asked))
      <4>1. e.next - 1 = Len(e.asked)
        BY <1>7, <1>8, <1>9, <2>1 DEF Planning
      <4> QED BY <1>7, <2>1, <3>5, <4>1 DEF Planning, Outcome
    <3>6. ASSUME NEW n \in DOMAIN e.plan \ ToSet(fresh.todo)
          PROVE  workspace[FileOf(n)] = e.plan[n].current
      <4>1. e.plan[n].current = e.plan[n].initial
        BY <3>2, <3>6 DEF Altered
      <4> QED BY <1>7, <2>1, <4>1 DEF Planning, Reads
    <3> HIDE DEF e
    <3> QED BY <1>4, <1>7, <2>1, <3>1, <3>2, <3>3, <3>4, <3>5, <3>6 DEF Writing, Planning
  <2>2. CallFits(fresh, workspace)
    BY <1>4, <1>7, <2>1 DEF CallFits, PatchFits
  <2> QED BY <1>2, <1>9, <2>2, CallGoesOn
<1>10. CASE /\ ~(e.next > Len(e.ops)) /\ CanPlan(e.plan, op)
            /\ editor' = [editor EXCEPT ![a] = planned]
  <2>1. ASSUME e.alone PROVE Planning(planned, workspace)
    <3>1. /\ e.next \in 1..Len(e.asked) /\ e.next + 1 \in 1..Len(e.asked) + 1
          /\ (e.next + 1) - 1 = e.next
      BY <1>7, <1>8, <1>10, <2>1 DEF Planning
    <3>2. op \in Range(e.asked) /\ op = e.asked[e.next]
      BY <1>7, <1>8, <2>1, <3>1 DEF Planning, Range
    <3>3. op.kind \in {"add", "delete", "update"} /\ op.path \in PathsOf(e.asked) /\ op.to \in PathsOf(e.asked)
      BY <1>8, <2>1, <3>2 DEF PathsOf
    <3>4. op.path \in Paths /\ op.to \in Paths
      BY <1>8, <2>1, <3>3
    <3>5. /\ Reads(e.plan, workspace) /\ e.before = workspace /\ DOMAIN e.plan \subseteq PathsOf(e.asked)
          /\ e.ops = e.asked /\ e.undo = <<>>
      BY <1>7, <2>1 DEF Planning
    <3>6. /\ Reads(PlanWith(e.plan, op), workspace)
          /\ DOMAIN PlanWith(e.plan, op) \subseteq DOMAIN e.plan \cup {op.path, op.to}
      <4> HIDE DEF op, e
      <4> QED BY <3>3, <3>4, <3>5, PlanWithReads
    <3>7. ASSUME OneSpelling(e.asked)
          PROVE  Shows(PlanWith(e.plan, op), workspace, Applied(workspace, e.asked)[e.next])
      <4> DEFINE now == Applied(workspace, e.asked)[e.next - 1]
      <4>1. Shows(e.plan, workspace, now)
        BY <1>7, <2>1, <3>5, <3>7 DEF Planning
      <4>2. Single(DOMAIN e.plan \cup {op.path, op.to})
        BY <3>3, <3>5, <3>7 DEF Single, OneSpelling
      <4>3. Applied(workspace, e.asked)[e.next] = Step(now, op)
        BY <1>8, <2>1, <3>1, <3>2, AppliedFunction DEF Applies
      <4> HIDE DEF op, e, now
      <4>4. Shows(PlanWith(e.plan, op), workspace, Step(now, op))
        BY <3>3, <3>4, <3>5, <4>1, <4>2, PlanWithShows
      <4> QED BY <4>3, <4>4
    <3> HIDE DEF op, e
    <3> QED BY <1>5, <3>1, <3>3, <3>5, <3>6, <3>7 DEF Planning
  <2>2. CallFits(planned, workspace)
    BY <1>5, <1>7, <2>1 DEF CallFits, PatchFits
  <2> QED BY <1>2, <1>10, <2>2, CallGoesOn
<1>11. CASE editor' = [editor EXCEPT ![a] = failed]
  <2>1. CallFits(failed, workspace)
    BY <1>6, <1>7 DEF CallFits, PatchFits, Planning
  <2> QED BY <1>2, <1>11, <2>1, CallGoesOn
<1> QED BY <1>3, <1>9, <1>10, <1>11

LEMMA WritePathKeeps ==
  ASSUME FilesInv, NEW a \in Editors, editor[a] # Idling, WritePath(a)
  PROVE  FilesInv'
<1> DEFINE e == editor[a]
           n == Head(e.todo)
           ended == [e EXCEPT !.at = "done"]
           written == [e EXCEPT !.todo = Tail(@), !.undo = <<n>> \o @]
           failed == [e EXCEPT !.at = "undoing", !.undo = UndoList(e)]
           Patching == e.alone /\ e.tool = "apply_patch"
<1>1. CallFits(e, workspace) /\ DOMAIN e = Fields
  BY DEF FilesInv, CallFits
<1>2. e.at = "writing"
  BY DEF WritePath
<1>3. \/ e.todo = <<>> /\ editor' = [editor EXCEPT ![a] = ended] /\ workspace' = workspace
      \/ e.todo # <<>> /\ Put(a, FileOf(n), e.plan[n].current, written)
      \/ e.todo # <<>> /\ \E left : Put(a, FileOf(n), left, failed)
  <2>1. editor' = [editor EXCEPT ![a].at = "done"] => editor' = [editor EXCEPT ![a] = ended]
    OBVIOUS
  <2> QED BY <2>1 DEF WritePath
<1>4. /\ DOMAIN ended = Fields /\ ended.at = "done" /\ ended.alone = e.alone /\ ended.tool = e.tool
      /\ ended.asked = e.asked /\ ended.before = e.before
  BY <1>1 DEF Fields
<1>5. /\ DOMAIN written = Fields /\ written.at = "writing" /\ written.alone = e.alone
      /\ written.tool = e.tool /\ written.asked = e.asked /\ written.before = e.before
      /\ written.plan = e.plan /\ written.todo = Tail(e.todo) /\ written.undo = <<n>> \o e.undo
  BY <1>1, <1>2 DEF Fields
<1>6. /\ DOMAIN failed = Fields /\ failed.at = "undoing" /\ failed.alone = e.alone
      /\ failed.tool = e.tool /\ failed.asked = e.asked /\ failed.before = e.before
      /\ failed.plan = e.plan /\ failed.undo = <<n>> \o e.undo
  BY <1>1 DEF Fields, UndoList
<1>7. Patching => /\ Writing(e, workspace) /\ e.asked \in PatchLists
                  /\ e.before = [f \in WorkFiles |-> e.before[f]]
  BY <1>1, <1>2 DEF CallFits, PatchFits
<1> HIDE DEF ended, written, failed
<1>8. CASE e.todo = <<>> /\ editor' = [editor EXCEPT ![a] = ended] /\ workspace' = workspace
  <2>1. ASSUME Patching, OneSpelling(e.asked) PROVE workspace = Outcome(e.before, e.asked)
    <3> DEFINE now == Outcome(e.before, e.asked)
    <3>1. /\ Shows(e.plan, e.before, now) /\ Elsewhere(e, ToSet(e.undo), workspace)
          /\ ToSet(e.undo) \subseteq DOMAIN e.plan
          /\ \A m \in DOMAIN e.plan \ ToSet(e.todo) : workspace[FileOf(m)] = e.plan[m].current
      BY <1>7, <2>1 DEF Writing
    <3>2. ToSet(e.todo) = {}
      BY <1>8 DEF ToSet
    <3> HIDE DEF now, e
    <3>3. ASSUME NEW f \in WorkFiles PROVE workspace[f] = now[f]
      <4>1. CASE \E m \in DOMAIN e.plan : FileOf(m) = f
        BY <3>1, <3>2, <4>1 DEF Shows
      <4>2. CASE \A m \in DOMAIN e.plan : FileOf(m) # f
        BY <3>1, <4>2 DEF Shows, Elsewhere
      <4> QED BY <4>1, <4>2
    <3>4. workspace = [f \in WorkFiles |-> workspace[f]] /\ now = [f \in WorkFiles |-> now[f]]
      BY <3>1 DEF FilesInv, Shows
    <3>5. workspace = now
      BY <3>3, <3>4
    <3> QED BY <3>5 DEF now
  <2> HIDE DEF e
  <2>2. CallFits(ended, workspace)
    BY <1>4, <1>7, <2>1 DEF CallFits, PatchFits
  <2> QED BY <1>8, <2>2, CallGoesOn
<1>9. ASSUME Patching, e.todo # <<>>
      PROVE  /\ n \in Paths /\ FileOf(n) \in WorkFiles /\ n \in DOMAIN e.plan
             /\ Tail(e.todo) \in Seq(Paths) /\ ToSet(e.todo) = {n} \cup ToSet(Tail(e.todo))
             /\ <<n>> \o e.undo \in Seq(Paths) /\ ToSet(<<n>> \o e.undo) = {n} \cup ToSet(e.undo)
  <2>1. e.todo \in Seq(Paths) /\ ToSet(e.todo) \subseteq DOMAIN e.plan /\ e.undo \in Seq(Paths)
    BY <1>7, <1>9 DEF Writing
  <2> HIDE DEF e
  <2>2. n \in Paths /\ Tail(e.todo) \in Seq(Paths) /\ ToSet(e.todo) = {n} \cup ToSet(Tail(e.todo))
    BY <1>9, <2>1, HeadAndTail
  <2>3. FileOf(n) \in WorkFiles
    BY <2>2 DEF WorkFiles, Paths, Range
  <2> HIDE DEF n
  <2>4. <<n>> \o e.undo \in Seq(Paths) /\ ToSet(<<n>> \o e.undo) = {n} \cup ToSet(e.undo)
    BY <2>1, <2>2, ConsToSet
  <2> QED BY <2>1, <2>2, <2>3, <2>4
\* What is written to n leaves the other files as they are.
<1>10. ASSUME Patching, e.todo # <<>>, NEW text, workspace' = [workspace EXCEPT ![FileOf(n)] = text]
       PROVE  /\ workspace'[FileOf(n)] = text
              /\ \A f \in WorkFiles : f # FileOf(n) => workspace'[f] = workspace[f]
              /\ \A f \in WorkFiles : (\A m \in ToSet(<<n>> \o e.undo) : FileOf(m) # f)
                    => workspace'[f] = e.before[f]
  <2>1. Elsewhere(e, ToSet(e.undo), workspace) /\ DOMAIN workspace = WorkFiles
    BY <1>7, <1>10 DEF Writing, FilesInv
  <2> HIDE DEF e, n
  <2> QED BY <1>9, <1>10, <2>1 DEF Elsewhere
<1>11. CASE e.todo # <<>> /\ Put(a, FileOf(n), e.plan[n].current, written)
  <2> DEFINE text == e.plan[n].current
  <2>1. workspace' = [workspace EXCEPT ![FileOf(n)] = text]
    BY <1>11 DEF Put
  <2>2. ASSUME Patching PROVE Writing(written, workspace')
    <3>1. /\ Reads(e.plan, e.before) /\ DOMAIN e.plan \subseteq PathsOf(e.asked)
          /\ ToSet(e.todo) \subseteq DOMAIN e.plan /\ ToSet(e.undo) \subseteq DOMAIN e.plan
      BY <1>7, <2>2 DEF Writing
    <3>2. Elsewhere(written, ToSet(written.undo), workspace')
      BY <1>5, <1>10, <1>11, <2>1, <2>2 DEF Elsewhere
    <3>3. ASSUME OneSpelling(e.asked), NEW m \in DOMAIN e.plan \ ToSet(Tail(e.todo))
          PROVE  workspace'[FileOf(m)] = e.plan[m].current
      <4>1. CASE m = n
        BY <1>10, <1>11, <2>1, <2>2, <4>1
      <4>2. CASE m # n
        <5>1. FileOf(m) # FileOf(n)
          BY <1>9, <1>11, <2>2, <3>1, <3>3, <4>2 DEF OneSpelling
        <5>2. FileOf(m) \in WorkFiles
          BY <3>1, <3>3 DEF Reads, WorkFiles, Paths, Range
        <5>3. workspace[FileOf(m)] = e.plan[m].current
          BY <1>7, <1>9, <1>11, <2>2, <3>3, <4>2 DEF Writing
        <5> QED BY <1>10, <1>11, <2>1, <2>2, <5>1, <5>2, <5>3
      <4> QED BY <4>1, <4>2
    <3>4. OneSpelling(e.asked) => Shows(e.plan, e.before, Outcome(e.before, e.asked))
      BY <1>7, <2>2 DEF Writing
    <3> HIDE DEF e, n
    <3> QED BY <1>5, <1>9, <1>11, <2>2, <3>1, <3>2, <3>3, <3>4 DEF Writing
  <2> HIDE DEF e, n
  <2>3. CallFits(written, workspace')
    BY <1>5, <1>7, <2>2 DEF CallFits, PatchFits
  <2> QED BY <1>11, <2>3, FileWritten
<1>12. ASSUME e.todo # <<>>, NEW left, Put(a, FileOf(n), left, failed) PROVE FilesInv'
  <2>1. workspace' = [workspace EXCEPT ![FileOf(n)] = left]
    BY <1>12 DEF Put
  <2>2. ASSUME Patching PROVE Undoing(failed, workspace')
    <3>1. Reads(e.plan, e.before) /\ ToSet(e.undo) \subseteq DOMAIN e.plan
      BY <1>7, <2>2 DEF Writing
    <3>2. Elsewhere(failed, ToSet(failed.undo), workspace')
      BY <1>6, <1>10, <1>12, <2>1, <2>2 DEF Elsewhere
    <3> HIDE DEF e, n
    <3> QED BY <1>6, <1>9, <1>12, <2>2, <3>1, <3>2 DEF Undoing
  <2> HIDE DEF e, n
  <2>3. CallFits(failed, workspace')
    BY <1>6, <1>7, <2>2 DEF CallFits, PatchFits
  <2> QED BY <1>12, <2>3, FileWritten
<1> QED BY <1>3, <1>8, <1>11, <1>12

LEMMA RestorePathKeeps ==
  ASSUME FilesInv, NEW a \in Editors, editor[a] # Idling, RestorePath(a)
  PROVE  FilesInv'
<1> DEFINE e == editor[a]
           n == Head(e.undo)
           ended == [e EXCEPT !.at = "failed"]
           restored == [e EXCEPT !.undo = Tail(@)]
           skipped == [e EXCEPT !.undo = Tail(@), !.clean = FALSE]
           Patching == e.alone /\ e.tool = "apply_patch"
<1>1. CallFits(e, workspace) /\ DOMAIN e = Fields
  BY DEF FilesInv, CallFits
<1>2. e.at = "undoing"
  BY DEF RestorePath
<1>3. \/ e.undo = <<>> /\ editor' = [editor EXCEPT ![a] = ended] /\ workspace' = workspace
      \/ e.undo # <<>> /\ Put(a, FileOf(n), e.plan[n].initial, restored)
      \/ e.undo # <<>> /\ editor' = [editor EXCEPT ![a] = skipped] /\ workspace' = workspace
  <2>1. editor' = [editor EXCEPT ![a].at = "failed"] => editor' = [editor EXCEPT ![a] = ended]
    OBVIOUS
  <2> QED BY <2>1 DEF RestorePath
<1>4. /\ DOMAIN ended = Fields /\ ended.at = "failed" /\ ended.alone = e.alone /\ ended.tool = e.tool
      /\ ended.asked = e.asked /\ ended.before = e.before /\ ended.clean = e.clean
  BY <1>1 DEF Fields
<1>5. /\ DOMAIN restored = Fields /\ restored.at = "undoing" /\ restored.alone = e.alone
      /\ restored.tool = e.tool /\ restored.asked = e.asked /\ restored.before = e.before
      /\ restored.plan = e.plan /\ restored.undo = Tail(e.undo) /\ restored.clean = e.clean
  BY <1>1, <1>2 DEF Fields
<1>6. /\ DOMAIN skipped = Fields /\ skipped.at = "undoing" /\ skipped.alone = e.alone
      /\ skipped.tool = e.tool /\ skipped.asked = e.asked /\ skipped.before = e.before
      /\ skipped.plan = e.plan /\ skipped.undo = Tail(e.undo) /\ ~skipped.clean
  BY <1>1, <1>2 DEF Fields
<1>7. Patching => /\ Undoing(e, workspace) /\ e.asked \in PatchLists
                  /\ e.before = [f \in WorkFiles |-> e.before[f]]
  BY <1>1, <1>2 DEF CallFits, PatchFits
<1> HIDE DEF ended, restored, skipped
<1>8. ASSUME Patching, e.undo # <<>>
      PROVE  /\ n \in DOMAIN e.plan /\ FileOf(n) \in WorkFiles /\ e.plan[n].initial = e.before[FileOf(n)]
             /\ Tail(e.undo) \in Seq(Paths) /\ ToSet(e.undo) = {n} \cup ToSet(Tail(e.undo))
  <2>1. /\ e.undo \in Seq(Paths) /\ ToSet(e.undo) \subseteq DOMAIN e.plan
        /\ Reads(e.plan, e.before)
    BY <1>7, <1>8 DEF Undoing
  <2> HIDE DEF e
  <2>2. n \in Paths /\ Tail(e.undo) \in Seq(Paths) /\ ToSet(e.undo) = {n} \cup ToSet(Tail(e.undo))
    BY <1>8, <2>1, HeadAndTail
  <2>3. FileOf(n) \in WorkFiles
    BY <2>2 DEF WorkFiles, Paths, Range
  <2> HIDE DEF n
  <2> QED BY <2>1, <2>2, <2>3 DEF Reads
<1>9. CASE e.undo = <<>> /\ editor' = [editor EXCEPT ![a] = ended] /\ workspace' = workspace
  <2>1. ASSUME Patching, e.clean PROVE workspace = e.before
    <3>1. ToSet(e.undo) = {} /\ Elsewhere(e, ToSet(e.undo), workspace)
      BY <1>7, <1>9, <2>1 DEF ToSet, Undoing
    <3>2. workspace = [f \in WorkFiles |-> workspace[f]]
      BY DEF FilesInv
    <3>3. \A f \in WorkFiles : workspace[f] = e.before[f]
      BY <3>1 DEF Elsewhere
    <3> HIDE DEF e
    <3> QED BY <1>7, <2>1, <3>2, <3>3
  <2> HIDE DEF e
  <2>2. CallFits(ended, workspace)
    BY <1>4, <1>7, <2>1 DEF CallFits, PatchFits
  <2> QED BY <1>9, <2>2, CallGoesOn
<1>10. CASE e.undo # <<>> /\ Put(a, FileOf(n), e.plan[n].initial, restored)
  <2>1. workspace' = [workspace EXCEPT ![FileOf(n)] = e.plan[n].initial]
    BY <1>10 DEF Put
  <2>2. ASSUME Patching PROVE Undoing(restored, workspace')
    <3>1. /\ Reads(e.plan, e.before) /\ ToSet(e.undo) \subseteq DOMAIN e.plan
          /\ e.clean => Elsewhere(e, ToSet(e.undo), workspace)
      BY <1>7, <2>2 DEF Undoing
    <3>2. DOMAIN workspace = WorkFiles
      BY DEF FilesInv
    <3> HIDE DEF e, n
    <3>3. ASSUME e.clean, NEW f \in WorkFiles, \A m \in ToSet(Tail(e.undo)) : FileOf(m) # f
          PROVE  workspace'[f] = e.before[f]
      <4>1. CASE f = FileOf(n)
        BY <1>8, <1>10, <2>1, <2>2, <3>2, <4>1
      <4>2. CASE f # FileOf(n)
        BY <1>8, <1>10, <2>1, <2>2, <3>1, <3>2, <3>3, <4>2 DEF Elsewhere
      <4> QED BY <4>1, <4>2
    <3>4. e.clean => Elsewhere(restored, ToSet(restored.undo), workspace')
      BY <1>5, <3>3 DEF Elsewhere
    <3> QED BY <1>5, <1>8, <1>10, <2>2, <3>1, <3>4 DEF Undoing
  <2> HIDE DEF e, n
  <2>3. CallFits(restored, workspace')
    BY <1>5, <1>7, <2>2 DEF CallFits, PatchFits
  <2> QED BY <1>10, <2>3, FileWritten
<1>11. CASE e.undo # <<>> /\ editor' = [editor EXCEPT ![a] = skipped] /\ workspace' = workspace
  <2>1. ASSUME Patching PROVE Undoing(skipped, workspace)
    BY <1>6, <1>7, <1>8, <1>11, <2>1 DEF Undoing
  <2> HIDE DEF e
  <2>2. CallFits(skipped, workspace)
    BY <1>6, <1>7, <2>1 DEF CallFits, PatchFits
  <2> QED BY <1>11, <2>2, CallGoesOn
<1> QED BY <1>3, <1>9, <1>10, <1>11

\* A step of the tools that are no patches, the end of a call, or a crash.
LEMMA OthersKeep ==
  ASSUME FilesInv
  PROVE  /\ \A a \in Editors, n \in Paths, tool \in {"write_file", "edit_file"} :
               ReadFirst(a, n, tool) => FilesInv'
         /\ \A a \in Editors : editor[a] # Idling /\ (WriteBack(a) \/ FinishCall(a)) => FilesInv'
         /\ CrashTools => FilesInv'
<1>1. ASSUME NEW a \in Editors, NEW n \in Paths, NEW tool \in {"write_file", "edit_file"},
             ReadFirst(a, n, tool)
      PROVE  FilesInv'
  <2> DEFINE e == [NewCall(tool) EXCEPT !.todo = <<n>>, !.text = workspace[FileOf(n)]]
  <2>1. DOMAIN e = Fields /\ e.at = "planning" /\ e.tool = tool
    BY DEF NewCall, Fields
  <2>2. editor' = [editor EXCEPT ![a] = e] /\ workspace' = workspace
    BY <1>1 DEF ReadFirst
  <2> HIDE DEF e
  <2>3. CallFits(e, workspace)
    BY <2>1 DEF CallFits
  <2> QED BY <2>2, <2>3, CallGoesOn
<1>2. ASSUME NEW a \in Editors, editor[a] # Idling, WriteBack(a) PROVE FilesInv'
  <2> DEFINE e == editor[a]
             ended(at) == [e EXCEPT !.at = at]
  <2>1. DOMAIN e = Fields /\ e.tool \in {"write_file", "edit_file"}
    BY <1>2 DEF FilesInv, CallFits, WriteBack
  <2>2. \A at \in {"done", "failed"} :
           DOMAIN ended(at) = Fields /\ ended(at).at = at /\ ended(at).tool = e.tool
    BY <2>1 DEF Fields
  <2>3. \A files : \A at \in {"done", "failed"} : CallFits(ended(at), files)
    <3> HIDE DEF ended, e
    <3> QED BY <2>1, <2>2 DEF CallFits
  <2>4. CASE editor' = [editor EXCEPT ![a].at = "failed"] /\ workspace' = workspace
    <3>1. editor' = [editor EXCEPT ![a] = ended("failed")]
      BY <2>4
    <3>2. CallFits(ended("failed"), workspace)
      BY <2>3
    <3> HIDE DEF ended, e
    <3> QED BY <2>4, <3>1, <3>2, CallGoesOn
  <2>5. ASSUME NEW text, Put(a, FileOf(e.todo[1]), text, ended("done")) PROVE FilesInv'
    <3> HIDE DEF ended, e
    <3> QED BY <2>3, <2>5, FileWritten
  <2>6. ASSUME NEW text, Put(a, FileOf(e.todo[1]), text, ended("failed")) PROVE FilesInv'
    <3> HIDE DEF ended, e
    <3> QED BY <2>3, <2>6, FileWritten
  <2>7. \/ editor' = [editor EXCEPT ![a].at = "failed"] /\ workspace' = workspace
        \/ \E text \in FileTexts : \/ Put(a, FileOf(e.todo[1]), text, ended("done"))
                                   \/ Put(a, FileOf(e.todo[1]), TornText, ended("failed"))
    BY <1>2, Zenon DEF WriteBack
  <2> HIDE DEF ended, e
  <2> QED BY <2>4, <2>5, <2>6, <2>7
<1>3. ASSUME NEW a \in Editors, editor[a] # Idling, FinishCall(a) PROVE FilesInv'
  BY <1>3, CallGoesOn DEF FinishCall
<1>4. ASSUME CrashTools PROVE FilesInv'
  <2>1. workspace' = workspace /\ editor' = [a \in Editors |-> Idling]
    BY <1>4 DEF CrashTools
  <2> QED BY <2>1 DEF FilesInv
<1> QED BY <1>1, <1>2, <1>3, <1>4

LEMMA FilesInvKept == FilesInv /\ [FilesNext]_fileVars => FilesInv'
<1> SUFFICES ASSUME FilesInv, [FilesNext]_fileVars PROVE FilesInv'
  OBVIOUS
<1>1. ASSUME NEW a \in Editors, EditorStep(a) PROVE FilesInv'
  BY <1>1, PlanOpKeeps, WritePathKeeps, RestorePathKeeps, OthersKeep DEF EditorStep
<1>2. ASSUME NEW a \in Editors, NEW given \in PatchLists, NEW cut \in BOOLEAN, ApplyPatch(a, given, cut)
      PROVE  FilesInv'
  BY <1>2, ApplyPatchKeeps
<1>3. ASSUME NEW a \in Editors, NEW n \in Paths, NEW tool \in {"write_file", "edit_file"},
             ReadFirst(a, n, tool)
      PROVE  FilesInv'
  BY <1>3, OthersKeep
<1>4. CASE CrashTools
  BY <1>4, OthersKeep
<1>5. CASE UNCHANGED fileVars
  BY <1>5 DEF fileVars, FilesInv
<1> QED BY <1>1, <1>2, <1>3, <1>4, <1>5 DEF FilesNext

\* A patch that no other call wrote between happens as a whole, in the order of its operations,
\* or, when every path could be restored, not at all.
THEOREM PatchIsWhole == FileSpec => []PatchAllOrNothing
<1>1. FilesInv => PatchAllOrNothing
  <2> SUFFICES ASSUME FilesInv, NEW a \in Editors
               PROVE  /\ Ended(a, "done") /\ OneSpelling(editor[a].asked)
                            => workspace = Outcome(editor[a].before, editor[a].asked)
                      /\ Ended(a, "failed") /\ editor[a].clean => workspace = editor[a].before
    BY DEF PatchAllOrNothing
  <2> QED BY DEF FilesInv, CallFits, PatchFits, Ended
<1> QED BY <1>1, FilesInvInit, FilesInvKept, PTL DEF FileSpec
-----------------------------------------------------------------------------
(***************************************************************************)
(* Providers: a request that lacks reasoning is patched and sent again.    *)
(***************************************************************************)

\* A patched body has reasoning, of at least a space, with every message that
\* has calls, whatever the conversation recorded.
LEMMA PatchedHasReasoning ==
  ASSUME NEW ms
  PROVE  ~ReasoningMissing(ReasoningSent(ms, TRUE))
<1>1. ASSUME NEW m PROVE ReasoningContent(m) # <<>>
  BY DEF ReasoningContent, Blank
<1> QED BY <1>1 DEF ReasoningMissing, ReasoningSent

\* A body is sent again only after it was patched; and then only a server that
\* no body contents refuses it.
PatchInv ==
    /\ patched \in BOOLEAN /\ resent \in BOOLEAN
    /\ demanding \in {"never", "with calls", "always"}
    /\ resent => patched
    /\ ReasoningSupplied

\* The complaint about a body that was sent again is one that reasoning cannot
\* answer; the others of a call never refuse it.
LEMMA PatchInvKept == PatchInv /\ [Next]_vars => PatchInv'
<1> SUFFICES ASSUME PatchInv, [Next]_vars PROVE PatchInv'
  OBVIOUS
<1>1. CASE Complain
  <2>1. CASE resent
    <3>1. patched = TRUE
      BY <2>1 DEF PatchInv
    <3>2. ~ReasoningMissing(ReasoningSent(Sanitize(past), patched))
      BY <3>1, PatchedHasReasoning
    <3>3. demanding = "always"
      BY <1>1, <3>2 DEF Complain, Lacks
    <3> QED BY <1>1, <2>1, <3>3 DEF PatchInv, ReasoningSupplied, Complain, callVars
  <2>2. CASE ~resent
    BY <1>1, <2>2 DEF PatchInv, ReasoningSupplied, Complain, callVars
  <2> QED BY <2>1, <2>2
<1>2. CASE NotBuilt
  BY <1>2 DEF PatchInv, ReasoningSupplied, NotBuilt, callVars
<1>3. CASE Reject
  BY <1>3 DEF PatchInv, ReasoningSupplied, Reject, callVars
<1>4. CASE AnswerWhole
  BY <1>4 DEF PatchInv, ReasoningSupplied, AnswerWhole, callVars
<1>5. CASE OpenStream
  BY <1>5 DEF PatchInv, ReasoningSupplied, OpenStream, callVars
<1>6. CASE Receive
  BY <1>6 DEF PatchInv, ReasoningSupplied, Receive, callVars
<1>7. CASE CutStream
  BY <1>7 DEF PatchInv, ReasoningSupplied, CutStream, callVars
<1>8. CASE Break
  BY <1>8 DEF PatchInv, ReasoningSupplied, Break, callVars
<1>9. CASE UNCHANGED vars
  BY <1>9 DEF PatchInv, ReasoningSupplied, vars, callVars
<1> QED BY <1>1, <1>2, <1>3, <1>4, <1>5, <1>6, <1>7, <1>8, <1>9 DEF Next

\* A server that wants reasoning with every message that has calls gets it, by
\* the second request at the latest: it never refuses a call for lack of it.
THEOREM ReasoningIsSupplied == Spec => []ReasoningSupplied
<1>1. Init => PatchInv
  BY DEF Init, PatchInv, ReasoningSupplied, InjectsReasoning
<1>2. PatchInv => ReasoningSupplied
  BY DEF PatchInv
<1> QED BY <1>1, <1>2, PatchInvKept, PTL DEF Spec
=============================================================================
