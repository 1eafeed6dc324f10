----------------------------- MODULE ShellSessions -----------------------------
(***************************************************************************)
(* The shell tool (kiliax-core tools/builtin/shell.rs): commands that run  *)
(* as child processes, the tasks that read their output and watch them,    *)
(* and the calls (shell_command, write_stdin) that start and poll them.    *)
(*                                                                         *)
(* Output is counted, not spelled: the bytes of a stream are numbered, and *)
(* at any time those up to `read' have left the pipe, those up to `taken'  *)
(* have been returned to a caller or dropped from the session's buffer.    *)
(***************************************************************************)
EXTENDS Naturals, FiniteSets

CONSTANTS
    ShellCmds,      \* commands: each is started at most once
    ShellCallers,   \* the calls in progress: the agent's and one of a cancelled run
    MaxOutput,      \* bound: bytes a command writes to a stream
    BufferCap,      \* MAX_SESSION_BUFFER_BYTES
    Budgets         \* output budgets a call may ask for (output_byte_budget >= 1)

ASSUME ShellAssumption ==
    /\ MaxOutput \in Nat /\ BufferCap \in Nat \ {0}
    /\ Budgets \subseteq Nat \ {0}

VARIABLES
    process,    \* process[c]: what the operating system says of the child
    shell,      \* shell[c]: the ShellSession
    caller,     \* caller[k]: the tool call k is in
    shown       \* ghost, shown[c]: what the results said of c's output

shellVars == <<process, shell, caller, shown>>

Streams == {"stdout", "stderr"}
OnStreams(v) == [s \in Streams |-> v]

NotStarted == [state |-> "none", written |-> OnStreams(0), deadline |-> FALSE, due |-> FALSE]
NoSession ==
    [read |-> OnStreams(0), taken |-> OnStreams(0), cut |-> OnStreams(FALSE),
     handle |-> FALSE, exit |-> FALSE, timedOut |-> FALSE, stdin |-> FALSE, listed |-> FALSE]
NoCall == [at |-> "idle", cmd |-> "none", tool |-> "none", until |-> FALSE, budget |-> 0]
Nothing == [truncated |-> FALSE, seen |-> OnStreams(0), got |-> OnStreams(0), done |-> FALSE, aborted |-> FALSE]

Buffered(c, s) == shell[c].read[s] - shell[c].taken[s]
Unread(c, s) == process[c].written[s] - shell[c].read[s]

ShellInit ==
    /\ process = [c \in ShellCmds |-> NotStarted]
    /\ shell = [c \in ShellCmds |-> NoSession]
    /\ caller = [k \in ShellCallers |-> NoCall]
    /\ shown = [c \in ShellCmds |-> Nothing]

-----------------------------------------------------------------------------
(* The child process, and the tasks of its session *)

Writes(c, s) ==
    /\ process[c].state = "running" /\ process[c].written[s] < MaxOutput
    /\ process' = [process EXCEPT ![c].written[s] = @ + 1]
    /\ UNCHANGED <<shell, caller, shown>>

Exits(c) ==
    /\ process[c].state = "running"
    /\ process' = [process EXCEPT ![c].state = "exited"]
    /\ UNCHANGED <<shell, caller, shown>>

DeadlinePasses(c) ==
    /\ process[c].deadline /\ ~process[c].due /\ shell[c].handle
    /\ process' = [process EXCEPT ![c].due = TRUE]
    /\ UNCHANGED <<shell, caller, shown>>

\* Mutant: a full buffer drops its front without remembering it.
ReadOutputQuiet(c, s) ==
    /\ Unread(c, s) > 0
    /\ shell' = [shell EXCEPT ![c] = [shell[c] EXCEPT
           !.read[s] = @ + 1,
           !.taken[s] = IF Buffered(c, s) = BufferCap THEN @ + 1 ELSE @]]
    /\ UNCHANGED <<process, caller, shown>>

\* A reader moves a chunk from the pipe to the buffer, whose front is dropped
\* when it is full.
ReadOutput(c, s) ==
    /\ Unread(c, s) > 0
    /\ shell' = [shell EXCEPT ![c] = [shell[c] EXCEPT
           !.read[s] = @ + 1,
           !.taken[s] = IF Buffered(c, s) = BufferCap THEN @ + 1 ELSE @,
           !.cut[s] = IF Buffered(c, s) = BufferCap THEN TRUE ELSE @]]
    /\ UNCHANGED <<process, caller, shown>>

\* A poll of the watcher that finds the child ended, or ends it: the handle is
\* dropped, the exit code set, stdin closed.  Nobody waits for the readers.
Watch(c) ==
    /\ shell[c].handle
    /\ \/ /\ process[c].state = "exited"
          /\ shell' = [shell EXCEPT ![c] = [shell[c] EXCEPT !.handle = FALSE, !.exit = TRUE, !.stdin = FALSE]]
          /\ UNCHANGED process
       \/ /\ process[c].state = "running" /\ process[c].due
          /\ process' = [process EXCEPT ![c].state = "exited"]
          /\ shell' = [shell EXCEPT ![c] = [shell[c] EXCEPT !.handle = FALSE, !.exit = TRUE,
                                                     !.timedOut = TRUE, !.stdin = FALSE]]
    /\ UNCHANGED <<caller, shown>>

-----------------------------------------------------------------------------
(* shell_command *)

\* Permissions and arguments that fail start nothing.  With a yield time the
\* session gets an id; without one the call waits for the exit.
StartCommand(k, c, yields, deadline, budget) ==
    /\ caller[k] = NoCall /\ process[c].state = "none"
    /\ process' = [process EXCEPT ![c] = [process[c] EXCEPT !.state = "running", !.deadline = deadline]]
    /\ shell' = [shell EXCEPT ![c] = [shell[c] EXCEPT !.handle = TRUE, !.stdin = TRUE, !.listed = yields]]
    /\ caller' = [caller EXCEPT ![k] =
           [at |-> "waiting", cmd |-> c, tool |-> "shell_command", until |-> ~yields, budget |-> budget]]
    /\ UNCHANGED shown

\* wait_for_shell_session: until the exit code, or for the yield time.
Awaits(k) ==
    /\ caller[k].at = "waiting"
    /\ caller[k].until => shell[caller[k].cmd].exit
    /\ caller' = [caller EXCEPT ![k].at = "render"]
    /\ UNCHANGED <<process, shell, shown>>

\* drain_with_limit
Drained(c, s, limit) == IF Buffered(c, s) <= limit THEN Buffered(c, s) ELSE limit
Cut(c, s, limit) == shell[c].cut[s] \/ Buffered(c, s) > limit

\* render_shell_output: stderr gets what stdout left of the budget.
Render(k) ==
    LET c == caller[k].cmd
        out == Drained(c, "stdout", caller[k].budget)
        limit == [s \in Streams |-> IF s = "stdout" THEN caller[k].budget ELSE caller[k].budget - out]
    IN  /\ caller[k].at = "render"
        /\ shell' = [shell EXCEPT ![c] = [shell[c] EXCEPT
               !.taken = [s \in Streams |-> @[s] + Drained(c, s, limit[s])],
               !.cut = OnStreams(FALSE)]]
        /\ shown' = [shown EXCEPT ![c] = [shown[c] EXCEPT
               !.truncated = @ \/ \E s \in Streams : Cut(c, s, limit[s]),
               !.seen = shell[c].read,
               !.got = [s \in Streams |-> @[s] + Drained(c, s, limit[s])]]]
        /\ caller' = [caller EXCEPT ![k].at = "conclude"]
        /\ UNCHANGED process

\* Whether the command still runs is asked after its output was taken.
Conclude(k) ==
    LET c == caller[k].cmd IN
    /\ caller[k].at = "conclude"
    /\ IF shell[c].exit
       THEN /\ shell' = [shell EXCEPT ![c].listed = FALSE]
            /\ shown' = [shown EXCEPT ![c].done = TRUE]
       ELSE UNCHANGED <<shell, shown>>
    /\ caller' = [caller EXCEPT ![k] = NoCall]
    /\ UNCHANGED process

\* The run of the call is cancelled and its task aborted: the child and its
\* session stay, and what the call had taken is returned to nobody.
AbortShellCall(k) ==
    /\ caller[k] # NoCall
    /\ shown' = [shown EXCEPT ![caller[k].cmd].aborted = @ \/ caller[k].at = "conclude"]
    /\ caller' = [caller EXCEPT ![k] = NoCall]
    /\ UNCHANGED <<process, shell>>

-----------------------------------------------------------------------------
(* write_stdin *)

\* An unknown session is an error.  Characters go to an open stdin; a child
\* that is gone makes the write fail and ends the call.
WriteStdin(k, c, chars, budget) ==
    /\ caller[k] = NoCall /\ shell[c].listed
    /\ IF chars /\ shell[c].stdin /\ process[c].state = "exited"
       THEN UNCHANGED caller
       ELSE caller' = [caller EXCEPT ![k] =
                [at |-> "waiting", cmd |-> c, tool |-> "write_stdin", until |-> FALSE, budget |-> budget]]
    /\ UNCHANGED <<process, shell, shown>>

-----------------------------------------------------------------------------
CallerStep(k) == Awaits(k) \/ Render(k) \/ Conclude(k)

ShellNext ==
    \/ \E c \in ShellCmds : Exits(c) \/ DeadlinePasses(c) \/ Watch(c)
    \/ \E c \in ShellCmds, s \in Streams : Writes(c, s) \/ ReadOutput(c, s)
    \/ \E k \in ShellCallers : CallerStep(k) \/ AbortShellCall(k)
    \/ \E k \in ShellCallers, c \in ShellCmds, b \in Budgets :
          \/ \E yields, deadline \in BOOLEAN : StartCommand(k, c, yields, deadline, b)
          \/ \E chars \in BOOLEAN : WriteStdin(k, c, chars, b)

ShellSpec == ShellInit /\ [][ShellNext]_shellVars

-----------------------------------------------------------------------------
(* Properties *)

\* What a result may leave out without saying so: once a result has said that
\* the command ended, and no result said `truncated', the results held every
\* byte that had reached the buffers when the last one was rendered, but for
\* those an aborted call had taken.  (A byte that the readers deliver after
\* that is lost: see OutputComplete.)
SilentLossOnlyLate ==
    \A c \in ShellCmds :
        (shown[c].done /\ ~shown[c].truncated /\ ~shown[c].aborted) => shown[c].got = shown[c].seen

\* All that the command wrote before it ended is in its results, or a result
\* says that output was truncated.
OutputComplete ==
    \A c \in ShellCmds :
        (shown[c].done /\ ~shown[c].truncated /\ ~shown[c].aborted) => shown[c].got = process[c].written
=============================================================================
