------------------------------ MODULE CustomTools ------------------------------
(***************************************************************************)
(* Custom tools (kiliax-core tools/custom.rs): a tool is a child process   *)
(* that answers JSON-RPC requests, one line each, and outlives the calls.  *)
(* Calls of one tool take turns through its lock; a tool whose manifest    *)
(* says `parallel' runs in a task that is aborted when its run is          *)
(* cancelled, wherever it is.                                              *)
(***************************************************************************)
EXTENDS Naturals, Sequences

CONSTANTS
    ToolCalls,      \* calls of the tool
    RequestId,      \* RequestId[x]: the id of the call x, which the provider or the
                    \* step gives it: a later run may use it again
    MaxDeaths,      \* bound: times the child dies by itself
    NoOne

ASSUME CustomAssumption == NoOne \notin ToolCalls

VARIABLES
    rpc,            \* rpc[x]: how far the call x is
    turn,           \* who holds the lock of the CustomToolProcess
    child,          \* [pid, up, pipes]: the process the struct holds
    inbox,          \* requests the child has not read
    lines,          \* what the child wrote and nobody read: [of, whole]
    answered,       \* answered[x]: whose answer the call x returned
    deaths          \* bound

customVars == <<rpc, turn, child, inbox, lines, answered, deaths>>

NoChild == [up |-> FALSE, pipes |-> FALSE]

CustomInit ==
    /\ rpc = [x \in ToolCalls |-> "new"]
    /\ turn = NoOne
    /\ child = NoChild
    /\ inbox = <<>> /\ lines = <<>>
    /\ answered = [x \in ToolCalls |-> NoOne]
    /\ deaths = 0

-----------------------------------------------------------------------------
(* The child *)

\* It reads a request and writes a line: the answer, an error, or no JSON.
ChildAnswers ==
    /\ child.up /\ inbox # <<>>
    /\ inbox' = Tail(inbox)
    /\ \E kind \in {"content", "error", "garbage"} :
          lines' = Append(lines, [of |-> Head(inbox), kind |-> kind])
    /\ UNCHANGED <<rpc, turn, child, answered, deaths>>

ChildDies ==
    /\ child.up /\ deaths < MaxDeaths
    /\ child' = [child EXCEPT !.up = FALSE]
    /\ deaths' = deaths + 1
    /\ inbox' = <<>>
    /\ UNCHANGED <<rpc, turn, lines, answered>>

-----------------------------------------------------------------------------
(* CustomToolProcess::call *)

\* execute: the tool is looked up in the manifests and its lock is taken.
TakeTurn(x) ==
    /\ rpc[x] = "new" /\ turn = NoOne
    /\ turn' = x
    /\ rpc' = [rpc EXCEPT ![x] = "start"]
    /\ UNCHANGED <<child, inbox, lines, answered, deaths>>

\* A call ends: it gives the lock back.
Release(x, outcome) ==
    /\ turn' = NoOne
    /\ rpc' = [rpc EXCEPT ![x] = outcome]

\* ensure_started: a struct without pipes gets a new process, which may fail.
EnsureStarted(x) ==
    /\ rpc[x] = "start"
    /\ \/ /\ child.pipes
          /\ rpc' = [rpc EXCEPT ![x] = "send"]
          /\ UNCHANGED <<turn, child, inbox, lines>>
       \/ /\ ~child.pipes
          /\ child' = [up |-> TRUE, pipes |-> TRUE]
          /\ inbox' = <<>> /\ lines' = <<>>
          /\ rpc' = [rpc EXCEPT ![x] = "send"]
          /\ UNCHANGED turn
       \/ /\ ~child.pipes
          /\ Release(x, "failed")
          /\ UNCHANGED <<child, inbox, lines>>
    /\ UNCHANGED <<answered, deaths>>

\* Writing to a dead child fails.
SendRequest(x) ==
    /\ rpc[x] = "send"
    /\ IF child.up
       THEN inbox' = Append(inbox, x) /\ rpc' = [rpc EXCEPT ![x] = "read"]
       ELSE rpc' = [rpc EXCEPT ![x] = "stop"] /\ UNCHANGED inbox
    /\ UNCHANGED <<turn, child, lines, answered, deaths>>

\* Mutant: whatever content arrives is the answer.
AcceptedAny(x, line) == line.kind = "content"

\* parse_response: JSON, the id of the request, no error, a result.
Accepted(x, line) == RequestId[line.of] = RequestId[x] /\ line.kind = "content"

\* The next line is the answer, or the call fails and stops the child; so do the
\* end of its output and the timeout.
ReadResponse(x) ==
    /\ rpc[x] = "read"
    /\ \/ /\ lines # <<>>
          /\ lines' = Tail(lines)
          /\ IF Accepted(x, Head(lines))
             THEN /\ answered' = [answered EXCEPT ![x] = Head(lines).of]
                  /\ Release(x, "done")
             ELSE /\ rpc' = [rpc EXCEPT ![x] = "stop"]
                  /\ UNCHANGED <<turn, answered>>
       \/ /\ lines = <<>> /\ ~child.up
          /\ rpc' = [rpc EXCEPT ![x] = "stop"]
          /\ UNCHANGED <<turn, lines, answered>>
    /\ UNCHANGED <<child, inbox, deaths>>

CallTimesOut(x) ==
    /\ rpc[x] \in {"send", "read"}
    /\ rpc' = [rpc EXCEPT ![x] = "stop"]
    /\ UNCHANGED <<turn, child, inbox, lines, answered, deaths>>

\* stop: the pipes are closed and the child is killed.
StopChild(x) ==
    /\ rpc[x] = "stop"
    /\ child' = NoChild
    /\ inbox' = <<>> /\ lines' = <<>>
    /\ Release(x, "failed")
    /\ UNCHANGED <<answered, deaths>>

\* The task of the call is aborted: the lock goes back, the child stays.  A line
\* it was reading is lost up to where it got.
AbortCall(x) ==
    /\ turn = x
    /\ Release(x, "aborted")
    /\ lines' = IF rpc[x] = "read" /\ lines # <<>>
                THEN <<[of |-> Head(lines).of, kind |-> "garbage"]>> \o Tail(lines)
                ELSE lines
    /\ IF rpc[x] = "stop"
       THEN child' = NoChild /\ inbox' = <<>>
       ELSE UNCHANGED <<child, inbox>>
    /\ UNCHANGED <<answered, deaths>>

-----------------------------------------------------------------------------
CustomNext ==
    \/ ChildAnswers \/ ChildDies
    \/ \E x \in ToolCalls :
          \/ TakeTurn(x) \/ EnsureStarted(x) \/ SendRequest(x) \/ ReadResponse(x)
          \/ CallTimesOut(x) \/ StopChild(x) \/ AbortCall(x)

CustomSpec == CustomInit /\ [][CustomNext]_customVars

-----------------------------------------------------------------------------
(* Properties *)

\* A call that returns a content returns the child's answer to a request with its
\* own id, also after calls that failed, timed out or were aborted on the same
\* child; and to another request than its own only after a call with that id was
\* aborted, which leaves its answer in the pipe (custom.rs 367).
AnswerIsOwn ==
    \A x \in ToolCalls : rpc[x] = "done" =>
        /\ RequestId[answered[x]] = RequestId[x]
        /\ \/ answered[x] = x
           \/ \E y \in ToolCalls : rpc[y] = "aborted" /\ RequestId[y] = RequestId[x]
=============================================================================
