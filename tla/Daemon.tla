-------------------------------- MODULE Daemon ---------------------------------
(***************************************************************************)
(* The command line's background server: `ki`, `server start`, `server     *)
(* stop` and `server restart` read and write ~/.kiliax/server.json, probe  *)
(* the ports over HTTP, stop a server that is not theirs to use and spawn  *)
(* a new one.  Commands take no lock; servers bind their port some time    *)
(* after they were spawned, and may crash.                                 *)
(*                                                                         *)
(* All requests go to one host.  Every kiliax server requires a token (it  *)
(* refuses to run without one), so a request without the right one gets    *)
(* 401.  A step is one request, one file operation or one half of a port   *)
(* check, with the decision that follows it.  A port is checked by binding *)
(* it and letting it go, so a check can get in the way of another one and  *)
(* of a server that binds.                                                 *)
(***************************************************************************)
EXTENDS Naturals, Sequences, FiniteSets

CONSTANTS Commands,     \* command processes at a time
          Workspaces,   \* directories commands are run in (with the configuration they load)
          Settings,     \* [token, port, foreign]: what is configured, and ports other programs hold
          LastPort,     \* the ports are 1 (the default) to LastPort
          MaxServers, MaxCommands, MaxFaults,   \* bounds on spawned servers, commands, kinds of faults
          NoValue, Torn \* nothing; a record cut short

\* What server.json says when it can be read; ports are numbers, and so are made-up tokens.
Values == {s.port : s \in Settings} \cup {s.token : s \in Settings} \cup Nat \cup {NoValue}
Record == [port : Values, token : Values, age : {"new", "old", "unknown"}]

ASSUME DaemonAssumption ==
    /\ LastPort \in Nat \ {0} /\ MaxServers \in Nat /\ MaxCommands \in Nat /\ MaxFaults \in Nat
    /\ Workspaces # {} /\ NoValue \notin Record /\ Torn \notin Record \cup {NoValue}

VARIABLES
    record,     \* server.json: NoValue, Torn or [port, token, age]
    servers,    \* spawned servers: [state, port, token, ws]
    cmds,       \* the commands: [pc, kind, ws, prior, token, port, holds]: holds the port it checks?
    setting,    \* the configured token and port: [token, port]
    foreign,    \* ports other programs hold
    begun,      \* commands begun so far, which also makes tokens
    faults      \* what has happened so far: slow, killed, crashed, overlapped, mixed, late, collided

daemonVars == <<record, servers, cmds, setting, foreign, begun, faults>>

Ports == 1..LastPort
Desired == IF setting.port = NoValue THEN 1 ELSE setting.port

Main == CHOOSE w \in Workspaces : TRUE

NoCommand == [pc |-> "idle", kind |-> "start", ws |-> NoValue, prior |-> NoValue,
              token |-> NoValue, port |-> NoValue, holds |-> FALSE]

DaemonInit ==
    /\ record = NoValue /\ servers = <<>> /\ begun = 0 /\ faults = {}
    /\ cmds = [c \in Commands |-> NoCommand]
    /\ \E s \in Settings : setting = [token |-> s.token, port |-> s.port] /\ foreign = s.foreign

-----------------------------------------------------------------------------
(* What a request or an attempt to bind finds *)

Listening(p) == {s \in DOMAIN servers : servers[s].state = "up" /\ servers[s].port = p}
Serving(p, token) == {s \in Listening(p) : servers[s].token = token}
Matching(p, token, ws) == {s \in Serving(p, token) : servers[s].ws = ws}

\* The port a command checks next, and whether it can be bound.
Checked(c) == IF cmds[c].pc \in {"taken", "free", "stop_free"} THEN cmds[c].prior.port
              ELSE IF cmds[c].pc = "port" THEN Desired ELSE cmds[c].port
Occupied(p) ==
    p \in foreign \/ \E s \in DOMAIN servers : servers[s].port = p /\ servers[s].state \in {"up", "stopping"}
Held(p) == \E c \in Commands : cmds[c].holds /\ Checked(c) = p
PortFree(p) == ~Occupied(p) /\ ~Held(p)

\* A request to a live server may run into its timeout.
Slow(p) == Listening(p) # {} /\ faults' = faults \cup {"slow"}

Stopped(S) == [s \in DOMAIN servers |-> IF s \in S THEN [servers[s] EXCEPT !.state = "stopping"] ELSE servers[s]]

\* What is read of a record that another command is writing may be half of it.
RecordWriting == {"rewrite", "adopt", "record"}
Readable == {record} \cup (IF \E c \in Commands : cmds[c].pc \in RecordWriting THEN {Torn} ELSE {})

Goto(c, pc) == cmds' = [cmds EXCEPT ![c].pc = pc, ![c].holds = FALSE]
End(c) == cmds' = [cmds EXCEPT ![c] = NoCommand]

\* A request that somebody found answers, or nobody does, or not in time.
Ask(c, p, found, yes, no) ==
    \/ found # {} /\ Goto(c, yes) /\ UNCHANGED faults
    \/ found = {} /\ Goto(c, no) /\ UNCHANGED faults
    \/ found # {} /\ Slow(p) /\ Goto(c, no)

InUse(c) == ~cmds[c].holds /\ ~PortFree(Checked(c))

\* Only another command's check is in the way.
Collided(c) == IF InUse(c) /\ ~Occupied(Checked(c)) THEN {"collided"} ELSE {}

\* The recorded server is up by now, although it did not answer before.
Late(c) == IF Serving(cmds[c].prior.port, cmds[c].prior.token) # {} THEN {"late"} ELSE {}

-----------------------------------------------------------------------------
(* Servers *)

Bind(s) ==
    /\ servers[s].state = "starting"
    /\ servers' = [servers EXCEPT ![s].state = IF PortFree(servers[s].port) THEN "up" ELSE "gone"]
    /\ UNCHANGED <<record, cmds, setting, foreign, begun, faults>>

\* A server has stopped, or fails, before it is up or later.
ServerEnds(s) ==
    /\ servers[s].state \in {"starting", "up", "stopping"}
    /\ servers' = [servers EXCEPT ![s].state = "gone"]
    /\ faults' = IF servers[s].state = "up" THEN faults \cup {"crashed"} ELSE faults
    /\ UNCHANGED <<record, cmds, setting, foreign, begun>>

\* Half a minute passes: nothing that was starting still is.
GracePasses ==
    /\ record \notin {NoValue, Torn} /\ record.age = "new"
    /\ \A s \in DOMAIN servers : servers[s].state # "starting"
    /\ \A c \in Commands : cmds[c].pc = "idle"
    /\ record' = [record EXCEPT !.age = "old"]
    /\ UNCHANGED <<servers, cmds, setting, foreign, begun, faults>>

-----------------------------------------------------------------------------
(* Commands *)

Begin(c, kind, ws) ==
    /\ cmds[c].pc = "idle" /\ begun < MaxCommands
    /\ begun' = begun + 1
    /\ cmds' = [cmds EXCEPT ![c] = [NoCommand EXCEPT !.kind = kind, !.ws = ws, !.port = begun',
                                                     !.pc = IF kind = "start" THEN "read" ELSE "stop_read"]]
    /\ faults' = faults \cup (IF kind = "start" /\ ws = Main THEN {} ELSE {"mixed"})
                       \cup (IF \E d \in Commands : cmds[d].pc # "idle" THEN {"overlapped"} ELSE {})
    /\ UNCHANGED <<record, servers, setting, foreign>>

\* A command is killed; while it was writing the record it leaves half of it.
Killed(c) ==
    /\ cmds[c].pc # "idle" /\ End(c)
    /\ record' \in IF cmds[c].pc \in RecordWriting THEN {record, Torn} ELSE {record}
    /\ faults' = faults \cup {"killed"}
    /\ UNCHANGED <<servers, setting, foreign, begun>>

\* port_is_free binds the port.
Hold(c) ==
    /\ cmds[c].pc \in {"taken", "free", "stop_free", "port", "await", "scan"} /\ ~cmds[c].holds
    /\ PortFree(Checked(c))
    /\ cmds' = [cmds EXCEPT ![c].holds = TRUE]
    /\ UNCHANGED <<record, servers, setting, foreign, begun, faults>>

(* stop *)

\* Mutant: an unreachable server is forgotten at once.
PostStopForgets(c) ==
    LET p == cmds[c].prior
        found == Serving(p.port, p.token)
    IN  /\ cmds[c].pc = "stop_post"
        /\ \/ /\ found # {} /\ servers' = Stopped(found) /\ Goto(c, "stop_free")
              /\ UNCHANGED <<record, faults>>
           \/ /\ Listening(p.port) # {} /\ found = {} /\ End(c)
              /\ UNCHANGED <<record, servers, faults>>
           \/ /\ IF Listening(p.port) = {} THEN UNCHANGED <<servers, faults>>
                 ELSE Slow(p.port) /\ servers' \in {servers, Stopped(found)}
              /\ Goto(c, "stop_forget") /\ UNCHANGED record
        /\ UNCHANGED <<setting, foreign, begun>>

\* `restart` goes on to ensure_running.
AfterStop(c) == IF cmds[c].kind = "restart" THEN Goto(c, "read") ELSE End(c)

ReadToStop(c) ==
    /\ cmds[c].pc = "stop_read"
    /\ \E text \in Readable :
          CASE text = NoValue -> AfterStop(c)
            [] text = Torn -> End(c)
            [] OTHER -> cmds' = [cmds EXCEPT ![c].prior = text, ![c].pc = "stop_post"]
    /\ UNCHANGED <<record, servers, setting, foreign, begun, faults>>

\* The server agrees to stop, or refuses the token, or does not answer: then the record is
\* removed only when it is older than the time a server may take to start.
PostStop(c) ==
    LET p == cmds[c].prior
        found == Serving(p.port, p.token)
    IN  /\ cmds[c].pc = "stop_post"
        /\ \/ /\ found # {} /\ servers' = Stopped(found) /\ Goto(c, "stop_free")
              /\ UNCHANGED <<record, faults>>
           \/ /\ Listening(p.port) # {} /\ found = {} /\ End(c)
              /\ UNCHANGED <<record, servers, faults>>
           \/ /\ IF Listening(p.port) = {} THEN UNCHANGED <<servers, faults>>
                 ELSE Slow(p.port) /\ servers' \in {servers, Stopped(found)}
              /\ IF p.age # "new" THEN Goto(c, "stop_forget") ELSE AfterStop(c)
              /\ UNCHANGED record
        /\ UNCHANGED <<setting, foreign, begun>>

(* ensure_running: the recorded server *)

\* A record that cannot be read is removed; the token is the configured one, the recorded one
\* or a new one.
ReadRecord(c) ==
    /\ cmds[c].pc = "read"
    /\ \E text \in Readable :
          LET prior == IF text = Torn THEN NoValue ELSE text
              token == IF setting.token # NoValue THEN setting.token
                       ELSE IF prior # NoValue THEN prior.token ELSE cmds[c].port
          IN  cmds' = [cmds EXCEPT ![c].prior = prior, ![c].token = token,
                                   ![c].pc = CASE text = Torn -> "forget" [] text = NoValue -> "port"
                                               [] OTHER -> "probe"]
    /\ UNCHANGED <<record, servers, setting, foreign, begun, faults>>

\* Does the recorded server answer to the recorded token?
Probe(c) ==
    LET p == cmds[c].prior
    IN  /\ cmds[c].pc = "probe"
        /\ Ask(c, p.port, Serving(p.port, p.token), "identify", "refused")
        /\ UNCHANGED <<record, servers, setting, foreign, begun>>

\* It does not: a server that asks for a token is taken for another one's.
Refused(c) ==
    LET p == cmds[c].prior
    IN  /\ cmds[c].pc = "refused"
        /\ \/ Listening(p.port) # {} /\ Goto(c, "forget") /\ faults' = faults \cup Late(c)
           \/ Listening(p.port) = {} /\ Goto(c, "taken") /\ UNCHANGED faults
           \/ Slow(p.port) /\ Goto(c, "taken")
        /\ UNCHANGED <<record, servers, setting, foreign, begun>>

\* Nobody does, but the port is in use: the record is stale.  Else a fresh one is taken at its word.
Taken(c) ==
    /\ cmds[c].pc = "taken"
    /\ \/ InUse(c) /\ Goto(c, "forget") /\ faults' = faults \cup Late(c) \cup Collided(c)
       \/ /\ cmds[c].holds
          /\ IF cmds[c].prior.age = "new" THEN End(c) ELSE Goto(c, "port")
          /\ UNCHANGED faults
    /\ UNCHANGED <<record, servers, setting, foreign, begun>>

\* Does it answer to the token that is wanted now, ask for it, and serve this workspace?
Identify(c) ==
    LET p == cmds[c].prior
    IN  /\ \/ /\ cmds[c].pc = "identify"
              /\ Ask(c, p.port, Serving(p.port, cmds[c].token), "required", "replace")
           \/ cmds[c].pc = "required" /\ Ask(c, p.port, Listening(p.port), "info", "replace")
           \/ /\ cmds[c].pc = "info"
              /\ LET same == IF p.token = cmds[c].token THEN Matching(p.port, p.token, cmds[c].ws) ELSE {}
                 IN  Ask(c, p.port, same, "rewrite", "replace")
        /\ UNCHANGED <<record, servers, setting, foreign, begun>>

Rewrite(c) ==
    /\ cmds[c].pc = "rewrite"
    /\ record' = cmds[c].prior /\ End(c)
    /\ UNCHANGED <<servers, setting, foreign, begun, faults>>

\* A server of another workspace is stopped; one that cannot be is an error.
StopRecorded(c) ==
    LET p == cmds[c].prior
        found == Serving(p.port, p.token)
    IN  /\ cmds[c].pc = "replace"
        /\ \/ found # {} /\ servers' = Stopped(found) /\ Goto(c, "free") /\ UNCHANGED faults
           \/ found = {} /\ End(c) /\ UNCHANGED <<servers, faults>>
           \/ Slow(p.port) /\ servers' \in {servers, Stopped(found)} /\ End(c)
        /\ UNCHANGED <<record, setting, foreign, begun>>

\* Its port is waited for, but not for ever; the record then goes, whatever it says by now:
\* twice when a new server is to follow.
AwaitPort(c) ==
    /\ cmds[c].pc \in {"free", "stop_free"}
    /\ \/ cmds[c].holds /\ UNCHANGED faults
       \/ InUse(c) /\ faults' = faults \cup {"slow"}
    /\ Goto(c, IF cmds[c].pc = "free" THEN "clear" ELSE "stop_forget")
    /\ UNCHANGED <<record, servers, setting, foreign, begun>>

Forget(c) ==
    /\ record' = NoValue
    /\ \/ cmds[c].pc = "clear" /\ Goto(c, "forget")
       \/ cmds[c].pc = "forget" /\ Goto(c, "port")
       \/ cmds[c].pc = "stop_forget" /\ AfterStop(c)
    /\ UNCHANGED <<servers, setting, foreign, begun, faults>>

(* ensure_running: a new server *)

\* Mutant: whoever holds the port, the next free one is taken.
ChoosePortScan(c) ==
    /\ cmds[c].pc = "port"
    /\ \/ /\ cmds[c].holds
          /\ cmds' = [cmds EXCEPT ![c].port = Desired, ![c].pc = "spawn", ![c].holds = FALSE]
          /\ UNCHANGED faults
       \/ /\ InUse(c) /\ faults' = faults \cup Collided(c)
          /\ cmds' = [cmds EXCEPT ![c].port = Desired, ![c].pc = "scan"]
    /\ UNCHANGED <<record, servers, setting, foreign, begun>>

ChoosePort(c) ==
    /\ cmds[c].pc = "port"
    /\ \/ /\ cmds[c].holds
          /\ cmds' = [cmds EXCEPT ![c].port = Desired, ![c].pc = "spawn", ![c].holds = FALSE]
          /\ UNCHANGED faults
       \/ /\ InUse(c) /\ faults' = faults \cup Collided(c)
          /\ cmds' = [cmds EXCEPT ![c].port = Desired, ![c].pc = "candidate"]
    /\ UNCHANGED <<record, servers, setting, foreign, begun>>

\* A server nobody recorded may hold the wanted port and take the token.
Candidate(c) ==
    LET p == cmds[c].port
    IN  /\ \/ /\ cmds[c].pc = "candidate"
              /\ Ask(c, p, Serving(p, cmds[c].token), "candidate_required", "scan")
           \/ cmds[c].pc = "candidate_required" /\ Ask(c, p, Listening(p), "candidate_info", "evict")
           \/ /\ cmds[c].pc = "candidate_info"
              /\ Ask(c, p, Matching(p, cmds[c].token, cmds[c].ws), "adopt", "evict")
        /\ UNCHANGED <<record, servers, setting, foreign, begun>>

Adopt(c) ==
    /\ cmds[c].pc = "adopt"
    /\ record' = [port |-> cmds[c].port, token |-> cmds[c].token, age |-> "unknown"] /\ End(c)
    /\ UNCHANGED <<servers, setting, foreign, begun, faults>>

StopCandidate(c) ==
    LET p == cmds[c].port
        found == Serving(p, cmds[c].token)
        refused == IF setting.port # NoValue THEN End(c) ELSE Goto(c, "scan")
    IN  /\ cmds[c].pc = "evict"
        /\ \/ found # {} /\ servers' = Stopped(found) /\ Goto(c, "await") /\ UNCHANGED faults
           \/ found = {} /\ refused /\ UNCHANGED <<servers, faults>>
           \/ Slow(p) /\ servers' \in {servers, Stopped(found)} /\ refused
        /\ UNCHANGED <<record, setting, foreign, begun>>

AwaitCandidate(c) ==
    /\ cmds[c].pc = "await"
    /\ \/ cmds[c].holds /\ UNCHANGED faults
       \/ InUse(c) /\ faults' = faults \cup {"slow"}
    /\ Goto(c, "scan")
    /\ UNCHANGED <<record, servers, setting, foreign, begun>>

\* A configured port is the only choice; else they are tried one by one from the first.
Scan(c) ==
    /\ cmds[c].pc = "scan"
    /\ \/ cmds[c].holds /\ Goto(c, "spawn") /\ UNCHANGED faults
       \/ /\ InUse(c) /\ faults' = faults \cup Collided(c)
          /\ IF setting.port # NoValue \/ cmds[c].port = LastPort THEN End(c)
             ELSE cmds' = [cmds EXCEPT ![c].port = @ + 1]
    /\ UNCHANGED <<record, servers, setting, foreign, begun>>

SpawnServer(c) ==
    /\ cmds[c].pc = "spawn" /\ Len(servers) < MaxServers
    /\ servers' = Append(servers, [state |-> "starting", port |-> cmds[c].port,
                                   token |-> cmds[c].token, ws |-> cmds[c].ws])
    /\ Goto(c, "record")
    /\ UNCHANGED <<record, setting, foreign, begun, faults>>

WriteRecord(c) ==
    /\ cmds[c].pc = "record"
    /\ record' = [port |-> cmds[c].port, token |-> cmds[c].token, age |-> "new"] /\ End(c)
    /\ UNCHANGED <<servers, setting, foreign, begun, faults>>

CommandStep(c) ==
    \/ Hold(c) \/ ReadToStop(c) \/ PostStop(c)
    \/ ReadRecord(c) \/ Probe(c) \/ Refused(c) \/ Taken(c) \/ Identify(c) \/ Rewrite(c) \/ StopRecorded(c) \/ AwaitPort(c) \/ Forget(c)
    \/ ChoosePort(c) \/ Candidate(c) \/ Adopt(c) \/ StopCandidate(c) \/ AwaitCandidate(c)
    \/ Scan(c) \/ SpawnServer(c) \/ WriteRecord(c)

DaemonNext ==
    \/ \E c \in Commands : \/ \E kind \in {"start", "stop", "restart"}, ws \in Workspaces : Begin(c, kind, ws)
                           \/ CommandStep(c) \/ Killed(c)
    \/ \E s \in DOMAIN servers : Bind(s) \/ ServerEnds(s)
    \/ GracePasses

\* That a server is late comes on top.
BoundedNext == DaemonNext /\ Cardinality(faults' \ {"late"}) <= MaxFaults

-----------------------------------------------------------------------------
(* Properties *)

Up == {s \in DOMAIN servers : servers[s].state = "up"}

\* A server can be found again without its record: every command asks the wanted port for it,
\* with the configured token.
Findable == setting.token # NoValue /\ Desired \notin foreign

\* What may happen to commands that come one after another.  A server that is up only after its
\* record was probed loses the record; it is found again at the wanted port, unless another
\* program has that.
Orderly == {"crashed", "mixed"} \cup (IF Desired \in foreign THEN {} ELSE {"late"})

\* One server runs, whatever servers crash, when commands of all kinds come one after another
\* and are answered in time.  As long as it can be found without its record, it is also the only
\* one when one workspace is opened any number of times at once and openings are killed, unless
\* two checks of a port collide.
OneServer ==
    faults \subseteq Orderly \/ (Findable /\ faults \subseteq {"overlapped", "killed", "late"})
        => Cardinality(Up) <= 1

\* When commands came one after another and none was disturbed, a server that runs is the one server.json leads to:
\* `server stop` can reach it, also when it was told to stop while it was still starting.
ServerOnRecord ==
    faults \subseteq Orderly /\ (\A c \in Commands : cmds[c].pc = "idle")
        => \A s \in Up : /\ record \notin {NoValue, Torn}
                         /\ record.port = servers[s].port /\ record.token = servers[s].token
=============================================================================
