---------------------------- MODULE McpConnections ----------------------------
(***************************************************************************)
(* The connections of a tool engine to its MCP servers (kiliax-core        *)
(* tools/engine.rs, tools/mcp.rs), for one server: every map of the engine *)
(* is keyed by the server's name, and names do not meet.                   *)
(*                                                                         *)
(* Status requests and tool calls synchronise the engine with the config   *)
(* they read beforehand; connecting and shutting down take time and happen *)
(* outside the lock of the engine's state, so that they overlap.  The      *)
(* other servers of the engine show in the time a synchronisation takes:   *)
(* it shuts down those it no longer wants one after another, and spawns    *)
(* what it wants when all of them are down.  A server is identified by its *)
(* signature, the command line it was started with.                        *)
(***************************************************************************)
EXTENDS Naturals, FiniteSets, Sequences

CONSTANTS
    Signatures,     \* command lines the config may give the server
    Actors,         \* concurrent status requests and tool calls
    NoSig,          \* no signature: disabled, or not there
    MaxConfigs,     \* bound: changes of the config
    MaxConnects,    \* bound: connections tried in the background
    MaxMcpFaults    \* bound: connections that fail, servers that die, dropped requests

ASSUME McpAssumption ==
    /\ NoSig \notin Signatures
    /\ MaxConfigs \in Nat /\ MaxConnects \in Nat /\ MaxMcpFaults \in Nat

VARIABLES
    mcpConfig,      \* the engine's config: the wanted signature, or none
    connected,      \* McpState: the signature it thinks it is connected to
    connecting,     \* McpState: the signature somebody is connecting to
    backoff,        \* McpState: a failure's next attempt is not due
    hub,            \* McpHub: [sig, alive] of the server that answers calls
    actor,          \* actor[a]: what a request is doing, with which config
    spawned,        \* background connections, by number
    crossed,        \* ghost: one took away the server another had just connected
    dropped,        \* ghost: a request was dropped before it spawned
    forgotten,      \* ghost: the server in the hub when a request that was to stop
                    \* it was dropped
    configs, mcpFaults  \* bounds

mcpState == <<connected, connecting, backoff>>
losses == <<dropped, forgotten>>
mcpVars == <<mcpConfig, mcpState, hub, actor, spawned, crossed, losses, configs, mcpFaults>>

NoServer == [sig |-> NoSig, alive |-> FALSE]
IdleActor == [at |-> "idle", sig |-> NoSig, call |-> FALSE, spawn |-> FALSE]

McpTypeOK ==
    /\ mcpConfig \in Signatures \cup {NoSig}
    /\ connected \in Signatures \cup {NoSig} /\ connecting \in Signatures \cup {NoSig}
    /\ backoff \in BOOLEAN
    /\ hub \in [sig : Signatures \cup {NoSig}, alive : BOOLEAN]

McpInit ==
    /\ mcpConfig \in Signatures
    /\ connected = NoSig /\ connecting = NoSig /\ backoff = FALSE
    /\ hub = NoServer
    /\ actor = [a \in Actors |-> IdleActor]
    /\ spawned = <<>>
    /\ crossed = FALSE /\ dropped = FALSE /\ forgotten = NoSig
    /\ configs = 0 /\ mcpFaults = 0

Go(a, stage) == actor' = [actor EXCEPT ![a].at = stage]
LeaveMcp(a) == actor' = [actor EXCEPT ![a] = IdleActor]
Spawn(sig) == spawned' = Append(spawned, [at |-> "connecting", sig |-> sig])
McpFault == mcpFaults < MaxMcpFaults /\ mcpFaults' = mcpFaults + 1

-----------------------------------------------------------------------------
(* The config, time and the server process *)

Reconfigure(new) ==
    /\ configs < MaxConfigs /\ new # mcpConfig
    /\ mcpConfig' = new /\ configs' = configs + 1
    /\ UNCHANGED <<mcpState, hub, actor, spawned, losses, mcpFaults>>

RetryDue ==
    /\ backoff /\ backoff' = FALSE
    /\ UNCHANGED <<mcpConfig, connected, connecting, hub, actor, spawned, losses, configs, mcpFaults>>

ServerDies ==
    /\ hub.alive /\ McpFault
    /\ hub' = [hub EXCEPT !.alive = FALSE]
    /\ UNCHANGED <<mcpConfig, mcpState, actor, spawned, losses, configs>>

-----------------------------------------------------------------------------
(* sync_mcp_servers_background *)

\* A status request or a call begins by reading the config.
BeginMcp(a, call) ==
    /\ actor[a] = IdleActor
    /\ actor' = [actor EXCEPT ![a] = [at |-> "sync", sig |-> mcpConfig, call |-> call, spawn |-> FALSE]]
    /\ UNCHANGED <<mcpConfig, mcpState, hub, spawned, losses, configs, mcpFaults>>

AfterSync(a) ==
    actor' = [actor EXCEPT ![a] = IF @.call THEN [@ EXCEPT !.at = "ensure", !.spawn = FALSE]
                                  ELSE IdleActor]

\* Under the lock: forget what is no longer wanted, and announce the connection
\* about to be made.
Sync(a) ==
    LET wanted == actor[a].sig
        stop == connected \notin {NoSig, wanted}
        remains == IF stop THEN NoSig ELSE connected
        pending == IF wanted = NoSig THEN NoSig ELSE connecting
        connect == wanted # NoSig /\ remains = NoSig /\ pending = NoSig /\ ~backoff
    IN  /\ actor[a].at = "sync"
        /\ connect => Len(spawned) < MaxConnects
        /\ backoff' = (backoff /\ wanted # NoSig)
        /\ connected' = remains
        /\ connecting' = IF connect THEN wanted ELSE pending
        /\ IF stop \/ connect
           THEN actor' = [actor EXCEPT ![a].at = IF stop THEN "stop" ELSE "spawn",
                                       ![a].spawn = connect]
           ELSE AfterSync(a)
        /\ UNCHANGED <<mcpConfig, hub, spawned, losses, configs, mcpFaults>>

\* This server's turn in the loop of shutdowns: shutdown_server removes whatever
\* server the hub has under the name.
StopOld(a) ==
    /\ actor[a].at = "stop"
    /\ hub' = NoServer
    /\ IF actor[a].spawn THEN Go(a, "spawn") ELSE AfterSync(a)
    /\ UNCHANGED <<mcpConfig, mcpState, spawned, losses, configs, mcpFaults>>

\* The loop is over.  (A request with nothing to connect may wait for it too, but
\* has no more to do with this server.)
SpawnNew(a) ==
    /\ actor[a].at = "spawn"
    /\ AfterSync(a)
    /\ Spawn(actor[a].sig)
    /\ UNCHANGED <<mcpConfig, mcpState, hub, losses, configs, mcpFaults>>

\* The client of a status request goes away while the request waits for a
\* shutdown: another server's, before or after this one's turn, or this one's.
DropRequest(a) ==
    /\ actor[a].at \in {"stop", "spawn"} /\ ~actor[a].call /\ McpFault
    /\ dropped' = (dropped \/ actor[a].spawn)
    /\ forgotten' = IF actor[a].at = "stop" THEN hub.sig ELSE forgotten
    /\ LeaveMcp(a)
    /\ UNCHANGED <<mcpConfig, mcpState, hub, spawned, configs>>

-----------------------------------------------------------------------------
(* The background connection *)

\* connect_stdio: the hub gets the new server whatever it had.
BackgroundConnects(c) ==
    /\ spawned[c].at = "connecting"
    /\ \/ /\ hub' = [sig |-> spawned[c].sig, alive |-> TRUE]
          /\ spawned' = [spawned EXCEPT ![c].at = "connected"]
          /\ UNCHANGED mcpFaults
       \/ /\ McpFault
          /\ spawned' = [spawned EXCEPT ![c].at = "failed"]
          /\ UNCHANGED hub
    /\ UNCHANGED <<mcpConfig, mcpState, actor, losses, configs>>

\* Mutant: a connection that is no longer awaited is left running.
BackgroundSettlesLeave(c) ==
    /\ spawned[c].at \in {"connected", "failed"}
    /\ connecting' = NoSig
    /\ spawned' = [spawned EXCEPT ![c].at = "done"]
    /\ IF connecting # NoSig /\ spawned[c].at = "connected"
       THEN connected' = spawned[c].sig /\ backoff' = FALSE
       ELSE backoff' = (backoff \/ connecting # NoSig) /\ UNCHANGED connected
    /\ UNCHANGED <<mcpConfig, hub, actor, losses, configs, mcpFaults>>

\* Mutant: a failure leaves the announcement.
BackgroundSettlesKeep(c) ==
    /\ spawned[c].at \in {"connected", "failed"}
    /\ connecting' = IF spawned[c].at = "connected" THEN NoSig ELSE connecting
    /\ spawned' = [spawned EXCEPT ![c].at = "done"]
    /\ IF spawned[c].at = "connected"
       THEN connected' = spawned[c].sig /\ backoff' = FALSE
       ELSE backoff' = TRUE /\ UNCHANGED connected
    /\ UNCHANGED <<mcpConfig, hub, actor, losses, configs, mcpFaults>>

\* The announcement says whether the connection is still wanted; it may be
\* another connection's.
BackgroundSettles(c) ==
    /\ spawned[c].at \in {"connected", "failed"}
    /\ connecting' = NoSig
    /\ IF connecting = NoSig
       THEN /\ spawned' = [spawned EXCEPT
                  ![c].at = IF @ = "connected" THEN "unwanted" ELSE "done"]
            /\ UNCHANGED <<connected, backoff>>
       ELSE /\ spawned' = [spawned EXCEPT ![c].at = "done"]
            /\ IF spawned[c].at = "connected"
               THEN connected' = spawned[c].sig /\ backoff' = FALSE
               ELSE backoff' = TRUE /\ UNCHANGED connected
    /\ UNCHANGED <<mcpConfig, hub, actor, losses, configs, mcpFaults>>

BackgroundStops(c) ==
    /\ spawned[c].at = "unwanted"
    /\ hub' = NoServer
    /\ spawned' = [spawned EXCEPT ![c].at = "done"]
    /\ UNCHANGED <<mcpConfig, mcpState, actor, losses, configs, mcpFaults>>

-----------------------------------------------------------------------------
(* ensure_mcp_server and the call *)

Ensure(a) ==
    /\ actor[a].at = "ensure"
    /\ CASE actor[a].sig = NoSig -> LeaveMcp(a) /\ UNCHANGED <<connected, backoff>>
         [] actor[a].sig # NoSig /\ connected = actor[a].sig ->
              Go(a, "call") /\ UNCHANGED <<connected, backoff>>
         [] actor[a].sig # NoSig /\ connected \notin {NoSig, actor[a].sig} ->
              Go(a, "restop") /\ connected' = NoSig /\ backoff' = FALSE
         [] OTHER -> Go(a, "wait") /\ UNCHANGED <<connected, backoff>>
    /\ UNCHANGED <<mcpConfig, connecting, hub, spawned, losses, configs, mcpFaults>>

StopAgain(a) ==
    /\ actor[a].at = "restop"
    /\ hub' = NoServer
    /\ Go(a, "wait")
    /\ UNCHANGED <<mcpConfig, mcpState, spawned, losses, configs, mcpFaults>>

\* Somebody is connecting: poll until it is done, or give up after 35 seconds.
Await(a) ==
    /\ actor[a].at = "wait"
    /\ \/ connected = actor[a].sig /\ Go(a, "call")
       \/ connected # actor[a].sig /\ connecting = NoSig /\ Go(a, "claim")
       \/ connected # actor[a].sig /\ connecting # NoSig /\ LeaveMcp(a)
    /\ UNCHANGED <<mcpConfig, mcpState, hub, spawned, losses, configs, mcpFaults>>

Claim(a) ==
    /\ actor[a].at = "claim"
    /\ IF connected = actor[a].sig
       THEN Go(a, "call") /\ UNCHANGED <<connecting, backoff>>
       ELSE /\ Go(a, "connect")
            /\ connecting' = IF connecting = NoSig THEN actor[a].sig ELSE connecting
            /\ backoff' = FALSE
    /\ UNCHANGED <<mcpConfig, connected, hub, spawned, losses, configs, mcpFaults>>

CallConnects(a) ==
    /\ actor[a].at = "connect"
    /\ \/ /\ hub' = [sig |-> actor[a].sig, alive |-> TRUE]
          /\ Go(a, "connected")
          /\ UNCHANGED mcpFaults
       \/ McpFault /\ Go(a, "failed") /\ UNCHANGED hub
    /\ UNCHANGED <<mcpConfig, mcpState, spawned, losses, configs>>

\* The call's own connection is stored whatever happened meanwhile.
CallSettles(a) ==
    /\ actor[a].at \in {"connected", "failed"}
    /\ connecting' = NoSig
    /\ IF actor[a].at = "connected"
       THEN connected' = actor[a].sig /\ backoff' = FALSE /\ Go(a, "call")
       ELSE backoff' = TRUE /\ LeaveMcp(a) /\ UNCHANGED connected
    /\ UNCHANGED <<mcpConfig, hub, spawned, losses, configs, mcpFaults>>

\* A server the hub does not have is an unknown tool; one that fails is marked.
CallTool(a) ==
    /\ actor[a].at = "call"
    /\ IF hub # NoServer /\ ~hub.alive THEN Go(a, "mark") ELSE LeaveMcp(a)
    /\ UNCHANGED <<mcpConfig, mcpState, hub, spawned, losses, configs, mcpFaults>>

MarkDisconnected(a) ==
    /\ actor[a].at = "mark"
    /\ connected' = NoSig /\ connecting' = NoSig /\ backoff' = TRUE
    /\ Go(a, "marked")
    /\ UNCHANGED <<mcpConfig, hub, spawned, losses, configs, mcpFaults>>

StopMarked(a) ==
    /\ actor[a].at = "marked"
    /\ hub' = NoServer
    /\ LeaveMcp(a)
    /\ UNCHANGED <<mcpConfig, mcpState, spawned, losses, configs, mcpFaults>>

-----------------------------------------------------------------------------
\* A connection is in the hub and not yet in the engine's state.
Unsettled ==
    \/ \E a \in Actors : actor[a].at = "connected"
    \/ \E c \in DOMAIN spawned : spawned[c].at = "connected"

\* Somebody has yet to stop what the hub has.
Stopping ==
    \/ \E a \in Actors : actor[a].at \in {"stop", "restop", "marked"}
    \/ \E c \in DOMAIN spawned : spawned[c].at = "unwanted"

ActorStep(a) ==
    \/ Sync(a) \/ StopOld(a) \/ SpawnNew(a) \/ Ensure(a) \/ StopAgain(a) \/ Await(a) \/ Claim(a)
    \/ CallConnects(a) \/ CallSettles(a) \/ CallTool(a) \/ MarkDisconnected(a) \/ StopMarked(a)
BackgroundStep(c) == BackgroundConnects(c) \/ BackgroundSettles(c) \/ BackgroundStops(c)
McpEnvironment ==
    \/ \E new \in Signatures \cup {NoSig} : Reconfigure(new)
    \/ RetryDue \/ ServerDies
    \/ \E a \in Actors : DropRequest(a) \/ \E call \in BOOLEAN : BeginMcp(a, call)

\* A step that takes from the hub the server of a connection that is still to be
\* stored, or that stops the server the engine says it is connected to.
Crossing ==
    /\ hub'.sig # hub.sig
    /\ Unsettled \/ (hub'.sig = NoSig /\ connected # NoSig)

Watching(Taken) == Taken /\ crossed' = (crossed \/ Crossing)
McpActorStep(a) == Watching(ActorStep(a))
McpBackgroundStep == Watching(\E c \in DOMAIN spawned : BackgroundStep(c))
McpNext == Watching(McpEnvironment) \/ (\E a \in Actors : McpActorStep(a)) \/ McpBackgroundStep

McpSpec == McpInit /\ [][McpNext]_mcpVars

-----------------------------------------------------------------------------
(* Properties *)

\* Once every connection is stored and every shutdown decided on is done, the
\* server the engine believes in is the one in the hub that answers its calls,
\* however many requests and connections are under way.  Two things may part
\* them.  Somebody took away a server that another had just connected, because
\* hub and state are under two locks: the engine may then believe in a server
\* the hub does not have, and no later call repairs it (`crossed`).  Or a request
\* was dropped between forgetting a server and shutting it down: then that one
\* server is in the hub, and the engine is connected to none.
StateMatchesHub ==
    (~Unsettled /\ ~Stopping /\ ~crossed) =>
        hub.sig = connected \/ (hub.sig = forgotten /\ connected = NoSig)

\* An announced connection is made or fails: the announcement, which keeps
\* everybody else from connecting, goes away, unless the request that made it
\* was dropped before the connection was spawned.
ConnectingSettles == (connecting # NoSig) ~> (connecting = NoSig \/ dropped)
=============================================================================
