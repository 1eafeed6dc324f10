------------------------------ MODULE ConfigAdmin ------------------------------
(***************************************************************************)
(* Administrators changing the configuration of a running server.  Every   *)
(* request takes a snapshot, makes the next configuration of it, writes    *)
(* the file and then puts the configuration in force; nothing serialises   *)
(* two requests, a write may fail, a client that goes away drops its       *)
(* request between two of its steps, and the process may restart.  How     *)
(* sessions follow is the subject of SessionSettings.                      *)
(***************************************************************************)
EXTENDS Configuration

CONSTANTS Admins,       \* requests under way at a time
          Files,        \* texts an administrator may send or write by hand first
          Patches,      \* patches, [kind, ...]
          MaxRequests   \* bound on the requests of a behaviour

ASSUME AdminsAssumption == MaxRequests \in Nat /\ None # Keep

VARIABLES
    disk,       \* the text of the file
    memory,     \* the configuration in force
    asked,      \* the request of each administrator: [pc, file, next]
    requests,   \* how many requests have been made
    disturbed   \* a request met another one, or was dropped half way

adminVars == <<disk, memory, asked, requests, disturbed>>

Idle == [pc |-> "idle", file |-> None, next |-> None]

\* The server starts from a file it can load.
AdminInit ==
    /\ disk \in {f \in Files : Load(f).ok}
    /\ memory = Load(disk).config
    /\ asked = [a \in Admins |-> Idle]
    /\ requests = 0 /\ disturbed = FALSE

Apply(patch) ==
    CASE patch.kind = "providers" -> PatchProviders(memory, patch)
      [] patch.kind = "steps" -> PatchSteps(memory, patch.steps)
      [] patch.kind = "toggle" -> PatchToggles(memory, patch.id, patch.enable)

\* Mutant: a patched configuration is put in force as the patch made it.
AcceptRaw(a, f) ==
    LET loaded == Load(f)
    IN  /\ asked' = [asked EXCEPT ![a] =
                IF loaded.ok THEN [pc |-> "write", file |-> f, next |-> ResolveFile(f)]
                ELSE Idle]
        /\ UNCHANGED <<disk, memory>>

\* The text a request goes on with: loaded, judged, and rewritten when it was made whole.
Accept(a, f) ==
    LET loaded == Load(f)
        text == IF loaded.normalized THEN Serialized(loaded.config) ELSE f
    IN  /\ asked' = [asked EXCEPT ![a] =
                IF loaded.ok THEN [pc |-> "write", file |-> text, next |-> loaded.config]
                ELSE Idle]
        /\ UNCHANGED <<disk, memory>>

Request(a) ==
    /\ asked[a].pc = "idle" /\ requests < MaxRequests
    /\ requests' = requests + 1
    /\ disturbed' = (disturbed \/ \E b \in Admins : asked[b].pc # "idle")

PutConfig(a, f) == Request(a) /\ Accept(a, f)

PatchConfig(a, patch) ==
    /\ Request(a)
    /\ IF Apply(patch).ok THEN Accept(a, Serialized(Apply(patch).config))
       ELSE UNCHANGED <<disk, memory, asked>>

\* The text reaches the file as a whole or not at all.
WriteText(a) ==
    /\ asked[a].pc = "write"
    /\ disk' = asked[a].file
    /\ asked' = [asked EXCEPT ![a].pc = "store"]
    /\ UNCHANGED <<memory, requests, disturbed>>

WriteFails(a) ==
    /\ asked[a].pc = "write"
    /\ asked' = [asked EXCEPT ![a] = Idle]
    /\ UNCHANGED <<disk, memory, requests, disturbed>>

StoreConfig(a) ==
    /\ asked[a].pc = "store"
    /\ memory' = asked[a].next
    /\ asked' = [asked EXCEPT ![a] = Idle]
    /\ UNCHANGED <<disk, requests, disturbed>>

AbandonRequest(a) ==
    /\ asked[a].pc # "idle"
    /\ asked' = [asked EXCEPT ![a] = Idle]
    /\ disturbed' = TRUE
    /\ UNCHANGED <<disk, memory, requests>>

\* A restart reads the file again; every request under way is gone.
RestartServer ==
    /\ Load(disk).ok
    /\ memory' = Load(disk).config
    /\ asked' = [a \in Admins |-> Idle]
    /\ disturbed' = FALSE
    /\ UNCHANGED <<disk, requests>>

AdminNext ==
    \/ \E a \in Admins : \/ \E f \in Files : PutConfig(a, f)
                         \/ \E p \in Patches : PatchConfig(a, p)
                         \/ WriteText(a) \/ WriteFails(a) \/ StoreConfig(a) \/ AbandonRequest(a)
    \/ RestartServer

-----------------------------------------------------------------------------
(* Properties *)

\* Whatever the administrators did, in whatever order, the server can be started again from the
\* file; and it comes up with the configuration in force, unless two requests met or one was
\* dropped half way since it started.
RestartAgrees ==
    /\ Load(disk).ok
    /\ ~disturbed /\ (\A a \in Admins : asked[a].pc # "store") => Load(disk).config = memory
=============================================================================
