----------------------------- MODULE Lifecycle -----------------------------
(***************************************************************************)
(* One agent's Runtime service: the Init, Start, Stop and Destroy handlers *)
(* (runtime.go, runtime_native.go), the goroutines that watch the run's    *)
(* postmaster and report its death (watch and Supervise in nixpg.go), the  *)
(* hot-reload watcher's life, and the endpoint of module Forwarder.        *)
(*                                                                         *)
(* "setup" is the thread that runs Init and Start; Stop and Destroy are    *)
(* threads of their own, which the caller may overlap.  What acquireRun-   *)
(* Server, provisionDatabase, applySchema and the release of the holder    *)
(* record do is in RunServer, Provision and SchemaControl; here each may   *)
(* succeed or fail.  Attachments to the run's server are numbered: the     *)
(* goroutines of an earlier one may still run.                             *)
(***************************************************************************)
EXTENDS Naturals, Forwarder

CONSTANTS
    Callers,       \* what callers may do: sets of liberties
    MaxInit,       \* Inits of one agent
    MaxStart       \* Starts of one agent

\* "overlap": a teardown may begin while Start runs.  "retry": a Start that
\* failed may be called again without a teardown in between.  "abandon": a
\* teardown may begin while Init runs, which takes no lifecycleMu; such a caller
\* does not initialize the agent a second time.
Liberty == {"overlap", "retry", "abandon"}

ASSUME CallersAssumption == Callers \subseteq SUBSET Liberty
ASSUME BoundAssumption == MaxInit \in Nat /\ MaxStart \in Nat

VARIABLES
    liberties,     \* what this agent's caller does
    native,        \* the runtime context: native server or container
    keepRunning,   \* keep-running is set and the backend honours it
    pc,            \* where each handler thread stands
    mu,            \* who holds lifecycleMu
    inits, starts, \* calls so far
    nix,           \* nixRuntime: the attachment, 0 for nil
    runner,        \* runnerEnvironment is set
    container,     \* the container of the service
    released,      \* the released flag
    status,        \* StartStatus
    cancelled,     \* attachments whose serverCtx is cancelled
    gone,          \* attachments whose postmaster has exited
    early,         \* of those, the ones that exited before the cancellation
    watch,         \* the watch goroutine of each attachment
    exit,          \* its serverExit channel
    sup,           \* the Supervise goroutine of each attachment
    reported,      \* attachments whose onExit was called
    watchers,      \* hot-reload watchers that are running
    cancel         \* watcherCancel refers to one of them

callVars == <<pc, mu, inits, starts>>
handleVars == <<nix, runner, container, released>>
superVars == <<status, cancelled, gone, early, watch, exit, sup, reported>>
watcherVars == <<watchers, cancel>>
rigidVars == <<liberties, native, keepRunning>>
vars == <<rigidVars, callVars, handleVars, superVars, watcherVars, fwdVars>>

Attachment == 1..MaxInit
Teardown == {"Stop", "Destroy"}
Thread == Teardown \cup {"setup"}

Initializing == {"acquire", "provision", "listen", "docker", "boot", "migrate"}
Starting == {"prepare", "arm", "access", "commit", "supervise"}
Releasing == {"cancel", "close", "unhold"}
Rest == {"idle", "initialized", "started", "startFailed", "returned", "failed"}
ThreadPc == {"mu", "container", "containerAgain", "shutdown"}
                \cup Rest \cup Initializing \cup Starting \cup Releasing

Init ==
    /\ liberties \in Callers /\ native \in BOOLEAN
    /\ keepRunning \in BOOLEAN /\ (native => ~keepRunning)
    /\ pc = [t \in Thread |-> "idle"] /\ mu = "free"
    /\ inits = 0 /\ starts = 0
    /\ nix = 0 /\ runner = FALSE /\ container = "absent" /\ released = FALSE
    /\ status = "none"
    /\ cancelled = {} /\ gone = {} /\ early = {} /\ reported = {}
    /\ watch = [g \in Attachment |-> "off"]
    /\ exit = [g \in Attachment |-> "empty"]
    /\ sup = [g \in Attachment |-> "none"]
    /\ watchers = 0 /\ cancel = FALSE
    /\ FwdInit

\* No teardown begins while Init runs.
Patient == "abandon" \notin liberties

Goto(t, at) == pc' = [pc EXCEPT ![t] = at]

\* What the caller sees of thread t: nothing is running on it.
Resting(t) == pc[t] \in Rest

-----------------------------------------------------------------------------
(* Init.  The caller initializes an agent that was torn down, or is new.   *)

TornDown == inits = 0 \/ \E t \in Teardown : pc[t] \in {"returned", "failed"}

BeginInit ==
    /\ \A t \in Thread : Resting(t)
    /\ TornDown /\ inits < MaxInit
    /\ "abandon" \in liberties => inits = 0
    /\ inits' = inits + 1
    /\ pc' = [t \in Thread |->
                IF t # "setup" THEN "idle" ELSE IF native THEN "acquire" ELSE "docker"]
    /\ UNCHANGED <<rigidVars, mu, starts, handleVars, superVars, watcherVars, fwdVars>>

\* An Init that fails before it has taken anything.
InitFails ==
    /\ pc["setup"] \in {"acquire", "docker"}
    /\ Goto("setup", "failed")
    /\ UNCHANGED <<rigidVars, mu, inits, starts, handleVars, superVars, watcherVars, fwdVars>>

\* acquireRunServer returns: the server is handed out and watched.
AcquireServer ==
    /\ pc["setup"] = "acquire"
    /\ nix' = inits
    /\ watch' = [watch EXCEPT ![inits] = "ticking"]
    /\ Goto("setup", "provision")
    /\ UNCHANGED <<rigidVars, mu, inits, starts, runner, container, released,
                   status, cancelled, gone, early, exit, sup, reported, watcherVars, fwdVars>>

ProvisionDatabase ==
    /\ pc["setup"] = "provision"
    /\ Goto("setup", "listen")
    /\ UNCHANGED <<rigidVars, mu, inits, starts, handleVars, superVars, watcherVars, fwdVars>>

\* forwardToSocket, and the flag that lets Start proceed.
PublishEndpoint ==
    /\ pc["setup"] = "listen"
    /\ Listen
    /\ released' = FALSE
    /\ Goto("setup", "migrate")
    /\ UNCHANGED <<rigidVars, mu, inits, starts, nix, runner, container, superVars, watcherVars>>

\* The deferred handler of initNative: a refused service holds no server.  The
\* handle it releases is the one in nixRuntime then.
NativeInitFails ==
    /\ native /\ pc["setup"] \in {"provision", "listen", "migrate"}
    /\ Goto("setup", "cancel")
    /\ UNCHANGED <<rigidVars, mu, inits, starts, handleVars, superVars, watcherVars, fwdVars>>

\* The container environment is kept whether or not its Init succeeds.
KeepRunner ==
    /\ pc["setup"] = "docker"
    /\ runner' = TRUE
    /\ Goto("setup", "boot")
    /\ UNCHANGED <<rigidVars, mu, inits, starts, nix, container, released, superVars, watcherVars, fwdVars>>

InitContainer ==
    /\ pc["setup"] = "boot"
    /\ \/ container' = "running" /\ released' = FALSE /\ Goto("setup", "migrate")
       \/ container' \in {container, "running"} /\ UNCHANGED released /\ Goto("setup", "failed")
    /\ UNCHANGED <<rigidVars, mu, inits, starts, nix, runner, superVars, watcherVars, fwdVars>>

ContainerInitFails ==
    /\ ~native /\ pc["setup"] = "migrate"
    /\ Goto("setup", "failed")
    /\ UNCHANGED <<rigidVars, mu, inits, starts, handleVars, superVars, watcherVars, fwdVars>>

MigrateOnInit ==
    /\ pc["setup"] = "migrate"
    /\ Goto("setup", "initialized")
    /\ UNCHANGED <<rigidVars, mu, inits, starts, handleVars, superVars, watcherVars, fwdVars>>

-----------------------------------------------------------------------------
(* Start *)

\* A Start follows an Init or a teardown, or a failed Start when the caller
\* retries.  One that follows a teardown that released the server is refused.
BeginStart ==
    /\ starts < MaxStart
    /\ \/ pc["setup"] = "initialized"
       \/ pc["setup"] \in {"started", "startFailed"} /\ TornDown
       \/ pc["setup"] = "startFailed" /\ "retry" \in liberties
    /\ "overlap" \in liberties \/ \A t \in Teardown : Resting(t)
    /\ starts' = starts + 1
    /\ pc' = [t \in Thread |->
                IF t # "setup" THEN (IF Resting(t) THEN "idle" ELSE pc[t])
                ELSE IF released THEN "startFailed" ELSE "prepare"]
    /\ status' = IF released THEN "ERROR" ELSE status
    /\ UNCHANGED <<rigidVars, mu, inits, handleVars, cancelled, gone, early, watch, exit,
                   sup, reported, watcherVars, fwdVars>>

\* The database answers at this service's own endpoint.
Answers ==
    IF native THEN listening /\ inits \notin gone ELSE container = "running"

\* WaitForReady and applySchema.
Prepare ==
    /\ pc["setup"] = "prepare" /\ Answers
    /\ Goto("setup", "arm")
    /\ UNCHANGED <<rigidVars, mu, inits, starts, handleVars, superVars, watcherVars, fwdVars>>

\* SetupWatcher replaces what was there without cancelling it; its failure is
\* only logged.
ArmWatcher ==
    /\ pc["setup"] = "arm"
    /\ \/ watchers' = watchers + 1 /\ cancel' = TRUE
       \/ UNCHANGED watcherVars
    /\ Goto("setup", "access")
    /\ UNCHANGED <<rigidVars, mu, inits, starts, handleVars, superVars, fwdVars>>

\* Mutation: supervision is armed before STARTED is committed.
EnsureAccessSupervised ==
    /\ pc["setup"] = "access" /\ Answers
    /\ sup' = IF nix # 0 THEN [sup EXCEPT ![nix] = "waiting"] ELSE sup
    /\ Goto("setup", "commit")
    /\ UNCHANGED <<rigidVars, mu, inits, starts, handleVars, status, cancelled, gone, early,
                   watch, exit, reported, watcherVars, fwdVars>>

EnsureAccess ==
    /\ pc["setup"] = "access" /\ Answers
    /\ Goto("setup", "commit")
    /\ UNCHANGED <<rigidVars, mu, inits, starts, handleVars, superVars, watcherVars, fwdVars>>

\* StartError from readiness, the control plane, the schema or the grants.
StartFails ==
    /\ pc["setup"] \in {"prepare", "access"}
    /\ status' = "ERROR"
    /\ Goto("setup", "startFailed")
    /\ UNCHANGED <<rigidVars, mu, inits, starts, handleVars, cancelled, gone, early, watch,
                   exit, sup, reported, watcherVars, fwdVars>>

\* StartResponse commits STARTED, before supervision is armed.
CommitStarted ==
    /\ pc["setup"] = "commit"
    /\ status' = "STARTED"
    /\ Goto("setup", "supervise")
    /\ UNCHANGED <<rigidVars, mu, inits, starts, handleVars, cancelled, gone, early, watch,
                   exit, sup, reported, watcherVars, fwdVars>>

Supervise ==
    /\ pc["setup"] = "supervise"
    /\ sup' = IF nix # 0 THEN [sup EXCEPT ![nix] = "waiting"] ELSE sup
    /\ Goto("setup", "started")
    /\ UNCHANGED <<rigidVars, mu, inits, starts, handleVars, status, cancelled, gone, early,
                   watch, exit, reported, watcherVars, fwdVars>>

-----------------------------------------------------------------------------
(* Supervision of the postmaster *)

\* The postmaster of attachment g exits: a crash or a signal, or because the
\* last holder stopped it.
PostmasterExits(g) ==
    /\ watch[g] # "off" /\ g \notin gone
    /\ gone' = gone \cup {g}
    /\ early' = IF g \in cancelled THEN early ELSE early \cup {g}
    /\ UNCHANGED <<rigidVars, callVars, handleVars, status, cancelled, watch, exit, sup,
                   reported, watcherVars, fwdVars>>

\* Mutation: the exit is not sent to the channel.
WatchTickUnsent(g) ==
    /\ watch[g] = "ticking" /\ g \in gone
    /\ watch' = [watch EXCEPT ![g] = "ended"]
    /\ UNCHANGED <<rigidVars, callVars, handleVars, status, cancelled, gone, early, exit, sup,
                   reported, watcherVars, fwdVars>>

\* A tick of watch finds the postmaster gone.  select takes either branch when
\* the context has ended as well.
WatchTick(g) ==
    /\ watch[g] = "ticking" /\ g \in gone
    /\ exit' = [exit EXCEPT ![g] = "full"]
    /\ watch' = [watch EXCEPT ![g] = "ended"]
    /\ UNCHANGED <<rigidVars, callVars, handleVars, status, cancelled, gone, early, sup,
                   reported, watcherVars, fwdVars>>

WatchCancelled(g) ==
    /\ watch[g] = "ticking" /\ g \in cancelled
    /\ watch' = [watch EXCEPT ![g] = "ended"]
    /\ UNCHANGED <<rigidVars, callVars, handleVars, status, cancelled, gone, early, exit, sup,
                   reported, watcherVars, fwdVars>>

ReceiveExit(g) ==
    /\ sup[g] = "waiting" /\ exit[g] = "full"
    /\ exit' = [exit EXCEPT ![g] = "drained"]
    /\ sup' = [sup EXCEPT ![g] = "received"]
    /\ UNCHANGED <<rigidVars, callVars, handleVars, status, cancelled, gone, early, watch,
                   reported, watcherVars, fwdVars>>

\* Mutation: every exit is reported.
NeverOrderly(g) == FALSE

\* "a cancelled context is the authoritative 'this shutdown was orderly' signal"
Orderly(g) == g \in cancelled

JudgeExit(g) ==
    /\ sup[g] = "received"
    /\ sup' = [sup EXCEPT ![g] = IF Orderly(g) THEN "ended" ELSE "report"]
    /\ UNCHANGED <<rigidVars, callVars, handleVars, status, cancelled, gone, early, watch, exit,
                   reported, watcherVars, fwdVars>>

\* onExit: MarkRunnerExited.
ReportExit(g) ==
    /\ sup[g] = "report"
    /\ sup' = [sup EXCEPT ![g] = "ended"]
    /\ reported' = reported \cup {g}
    /\ status' = "ERROR"
    /\ UNCHANGED <<rigidVars, callVars, handleVars, cancelled, gone, early, watch, exit,
                   watcherVars, fwdVars>>

-----------------------------------------------------------------------------
(* Stop and Destroy *)

\* A teardown may begin at any time the caller takes: it bounds each call and
\* goes on to the next while the abandoned handler still works.
BeginTeardown(t) ==
    /\ Resting(t) /\ inits > 0
    /\ \/ Resting("setup")
       \/ pc["setup"] \in Starting /\ "overlap" \in liberties
       \/ pc["setup"] \in Initializing \cup Releasing /\ "abandon" \in liberties
    /\ Goto(t, "mu")
    /\ UNCHANGED <<rigidVars, mu, inits, starts, handleVars, superVars, watcherVars, fwdVars>>

\* Mutation: an error return leaves lifecycleMu locked.
UnlockOnSuccess(t) == mu' = IF mu = t /\ pc'[t] = "returned" THEN "free" ELSE mu

Unlock(t) == mu' = IF mu = t THEN "free" ELSE mu

StopWatcher ==
    /\ watchers' = IF cancel THEN watchers - 1 ELSE watchers
    /\ cancel' = FALSE

\* Mutation: keep-running returns before the watcher is stopped.
StopKeepsWatcher ==
    /\ pc["Stop"] = "mu" /\ mu = "free"
    /\ \/ /\ nix # 0 /\ StopWatcher
          /\ Goto("Stop", "cancel") /\ mu' = "Stop"
       \/ /\ nix = 0 /\ keepRunning
          /\ Goto("Stop", "returned") /\ UNCHANGED <<mu, watcherVars>>
    /\ UNCHANGED <<rigidVars, inits, starts, handleVars, superVars, fwdVars>>

\* Under lifecycleMu the watcher is stopped first, on every path.
Stop ==
    /\ pc["Stop"] = "mu" /\ mu = "free"
    /\ StopWatcher
    /\ \/ /\ nix # 0
          /\ Goto("Stop", "cancel") /\ mu' = "Stop"
       \/ /\ nix = 0 /\ runner /\ (native \/ ~keepRunning)
          /\ Goto("Stop", "container") /\ mu' = "Stop"
       \/ /\ nix = 0 /\ (~runner \/ (~native /\ keepRunning))
          /\ Goto("Stop", "returned") /\ UNCHANGED mu
    /\ UNCHANGED <<rigidVars, inits, starts, handleVars, superVars, fwdVars>>

Destroy ==
    /\ pc["Destroy"] = "mu" /\ mu = "free"
    /\ StopWatcher
    /\ \/ nix # 0 /\ Goto("Destroy", "cancel") /\ mu' = "Destroy"
       \/ nix = 0 /\ native /\ Goto("Destroy", "returned") /\ UNCHANGED mu
       \/ nix = 0 /\ ~native /\ Goto("Destroy", "shutdown") /\ mu' = "Destroy"
    /\ UNCHANGED <<rigidVars, inits, starts, handleVars, superVars, fwdVars>>

\* release on a handle another release has just cleared: the panic is caught
\* (Wool.Catch) and the deferred Unlock runs.
ReleaseNil(t) ==
    /\ pc[t] = "cancel" /\ nix = 0
    /\ Goto(t, "failed")
    /\ Unlock(t)
    /\ UNCHANGED <<rigidVars, inits, starts, handleVars, superVars, watcherVars, fwdVars>>

\* release: supervision ends before anything else.
CancelSupervision(t) ==
    /\ pc[t] = "cancel" /\ nix # 0
    /\ cancelled' = cancelled \cup {nix}
    /\ IF listening THEN BeginClose ELSE UNCHANGED fwdVars
    /\ Goto(t, "close")
    /\ UNCHANGED <<rigidVars, mu, inits, starts, handleVars, status, gone, early, watch, exit,
                   sup, reported, watcherVars>>

\* Mutation: the release does not wait for the forwarder's Close.
EndpointAbandoned(t) ==
    /\ pc[t] = "close"
    /\ Goto(t, "unhold")
    /\ UNCHANGED <<rigidVars, mu, inits, starts, handleVars, superVars, watcherVars, fwdVars>>

\* The forwarder's Close has returned, or there was none.
EndpointClosed(t) ==
    /\ pc[t] = "close"
    /\ IF closing = "wait" THEN CloseReturns ELSE UNCHANGED fwdVars
    /\ Goto(t, "unhold")
    /\ UNCHANGED <<rigidVars, mu, inits, starts, handleVars, superVars, watcherVars>>

\* The holder record is removed, and the server stopped if it was the last.
ReleaseNative(t) ==
    /\ pc[t] = "unhold"
    /\ nix' = 0 /\ released' = TRUE
    /\ Goto(t, IF t = "setup" THEN "failed" ELSE "returned")
    /\ Unlock(t)
    /\ UNCHANGED <<rigidVars, inits, starts, runner, container, superVars, watcherVars, fwdVars>>

\* The lock, the holder record or the stop failed: the handle stays.
ReleaseFails(t) ==
    /\ pc[t] = "unhold"
    /\ Goto(t, "failed")
    /\ Unlock(t)
    /\ UNCHANGED <<rigidVars, inits, starts, handleVars, superVars, watcherVars, fwdVars>>

\* stopContainer: a failure is tried once more when the caller still listens.
StopContainer ==
    /\ pc["Stop"] \in {"container", "containerAgain"}
    /\ container' = IF container = "running" THEN "stopped" ELSE container
    /\ released' = TRUE
    /\ Goto("Stop", "returned") /\ Unlock("Stop")
    /\ UNCHANGED <<rigidVars, inits, starts, nix, runner, superVars, watcherVars, fwdVars>>

StopContainerFails ==
    /\ pc["Stop"] \in {"container", "containerAgain"}
    /\ container' \in {container, IF container = "running" THEN "stopped" ELSE container}
    /\ \/ pc["Stop"] = "container" /\ Goto("Stop", "containerAgain") /\ UNCHANGED mu
       \/ Goto("Stop", "failed") /\ Unlock("Stop")
    /\ UNCHANGED <<rigidVars, inits, starts, nix, runner, released, superVars, watcherVars, fwdVars>>

RemoveContainer ==
    /\ pc["Destroy"] = "shutdown"
    /\ container' = "absent" /\ runner' = FALSE /\ released' = TRUE
    /\ Goto("Destroy", "returned") /\ Unlock("Destroy")
    /\ UNCHANGED <<rigidVars, inits, starts, nix, superVars, watcherVars, fwdVars>>

RemoveContainerFails ==
    /\ pc["Destroy"] = "shutdown"
    /\ Goto("Destroy", "failed") /\ Unlock("Destroy")
    /\ UNCHANGED <<rigidVars, inits, starts, handleVars, superVars, watcherVars, fwdVars>>

-----------------------------------------------------------------------------
\* The endpoint's own goroutines run beside the handlers.
Forward == FwdStep /\ UNCHANGED <<rigidVars, callVars, handleVars, superVars, watcherVars>>

InitStep ==
    \/ InitFails \/ AcquireServer \/ ProvisionDatabase \/ PublishEndpoint \/ NativeInitFails
    \/ KeepRunner \/ InitContainer \/ ContainerInitFails \/ MigrateOnInit

StartStep ==
    \/ Prepare \/ ArmWatcher \/ EnsureAccess \/ StartFails \/ CommitStarted \/ Supervise

TeardownStep(t) ==
    \/ ReleaseNil(t) \/ CancelSupervision(t) \/ EndpointClosed(t) \/ ReleaseNative(t) \/ ReleaseFails(t)

StopStep == Stop \/ StopContainer \/ StopContainerFails
DestroyStep == Destroy \/ RemoveContainer \/ RemoveContainerFails

SuperviseStep(g) ==
    \/ WatchTick(g) \/ WatchCancelled(g) \/ ReceiveExit(g) \/ JudgeExit(g) \/ ReportExit(g)

Next ==
    \/ BeginInit \/ InitStep
    \/ BeginStart \/ StartStep
    \/ \E t \in Teardown : BeginTeardown(t)
    \/ \E t \in Thread : TeardownStep(t)
    \/ StopStep \/ DestroyStep
    \/ \E g \in Attachment : PostmasterExits(g) \/ SuperviseStep(g)
    \/ Forward

Spec == Init /\ [][Next]_vars

(***************************************************************************)
(* Fairness.  A handler under way goes on: every call it makes is bounded  *)
(* by a budget or by its context, and lifecycleMu is handed over.  The     *)
(* watch goroutine's ticker fires, and goroutines that can run do.  Nobody *)
(* has to call, connect, crash or fail.                                    *)
(***************************************************************************)
Fairness ==
    /\ WF_vars(InitStep) /\ WF_vars(StartStep)
    /\ \A t \in Thread : WF_vars(TeardownStep(t))
    /\ SF_vars(StopStep) /\ SF_vars(DestroyStep)
    /\ \A g \in Attachment : WF_vars(SuperviseStep(g))
    /\ WF_vars(Forward /\ AcceptFails) /\ WF_vars(Forward /\ TrackClient)
    /\ WF_vars(Forward /\ Spawn)
    /\ \A c \in Conn :
        /\ WF_vars(Forward /\ PipeStep(c) /\ pipe[c] # "copy")
        /\ WF_vars(Forward /\ CopyEnds(c) /\ ~({Client(c), Server(c)} \subseteq open))

FairSpec == Spec /\ Fairness

-----------------------------------------------------------------------------
(* Properties *)

LifeTypeOK ==
    /\ liberties \in SUBSET Liberty /\ native \in BOOLEAN /\ keepRunning \in BOOLEAN
    /\ pc \in [Thread -> ThreadPc] /\ mu \in Teardown \cup {"free"}
    /\ inits \in 0..MaxInit /\ starts \in 0..MaxStart
    /\ nix \in 0..MaxInit /\ runner \in BOOLEAN
    /\ container \in {"absent", "running", "stopped"} /\ released \in BOOLEAN
    /\ status \in {"none", "STARTED", "ERROR"}
    /\ cancelled \subseteq Attachment /\ gone \subseteq Attachment
    /\ early \subseteq Attachment /\ reported \subseteq Attachment
    /\ watch \in [Attachment -> {"off", "ticking", "ended"}]
    /\ exit \in [Attachment -> {"empty", "full", "drained"}]
    /\ sup \in [Attachment -> {"none", "waiting", "received", "report", "ended"}]
    /\ watchers \in Nat /\ cancel \in BOOLEAN

TypeOK == LifeTypeOK /\ FwdTypeOK

\* Supervise calls onExit only "if the run's postmaster terminates while this
\* agent still holds it": an exit that follows this agent's own release, which
\* may be what stopped the server, is never reported as a crash.
NoFalseAlarm == reported \subseteq early

\* A death that was reported is not masked: while the attachment it happened to
\* is the current one, StartStatus is not STARTED, however the report raced the
\* Start that commits it.
DeathNotMasked == nix \in reported => status = "ERROR"

\* A Stop or Destroy that reports success has given everything up: nothing
\* listens at the endpoint, no connection of it is open, and the container is
\* not running unless the caller asked to keep it.  Assumed of the caller: no
\* teardown begins while Init runs.  (An Init abandoned before it has a handle
\* is not waited for: Stop succeeds, and Init publishes the endpoint after it.)
ReleasedMeansDown ==
    Patient /\ (\E t \in Teardown : pc[t] = "returned") /\ Resting("setup") =>
        /\ nix = 0
        /\ ~listening /\ open = {}
        /\ native \/ keepRunning \/ container # "running"

\* "Stop must leave no watcher firing EventHandler", "no watcher may survive
\* Destroy": once a teardown has returned, no hot-reload watcher runs.
StopLeavesNoWatcher ==
    (\E t \in Teardown : pc[t] = "returned")
        /\ (\A t \in Thread : Resting(t))
        => watchers = 0

\* What is true of it: the teardown leaves no watcher when the caller neither
\* retries a failed Start nor tears down while a Start or an Init runs.
DisciplinedStopLeavesNoWatcher ==
    liberties = {} => StopLeavesNoWatcher

\* A postmaster that dies while this agent holds it and Start has returned is
\* reported, so that nobody waits for a server that is gone.
DeathReported ==
    \A g \in Attachment :
        (sup[g] # "none" /\ g \in gone /\ g \notin cancelled)
            ~> (g \in reported \/ g \in cancelled)

\* Stop and Destroy return, whatever connections are open and whichever of the
\* two waits for the other.
TeardownEnds == \A t \in Teardown : pc[t] = "mu" ~> Resting(t)

-----------------------------------------------------------------------------
(* The inductive invariant behind the safety properties *)

\* What was not attached has no goroutines, and an attachment is new.
AttachInv ==
    /\ \A g \in Attachment :
        /\ watch[g] = "off" => g \notin gone /\ sup[g] = "none"
        /\ g > inits => watch[g] = "off"
    /\ nix # 0 => native /\ watch[nix] # "off"
    /\ runner => ~native
    /\ inits = 0 => nix = 0
    /\ pc["setup"] = "acquire" =>
        /\ native /\ inits \in Attachment /\ watch[inits] = "off"
        /\ Patient \/ nix = 0

\* What reaches the report exited before this agent cancelled its supervision.
ExitInv(g) ==
    /\ exit[g] # "empty" => g \in gone
    /\ sup[g] \in {"received", "report"} => g \in gone
    /\ sup[g] = "report" => g \in early
    /\ g \in gone => g \in early \cup cancelled
    /\ g \in early => g \in gone
    /\ g \in reported => g \in early

GivenUp == nix = 0 \/ nix \in cancelled

\* One teardown at a time works on the handle it found, and has given it up when
\* it ends, unless it ended before the Init it did not wait for had attached.
\* With a patient caller no Init runs beside it.
TeardownInv(t) ==
    /\ pc[t] \in {"cancel", "close", "unhold", "container", "containerAgain", "shutdown"} => mu = t
    /\ pc[t] \in {"close", "unhold"} => GivenUp
    /\ pc[t] \in {"container", "containerAgain", "shutdown"} => ~native
    /\ pc[t] \in {"returned", "failed"} =>
        GivenUp \/ (/\ sup[nix] = "none"
                    /\ pc["setup"] \in {"provision", "listen", "migrate", "cancel", "initialized"})
    /\ pc["setup"] = "acquire" => pc[t] \notin {"cancel", "close", "unhold"}
    /\ Patient =>
        /\ pc[t] = "cancel" => nix # 0
        /\ pc[t] \in {"returned", "failed"} => GivenUp
        /\ pc["setup"] \in Initializing \cup Releasing => pc[t] = "idle"

\* Until Start supervises it, nothing can report on the current attachment.
SetupInv ==
    /\ Patient => (pc["setup"] \in {"provision", "listen", "cancel"} => nix # 0)
    /\ Patient => (native /\ pc["setup"] = "migrate" => nix # 0)
    /\ pc["setup"] \in {"docker", "boot"} => ~native
    /\ pc["setup"] \in {"provision", "listen", "migrate", "initialized", "started", "startFailed"}
            \cup Starting => nix \in {0, inits}
    /\ pc["setup"] \in {"close", "unhold"} => GivenUp
    /\ pc["setup"] \in Initializing \cup Starting \cup {"initialized", "startFailed"} =>
        GivenUp \/ sup[nix] = "none"
    /\ pc["setup"] \in {"commit", "supervise"} =>
        nix \notin reported /\ (nix # 0 => sup[nix] # "report")

\* What watcherCancel refers to is running.
WatcherInv == cancel => watchers > 0

LifeInv ==
    /\ AttachInv /\ SetupInv /\ WatcherInv /\ DeathNotMasked
    /\ \A g \in Attachment : ExitInv(g)
    /\ \A t \in Teardown : TeardownInv(t)

\* The endpoint is closed for good, until the next Init opens one.
EndpointGone == Quiet /\ (closing = "returned" \/ serve = "off")

\* The endpoint is open, on its way out or gone; it is gone before and after an
\* attachment, and a running container has its environment.
EndpointUse ==
    /\ listening \/ closing = "wait" \/ EndpointGone
    /\ nix = 0 => EndpointGone
    /\ pc["setup"] \in {"acquire", "docker", "provision", "listen", "unhold"} => EndpointGone
    /\ pc["setup"] = "close" => ~listening
    /\ pc["setup"] = "boot" => runner
    /\ container = "running" => runner

\* What a teardown has given up, point by point.
DownInv(t) ==
    /\ pc[t] \in {"cancel", "close", "unhold"} => native
    /\ pc[t] = "close" => ~listening
    /\ pc[t] \in {"unhold", "returned", "failed"} => EndpointGone
    /\ pc[t] \in {"container", "containerAgain", "shutdown", "returned"} => nix = 0
    /\ pc[t] = "returned" => native \/ keepRunning \/ container # "running"

\* With a careful caller a Start begins without a watcher, and no teardown runs
\* beside it.
CarefulInv ==
    liberties = {} =>
        /\ watchers = IF cancel THEN 1 ELSE 0
        /\ inits = 0 => ~cancel /\ pc["setup"] = "idle"
        /\ pc["setup"] \in Initializing \cup Releasing \cup {"initialized", "prepare", "arm"} => ~cancel
        /\ \A t \in Teardown :
            /\ pc[t] \notin {"idle", "mu"} => ~cancel
            /\ Resting(t) \/ Resting("setup")
            /\ pc["setup"] \in Starting => pc[t] = "idle"

GivenUpInv == Patient => EndpointUse /\ CarefulInv /\ \A t \in Teardown : DownInv(t)

=============================================================================
