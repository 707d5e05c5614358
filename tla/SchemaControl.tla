--------------------------- MODULE SchemaControl ---------------------------
(***************************************************************************)
(* The database control plane: migrations, hot reload and runtime grants   *)
(* (runtime.go, migrations.go, hotreload.go, runtime_access.go).           *)
(*                                                                         *)
(* Agents that serve one database run transitions on it.  The lifecycle    *)
(* actor of an agent runs Init and Start, its watcher runs EventHandler;   *)
(* the two exclude each other with the agent's controlPlaneLock, and every *)
(* session excludes every other one with an advisory lock in the database. *)
(* golang-migrate moves a lineage's ledger, marked dirty, before a         *)
(* migration's body and cleans the mark after it, so a session that ends   *)
(* in between leaves it dirty.                                             *)
(***************************************************************************)
EXTENDS Naturals

CONSTANTS
    Agent,      \* agent processes serving the database
    Actor,      \* their goroutines that run transitions
    AgentOf,    \* the agent an actor belongs to
    Watcher,    \* the actors that run EventHandler; the others run Init, Start
    NLineage,   \* lineages are applied in the order 1 .. NLineage
    MaxVersion, \* migration versions are 1 .. MaxVersion
    Shipped,    \* versions every lineage has files for from the start
    None,       \* no owner
    MaxFaults   \* bound: cancellations, failed statements and timeouts

ASSUME ActorAssumption ==
    /\ AgentOf \in [Actor -> Agent] /\ Watcher \subseteq Actor
    /\ None \notin Actor

ASSUME NumberAssumption ==
    /\ NLineage \in Nat \ {0} /\ MaxVersion \in Nat /\ MaxFaults \in Nat
    /\ Shipped \subseteq 1 .. MaxVersion

Lineage == 1 .. NLineage
Version == 1 .. MaxVersion
Op == {"none", "init", "start", "save"}

VARIABLES
    pc,        \* where each actor is in its transition
    op,        \* the transition it runs
    at,        \* the lineage it works on
    saw,       \* the version of the file a save was about
    snap,      \* the versions openSource listed, per lineage
    base,      \* the version hot reload read before it migrated
    pos,       \* the version Up has reached
    failed,    \* the error the transition will return is set
    ended,     \* the caller's context is done
    late,      \* it was done before the control plane was acquired
    grants,    \* the tables an open transaction has granted
    cp,        \* owner of each agent's controlPlaneLock
    up,        \* agents still running
    armed,     \* agents whose watcher is set up
    inited,    \* agents whose Init has succeeded
    port,      \* agents whose endpoint accepts connections
    adv,       \* session that holds the runtime-access advisory lock
    files,     \* versions each lineage has an up file for
    ledger,    \* each lineage's tracking table
    runs,      \* how often each migration's body has committed
    granted,   \* tables the runtime roles can use
    defaults,  \* default privileges are installed
    faults     \* failures injected so far

localVars == <<op, at, saw, snap, base, pos, failed, ended, late, grants>>
agentVars == <<cp, up, armed, inited, port>>
dbVars == <<adv, files, ledger, runs, granted, defaults>>
vars == <<pc, localVars, agentVars, dbVars, faults>>

ActorPc == {"idle", "wait", "extensions", "open", "source", "version", "up", "next",
            "body", "clean", "close", "access", "grant", "commit", "orphan", "dead"}

-----------------------------------------------------------------------------
(* Tables stand for what a migration's body creates. *)

Table == Lineage \X Version
Tables == {x \in Table : runs[x[1]][x[2]] > 0}

Goto(t, place) == pc' = [pc EXCEPT ![t] = place]
Fault == faults < MaxFaults /\ faults' = faults + 1
NoFault == UNCHANGED faults

\* A step under the caller's context fails.
Breaks(t) == (ended[t] /\ NoFault) \/ Fault

Clean(v) == [version |-> v, dirty |-> FALSE]

Dirty(v) == [version |-> v, dirty |-> TRUE]

\* Mutation: the advisory lock is asked for but not waited for.
TryLock(t) == adv' = t

TakeLock(t) == adv = None /\ adv' = t

\* Mutation: a session that failed goes back to its pool with the lock.
LeakLock(t) == adv' = IF adv = t /\ ~failed[t] THEN None ELSE adv

DropLock(t) == adv' = IF adv = t THEN None ELSE adv

NoSnap == [l \in Lineage |-> {}]

Init ==
    /\ pc = [t \in Actor |-> "idle"]
    /\ op = [t \in Actor |-> "none"]
    /\ at = [t \in Actor |-> 1]
    /\ saw = [t \in Actor |-> 0]
    /\ snap = [t \in Actor |-> NoSnap]
    /\ base = [t \in Actor |-> 0]
    /\ pos = [t \in Actor |-> 0]
    /\ failed = [t \in Actor |-> FALSE]
    /\ ended = [t \in Actor |-> FALSE]
    /\ late = [t \in Actor |-> FALSE]
    /\ grants = [t \in Actor |-> {}]
    /\ cp = [g \in Agent |-> None]
    /\ up = Agent /\ armed = {} /\ inited = {} /\ port = {}
    /\ adv = None
    /\ files = [l \in Lineage |-> Shipped]
    /\ ledger = [l \in Lineage |-> Clean(0)]
    /\ runs = [l \in Lineage |-> [v \in Version |-> 0]]
    /\ granted = {} /\ defaults = FALSE
    /\ faults = 0

\* The transition returns, with the control plane released.  An Init that
\* failed gives its endpoint back.
Return(t, ok) ==
    LET g == AgentOf[t] IN
    /\ Goto(t, "idle")
    /\ cp' = [cp EXCEPT ![g] = IF @ = t THEN None ELSE @]
    /\ inited' = IF op[t] = "init" THEN (IF ok THEN inited \cup {g} ELSE inited \ {g}) ELSE inited
    /\ port' = IF op[t] = "init" /\ ~ok THEN port \ {g} ELSE port
    /\ op' = [op EXCEPT ![t] = "none"]
    /\ at' = [at EXCEPT ![t] = 1]
    /\ saw' = [saw EXCEPT ![t] = 0]
    /\ snap' = [snap EXCEPT ![t] = NoSnap]
    /\ base' = [base EXCEPT ![t] = 0]
    /\ pos' = [pos EXCEPT ![t] = 0]
    /\ failed' = [failed EXCEPT ![t] = FALSE]
    /\ ended' = [ended EXCEPT ![t] = FALSE]
    /\ late' = [late EXCEPT ![t] = FALSE]
    /\ grants' = [grants EXCEPT ![t] = {}]
    /\ UNCHANGED <<up, armed>>

-----------------------------------------------------------------------------
(* Entering a transition *)

\* Init up to migrateOnInit's acquire: the endpoint is published, then the
\* database answers; the context was not done at acquire's first check.
BeginInit(t) ==
    /\ pc[t] = "idle" /\ t \notin Watcher /\ AgentOf[t] \notin inited
    /\ Goto(t, "wait")
    /\ op' = [op EXCEPT ![t] = "init"]
    /\ port' = port \cup {AgentOf[t]}
    /\ UNCHANGED <<at, saw, snap, base, pos, failed, ended, late, grants, cp, up, armed, inited, dbVars, faults>>

\* Start up to its acquire.
BeginStart(t) ==
    /\ pc[t] = "idle" /\ t \notin Watcher /\ AgentOf[t] \in inited
    /\ Goto(t, "wait")
    /\ op' = [op EXCEPT ![t] = "start"]
    /\ UNCHANGED <<at, saw, snap, base, pos, failed, ended, late, grants, agentVars, dbVars, faults>>

\* EventHandler for an up file that exists, newly written or edited.  For every
\* other name it takes and releases the control plane without effect.
BeginSave(t, l, v) ==
    /\ pc[t] = "idle" /\ t \in Watcher /\ AgentOf[t] \in armed
    /\ v \in files[l]
    /\ Goto(t, "wait")
    /\ op' = [op EXCEPT ![t] = "save"]
    /\ at' = [at EXCEPT ![t] = l]
    /\ saw' = [saw EXCEPT ![t] = v]
    /\ UNCHANGED <<snap, base, pos, failed, ended, late, grants, agentVars, dbVars, faults>>

\* The caller of Init or Start gives up; EventHandler has no caller.
Cancel(t) ==
    /\ pc[t] \notin {"idle", "orphan", "dead"} /\ t \notin Watcher /\ ~ended[t] /\ Fault
    /\ ended' = [ended EXCEPT ![t] = TRUE]
    /\ UNCHANGED <<pc, op, at, saw, snap, base, pos, failed, late, grants, agentVars, dbVars>>

\* controlPlaneLock.acquire.  When the context ends while the lock is waited
\* for, select may still choose the lock.
AcquireControlPlane(t) ==
    LET g == AgentOf[t] IN
    /\ pc[t] = "wait" /\ cp[g] = None
    /\ cp' = [cp EXCEPT ![g] = t]
    /\ late' = [late EXCEPT ![t] = ended[t]]
    /\ Goto(t, IF op[t] = "save" THEN "open" ELSE "extensions")
    /\ UNCHANGED <<op, at, saw, snap, base, pos, failed, ended, grants, up, armed, inited, port, dbVars, faults>>

\* acquire returns ctx.Err().
AcquireCancelled(t) ==
    /\ pc[t] = "wait" /\ ended[t]
    /\ Return(t, FALSE)
    /\ UNCHANGED <<dbVars, faults>>

\* ensureExtensions: an extension that is not required is skipped when it
\* cannot be created, for whatever reason.
EnsureExtensions(t) ==
    /\ pc[t] = "extensions"
    /\ Goto(t, "open")
    /\ UNCHANGED <<localVars, agentVars, dbVars, faults>>

\* A required extension cannot be created.
ExtensionFails(t) ==
    /\ pc[t] = "extensions" /\ Breaks(t)
    /\ Return(t, FALSE)
    /\ UNCHANGED dbVars

-----------------------------------------------------------------------------
(* openMigration *)

\* Mutation: the connection is reserved without the caller's context.
OpenDetached(t) ==
    /\ pc[t] = "open"
    /\ TakeLock(t)
    /\ Goto(t, "source")
    /\ UNCHANGED <<localVars, agentVars, files, ledger, runs, granted, defaults, faults>>

\* Mutation: migrations do not join the runtime-access lock domain.
OpenUnlocked(t) ==
    /\ pc[t] = "open" /\ ~ended[t]
    /\ Goto(t, "source")
    /\ UNCHANGED <<localVars, agentVars, dbVars, faults>>

\* A connection of its own, its budgets, then the session's advisory lock.
OpenMigration(t) ==
    /\ pc[t] = "open" /\ ~ended[t]
    /\ TakeLock(t)
    /\ Goto(t, "source")
    /\ UNCHANGED <<localVars, agentVars, files, ledger, runs, granted, defaults, faults>>

\* The driver's tracking table and openSource's one listing of the directory.
OpenSource(t) ==
    LET l == at[t] IN
    /\ pc[t] = "source"
    /\ snap' = [snap EXCEPT ![t][l] = files[l]]
    /\ Goto(t, IF op[t] = "save" THEN "version" ELSE "up")
    /\ UNCHANGED <<op, at, saw, base, pos, failed, ended, late, grants, agentVars, dbVars, faults>>

\* A step of openMigration fails: the pool is closed and with it the session.
\* applySource tries again within its budget.
OpenRetry(t) ==
    /\ pc[t] \in {"open", "source"} /\ op[t] # "save" /\ ~ended[t] /\ Fault
    /\ DropLock(t)
    /\ Goto(t, "open")
    /\ UNCHANGED <<localVars, agentVars, files, ledger, runs, granted, defaults>>

\* The budget or the context is over, or hot reload's single attempt failed.
OpenFails(t) ==
    /\ pc[t] \in {"open", "source"}
    /\ Breaks(t)
    /\ DropLock(t)
    /\ Return(t, FALSE)
    /\ UNCHANGED <<files, ledger, runs, granted, defaults>>

-----------------------------------------------------------------------------
(* Migrating one lineage *)

\* Mutation: the error of a failed migration is lost.
FailSwallowed(t) == UNCHANGED failed /\ Goto(t, "close")

Fail(t) == failed' = [failed EXCEPT ![t] = TRUE] /\ Goto(t, "close")

\* Mutation: a dirty ledger is taken at its word.
TrustsDirty(now) == FALSE

\* A dirty ledger is never migrated from.
FailsClosed(now) == now.dirty

\* applyMigrationChange reads the ledger and refuses an edit of an applied
\* migration, or a dirty lineage.
ReadVersion(t) ==
    LET now == ledger[at[t]] IN
    /\ pc[t] = "version"
    /\ \/ /\ FailsClosed(now) \/ now.version >= saw[t]
          /\ Fail(t)
       \/ /\ ~FailsClosed(now) /\ now.version < saw[t]
          /\ Goto(t, "up")
          /\ UNCHANGED failed
    /\ base' = [base EXCEPT ![t] = now.version]
    /\ UNCHANGED <<op, at, saw, snap, pos, ended, late, grants, agentVars, dbVars, faults>>

\* Up reads the ledger again; a dirty one fails closed.
StartUp(t) ==
    LET now == ledger[at[t]] IN
    /\ pc[t] = "up"
    /\ \/ FailsClosed(now) /\ Fail(t)
       \/ ~FailsClosed(now) /\ Goto(t, "next") /\ UNCHANGED failed
    /\ pos' = [pos EXCEPT ![t] = now.version]
    /\ UNCHANGED <<op, at, saw, snap, base, ended, late, grants, agentVars, dbVars, faults>>

Above(t) == {v \in snap[t][at[t]] : v > pos[t]}

\* The next version is marked dirty before its body runs.
MarkDirty(t, v) ==
    /\ pc[t] = "next"
    /\ v \in Above(t) /\ \A w \in Above(t) : v <= w
    /\ ledger' = [ledger EXCEPT ![at[t]] = Dirty(v)]
    /\ pos' = [pos EXCEPT ![t] = v]
    /\ Goto(t, "body")
    /\ UNCHANGED <<op, at, saw, snap, base, failed, ended, late, grants, agentVars, adv, files, runs, granted, defaults, faults>>

\* Nothing left above the version Up has reached.
UpDone(t) ==
    /\ pc[t] = "next" /\ Above(t) = {}
    /\ Goto(t, "close")
    /\ UNCHANGED <<localVars, agentVars, dbVars, faults>>

\* A body commits: its table exists, and the default privileges in force apply.
Commit(l, v) ==
    /\ runs' = [runs EXCEPT ![l][v] = @ + 1]
    /\ granted' = IF defaults THEN granted \cup {<<l, v>>} ELSE granted

RunBody(t) ==
    /\ pc[t] = "body"
    /\ Commit(at[t], pos[t])
    /\ Goto(t, "clean")
    /\ UNCHANGED <<localVars, agentVars, adv, files, ledger, defaults, faults>>

MarkClean(t) ==
    /\ pc[t] = "clean"
    /\ ledger' = [ledger EXCEPT ![at[t]] = Clean(pos[t])]
    /\ Goto(t, "next")
    /\ UNCHANGED <<localVars, agentVars, adv, files, runs, granted, defaults, faults>>

\* A statement of Up fails.  A body that failed was rolled back, unless only
\* its answer was lost; the ledger keeps what was last written.
UpFails(t) ==
    /\ pc[t] \in {"version", "up", "next", "body", "clean"} /\ Fault
    /\ Fail(t)
    /\ \/ UNCHANGED <<runs, granted>>
       \/ pc[t] = "body" /\ Commit(at[t], pos[t])
    /\ UNCHANGED <<op, at, saw, snap, base, pos, ended, late, grants, agentVars, adv, files, ledger, defaults>>

\* Did hot reload find the ledger moved?
Applied(t) == ~failed[t] /\ ledger[at[t]].version # base[t]

\* migrationHandle.Close: unlock, then the connection and the pool.  A failure
\* of it fails applySource, but not hot reload.
CloseMigration(t) ==
    /\ pc[t] = "close"
    /\ DropLock(t)
    /\ \/ /\ op[t] = "save" /\ Applied(t) /\ NoFault
          /\ Goto(t, "access")
          /\ UNCHANGED <<localVars, agentVars>>
       \/ /\ op[t] = "save" /\ ~Applied(t) /\ NoFault
          /\ Return(t, FALSE)
       \/ /\ op[t] # "save" /\ ((failed[t] /\ NoFault) \/ Fault)
          /\ Return(t, FALSE)
       \/ /\ op[t] # "save" /\ ~failed[t] /\ at[t] < NLineage /\ NoFault
          /\ Goto(t, "open")
          /\ at' = [at EXCEPT ![t] = @ + 1]
          /\ UNCHANGED <<op, saw, snap, base, pos, failed, ended, late, grants, agentVars>>
       \/ /\ op[t] # "save" /\ ~failed[t] /\ at[t] = NLineage /\ NoFault
          /\ Goto(t, "access")
          /\ armed' = IF op[t] = "start" THEN armed \cup {AgentOf[t]} ELSE armed
          /\ UNCHANGED <<localVars, cp, up, inited, port>>
    /\ UNCHANGED <<files, ledger, runs, granted, defaults>>

-----------------------------------------------------------------------------
(* ensureRuntimeAccessLocked *)

\* The transaction begins with the advisory lock, held until it ends.
LockAccess(t) ==
    /\ pc[t] = "access" /\ ~ended[t]
    /\ TakeLock(t)
    /\ Goto(t, "grant")
    /\ UNCHANGED <<localVars, agentVars, files, ledger, runs, granted, defaults, faults>>

\* The roles, the grants on all tables there are, and the default privileges.
GrantTables(t) ==
    /\ pc[t] = "grant"
    /\ grants' = [grants EXCEPT ![t] = Tables]
    /\ Goto(t, "commit")
    /\ UNCHANGED <<op, at, saw, snap, base, pos, failed, ended, late, agentVars, dbVars, faults>>

\* The transaction's revocations and grants become visible together.
Publish(t) ==
    /\ granted' = (granted \ Tables) \cup grants[t]
    /\ defaults' = TRUE

CommitAccess(t) ==
    /\ pc[t] = "commit"
    /\ Publish(t)
    /\ DropLock(t)
    /\ Return(t, TRUE)
    /\ UNCHANGED <<files, ledger, runs, faults>>

\* The transaction rolls back, unless only the answer to its commit was lost.
AccessFails(t) ==
    /\ pc[t] \in {"access", "grant", "commit"}
    /\ Breaks(t)
    /\ UNCHANGED <<granted, defaults>> \/ (pc[t] = "commit" /\ Publish(t))
    /\ DropLock(t)
    /\ Return(t, FALSE)
    /\ UNCHANGED <<files, ledger, runs>>

-----------------------------------------------------------------------------
(* The environment *)

\* Stop or Destroy: no save is delivered any more and the endpoint closes, but
\* transitions under way go on.
Stop(g) ==
    /\ g \in inited
    /\ armed' = armed \ {g} /\ port' = port \ {g} /\ inited' = inited \ {g}
    /\ UNCHANGED <<pc, localVars, cp, up, dbVars, faults>>

\* An agent is killed.  Its sessions end at once, except one whose backend is
\* executing a migration's body.
AgentDies(g) ==
    /\ g \in up
    /\ up' = up \ {g}
    /\ pc' = [t \in Actor |-> IF AgentOf[t] # g THEN pc[t]
                              ELSE IF pc[t] = "body" THEN "orphan" ELSE "dead"]
    /\ adv' = IF adv # None /\ AgentOf[adv] = g /\ pc[adv] # "body" THEN None ELSE adv
    /\ armed' = armed \ {g} /\ port' = port \ {g} /\ inited' = inited \ {g}
    /\ UNCHANGED <<localVars, cp, files, ledger, runs, granted, defaults, faults>>

\* The backend an agent left behind ends its statement, and its session.
OrphanEnds(t) ==
    /\ pc[t] = "orphan"
    /\ Commit(at[t], pos[t]) \/ UNCHANGED <<runs, granted>>
    /\ DropLock(t)
    /\ Goto(t, "dead")
    /\ UNCHANGED <<localVars, agentVars, files, ledger, defaults, faults>>

\* The developer adds a migration.
SaveFile(l, v) ==
    /\ v \notin files[l]
    /\ files' = [files EXCEPT ![l] = @ \cup {v}]
    /\ UNCHANGED <<pc, localVars, agentVars, adv, ledger, runs, granted, defaults, faults>>

\* An operator reconciles a dirty lineage by the runbook, with no migration
\* under way: the ledger is pointed at the last version that was applied.
Repair(l) ==
    /\ ledger[l].dirty /\ adv = None
    /\ \E v \in {0} \cup {w \in Version : runs[l][w] > 0} :
        /\ \A w \in Version : runs[l][w] > 0 => w <= v
        /\ ledger' = [ledger EXCEPT ![l] = Clean(v)]
    /\ UNCHANGED <<pc, localVars, agentVars, adv, files, runs, granted, defaults, faults>>

-----------------------------------------------------------------------------
MigrateStep(t) ==
    \/ OpenMigration(t) \/ OpenSource(t) \/ OpenRetry(t) \/ OpenFails(t)
    \/ ReadVersion(t) \/ StartUp(t) \/ UpDone(t)
    \/ \E v \in Version : MarkDirty(t, v)
    \/ RunBody(t) \/ MarkClean(t) \/ UpFails(t) \/ CloseMigration(t)

AccessStep(t) == LockAccess(t) \/ GrantTables(t) \/ CommitAccess(t) \/ AccessFails(t)

\* What an actor does once its transition is under way.
Step(t) ==
    \/ AcquireControlPlane(t) \/ AcquireCancelled(t)
    \/ EnsureExtensions(t) \/ ExtensionFails(t)
    \/ MigrateStep(t) \/ AccessStep(t) \/ OrphanEnds(t)

Next ==
    \/ \E t \in Actor :
        \/ Step(t) \/ BeginInit(t) \/ BeginStart(t) \/ Cancel(t)
        \/ \E l \in Lineage, v \in Version : BeginSave(t, l, v)
    \/ \E g \in Agent : Stop(g) \/ AgentDies(g)
    \/ \E l \in Lineage, v \in Version : SaveFile(l, v)
    \/ \E l \in Lineage : Repair(l)

Spec == Init /\ [][Next]_vars

(***************************************************************************)
(* Fairness.  A transition goes on: statements carry a server-side budget, *)
(* the channel behind controlPlaneLock and postgres' advisory locks both   *)
(* serve their waiters in order.  Nobody has to begin a transition, save a *)
(* file, repair a ledger, fail or die.                                     *)
(***************************************************************************)
Fairness ==
    \A t \in Actor :
        /\ WF_vars(Step(t))
        /\ SF_vars(AcquireControlPlane(t) \/ OpenMigration(t) \/ LockAccess(t))

FairSpec == Spec /\ Fairness

-----------------------------------------------------------------------------
(* Properties *)

TypeOK ==
    /\ pc \in [Actor -> ActorPc]
    /\ op \in [Actor -> Op]
    /\ at \in [Actor -> Lineage]
    /\ saw \in [Actor -> Version \cup {0}]
    /\ snap \in [Actor -> [Lineage -> SUBSET Version]]
    /\ base \in [Actor -> Version \cup {0}]
    /\ pos \in [Actor -> Version \cup {0}]
    /\ \A t \in Actor : pc[t] \in {"body", "clean", "orphan"} => pos[t] \in Version
    /\ failed \in [Actor -> BOOLEAN]
    /\ ended \in [Actor -> BOOLEAN]
    /\ late \in [Actor -> BOOLEAN]
    /\ grants \in [Actor -> SUBSET Table]
    /\ cp \in [Agent -> Actor \cup {None}]
    /\ up \subseteq Agent /\ armed \subseteq Agent
    /\ inited \subseteq Agent /\ port \subseteq Agent
    /\ adv \in Actor \cup {None}
    /\ files \in [Lineage -> SUBSET Version]
    /\ ledger \in [Lineage -> [version: Version \cup {0}, dirty: BOOLEAN]]
    /\ runs \in [Lineage -> [Version -> Nat]]
    /\ granted \subseteq Table
    /\ defaults \in BOOLEAN
    /\ faults \in Nat

\* A lineage's ledger tells the truth unless it is dirty: a clean one is at the
\* last version that was applied, a dirty one at a version above every other
\* applied one.
LedgerTruthful ==
    \A l \in Lineage :
        LET now == ledger[l] IN
        /\ \A v \in Version : runs[l][v] > 0 => v <= now.version
        /\ ~now.dirty /\ now.version > 0 => runs[l][now.version] > 0

\* Every migration is applied once and in order, however Init, Start and saves
\* of several agents interleave and wherever one of them is killed: a body
\* commits only above everything that was applied before, and passes over no
\* listed version that was not below an applied one already.
ForwardOnly ==
    [][\A l \in Lineage, v \in Version :
        runs'[l][v] > runs[l][v] =>
            /\ \A w \in Version : runs[l][w] > 0 => w < v
            /\ \A t \in Actor :
                pc[t] \in {"body", "orphan"} /\ at[t] = l /\ pos[t] = v =>
                    \A w \in snap[t][l] : w < v =>
                        \E x \in Version : w <= x /\ x < v /\ runs[l][x] > 0]_vars

\* Once a reconciliation has committed, the runtime roles can use every table
\* there is: no migration commits between the grants a reconciliation computes
\* and their commit.
GrantsCoverSchema == defaults => Tables \subseteq granted

\* Init and Start reconcile grants, and so report success, only over a schema
\* at or above every migration they listed.
SuccessMeansMigrated ==
    \A t \in Actor :
        /\ op[t] \in {"init", "start"} /\ pc[t] \in {"access", "grant", "commit"}
        => \A l \in Lineage : \A v \in snap[t][l] :
                \E w \in Version : w >= v /\ runs[l][w] > 0

\* A caller whose context ended before it had the control plane never writes:
\* it does not hold the advisory lock every writer needs.
CancelledNeverMutates ==
    \A t \in Actor : late[t] => adv # t /\ pc[t] \notin {"body", "clean", "commit"}

Busy == ActorPc \ {"idle", "dead"}

\* Every Init, Start and EventHandler ends: nobody keeps the control plane or
\* the advisory lock, and nobody waits for one while holding what its owner
\* waits for.
TransitionEnds == \A t \in Actor : pc[t] \in Busy ~> pc[t] \notin Busy

\* "Port reachable" implies "schema migrated": while the endpoint accepts
\* connections, every migration the service ships has been applied.
PortMeansMigrated ==
    port # {} => \A l \in Lineage, v \in Shipped : runs[l][v] > 0

-----------------------------------------------------------------------------
(* The inductive invariants behind the safety properties *)

InSession == {"source", "version", "up", "next", "body", "clean", "close",
              "grant", "commit", "orphan"}

\* Between opening and closing, a session holds the advisory lock, also when
\* its agent is gone.
SessionInv == \A t \in Actor : pc[t] \in InSession => adv = t

\* Nobody else does.
OwnerInv == \A t \in Actor : adv = t => pc[t] \in InSession

\* Some version at or above v and below u is applied.
Passed(l, v, u) == \E x \in Version : v <= x /\ x < u /\ runs[l][x] > 0

\* Up's position is the ledger's, and a body about to run is above everything
\* applied and passes over nothing.
UpInv ==
    \A t \in Actor :
        LET l == at[t] IN
        /\ pc[t] = "next" => ledger[l] = Clean(pos[t])
        /\ pc[t] \in {"body", "orphan"} =>
            /\ ledger[l] = Dirty(pos[t])
            /\ \A w \in Version : runs[l][w] > 0 => w < pos[t]
            /\ \A w \in snap[t][l] : w < pos[t] => Passed(l, w, pos[t])
        /\ pc[t] = "clean" =>
            /\ ledger[l] = Dirty(pos[t])
            /\ runs[l][pos[t]] > 0

\* No table appears between a reconciliation's grants and its commit.
GrantInv == \A t \in Actor : pc[t] = "commit" => Tables \subseteq grants[t]

\* Some version at or above v is applied.
Reached(l, v) == \E w \in Version : w >= v /\ runs[l][w] > 0

\* Init and Start have applied what they listed, up to the lineage they are at.
ListedInv ==
    \A t \in Actor :
        /\ pc[t] = "idle" => at[t] = 1
        /\ op[t] \in {"init", "start"} =>
            /\ \A l \in Lineage : l < at[t] => \A v \in snap[t][l] : Reached(l, v)
            /\ pc[t] = "close" /\ ~failed[t] => \A v \in snap[t][at[t]] : Reached(at[t], v)
            /\ pc[t] \in {"access", "grant", "commit"} =>
                at[t] = NLineage /\ \A v \in snap[t][at[t]] : Reached(at[t], v)

\* A caller that was late gets no further than its first use of its context.
LateInv ==
    \A t \in Actor : late[t] => ended[t] /\ pc[t] \in {"extensions", "open", "dead"}

=============================================================================
