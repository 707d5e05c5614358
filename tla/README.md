# A TLA+ model of service-postgres

service-postgres is the codefly agent that gives a service a PostgreSQL
database: it starts a server, provisions the database, applies migrations,
reconciles the runtime roles' grants, watches migration files, and renders
deployments that do the same in a cluster. This directory holds TLA+ modules
that model it, TLC configurations that check them on small instances, and
theorems proved with TLAPS. `PROJECT.json` maps every definition to the lines it
models.

## The system

| Part | State | Operations | What is hard |
|---|---|---|---|
| Run server sharing (`nixpg.go`) | a directory per run: flock, `holders/*.json`, `postmaster.json`, `pgdata/postmaster.pid`; per agent a `nixPostgres` | `acquireRunServer`, `collectAbandonedServers`, `release`, `stopServer` | several processes, kills anywhere, PID reuse, inspections that fail |
| Database control plane (`runtime.go`, `migrations.go`, `hotreload.go`, `runtime_access.go`) | `controlPlaneLock` per agent; in the database the advisory lock, one ledger per lineage, the tables, the grants | `Init`, `Start`, `EventHandler` | lifecycle against watcher, agent against agent, cancelled callers, an agent killed inside a migration, lost answers |
| Runtime lifecycle (`runtime.go`, `runtime_native.go`) | `nixRuntime`, `runnerEnvironment`, `released`, the watcher | `Load`, `Init`, `Start`, `Stop`, `Destroy` | overlapping RPCs, a failed Init's cleanup |
| Supervision (`nixpg.go`: `watch`, `Supervise`) | `serverExit`, `serverCtx` | report an unexpected exit once | exit against release, ERROR against STARTED |
| Endpoint forwarder (`forward.go`) | listener, tracked connections, `closed` | `serve`, `pipe`, `Close` | accept against close, waiting for every pipe |
| Provisioning (`nixpg.go`: `provisionDatabase`) | databases, owners, claim comments | create, claim, restrict | a kill between `CREATE DATABASE` and `COMMENT` |
| Runtime access (`runtime_access.go`, `libs/go/controlplane/access.go`) | roles, memberships, default privileges | `ReconcileRuntimeAccess` | revoke-then-grant, delegated role sets |
| Managed bootstrap (`libs/go/bootstrap`) | phases, a lock session, a child process | `Run`, `drainChild` | a child that outlives its cancelled parent |
| Host IPC reaping (`hostipc_darwin.go`) | System V segments and semaphore sets | read, plan, remove, verify | a server that starts between a read and the removal, two collectors |
| Consumer library (`libs/go`) | pools, physical sessions, a principal per request | `Open`, `OpenMaintenance`, the connection policies, `runTransaction` | what one request leaves on a session another gets, a check that ends late, a pool at its limit |
| Builder (`builder.go`, `schemaplan.go`) | a staged build context with the plan that attests it | attest, stage, swap | edits while a build runs, a kill between the two steps of the swap, an image copied meanwhile |

The parts meet as follows. `Init` acquires the run's server, provisions the
database, opens the forwarder, and then runs the control-plane transition:
extensions, migrations, grants. `Start` runs that transition again, arms the
hot-reload watcher, commits STARTED and arms supervision. A file event runs
`EventHandler`, which migrates and reconciles. `Stop` and `Destroy` tear the
watcher down and release the server; the last release stops it. Before a server
starts on a Mac, the agent collects what dead servers left in the host's System V
tables. `Build` stages the migrations and a plan that attests them; the image
and the managed bootstrap of a deployment apply that package under the same
advisory lock in the database. Consumers open pools on the roles the access
reconciliation manages. What makes each part correct is listed with the runs
below.

## Modules

### RunServer

Models `nixpg.go` from `acquireRunServer` to `stopServer`. Every agent is a
process with a program counter `pc`; the steps of a call are separated wherever
another process can act, a process can die, or an error can return. `lock`,
`holders`, `record` and `pidfile` are the files of each root; `proc` is the
process table, in which a number is reused under a new birth.

| Code | Actions |
|---|---|
| `acquireRunServer` | `Acquire`, `AcquireLock`, `AcquireCancelled`, `HandOut`, `AcquireFails`, `AcquireUnwind` |
| `collectAbandonedServers` | `CollectLock`, `CollectSkip`, then the steps of pruning and stopping |
| `pruneHolders` | `PruneHolders`, `PruneFails` |
| `attachedPostmaster`, `clearDisownedPostmasterPid` | `AttachRunning`, `AttachClear`, `AttachRefuse` |
| `start`, `writePostmasterRecord` | `Launch`, `RecordPostmaster` |
| `register` | `Register` |
| `release` | `Release`, `ReleaseLock`, `ReleaseCancelled`, `RemoveHolder`, `RemoveHolderFails` |
| `stopServer`, `signalPostmaster`, `waitGone` | `StopConfirmed`, `StopDisowned`, `SignalPostmaster`, `SignalFails`, `WaitGone`, `WaitTimeout`, `StopTimeout`, `ForgetRecord`, `UnlinkPidFile` |
| the operating system | `AgentDies`, `RunDies`, `ProcessDies`, `Reuse` |

Two constants choose how hostile the environment is. `InspectMayFail` lets
`InspectProcess` fail for a process that exists, which `alive` reads as alive
and `confirmed` as not confirmed. `ReuseWindow` lets a postmaster's number be
reused between `pg_ctl`'s success and its inspection. `pruneHolders` may in
either case fail to read a record and removes it then, whoever holds it; `unread`
remembers whose.

Left out: a record that cannot be parsed, which takes the path of one that
cannot be read; `os.Remove` failing on one. `pg_ctl start` is one step, so a
postmaster exists exactly when its lock file does. Also left out: a reboot;
socket directories, the log and the nix environment, whose failures are
`AcquireFails`. The boot half of a process's identity is part
of its birth.

### SchemaControl

Models the control plane of one database. An actor is a goroutine of an agent:
the lifecycle actor runs `Init` and `Start`, the watcher runs `EventHandler`.
`cp` is each agent's `controlPlaneLock`, `adv` the session that holds the
advisory lock, `ledger` the tracking table of each lineage, `runs` how often
each migration's body has committed, `granted` and `defaults` what the runtime
roles can use. A migration is three steps, as in golang-migrate: mark the
version dirty, run the body, mark it clean.

| Code | Actions |
|---|---|
| `initNative`, `migrateOnInit`, `Start` | `BeginInit`, `BeginStart`, `Return` |
| `EventHandler`, `parseMigrationFile`, `owningMigrationSource` | `BeginSave` |
| `controlPlaneLock.acquire` | `AcquireControlPlane`, `AcquireCancelled` |
| `ensureExtensions` | `EnsureExtensions`, `ExtensionFails` |
| `openMigration`, `applySource`, `openSource` | `OpenMigration`, `OpenSource`, `OpenRetry`, `OpenFails` |
| `applyMigrationChange` | `ReadVersion`, `Applied` |
| `runUp`, golang-migrate's `Up` | `StartUp`, `MarkDirty`, `RunBody`, `MarkClean`, `UpDone`, `UpFails` |
| `migrationHandle.Close`, `applyMigration` | `CloseMigration` |
| `ensureRuntimeAccessLocked`, `ReconcileRuntimeAccess` | `LockAccess`, `GrantTables`, `CommitAccess`, `AccessFails` |
| `Stop`, `Destroy` | `Stop` |
| callers, operators, the operating system | `Cancel`, `AgentDies`, `OrphanEnds`, `SaveFile`, `Repair` |

An agent that is killed leaves a backend that is executing a migration's body;
it keeps the advisory lock until its statement ends (`OrphanEnds`). `Repair` is
the runbook of `docs/dirty-migrations.md`: with no migration under way the
ledger is pointed at the last version that was applied.

Left out: golang-migrate's own lock, always taken inside the advisory lock, and
`migrationReload`, always taken inside `controlPlaneLock`; `NoMigration`; files
that are deleted or edited after they were applied (the handler refuses them by
their version alone); delegated role sets, where the tables' grants are the
migrations' own business; a `Stop` that fails.

### SharedServer

What the run server promises, without processes, locks and files: `server` is
down, up or stopping for each root, `users` the agents that hold it. `Start`
needs it down, `Attach` needs it up, `Stop` needs it up and without users; `Exit`
may happen at any time, as told or on its own. `RunServer` implements it
(`ImplementsSharedServer`, an `INSTANCE` of this module in `RunServer`) under the
refinement mapping

* `server[r]`: "stopping" when a postmaster of `r` has been signalled, "up" when
  there is one, "down" otherwise;
* `users[r]`: the agents with root `r` that hold a record, whose run lives, and
  whose mark still names a process, and whose record no pruning failed to read.

So pruning a holder, a collection that finds nothing, a refused attachment and
every step on a lock are stutters, the kill of an agent is a `Detach`, and only
the signal of `stopServer` is a `Stop`.

### Lifecycle

Models one agent's `Runtime`: a thread for Init and Start and one each for Stop
and Destroy, whose abandoned handlers may still run beside it. `nix` numbers the
attachments to run servers, because the goroutines of an earlier one may
still be running. It extends `Forwarder`, whose goroutines run beside the
handlers, and whose `Close` is part of the release.

| Code | Actions |
|---|---|
| `Init`, `initNative`, the container path | `BeginInit`, `AcquireServer`, `ProvisionDatabase`, `PublishEndpoint`, `KeepRunner`, `InitContainer`, `MigrateOnInit`, `InitFails`, `NativeInitFails`, `ContainerInitFails` |
| `Start` | `BeginStart`, `Prepare`, `ArmWatcher`, `EnsureAccess`, `CommitStarted`, `Supervise`, `StartFails` |
| `nixPostgres.watch` | `WatchTick`, `WatchCancelled` |
| `nixPostgres.Supervise` | `ReceiveExit`, `JudgeExit`, `ReportExit` |
| `Stop`, `Destroy`, `lifecycleMu`, `stopWatcher` | `BeginTeardown`, `Stop`, `Destroy` |
| `releaseNative`, `release` | `CancelSupervision`, `EndpointClosed`, `ReleaseNative`, `ReleaseFails`, `ReleaseNil` |
| `stopContainer`, `runner.Shutdown` | `StopContainer`, `StopContainerFails`, `RemoveContainer`, `RemoveContainerFails` |
| the server | `PostmasterExits` |

What `acquireRunServer`, `provisionDatabase`, the schema transition and the
removal of the holder record do is in `RunServer`, `Provision` and
`SchemaControl`; here each succeeds or fails. `Callers` says what the caller
does: one that waits for each call, one that tears down while a Start runs
("overlap") and calls a failed Start again ("retry"), and one that gives an Init
up and tears down while it still runs ("abandon"). `Init` takes no
`lifecycleMu`, so then a release may find its handle cleared by another
(`ReleaseNil`); that caller does not initialize the agent again.

Left out: `Load`, `Test` and the MCP tools, which keep no state of their own;
the state reported by `Information` apart from `StartStatus`.

### Forwarder

Models `forward.go`. A connection is its two sockets in this process. `conns` is
the map that `Close` walks, `closed` its flag, `pipe` and `serve` the goroutines
its wait group counts.

| Code | Actions |
|---|---|
| `forwardToSocket` | `Listen` |
| `serve` | `Accept`, `AcceptFails`, `TrackClient`, `Spawn` |
| `pipe` | `Dial`, `TrackServer`, `CopyEnds`, `OtherCopyEnds`, `UntrackServer`, `UntrackClient` |
| `Close` | `BeginClose`, `CloseReturns` |

Left out: an `Accept` that fails on an open listener, after which `serve`
returns as well (`forward.go` 46-48).

### Provision

Models `provisionDatabase`, one action per statement: `LookUpDatabase`,
`LookUpOwner`, `CreateRole`, `AlterRole`, `CreateDatabase`, `Comment`,
`AlterOwner`, `RevokePublic`. `Abort` is an error return or a kill between any
two. The run's lock keeps other agents out, and nobody else: the migration
owners of services that are provisioned may create roles (which PostgreSQL
grants back to them) and databases of any name and with any comment, between any
two statements (`MigrationCreatesRole`, `MigrationCreatesDatabase`).

Left out: the owner's attributes and password; grants of `CONNECT`.

### HostIPC

Models `hostipc_darwin.go`. The tables hold segments and semaphore sets, each
with the server that created it; identifiers are never reused. The removal plan
is a set of operators: `FirstPass` takes whole runs of consecutive keys,
`SecondPass` what an interrupted cleanup left with holes.

| Code | Definitions |
|---|---|
| `readIPCTables` | `ReadShared`, `ReadSemaphores` |
| `postgresIPCRemovalPlan`, `processAlive` | `ProcessAlive`, `Active`, `Probed`, `BelongsToActivePostgres`, `RunOf`, `OrphanedRun`, `FirstPass`, `Starts`, `Clusters`, `SecondPass`, `PlannedSets`, `PlannedSegments` |
| `runIPCRemove` | `RunIPCRemove` |
| `survivingIDs`, `recoveryVerdict` | `Surviving`, `RecoveryVerdict` |
| servers (external) | `CreateSegment`, `CreateSets`, `StopServer`, `KillServer` |

`processAlive` signals a bare number, so that of a dead creator may answer for
another process; which ones do is chosen when the plan is made. `ipcrm` may be
cut short or refuse an identifier. A row whose creator has a number of 1 or less
is skipped by the code; no server has one. Rows of another owner, size or
mode are passed over by the code before anything else and are not in the tables;
parsing is left out. `StartsBetweenReads` lets a server start between the two
`ipcs` commands of one reading.

### RuntimeAccess

Models what `ReconcileRuntimeAccess` and its callers do to the catalog: roles,
attributes, memberships, table and default privileges, `SET role` defaults. A
reconciliation is one transaction under the advisory lock, so one action that
applies all of it or nothing.

| Code | Definitions |
|---|---|
| `ensureRuntimeAccessLocked`, `ensureLoginRole`, `ensureDefaultRole` | `EnsureRuntimeAccess`, `EnsureLogins`, `EnsureNext`, `EnsureLogin`, `EnsureLoginRole`, `EnsureDefaultRole` |
| `ReconcileRuntimeAccess` | `ReconcileRuntimeAccess`, `ReconcileGrants`, `EnsureGroupRole` |
| `validateReaderRoles` | `ReaderAllowed` |
| `reconcileRuntimeRoleMemberships`, `reconcileExternalPrincipals` | `MembershipAllowed`, `ReconcileMemberships`, `PrincipalAllowed`, `ReconcilePrincipals` |
| the managed run's `preflight` and last transaction | `Preflight`, `ManagedAccess` |
| migrations, providers, operators | `CreateTable`, `CreateRole`, `DropRole`, `GrantTable`, `GrantRole`, `Tamper` |

The configuration changes from one reconciliation to the next, so what an
earlier one left is there for the next to undo. The loop over the declared
logins is the recursive function in `EnsureLogins`. One grantor is assumed: on
PostgreSQL 16 and later a `REVOKE` takes back only what the reconciler's own
grantor gave (`access.go` 414-418, `libs/go/README.md` 165-167), and here it
takes back all. Left out: sequences, which follow the tables, and the schema's
`CREATE`, with the checks of both in `validateReaderRoles` (`access.go` 254-258
and 267); `CONNECT` and `USAGE`; the SQL template of the Job, which
repeats `ensureRuntimeAccessLocked`.

### Sessions

Models the consumer library between a request and its database: `Open` and
`OpenMaintenance` with their error paths, the connection policy on connect and
on checkout, the restricted-session check, `Factory` and `runTransaction`.
Connections outlive requests; a callback may leave a setting or a role on its
session: its own, another that its login may select (`SET ROLE NONE` on a
maintenance session is one), or a denied one while it is granted, which may be
revoked again. The check admits any current role but a denied one.

| Code | Actions |
|---|---|
| `Open`, `OpenMaintenance` | `OpenPool`, `OpenReady`, `OpenFails` |
| `installConnectionValidation`, `checkRestrictedSession` | `Connect`, `Acquire`, `AcquireRefused` |
| `Factory.Reader`, `Factory.Writer` | `Authenticate` |
| `runTransaction` | `AcquireFails`, `InstallScope`, `CallbackReturns`, `Commit`, `CommitFails`, `Fails` |
| `WithOperationTimeout` | `Expire` |
| callbacks, the server, its operator | `CallbackSetsScope`, `CallbackSetsRole`, `Disconnect`, `ChangeGrant` |

Left out: `CopyIntoTemporaryTable` and `ScopedAdvisoryLock`, which are
statements of the callback; a boundary opened without `WithRestrictedSession`,
which makes no promise about roles.

### Staging

Models the bootstrap package: `Build` attests the sources (`Attest`), asserts
that it owns the directory (`AssertAgentOwned`), copies what still has the
attested digest (`StageLineage`), removes the old tree entry by entry
(`RemoveEntry`) and renames the new one into place (`Swap`). Sources are edited
meanwhile; a build fails or is killed anywhere. `CopyManifest` and `CopySource`
are the image build, which reads the tree file by file, and `RunJob` is
`bootstrap.sh`, which runs `sha256sum -c`: every file the manifest lists must be
there unchanged, and other files are not looked at (`Carries`). A source's
content is the number of migrations it holds and their wording, and an edit may
add, remove or rewrite migrations. `buildRecipe` stages two context
roots the same way; one is modelled.

### ManagedBootstrap

Models `libs/go/bootstrap`, on the package of `Staging`, which it extends.

| Code | Actions |
|---|---|
| `snapshot` | `SnapshotPlan`, `OpenRoot`, `SnapshotLineage` |
| `Run` | `StartRun`, `OpenSession`, `TakeLock`, `Extensions`, `StartChild`, `AwaitChild`, `ReconcileAccess`, `CommitAccess`, `CommitUnknown`, `RunFails` |
| `drainChild` | `DrainTerminate`, `DrainDone`, `DrainUncertain` |
| the migrate child and its backend (external) | `ChildLocks`, `ChildApplies`, `StatementEnds`, `ChildCleans`, `ChildExits`, `ChildDies` |
| the network | `LoseSession` |

A child is a process and a backend: killing the first leaves the second to
finish its statement. Left out: parsing of bindings and connections,
credentials, trust anchors.

### MC modules

`MCRunServer` and `MCSchemaControl` give the function constants their values.
`MCLifecycle`, `MCNative` and `MCAccess` also have a variable `part`, chosen in
the initial state and never changed, which says which of several behaviours the
run explores: parts that share no state are not interleaved with each other.
`MCNative` joins `Provision` and `HostIPC`; `MCAccess` joins `RuntimeAccess`,
`Sessions` and `ManagedBootstrap`.

Operators whose comment starts with "Mutation" are wrong versions of the
definition that follows them; each property is known to fail when one of them
takes that definition's place.

## Runs

Passing runs:

| Run | Instance | Shows |
|---|---|---|
| `shared` | two services of one run, one root, two numbers, three births, two failures | `LockFileKept`, `SignalsOnlyOwnPostmaster`, `HeldServerNotStopped`, `LiveHolderKept`, and that the run server does what `SharedServer` promises (`ImplementsSharedServer`) |
| `live` | two runs, one number, one failure, fairness | `OperationEnds`, `AbandonedCollected` |
| `schema_safe` | two agents, one with a watcher, one lineage of two versions, two failures | `LedgerTruthful`, `ForwardOnly`, `GrantsCoverSchema`, `CancelledNeverMutates` |
| `schema_live` | the same agents, two lineages of one version, one failure, fairness | `SuccessMeansMigrated`, `TransitionEnds` |
| `lifecycle` | one Init with a connection on either backend, careful or careless callers, or ones that abandon it; or two native Inits in turn; up to two Starts; fairness | `NoFalseAlarm` (an orderly release is never reported), `DeathNotMasked` (STARTED does not hide a death), `DeathReported`, `ReleasedMeansDown`, `DisciplinedStopLeavesNoWatcher`, `ClosedLeavesNothing`, `CloseReachesEverySession`, `TeardownEnds` |
| `native` | three services that want two database names; two servers of three semaphore sets with a foreign set between, two collectors | `HandedOutIsOwn`, `RefusedOnlyOnCollision`; `LiveServerKeepsIPC`, `LoneSetKept`, `RecoveredMeansGone` |
| `access` | four configurations that follow each other; two tenants that share one pooled connection, or a tenant and maintenance; two lineages built twice while two managed runs and an image read them | `WriterAuthority`, `ReaderAuthority`, `ReadersOnlyRead`; `ScopeIsOwn`, `NoDeniedRole`, `FailedOpenLeaksNothing`, `WaitsEnd`; `JobAppliesWholePlan`, `AppliedIsAttested`, `CleanReturnLeavesNoChild`, `StrayWritesReported`, `AccessOverCleanLedgers` |

Runs that find a disagreement between the code and what it says of itself
(`PROJECT.json` quotes the lines):

| Run | Property | What happens |
|---|---|---|
| `same_service` | `HeldServerNotStopped` | holder records are filed by service, so two live agents of one service share one; the first release stops the server under the other |
| `unrecorded` | `FailedStartStopped` | a start that fails between `pg_ctl` and `postmaster.json` leaves a server that the deferred stop cannot find |
| `inspect` | `LockFileKept` | one failed inspection in `waitGone` counts as the postmaster's exit, and its lock file is removed while it lives |
| `port` | `PortMeansMigrated` | on the native path the endpoint opens before the migrations run |
| `reap` | `LiveServerKeepsIPC` | the segments are read before the semaphore sets, so a server that starts in between is in the second table only, and its sets are planned for removal |

### Bounds

* Run server: two agents and one root are enough for every race between two
  calls; a third agent only repeats them, and two roots are needed for
  collection alone. Three births under two numbers give a postmaster, its
  successor, and a stranger that takes a number in between. `MaxFaults` bounds
  cancellations, timeouts and failed calls; kills, crashes and process deaths
  are not bounded by it.
* Schema control: two versions give a migration that succeeds before one that
  fails; two agents, one with a watcher, give every pair of transitions that can
  meet.
* Lifecycle: two Inits are needed for the goroutines of one attachment to meet
  the next one, two Starts for a retry; Stop and Destroy overlap each other and
  a Start. One connection is enough because connections share only the map that
  `Close` walks, and the proof covers any number. The two parts of the run keep
  the product of connections and repeated Inits out of it, and repeated Inits have
  a careful caller; the invariants are proved for every other combination.
* Provisioning: two services that derive the same name and one that does not are
  every kind of pair.
* System V tables: three sets make a run with a first, an inner and a last key,
  so every kind of hole occurs; the foreign set lies just beyond one server's
  window of keys and inside the window of what an interrupted cleanup leaves of
  its sets; `Span` scales the code's window down with the number of sets. `MaxId`
  lets both servers start, or one of them twice.
* Access: the four configurations are one more schema, roles and a login of
  migrations, external identities with delegated readers, and external
  identities with roles; any may follow any, so a role changes between reader and
  writer and access between passwords and external identities. In one part of the
  run a tenant and maintenance have a pool each; in another two tenants share a
  pool of one connection, so that the session passes from one to the other and the
  pool is at its limit, and `MaxGrants` is a grant and its revocation. Two builds
  are the one in place and the one that replaces it; one source gains and loses a
  migration, the other has one rewritten, and beside a managed run they are edited
  between the two builds. `MaxLost` is one lost session. The second run meets what
  the first has left.

The proofs show that no safety property depends on these bounds.

Deadlock is not checked: all agents may be dead, or idle with every migration
applied, and then nothing has to happen. `OperationEnds`, `TransitionEnds`,
`TeardownEnds` and `WaitsEnd` say that no call gets stuck.

### Fairness

A call under way goes on (`WF` of each actor's steps): nothing in it waits
without a budget except for a lock. The flock is polled (`TryLockContext`), the
channel of `controlPlaneLock`, `lifecycleMu` and postgres' advisory locks serve
waiters in order, so a lock that is free again and again is obtained (`SF`). A
postmaster that was told to stop exits. In `Lifecycle` the ticker of `watch`
ticks and the goroutines of the supervisor and the forwarder go on, but a copy
between two sockets need not end until one of them is closed, so `Close` may
count only on what it closed itself. In `Sessions` every operation has its
timeout (`Expire`), after which the library's own steps go on (`ExpiredStep`). A
callback is the consumer's and need not return, since the library's bound cannot
interrupt code that ignores its context (`connection_policy.go` 100-102); a
policy at checkout is taken to honour the one it is given. Nobody has to begin a call, to fail, to die, to save a file
or to repair a ledger.

## Theorems

`RunServerProofs` proves, for every set of agents, runs, roots and numbers:

* `RunServerTypeOK`: `TypeOK`.
* `SignalsOnlyOwn`: without the reuse window, `SignalsOnlyOwnPostmaster`. The
  inductive invariant adds `LockInv` (a call owns the flock of the root it works
  on), `BirthInv` (no mark is younger than the youngest process, so a new
  process never matches an old mark) and `OwnInv` (a mark that still names a
  process names a postmaster of its own root).
* `LockFilesKept`: without the reuse window and with inspections that answer,
  `LockFileKept`. It adds `StopInv`: what `stopServer` waits for is the only
  postmaster of its root.
* `LastHolderStops`: when no two agents of a root serve one service and without
  the reuse window, `HeldServerNotStopped`. It adds `HolderInv`: a live agent of
  a live run has its holder record unless a pruning could not read it, and nobody
  stops a server while there is one.
* `LiveHoldersKept`: when no two agents of a root serve one service,
  `LiveHolderKept`, whatever inspections answer and numbers are reused. It needs
  `OwnRecordInv` only: a record is filed under the root and the service of the
  agent it names.
* `RunServerImplementsShared`: under all three hypotheses (distinct services,
  inspections that answer, no reuse window) `RunServer` implements
  `SharedServer`. Initial states map to initial states, and each action to a
  step or a stutter; `Launch`, `Register`, `RemoveHolder` and `SignalPostmaster`
  are the ones that change the abstract state.

The hypotheses are needed: `inspect` and `same_service` are counterexamples
without theirs. With `ReuseWindow = TRUE`, `SignalsOnlyOwnPostmaster` fails as
well: `start` records the birth of whatever process has the number in
`postmaster.pid`, and when the postmaster died and its number was reused in the
moment since `pg_ctl` returned, that process is on record and would be
signalled. No run keeps that behaviour, because the window is that short.

`SchemaControlProofs` proves, for every set of agents and goroutines and any
number of lineages, versions and faults, and with no hypothesis besides the
constants' types:

* `SchemaControlTypeOK`: `TypeOK`.
* `LedgerStaysTruthful`, `AppliedForward`: `LedgerTruthful` and `ForwardOnly`.
  `SessionInv` says that whoever is inside a session holds the advisory lock, so
  no two are; `UpInv` ties the position of `Up` to the ledger, and says that a
  body about to run is above everything applied and passes over nothing.
* `GrantsCover`: `GrantsCoverSchema`, by `GrantInv`: no table appears between a
  reconciliation's grants and its commit.
* `SuccessMigrated`: `SuccessMeansMigrated`, by `ListedInv`: the lineages a
  transition has left behind are at or above what it listed.
* `CancelledNeverMutate`: `CancelledNeverMutates`, by `LateInv` (a late caller
  gets no further than its first use of its context) and `OwnerInv` (whoever
  holds the advisory lock is inside a session).

`ProvisionProofs` proves, for every set of services and names and every choice
of names by services, `ProvisionTypeOK`, `ProvisionHandsOutOwn`
(`HandedOutIsOwn`) and `ProvisionRefusesCollisions` (`RefusedOnlyOnCollision`:
`takers` remembers who created or claimed something under a name, and a refused
service was never alone there). `ProvInv` adds `ProvLockInv` (one call is between
the lock and its end), `FoundInv` (what a call has read still describes what only
an agent under the lock may change), `GivenInv` and `OwnerInv` (what was handed out or owned stays so), and `TakenInv`
(what is under a name is there by somebody's doing, and what would refuse an
agent is not there by its own).

`BootstrapProofs` proves, for every set of lineages and managed runs, any amount
of content and any number of builds:

* `StagingJobAppliesWholePlan`: `JobAppliesWholePlan`. `StagingInv` ties the tree
  being staged and the tree in place to a plan that attests them, and the
  manifest of the image to one that some build attested.
* `BootstrapLeavesNoChild`, `BootstrapReportsStrays`, `BootstrapAppliesAttested`:
  `CleanReturnLeavesNoChild`, `StrayWritesReported` and `AppliedIsAttested`.
  `BootstrapInv` consists of `CopyInv` (what a run has copied is what its binding
  attests, and all of it before it connects), `ChildInv` (a child exists only
  while its run waits for it, its backend only until the run has seen it gone or
  said that it is uncertain, and a backend owns the ledger it writes) and
  `LockInv` (a run past the lock has it as long as its session lives, and one
  that strayed has no way to a clean return).
* `BootstrapAccessOverCleanLedgers`: `AccessOverCleanLedgers`. `LedgerInv` adds
  that, until a run strays, the ledger of each lineage the lock's holder has
  completed is clean and at the attested version. It is kept because whoever
  writes a ledger has a backend, a backend belongs to the lock's holder or to a
  run that strayed, and the holder's child works on a lineage it has not
  completed.

`LifecycleProofs` proves, for any number of connections, Inits and Starts and
for every caller (one that abandons Inits makes a single one):

* `ForwarderClosedLeavesNothing`, `ForwarderCloseReaches`: `ClosedLeavesNothing`
  and `CloseReachesEverySession` of one `Forwarder`. `FwdInv` says that every
  open socket is tracked, or is in the hands of a goroutine that will see
  `closed` before it copies.
* `LifecycleClosesEndpoint`: both again, for one forwarder after another beside
  the handlers. Every step of the handlers is a step of `Forwarder` or leaves it
  alone, so its invariant carries over.
* `LifecycleTypeOK`, `LifecycleNoFalseAlarm` (`NoFalseAlarm`) and
  `LifecycleDeathNotMasked` (`DeathNotMasked`). `LifeInv` consists of `AttachInv`
  (what was never attached has no goroutines), `ExitInv` (what reaches the report
  exited before the cancellation), `TeardownInv` (a teardown works alone on the
  handle it found, has cancelled its supervision when it ends, and no Init runs
  beside it unless the caller abandons Inits), `WatcherInv` and `SetupInv`, the heart of `DeathNotMasked`: until
  Start has committed STARTED and supervises the attachment, nothing can report
  on it, unless it was given up.
* `LifecycleReleasedMeansDown`, `LifecycleLeavesNoWatcher`: `ReleasedMeansDown`,
  which is about callers that begin no teardown while Init runs, and
  `DisciplinedStopLeavesNoWatcher`. `GivenUpInv` follows what a teardown has
  given up from point to point (`DownInv`), says when the endpoint is known to be
  gone (`EndpointUse`), and what a careful caller keeps apart (`CarefulInv`).

`HostIPCProofs` proves, for any servers, keys and collectors:

* `HostIPCTypeOK`: `IpcTypeOK`.
* `HostIPCKeepsLive`: `LiveServerKeepsIPC`, when no two servers use the same keys
  (`DistinctKeys`; the system refuses a key that exists, and PostgreSQL then
  tries another) and no server starts between the two readings of a pass
  (`~StartsBetweenReads`; run `reap` is the counterexample without it). A plan may
  be as old as it likes: `SeenInv` says that between the readings every live
  server was seen attached, `PlanInv` that nothing planned belongs to a live
  server, also not to one that starts after the plan was made, because its
  identifiers are new.
* `HostIPCKeepsLone`: `LoneSetKept`, when the foreign set is not next to a
  server's keys (`LoneIsApart`): one directly behind them is to the code a set of
  their run. No hypothesis about starts is needed. The first pass does not take
  it because it is a run of its own with no base before it, the second because no
  set of a server has its creation time.
* `HostIPCRecovers`: `RecoveredMeansGone`, from `PassInv`: what a pass removes is
  what was orphaned when it began: without attachments, and its creator's number
  not in use.
* `HostIPCClusters`: what the loop of the second pass cuts a table into. Its
  clusters hold every row, do not overlap, and are no wider than `Span`. The
  starts that `Starts` chooses exist and are the only ones (`StartsCut`), for
  tables of any size; keys are bounded integers.

`SessionsProofs` proves, for any number of requests and connections and any
scopes, `SessionsTypeOK`, `SessionsScopeIsOwn` (`ScopeIsOwn`),
`SessionsNoDeniedRole` (`NoDeniedRole`) and `SessionsFailedOpenLeaksNothing`
(`FailedOpenLeaksNothing`). `SessInv` consists of `PoolInv` (connections are of
open pools, and a boundary that failed has none), `ApartInv` (no two requests
hold one connection), `HoldInv` (from BEGIN to its end a request holds a
connection of its own pool, not in a denied role, with its own scope once
installed) and `IdleInv` (no transaction's setting is left on an idle
connection).

`AccessProofs` proves, for any roles, schemas and tables, for every set of
configurations and any number of declared logins:

* `RuntimeAccessInvariant`: `AccessTypeOK` and `AccessInv`. `CatalogInv` is the
  shape every catalog has: in particular an application role is a member of
  application roles and the owner only, so it never leads back to a managed one.
  `AuthorityInv` says that the reader (`ReaderSettled`) and each writer
  (`WriterSettled`) are as the configuration in force has them, default
  privileges included, which is what makes the next `CreateTable` keep it.
* `RuntimeAccessWriter`, `RuntimeAccessReader`: `WriterAuthority` and
  `ReaderAuthority`, the latter about the reader's own privileges and, when it is
  delegated, its memberships.
* `RuntimeAccessReadersOnlyRead`: `ReadersOnlyRead`, from the check of
  `validateReaderRoles` and the closure of memberships, which are both least
  sets that contain the role and are closed.

A reconciliation reconciles login after login in one transaction, so the proof
goes by induction over the logins done: those before stay settled while the next
one is reconciled, because it touches what that login and the reader hold and
nobody else's. The induction is by the least number at which the claim would
fail (`LeastNatural`). `RolesAssumption` and `ConfigsAssumption` say what the
code has checked before it reconciles: roles of different kinds have different
names, no login is declared twice or beside external identities, principals come
with external identities only.

The assumptions on the constants, cited at the head of each module, are all
these proofs rest on besides the hypotheses named above.

Only model-checked are the liveness properties (`OperationEnds`,
`AbandonedCollected`, `TransitionEnds`, `DeathReported`, `TeardownEnds`,
`WaitsEnd`), since the prover has no rules for fairness, and the violations,
which are counterexamples. Every invariant and every action property that a
passing run checks is the statement of a theorem.

## Observations

Behaviour met while modelling that no run states as a disagreement:

* An `Up` of a file event may fail after one of its migrations committed; the
  handler then skips the reconciliation (`hotreload.go` 166-172). The default
  privileges cover the new tables all the same.
* `SetupWatcher` replaces the watcher without cancelling the one it replaces, so
  a Start that is called again after it failed, or that runs beside a Stop,
  leaves a watcher firing. `DisciplinedStopLeavesNoWatcher` says that it takes
  one of those two.
* An Init after a release that failed overwrites the handle of the old
  attachment; its holder record stays until the run is pruned.
* `pruneHolders` removes a record that it cannot read or parse, also that of a
  live agent (`nixpg.go` 808-814; `nixpg_run_test.go` 89-98 expects it of a
  garbage record). The last release then stops the server under that agent.
  `HeldServerNotStopped`, `LiveHolderKept` and `SharedServer` except it.
* `Init` takes no `lifecycleMu`. A Stop or Destroy beside an Init its caller has
  given up finds no handle and succeeds (`runtime.go` 701-721); Init then
  publishes an endpoint that nobody closes. When that Init fails instead, its
  deferred release may meet the handle a teardown has cleared
  (`runtime_native.go` 33-38), and `Wool.Catch` ends it. `ReleasedMeansDown`
  excepts such callers, as `DisciplinedStopLeavesNoWatcher` does; the other
  properties hold for them.
* A dead server's segment stays as long as another process has its creator's
  number (`hostipc_darwin.go` 122-125); a later pass collects it.
* A role that a callback selects and commits is inherited by the next callback on
  that session, unless it is denied. A maintenance session's role is qualified
  when it connects and not again, so `SET ROLE NONE` there lasts as well.
* Without delegation the reader's memberships are not reconciled (`access.go`
  46-48, `docs/managed-bootstrap.md` 201-203), so what an operator made it a
  member of it keeps.
* A schema removed from `runtime-schemas` keeps the grants it had, a login
  removed from the configuration keeps its role, and principals stay members
  when external identities are switched to passwords. `WriterAuthority` and
  `ReaderAuthority` are stated for what the configuration names.
* A managed run that has lost its lock session may start another child before it
  notices; it then reports "uncertain" (`StrayWritesReported`).
* `bootstrap.sql` and `runtime-access.sql` are not among the attested files, so
  an image copied during a build may hold them from the other build. The
  manifest may be of an older build than the sources, too: `sha256sum -c` passes
  when the newer ones only add files, and the Job applies those
  (`JobAppliesWholePlan` says that it applies nothing less).
* A build removes the old tree in place. One that is killed after the marker is
  gone leaves a directory that later builds refuse as not their own.

## Not modelled

* Rendering and validation that keeps no state: `Deploy` with its manifests and
  selection of secrets, settings, endpoints and connection strings, the workload
  attachment document, the resolution of schema prerequisites, parsing. Each is
  a function of its input with a test of its own, and nothing that runs beside
  it can disturb it.
* The identity library: token caching is in the cloud providers' libraries.
* The log filter, the migration test harness and the Rust client: no property of
  the system rests on them.
* Durations: a budget is a step that may fail or, where it ends a wait, one that
  must happen.

## Plan

Done: every part with state of its own is modelled and checked, and every safety
property of the passing runs is proved. What is left, in this order:

1. Weaker hypotheses: `LockFilesKept` and `RunServerImplementsShared` without
   the one on inspections where no server is being stopped.
2. An abstract specification of the managed bootstrap (a ledger and a grant per
   lineage) for `ManagedBootstrap` to implement.
