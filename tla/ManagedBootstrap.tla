-------------------------- MODULE ManagedBootstrap --------------------------
(***************************************************************************)
(* libs/go/bootstrap: Run applies an attested package to a managed         *)
(* database as its migration owner.  It copies the attested bytes to a     *)
(* private directory, takes the shared advisory lock on one session, runs  *)
(* one migrate child per lineage, drains what the child left on the        *)
(* server, and reconciles access.                                          *)
(*                                                                         *)
(* Several runs share a database.  The session that holds the lock may be  *)
(* lost; the deadline may fail any step; a child may be killed while the   *)
(* server goes on with its statement; the package may be rebuilt meanwhile *)
(* (Staging).  golang-migrate and the server are external.                 *)
(***************************************************************************)
EXTENDS Staging

CONSTANTS
    Run,            \* calls of Run
    NoRun,          \* nobody
    MaxLost         \* bound on lost sessions

\* Lineages are numbered in the plan's order.
ASSUME RunAssumption == Lineage \subseteq Nat /\ NoRun \notin Run /\ MaxLost \in Nat

VARIABLES
    run,        \* [Run -> its local state]
    sess,       \* runs whose session is alive
    lock,       \* the run whose session holds the advisory lock
    proc,       \* [Run -> the migrate process]
    backend,    \* [Run -> its backend on the server]
    ledger,     \* [Lineage -> version and dirty flag]
    ledgerLock, \* [Lineage -> the run whose child holds golang-migrate's lock]
    stray,      \* runs whose child wrote while they did not hold the lock
    committed,  \* runs whose access reconciliation is committed
    lost        \* sessions lost so far

dbVars == <<ledger, ledgerLock, stray>>
childVars == <<proc, backend>>
runVars == <<run, sess, lock, proc, backend, ledger, ledgerLock, stray, committed, lost>>

Outcome == {"ok", "failed", "uncertain", "unknown"}
Working == {"plan", "open", "sources", "connect", "lock", "extensions", "lineage",
            "child", "drain", "count", "access", "commit"}

GoTo(r, p) == run' = [run EXCEPT ![r].pc = p]

\* Return: the session is closed, which releases the lock it holds.
Return(r, outcome) ==
    /\ GoTo(r, outcome)
    /\ sess' = sess \ {r}
    /\ lock' = IF lock = r THEN NoRun ELSE lock

-----------------------------------------------------------------------------
(* snapshot.                                                               *)

\* A deployment owner binds a plan some build attested.
StartRun(r) ==
    /\ run[r].pc = "new"
    /\ \E b \in attested : run' = [run EXCEPT ![r].pc = "plan", ![r].bind = b]
    /\ UNCHANGED <<sess, lock, childVars, dbVars, committed, lost>>

\* plan.json is read and is the bound one; validateBinding.
SnapshotPlan(r) ==
    /\ run[r].pc = "plan" /\ tree # Gone /\ tree.plan = run[r].bind
    /\ GoTo(r, "open")
    /\ UNCHANGED <<sess, lock, childVars, dbVars, committed, lost>>

\* os.OpenRoot: from here on one directory, whatever replaces it.
OpenRoot(r) ==
    /\ run[r].pc = "open" /\ tree # Gone
    /\ run' = [run EXCEPT ![r].pc = "sources", ![r].dir = tree.id]
    /\ UNCHANGED <<sess, lock, childVars, dbVars, committed, lost>>

\* Mutation: the directory is trusted once the plan has been verified.
SourceTrusted(r, l) == tree.src[l] # Gone

\* The directory holds as many files as the plan lists, and the bytes read of
\* each have the digest the plan gives.
SourceAttested(r, l) == tree.src[l] = run[r].bind[l]

\* Verify one lineage and copy the bytes that were verified.
SnapshotLineage(r, l) ==
    /\ run[r].pc = "sources" /\ run[r].copy[l] = Gone
    /\ tree # Gone /\ tree.id = run[r].dir /\ SourceAttested(r, l)
    /\ run' = [run EXCEPT ![r].copy[l] = tree.src[l],
                          ![r].pc = IF \A k \in Lineage \ {l} : run[r].copy[k] # Gone
                                    THEN "connect" ELSE @]
    /\ UNCHANGED <<sess, lock, childVars, dbVars, committed, lost>>

-----------------------------------------------------------------------------
(* Run.                                                                    *)

\* The owner's session: database, owner and preflight are as bound.
OpenSession(r) ==
    /\ run[r].pc = "connect"
    /\ GoTo(r, "lock") /\ sess' = sess \cup {r}
    /\ UNCHANGED <<lock, childVars, dbVars, committed, lost>>

\* pg_advisory_lock.
TakeLock(r) ==
    /\ run[r].pc = "lock" /\ r \in sess /\ lock = NoRun
    /\ GoTo(r, "extensions") /\ lock' = r
    /\ UNCHANGED <<sess, childVars, dbVars, committed, lost>>

\* Extensions: required ones created, an optional one skipped if it fails.
Extensions(r) ==
    /\ run[r].pc = "extensions"
    /\ GoTo(r, "lineage")
    /\ UNCHANGED <<sess, lock, childVars, dbVars, committed, lost>>

\* The next lineage's child, under a name of its own.
StartChild(r) ==
    /\ run[r].pc = "lineage"
    /\ \E l \in Lineage \ run[r].done :
        /\ \A k \in Lineage \ run[r].done : l <= k
        /\ run' = [run EXCEPT ![r].pc = "child", ![r].cur = l]
    /\ proc' = [proc EXCEPT ![r] = "alive"]
    /\ UNCHANGED <<sess, lock, backend, dbVars, committed, lost>>

\* command.Run returns.
AwaitChild(r) ==
    /\ run[r].pc = "child" /\ proc[r] # "alive"
    /\ GoTo(r, "drain")
    /\ UNCHANGED <<sess, lock, childVars, dbVars, committed, lost>>

\* Mutation: only the signal's delivery is asked for, not its effect.
ChildSignalled(r) == r \in sess

\* Mutation: a cleanup that cannot be observed counts as done.
ChildAssumedGone(r) == backend[r] = "none"

\* drainChild's last query: it is answered, and counts no session of the child.
ChildObservedGone(r) == r \in sess /\ backend[r] = "none"

ReleaseLedger(r) == [l \in Lineage |-> IF ledgerLock[l] = r THEN NoRun ELSE ledgerLock[l]]

\* drainChild: terminate the child's sessions; one may not stop in time.
DrainTerminate(r) ==
    /\ run[r].pc = "drain"
    /\ \/ r \in sess /\ backend' = [backend EXCEPT ![r] = "none"]
                     /\ ledgerLock' = ReleaseLedger(r)
       \/ UNCHANGED <<backend, ledgerLock>>
    /\ GoTo(r, "count")
    /\ UNCHANGED <<sess, lock, proc, ledger, stray, committed, lost>>

\* Mutation: the child's exit status is not examined.
ChildReturned(r) == TRUE

\* command.Run returned no error.
ChildSucceeded(r) == proc[r] = "ok"

\* The child is gone: the lineage is complete, or its failure is returned.
DrainDone(r) ==
    /\ run[r].pc = "count" /\ ChildObservedGone(r)
    /\ IF ChildSucceeded(r)
       THEN /\ run' = [run EXCEPT ![r].pc = "lineage", ![r].done = @ \cup {run[r].cur}]
            /\ UNCHANGED <<sess, lock>>
       ELSE Return(r, "failed")
    /\ UNCHANGED <<childVars, dbVars, committed, lost>>

\* drainChild reports that the cleanup is uncertain: an error, its own
\* deadline, or a session that is still there.
DrainUncertain(r) ==
    /\ run[r].pc \in {"drain", "count"}
    /\ Return(r, "uncertain")
    /\ UNCHANGED <<childVars, dbVars, committed, lost>>

\* Every lineage is complete: begin, preflight again, reconcile.
ReconcileAccess(r) ==
    /\ run[r].pc = "lineage" /\ run[r].done = Lineage /\ r \in sess
    /\ GoTo(r, "commit")
    /\ UNCHANGED <<sess, lock, childVars, dbVars, committed, lost>>

CommitAccess(r) ==
    /\ run[r].pc = "commit" /\ r \in sess
    /\ committed' = committed \cup {r}
    /\ Return(r, "ok")
    /\ UNCHANGED <<childVars, dbVars, lost>>

\* The commit is refused or its answer is lost: verify before retry.
CommitUnknown(r) ==
    /\ run[r].pc = "commit"
    /\ \/ UNCHANGED committed
       \/ r \in sess /\ committed' = committed \cup {r}
    /\ Return(r, "unknown")
    /\ UNCHANGED <<childVars, dbVars, lost>>

\* Any other step fails: its input, the server, or the run's deadline.
RunFails(r) ==
    /\ run[r].pc \in Working \ {"child", "drain", "count", "commit"}
    /\ Return(r, "failed")
    /\ UNCHANGED <<childVars, dbVars, committed, lost>>

\* The server ends the session, or the network does.
LoseSession(r) ==
    /\ r \in sess /\ lost < MaxLost
    /\ lost' = lost + 1 /\ sess' = sess \ {r}
    /\ lock' = IF lock = r THEN NoRun ELSE lock
    /\ UNCHANGED <<run, childVars, dbVars, committed>>

-----------------------------------------------------------------------------
(* The child: golang-migrate's up on one ledger.                           *)

Strayed(r) == IF lock = r THEN stray ELSE stray \cup {r}

\* Connect and take golang-migrate's own lock, which is per ledger.
ChildLocks(r) ==
    /\ proc[r] = "alive" /\ backend[r] = "none" /\ ledgerLock[run[r].cur] = NoRun
    /\ backend' = [backend EXCEPT ![r] = "up"]
    /\ ledgerLock' = [ledgerLock EXCEPT ![run[r].cur] = r]
    /\ UNCHANGED <<run, sess, lock, proc, ledger, stray, committed, lost>>

\* The next migration of the private copy: its version is recorded dirty.
ChildApplies(r) ==
    LET l == run[r].cur
    IN  /\ proc[r] = "alive" /\ backend[r] = "up"
        /\ ~ledger[l].dirty /\ ledger[l].version < run[r].copy[l].migrations
        /\ ledger' = [ledger EXCEPT ![l] = [version |-> @.version + 1, dirty |-> TRUE]]
        /\ backend' = [backend EXCEPT ![r] = "statement"]
        /\ stray' = Strayed(r)
        /\ UNCHANGED <<run, sess, lock, proc, ledgerLock, committed, lost>>

\* The statement ends; without its client the backend ends too.
StatementEnds(r) ==
    /\ backend[r] = "statement"
    /\ stray' = Strayed(r)
    /\ IF proc[r] = "alive"
       THEN backend' = [backend EXCEPT ![r] = "ran"] /\ UNCHANGED ledgerLock
       ELSE backend' = [backend EXCEPT ![r] = "none"] /\ ledgerLock' = ReleaseLedger(r)
    /\ UNCHANGED <<run, sess, lock, proc, ledger, committed, lost>>

ChildCleans(r) ==
    /\ proc[r] = "alive" /\ backend[r] = "ran"
    /\ ledger' = [ledger EXCEPT ![run[r].cur].dirty = FALSE]
    /\ backend' = [backend EXCEPT ![r] = "up"]
    /\ stray' = Strayed(r)
    /\ UNCHANGED <<run, sess, lock, proc, ledgerLock, committed, lost>>

ChildExits(r) ==
    LET l == run[r].cur
    IN  /\ proc[r] = "alive" /\ backend[r] = "up"
        /\ ledger[l] = [version |-> run[r].copy[l].migrations, dirty |-> FALSE]
        /\ proc' = [proc EXCEPT ![r] = "ok"]
        /\ backend' = [backend EXCEPT ![r] = "none"]
        /\ ledgerLock' = ReleaseLedger(r)
        /\ UNCHANGED <<run, sess, lock, ledger, stray, committed, lost>>

\* The child fails, or is killed at the deadline; its statement may go on.
ChildDies(r) ==
    /\ proc[r] = "alive"
    /\ proc' = [proc EXCEPT ![r] = "failed"]
    /\ \/ backend[r] = "statement" /\ UNCHANGED <<backend, ledgerLock>>
       \/ backend' = [backend EXCEPT ![r] = "none"] /\ ledgerLock' = ReleaseLedger(r)
    /\ UNCHANGED <<run, sess, lock, ledger, stray, committed, lost>>

-----------------------------------------------------------------------------
RunInit ==
    /\ run = [r \in Run |-> [pc |-> "new", bind |-> Unread, dir |-> 0, copy |-> Unread,
                             done |-> {}, cur |-> 0]]
    /\ sess = {} /\ lock = NoRun
    /\ proc = [r \in Run |-> "none"] /\ backend = [r \in Run |-> "none"]
    /\ ledger = [l \in Lineage |-> [version |-> 0, dirty |-> FALSE]]
    /\ ledgerLock = [l \in Lineage |-> NoRun]
    /\ stray = {} /\ committed = {} /\ lost = 0

RunStep(r) ==
    \/ StartRun(r) \/ SnapshotPlan(r) \/ OpenRoot(r) \/ \E l \in Lineage : SnapshotLineage(r, l)
    \/ OpenSession(r) \/ TakeLock(r) \/ Extensions(r)
    \/ StartChild(r) \/ AwaitChild(r) \/ DrainTerminate(r) \/ DrainDone(r) \/ DrainUncertain(r)
    \/ ReconcileAccess(r) \/ CommitAccess(r) \/ CommitUnknown(r)
    \/ RunFails(r) \/ LoseSession(r)
    \/ ChildLocks(r) \/ ChildApplies(r) \/ StatementEnds(r) \/ ChildCleans(r)
    \/ ChildExits(r) \/ ChildDies(r)

RunNext == \E r \in Run : RunStep(r)

BootstrapInit == StagingInit /\ RunInit
BootstrapNext ==
    \/ StagingNext /\ UNCHANGED runVars
    \/ RunNext /\ UNCHANGED stagingVars
BootstrapSpec == BootstrapInit /\ [][BootstrapNext]_<<stagingVars, runVars>>

-----------------------------------------------------------------------------
\* A run that has returned, other than with an uncertain cleanup, has left no
\* process and no session of a child: killing the client is not enough, and a
\* cancelled run drains too (run.go drainChild).
CleanReturnLeavesNoChild ==
    \A r \in Run : run[r].pc \in Outcome \ {"uncertain"} =>
        proc[r] # "alive" /\ backend[r] = "none"

\* A run whose child wrote to the database while it did not hold the shared lock
\* (its session was lost, or a statement outlived it) never reports anything but
\* an uncertain cleanup (run.go Run, drainChild).
StrayWritesReported ==
    \A r \in stray : run[r].pc \in {"child", "drain", "count", "uncertain"}

\* Access is committed only over lineages that are clean and at the versions the
\* binding attests, as long as no run has strayed (run.go Run: a failed or dirty
\* lineage stops access reconciliation).
AccessOverCleanLedgers ==
    [][\A r \in committed' \ committed : stray = {} =>
          \A l \in Lineage : ledger[l] = [version |-> run[r].bind[l].migrations, dirty |-> FALSE]
      ]_<<stagingVars, runVars>>

\* No child applies a migration the binding does not attest or one that was
\* rewritten since, whatever happens to the package between the reads of the
\* snapshot and after them (package.go snapshot: only verified bytes are copied,
\* and children read the copies).
AppliedIsAttested ==
    \A r \in Run : backend[r] \in {"statement", "ran"} =>
        LET attests == run[r].bind[run[r].cur]
        IN  /\ ledger[run[r].cur].version <= attests.migrations
            /\ run[r].copy[run[r].cur].edition = attests.edition

-----------------------------------------------------------------------------
(* The inductive invariant behind the safety properties *)

InChild == {"child", "drain", "count"}
AtLock == {"extensions", "lineage", "commit"} \cup InChild

RunRecord ==
    [pc : Working \cup Outcome \cup {"new"}, bind : Plan \cup {Unread}, dir : Nat,
     copy : [Lineage -> Content \cup {Gone}], done : SUBSET Lineage, cur : Lineage \cup {0}]

RunTypeOK ==
    /\ run \in [Run -> RunRecord]
    /\ sess \subseteq Run /\ lock \in Run \cup {NoRun}
    /\ proc \in [Run -> {"none", "alive", "ok", "failed"}]
    /\ backend \in [Run -> {"none", "up", "statement", "ran"}]
    /\ ledger \in [Lineage -> [version : Nat, dirty : BOOLEAN]]
    /\ ledgerLock \in [Lineage -> Run \cup {NoRun}]
    /\ stray \subseteq Run /\ committed \subseteq Run /\ lost \in 0..MaxLost

\* What a run has copied is what its binding attests, and all of it before it
\* connects.
CopyInv(r) ==
    /\ IF run[r].pc = "new" THEN run[r].bind = Unread ELSE run[r].bind \in Plan
    /\ \A l \in Lineage : run[r].copy[l] \in {run[r].bind[l], Gone}
    /\ run[r].pc \in {"connect", "lock"} \cup AtLock \cup {"uncertain"} =>
        run[r].copy = run[r].bind

\* A child exists only while its run waits for it, its backend only until the
\* run has seen it gone or said that it is uncertain, and a backend owns the
\* ledger it writes.
ChildInv(r) ==
    /\ proc[r] = "alive" => run[r].pc = "child"
    /\ backend[r] # "none" => run[r].pc \in InChild \cup {"uncertain"}
    /\ run[r].pc \in InChild \cup {"uncertain"} => run[r].cur \in Lineage
    /\ backend[r] # "none" => ledgerLock[run[r].cur] = r

\* A run past the lock has it as long as its session lives, one that returned has
\* closed it, and one that strayed has no session and no way to a clean return.
LockInv(r) ==
    /\ run[r].pc \in AtLock /\ r \in sess => lock = r
    /\ run[r].pc \in Outcome => r \notin sess
    /\ r \in stray => r \notin sess /\ run[r].pc \in InChild \cup {"uncertain"}

BootstrapInv ==
    /\ \A r \in Run : CopyInv(r) /\ ChildInv(r) /\ LockInv(r)
    /\ AppliedIsAttested

\* What a run that still has the lock has completed is as its binding attests,
\* as long as no other run has strayed.
DoneInv(r) ==
    /\ run[r].pc \in {"new", "plan", "open", "sources", "connect", "lock"} => run[r].done = {}
    /\ run[r].pc \in InChild => run[r].cur \notin run[r].done
    /\ run[r].pc = "commit" => run[r].done = Lineage
    /\ stray = {} /\ r \in sess /\ run[r].pc \in AtLock => \A l \in Lineage :
        l \in run[r].done \/ (run[r].pc \in InChild /\ l = run[r].cur /\ proc[r] = "ok")
            => ledger[l] = [version |-> run[r].bind[l].migrations, dirty |-> FALSE]

LedgerInv == \A r \in Run : DoneInv(r)

=============================================================================
