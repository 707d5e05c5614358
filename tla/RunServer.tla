----------------------------- MODULE RunServer -----------------------------
(***************************************************************************)
(* The one native postgres server of a run (nixpg.go), shared by the       *)
(* agents of the run's services and collected by agents of other runs.     *)
(*                                                                         *)
(* A root is a run's directory: its flock, its holder records, the record  *)
(* of the postmaster it started (postmaster.json) and the cluster's own    *)
(* lock file (postmaster.pid).  Agents are operating-system processes that *)
(* attach to, release and collect servers; a postmaster is a detached      *)
(* process that outlives them.  PIDs are reused; births are not.           *)
(***************************************************************************)
EXTENDS Naturals

CONSTANTS
    Agent,          \* agent processes; each is one birth
    Run,            \* codefly processes that launch agents
    Service,        \* services, the names holder records are filed under
    Root,           \* run servers' directories on this machine
    Pid,            \* process numbers postmasters and their reusers get
    None,           \* the absent value of every optional field
    RootOf,         \* the root an agent's run key hashes to
    ServiceOf,      \* the service an agent serves
    RunOf,          \* the process that launched an agent
    InspectMayFail, \* InspectProcess may fail for a process that exists
    ReuseWindow,    \* a PID may be reused before its postmaster is inspected
    MaxBirth,       \* bound: processes born under Pid
    MaxFaults       \* bound: cancellations, timeouts and failed calls

ASSUME AgentMapAssumption ==
    /\ RootOf \in [Agent -> Root]
    /\ ServiceOf \in [Agent -> Service]
    /\ RunOf \in [Agent -> Run]

ASSUME NoneAssumption ==
    /\ None \notin Agent /\ None \notin Run /\ None \notin Root /\ None \notin Pid

ASSUME BoundAssumption ==
    /\ InspectMayFail \in BOOLEAN /\ ReuseWindow \in BOOLEAN
    /\ MaxBirth \in Nat /\ MaxFaults \in Nat

VARIABLES
    pc,        \* where each agent is in acquireRunServer or release
    mode,      \* the call its lock, prune and stop steps belong to
    target,    \* the root those steps work on
    todo,      \* roots collectAbandonedServers has yet to visit
    noLive,    \* acquireRunServer's live == 0
    mark,      \* the postmaster an agent was handed (nixPostgres)
    hasHolder, \* nixPostgres.holder # ""
    unread,    \* history: live agents whose record was removed unread
    runUp,     \* codefly processes still running
    lock,      \* owner of each root's flock
    holders,   \* holders/<service>.json of each root
    record,    \* postmaster.json of each root
    pidfile,   \* the number in each cluster's postmaster.pid
    proc,      \* the process that has each number
    births,    \* processes born so far
    faults     \* failures injected so far

agentVars == <<pc, mode, target, todo, noLive, mark, hasHolder, unread>>
fileVars == <<lock, holders, record, pidfile>>
procVars == <<proc, births>>
vars == <<agentVars, runUp, fileVars, procVars, faults>>

-----------------------------------------------------------------------------
(* Records, and the absent value of each *)

Mark == [pid: Pid, birth: Nat \ {0}]
NoMark == [pid |-> None, birth |-> 0]

Holder == [agent: Agent, run: Run \cup {None}]
NoHolder == [agent |-> None, run |-> None]

Signal == {"none", "int", "quit"}
Process ==
    [kind: {"postgres"}, birth: Nat \ {0}, cluster: Root, sig: Signal]
        \cup [kind: {"other"}, birth: Nat \ {0}, cluster: {None}, sig: Signal]
NoProcess == [kind |-> "none", birth |-> 0, cluster |-> None, sig |-> "none"]

AgentPc == {"idle", "collect", "prune", "attach", "start", "launched", "handout",
            "register", "failed", "held", "unlockedRelease", "unhold",
            "stop", "signal", "wait", "waitQuit", "forget", "unlink", "dead"}

-----------------------------------------------------------------------------
(* Process inspection *)

\* Mutation: the number is looked up without its birth.
IsNumber(m) == m.pid # None /\ proc[m.pid].kind # "none"

\* The marked process still has its number.
Is(m) == m.pid # None /\ proc[m.pid].birth = m.birth

\* processMark.alive: an inspection that fails counts as alive.
AliveAnswers(m) == {Is(m)} \cup (IF InspectMayFail THEN {TRUE} ELSE {})

\* processMark.confirmed: an inspection that fails counts as not confirmed.
ConfirmedAnswers(m) == {Is(m)} \cup (IF InspectMayFail THEN {FALSE} ELSE {})

AgentUp(a) == pc[a] # "dead"

\* serverHolder.alive, when every inspection answers.
HolderAlive(h) ==
    /\ h.agent # None /\ AgentUp(h.agent)
    /\ h.run = None \/ h.run \in runUp

LiveHolders(r) == {s \in Service : HolderAlive(holders[r][s])}

\* Mutation: a record that was read is pruned while its holder lives.
KeptAny(r, lost) == SUBSET LiveHolders(r)

\* The holder records pruneHolders may keep when those of `lost` cannot be
\* read: every other live one, and what an inspection that fails takes for live.
Kept(r, lost) ==
    {k \in SUBSET {s \in Service \ lost : holders[r][s] # NoHolder} :
        /\ LiveHolders(r) \ lost \subseteq k
        /\ InspectMayFail \/ k = LiveHolders(r) \ lost}

\* Mutation: only a recorded postmaster owns the lock file.
PidFileRecorded(r) == pidfile[r] # None /\ Is(record[r])

\* postmasterPidFileOwner: a lock file that names a process that exists.
PidFileOwned(r) == pidfile[r] # None /\ proc[pidfile[r]].kind # "none"

-----------------------------------------------------------------------------
Init ==
    /\ pc = [a \in Agent |-> "idle"]
    /\ mode = [a \in Agent |-> "none"]
    /\ target = [a \in Agent |-> RootOf[a]]
    /\ todo = [a \in Agent |-> {}]
    /\ noLive = [a \in Agent |-> FALSE]
    /\ mark = [a \in Agent |-> NoMark]
    /\ hasHolder = [a \in Agent |-> FALSE]
    /\ unread = {}
    /\ runUp = Run
    /\ lock = [r \in Root |-> None]
    /\ holders = [r \in Root |-> [s \in Service |-> NoHolder]]
    /\ record = [r \in Root |-> NoMark]
    /\ pidfile = [r \in Root |-> None]
    /\ proc = [p \in Pid |-> NoProcess]
    /\ births = 0
    /\ faults = 0

Fault == faults < MaxFaults /\ faults' = faults + 1
NoFault == UNCHANGED faults

Goto(a, place) == pc' = [pc EXCEPT ![a] = place]

\* Mutation: the flock is shared.
ShareLock(a, r) == lock' = [lock EXCEPT ![r] = a]

TakeLock(a, r) == lock[r] = None /\ lock' = [lock EXCEPT ![r] = a]

\* Mutation: a collector keeps the lock of the root it looked at.
KeepCollected(a) == lock' = IF mode[a] = "collect" THEN lock ELSE [lock EXCEPT ![target[a]] = None]

Unlock(a) == lock' = [lock EXCEPT ![target[a]] = None]

\* Give the lock back and leave the call, whose locals end with it: a release
\* that failed keeps the attachment, everything else leaves the agent without.
Leave(a, failed) ==
    LET keep == mode[a] = "release" /\ failed IN
    /\ Unlock(a)
    /\ Goto(a, IF mode[a] = "collect" THEN "collect" ELSE IF keep THEN "held" ELSE "idle")
    /\ mark' = [mark EXCEPT ![a] = IF keep THEN @ ELSE NoMark]
    /\ mode' = [mode EXCEPT ![a] = IF @ = "collect" THEN @ ELSE "none"]
    /\ target' = [target EXCEPT ![a] = RootOf[a]]
    /\ noLive' = [noLive EXCEPT ![a] = FALSE]
    /\ UNCHANGED <<todo, hasHolder>>

-----------------------------------------------------------------------------
(* acquireRunServer *)

\* The call begins: every other root is to be looked at first.
Acquire(a) ==
    /\ pc[a] = "idle"
    /\ Goto(a, "collect")
    /\ mode' = [mode EXCEPT ![a] = "collect"]
    /\ todo' = [todo EXCEPT ![a] = Root \ {RootOf[a]}]
    /\ UNCHANGED <<target, noLive, mark, hasHolder, unread, runUp, fileVars, procVars, faults>>

\* TryLock on another root succeeded.
CollectLock(a, r) ==
    /\ pc[a] = "collect" /\ r \in todo[a]
    /\ TakeLock(a, r)
    /\ target' = [target EXCEPT ![a] = r]
    /\ todo' = [todo EXCEPT ![a] = @ \ {r}]
    /\ Goto(a, "prune")
    /\ UNCHANGED <<mode, noLive, mark, hasHolder, unread, runUp, holders, record, pidfile, procVars, faults>>

\* Mutation: a root is passed over although nobody has its lock.
CollectSkipFree(a, r) ==
    /\ pc[a] = "collect" /\ r \in todo[a]
    /\ todo' = [todo EXCEPT ![a] = @ \ {r}]
    /\ UNCHANGED <<pc, mode, target, noLive, mark, hasHolder, unread, runUp, fileVars, procVars, faults>>

\* TryLock failed: that server is being started, attached or released.
CollectSkip(a, r) ==
    /\ pc[a] = "collect" /\ r \in todo[a] /\ lock[r] # None
    /\ todo' = [todo EXCEPT ![a] = @ \ {r}]
    /\ UNCHANGED <<pc, mode, target, noLive, mark, hasHolder, unread, runUp, fileVars, procVars, faults>>

\* lockRunServer on the agent's own root, held to the end of the call.
AcquireLock(a) ==
    /\ pc[a] = "collect" /\ todo[a] = {}
    /\ TakeLock(a, RootOf[a])
    /\ target' = [target EXCEPT ![a] = RootOf[a]]
    /\ mode' = [mode EXCEPT ![a] = "attach"]
    /\ Goto(a, "prune")
    /\ UNCHANGED <<todo, noLive, mark, hasHolder, unread, runUp, holders, record, pidfile, procVars, faults>>

\* The caller's context ended while it collected or waited for the lock.
AcquireCancelled(a) ==
    /\ pc[a] = "collect" /\ Fault
    /\ Goto(a, "idle")
    /\ mode' = [mode EXCEPT ![a] = "none"]
    /\ todo' = [todo EXCEPT ![a] = {}]
    /\ UNCHANGED <<target, noLive, mark, hasHolder, unread, runUp, fileVars, procVars>>

\* What pruneHolders leaves, and what each caller does with the number it returns.
PruneTo(a, lost, kept) ==
    LET r == target[a] IN
    /\ IF lost = {} THEN NoFault ELSE Fault
    /\ unread' = unread \cup {holders[r][s].agent : s \in lost}
    /\ holders' = [holders EXCEPT ![r] =
                     [s \in Service |-> IF s \in kept THEN holders[r][s] ELSE NoHolder]]
    /\ \/ /\ mode[a] = "attach"
          /\ noLive' = [noLive EXCEPT ![a] = (kept = {})]
          /\ Goto(a, "attach")
          /\ UNCHANGED <<mode, target, todo, mark, hasHolder, lock>>
       \/ /\ mode[a] # "attach" /\ kept = {}
          /\ Goto(a, "stop")
          /\ UNCHANGED <<mode, target, todo, noLive, mark, hasHolder, lock>>
       \/ /\ mode[a] # "attach" /\ kept # {}
          /\ Leave(a, FALSE)
    /\ UNCHANGED <<runUp, record, pidfile, procVars>>

\* pruneHolders: a record that cannot be read is removed like that of a holder
\* that is gone.
PruneHolders(a) ==
    /\ pc[a] = "prune"
    /\ \E lost \in SUBSET LiveHolders(target[a]) :
         \E kept \in Kept(target[a], lost) : PruneTo(a, lost, kept)

\* The holders directory cannot be read.
PruneFails(a) ==
    /\ pc[a] = "prune" /\ Fault
    /\ Leave(a, TRUE)
    /\ UNCHANGED <<unread, runUp, holders, record, pidfile, procVars>>

\* attachedPostmaster: the recorded postmaster is still the same process.
AttachRunning(a) ==
    LET r == target[a] IN
    /\ pc[a] = "attach" /\ record[r] # NoMark /\ TRUE \in AliveAnswers(record[r])
    /\ mark' = [mark EXCEPT ![a] = record[r]]
    /\ Goto(a, "handout")
    /\ UNCHANGED <<mode, target, todo, noLive, hasHolder, unread, runUp, fileVars, procVars, faults>>

NotRunning(r) == record[r] = NoMark \/ FALSE \in AliveAnswers(record[r])

\* clearDisownedPostmasterPid: the lock file is nobody's, or names a process
\* that is provably not a postmaster; the server is started.
AttachClear(a) ==
    LET r == target[a] IN
    /\ pc[a] = "attach" /\ NotRunning(r)
    /\ PidFileOwned(r) => proc[pidfile[r]].kind # "postgres"
    /\ pidfile' = [pidfile EXCEPT ![r] = None]
    /\ mode' = [mode EXCEPT ![a] = "start"]
    /\ Goto(a, "start")
    /\ UNCHANGED <<target, todo, noLive, mark, hasHolder, unread, runUp, lock, holders, record, procVars, faults>>

\* clearDisownedPostmasterPid refuses: some postgres, or a process that cannot
\* be inspected, has the number in the lock file.
AttachRefuse(a) ==
    LET r == target[a] IN
    /\ pc[a] = "attach" /\ NotRunning(r)
    /\ PidFileOwned(r) /\ (proc[pidfile[r]].kind = "postgres" \/ InspectMayFail)
    /\ Leave(a, TRUE)
    /\ UNCHANGED <<unread, runUp, holders, record, pidfile, procVars, faults>>

\* No agent sits between pg_ctl's success and the inspection of number p.
Settled(p) ==
    ReuseWindow \/ \A a \in Agent : ~(pc[a] = "launched" /\ pidfile[RootOf[a]] = p)

Born(p, kind, cluster) ==
    /\ births < MaxBirth /\ births' = births + 1
    /\ proc[p] = NoProcess /\ Settled(p)
    /\ proc' = [proc EXCEPT ![p] =
                 [kind |-> kind, birth |-> births + 1, cluster |-> cluster, sig |-> "none"]]

\* pg_ctl start: the postmaster writes its lock file, which it does only when
\* the file names no process.
Launch(a, p) ==
    LET r == target[a] IN
    /\ pc[a] = "start" /\ ~PidFileOwned(r)
    /\ Born(p, "postgres", r)
    /\ pidfile' = [pidfile EXCEPT ![r] = p]
    /\ Goto(a, "launched")
    /\ UNCHANGED <<mode, target, todo, noLive, mark, hasHolder, unread, runUp, lock, holders, record, faults>>

\* The birth of whatever process has the number in postmaster.pid is recorded.
RecordPostmaster(a) ==
    LET r == target[a]
        m == [pid |-> pidfile[r], birth |-> proc[pidfile[r]].birth]
    IN
    /\ pc[a] = "launched" /\ PidFileOwned(r)
    /\ record' = [record EXCEPT ![r] = m]
    /\ mark' = [mark EXCEPT ![a] = m]
    /\ Goto(a, "handout")
    /\ UNCHANGED <<mode, target, todo, noLive, hasHolder, unread, runUp, lock, holders, pidfile, procVars, faults>>

\* restrictMaintenanceDatabases, readAdminPassword and ping all succeeded,
\* which takes the marked postmaster, not yet told to stop, on its socket.
Answers(m) == Is(m) /\ proc[m.pid].kind = "postgres" /\ proc[m.pid].sig = "none"

HandOut(a) ==
    /\ pc[a] = "handout" /\ Answers(mark[a])
    /\ Goto(a, "register")
    /\ UNCHANGED <<mode, target, todo, noLive, mark, hasHolder, unread, runUp, fileVars, procVars, faults>>

\* register, watch and the deferred unlock.  A parent that is gone is not
\* recorded: the holder then lives as long as the agent.
Register(a) ==
    LET r == target[a] IN
    /\ pc[a] = "register"
    /\ \E run \in IF RunOf[a] \in runUp
                  THEN {RunOf[a]} \cup (IF InspectMayFail THEN {None} ELSE {})
                  ELSE {None} :
         holders' = [holders EXCEPT ![r][ServiceOf[a]] = [agent |-> a, run |-> run]]
    /\ unread' = unread \ {a}
    /\ hasHolder' = [hasHolder EXCEPT ![a] = TRUE]
    /\ Unlock(a)
    /\ Goto(a, "held")
    /\ mode' = [mode EXCEPT ![a] = "none"]
    /\ noLive' = [noLive EXCEPT ![a] = FALSE]
    /\ UNCHANGED <<target, todo, mark, runUp, record, pidfile, procVars, faults>>

\* The call cannot succeed from where it is.
Forced(a) ==
    \/ pc[a] = "start" /\ births = MaxBirth
    \/ pc[a] = "launched" /\ ~PidFileOwned(target[a])
    \/ pc[a] = "handout" /\ ~Answers(mark[a])

\* An error return of start or of what follows it: nix or initdb failed, pg_ctl
\* failed or gave up on a postmaster that goes on starting, the inspection, the
\* record, a statement, the ping or the holder record failed.
AcquireFails(a) ==
    /\ pc[a] \in {"start", "launched", "handout", "register"}
    /\ (Forced(a) /\ NoFault) \/ Fault
    /\ Goto(a, "failed")
    /\ UNCHANGED <<mode, target, todo, noLive, mark, hasHolder, unread, runUp, fileVars, procVars>>

\* The deferred handler: a server this call was to start is stopped when
\* nobody else holds the root.
AcquireUnwind(a) ==
    /\ pc[a] = "failed"
    /\ \/ /\ mode[a] = "start" /\ noLive[a]
          /\ Goto(a, "stop")
          /\ UNCHANGED <<mode, target, todo, noLive, mark, hasHolder, lock>>
       \/ /\ ~(mode[a] = "start" /\ noLive[a])
          /\ Leave(a, TRUE)
    /\ UNCHANGED <<unread, runUp, holders, record, pidfile, procVars, faults>>

-----------------------------------------------------------------------------
(* release *)

\* Stop, Destroy or a failed Init: supervision ends and the endpoint closes.
Release(a) ==
    /\ pc[a] = "held"
    /\ mode' = [mode EXCEPT ![a] = "release"]
    /\ Goto(a, "unlockedRelease")
    /\ UNCHANGED <<target, todo, noLive, mark, hasHolder, unread, runUp, fileVars, procVars, faults>>

ReleaseLock(a) ==
    /\ pc[a] = "unlockedRelease"
    /\ TakeLock(a, RootOf[a])
    /\ target' = [target EXCEPT ![a] = RootOf[a]]
    /\ Goto(a, "unhold")
    /\ UNCHANGED <<mode, todo, noLive, mark, hasHolder, unread, runUp, holders, record, pidfile, procVars, faults>>

\* The lock was not obtained in time: the holder record stays.
ReleaseCancelled(a) ==
    /\ pc[a] = "unlockedRelease" /\ Fault
    /\ Goto(a, "held")
    /\ mode' = [mode EXCEPT ![a] = "none"]
    /\ UNCHANGED <<target, todo, noLive, mark, hasHolder, unread, runUp, fileVars, procVars>>

\* The service's holder record is removed, whichever agent it names.
RemoveHolder(a) ==
    LET r == target[a] IN
    /\ pc[a] = "unhold"
    /\ holders' = IF hasHolder[a]
                  THEN [holders EXCEPT ![r][ServiceOf[a]] = NoHolder]
                  ELSE holders
    /\ unread' = unread \ {a}
    /\ hasHolder' = [hasHolder EXCEPT ![a] = FALSE]
    /\ Goto(a, "prune")
    /\ UNCHANGED <<mode, target, todo, noLive, mark, runUp, lock, record, pidfile, procVars, faults>>

RemoveHolderFails(a) ==
    /\ pc[a] = "unhold" /\ hasHolder[a] /\ Fault
    /\ Leave(a, TRUE)
    /\ UNCHANGED <<unread, runUp, holders, record, pidfile, procVars>>

-----------------------------------------------------------------------------
(* stopServer *)

Forget(r) == record' = [record EXCEPT ![r] = NoMark]

\* The recorded postmaster is confirmed and will be signalled.
StopConfirmed(a) ==
    LET r == target[a] IN
    /\ pc[a] = "stop" /\ record[r] # NoMark /\ TRUE \in ConfirmedAnswers(record[r])
    /\ Goto(a, "signal")
    /\ UNCHANGED <<mode, target, todo, noLive, mark, hasHolder, unread, runUp, fileVars, procVars, faults>>

\* No record, or one that is not confirmed, before the signal or after it
\* failed: nothing is stopped and the record is dropped.
StopDisowned(a) ==
    LET r == target[a] IN
    /\ \/ pc[a] = "stop" /\ (record[r] = NoMark \/ FALSE \in ConfirmedAnswers(record[r]))
       \/ pc[a] = "signal" /\ FALSE \in ConfirmedAnswers(record[r])
    /\ Forget(r)
    /\ Leave(a, FALSE)
    /\ UNCHANGED <<unread, runUp, holders, pidfile, procVars, faults>>

Signalled(m, s) == proc' = [proc EXCEPT ![m.pid].sig = s]

\* signalPostmaster with SIGINT: the birth is inspected and the signal is
\* bound to it.
SignalPostmaster(a) ==
    LET r == target[a] IN
    /\ pc[a] = "signal" /\ Is(record[r])
    /\ Signalled(record[r], "int")
    /\ Goto(a, "wait")
    /\ UNCHANGED <<mode, target, todo, noLive, mark, hasHolder, unread, runUp, fileVars, births, faults>>

\* The signal failed and the postmaster is still confirmed: the record stays.
SignalFails(a) ==
    /\ pc[a] = "signal" /\ Is(record[target[a]]) /\ Fault
    /\ Leave(a, TRUE)
    /\ UNCHANGED <<unread, runUp, holders, record, pidfile, procVars>>

\* waitGone: the recorded birth is no longer confirmed.
WaitGone(a) ==
    /\ pc[a] \in {"wait", "waitQuit"} /\ FALSE \in ConfirmedAnswers(record[target[a]])
    /\ Goto(a, "forget")
    /\ UNCHANGED <<mode, target, todo, noLive, mark, hasHolder, unread, runUp, fileVars, procVars, faults>>

\* A fast shutdown took too long: SIGQUIT, to the same birth.
WaitTimeout(a) ==
    LET m == record[target[a]] IN
    /\ pc[a] = "wait" /\ Is(m) /\ Fault
    /\ Signalled(m, "quit")
    /\ Goto(a, "waitQuit")
    /\ UNCHANGED <<mode, target, todo, noLive, mark, hasHolder, unread, runUp, fileVars, births>>

\* The server did not stop at all; its record stays.
StopTimeout(a) ==
    /\ pc[a] = "waitQuit" /\ Is(record[target[a]]) /\ Fault
    /\ Leave(a, TRUE)
    /\ UNCHANGED <<unread, runUp, holders, record, pidfile, procVars>>

ForgetRecord(a) ==
    /\ pc[a] = "forget"
    /\ Forget(target[a])
    /\ Goto(a, "unlink")
    /\ UNCHANGED <<mode, target, todo, noLive, mark, hasHolder, unread, runUp, lock, holders, pidfile, procVars, faults>>

\* The lock file a stopped postmaster may have left is removed.
UnlinkPidFile(a) ==
    /\ pc[a] = "unlink"
    /\ pidfile' = [pidfile EXCEPT ![target[a]] = None]
    /\ Leave(a, FALSE)
    /\ UNCHANGED <<unread, runUp, holders, record, procVars, faults>>

-----------------------------------------------------------------------------
(* What happens to processes *)

\* An agent is killed; the kernel releases its flock.
AgentDies(a) ==
    /\ pc[a] \notin {"idle", "dead"}
    /\ Goto(a, "dead")
    /\ lock' = [r \in Root |-> IF lock[r] = a THEN None ELSE lock[r]]
    /\ mode' = [mode EXCEPT ![a] = "none"]
    /\ target' = [target EXCEPT ![a] = RootOf[a]]
    /\ todo' = [todo EXCEPT ![a] = {}]
    /\ noLive' = [noLive EXCEPT ![a] = FALSE]
    /\ mark' = [mark EXCEPT ![a] = NoMark]
    /\ hasHolder' = [hasHolder EXCEPT ![a] = FALSE]
    /\ unread' = unread \ {a}
    /\ UNCHANGED <<runUp, holders, record, pidfile, procVars, faults>>

RunDies(run) ==
    /\ run \in runUp
    /\ runUp' = runUp \ {run}
    /\ UNCHANGED <<agentVars, fileVars, procVars, faults>>

\* A process ends.  A postmaster that shuts down in order removes its lock
\* file; one that crashes or got SIGQUIT leaves it.
ProcessDies(p) ==
    /\ proc[p] # NoProcess
    /\ proc' = [proc EXCEPT ![p] = NoProcess]
    /\ \/ UNCHANGED pidfile
       \/ /\ proc[p].kind = "postgres" /\ proc[p].sig = "int"
          /\ pidfile' = [pidfile EXCEPT ![proc[p].cluster] = None]
    /\ UNCHANGED <<agentVars, runUp, lock, holders, record, births, faults>>

\* An unrelated process gets a free number.
Reuse(p) ==
    /\ Born(p, "other", None)
    /\ UNCHANGED <<agentVars, runUp, fileVars, faults>>

-----------------------------------------------------------------------------
AcquireStep(a) ==
    \/ \E r \in Root : CollectLock(a, r) \/ CollectSkip(a, r)
    \/ AcquireLock(a)
    \/ AttachRunning(a) \/ AttachClear(a) \/ AttachRefuse(a)
    \/ \E p \in Pid : Launch(a, p)
    \/ RecordPostmaster(a) \/ HandOut(a) \/ Register(a)
    \/ AcquireFails(a) \/ AcquireUnwind(a)

ReleaseStep(a) == ReleaseLock(a) \/ RemoveHolder(a) \/ RemoveHolderFails(a)

StopStep(a) ==
    \/ StopConfirmed(a) \/ StopDisowned(a)
    \/ SignalPostmaster(a) \/ SignalFails(a)
    \/ WaitGone(a) \/ WaitTimeout(a) \/ StopTimeout(a)
    \/ ForgetRecord(a) \/ UnlinkPidFile(a)

\* What an agent does once a call is under way.
Step(a) ==
    \/ AcquireStep(a) \/ PruneHolders(a) \/ PruneFails(a)
    \/ ReleaseStep(a) \/ StopStep(a)

Next ==
    \/ \E a \in Agent :
        \/ Step(a) \/ Acquire(a) \/ AcquireCancelled(a)
        \/ Release(a) \/ ReleaseCancelled(a) \/ AgentDies(a)
    \/ \E run \in Run : RunDies(run)
    \/ \E p \in Pid : ProcessDies(p) \/ Reuse(p)

Spec == Init /\ [][Next]_vars

(***************************************************************************)
(* Fairness.  A live agent's call goes on: nothing in it waits without a   *)
(* bound except for the flock, which is polled, so a lock that is free     *)
(* again and again is eventually obtained.  A postmaster that was told to  *)
(* stop exits.  Nobody has to begin a call, die or fail.                   *)
(***************************************************************************)
Fairness ==
    /\ \A a \in Agent :
        /\ WF_vars(Step(a))
        /\ SF_vars(AcquireLock(a) \/ ReleaseLock(a))
    /\ \A p \in Pid : WF_vars(proc[p].sig # "none" /\ ProcessDies(p))

FairSpec == Spec /\ Fairness

-----------------------------------------------------------------------------
(* Properties *)

TypeOK ==
    /\ pc \in [Agent -> AgentPc]
    /\ mode \in [Agent -> {"none", "collect", "attach", "start", "release"}]
    /\ target \in [Agent -> Root]
    /\ todo \in [Agent -> SUBSET Root]
    /\ noLive \in [Agent -> BOOLEAN]
    /\ mark \in [Agent -> Mark \cup {NoMark}]
    /\ hasHolder \in [Agent -> BOOLEAN]
    /\ unread \subseteq Agent
    /\ runUp \subseteq Run
    /\ lock \in [Root -> Agent \cup {None}]
    /\ holders \in [Root -> [Service -> Holder \cup {NoHolder}]]
    /\ record \in [Root -> Mark \cup {NoMark}]
    /\ pidfile \in [Root -> Pid \cup {None}]
    /\ proc \in [Pid -> Process \cup {NoProcess}]
    /\ births \in Nat
    /\ faults \in Nat

\* The lock file of a live postmaster is never removed: whoever removes a
\* postmaster.pid has established that no postmaster of the cluster wrote it.
LockFileKept ==
    \A p \in Pid : proc[p].kind = "postgres" => pidfile[proc[p].cluster] = p

\* stopServer signals the postmaster the root's record was written for and
\* nothing else: a process that merely inherited a number is never signalled,
\* and a record never names another root's server.
SignalsOnlyOwnPostmaster ==
    /\ \A p \in Pid : proc[p].sig # "none" => proc[p].kind = "postgres"
    /\ \A r \in Root : Is(record[r]) =>
        proc[record[r].pid].kind = "postgres" /\ proc[record[r].pid].cluster = r

\* A server is stopped by the last one to release it: no postmaster is told to
\* stop while an agent whose run still lives holds it, unless pruneHolders could
\* not read that agent's record and dropped it.
HeldServerNotStopped ==
    \A a \in Agent \ unread :
        /\ hasHolder[a] /\ AgentUp(a) /\ RunOf[a] \in runUp /\ Is(mark[a])
        => proc[mark[a].pid].sig = "none"

\* The holder record of a live agent is only removed or replaced by a step of
\* that agent, or because it could not be read: pruning and collection keep the
\* records they read, and the release of another service touches none but its own.
LiveHolderKept ==
    [][\A r \in Root, s \in Service :
        LET h == holders[r][s] IN
        HolderAlive(h) /\ holders'[r][s] # h =>
            pc'[h.agent] # pc[h.agent] \/ h.agent \in unread']_vars

\* A server an acquireRunServer starts and then cannot hand out is stopped
\* rather than left: while no agent was killed, a live postmaster of a root
\* nobody has locked is the one that root's record names.
FailedStartStopped ==
    (\A a \in Agent : AgentUp(a)) =>
        \A p \in Pid :
            proc[p].kind = "postgres" /\ lock[proc[p].cluster] = None =>
                record[proc[p].cluster] = [pid |-> p, birth |-> proc[p].birth]

Busy == AgentPc \ {"idle", "held", "dead"}

\* Every acquireRunServer and every release ends: the lock is never leaked and
\* collectors that lock each other's roots never wait for one another.
OperationEnds ==
    \A a \in Agent : pc[a] \in Busy ~> pc[a] \notin Busy

\* Nobody lives who holds root r or is about to.
Abandoned(r) ==
    /\ Is(record[r]) /\ LiveHolders(r) = {}
    /\ \A a \in Agent : RootOf[a] = r => pc[a] \in {"idle", "dead"}

\* When every recorded holder is gone without releasing, the server is stopped
\* by the next agent that initializes: an agent of another root that begins to
\* collect, with no failure left to happen, does not leave it running.
AbandonedCollected ==
    \A a \in Agent, r \in Root :
        (faults = MaxFaults /\ pc[a] = "collect" /\ r \in todo[a] /\ Abandoned(r))
            ~> (~Abandoned(r) \/ pc[a] = "dead")

-----------------------------------------------------------------------------
(* The abstract server *)

\* Process p is a postmaster of root r.
ServerOf(p, r) == proc[p].kind = "postgres" /\ proc[p].cluster = r

\* A root's server as its users see it, and the live agents of live runs that
\* were handed the process that is still there and are not lost to a failed read.
ServerState ==
    [r \in Root |->
        IF \E p \in Pid : ServerOf(p, r) /\ proc[p].sig # "none" THEN "stopping"
        ELSE IF \E p \in Pid : ServerOf(p, r) THEN "up" ELSE "down"]
Users ==
    [r \in Root |-> {a \in Agent \ unread : RootOf[a] = r /\ hasHolder[a]
                                     /\ RunOf[a] \in runUp /\ Is(mark[a])}]

Shared == INSTANCE SharedServer WITH server <- ServerState, users <- Users

\* The protocol of locks, holder records, marks and signals implements the
\* shared server: one per root, handed out only while it runs, and told to stop
\* only when no live agent of a live run holds it by a record that could be read
\* (nixpg.go acquireRunServer, release, stopServer).
ImplementsSharedServer == Shared!SharedSpec

-----------------------------------------------------------------------------
(* The inductive invariants behind the safety properties *)

Acquiring == {"attach", "start", "launched", "handout", "register", "failed"}
Stopping == {"stop", "signal", "wait", "waitQuit", "forget", "unlink"}
Owning == {"prune", "unhold"} \cup Acquiring \cup Stopping

\* Between its lock and its unlock a call owns the flock of the root it works
\* on, which is the agent's own unless it collects.
LockInv ==
    \A a \in Agent :
        /\ pc[a] \in Owning => lock[target[a]] = a
        /\ mode[a] # "collect" \/ pc[a] \notin Owning => target[a] = RootOf[a]
        /\ pc[a] = "collect" => mode[a] = "collect"
        /\ pc[a] \in Acquiring => mode[a] \in {"attach", "start"}
        /\ pc[a] \in {"unlockedRelease", "unhold"} => mode[a] = "release"

\* No mark is younger than the youngest process.
BirthInv ==
    /\ \A p \in Pid : proc[p].birth <= births
    /\ \A r \in Root : record[r].birth <= births
    /\ \A a \in Agent : mark[a].birth <= births

\* Whatever is recorded, handed out or about to be recorded for a root, if it
\* still exists, is a postmaster of that root.
OwnInv ==
    /\ \A p \in Pid : proc[p].sig # "none" => proc[p].kind = "postgres"
    /\ \A r \in Root : Is(record[r]) => ServerOf(record[r].pid, r)
    /\ \A a \in Agent : Is(mark[a]) => ServerOf(mark[a].pid, RootOf[a])
    /\ \A a \in Agent : pc[a] = "launched" /\ PidFileOwned(RootOf[a]) =>
            ServerOf(pidfile[RootOf[a]], RootOf[a])

\* While a call stops a root's server, a postmaster of the root is the recorded
\* one; once it is gone there is none.
StopInv ==
    \A a \in Agent, p \in Pid :
        ServerOf(p, target[a]) =>
            /\ pc[a] \in {"signal", "wait", "waitQuit"} =>
                    Is(record[target[a]]) /\ record[target[a]].pid = p
            /\ pc[a] \notin {"forget", "unlink"}

\* No two agents of a root serve one service.
DistinctServices ==
    \A a, b \in Agent :
        RootOf[a] = RootOf[b] /\ ServiceOf[a] = ServiceOf[b] => a = b

\* An agent that lives, with a run that lives, has its holder record unless it
\* was removed unread; nobody stops a server, or has found that nobody holds it, while such a record is
\* there; and a server about to be handed out was not told to stop.
HolderInv ==
    \A a \in Agent :
        /\ hasHolder[a] => pc[a] \in {"held", "unlockedRelease", "unhold"}
        /\ hasHolder[a] /\ a \notin unread /\ RunOf[a] \in runUp =>
            LET h == holders[RootOf[a]][ServiceOf[a]] IN
            h.agent = a /\ h.run \in {None, RunOf[a]}
        /\ noLive[a] => pc[a] \in Acquiring \cup Stopping
        /\ noLive[a] \/ pc[a] \in Stopping =>
            \A s \in Service : ~HolderAlive(holders[target[a]][s])
        /\ pc[a] = "register" /\ Is(mark[a]) => proc[mark[a].pid].sig = "none"

\* A holder record is under the root and the service of the agent it names.
OwnRecordInv ==
    \A r \in Root, s \in Service :
        LET h == holders[r][s] IN
        h.agent # None => RootOf[h.agent] = r /\ ServiceOf[h.agent] = s

=============================================================================
