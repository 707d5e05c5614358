--------------------------- MODULE RunServerProofs ---------------------------
(***************************************************************************)
(* Theorems about RunServer for every set of agents, roots and numbers.    *)
(***************************************************************************)
EXTENDS RunServer, TLAPS

USE AgentMapAssumption, NoneAssumption, BoundAssumption

\* Signalling a confirmed mark changes a process that exists.
LEMMA SignalTyped ==
    ASSUME TypeOK, NEW m \in Mark \cup {NoMark}, Is(m), NEW s \in {"int", "quit"},
           proc' = [proc EXCEPT ![m.pid].sig = s]
    PROVE  proc' \in [Pid -> Process \cup {NoProcess}]
<1>1. m.pid \in Pid /\ proc[m.pid] \in Process
    BY DEF TypeOK, Is, Mark, NoMark, Process, NoProcess
<1>2. [proc[m.pid] EXCEPT !.sig = s] \in Process
    BY <1>1 DEF Process, Signal
<1> QED
    BY <1>1, <1>2 DEF TypeOK

\* Every step keeps the variables in their types.
LEMMA TypeStep == TypeOK /\ [Next]_vars => TypeOK'
<1> SUFFICES ASSUME TypeOK, [Next]_vars PROVE TypeOK'
    OBVIOUS
<1> USE DEF TypeOK, AgentPc, agentVars, fileVars, procVars, Goto, TakeLock, Unlock, Leave, Fault,
        NoFault, Mark, NoMark, Holder, NoHolder, Process, NoProcess, Signal, Born, Forget,
        Signalled
<1>1. ASSUME NEW a \in Agent, Acquire(a) PROVE TypeOK'
    BY <1>1 DEF Acquire
<1>2. ASSUME NEW a \in Agent, AcquireLock(a) PROVE TypeOK'
    BY <1>2 DEF AcquireLock
<1>3. ASSUME NEW a \in Agent, AcquireCancelled(a) PROVE TypeOK'
    BY <1>3 DEF AcquireCancelled
<1>4. ASSUME NEW a \in Agent, PruneHolders(a) PROVE TypeOK'
    <2> DEFINE r == target[a]
    <2>0. PICK lost \in SUBSET LiveHolders(r) : \E kept \in Kept(r, lost) : PruneTo(a, lost, kept)
        BY <1>4 DEF PruneHolders
    <2>9. PICK kept \in Kept(r, lost) : PruneTo(a, lost, kept)
        BY <2>0
    <2>1. /\ unread' = unread \cup {holders[r][s].agent : s \in lost}
          /\ faults' \in {faults, faults + 1}
          /\ holders' = [holders EXCEPT ![r] =
                          [s \in Service |-> IF s \in kept THEN holders[r][s] ELSE NoHolder]]
          /\ \/ /\ noLive' = [noLive EXCEPT ![a] = (kept = {})]
                /\ Goto(a, "attach")
                /\ UNCHANGED <<mode, target, todo, mark, hasHolder, lock>>
             \/ /\ Goto(a, "stop")
                /\ UNCHANGED <<mode, target, todo, noLive, mark, hasHolder, lock>>
             \/ Leave(a, FALSE)
        BY <2>9 DEF PruneTo
    <2>2. holders' \in [Root -> [Service -> Holder \cup {NoHolder}]]
        BY <2>1
    <2>3. UNCHANGED <<runUp, record, pidfile, procVars>>
        BY <2>9 DEF PruneTo
    <2>8. unread' \subseteq Agent /\ faults' \in Nat
        BY <2>1 DEF LiveHolders, HolderAlive
    <2> HIDE DEF r
    <2>4. noLive' \in [Agent -> BOOLEAN]
        <3>1. CASE noLive' = [noLive EXCEPT ![a] = (kept = {})]
            <4>1. (kept = {}) \in BOOLEAN
                OBVIOUS
            <4> QED
                BY <3>1, <4>1, Zenon
        <3> QED
            BY <2>1, <3>1
    <2>5. \/ /\ Goto(a, "attach") \/ Goto(a, "stop")
             /\ UNCHANGED <<mode, target, todo, mark, hasHolder, lock>>
          \/ Leave(a, FALSE)
        BY <2>1
    <2>6. CASE Leave(a, FALSE)
        BY <2>2, <2>3, <2>4, <2>6, <2>8
    <2>7. CASE /\ Goto(a, "attach") \/ Goto(a, "stop")
               /\ UNCHANGED <<mode, target, todo, mark, hasHolder, lock>>
        BY <2>2, <2>3, <2>4, <2>7, <2>8
    <2> QED
        BY <2>5, <2>6, <2>7
<1>5. ASSUME NEW a \in Agent, PruneFails(a) PROVE TypeOK'
    BY <1>5 DEF PruneFails
<1>6. ASSUME NEW a \in Agent, AttachRunning(a) PROVE TypeOK'
    BY <1>6 DEF AttachRunning, AliveAnswers
<1>7. ASSUME NEW a \in Agent, AttachClear(a) PROVE TypeOK'
    BY <1>7 DEF AttachClear
<1>8. ASSUME NEW a \in Agent, AttachRefuse(a) PROVE TypeOK'
    BY <1>8 DEF AttachRefuse
<1>9. ASSUME NEW a \in Agent, RecordPostmaster(a) PROVE TypeOK'
    BY <1>9 DEF RecordPostmaster, PidFileOwned
<1>10. ASSUME NEW a \in Agent, HandOut(a) PROVE TypeOK'
    BY <1>10 DEF HandOut
<1>11. ASSUME NEW a \in Agent, Register(a) PROVE TypeOK'
    BY <1>11 DEF Register
<1>12. ASSUME NEW a \in Agent, AcquireFails(a) PROVE TypeOK'
    BY <1>12 DEF AcquireFails
<1>13. ASSUME NEW a \in Agent, AcquireUnwind(a) PROVE TypeOK'
    <2>1. CASE Leave(a, TRUE)
        BY <1>13, <2>1 DEF AcquireUnwind
    <2>2. CASE Goto(a, "stop") /\ UNCHANGED <<mode, target, todo, noLive, mark, hasHolder, lock>>
        BY <1>13, <2>2 DEF AcquireUnwind
    <2> QED
        BY <1>13, <2>1, <2>2 DEF AcquireUnwind
<1>14. ASSUME NEW a \in Agent, Release(a) PROVE TypeOK'
    BY <1>14 DEF Release
<1>15. ASSUME NEW a \in Agent, ReleaseLock(a) PROVE TypeOK'
    BY <1>15 DEF ReleaseLock
<1>16. ASSUME NEW a \in Agent, ReleaseCancelled(a) PROVE TypeOK'
    BY <1>16 DEF ReleaseCancelled
<1>17. ASSUME NEW a \in Agent, RemoveHolder(a) PROVE TypeOK'
    BY <1>17 DEF RemoveHolder
<1>18. ASSUME NEW a \in Agent, RemoveHolderFails(a) PROVE TypeOK'
    BY <1>18 DEF RemoveHolderFails
<1>19. ASSUME NEW a \in Agent, StopConfirmed(a) PROVE TypeOK'
    BY <1>19 DEF StopConfirmed
<1>20. ASSUME NEW a \in Agent, StopDisowned(a) PROVE TypeOK'
    BY <1>20 DEF StopDisowned
<1>21. ASSUME NEW a \in Agent, SignalPostmaster(a) PROVE TypeOK'
    <2> DEFINE m == record[target[a]]
    <2>1. Is(m) /\ proc' = [proc EXCEPT ![m.pid].sig = "int"]
        BY <1>21 DEF SignalPostmaster
    <2>2. proc' \in [Pid -> Process \cup {NoProcess}]
        BY <2>1, SignalTyped
    <2> QED
        BY <1>21, <2>2 DEF SignalPostmaster
<1>22. ASSUME NEW a \in Agent, SignalFails(a) PROVE TypeOK'
    BY <1>22 DEF SignalFails
<1>23. ASSUME NEW a \in Agent, WaitGone(a) PROVE TypeOK'
    BY <1>23 DEF WaitGone
<1>24. ASSUME NEW a \in Agent, WaitTimeout(a) PROVE TypeOK'
    <2> DEFINE m == record[target[a]]
    <2>1. Is(m) /\ proc' = [proc EXCEPT ![m.pid].sig = "quit"]
        BY <1>24 DEF WaitTimeout
    <2>2. proc' \in [Pid -> Process \cup {NoProcess}]
        BY <2>1, SignalTyped
    <2> QED
        BY <1>24, <2>2 DEF WaitTimeout
<1>25. ASSUME NEW a \in Agent, StopTimeout(a) PROVE TypeOK'
    BY <1>25 DEF StopTimeout
<1>26. ASSUME NEW a \in Agent, ForgetRecord(a) PROVE TypeOK'
    BY <1>26 DEF ForgetRecord
<1>27. ASSUME NEW a \in Agent, UnlinkPidFile(a) PROVE TypeOK'
    BY <1>27 DEF UnlinkPidFile
<1>28. ASSUME NEW a \in Agent, AgentDies(a) PROVE TypeOK'
    BY <1>28 DEF AgentDies
<1>29. ASSUME NEW a \in Agent, NEW r \in Root, CollectLock(a, r) PROVE TypeOK'
    BY <1>29 DEF CollectLock
<1>30. ASSUME NEW a \in Agent, NEW r \in Root, CollectSkip(a, r) PROVE TypeOK'
    BY <1>30 DEF CollectSkip
<1>31. ASSUME NEW a \in Agent, NEW p \in Pid, Launch(a, p) PROVE TypeOK'
    BY <1>31 DEF Launch
<1>32. ASSUME NEW u \in Run, RunDies(u) PROVE TypeOK'
    BY <1>32 DEF RunDies
<1>33. ASSUME NEW p \in Pid, ProcessDies(p) PROVE TypeOK'
    BY <1>33 DEF ProcessDies
<1>34. ASSUME NEW p \in Pid, Reuse(p) PROVE TypeOK'
    BY <1>34 DEF Reuse
<1>35. CASE UNCHANGED vars
    BY <1>35 DEF vars
<1> QED
        BY <1>1, <1>2, <1>3, <1>4, <1>5, <1>6, <1>7, <1>8, <1>9, <1>10, <1>11, <1>12, <1>13,
        <1>14, <1>15, <1>16, <1>17, <1>18, <1>19, <1>20, <1>21, <1>22, <1>23, <1>24, <1>25, <1>26,
        <1>27, <1>28, <1>29, <1>30, <1>31, <1>32, <1>33, <1>34, <1>35 DEF Next, Step, AcquireStep,
        ReleaseStep, StopStep

\* The state of the run servers is always well formed: every absent record, lock
\* owner, number and process is the absent value of its kind.
THEOREM RunServerTypeOK == Spec => []TypeOK
<1>1. Init => TypeOK
    BY DEF Init, TypeOK, AgentPc, NoMark, NoHolder, NoProcess
<1> QED
    BY <1>1, TypeStep, PTL DEF Spec

\* Every step keeps the flock discipline: a call owns the lock of the root it
\* works on.
LEMMA LockStep == TypeOK /\ LockInv /\ [Next]_vars => LockInv'
<1> SUFFICES ASSUME TypeOK, LockInv, [Next]_vars PROVE LockInv'
    OBVIOUS
<1> USE DEF TypeOK, LockInv, AgentPc, Acquiring, Stopping, Owning, agentVars, fileVars, procVars,
        Goto, TakeLock, Unlock
<1>1. ASSUME NEW a \in Agent, Acquire(a) PROVE LockInv'
    BY <1>1 DEF Acquire
<1>2. ASSUME NEW a \in Agent, AcquireLock(a) PROVE LockInv'
    BY <1>2 DEF AcquireLock
<1>3. ASSUME NEW a \in Agent, AcquireCancelled(a) PROVE LockInv'
    BY <1>3 DEF AcquireCancelled
<1>4. ASSUME NEW a \in Agent, PruneHolders(a) PROVE LockInv'
    BY <1>4 DEF PruneHolders, PruneTo, Leave
<1>5. ASSUME NEW a \in Agent, PruneFails(a) PROVE LockInv'
    BY <1>5 DEF PruneFails, Leave
<1>6. ASSUME NEW a \in Agent, AttachRunning(a) PROVE LockInv'
    BY <1>6 DEF AttachRunning
<1>7. ASSUME NEW a \in Agent, AttachClear(a) PROVE LockInv'
    BY <1>7 DEF AttachClear
<1>8. ASSUME NEW a \in Agent, AttachRefuse(a) PROVE LockInv'
    BY <1>8 DEF AttachRefuse, Leave
<1>9. ASSUME NEW a \in Agent, RecordPostmaster(a) PROVE LockInv'
    BY <1>9 DEF RecordPostmaster
<1>10. ASSUME NEW a \in Agent, HandOut(a) PROVE LockInv'
    BY <1>10 DEF HandOut
<1>11. ASSUME NEW a \in Agent, Register(a) PROVE LockInv'
    BY <1>11 DEF Register
<1>12. ASSUME NEW a \in Agent, AcquireFails(a) PROVE LockInv'
    BY <1>12 DEF AcquireFails
<1>13. ASSUME NEW a \in Agent, AcquireUnwind(a) PROVE LockInv'
    BY <1>13 DEF AcquireUnwind, Leave
<1>14. ASSUME NEW a \in Agent, Release(a) PROVE LockInv'
    BY <1>14 DEF Release
<1>15. ASSUME NEW a \in Agent, ReleaseLock(a) PROVE LockInv'
    BY <1>15 DEF ReleaseLock
<1>16. ASSUME NEW a \in Agent, ReleaseCancelled(a) PROVE LockInv'
    BY <1>16 DEF ReleaseCancelled
<1>17. ASSUME NEW a \in Agent, RemoveHolder(a) PROVE LockInv'
    BY <1>17 DEF RemoveHolder
<1>18. ASSUME NEW a \in Agent, RemoveHolderFails(a) PROVE LockInv'
    BY <1>18 DEF RemoveHolderFails, Leave
<1>19. ASSUME NEW a \in Agent, StopConfirmed(a) PROVE LockInv'
    BY <1>19 DEF StopConfirmed
<1>20. ASSUME NEW a \in Agent, StopDisowned(a) PROVE LockInv'
    <2>1. pc[a] \in {"stop", "signal"} /\ Leave(a, FALSE)
        BY <1>20 DEF StopDisowned
    <2> QED
        BY <2>1 DEF Leave
<1>21. ASSUME NEW a \in Agent, SignalPostmaster(a) PROVE LockInv'
    BY <1>21 DEF SignalPostmaster
<1>22. ASSUME NEW a \in Agent, SignalFails(a) PROVE LockInv'
    BY <1>22 DEF SignalFails, Leave
<1>23. ASSUME NEW a \in Agent, WaitGone(a) PROVE LockInv'
    BY <1>23 DEF WaitGone
<1>24. ASSUME NEW a \in Agent, WaitTimeout(a) PROVE LockInv'
    BY <1>24 DEF WaitTimeout
<1>25. ASSUME NEW a \in Agent, StopTimeout(a) PROVE LockInv'
    BY <1>25 DEF StopTimeout, Leave
<1>26. ASSUME NEW a \in Agent, ForgetRecord(a) PROVE LockInv'
    BY <1>26 DEF ForgetRecord
<1>27. ASSUME NEW a \in Agent, UnlinkPidFile(a) PROVE LockInv'
    BY <1>27 DEF UnlinkPidFile, Leave
<1>28. ASSUME NEW a \in Agent, AgentDies(a) PROVE LockInv'
    BY <1>28 DEF AgentDies
<1>29. ASSUME NEW a \in Agent, NEW r \in Root, CollectLock(a, r) PROVE LockInv'
    BY <1>29 DEF CollectLock
<1>30. ASSUME NEW a \in Agent, NEW r \in Root, CollectSkip(a, r) PROVE LockInv'
    BY <1>30 DEF CollectSkip
<1>31. ASSUME NEW a \in Agent, NEW p \in Pid, Launch(a, p) PROVE LockInv'
    BY <1>31 DEF Launch
<1>32. ASSUME NEW u \in Run, RunDies(u) PROVE LockInv'
    BY <1>32 DEF RunDies
<1>33. ASSUME NEW p \in Pid, ProcessDies(p) PROVE LockInv'
    BY <1>33 DEF ProcessDies
<1>34. ASSUME NEW p \in Pid, Reuse(p) PROVE LockInv'
    BY <1>34 DEF Reuse
<1>35. CASE UNCHANGED vars
    BY <1>35 DEF vars
<1> QED
        BY <1>1, <1>2, <1>3, <1>4, <1>5, <1>6, <1>7, <1>8, <1>9, <1>10, <1>11, <1>12, <1>13,
        <1>14, <1>15, <1>16, <1>17, <1>18, <1>19, <1>20, <1>21, <1>22, <1>23, <1>24, <1>25, <1>26,
        <1>27, <1>28, <1>29, <1>30, <1>31, <1>32, <1>33, <1>34, <1>35 DEF Next, Step, AcquireStep,
        ReleaseStep, StopStep

\* No step makes a mark younger than the youngest process.
LEMMA BirthStep == TypeOK /\ BirthInv /\ [Next]_vars => BirthInv'
<1> SUFFICES ASSUME TypeOK, BirthInv, [Next]_vars PROVE BirthInv'
    OBVIOUS
<1> USE DEF TypeOK, BirthInv, agentVars, fileVars, procVars, Leave, Mark, NoMark, Process,
        NoProcess, Forget, Signalled
<1>1. ASSUME NEW a \in Agent, Acquire(a) PROVE BirthInv'
    BY <1>1 DEF Acquire
<1>2. ASSUME NEW a \in Agent, AcquireLock(a) PROVE BirthInv'
    BY <1>2 DEF AcquireLock
<1>3. ASSUME NEW a \in Agent, AcquireCancelled(a) PROVE BirthInv'
    BY <1>3 DEF AcquireCancelled
<1>4. ASSUME NEW a \in Agent, PruneHolders(a) PROVE BirthInv'
    <2>1. PICK lost, kept : PruneTo(a, lost, kept)
        BY <1>4 DEF PruneHolders
    <2>2. pc[a] = "prune" /\ UNCHANGED <<record, pidfile, procVars>>
        BY <1>4, <2>1 DEF PruneHolders, PruneTo
    <2>3. CASE mark' = mark /\ (Goto(a, "attach") \/ Goto(a, "stop"))
        BY <2>2, <2>3
    <2>4. CASE Leave(a, FALSE)
        BY <2>2, <2>4
    <2> QED
        BY <2>1, <2>3, <2>4 DEF PruneTo
<1>5. ASSUME NEW a \in Agent, PruneFails(a) PROVE BirthInv'
    BY <1>5 DEF PruneFails
<1>6. ASSUME NEW a \in Agent, AttachRunning(a) PROVE BirthInv'
    BY <1>6 DEF AttachRunning
<1>7. ASSUME NEW a \in Agent, AttachClear(a) PROVE BirthInv'
    BY <1>7 DEF AttachClear
<1>8. ASSUME NEW a \in Agent, AttachRefuse(a) PROVE BirthInv'
    BY <1>8 DEF AttachRefuse
<1>9. ASSUME NEW a \in Agent, RecordPostmaster(a) PROVE BirthInv'
    BY <1>9 DEF RecordPostmaster, PidFileOwned
<1>10. ASSUME NEW a \in Agent, HandOut(a) PROVE BirthInv'
    BY <1>10 DEF HandOut
<1>11. ASSUME NEW a \in Agent, Register(a) PROVE BirthInv'
    BY <1>11 DEF Register
<1>12. ASSUME NEW a \in Agent, AcquireFails(a) PROVE BirthInv'
    BY <1>12 DEF AcquireFails
<1>13. ASSUME NEW a \in Agent, AcquireUnwind(a) PROVE BirthInv'
    <2>1. UNCHANGED <<proc, births, record>> /\ (UNCHANGED mark \/ Leave(a, TRUE))
        BY <1>13 DEF AcquireUnwind
    <2>2. \A b \in Agent : mark'[b] \in {mark[b], NoMark}
        BY <2>1
    <2> QED
        BY <2>1, <2>2
<1>14. ASSUME NEW a \in Agent, Release(a) PROVE BirthInv'
    BY <1>14 DEF Release
<1>15. ASSUME NEW a \in Agent, ReleaseLock(a) PROVE BirthInv'
    BY <1>15 DEF ReleaseLock
<1>16. ASSUME NEW a \in Agent, ReleaseCancelled(a) PROVE BirthInv'
    BY <1>16 DEF ReleaseCancelled
<1>17. ASSUME NEW a \in Agent, RemoveHolder(a) PROVE BirthInv'
    BY <1>17 DEF RemoveHolder
<1>18. ASSUME NEW a \in Agent, RemoveHolderFails(a) PROVE BirthInv'
    BY <1>18 DEF RemoveHolderFails
<1>19. ASSUME NEW a \in Agent, StopConfirmed(a) PROVE BirthInv'
    BY <1>19 DEF StopConfirmed
<1>20. ASSUME NEW a \in Agent, StopDisowned(a) PROVE BirthInv'
    BY <1>20 DEF StopDisowned
<1>21. ASSUME NEW a \in Agent, SignalPostmaster(a) PROVE BirthInv'
    BY <1>21 DEF SignalPostmaster, Is
<1>22. ASSUME NEW a \in Agent, SignalFails(a) PROVE BirthInv'
    BY <1>22 DEF SignalFails
<1>23. ASSUME NEW a \in Agent, WaitGone(a) PROVE BirthInv'
    BY <1>23 DEF WaitGone
<1>24. ASSUME NEW a \in Agent, WaitTimeout(a) PROVE BirthInv'
    BY <1>24 DEF WaitTimeout, Is
<1>25. ASSUME NEW a \in Agent, StopTimeout(a) PROVE BirthInv'
    BY <1>25 DEF StopTimeout
<1>26. ASSUME NEW a \in Agent, ForgetRecord(a) PROVE BirthInv'
    BY <1>26 DEF ForgetRecord
<1>27. ASSUME NEW a \in Agent, UnlinkPidFile(a) PROVE BirthInv'
    BY <1>27 DEF UnlinkPidFile
<1>28. ASSUME NEW a \in Agent, AgentDies(a) PROVE BirthInv'
    BY <1>28 DEF AgentDies
<1>29. ASSUME NEW a \in Agent, NEW r \in Root, CollectLock(a, r) PROVE BirthInv'
    BY <1>29 DEF CollectLock
<1>30. ASSUME NEW a \in Agent, NEW r \in Root, CollectSkip(a, r) PROVE BirthInv'
    BY <1>30 DEF CollectSkip
<1>31. ASSUME NEW a \in Agent, NEW p \in Pid, Launch(a, p) PROVE BirthInv'
    <2>1. /\ births' = births + 1
          /\ proc' = [proc EXCEPT ![p] = [kind |-> "postgres", birth |-> births + 1, cluster |-> target[a], sig |-> "none"]]
          /\ UNCHANGED <<record, mark>>
        BY <1>31 DEF Launch, Born, agentVars, fileVars
    <2>2. /\ \A q \in Pid : proc[q].birth \in Nat
          /\ \A r \in Root : record[r].birth \in Nat
          /\ \A b \in Agent : mark[b].birth \in Nat
        OBVIOUS
    <2>3. \A q \in Pid : proc'[q].birth <= births'
        BY <2>1, <2>2
    <2> QED
        BY <2>1, <2>2, <2>3
<1>32. ASSUME NEW u \in Run, RunDies(u) PROVE BirthInv'
    BY <1>32 DEF RunDies
<1>33. ASSUME NEW p \in Pid, ProcessDies(p) PROVE BirthInv'
    BY <1>33 DEF ProcessDies
<1>34. ASSUME NEW p \in Pid, Reuse(p) PROVE BirthInv'
    <2>1. /\ births' = births + 1
          /\ proc' = [proc EXCEPT ![p] = [kind |-> "other", birth |-> births + 1, cluster |-> None, sig |-> "none"]]
          /\ UNCHANGED <<record, mark>>
        BY <1>34 DEF Reuse, Born, agentVars, fileVars
    <2>2. /\ \A q \in Pid : proc[q].birth \in Nat
          /\ \A r \in Root : record[r].birth \in Nat
          /\ \A b \in Agent : mark[b].birth \in Nat
        OBVIOUS
    <2>3. \A q \in Pid : proc'[q].birth <= births'
        BY <2>1, <2>2
    <2> QED
        BY <2>1, <2>2, <2>3
<1>35. CASE UNCHANGED vars
    BY <1>35 DEF vars
<1> QED
        BY <1>1, <1>2, <1>3, <1>4, <1>5, <1>6, <1>7, <1>8, <1>9, <1>10, <1>11, <1>12, <1>13,
        <1>14, <1>15, <1>16, <1>17, <1>18, <1>19, <1>20, <1>21, <1>22, <1>23, <1>24, <1>25, <1>26,
        <1>27, <1>28, <1>29, <1>30, <1>31, <1>32, <1>33, <1>34, <1>35 DEF Next, Step, AcquireStep,
        ReleaseStep, StopStep

\* When numbers are not reused before the inspection, every mark that still
\* names a process names a postmaster of its own root.
LEMMA OwnStep == ~ReuseWindow /\ TypeOK /\ LockInv /\ BirthInv /\ OwnInv /\ [Next]_vars => OwnInv'
<1> SUFFICES ASSUME ~ReuseWindow, TypeOK, LockInv, BirthInv, OwnInv, [Next]_vars PROVE OwnInv'
    OBVIOUS
<1> USE DEF OwnInv, ServerOf, Is, PidFileOwned, TypeOK, LockInv, Owning, Acquiring, Stopping,
        agentVars, fileVars, procVars, Goto, TakeLock, Leave, Unlock, Mark, NoMark, Process,
        NoProcess, Born, Forget, Signalled
<1>1. ASSUME NEW a \in Agent, Acquire(a) PROVE OwnInv'
    BY <1>1 DEF Acquire
<1>2. ASSUME NEW a \in Agent, AcquireLock(a) PROVE OwnInv'
    BY <1>2 DEF AcquireLock
<1>3. ASSUME NEW a \in Agent, AcquireCancelled(a) PROVE OwnInv'
    BY <1>3 DEF AcquireCancelled
<1>4. ASSUME NEW a \in Agent, PruneHolders(a) PROVE OwnInv'
    <2>1. PICK lost, kept : PruneTo(a, lost, kept)
        BY <1>4 DEF PruneHolders
    <2>2. pc[a] = "prune" /\ UNCHANGED <<record, pidfile, procVars>>
        BY <1>4, <2>1 DEF PruneHolders, PruneTo
    <2>3. CASE mark' = mark /\ (Goto(a, "attach") \/ Goto(a, "stop"))
        BY <2>2, <2>3
    <2>4. CASE Leave(a, FALSE)
        BY <2>2, <2>4
    <2> QED
        BY <2>1, <2>3, <2>4 DEF PruneTo
<1>5. ASSUME NEW a \in Agent, PruneFails(a) PROVE OwnInv'
    BY <1>5 DEF PruneFails
<1>6. ASSUME NEW a \in Agent, AttachRunning(a) PROVE OwnInv'
    <2>1. target[a] = RootOf[a]
        BY <1>6 DEF AttachRunning
    <2>2. /\ mark' = [mark EXCEPT ![a] = record[RootOf[a]]] /\ pc' = [pc EXCEPT ![a] = "handout"]
          /\ UNCHANGED <<proc, record, pidfile>>
        BY <1>6, <2>1 DEF AttachRunning
    <2>3. \A b \in Agent : Is(mark[b])' => ServerOf(mark[b].pid, RootOf[b])'
        BY <2>2
    <2> QED
        BY <2>2, <2>3
<1>7. ASSUME NEW a \in Agent, AttachClear(a) PROVE OwnInv'
    BY <1>7 DEF AttachClear
<1>8. ASSUME NEW a \in Agent, AttachRefuse(a) PROVE OwnInv'
    BY <1>8 DEF AttachRefuse
<1>9. ASSUME NEW a \in Agent, RecordPostmaster(a) PROVE OwnInv'
    <2> DEFINE r == RootOf[a]
               m == [pid |-> pidfile[r], birth |-> proc[pidfile[r]].birth]
    <2>1. target[a] = r
        BY <1>9 DEF RecordPostmaster
    <2>2. /\ record' = [record EXCEPT ![r] = m] /\ mark' = [mark EXCEPT ![a] = m]
          /\ pc' = [pc EXCEPT ![a] = "handout"] /\ UNCHANGED <<proc, pidfile>>
        BY <1>9, <2>1 DEF RecordPostmaster
    <2>3. ServerOf(pidfile[r], r)
        BY <1>9, <2>1 DEF RecordPostmaster
    <2>4. m.pid = pidfile[r]
        OBVIOUS
    <2> HIDE DEF m
    <2>5. \A s \in Root : Is(record[s])' => ServerOf(record[s].pid, s)'
        BY <2>2, <2>3, <2>4
    <2>6. \A b \in Agent : Is(mark[b])' => ServerOf(mark[b].pid, RootOf[b])'
        BY <2>2, <2>3, <2>4
    <2> QED
        BY <2>2, <2>5, <2>6
<1>10. ASSUME NEW a \in Agent, HandOut(a) PROVE OwnInv'
    BY <1>10 DEF HandOut
<1>11. ASSUME NEW a \in Agent, Register(a) PROVE OwnInv'
    BY <1>11 DEF Register
<1>12. ASSUME NEW a \in Agent, AcquireFails(a) PROVE OwnInv'
    BY <1>12 DEF AcquireFails
<1>13. ASSUME NEW a \in Agent, AcquireUnwind(a) PROVE OwnInv'
    <2>1. UNCHANGED <<proc, record, pidfile>>
        BY <1>13 DEF AcquireUnwind
    <2>2. \A b \in Agent : mark'[b] \in {mark[b], NoMark} /\ (pc'[b] = "launched" => pc[b] = "launched")
        <3>1. CASE Leave(a, TRUE)
            BY <3>1
        <3>2. CASE Goto(a, "stop") /\ UNCHANGED mark
            BY <3>2
        <3> QED
            BY <1>13, <3>1, <3>2 DEF AcquireUnwind
    <2> QED
        BY <2>1, <2>2
<1>14. ASSUME NEW a \in Agent, Release(a) PROVE OwnInv'
    BY <1>14 DEF Release
<1>15. ASSUME NEW a \in Agent, ReleaseLock(a) PROVE OwnInv'
    BY <1>15 DEF ReleaseLock
<1>16. ASSUME NEW a \in Agent, ReleaseCancelled(a) PROVE OwnInv'
    BY <1>16 DEF ReleaseCancelled
<1>17. ASSUME NEW a \in Agent, RemoveHolder(a) PROVE OwnInv'
    BY <1>17 DEF RemoveHolder
<1>18. ASSUME NEW a \in Agent, RemoveHolderFails(a) PROVE OwnInv'
    BY <1>18 DEF RemoveHolderFails
<1>19. ASSUME NEW a \in Agent, StopConfirmed(a) PROVE OwnInv'
    BY <1>19 DEF StopConfirmed
<1>20. ASSUME NEW a \in Agent, StopDisowned(a) PROVE OwnInv'
    BY <1>20 DEF StopDisowned
<1>21. ASSUME NEW a \in Agent, SignalPostmaster(a) PROVE OwnInv'
    BY <1>21 DEF SignalPostmaster
<1>22. ASSUME NEW a \in Agent, SignalFails(a) PROVE OwnInv'
    BY <1>22 DEF SignalFails
<1>23. ASSUME NEW a \in Agent, WaitGone(a) PROVE OwnInv'
    BY <1>23 DEF WaitGone
<1>24. ASSUME NEW a \in Agent, WaitTimeout(a) PROVE OwnInv'
    BY <1>24 DEF WaitTimeout
<1>25. ASSUME NEW a \in Agent, StopTimeout(a) PROVE OwnInv'
    BY <1>25 DEF StopTimeout
<1>26. ASSUME NEW a \in Agent, ForgetRecord(a) PROVE OwnInv'
    BY <1>26 DEF ForgetRecord
<1>27. ASSUME NEW a \in Agent, UnlinkPidFile(a) PROVE OwnInv'
    BY <1>27 DEF UnlinkPidFile
<1>28. ASSUME NEW a \in Agent, AgentDies(a) PROVE OwnInv'
    BY <1>28 DEF AgentDies
<1>29. ASSUME NEW a \in Agent, NEW r \in Root, CollectLock(a, r) PROVE OwnInv'
    BY <1>29 DEF CollectLock
<1>30. ASSUME NEW a \in Agent, NEW r \in Root, CollectSkip(a, r) PROVE OwnInv'
    BY <1>30 DEF CollectSkip
<1>31. ASSUME NEW a \in Agent, NEW p \in Pid, Launch(a, p) PROVE OwnInv'
    <2> DEFINE r == RootOf[a]
               new == [kind |-> "postgres", birth |-> births + 1, cluster |-> r, sig |-> "none"]
    <2>1. target[a] = r
        BY <1>31 DEF Launch
    <2>2. /\ proc' = [proc EXCEPT ![p] = new] /\ pidfile' = [pidfile EXCEPT ![r] = p]
          /\ pc' = [pc EXCEPT ![a] = "launched"] /\ UNCHANGED <<record, mark>>
          /\ \A b \in Agent : pc[b] = "launched" => pidfile[RootOf[b]] # p
        BY <1>31, <2>1 DEF Launch, Settled
    <2>3. \A m \in Mark \cup {NoMark} : m.birth <= births => m.birth # births + 1
        BY DEF Mark, NoMark
    <2>4. new.kind = "postgres" /\ new.cluster = r /\ new.sig = "none" /\ new.birth = births + 1
        OBVIOUS
    <2> HIDE DEF new
    <2>5. \A q \in Pid : proc'[q].sig # "none" => proc'[q].kind = "postgres"
        BY <2>2, <2>4
    <2>6. \A m \in Mark \cup {NoMark}, s \in Root :
            m.birth <= births /\ (Is(m) => ServerOf(m.pid, s)) => (Is(m)' => ServerOf(m.pid, s)')
        BY <2>2, <2>3, <2>4
    <2>7. \A s \in Root : Is(record[s])' => ServerOf(record[s].pid, s)'
        BY <2>2, <2>6 DEF BirthInv
    <2>8. ASSUME NEW b \in Agent, Is(mark[b])' PROVE ServerOf(mark[b].pid, RootOf[b])'
        <3>1. /\ mark'[b] = mark[b] /\ mark[b] \in Mark \cup {NoMark} /\ RootOf[b] \in Root
              /\ mark[b].birth <= births /\ (Is(mark[b]) => ServerOf(mark[b].pid, RootOf[b]))
            BY <2>2 DEF BirthInv
        <3> QED
            BY <2>6, <2>8, <3>1
    <2>9. ASSUME NEW b \in Agent, pc'[b] = "launched", PidFileOwned(RootOf[b])'
          PROVE  ServerOf(pidfile[RootOf[b]], RootOf[b])'
        <3>1. CASE RootOf[b] = r
            BY <2>2, <2>4, <3>1
        <3>2. CASE RootOf[b] # r
            BY <2>2, <2>9, <3>2
        <3> QED
            BY <3>1, <3>2
    <2> QED
        BY <2>5, <2>7, <2>8, <2>9
<1>32. ASSUME NEW u \in Run, RunDies(u) PROVE OwnInv'
    BY <1>32 DEF RunDies
<1>33. ASSUME NEW p \in Pid, ProcessDies(p) PROVE OwnInv'
    <2>1. /\ proc' = [proc EXCEPT ![p] = NoProcess]
          /\ UNCHANGED <<pc, record, mark>>
          /\ UNCHANGED pidfile \/ pidfile' = [pidfile EXCEPT ![proc[p].cluster] = None]
        BY <1>33 DEF ProcessDies
    <2>2. \A m \in Mark \cup {NoMark} : Is(m)' => Is(m) /\ m.pid # p
        BY <2>1
    <2>3. \A s \in Root : Is(record[s])' => ServerOf(record[s].pid, s)'
        BY <2>1, <2>2
    <2>4. ASSUME NEW b \in Agent, Is(mark[b])' PROVE ServerOf(mark[b].pid, RootOf[b])'
        <3>1. /\ mark'[b] = mark[b] /\ mark[b] \in Mark \cup {NoMark}
              /\ Is(mark[b]) => ServerOf(mark[b].pid, RootOf[b])
            BY <2>1
        <3>2. Is(mark[b]) /\ mark[b].pid # p
            BY <2>2, <2>4, <3>1
        <3> QED
            BY <2>1, <3>1, <3>2
    <2>5. \A s \in Root : pidfile'[s] \in {pidfile[s], None}
        BY <2>1
    <2>6. ASSUME NEW b \in Agent, pc'[b] = "launched", PidFileOwned(RootOf[b])'
          PROVE  ServerOf(pidfile[RootOf[b]], RootOf[b])'
        <3>1. pidfile'[RootOf[b]] = pidfile[RootOf[b]] /\ pidfile[RootOf[b]] \in Pid
            BY <2>5, <2>6
        <3>2. pidfile[RootOf[b]] # p
            BY <2>1, <2>6, <3>1
        <3> QED
            BY <2>1, <2>6, <3>1, <3>2
    <2>7. \A q \in Pid : proc'[q].sig # "none" => proc'[q].kind = "postgres"
        BY <2>1
    <2> QED
        BY <2>3, <2>4, <2>6, <2>7
<1>34. ASSUME NEW p \in Pid, Reuse(p) PROVE OwnInv'
    BY <1>34 DEF Reuse, BirthInv, Settled
<1>35. CASE UNCHANGED vars
    BY <1>35 DEF vars
<1> QED
        BY <1>1, <1>2, <1>3, <1>4, <1>5, <1>6, <1>7, <1>8, <1>9, <1>10, <1>11, <1>12, <1>13,
        <1>14, <1>15, <1>16, <1>17, <1>18, <1>19, <1>20, <1>21, <1>22, <1>23, <1>24, <1>25, <1>26,
        <1>27, <1>28, <1>29, <1>30, <1>31, <1>32, <1>33, <1>34, <1>35 DEF Next, Step, AcquireStep,
        ReleaseStep, StopStep

\* With inspections that answer, no step removes the lock file of a live
\* postmaster, and what stopServer waits for is the only postmaster of its
\* root.
LEMMA FileStep == ~InspectMayFail /\ ~ReuseWindow /\ TypeOK /\ LockInv /\ BirthInv /\ OwnInv /\
        StopInv /\ LockFileKept /\ [Next]_vars => (StopInv /\ LockFileKept)'
<1> SUFFICES ASSUME ~InspectMayFail, ~ReuseWindow, TypeOK, LockInv, BirthInv, OwnInv, StopInv,
        LockFileKept, [Next]_vars PROVE (StopInv /\ LockFileKept)'
    OBVIOUS
<1> USE DEF StopInv, LockFileKept, ServerOf, Is, TypeOK, LockInv, Owning, Acquiring, Stopping,
        agentVars, fileVars, procVars, Goto, TakeLock, Leave, Unlock, Mark, NoMark, Process,
        NoProcess, Born, Forget, Signalled
<1>1. ASSUME NEW a \in Agent, Acquire(a) PROVE (StopInv /\ LockFileKept)'
    BY <1>1 DEF Acquire
<1>2. ASSUME NEW a \in Agent, AcquireLock(a) PROVE (StopInv /\ LockFileKept)'
    BY <1>2 DEF AcquireLock
<1>3. ASSUME NEW a \in Agent, AcquireCancelled(a) PROVE (StopInv /\ LockFileKept)'
    BY <1>3 DEF AcquireCancelled
<1>4. ASSUME NEW a \in Agent, PruneHolders(a) PROVE (StopInv /\ LockFileKept)'
    BY <1>4 DEF PruneHolders, PruneTo
<1>5. ASSUME NEW a \in Agent, PruneFails(a) PROVE (StopInv /\ LockFileKept)'
    BY <1>5 DEF PruneFails
<1>6. ASSUME NEW a \in Agent, AttachRunning(a) PROVE (StopInv /\ LockFileKept)'
    BY <1>6 DEF AttachRunning
<1>7. ASSUME NEW a \in Agent, AttachClear(a) PROVE (StopInv /\ LockFileKept)'
    <2> DEFINE r == target[a]
    <2>1. /\ pc' = [pc EXCEPT ![a] = "start"] /\ UNCHANGED <<record, target, lock, proc>>
          /\ pidfile' = [pidfile EXCEPT ![r] = None] /\ r \in Root
        BY <1>7 DEF AttachClear
    <2>2. \A q \in Pid : ~ServerOf(q, r)
        BY <1>7 DEF AttachClear, PidFileOwned
    <2>3. LockFileKept'
        BY <2>1, <2>2
    <2>4. StopInv'
        BY <2>1
    <2> QED
        BY <2>3, <2>4
<1>8. ASSUME NEW a \in Agent, AttachRefuse(a) PROVE (StopInv /\ LockFileKept)'
    BY <1>8 DEF AttachRefuse
<1>9. ASSUME NEW a \in Agent, RecordPostmaster(a) PROVE (StopInv /\ LockFileKept)'
    BY <1>9 DEF RecordPostmaster
<1>10. ASSUME NEW a \in Agent, HandOut(a) PROVE (StopInv /\ LockFileKept)'
    BY <1>10 DEF HandOut
<1>11. ASSUME NEW a \in Agent, Register(a) PROVE (StopInv /\ LockFileKept)'
    BY <1>11 DEF Register
<1>12. ASSUME NEW a \in Agent, AcquireFails(a) PROVE (StopInv /\ LockFileKept)'
    BY <1>12 DEF AcquireFails
<1>13. ASSUME NEW a \in Agent, AcquireUnwind(a) PROVE (StopInv /\ LockFileKept)'
    BY <1>13 DEF AcquireUnwind
<1>14. ASSUME NEW a \in Agent, Release(a) PROVE (StopInv /\ LockFileKept)'
    BY <1>14 DEF Release
<1>15. ASSUME NEW a \in Agent, ReleaseLock(a) PROVE (StopInv /\ LockFileKept)'
    BY <1>15 DEF ReleaseLock
<1>16. ASSUME NEW a \in Agent, ReleaseCancelled(a) PROVE (StopInv /\ LockFileKept)'
    BY <1>16 DEF ReleaseCancelled
<1>17. ASSUME NEW a \in Agent, RemoveHolder(a) PROVE (StopInv /\ LockFileKept)'
    BY <1>17 DEF RemoveHolder
<1>18. ASSUME NEW a \in Agent, RemoveHolderFails(a) PROVE (StopInv /\ LockFileKept)'
    BY <1>18 DEF RemoveHolderFails
<1>19. ASSUME NEW a \in Agent, StopConfirmed(a) PROVE (StopInv /\ LockFileKept)'
    <2>1. /\ pc' = [pc EXCEPT ![a] = "signal"] /\ UNCHANGED <<record, target, lock, proc, pidfile>>
          /\ Is(record[target[a]]) /\ target[a] \in Root
        BY <1>19 DEF StopConfirmed, ConfirmedAnswers
    <2>2. ASSUME NEW q \in Pid, ServerOf(q, target[a])
          PROVE  record[target[a]].pid = q
        <3>1. ServerOf(record[target[a]].pid, target[a]) /\ record[target[a]] \in Mark
            BY <2>1 DEF OwnInv
        <3>2. record[target[a]].pid = q
            BY <2>2, <3>1
        <3> QED
            BY <2>1, <3>1, <3>2
    <2> QED
        BY <2>1, <2>2
<1>20. ASSUME NEW a \in Agent, StopDisowned(a) PROVE (StopInv /\ LockFileKept)'
    <2> DEFINE r == target[a]
    <2>1. /\ record' = [record EXCEPT ![r] = NoMark] /\ UNCHANGED <<proc, pidfile>>
          /\ lock[r] = a /\ r \in Root /\ Leave(a, FALSE) /\ pc[a] \in {"stop", "signal"}
        BY <1>20 DEF StopDisowned
    <2>2. LockFileKept'
        BY <2>1
    <2>3. pc'[a] \in {"collect", "idle"}
        BY <2>1
    <2>4. ASSUME NEW b \in Agent, b # a PROVE pc'[b] = pc[b] /\ target'[b] = target[b]
        BY <2>1, <2>4
    <2>5. ASSUME NEW b \in Agent, b # a, pc[b] \in Stopping PROVE target[b] # r
        BY <2>1, <2>5
    <2>6. StopInv'
        BY <2>1, <2>3, <2>4, <2>5
    <2> QED
        BY <2>2, <2>6
<1>21. ASSUME NEW a \in Agent, SignalPostmaster(a) PROVE (StopInv /\ LockFileKept)'
    BY <1>21 DEF SignalPostmaster
<1>22. ASSUME NEW a \in Agent, SignalFails(a) PROVE (StopInv /\ LockFileKept)'
    BY <1>22 DEF SignalFails
<1>23. ASSUME NEW a \in Agent, WaitGone(a) PROVE (StopInv /\ LockFileKept)'
    <2>1. /\ pc' = [pc EXCEPT ![a] = "forget"] /\ UNCHANGED <<record, target, lock, proc, pidfile>>
          /\ ~Is(record[target[a]]) /\ target[a] \in Root /\ pc[a] \in {"wait", "waitQuit"}
        BY <1>23 DEF WaitGone, ConfirmedAnswers
    <2>2. \A q \in Pid : ~ServerOf(q, target[a])
        BY <2>1
    <2> QED
        BY <2>1, <2>2
<1>24. ASSUME NEW a \in Agent, WaitTimeout(a) PROVE (StopInv /\ LockFileKept)'
    BY <1>24 DEF WaitTimeout
<1>25. ASSUME NEW a \in Agent, StopTimeout(a) PROVE (StopInv /\ LockFileKept)'
    BY <1>25 DEF StopTimeout
<1>26. ASSUME NEW a \in Agent, ForgetRecord(a) PROVE (StopInv /\ LockFileKept)'
    BY <1>26 DEF ForgetRecord
<1>27. ASSUME NEW a \in Agent, UnlinkPidFile(a) PROVE (StopInv /\ LockFileKept)'
    <2> DEFINE r == target[a]
    <2>1. /\ pidfile' = [pidfile EXCEPT ![r] = None] /\ UNCHANGED <<proc, record>>
          /\ r \in Root /\ Leave(a, FALSE) /\ pc[a] = "unlink"
        BY <1>27 DEF UnlinkPidFile
    <2>2. \A q \in Pid : ~ServerOf(q, r)
        BY <2>1
    <2>3. LockFileKept'
        BY <2>1, <2>2
    <2>4. pc'[a] \in {"collect", "idle"}
        BY <2>1
    <2>5. ASSUME NEW b \in Agent, b # a PROVE pc'[b] = pc[b] /\ target'[b] = target[b]
        BY <2>1, <2>5
    <2>6. StopInv'
        BY <2>1, <2>4, <2>5
    <2> QED
        BY <2>3, <2>6
<1>28. ASSUME NEW a \in Agent, AgentDies(a) PROVE (StopInv /\ LockFileKept)'
    BY <1>28 DEF AgentDies
<1>29. ASSUME NEW a \in Agent, NEW r \in Root, CollectLock(a, r) PROVE (StopInv /\ LockFileKept)'
    BY <1>29 DEF CollectLock
<1>30. ASSUME NEW a \in Agent, NEW r \in Root, CollectSkip(a, r) PROVE (StopInv /\ LockFileKept)'
    BY <1>30 DEF CollectSkip
<1>31. ASSUME NEW a \in Agent, NEW p \in Pid, Launch(a, p) PROVE (StopInv /\ LockFileKept)'
    <2> DEFINE r == target[a]
               new == [kind |-> "postgres", birth |-> births + 1, cluster |-> r, sig |-> "none"]
    <2>1. /\ proc' = [proc EXCEPT ![p] = new] /\ pidfile' = [pidfile EXCEPT ![r] = p]
          /\ pc' = [pc EXCEPT ![a] = "launched"] /\ UNCHANGED <<record, target, lock>>
          /\ lock[r] = a /\ pc[a] = "start" /\ r \in Root
        BY <1>31 DEF Launch
    <2>2. \A q \in Pid : ~ServerOf(q, r)
        BY <1>31 DEF Launch, PidFileOwned
    <2>3. new.kind = "postgres" /\ new.cluster = r
        OBVIOUS
    <2> HIDE DEF new
    <2>4. LockFileKept'
        BY <2>1, <2>2, <2>3
    <2>5. ASSUME NEW b \in Agent, NEW q \in Pid, ServerOf(q, target[b])',
                 pc'[b] \in {"signal", "wait", "waitQuit", "forget", "unlink"}
          PROVE  q # p /\ ServerOf(q, target[b]) /\ pc'[b] = pc[b]
        <3>1. b # a /\ pc'[b] = pc[b] /\ target'[b] = target[b]
            BY <2>1, <2>5
        <3>2. target[b] # r
            BY <2>1, <2>5, <3>1
        <3> QED
            BY <2>1, <2>3, <2>5, <3>1, <3>2
    <2>6. StopInv'
        BY <2>1, <2>5
    <2> QED
        BY <2>4, <2>6
<1>32. ASSUME NEW u \in Run, RunDies(u) PROVE (StopInv /\ LockFileKept)'
    BY <1>32 DEF RunDies
<1>33. ASSUME NEW p \in Pid, ProcessDies(p) PROVE (StopInv /\ LockFileKept)'
    BY <1>33 DEF ProcessDies
<1>34. ASSUME NEW p \in Pid, Reuse(p) PROVE (StopInv /\ LockFileKept)'
    BY <1>34 DEF Reuse
<1>35. CASE UNCHANGED vars
    BY <1>35 DEF vars
<1> QED
        BY <1>1, <1>2, <1>3, <1>4, <1>5, <1>6, <1>7, <1>8, <1>9, <1>10, <1>11, <1>12, <1>13,
        <1>14, <1>15, <1>16, <1>17, <1>18, <1>19, <1>20, <1>21, <1>22, <1>23, <1>24, <1>25, <1>26,
        <1>27, <1>28, <1>29, <1>30, <1>31, <1>32, <1>33, <1>34, <1>35 DEF Next, Step, AcquireStep,
        ReleaseStep, StopStep

\* When no two agents of a root serve one service, a call that found no live
\* holder still finds none, so what it signals nobody holds.
LEMMA HolderStep == ~ReuseWindow /\ DistinctServices /\ TypeOK /\ LockInv /\ BirthInv /\ OwnInv /\
        HolderInv /\ HeldServerNotStopped /\ [Next]_vars => (HolderInv /\ HeldServerNotStopped)'
<1> SUFFICES ASSUME ~ReuseWindow, DistinctServices, TypeOK, LockInv, BirthInv, OwnInv, HolderInv,
        HeldServerNotStopped, [Next]_vars PROVE (HolderInv /\ HeldServerNotStopped)'
    OBVIOUS
<1> USE DEF HolderInv, HeldServerNotStopped, HolderAlive, AgentUp, ServerOf, Is, TypeOK, LockInv,
        Owning, Acquiring, Stopping, agentVars, fileVars, procVars, Goto, TakeLock, Leave, Unlock,
        Mark, NoMark, Holder, NoHolder, Process, NoProcess, Forget, Signalled
<1>1. ASSUME NEW a \in Agent, Acquire(a) PROVE (HolderInv /\ HeldServerNotStopped)'
    BY <1>1 DEF Acquire
<1>2. ASSUME NEW a \in Agent, AcquireLock(a) PROVE (HolderInv /\ HeldServerNotStopped)'
    BY <1>2 DEF AcquireLock
<1>3. ASSUME NEW a \in Agent, AcquireCancelled(a) PROVE (HolderInv /\ HeldServerNotStopped)'
    BY <1>3 DEF AcquireCancelled
<1>4. ASSUME NEW a \in Agent, PruneHolders(a) PROVE (HolderInv /\ HeldServerNotStopped)'
    <2> DEFINE r == target[a]
    <2>0. PICK lost \in SUBSET LiveHolders(r) : \E kept \in Kept(r, lost) : PruneTo(a, lost, kept)
        BY <1>4 DEF PruneHolders
    <2>16. PICK kept \in Kept(r, lost) : PruneTo(a, lost, kept)
        BY <2>0
    <2>1. /\ unread' = unread \cup {holders[r][s].agent : s \in lost}
          /\ holders' = [holders EXCEPT ![r] =
                           [s \in Service |-> IF s \in kept THEN holders[r][s] ELSE NoHolder]]
          /\ \/ /\ mode[a] = "attach"
                /\ noLive' = [noLive EXCEPT ![a] = (kept = {})]
                /\ Goto(a, "attach")
                /\ UNCHANGED <<mode, target, todo, mark, hasHolder, lock>>
             \/ /\ mode[a] # "attach" /\ kept = {}
                /\ Goto(a, "stop")
                /\ UNCHANGED <<mode, target, todo, noLive, mark, hasHolder, lock>>
             \/ /\ mode[a] # "attach" /\ kept # {}
                /\ Leave(a, FALSE)
        BY <2>16 DEF PruneTo
    <2>2. pc[a] = "prune" /\ UNCHANGED <<runUp, proc>> /\ ~hasHolder[a] /\ ~noLive[a] /\ r \in Root
        <3>1. pc[a] = "prune" /\ UNCHANGED <<runUp, proc>>
            BY <1>4, <2>16 DEF PruneHolders, PruneTo
        <3>2. ~hasHolder[a]
            BY <3>1
        <3>3. ~noLive[a]
            BY <3>1
        <3> QED
            BY <3>1, <3>2, <3>3
    <2>3. UNCHANGED hasHolder
        BY <2>1
    <2>4. /\ pc'[a] \in {"attach", "stop", "collect", "idle"}
          /\ pc'[a] = "stop" => kept = {}
        <3>1. CASE Goto(a, "attach")
            BY <3>1
        <3>2. CASE kept = {} /\ Goto(a, "stop")
            BY <3>2
        <3>3. CASE Leave(a, FALSE) /\ mode[a] # "release"
            BY <3>3
        <3>4. CASE Leave(a, FALSE) /\ mode[a] = "release"
            BY <3>4
        <3> QED
            BY <2>1, <3>1, <3>2, <3>3, <3>4
    <2>5. ASSUME NEW b \in Agent, b # a
          PROVE  pc'[b] = pc[b] /\ target'[b] = target[b] /\ noLive'[b] = noLive[b] /\ mark'[b] = mark[b]
        BY <2>1, <2>5
    <2>6. ASSUME noLive'[a] PROVE kept = {} /\ pc'[a] = "attach" /\ target'[a] = r
        <3>1. CASE noLive' = [noLive EXCEPT ![a] = (kept = {})] /\ Goto(a, "attach") /\ UNCHANGED target
            BY <2>6, <3>1
        <3>2. CASE UNCHANGED noLive
            BY <2>2, <2>6, <3>2
        <3>3. CASE Leave(a, FALSE)
            BY <2>6, <3>3
        <3> QED
            BY <2>1, <3>1, <3>2, <3>3
    <2>7. pc'[a] = "stop" => target'[a] = r
        BY <2>1, <2>2
    <2>8. \A h \in Holder \cup {NoHolder} : HolderAlive(h)' = HolderAlive(h)
        BY <2>2, <2>4, <2>5
    <2>9. /\ \A q \in Root, t \in Service : q # r => holders'[q][t] = holders[q][t]
          /\ \A t \in Service : holders'[r][t] = IF t \in kept THEN holders[r][t] ELSE NoHolder
        BY <2>1
    <2>10. \A t \in Service : HolderAlive(holders[r][t]) => t \in kept \/ holders[r][t].agent \in unread'
        BY <2>1 DEF Kept, LiveHolders
    <2>11. \A q \in Root, t \in Service :
            /\ HolderAlive(holders[q][t]) =>
                    holders'[q][t] = holders[q][t] \/ holders[q][t].agent \in unread'
            /\ HolderAlive(holders[q][t])' => HolderAlive(holders[q][t])
        BY <2>8, <2>9, <2>10
    <2>12. ASSUME NEW b \in Agent, hasHolder'[b], b \notin unread', RunOf[b] \in runUp'
           PROVE  LET h == holders'[RootOf[b]][ServiceOf[b]] IN h.agent = b /\ h.run \in {None, RunOf[b]}
        <3>1. hasHolder[b] /\ b \notin unread /\ RunOf[b] \in runUp
            BY <2>1, <2>2, <2>3, <2>12
        <3>2. pc[b] # "dead" /\ holders[RootOf[b]][ServiceOf[b]].agent = b
              /\ holders[RootOf[b]][ServiceOf[b]].run \in {None, RunOf[b]}
            BY <3>1
        <3>3. HolderAlive(holders[RootOf[b]][ServiceOf[b]])
            BY <3>1, <3>2
        <3> QED
            BY <2>11, <2>12, <3>2, <3>3
    <2>13. ASSUME NEW b \in Agent, noLive'[b] \/ pc'[b] \in Stopping
           PROVE  \A t \in Service : ~HolderAlive(holders[target[b]][t])'
        <3>1. CASE b = a
            <4>1. kept = {} /\ target'[b] = r
                BY <2>4, <2>6, <2>7, <2>13, <3>1
            <4>2. \A t \in Service : holders'[r][t] = NoHolder
                BY <2>9, <4>1
            <4> QED
                BY <2>2, <4>1, <4>2
        <3>2. CASE b # a
            <4>1. (noLive[b] \/ pc[b] \in Stopping) /\ target'[b] = target[b] /\ target[b] \in Root
                BY <2>5, <2>13, <3>2
            <4>2. \A t \in Service : ~HolderAlive(holders[target[b]][t])
                BY <4>1
            <4> QED
                BY <2>11, <4>1, <4>2
        <3> QED
            BY <3>1, <3>2
    <2>14. ASSUME NEW b \in Agent \ unread', hasHolder'[b], AgentUp(b)', RunOf[b] \in runUp', Is(mark[b])'
           PROVE  proc'[mark'[b].pid].sig = "none"
        <3>1. b # a
            BY <2>2, <2>3, <2>14
        <3>2. /\ hasHolder[b] /\ b \notin unread
              /\ AgentUp(b) /\ RunOf[b] \in runUp /\ Is(mark[b]) /\ mark'[b] = mark[b]
            BY <2>1, <2>2, <2>3, <2>5, <2>14, <3>1
        <3> QED
            BY <2>2, <3>2
    <2>15. HolderInv'
        <3>1. \A b \in Agent : hasHolder'[b] => pc'[b] \in {"held", "unlockedRelease", "unhold"}
            BY <2>2, <2>3, <2>5
        <3>2. ASSUME NEW b \in Agent, noLive'[b] PROVE pc'[b] \in Acquiring \cup Stopping
            <4>1. CASE b = a
                BY <2>6, <3>2, <4>1
            <4>2. CASE b # a
                BY <2>5, <3>2, <4>2
            <4> QED
                BY <4>1, <4>2
        <3>3. ASSUME NEW b \in Agent, pc'[b] = "register", Is(mark[b])'
              PROVE  proc'[mark'[b].pid].sig = "none"
            <4>1. b # a /\ pc[b] = "register" /\ mark'[b] = mark[b] /\ proc' = proc
                BY <2>2, <2>4, <2>5, <3>3
            <4>2. Is(mark[b])
                BY <3>3, <4>1
            <4> QED
                BY <4>1, <4>2
        <3> HIDE DEF HolderAlive, Is, Acquiring, Stopping, TypeOK, LockInv
        <3> QED
            BY <2>12, <2>13, <3>1, <3>2, <3>3
    <2> QED
        BY <2>14, <2>15
<1>5. ASSUME NEW a \in Agent, PruneFails(a) PROVE (HolderInv /\ HeldServerNotStopped)'
    BY <1>5 DEF PruneFails
<1>6. ASSUME NEW a \in Agent, AttachRunning(a) PROVE (HolderInv /\ HeldServerNotStopped)'
    <2>1. /\ mark' = [mark EXCEPT ![a] = record[target[a]]] /\ pc' = [pc EXCEPT ![a] = "handout"]
          /\ UNCHANGED <<target, noLive, hasHolder, unread, runUp, holders, proc>>
          /\ ~hasHolder[a] /\ pc[a] = "attach"
        BY <1>6 DEF AttachRunning
    <2>2. HeldServerNotStopped'
        BY <2>1
    <2>3. HolderInv'
        BY <2>1
    <2> QED
        BY <2>2, <2>3
<1>7. ASSUME NEW a \in Agent, AttachClear(a) PROVE (HolderInv /\ HeldServerNotStopped)'
    BY <1>7 DEF AttachClear
<1>8. ASSUME NEW a \in Agent, AttachRefuse(a) PROVE (HolderInv /\ HeldServerNotStopped)'
    BY <1>8 DEF AttachRefuse
<1>9. ASSUME NEW a \in Agent, RecordPostmaster(a) PROVE (HolderInv /\ HeldServerNotStopped)'
    <2>1. PICK m : mark' = [mark EXCEPT ![a] = m]
        BY <1>9 DEF RecordPostmaster
    <2>2. /\ pc' = [pc EXCEPT ![a] = "handout"]
          /\ UNCHANGED <<target, noLive, hasHolder, unread, runUp, holders, proc>>
          /\ ~hasHolder[a] /\ pc[a] = "launched"
        BY <1>9 DEF RecordPostmaster
    <2>3. HeldServerNotStopped'
        BY <2>1, <2>2
    <2>4. HolderInv'
        BY <2>1, <2>2
    <2> QED
        BY <2>3, <2>4
<1>10. ASSUME NEW a \in Agent, HandOut(a) PROVE (HolderInv /\ HeldServerNotStopped)'
    BY <1>10 DEF HandOut, Answers
<1>11. ASSUME NEW a \in Agent, Register(a) PROVE (HolderInv /\ HeldServerNotStopped)'
    <2> DEFINE r == RootOf[a]
    <2>0. pc[a] = "register" /\ target[a] = r /\ lock[r] = a /\ r \in Root
        <3>1. pc[a] = "register"
            BY <1>11 DEF Register
        <3>2. mode[a] \in {"attach", "start"} /\ lock[target[a]] = a
            BY <3>1
        <3> QED
            BY <3>1, <3>2
    <2>1. /\ pc' = [pc EXCEPT ![a] = "held"]
          /\ UNCHANGED <<target, mark, runUp, proc>>
          /\ unread' = unread \ {a}
          /\ hasHolder' = [hasHolder EXCEPT ![a] = TRUE]
          /\ noLive' = [noLive EXCEPT ![a] = FALSE]
        BY <1>11 DEF Register
    <2>2. PICK u \in {None, RunOf[a]} :
            holders' = [holders EXCEPT ![r][ServiceOf[a]] = [agent |-> a, run |-> u]]
        <3>1. \E u \in IF RunOf[a] \in runUp
                      THEN {RunOf[a]} \cup (IF InspectMayFail THEN {None} ELSE {})
                      ELSE {None} :
                holders' = [holders EXCEPT ![target[a]][ServiceOf[a]] = [agent |-> a, run |-> u]]
            BY <1>11, Zenon DEF Register
        <3>2. PICK u \in IF RunOf[a] \in runUp
                        THEN {RunOf[a]} \cup (IF InspectMayFail THEN {None} ELSE {})
                        ELSE {None} :
                holders' = [holders EXCEPT ![target[a]][ServiceOf[a]] = [agent |-> a, run |-> u]]
            BY <3>1, Zenon
        <3>3. u \in {None, RunOf[a]}
            BY <3>2
        <3>4. holders' = [holders EXCEPT ![r][ServiceOf[a]] = [agent |-> a, run |-> u]]
            BY <2>0, <3>2
        <3> QED
            BY <3>3, <3>4
    <2>3. hasHolder'[a] /\ \A b \in Agent : b # a => hasHolder'[b] = hasHolder[b]
        BY <2>1
    <2>4. ~noLive'[a] /\ \A b \in Agent : b # a => noLive'[b] = noLive[b]
        BY <2>1
    <2>5. \A h \in Holder \cup {NoHolder} : HolderAlive(h)' = HolderAlive(h)
        BY <2>0, <2>1
    <2>6. \A q \in Root, t \in Service : q # r => holders'[q][t] = holders[q][t]
        BY <2>2
    <2>7. \A t \in Service : t # ServiceOf[a] => holders'[r][t] = holders[r][t]
        BY <2>2
    <2>8. holders'[r][ServiceOf[a]].agent = a /\ holders'[r][ServiceOf[a]].run \in {None, RunOf[a]}
        BY <2>2
    <2>9. ASSUME NEW b \in Agent, b # a
          PROVE  holders'[RootOf[b]][ServiceOf[b]] = holders[RootOf[b]][ServiceOf[b]]
        BY <2>6, <2>7, <2>9 DEF DistinctServices
    <2>10. ASSUME NEW b \in Agent, noLive'[b] \/ pc'[b] \in Stopping
           PROVE  \A t \in Service : ~HolderAlive(holders[target[b]][t])'
        <3>1. b # a /\ pc'[b] = pc[b] /\ (noLive[b] \/ pc[b] \in Stopping)
            BY <2>1, <2>4, <2>10
        <3>2. target[b] # r /\ target'[b] = target[b]
            BY <2>0, <2>1, <3>1
        <3> QED
            BY <2>5, <2>6, <3>1, <3>2
    <2>11. HolderInv'
        BY <2>0, <2>1, <2>3, <2>4, <2>8, <2>9, <2>10
    <2>12. HeldServerNotStopped'
        BY <2>0, <2>1, <2>3
    <2> QED
        BY <2>11, <2>12
<1>12. ASSUME NEW a \in Agent, AcquireFails(a) PROVE (HolderInv /\ HeldServerNotStopped)'
    BY <1>12 DEF AcquireFails
<1>13. ASSUME NEW a \in Agent, AcquireUnwind(a) PROVE (HolderInv /\ HeldServerNotStopped)'
    <2>1. pc[a] = "failed" /\ UNCHANGED <<unread, runUp, holders, proc>>
        BY <1>13 DEF AcquireUnwind
    <2>2. CASE noLive[a] /\ Goto(a, "stop") /\ UNCHANGED <<target, noLive, mark, hasHolder>>
        BY <2>1, <2>2
    <2>3. CASE Leave(a, TRUE)
        BY <2>1, <2>3
    <2> QED
        BY <1>13, <2>2, <2>3 DEF AcquireUnwind
<1>14. ASSUME NEW a \in Agent, Release(a) PROVE (HolderInv /\ HeldServerNotStopped)'
    BY <1>14 DEF Release
<1>15. ASSUME NEW a \in Agent, ReleaseLock(a) PROVE (HolderInv /\ HeldServerNotStopped)'
    BY <1>15 DEF ReleaseLock
<1>16. ASSUME NEW a \in Agent, ReleaseCancelled(a) PROVE (HolderInv /\ HeldServerNotStopped)'
    BY <1>16 DEF ReleaseCancelled
<1>17. ASSUME NEW a \in Agent, RemoveHolder(a) PROVE (HolderInv /\ HeldServerNotStopped)'
    <2> DEFINE r == RootOf[a]
    <2>1. /\ pc' = [pc EXCEPT ![a] = "prune"] /\ pc[a] = "unhold"
          /\ UNCHANGED <<target, noLive, mark, runUp, proc>>
          /\ unread' = unread \ {a}
          /\ hasHolder' = [hasHolder EXCEPT ![a] = FALSE]
          /\ ~noLive[a]
        BY <1>17 DEF RemoveHolder
    <2>2. ~hasHolder'[a] /\ \A b \in Agent : b # a => hasHolder'[b] = hasHolder[b]
        BY <2>1
    <2>3. \A q \in Root, t \in Service :
            holders'[q][t] = holders[q][t] \/ (q = r /\ t = ServiceOf[a] /\ holders'[q][t] = NoHolder)
        BY <1>17 DEF RemoveHolder
    <2>4. \A h \in Holder \cup {NoHolder} : HolderAlive(h)' = HolderAlive(h)
        BY <2>1
    <2>5. ASSUME NEW q \in Root, NEW t \in Service, HolderAlive(holders[q][t])'
          PROVE  HolderAlive(holders[q][t])
        <3>1. holders'[q][t] # NoHolder
            BY <2>5
        <3>2. holders'[q][t] = holders[q][t] /\ holders[q][t] \in Holder \cup {NoHolder}
            BY <2>3, <3>1
        <3> QED
            BY <2>1, <2>5, <3>2
    <2>6. HeldServerNotStopped'
        BY <2>1, <2>2
    <2>7. ASSUME NEW b \in Agent, hasHolder'[b]
          PROVE  b # a /\ hasHolder[b] /\ holders'[RootOf[b]][ServiceOf[b]] = holders[RootOf[b]][ServiceOf[b]]
        <3>1. b # a /\ hasHolder[b]
            BY <2>2, <2>7
        <3>2. RootOf[b] # r \/ ServiceOf[b] # ServiceOf[a]
            BY <3>1 DEF DistinctServices
        <3> QED
            BY <2>3, <3>1, <3>2
    <2>8. ASSUME NEW b \in Agent, noLive'[b] \/ pc'[b] \in Stopping
          PROVE  \A t \in Service : ~HolderAlive(holders[target[b]][t])'
        <3>1. (noLive[b] \/ pc[b] \in Stopping) /\ target'[b] = target[b]
            BY <2>1, <2>8
        <3>2. \A t \in Service : ~HolderAlive(holders[target[b]][t])
            BY <3>1
        <3>3. target[b] \in Root
            OBVIOUS
        <3> HIDE DEF HolderAlive
        <3> QED
            BY <2>5, <3>1, <3>2, <3>3
    <2>9. HolderInv'
        BY <2>1, <2>7, <2>8
    <2> QED
        BY <2>6, <2>9
<1>18. ASSUME NEW a \in Agent, RemoveHolderFails(a) PROVE (HolderInv /\ HeldServerNotStopped)'
    BY <1>18 DEF RemoveHolderFails
<1>19. ASSUME NEW a \in Agent, StopConfirmed(a) PROVE (HolderInv /\ HeldServerNotStopped)'
    BY <1>19 DEF StopConfirmed
<1>20. ASSUME NEW a \in Agent, StopDisowned(a) PROVE (HolderInv /\ HeldServerNotStopped)'
    <2>1. pc[a] \in {"stop", "signal"} /\ UNCHANGED <<unread, runUp, holders, proc>> /\ Leave(a, FALSE)
        BY <1>20 DEF StopDisowned
    <2>2. pc'[a] \in {"collect", "idle"} /\ ~noLive'[a] /\ ~hasHolder'[a]
        <3>1. pc'[a] \in {"collect", "idle"}
            BY <2>1
        <3>2. ~noLive'[a]
            BY <2>1
        <3>3. ~hasHolder[a] /\ UNCHANGED hasHolder
            BY <2>1
        <3> QED
            BY <3>1, <3>2, <3>3
    <2>3. ASSUME NEW b \in Agent, b # a
          PROVE  /\ pc'[b] = pc[b] /\ target'[b] = target[b] /\ noLive'[b] = noLive[b]
                 /\ mark'[b] = mark[b] /\ hasHolder'[b] = hasHolder[b]
        BY <2>1, <2>3
    <2>4. \A h \in Holder \cup {NoHolder} : HolderAlive(h)' = HolderAlive(h)
        BY <2>1, <2>2, <2>3
    <2>5. HeldServerNotStopped'
        BY <2>1, <2>2, <2>3
    <2>6. HolderInv'
        BY <2>1, <2>2, <2>3, <2>4
    <2> QED
        BY <2>5, <2>6
<1>21. ASSUME NEW a \in Agent, SignalPostmaster(a) PROVE (HolderInv /\ HeldServerNotStopped)'
    <2> DEFINE r == target[a]
               m == record[r]
    <2>1. /\ proc' = [proc EXCEPT ![m.pid].sig = "int"] /\ pc' = [pc EXCEPT ![a] = "wait"]
          /\ UNCHANGED <<target, noLive, mark, hasHolder, unread, runUp, holders>>
          /\ Is(m) /\ pc[a] = "signal" /\ r \in Root /\ lock[r] = a
        BY <1>21 DEF SignalPostmaster
    <2>2. ServerOf(m.pid, r) /\ m.pid \in Pid
        BY <2>1 DEF OwnInv
    <2>3. \A p \in Pid : proc'[p].birth = proc[p].birth /\ (p # m.pid => proc'[p] = proc[p])
        BY <2>1
    <2>4. ASSUME NEW b \in Agent, Is(mark[b]), mark[b].pid = m.pid PROVE RootOf[b] = r
        <3>1. ServerOf(mark[b].pid, RootOf[b])
            BY <2>4 DEF OwnInv
        <3> QED
            BY <2>2, <2>4, <3>1
    <2>5. ASSUME NEW b \in Agent \ unread, hasHolder[b], AgentUp(b), RunOf[b] \in runUp PROVE RootOf[b] # r
        <3>1. HolderAlive(holders[RootOf[b]][ServiceOf[b]])
            BY <2>5
        <3>2. \A t \in Service : ~HolderAlive(holders[r][t])
            BY <2>1
        <3> QED
            BY <3>1, <3>2
    <2>6. ASSUME NEW b \in Agent, pc[b] = "register" PROVE RootOf[b] # r
        <3>1. mode[b] \in {"attach", "start"} /\ lock[target[b]] = b
            BY <2>6
        <3>2. target[b] = RootOf[b] /\ b # a
            BY <2>1, <2>6, <3>1
        <3> QED
            BY <2>1, <3>1, <3>2
    <2>7. ASSUME NEW b \in Agent, Is(mark[b]), RootOf[b] # r PROVE proc'[mark[b].pid] = proc[mark[b].pid]
        <3>1. mark[b].pid \in Pid
            BY <2>7
        <3> QED
            BY <2>3, <2>4, <2>7, <3>1
    <2>8. \A b \in Agent : Is(mark[b])' => Is(mark[b])
        BY <2>1, <2>3
    <2>9. ASSUME NEW b \in Agent \ unread', hasHolder'[b], AgentUp(b)', RunOf[b] \in runUp', Is(mark[b])'
          PROVE  proc'[mark'[b].pid].sig = "none"
        <3>1. b \in Agent \ unread /\ hasHolder[b] /\ AgentUp(b) /\ RunOf[b] \in runUp /\ Is(mark[b]) /\ mark'[b] = mark[b]
            BY <2>1, <2>8, <2>9
        <3>2. proc'[mark[b].pid] = proc[mark[b].pid]
            BY <2>5, <2>7, <3>1
        <3> QED
            BY <3>1, <3>2
    <2>10. ASSUME NEW b \in Agent, pc'[b] = "register", Is(mark[b])' PROVE proc'[mark'[b].pid].sig = "none"
        <3>1. pc[b] = "register" /\ Is(mark[b]) /\ mark'[b] = mark[b]
            BY <2>1, <2>8, <2>10
        <3>2. proc'[mark[b].pid] = proc[mark[b].pid]
            BY <2>6, <2>7, <3>1
        <3> QED
            BY <3>1, <3>2
    <2>11. \A b \in Agent : pc'[b] = pc[b] \/ (pc[b] \in Stopping /\ pc'[b] \in Stopping /\ pc'[b] # "register")
        BY <2>1
    <2>12. HolderInv'
        BY <2>1, <2>10, <2>11
    <2> QED
        BY <2>9, <2>12
<1>22. ASSUME NEW a \in Agent, SignalFails(a) PROVE (HolderInv /\ HeldServerNotStopped)'
    BY <1>22 DEF SignalFails
<1>23. ASSUME NEW a \in Agent, WaitGone(a) PROVE (HolderInv /\ HeldServerNotStopped)'
    BY <1>23 DEF WaitGone
<1>24. ASSUME NEW a \in Agent, WaitTimeout(a) PROVE (HolderInv /\ HeldServerNotStopped)'
    <2> DEFINE r == target[a]
               m == record[r]
    <2>1. /\ proc' = [proc EXCEPT ![m.pid].sig = "quit"] /\ pc' = [pc EXCEPT ![a] = "waitQuit"]
          /\ UNCHANGED <<target, noLive, mark, hasHolder, unread, runUp, holders>>
          /\ Is(m) /\ pc[a] = "wait" /\ r \in Root /\ lock[r] = a
        BY <1>24 DEF WaitTimeout
    <2>2. ServerOf(m.pid, r) /\ m.pid \in Pid
        BY <2>1 DEF OwnInv
    <2>3. \A p \in Pid : proc'[p].birth = proc[p].birth /\ (p # m.pid => proc'[p] = proc[p])
        BY <2>1
    <2>4. ASSUME NEW b \in Agent, Is(mark[b]), mark[b].pid = m.pid PROVE RootOf[b] = r
        <3>1. ServerOf(mark[b].pid, RootOf[b])
            BY <2>4 DEF OwnInv
        <3> QED
            BY <2>2, <2>4, <3>1
    <2>5. ASSUME NEW b \in Agent \ unread, hasHolder[b], AgentUp(b), RunOf[b] \in runUp PROVE RootOf[b] # r
        <3>1. HolderAlive(holders[RootOf[b]][ServiceOf[b]])
            BY <2>5
        <3>2. \A t \in Service : ~HolderAlive(holders[r][t])
            BY <2>1
        <3> QED
            BY <3>1, <3>2
    <2>6. ASSUME NEW b \in Agent, pc[b] = "register" PROVE RootOf[b] # r
        <3>1. mode[b] \in {"attach", "start"} /\ lock[target[b]] = b
            BY <2>6
        <3>2. target[b] = RootOf[b] /\ b # a
            BY <2>1, <2>6, <3>1
        <3> QED
            BY <2>1, <3>1, <3>2
    <2>7. ASSUME NEW b \in Agent, Is(mark[b]), RootOf[b] # r PROVE proc'[mark[b].pid] = proc[mark[b].pid]
        <3>1. mark[b].pid \in Pid
            BY <2>7
        <3> QED
            BY <2>3, <2>4, <2>7, <3>1
    <2>8. \A b \in Agent : Is(mark[b])' => Is(mark[b])
        BY <2>1, <2>3
    <2>9. ASSUME NEW b \in Agent \ unread', hasHolder'[b], AgentUp(b)', RunOf[b] \in runUp', Is(mark[b])'
          PROVE  proc'[mark'[b].pid].sig = "none"
        <3>1. b \in Agent \ unread /\ hasHolder[b] /\ AgentUp(b) /\ RunOf[b] \in runUp /\ Is(mark[b]) /\ mark'[b] = mark[b]
            BY <2>1, <2>8, <2>9
        <3>2. proc'[mark[b].pid] = proc[mark[b].pid]
            BY <2>5, <2>7, <3>1
        <3> QED
            BY <3>1, <3>2
    <2>10. ASSUME NEW b \in Agent, pc'[b] = "register", Is(mark[b])' PROVE proc'[mark'[b].pid].sig = "none"
        <3>1. pc[b] = "register" /\ Is(mark[b]) /\ mark'[b] = mark[b]
            BY <2>1, <2>8, <2>10
        <3>2. proc'[mark[b].pid] = proc[mark[b].pid]
            BY <2>6, <2>7, <3>1
        <3> QED
            BY <3>1, <3>2
    <2>11. \A b \in Agent : pc'[b] = pc[b] \/ (pc[b] \in Stopping /\ pc'[b] \in Stopping /\ pc'[b] # "register")
        BY <2>1
    <2>12. HolderInv'
        BY <2>1, <2>10, <2>11
    <2> QED
        BY <2>9, <2>12
<1>25. ASSUME NEW a \in Agent, StopTimeout(a) PROVE (HolderInv /\ HeldServerNotStopped)'
    BY <1>25 DEF StopTimeout
<1>26. ASSUME NEW a \in Agent, ForgetRecord(a) PROVE (HolderInv /\ HeldServerNotStopped)'
    BY <1>26 DEF ForgetRecord
<1>27. ASSUME NEW a \in Agent, UnlinkPidFile(a) PROVE (HolderInv /\ HeldServerNotStopped)'
    BY <1>27 DEF UnlinkPidFile
<1>28. ASSUME NEW a \in Agent, AgentDies(a) PROVE (HolderInv /\ HeldServerNotStopped)'
    BY <1>28 DEF AgentDies
<1>29. ASSUME NEW a \in Agent, NEW r \in Root, CollectLock(a, r) PROVE (HolderInv /\ HeldServerNotStopped)'
    BY <1>29 DEF CollectLock
<1>30. ASSUME NEW a \in Agent, NEW r \in Root, CollectSkip(a, r) PROVE (HolderInv /\ HeldServerNotStopped)'
    BY <1>30 DEF CollectSkip
<1>31. ASSUME NEW a \in Agent, NEW p \in Pid, Launch(a, p) PROVE (HolderInv /\ HeldServerNotStopped)'
    <2>1. /\ proc' = [proc EXCEPT ![p] = proc'[p]] /\ proc'[p].birth = births + 1
          /\ UNCHANGED <<target, noLive, mark, hasHolder, unread, runUp, holders>>
          /\ pc' = [pc EXCEPT ![a] = "launched"] /\ pc[a] = "start"
        BY <1>31 DEF Launch, Born
    <2>2. ASSUME NEW b \in Agent, Is(mark[b])' PROVE Is(mark[b]) /\ proc'[mark[b].pid] = proc[mark[b].pid]
        <3>1. mark'[b] = mark[b] /\ mark[b].birth \in Nat /\ mark[b].birth <= births /\ births \in Nat
            BY <2>1 DEF BirthInv
        <3>2. mark[b].birth # births + 1
            BY <3>1
        <3> QED
            BY <2>1, <2>2, <3>1, <3>2
    <2>3. ASSUME NEW b \in Agent \ unread', hasHolder'[b], AgentUp(b)', RunOf[b] \in runUp', Is(mark[b])'
          PROVE  proc'[mark'[b].pid].sig = "none"
        <3>1. b \in Agent \ unread /\ hasHolder[b] /\ AgentUp(b) /\ RunOf[b] \in runUp /\ mark'[b] = mark[b]
            BY <2>1, <2>3
        <3>2. Is(mark[b]) /\ proc'[mark[b].pid] = proc[mark[b].pid]
            BY <2>2, <2>3
        <3> QED
            BY <3>1, <3>2
    <2>4. HolderInv'
        BY <2>1, <2>2
    <2> QED
        BY <2>3, <2>4
<1>32. ASSUME NEW u \in Run, RunDies(u) PROVE (HolderInv /\ HeldServerNotStopped)'
    BY <1>32 DEF RunDies
<1>33. ASSUME NEW p \in Pid, ProcessDies(p) PROVE (HolderInv /\ HeldServerNotStopped)'
    BY <1>33 DEF ProcessDies
<1>34. ASSUME NEW p \in Pid, Reuse(p) PROVE (HolderInv /\ HeldServerNotStopped)'
    <2>1. /\ proc' = [proc EXCEPT ![p] = proc'[p]] /\ proc'[p].birth = births + 1
          /\ UNCHANGED <<target, noLive, mark, hasHolder, unread, runUp, holders>>
          /\ UNCHANGED pc
        BY <1>34 DEF Reuse, Born
    <2>2. ASSUME NEW b \in Agent, Is(mark[b])' PROVE Is(mark[b]) /\ proc'[mark[b].pid] = proc[mark[b].pid]
        <3>1. mark'[b] = mark[b] /\ mark[b].birth \in Nat /\ mark[b].birth <= births /\ births \in Nat
            BY <2>1 DEF BirthInv
        <3>2. mark[b].birth # births + 1
            BY <3>1
        <3> QED
            BY <2>1, <2>2, <3>1, <3>2
    <2>3. ASSUME NEW b \in Agent \ unread', hasHolder'[b], AgentUp(b)', RunOf[b] \in runUp', Is(mark[b])'
          PROVE  proc'[mark'[b].pid].sig = "none"
        <3>1. b \in Agent \ unread /\ hasHolder[b] /\ AgentUp(b) /\ RunOf[b] \in runUp /\ mark'[b] = mark[b]
            BY <2>1, <2>3
        <3>2. Is(mark[b]) /\ proc'[mark[b].pid] = proc[mark[b].pid]
            BY <2>2, <2>3
        <3> QED
            BY <3>1, <3>2
    <2>4. HolderInv'
        BY <2>1, <2>2
    <2> QED
        BY <2>3, <2>4
<1>35. CASE UNCHANGED vars
    BY <1>35 DEF vars
<1> QED
        BY <1>1, <1>2, <1>3, <1>4, <1>5, <1>6, <1>7, <1>8, <1>9, <1>10, <1>11, <1>12, <1>13,
        <1>14, <1>15, <1>16, <1>17, <1>18, <1>19, <1>20, <1>21, <1>22, <1>23, <1>24, <1>25, <1>26,
        <1>27, <1>28, <1>29, <1>30, <1>31, <1>32, <1>33, <1>34, <1>35 DEF Next, Step, AcquireStep,
        ReleaseStep, StopStep

\* The initial state satisfies every inductive invariant.
LEMMA InitInvs ==
    Init => /\ TypeOK /\ LockInv /\ BirthInv /\ OwnInv /\ StopInv /\ LockFileKept
            /\ HolderInv /\ HeldServerNotStopped
<1> SUFFICES ASSUME Init
             PROVE  /\ TypeOK /\ LockInv /\ BirthInv /\ OwnInv /\ StopInv /\ LockFileKept
                    /\ HolderInv /\ HeldServerNotStopped
    OBVIOUS
<1> USE DEF Init, NoMark, NoHolder, NoProcess
<1>1. TypeOK
    BY DEF TypeOK, AgentPc
<1>2. LockInv /\ BirthInv
    BY DEF LockInv, BirthInv, Owning, Acquiring, Stopping
<1>3. OwnInv /\ StopInv /\ LockFileKept
    BY DEF OwnInv, StopInv, LockFileKept, ServerOf, Is, PidFileOwned
<1>4. HolderInv /\ HeldServerNotStopped
    BY DEF HolderInv, HeldServerNotStopped, HolderAlive, Acquiring, Stopping, Is
<1> QED
    BY <1>1, <1>2, <1>3, <1>4

\* stopServer signals only the postmaster the root's record was written for, for
\* every number of agents and roots and whatever inspections fail, provided no
\* number is reused between pg_ctl's success and the inspection that records it.
THEOREM SignalsOnlyOwn ==
    ASSUME ~ReuseWindow PROVE Spec => []SignalsOnlyOwnPostmaster
<1> DEFINE Inv == TypeOK /\ LockInv /\ BirthInv /\ OwnInv
<1>1. Init => Inv
    BY InitInvs
<1>2. Inv /\ [Next]_vars => Inv'
    BY TypeStep, LockStep, BirthStep, OwnStep
<1>3. Inv => SignalsOnlyOwnPostmaster
    BY DEF OwnInv, SignalsOnlyOwnPostmaster, ServerOf
<1> QED
    BY <1>1, <1>2, <1>3, PTL DEF Spec

\* The lock file of a live postmaster is never removed by clearDisownedPostmasterPid
\* or stopServer, which is what keeps a second one from the data directory, provided
\* inspections answer and no number is reused before the inspection.
THEOREM LockFilesKept ==
    ASSUME ~InspectMayFail, ~ReuseWindow PROVE Spec => []LockFileKept
<1> DEFINE Inv == TypeOK /\ LockInv /\ BirthInv /\ OwnInv /\ StopInv /\ LockFileKept
<1>1. Init => Inv
    BY InitInvs
<1>2. Inv /\ [Next]_vars => Inv'
    BY TypeStep, LockStep, BirthStep, OwnStep, FileStep
<1>3. Inv => LockFileKept
    OBVIOUS
<1> QED
    BY <1>1, <1>2, <1>3, PTL DEF Spec

\* No postmaster is told to stop while an agent whose run lives holds it by a record
\* no pruneHolders failed to read, whatever inspections fail, provided no two agents
\* of a root serve one service and no number is reused before the inspection.
THEOREM LastHolderStops ==
    ASSUME DistinctServices, ~ReuseWindow PROVE Spec => []HeldServerNotStopped
<1> DEFINE Inv == TypeOK /\ LockInv /\ BirthInv /\ OwnInv /\ HolderInv /\ HeldServerNotStopped
<1>1. Init => Inv
    BY InitInvs
<1>2. Inv /\ [Next]_vars => Inv'
    BY TypeStep, LockStep, BirthStep, OwnStep, HolderStep
<1>3. Inv => HeldServerNotStopped
    OBVIOUS
<1> QED
    BY <1>1, <1>2, <1>3, PTL DEF Spec

\* Only three steps touch the holder records.
LEMMA HolderWriters ==
    ASSUME Next
    PROVE  holders' = holders \/ \E a \in Agent : PruneHolders(a) \/ Register(a) \/ RemoveHolder(a)
<1>1. ASSUME NEW a \in Agent, AcquireStep(a) PROVE holders' = holders \/ Register(a)
    BY <1>1 DEF AcquireStep, CollectLock, CollectSkip, AcquireLock, AttachRunning, AttachClear,
        AttachRefuse, Launch, RecordPostmaster, HandOut, AcquireFails, AcquireUnwind, fileVars
<1>2. ASSUME NEW a \in Agent, ReleaseStep(a) PROVE holders' = holders \/ RemoveHolder(a)
    BY <1>2 DEF ReleaseStep, ReleaseLock, RemoveHolderFails
<1>3. ASSUME NEW a \in Agent, StopStep(a) PROVE holders' = holders
    BY <1>3 DEF StopStep, StopConfirmed, StopDisowned, SignalPostmaster, SignalFails, WaitGone,
        WaitTimeout, StopTimeout, ForgetRecord, UnlinkPidFile, fileVars
<1>4. ASSUME NEW a \in Agent, PruneFails(a) \/ Acquire(a) \/ AcquireCancelled(a) \/ Release(a) \/
             ReleaseCancelled(a) \/ AgentDies(a)
      PROVE  holders' = holders
    BY <1>4 DEF PruneFails, Acquire, AcquireCancelled, Release, ReleaseCancelled, AgentDies, fileVars
<1>5. ASSUME \/ \E run \in Run : RunDies(run)
             \/ \E p \in Pid : ProcessDies(p) \/ Reuse(p)
      PROVE  holders' = holders
    BY <1>5 DEF RunDies, ProcessDies, Reuse, fileVars
<1> QED
    BY <1>1, <1>2, <1>3, <1>4, <1>5 DEF Next, Step

\* A call that registers or removes a holder works on its agent's own root.
LEMMA HolderWriterAtHome ==
    ASSUME TypeOK, LockInv, NEW a \in Agent, pc[a] \in {"register", "unhold"}
    PROVE  target[a] = RootOf[a]
BY DEF TypeOK, LockInv, Acquiring

\* Every step keeps OwnRecordInv.
LEMMA OwnRecordStep ==
    TypeOK /\ LockInv /\ OwnRecordInv /\ [Next]_vars => OwnRecordInv'
<1> SUFFICES ASSUME TypeOK, LockInv, OwnRecordInv, [Next]_vars PROVE OwnRecordInv'
    OBVIOUS
<1>1. CASE holders' = holders
    BY <1>1 DEF OwnRecordInv
<1>2. ASSUME NEW a \in Agent, PruneHolders(a) PROVE OwnRecordInv'
    BY <1>2 DEF PruneHolders, PruneTo, OwnRecordInv, TypeOK, NoHolder
<1>3. ASSUME NEW a \in Agent, Register(a) PROVE OwnRecordInv'
    <2>1. target[a] = RootOf[a] /\ RootOf[a] \in Root /\ ServiceOf[a] \in Service
        BY <1>3, HolderWriterAtHome, AgentMapAssumption DEF Register
    <2>2. PICK run : holders' = [holders EXCEPT ![RootOf[a]][ServiceOf[a]] = [agent |-> a, run |-> run]]
        BY <1>3, <2>1 DEF Register
    <2>3. ASSUME NEW r \in Root, NEW s \in Service
          PROVE  holders'[r][s] = holders[r][s] \/
                     (r = RootOf[a] /\ s = ServiceOf[a] /\ holders'[r][s].agent = a)
        BY <2>1, <2>2 DEF TypeOK
    <2> QED
        BY <2>3 DEF OwnRecordInv
<1>4. ASSUME NEW a \in Agent, RemoveHolder(a) PROVE OwnRecordInv'
    <2>1. ASSUME NEW r \in Root, NEW s \in Service
          PROVE  holders'[r][s] = holders[r][s] \/ holders'[r][s] = NoHolder
        BY <1>4 DEF RemoveHolder, TypeOK
    <2> QED
        BY <2>1 DEF OwnRecordInv, NoHolder
<1> QED
    BY <1>1, <1>2, <1>3, <1>4, HolderWriters DEF vars, fileVars

\* A live agent's holder record is removed or replaced by that agent alone, or by a
\* pruneHolders that could not read it, when every service of a root has one agent:
\* no release of another service, and no pruning that read it, drops it, also when
\* inspections fail and numbers are reused (nixpg.go, pruneHolders, register,
\* release).
THEOREM LiveHoldersKept ==
    ASSUME DistinctServices PROVE Spec => LiveHolderKept
<1> DEFINE Inv == TypeOK /\ LockInv /\ OwnRecordInv
<1> DEFINE Lost(r, s) == HolderAlive(holders[r][s]) /\ holders'[r][s] # holders[r][s]
<1> DEFINE KeptStep == \A r \in Root, s \in Service :
               Lost(r, s) =>
                   pc'[holders[r][s].agent] # pc[holders[r][s].agent] \/ holders[r][s].agent \in unread'
<1>1. Init => Inv
    BY InitInvs DEF Init, OwnRecordInv, NoHolder
<1>2. Inv /\ [Next]_vars => Inv'
    BY TypeStep, LockStep, OwnRecordStep
<1>3. Inv /\ [Next]_vars => [KeptStep]_vars
    <2> SUFFICES ASSUME Inv, Next, NEW r \in Root, NEW s \in Service, Lost(r, s)
                 PROVE  \/ pc'[holders[r][s].agent] # pc[holders[r][s].agent]
                        \/ holders[r][s].agent \in unread'
        OBVIOUS
    <2>0. /\ holders[r][s].agent \in Agent
          /\ RootOf[holders[r][s].agent] = r /\ ServiceOf[holders[r][s].agent] = s
        BY DEF HolderAlive, OwnRecordInv, TypeOK, Holder, NoHolder
    <2>1. ASSUME NEW a \in Agent, PruneHolders(a) PROVE holders[r][s].agent \in unread'
        <3>0. PICK lost \in SUBSET LiveHolders(target[a]) :
                  \E kept \in Kept(target[a], lost) : PruneTo(a, lost, kept)
            BY <2>1 DEF PruneHolders
        <3>4. PICK kept \in Kept(target[a], lost) : PruneTo(a, lost, kept)
            BY <3>0
        <3>1. /\ unread' = unread \cup {holders[target[a]][t].agent : t \in lost}
              /\ holders' = [holders EXCEPT ![target[a]] =
                     [t \in Service |-> IF t \in kept THEN holders[target[a]][t] ELSE NoHolder]]
            BY <3>4 DEF PruneTo
        <3>2. r = target[a] /\ s \notin kept
            BY <3>1 DEF TypeOK
        <3>3. s \in lost
            BY <3>1, <3>2 DEF Kept, LiveHolders
        <3> QED
            BY <3>1, <3>2, <3>3
    <2>2. ASSUME NEW a \in Agent, Register(a) \/ RemoveHolder(a)
          PROVE  pc'[holders[r][s].agent] # pc[holders[r][s].agent]
        <3>1. target[a] = RootOf[a] /\ RootOf[a] \in Root /\ ServiceOf[a] \in Service
            BY <2>2, HolderWriterAtHome, AgentMapAssumption DEF Register, RemoveHolder
        <3>2. r = RootOf[a] /\ s = ServiceOf[a]
            BY <2>2, <3>1 DEF Register, RemoveHolder, TypeOK
        <3>3. holders[r][s].agent = a
            BY <2>0, <3>2 DEF DistinctServices
        <3>4. pc'[a] # pc[a]
            BY <2>2 DEF Register, RemoveHolder, Goto, TypeOK
        <3> QED
            BY <3>3, <3>4
    <2> QED
        BY <2>1, <2>2, HolderWriters
<1> QED
    BY <1>1, <1>2, <1>3, PTL DEF Spec, LiveHolderKept

-----------------------------------------------------------------------------
(* RunServer implements SharedServer. *)

\* What the simulation needs of a state.
SimInv == TypeOK /\ LockInv /\ BirthInv /\ OwnInv /\ LockFileKept /\ HolderInv

\* A step that changes no process, no run and no holder flag, and gives a mark
\* only to an agent that holds nothing, is not seen.
LEMMA Unseen ==
    ASSUME SimInv, UNCHANGED <<proc, hasHolder, unread, runUp>>, NEW a \in Agent, NEW m,
           mark' = mark \/ (~hasHolder[a] /\ mark' = [mark EXCEPT ![a] = m])
    PROVE  UNCHANGED Shared!sharedVars
<1>1. ServerState' = ServerState
    BY DEF ServerState, ServerOf
<1>2. \A b \in Agent : hasHolder[b] => mark'[b] = mark[b]
    BY DEF SimInv, TypeOK
<1>3. Users' = Users
    BY <1>2 DEF Users, Is
<1> QED
    BY <1>1, <1>3 DEF Shared!sharedVars

\* There is one postmaster of a root at most.
LEMMA OneOfRoot ==
    ASSUME SimInv, NEW r \in Root, NEW p \in Pid, NEW q \in Pid, ServerOf(p, r), ServerOf(q, r)
    PROVE  p = q
BY DEF SimInv, LockFileKept, ServerOf

\* The state of a root whose postmaster is p.
LEMMA StateOfRoot ==
    ASSUME SimInv, NEW r \in Root, NEW p \in Pid, ServerOf(p, r)
    PROVE  ServerState[r] = IF proc[p].sig = "none" THEN "up" ELSE "stopping"
BY OneOfRoot DEF ServerState

\* A process that is born is not seen unless it is a postmaster, and nobody has
\* its mark.
LEMMA BornUsers ==
    ASSUME SimInv, NEW p \in Pid, NEW kind \in {"postgres", "other"}, NEW c,
           Born(p, kind, c), UNCHANGED <<hasHolder, unread, runUp, mark>>
    PROVE  Users' = Users
<1>1. ASSUME NEW b \in Agent PROVE Is(mark[b])' = Is(mark[b])
    <2>1. mark[b] \in Mark \cup {NoMark} /\ mark[b].birth <= births
        BY DEF SimInv, TypeOK, BirthInv
    <2>2. births \in Nat /\ proc[p].birth = 0 /\ proc'[p].birth = births + 1
        BY DEF SimInv, TypeOK, Born, NoProcess
    <2>3. \A q \in Pid : q # p => proc'[q] = proc[q]
        BY DEF Born, SimInv, TypeOK
    <2> QED
        BY <2>1, <2>2, <2>3 DEF Is, Mark, NoMark
<1> QED
    BY <1>1 DEF Users

\* Launching a postmaster is the abstract server's start.
LEMMA LaunchStarts ==
    ASSUME SimInv, NEW a \in Agent, NEW p \in Pid, Launch(a, p)
    PROVE  Shared!Start(target[a])
<1> DEFINE r == target[a]
<1>1. r \in Root
    BY DEF SimInv, TypeOK
<1>2. \A q \in Pid : ~ServerOf(q, r)
    <2> SUFFICES ASSUME NEW q \in Pid, ServerOf(q, r) PROVE FALSE
        OBVIOUS
    <2>1. pidfile[r] = q /\ proc[q].kind = "postgres"
        BY DEF SimInv, LockFileKept, ServerOf
    <2>2. pidfile[r] # None
        BY <2>1, NoneAssumption
    <2> QED
        BY <2>1, <2>2 DEF Launch, PidFileOwned
<1>3. Born(p, "postgres", r) /\ proc[p] = NoProcess
    BY DEF Launch, Born
<1>4. \A q \in Pid : q # p => proc'[q] = proc[q]
    BY <1>3 DEF Born, SimInv, TypeOK
<1>5. proc'[p].kind = "postgres" /\ proc'[p].cluster = r /\ proc'[p].sig = "none"
    BY <1>3 DEF Born, SimInv, TypeOK
<1>6. ~(\E c \in Root : ServerOf(p, c))
    BY <1>3 DEF ServerOf, NoProcess
<1>7. \A c \in Root \ {r} : ServerState'[c] = ServerState[c]
    BY <1>4, <1>5, <1>6 DEF ServerState, ServerOf
<1>8. ServerState[r] = "down"
    BY <1>1, <1>2 DEF ServerState
<1>9. ServerState'[r] = "up"
    BY <1>1, <1>2, <1>4, <1>5 DEF ServerState, ServerOf
<1>10. ServerState' = [ServerState EXCEPT ![r] = "up"]
    <2>1. ServerState = [c \in Root |-> ServerState[c]] /\ ServerState' = [c \in Root |-> ServerState'[c]]
        BY DEF ServerState
    <2> QED
        BY <1>1, <1>7, <1>9, <2>1
<1>11. Users' = Users
    BY <1>3, BornUsers DEF Launch
<1> QED
    BY <1>1, <1>8, <1>10, <1>11 DEF Shared!Start

\* A process number used again is a stutter of the abstract server.
LEMMA ReuseUnseen ==
    ASSUME SimInv, NEW p \in Pid, Reuse(p)
    PROVE  UNCHANGED Shared!sharedVars
<1>1. Born(p, "other", None) /\ proc[p] = NoProcess
    BY DEF Reuse, Born
<1>2. \A q \in Pid : q # p => proc'[q] = proc[q]
    BY <1>1 DEF Born, SimInv, TypeOK
<1>3. proc'[p].kind = "other"
    BY <1>1 DEF Born, SimInv, TypeOK
<1>4. ServerState' = ServerState
    BY <1>1, <1>2, <1>3 DEF ServerState, ServerOf, NoProcess
<1>5. Users' = Users
    BY <1>1, BornUsers DEF Reuse, agentVars
<1> QED
    BY <1>4, <1>5 DEF Shared!sharedVars

\* An agent that registers is given a server that runs; one that died in the
\* meantime, or whose run did, is not a user.
LEMMA RegisterAttaches ==
    ASSUME SimInv, NEW a \in Agent, Register(a)
    PROVE  Shared!Attach(RootOf[a], a) \/ UNCHANGED Shared!sharedVars
<1> DEFINE r == RootOf[a]
<1>1. r \in Root /\ hasHolder' = [hasHolder EXCEPT ![a] = TRUE] /\ unread' = unread \ {a}
    BY AgentMapAssumption DEF Register
<1>2. UNCHANGED <<proc, runUp, mark>>
    BY DEF Register, procVars
<1>3. ServerState' = ServerState
    BY <1>2 DEF ServerState, ServerOf
<1>4. ~hasHolder[a]
    BY DEF SimInv, HolderInv, Register
<1>5. CASE RunOf[a] \in runUp /\ Is(mark[a])
    <2>1. ServerOf(mark[a].pid, r) /\ mark[a].pid \in Pid
        BY <1>5 DEF SimInv, OwnInv, Is, TypeOK, Mark, NoMark
    <2>2. proc[mark[a].pid].sig = "none"
        BY <1>5 DEF SimInv, HolderInv, Register
    <2>3. ServerState[r] = "up"
        BY <1>1, <2>1, <2>2, StateOfRoot
    <2>4. Users'[r] = Users[r] \cup {a}
        BY <1>1, <1>2, <1>5 DEF Users, Is, SimInv, TypeOK
    <2>5. \A c \in Root \ {r} : Users'[c] = Users[c]
        BY <1>1, <1>2 DEF Users, Is, SimInv, TypeOK
    <2>6. Users' = [Users EXCEPT ![r] = @ \cup {a}]
        BY <1>1, <2>4, <2>5 DEF Users
    <2> QED
        BY <1>3, <2>3, <2>6 DEF Shared!Attach
<1>6. CASE ~(RunOf[a] \in runUp /\ Is(mark[a]))
    <2>1. Users' = Users
        BY <1>1, <1>2, <1>6 DEF Users, Is, SimInv, TypeOK
    <2> QED
        BY <1>3, <2>1 DEF Shared!sharedVars
<1> QED
    BY <1>5, <1>6

\* Users that go.
LEMMA HolderDetaches ==
    ASSUME SimInv, NEW a \in Agent, RemoveHolder(a) \/ AgentDies(a)
    PROVE  Shared!Detach({a})
<1>1. UNCHANGED <<proc, runUp>> /\ hasHolder' = [hasHolder EXCEPT ![a] = FALSE] /\ unread' = unread \ {a}
    BY DEF RemoveHolder, AgentDies, procVars
<1>2. \A b \in Agent \ {a} : mark'[b] = mark[b]
    BY DEF RemoveHolder, AgentDies, SimInv, TypeOK
<1>3. ServerState' = ServerState
    BY <1>1 DEF ServerState, ServerOf
<1>4. Users' = [r \in Root |-> Users[r] \ {a}]
    BY <1>1, <1>2 DEF Users, Is, SimInv, TypeOK
<1> QED
    BY <1>3, <1>4 DEF Shared!Detach

\* A holder whose record cannot be read is no longer counted.
LEMMA PruneDetaches ==
    ASSUME SimInv, NEW a \in Agent, PruneHolders(a)
    PROVE  \E gone \in SUBSET Agent : Shared!Detach(gone)
<1>1. PICK lost \in SUBSET LiveHolders(target[a]) :
          unread' = unread \cup {holders[target[a]][s].agent : s \in lost}
    BY DEF PruneHolders, PruneTo
<1> DEFINE gone == {holders[target[a]][s].agent : s \in lost}
<1>2. gone \in SUBSET Agent
    BY DEF LiveHolders, HolderAlive, SimInv, TypeOK, Holder, NoHolder
<1>3. UNCHANGED <<proc, hasHolder, runUp>>
    BY DEF PruneHolders, PruneTo, Leave, procVars
<1>4. ~hasHolder[a]
    BY DEF SimInv, HolderInv, PruneHolders
<1>5. \A b \in Agent : hasHolder[b] => mark'[b] = mark[b]
    BY <1>4 DEF PruneHolders, PruneTo, Leave, SimInv, TypeOK
<1>6. ServerState' = ServerState
    BY <1>3 DEF ServerState, ServerOf
<1> HIDE DEF gone
<1>7. unread' = unread \cup gone
    BY <1>1 DEF gone
<1>8. Users' = [r \in Root |-> Users[r] \ gone]
    BY <1>3, <1>5, <1>7 DEF Users, Is
<1> QED
    BY <1>2, <1>6, <1>8 DEF Shared!Detach

\* The end of a run detaches its holders.
LEMMA RunDetaches ==
    ASSUME SimInv, NEW run \in Run, RunDies(run)
    PROVE  Shared!Detach({a \in Agent : RunOf[a] = run})
<1>1. UNCHANGED <<proc, hasHolder, unread, mark>> /\ runUp' = runUp \ {run}
    BY DEF RunDies, agentVars, procVars
<1>2. ServerState' = ServerState
    BY <1>1 DEF ServerState, ServerOf
<1>3. Users' = [r \in Root |-> Users[r] \ {a \in Agent : RunOf[a] = run}]
    BY <1>1 DEF Users, Is
<1> QED
    BY <1>2, <1>3 DEF Shared!Detach

\* Whoever is about to stop a root's server has found no live holder, so nobody
\* uses it.
LEMMA SignalStops ==
    ASSUME SimInv, NEW a \in Agent, pc[a] \in Stopping, Is(record[target[a]]),
           NEW s \in {"int", "quit"}, Signalled(record[target[a]], s),
           UNCHANGED <<hasHolder, unread, runUp, mark>>
    PROVE  Shared!Stop(target[a]) \/ UNCHANGED Shared!sharedVars
<1> DEFINE r == target[a]
           p == record[r].pid
<1>1. r \in Root /\ p \in Pid /\ ServerOf(p, r)
    BY DEF SimInv, TypeOK, OwnInv, Is, Mark, NoMark
<1>2. /\ \A q \in Pid : q # p => proc'[q] = proc[q]
      /\ \A q \in Pid : /\ proc'[q].kind = proc[q].kind /\ proc'[q].cluster = proc[q].cluster
                        /\ proc'[q].birth = proc[q].birth
      /\ proc'[p].sig = s
    BY <1>1 DEF Signalled, SimInv, TypeOK, Process, NoProcess
<1>3. Users' = Users
    <2>1. \A b \in Agent : Is(mark[b])' = Is(mark[b])
        BY <1>2 DEF Is, SimInv, TypeOK, Mark, NoMark
    <2> QED
        BY <2>1 DEF Users
<1>4. Users[r] = {}
    <2> SUFFICES ASSUME NEW b \in Agent \ unread, RootOf[b] = r, hasHolder[b], RunOf[b] \in runUp
                 PROVE  FALSE
        BY <1>1 DEF Users
    <2>1. pc[b] \in {"held", "unlockedRelease", "unhold"}
        BY DEF SimInv, HolderInv
    <2>2. LET h == holders[r][ServiceOf[b]] IN h.agent = b /\ h.run \in {None, RunOf[b]}
        BY DEF SimInv, HolderInv
    <2>3. HolderAlive(holders[r][ServiceOf[b]])
        BY <2>1, <2>2, NoneAssumption DEF HolderAlive, AgentUp
    <2>4. ServiceOf[b] \in Service
        BY AgentMapAssumption
    <2> QED
        BY <2>3, <2>4 DEF SimInv, HolderInv
<1>5. \A c \in Root \ {r} : ServerState'[c] = ServerState[c]
    BY <1>1, <1>2 DEF ServerState, ServerOf
<1>6. ServerState'[r] = "stopping"
    BY <1>1, <1>2 DEF ServerState, ServerOf
<1>7. ServerState' = [ServerState EXCEPT ![r] = "stopping"]
    BY <1>1, <1>5, <1>6 DEF ServerState
<1>8. ServerState[r] \in {"up", "stopping"}
    BY <1>1, StateOfRoot
<1>9. CASE ServerState[r] = "up"
    BY <1>3, <1>4, <1>7, <1>9 DEF Shared!Stop
<1>10. CASE ServerState[r] = "stopping"
    <2>1. ServerState' = ServerState
        BY <1>1, <1>7, <1>10 DEF ServerState
    <2> QED
        BY <1>3, <2>1 DEF Shared!sharedVars
<1> QED
    BY <1>8, <1>9, <1>10

\* A process that ends takes its users with it if it is a root's server.
LEMMA DeathExits ==
    ASSUME SimInv, NEW p \in Pid, ProcessDies(p)
    PROVE  (\E r \in Root : Shared!Exit(r)) \/ UNCHANGED Shared!sharedVars
<1>1. /\ UNCHANGED <<hasHolder, unread, runUp, mark>>
      /\ proc'[p] = NoProcess /\ \A q \in Pid : q # p => proc'[q] = proc[q]
    BY DEF ProcessDies, agentVars, SimInv, TypeOK
<1>2. ASSUME NEW b \in Agent PROVE Is(mark[b])' <=> Is(mark[b]) /\ mark[b].pid # p
    <2>1. mark[b] \in Mark \cup {NoMark} /\ mark'[b] = mark[b]
        BY <1>1 DEF SimInv, TypeOK
    <2>2. CASE mark[b] = NoMark
        BY <2>1, <2>2 DEF Is, NoMark
    <2>3. CASE mark[b] \in Mark
        BY <1>1, <2>1, <2>3 DEF Is, Mark, NoProcess
    <2> QED
        BY <2>1, <2>2, <2>3
<1>3. \A b \in Agent : Is(mark[b]) => mark[b].pid \in Pid /\ ServerOf(mark[b].pid, RootOf[b])
    BY DEF SimInv, OwnInv, Is, TypeOK, Mark, NoMark
<1>4. ASSUME NEW r \in Root, ServerOf(p, r) PROVE Shared!Exit(r)
    <2>1. ServerState[r] # "down"
        BY <1>4, StateOfRoot
    <2>2. \A c \in Root \ {r} : ServerState'[c] = ServerState[c]
        BY <1>1, <1>4 DEF ServerState, ServerOf, NoProcess
    <2>3. \A q \in Pid : ServerOf(q, r) => q = p
        BY <1>4, OneOfRoot
    <2>4. ServerState'[r] = "down"
        BY <1>1, <2>3 DEF ServerState, ServerOf, NoProcess
    <2>5. Users'[r] = {}
        BY <1>1, <1>2, <1>3, <2>3 DEF Users
    <2>6. \A c \in Root \ {r} : Users'[c] = Users[c]
        BY <1>1, <1>2, <1>3, <1>4 DEF Users, ServerOf
    <2>7. ServerState' = [ServerState EXCEPT ![r] = "down"]
        BY <2>2, <2>4 DEF ServerState
    <2>8. Users' = [Users EXCEPT ![r] = {}]
        BY <2>5, <2>6 DEF Users
    <2> QED
        BY <2>1, <2>7, <2>8 DEF Shared!Exit
<1>5. ASSUME \A r \in Root : ~ServerOf(p, r) PROVE UNCHANGED Shared!sharedVars
    <2>1. ServerState' = ServerState
        BY <1>1, <1>5 DEF ServerState, ServerOf, NoProcess
    <2>2. \A b \in Agent : Is(mark[b])' <=> Is(mark[b])
        BY <1>2, <1>3, <1>5, AgentMapAssumption
    <2>3. Users' = Users
        BY <1>1, <2>2 DEF Users
    <2> QED
        BY <2>1, <2>3 DEF Shared!sharedVars
<1> QED
    BY <1>4, <1>5

\* Every step of an agent is a step of the shared server or is not seen.
LEMMA AgentStepSimulated ==
    ASSUME SimInv, NEW a \in Agent, Step(a)
    PROVE  [Shared!SharedNext]_(Shared!sharedVars)
<1>1. CASE \/ \E r \in Root : CollectLock(a, r) \/ CollectSkip(a, r)
           \/ AcquireLock(a) \/ AttachClear(a) \/ HandOut(a) \/ AcquireFails(a)
           \/ ReleaseLock(a) \/ StopConfirmed(a) \/ WaitGone(a) \/ ForgetRecord(a)
    <2>1. UNCHANGED <<proc, hasHolder, unread, runUp, mark>>
        BY <1>1 DEF CollectLock, CollectSkip, AcquireLock, AttachClear, HandOut, AcquireFails,
            ReleaseLock, StopConfirmed, WaitGone, ForgetRecord, procVars
    <2> QED
        BY <2>1, Unseen
<1>2. CASE \/ AttachRefuse(a) \/ AcquireUnwind(a) \/ PruneFails(a)
           \/ StopDisowned(a) \/ SignalFails(a) \/ StopTimeout(a) \/ UnlinkPidFile(a)
           \/ RemoveHolderFails(a) \/ AttachRunning(a) \/ RecordPostmaster(a)
    <2>1. UNCHANGED <<proc, hasHolder, unread, runUp>>
        BY <1>2 DEF AttachRefuse, AcquireUnwind, PruneFails, StopDisowned, SignalFails,
            StopTimeout, UnlinkPidFile, RemoveHolderFails, AttachRunning, RecordPostmaster,
            Leave, procVars
    <2>2. \/ mark' = mark \/ RemoveHolderFails(a)
          \/ \E m : mark' = [mark EXCEPT ![a] = m] /\ pc[a] \notin {"held", "unlockedRelease", "unhold"}
        BY <1>2 DEF AttachRefuse, AcquireUnwind, PruneFails, StopDisowned, SignalFails,
            StopTimeout, UnlinkPidFile, AttachRunning, RecordPostmaster, Leave
    <2>3. ASSUME RemoveHolderFails(a) PROVE mark' = mark
        BY <2>3 DEF RemoveHolderFails, Leave, SimInv, LockInv, TypeOK
    <2>4. pc[a] \notin {"held", "unlockedRelease", "unhold"} => ~hasHolder[a]
        BY DEF SimInv, HolderInv
    <2> QED
        BY <2>1, <2>2, <2>3, <2>4, Unseen
<1>7. CASE PruneHolders(a)
    BY <1>7, PruneDetaches DEF Shared!SharedNext
<1>3. CASE \E p \in Pid : Launch(a, p)
    BY <1>3, LaunchStarts DEF Shared!SharedNext, SimInv, TypeOK
<1>4. CASE Register(a)
    BY <1>4, RegisterAttaches, AgentMapAssumption DEF Shared!SharedNext
<1>5. CASE RemoveHolder(a)
    BY <1>5, HolderDetaches DEF Shared!SharedNext
<1>6. CASE SignalPostmaster(a) \/ WaitTimeout(a)
    <2>1. /\ pc[a] \in Stopping /\ Is(record[target[a]]) /\ target[a] \in Root
          /\ \E s \in {"int", "quit"} : Signalled(record[target[a]], s)
          /\ UNCHANGED <<hasHolder, unread, runUp, mark>>
        BY <1>6 DEF SignalPostmaster, WaitTimeout, Stopping, SimInv, TypeOK
    <2> QED
        BY <2>1, SignalStops DEF Shared!SharedNext
<1> QED
    BY <1>1, <1>2, <1>3, <1>4, <1>5, <1>6, <1>7 DEF Step, AcquireStep, ReleaseStep, StopStep

\* Every step is a step of the abstract server or a stutter.
LEMMA StepSimulated ==
    ASSUME SimInv, [Next]_vars
    PROVE  [Shared!SharedNext]_(Shared!sharedVars)
<1>1. ASSUME NEW a \in Agent, Step(a) PROVE [Shared!SharedNext]_(Shared!sharedVars)
    BY <1>1, AgentStepSimulated
<1>2. ASSUME NEW a \in Agent,
             Acquire(a) \/ AcquireCancelled(a) \/ Release(a) \/ ReleaseCancelled(a)
      PROVE  UNCHANGED Shared!sharedVars
    <2>1. UNCHANGED <<proc, hasHolder, unread, runUp, mark>>
        BY <1>2 DEF Acquire, AcquireCancelled, Release, ReleaseCancelled, procVars
    <2> QED
        BY <2>1, <1>2, Unseen
<1>3. ASSUME NEW a \in Agent, AgentDies(a) PROVE Shared!SharedNext
    BY <1>3, HolderDetaches DEF Shared!SharedNext
<1>4. ASSUME NEW run \in Run, RunDies(run) PROVE Shared!SharedNext
    <2>1. {a \in Agent : RunOf[a] = run} \in SUBSET Agent
        OBVIOUS
    <2> QED
        BY <1>4, <2>1, RunDetaches DEF Shared!SharedNext
<1>5. ASSUME NEW p \in Pid, ProcessDies(p) PROVE [Shared!SharedNext]_(Shared!sharedVars)
    BY <1>5, DeathExits DEF Shared!SharedNext
<1>6. ASSUME NEW p \in Pid, Reuse(p) PROVE UNCHANGED Shared!sharedVars
    BY <1>6, ReuseUnseen
<1>7. CASE UNCHANGED vars
    <2>1. UNCHANGED <<proc, hasHolder, unread, runUp, mark>>
        BY <1>7 DEF vars, agentVars, procVars
    <2>2. ServerState' = ServerState /\ Users' = Users
        BY <2>1 DEF ServerState, ServerOf, Users, Is
    <2> QED
        BY <2>2 DEF Shared!sharedVars
<1> QED
    BY <1>1, <1>2, <1>3, <1>4, <1>5, <1>6, <1>7 DEF Next

\* The protocol implements the shared server for any agents, runs, roots and
\* processes, an agent whose record could not be read no longer counting as a user,
\* as long as every service has one agent per root, inspections of
\* processes that exist answer, and no number is reused before its postmaster is
\* inspected (nixpg.go acquireRunServer, release, stopServer).
THEOREM RunServerImplementsShared ==
    ASSUME DistinctServices, ~InspectMayFail, ~ReuseWindow
    PROVE  Spec => ImplementsSharedServer
<1> DEFINE Inv == SimInv /\ StopInv /\ HeldServerNotStopped
<1>1. Init => Inv
    BY InitInvs DEF SimInv
<1>2. Inv /\ [Next]_vars => Inv'
    BY TypeStep, LockStep, BirthStep, OwnStep, FileStep, HolderStep DEF SimInv
<1>3. Init => Shared!SharedInit
    <2> SUFFICES ASSUME Init PROVE Shared!SharedInit
        OBVIOUS
    <2>1. ServerState = [r \in Root |-> "down"]
        BY DEF Init, ServerState, ServerOf, NoProcess
    <2>2. Users = [r \in Root |-> {}]
        BY DEF Init, Users
    <2> QED
        BY <2>1, <2>2 DEF Shared!SharedInit
<1>4. Inv /\ [Next]_vars => [Shared!SharedNext]_(Shared!sharedVars)
    BY StepSimulated
<1> QED
    BY <1>1, <1>2, <1>3, <1>4, PTL DEF Spec, ImplementsSharedServer, Shared!SharedSpec

=============================================================================
