------------------------ MODULE SchemaControlProofs ------------------------
(***************************************************************************)
(* Proofs about SchemaControl, for every set of agents and goroutines and  *)
(* any number of lineages, versions and injected faults.  SessionInv, the  *)
(* mutual exclusion of sessions, carries the others: UpInv ties Up's       *)
(* position to the ledger, GrantInv a reconciliation's grants to the       *)
(* schema, ListedInv a transition's progress to what it listed.            *)
(***************************************************************************)
EXTENDS SchemaControl, TLAPS

USE ActorAssumption, NumberAssumption

\* A return leaves what belongs to the transition in its type.
LEMMA ReturnTyped ==
    ASSUME TypeOK, NEW t \in Actor, NEW ok \in BOOLEAN, Return(t, ok)
    PROVE  /\ pc' \in [Actor -> ActorPc] /\ op' \in [Actor -> Op] /\ at' \in [Actor -> Lineage]
           /\ saw' \in [Actor -> Version \cup {0}] /\ snap' \in [Actor -> [Lineage -> SUBSET Version]]
           /\ base' \in [Actor -> Version \cup {0}] /\ pos' \in [Actor -> Version \cup {0}]
           /\ \A u \in Actor : pc'[u] \in {"body", "clean", "orphan"} => pos'[u] \in Version
           /\ failed' \in [Actor -> BOOLEAN] /\ ended' \in [Actor -> BOOLEAN]
           /\ late' \in [Actor -> BOOLEAN] /\ grants' \in [Actor -> SUBSET Table]
           /\ cp' \in [Agent -> Actor \cup {None}] /\ up' \subseteq Agent
           /\ armed' \subseteq Agent /\ inited' \subseteq Agent /\ port' \subseteq Agent
<1> USE DEF TypeOK, Return, Goto
<1>1. pc' \in [Actor -> ActorPc] /\ op' \in [Actor -> Op]
    BY DEF ActorPc, Op
<1>2. /\ at' \in [Actor -> Lineage] /\ saw' \in [Actor -> Version \cup {0}]
      /\ base' \in [Actor -> Version \cup {0}] /\ pos' \in [Actor -> Version \cup {0}]
    BY DEF Lineage
<1>3. snap' \in [Actor -> [Lineage -> SUBSET Version]] /\ grants' \in [Actor -> SUBSET Table]
    BY DEF NoSnap
<1>4. \A u \in Actor : pc'[u] \in {"body", "clean", "orphan"} => pos'[u] \in Version
    OBVIOUS
<1>5. failed' \in [Actor -> BOOLEAN] /\ ended' \in [Actor -> BOOLEAN] /\ late' \in [Actor -> BOOLEAN]
    OBVIOUS
<1>6. cp' \in [Agent -> Actor \cup {None}]
    OBVIOUS
<1>7. up' \subseteq Agent /\ armed' \subseteq Agent /\ inited' \subseteq Agent /\ port' \subseteq Agent
    OBVIOUS
<1> QED
    BY <1>1, <1>2, <1>3, <1>4, <1>5, <1>6, <1>7

\* A committed body is counted for its table, and granted only that.
LEMMA CommitTyped ==
    ASSUME TypeOK, NEW l \in Lineage, NEW v \in Version, Commit(l, v)
    PROVE  runs' \in [Lineage -> [Version -> Nat]] /\ granted' \subseteq Table
<1>1. runs' \in [Lineage -> [Version -> Nat]]
    BY DEF TypeOK, Commit
<1>2. granted' \subseteq Table
    BY DEF TypeOK, Commit, Table
<1> QED
    BY <1>1, <1>2

\* Every step preserves the type invariant.
LEMMA TypeStep == TypeOK /\ [Next]_vars => TypeOK'
<1> SUFFICES ASSUME TypeOK, [Next]_vars PROVE TypeOK'
    OBVIOUS
<1> USE DEF TypeOK, ActorPc, Op, Lineage, Version, Table, NoSnap, Clean, Dirty, localVars,
        agentVars, dbVars, Goto, Fault, NoFault, Breaks, TakeLock, DropLock, Fail
<1>1. ASSUME NEW t \in Actor, BeginInit(t) PROVE TypeOK'
    BY <1>1 DEF BeginInit
<1>2. ASSUME NEW t \in Actor, BeginStart(t) PROVE TypeOK'
    BY <1>2 DEF BeginStart
<1>3. ASSUME NEW t \in Actor, Cancel(t) PROVE TypeOK'
    <2>1. ended' \in [Actor -> BOOLEAN]
        BY <1>3 DEF Cancel
    <2>2. faults' \in Nat
        BY <1>3 DEF Cancel
    <2>3. UNCHANGED <<pc, op, at, saw, snap, base, pos, failed, late, grants, cp, up, armed, inited, port,
                      adv, files, ledger, runs, granted, defaults>>
        BY <1>3 DEF Cancel
    <2> QED
        BY <2>1, <2>2, <2>3
<1>4. ASSUME NEW t \in Actor, AcquireControlPlane(t) PROVE TypeOK'
    BY <1>4 DEF AcquireControlPlane
<1>5. ASSUME NEW t \in Actor, AcquireCancelled(t) PROVE TypeOK'
    <2>1. Return(t, FALSE)
        BY <1>5 DEF AcquireCancelled
    <2> QED
        BY <1>5, <2>1, ReturnTyped DEF AcquireCancelled, Tables
<1>6. ASSUME NEW t \in Actor, EnsureExtensions(t) PROVE TypeOK'
    BY <1>6 DEF EnsureExtensions
<1>7. ASSUME NEW t \in Actor, ExtensionFails(t) PROVE TypeOK'
    <2>1. Return(t, FALSE)
        BY <1>7 DEF ExtensionFails
    <2>2. faults' \in Nat
        BY <1>7 DEF ExtensionFails
    <2>3. adv' \in Actor \cup {None}
        BY <1>7 DEF ExtensionFails
    <2>4. UNCHANGED <<files, ledger, runs, granted, defaults>>
        BY <1>7 DEF ExtensionFails
    <2> QED
        BY <2>1, <2>2, <2>3, <2>4, ReturnTyped
<1>8. ASSUME NEW t \in Actor, OpenMigration(t) PROVE TypeOK'
    BY <1>8 DEF OpenMigration
<1>9. ASSUME NEW t \in Actor, OpenSource(t) PROVE TypeOK'
    BY <1>9 DEF OpenSource
<1>10. ASSUME NEW t \in Actor, OpenRetry(t) PROVE TypeOK'
    <2>1. pc' \in [Actor -> ActorPc]
        BY <1>10 DEF OpenRetry
    <2>2. \A u \in Actor : pc'[u] \in {"body", "clean", "orphan"} => pos[u] \in Version
        BY <1>10 DEF OpenRetry
    <2>3. faults' \in Nat
        BY <1>10 DEF OpenRetry
    <2>4. adv' \in Actor \cup {None}
        BY <1>10 DEF OpenRetry
    <2>5. UNCHANGED <<op, at, saw, snap, base, pos, failed, ended, late, grants, cp, up, armed, inited, port,
                      files, ledger, runs, granted, defaults>>
        BY <1>10 DEF OpenRetry
    <2> QED
        BY <2>1, <2>2, <2>3, <2>4, <2>5
<1>11. ASSUME NEW t \in Actor, OpenFails(t) PROVE TypeOK'
    <2>1. Return(t, FALSE)
        BY <1>11 DEF OpenFails
    <2>2. faults' \in Nat
        BY <1>11 DEF OpenFails
    <2>3. adv' \in Actor \cup {None}
        BY <1>11 DEF OpenFails
    <2>4. UNCHANGED <<files, ledger, runs, granted, defaults>>
        BY <1>11 DEF OpenFails
    <2> QED
        BY <2>1, <2>2, <2>3, <2>4, ReturnTyped
<1>12. ASSUME NEW t \in Actor, ReadVersion(t) PROVE TypeOK'
    BY <1>12 DEF ReadVersion
<1>13. ASSUME NEW t \in Actor, StartUp(t) PROVE TypeOK'
    BY <1>13 DEF StartUp
<1>14. ASSUME NEW t \in Actor, UpDone(t) PROVE TypeOK'
    BY <1>14 DEF UpDone, Above
<1>15. ASSUME NEW t \in Actor, RunBody(t) PROVE TypeOK'
    <2>1. Commit(at[t], pos[t]) /\ at[t] \in Lineage /\ pos[t] \in Version
        BY <1>15 DEF RunBody
    <2>2. runs' \in [Lineage -> [Version -> Nat]] /\ granted' \subseteq Table
        BY <2>1, CommitTyped
    <2> QED
        BY <1>15, <2>2 DEF RunBody
<1>16. ASSUME NEW t \in Actor, MarkClean(t) PROVE TypeOK'
    BY <1>16 DEF MarkClean
<1>17. ASSUME NEW t \in Actor, UpFails(t) PROVE TypeOK'
    <2>1. runs' \in [Lineage -> [Version -> Nat]] /\ granted' \subseteq Table
        <3>1. CASE pc[t] = "body" /\ Commit(at[t], pos[t])
            <4>1. at[t] \in Lineage /\ pos[t] \in Version
                BY <3>1
            <4> QED
                BY <3>1, <4>1, CommitTyped
        <3>2. CASE UNCHANGED <<runs, granted>>
            BY <3>2
        <3> QED
            BY <1>17, <3>1, <3>2 DEF UpFails
    <2>2. pc' \in [Actor -> ActorPc] /\ failed' \in [Actor -> BOOLEAN]
        BY <1>17 DEF UpFails
    <2>3. \A u \in Actor : pc'[u] \in {"body", "clean", "orphan"} => pos[u] \in Version
        BY <1>17 DEF UpFails
    <2>4. faults' \in Nat
        BY <1>17 DEF UpFails
    <2>5. UNCHANGED <<op, at, saw, snap, base, pos, ended, late, grants, cp, up, armed, inited, port,
                      adv, files, ledger, defaults>>
        BY <1>17 DEF UpFails
    <2> QED
        BY <2>1, <2>2, <2>3, <2>4, <2>5
<1>18. ASSUME NEW t \in Actor, CloseMigration(t) PROVE TypeOK'
    <2>1. adv' \in Actor \cup {None} /\ UNCHANGED <<files, ledger, runs, granted, defaults>>
        BY <1>18 DEF CloseMigration
    <2>2. faults' \in Nat
        <3>1. UNCHANGED faults \/ faults' = faults + 1
            BY <1>18 DEF CloseMigration
        <3> QED
            BY <3>1
    <2>3. ASSUME NEW place \in {"access", "open"}, Goto(t, place), UNCHANGED pos
          PROVE  /\ pc' \in [Actor -> ActorPc]
                 /\ \A u \in Actor : pc'[u] \in {"body", "clean", "orphan"} => pos'[u] \in Version
        BY <2>3
    <2>4. CASE Goto(t, "access") /\ UNCHANGED <<localVars, agentVars>>
        BY <2>1, <2>2, <2>3, <2>4
    <2>5. CASE Return(t, FALSE)
        BY <2>1, <2>2, <2>5, ReturnTyped
    <2>6. CASE /\ at[t] < NLineage /\ Goto(t, "open") /\ at' = [at EXCEPT ![t] = @ + 1]
               /\ UNCHANGED <<op, saw, snap, base, pos, failed, ended, late, grants, agentVars>>
        <3>1. at[t] + 1 \in Lineage
            BY <2>6
        <3>2. at' \in [Actor -> Lineage]
            BY <2>6, <3>1
        <3> QED
            BY <2>1, <2>2, <2>3, <2>6, <3>2
    <2>7. CASE /\ Goto(t, "access")
               /\ armed' = IF op[t] = "start" THEN armed \cup {AgentOf[t]} ELSE armed
               /\ UNCHANGED <<localVars, cp, up, inited, port>>
        <3>1. armed' \subseteq Agent
            BY <2>7
        <3> QED
            BY <2>1, <2>2, <2>3, <2>7, <3>1
    <2> QED
        BY <1>18, <2>4, <2>5, <2>6, <2>7 DEF CloseMigration
<1>19. ASSUME NEW t \in Actor, LockAccess(t) PROVE TypeOK'
    BY <1>19 DEF LockAccess
<1>20. ASSUME NEW t \in Actor, GrantTables(t) PROVE TypeOK'
    BY <1>20 DEF GrantTables, Tables
<1>21. ASSUME NEW t \in Actor, CommitAccess(t) PROVE TypeOK'
    <2>1. Return(t, TRUE)
        BY <1>21 DEF CommitAccess
    <2> QED
        BY <1>21, <2>1, ReturnTyped DEF CommitAccess, Publish
<1>22. ASSUME NEW t \in Actor, AccessFails(t) PROVE TypeOK'
    <2>1. Return(t, FALSE)
        BY <1>22 DEF AccessFails
    <2>2. faults' \in Nat
        BY <1>22 DEF AccessFails
    <2>3. adv' \in Actor \cup {None}
        BY <1>22 DEF AccessFails
    <2>4. UNCHANGED <<files, ledger, runs>>
        BY <1>22 DEF AccessFails
    <2>5. granted' \subseteq Table /\ defaults' \in BOOLEAN
        BY <1>22 DEF AccessFails, Publish
    <2> QED
        BY <2>1, <2>2, <2>3, <2>4, <2>5, ReturnTyped
<1>23. ASSUME NEW t \in Actor, OrphanEnds(t) PROVE TypeOK'
    <2>1. runs' \in [Lineage -> [Version -> Nat]] /\ granted' \subseteq Table
        <3>1. CASE pc[t] = "orphan" /\ Commit(at[t], pos[t])
            <4>1. at[t] \in Lineage /\ pos[t] \in Version
                BY <3>1
            <4> QED
                BY <3>1, <4>1, CommitTyped
        <3>2. CASE UNCHANGED <<runs, granted>>
            BY <3>2
        <3> QED
            BY <1>23, <3>1, <3>2 DEF OrphanEnds
    <2> QED
        BY <1>23, <2>1 DEF OrphanEnds
<1>24. ASSUME NEW t \in Actor, NEW v \in Version, MarkDirty(t, v) PROVE TypeOK'
    BY <1>24 DEF MarkDirty, Above
<1>25. ASSUME NEW t \in Actor, NEW l \in Lineage, NEW v \in Version, BeginSave(t, l, v)
       PROVE TypeOK'
    BY <1>25 DEF BeginSave
<1>26. ASSUME NEW g \in Agent, Stop(g) PROVE TypeOK'
    BY <1>26 DEF Stop
<1>27. ASSUME NEW g \in Agent, AgentDies(g) PROVE TypeOK'
    BY <1>27 DEF AgentDies
<1>28. ASSUME NEW l \in Lineage, NEW v \in Version, SaveFile(l, v) PROVE TypeOK'
    BY <1>28 DEF SaveFile
<1>29. ASSUME NEW l \in Lineage, Repair(l) PROVE TypeOK'
    BY <1>29 DEF Repair
<1>30. CASE UNCHANGED vars
    BY <1>30 DEF vars
<1> QED
        BY <1>1, <1>2, <1>3, <1>4, <1>5, <1>6, <1>7, <1>8, <1>9, <1>10, <1>11, <1>12, <1>13,
        <1>14, <1>15, <1>16, <1>17, <1>18, <1>19, <1>20, <1>21, <1>22, <1>23, <1>24, <1>25, <1>26,
        <1>27, <1>28, <1>29, <1>30 DEF Next, Step, MigrateStep, AccessStep

\* A session that opens takes the advisory lock when nobody holds it, and keeps
\* it until it closes, also across the death of its agent.
LEMMA SessionStep == TypeOK /\ SessionInv /\ [Next]_vars => SessionInv'
<1> SUFFICES ASSUME TypeOK, SessionInv, [Next]_vars PROVE SessionInv'
    OBVIOUS
<1> USE DEF TypeOK, SessionInv, InSession, localVars, agentVars, dbVars, Goto, Return, Fault,
        NoFault, Breaks, TakeLock, DropLock, Fail, Commit
<1>1. ASSUME NEW t \in Actor, BeginInit(t) PROVE SessionInv'
    BY <1>1 DEF BeginInit
<1>2. ASSUME NEW t \in Actor, BeginStart(t) PROVE SessionInv'
    BY <1>2 DEF BeginStart
<1>3. ASSUME NEW t \in Actor, Cancel(t) PROVE SessionInv'
    BY <1>3 DEF Cancel
<1>4. ASSUME NEW t \in Actor, AcquireControlPlane(t) PROVE SessionInv'
    BY <1>4 DEF AcquireControlPlane
<1>5. ASSUME NEW t \in Actor, AcquireCancelled(t) PROVE SessionInv'
    BY <1>5 DEF AcquireCancelled
<1>6. ASSUME NEW t \in Actor, EnsureExtensions(t) PROVE SessionInv'
    BY <1>6 DEF EnsureExtensions
<1>7. ASSUME NEW t \in Actor, ExtensionFails(t) PROVE SessionInv'
    BY <1>7 DEF ExtensionFails
<1>8. ASSUME NEW t \in Actor, OpenMigration(t) PROVE SessionInv'
    BY <1>8 DEF OpenMigration
<1>9. ASSUME NEW t \in Actor, OpenSource(t) PROVE SessionInv'
    BY <1>9 DEF OpenSource
<1>10. ASSUME NEW t \in Actor, OpenRetry(t) PROVE SessionInv'
    BY <1>10 DEF OpenRetry
<1>11. ASSUME NEW t \in Actor, OpenFails(t) PROVE SessionInv'
    BY <1>11 DEF OpenFails
<1>12. ASSUME NEW t \in Actor, ReadVersion(t) PROVE SessionInv'
    BY <1>12 DEF ReadVersion
<1>13. ASSUME NEW t \in Actor, StartUp(t) PROVE SessionInv'
    BY <1>13 DEF StartUp
<1>14. ASSUME NEW t \in Actor, UpDone(t) PROVE SessionInv'
    BY <1>14 DEF UpDone
<1>15. ASSUME NEW t \in Actor, RunBody(t) PROVE SessionInv'
    BY <1>15 DEF RunBody
<1>16. ASSUME NEW t \in Actor, MarkClean(t) PROVE SessionInv'
    BY <1>16 DEF MarkClean
<1>17. ASSUME NEW t \in Actor, UpFails(t) PROVE SessionInv'
    BY <1>17 DEF UpFails
<1>18. ASSUME NEW t \in Actor, CloseMigration(t) PROVE SessionInv'
    BY <1>18 DEF CloseMigration
<1>19. ASSUME NEW t \in Actor, LockAccess(t) PROVE SessionInv'
    BY <1>19 DEF LockAccess
<1>20. ASSUME NEW t \in Actor, GrantTables(t) PROVE SessionInv'
    BY <1>20 DEF GrantTables
<1>21. ASSUME NEW t \in Actor, CommitAccess(t) PROVE SessionInv'
    BY <1>21 DEF CommitAccess
<1>22. ASSUME NEW t \in Actor, AccessFails(t) PROVE SessionInv'
    BY <1>22 DEF AccessFails
<1>23. ASSUME NEW t \in Actor, OrphanEnds(t) PROVE SessionInv'
    BY <1>23 DEF OrphanEnds
<1>24. ASSUME NEW t \in Actor, NEW v \in Version, MarkDirty(t, v) PROVE SessionInv'
    BY <1>24 DEF MarkDirty
<1>25. ASSUME NEW t \in Actor, NEW l \in Lineage, NEW v \in Version, BeginSave(t, l, v)
       PROVE SessionInv'
    BY <1>25 DEF BeginSave
<1>26. ASSUME NEW g \in Agent, Stop(g) PROVE SessionInv'
    BY <1>26 DEF Stop
<1>27. ASSUME NEW g \in Agent, AgentDies(g) PROVE SessionInv'
    BY <1>27 DEF AgentDies
<1>28. ASSUME NEW l \in Lineage, NEW v \in Version, SaveFile(l, v) PROVE SessionInv'
    BY <1>28 DEF SaveFile
<1>29. ASSUME NEW l \in Lineage, Repair(l) PROVE SessionInv'
    BY <1>29 DEF Repair
<1>30. CASE UNCHANGED vars
    BY <1>30 DEF vars
<1> QED
        BY <1>1, <1>2, <1>3, <1>4, <1>5, <1>6, <1>7, <1>8, <1>9, <1>10, <1>11, <1>12, <1>13,
        <1>14, <1>15, <1>16, <1>17, <1>18, <1>19, <1>20, <1>21, <1>22, <1>23, <1>24, <1>25, <1>26,
        <1>27, <1>28, <1>29, <1>30 DEF Next, Step, MigrateStep, AccessStep

\* A caller that was late reaches neither a migration session nor a
\* transaction.
LEMMA LateStep == TypeOK /\ LateInv /\ [Next]_vars => LateInv'
<1> SUFFICES ASSUME TypeOK, LateInv, [Next]_vars PROVE LateInv'
    OBVIOUS
<1> USE DEF TypeOK, LateInv, localVars, agentVars, dbVars, Goto, Return, Fault, NoFault, Breaks,
        TakeLock, DropLock, Fail, Commit
<1>1. ASSUME NEW t \in Actor, BeginInit(t) PROVE LateInv'
    BY <1>1 DEF BeginInit
<1>2. ASSUME NEW t \in Actor, BeginStart(t) PROVE LateInv'
    BY <1>2 DEF BeginStart
<1>3. ASSUME NEW t \in Actor, Cancel(t) PROVE LateInv'
    BY <1>3 DEF Cancel
<1>4. ASSUME NEW t \in Actor, AcquireControlPlane(t) PROVE LateInv'
    BY <1>4 DEF AcquireControlPlane
<1>5. ASSUME NEW t \in Actor, AcquireCancelled(t) PROVE LateInv'
    BY <1>5 DEF AcquireCancelled
<1>6. ASSUME NEW t \in Actor, EnsureExtensions(t) PROVE LateInv'
    BY <1>6 DEF EnsureExtensions
<1>7. ASSUME NEW t \in Actor, ExtensionFails(t) PROVE LateInv'
    BY <1>7 DEF ExtensionFails
<1>8. ASSUME NEW t \in Actor, OpenMigration(t) PROVE LateInv'
    BY <1>8 DEF OpenMigration
<1>9. ASSUME NEW t \in Actor, OpenSource(t) PROVE LateInv'
    BY <1>9 DEF OpenSource
<1>10. ASSUME NEW t \in Actor, OpenRetry(t) PROVE LateInv'
    BY <1>10 DEF OpenRetry
<1>11. ASSUME NEW t \in Actor, OpenFails(t) PROVE LateInv'
    BY <1>11 DEF OpenFails
<1>12. ASSUME NEW t \in Actor, ReadVersion(t) PROVE LateInv'
    BY <1>12 DEF ReadVersion
<1>13. ASSUME NEW t \in Actor, StartUp(t) PROVE LateInv'
    BY <1>13 DEF StartUp
<1>14. ASSUME NEW t \in Actor, UpDone(t) PROVE LateInv'
    BY <1>14 DEF UpDone
<1>15. ASSUME NEW t \in Actor, RunBody(t) PROVE LateInv'
    BY <1>15 DEF RunBody
<1>16. ASSUME NEW t \in Actor, MarkClean(t) PROVE LateInv'
    BY <1>16 DEF MarkClean
<1>17. ASSUME NEW t \in Actor, UpFails(t) PROVE LateInv'
    BY <1>17 DEF UpFails
<1>18. ASSUME NEW t \in Actor, CloseMigration(t) PROVE LateInv'
    <2>1. ~late[t] /\ pc[t] = "close"
        BY <1>18 DEF CloseMigration
    <2>2. CASE UNCHANGED <<ended, late>> /\ (Goto(t, "access") \/ Goto(t, "open"))
        BY <2>1, <2>2
    <2>3. CASE Return(t, FALSE)
        BY <2>1, <2>3
    <2> QED
        BY <1>18, <2>2, <2>3 DEF CloseMigration
<1>19. ASSUME NEW t \in Actor, LockAccess(t) PROVE LateInv'
    BY <1>19 DEF LockAccess
<1>20. ASSUME NEW t \in Actor, GrantTables(t) PROVE LateInv'
    BY <1>20 DEF GrantTables
<1>21. ASSUME NEW t \in Actor, CommitAccess(t) PROVE LateInv'
    BY <1>21 DEF CommitAccess
<1>22. ASSUME NEW t \in Actor, AccessFails(t) PROVE LateInv'
    BY <1>22 DEF AccessFails
<1>23. ASSUME NEW t \in Actor, OrphanEnds(t) PROVE LateInv'
    BY <1>23 DEF OrphanEnds
<1>24. ASSUME NEW t \in Actor, NEW v \in Version, MarkDirty(t, v) PROVE LateInv'
    BY <1>24 DEF MarkDirty
<1>25. ASSUME NEW t \in Actor, NEW l \in Lineage, NEW v \in Version, BeginSave(t, l, v)
       PROVE LateInv'
    BY <1>25 DEF BeginSave
<1>26. ASSUME NEW g \in Agent, Stop(g) PROVE LateInv'
    BY <1>26 DEF Stop
<1>27. ASSUME NEW g \in Agent, AgentDies(g) PROVE LateInv'
    BY <1>27 DEF AgentDies
<1>28. ASSUME NEW l \in Lineage, NEW v \in Version, SaveFile(l, v) PROVE LateInv'
    BY <1>28 DEF SaveFile
<1>29. ASSUME NEW l \in Lineage, Repair(l) PROVE LateInv'
    BY <1>29 DEF Repair
<1>30. CASE UNCHANGED vars
    BY <1>30 DEF vars
<1> QED
        BY <1>1, <1>2, <1>3, <1>4, <1>5, <1>6, <1>7, <1>8, <1>9, <1>10, <1>11, <1>12, <1>13,
        <1>14, <1>15, <1>16, <1>17, <1>18, <1>19, <1>20, <1>21, <1>22, <1>23, <1>24, <1>25, <1>26,
        <1>27, <1>28, <1>29, <1>30 DEF Next, Step, MigrateStep, AccessStep

\* The advisory lock is dropped wherever a session ends.
LEMMA OwnerStep == TypeOK /\ OwnerInv /\ [Next]_vars => OwnerInv'
<1> SUFFICES ASSUME TypeOK, OwnerInv, [Next]_vars PROVE OwnerInv'
    OBVIOUS
<1> USE DEF TypeOK, OwnerInv, InSession, localVars, agentVars, dbVars, Goto, Return, Fault,
        NoFault, Breaks, TakeLock, DropLock, Fail, Commit
<1>1. ASSUME NEW t \in Actor, BeginInit(t) PROVE OwnerInv'
    BY <1>1 DEF BeginInit
<1>2. ASSUME NEW t \in Actor, BeginStart(t) PROVE OwnerInv'
    BY <1>2 DEF BeginStart
<1>3. ASSUME NEW t \in Actor, Cancel(t) PROVE OwnerInv'
    BY <1>3 DEF Cancel
<1>4. ASSUME NEW t \in Actor, AcquireControlPlane(t) PROVE OwnerInv'
    BY <1>4 DEF AcquireControlPlane
<1>5. ASSUME NEW t \in Actor, AcquireCancelled(t) PROVE OwnerInv'
    BY <1>5 DEF AcquireCancelled
<1>6. ASSUME NEW t \in Actor, EnsureExtensions(t) PROVE OwnerInv'
    BY <1>6 DEF EnsureExtensions
<1>7. ASSUME NEW t \in Actor, ExtensionFails(t) PROVE OwnerInv'
    BY <1>7 DEF ExtensionFails
<1>8. ASSUME NEW t \in Actor, OpenMigration(t) PROVE OwnerInv'
    BY <1>8 DEF OpenMigration
<1>9. ASSUME NEW t \in Actor, OpenSource(t) PROVE OwnerInv'
    BY <1>9 DEF OpenSource
<1>10. ASSUME NEW t \in Actor, OpenRetry(t) PROVE OwnerInv'
    BY <1>10 DEF OpenRetry
<1>11. ASSUME NEW t \in Actor, OpenFails(t) PROVE OwnerInv'
    BY <1>11 DEF OpenFails
<1>12. ASSUME NEW t \in Actor, ReadVersion(t) PROVE OwnerInv'
    BY <1>12 DEF ReadVersion
<1>13. ASSUME NEW t \in Actor, StartUp(t) PROVE OwnerInv'
    BY <1>13 DEF StartUp
<1>14. ASSUME NEW t \in Actor, UpDone(t) PROVE OwnerInv'
    BY <1>14 DEF UpDone
<1>15. ASSUME NEW t \in Actor, RunBody(t) PROVE OwnerInv'
    BY <1>15 DEF RunBody
<1>16. ASSUME NEW t \in Actor, MarkClean(t) PROVE OwnerInv'
    BY <1>16 DEF MarkClean
<1>17. ASSUME NEW t \in Actor, UpFails(t) PROVE OwnerInv'
    BY <1>17 DEF UpFails
<1>18. ASSUME NEW t \in Actor, CloseMigration(t) PROVE OwnerInv'
    BY <1>18 DEF CloseMigration
<1>19. ASSUME NEW t \in Actor, LockAccess(t) PROVE OwnerInv'
    BY <1>19 DEF LockAccess
<1>20. ASSUME NEW t \in Actor, GrantTables(t) PROVE OwnerInv'
    BY <1>20 DEF GrantTables
<1>21. ASSUME NEW t \in Actor, CommitAccess(t) PROVE OwnerInv'
    BY <1>21 DEF CommitAccess
<1>22. ASSUME NEW t \in Actor, AccessFails(t) PROVE OwnerInv'
    BY <1>22 DEF AccessFails
<1>23. ASSUME NEW t \in Actor, OrphanEnds(t) PROVE OwnerInv'
    BY <1>23 DEF OrphanEnds
<1>24. ASSUME NEW t \in Actor, NEW v \in Version, MarkDirty(t, v) PROVE OwnerInv'
    BY <1>24 DEF MarkDirty
<1>25. ASSUME NEW t \in Actor, NEW l \in Lineage, NEW v \in Version, BeginSave(t, l, v)
       PROVE OwnerInv'
    BY <1>25 DEF BeginSave
<1>26. ASSUME NEW g \in Agent, Stop(g) PROVE OwnerInv'
    BY <1>26 DEF Stop
<1>27. ASSUME NEW g \in Agent, AgentDies(g) PROVE OwnerInv'
    BY <1>27 DEF AgentDies
<1>28. ASSUME NEW l \in Lineage, NEW v \in Version, SaveFile(l, v) PROVE OwnerInv'
    BY <1>28 DEF SaveFile
<1>29. ASSUME NEW l \in Lineage, Repair(l) PROVE OwnerInv'
    BY <1>29 DEF Repair
<1>30. CASE UNCHANGED vars
    BY <1>30 DEF vars
<1> QED
        BY <1>1, <1>2, <1>3, <1>4, <1>5, <1>6, <1>7, <1>8, <1>9, <1>10, <1>11, <1>12, <1>13,
        <1>14, <1>15, <1>16, <1>17, <1>18, <1>19, <1>20, <1>21, <1>22, <1>23, <1>24, <1>25, <1>26,
        <1>27, <1>28, <1>29, <1>30 DEF Next, Step, MigrateStep, AccessStep

\* While one session is open no other one is.
LEMMA Alone ==
    ASSUME SessionInv, NEW t \in Actor, pc[t] \in InSession, NEW u \in Actor, u # t
    PROVE  pc[u] \notin InSession
BY DEF SessionInv

\* A commit applies its migration and no other.
LEMMA CommitRuns ==
    ASSUME TypeOK, NEW l \in Lineage, NEW v \in Version, Commit(l, v)
    PROVE  /\ runs'[l][v] > 0
           /\ \A k \in Lineage, w \in Version : runs[k][w] > 0 => runs'[k][w] > 0
           /\ \A k \in Lineage, w \in Version : k # l \/ w # v => runs'[k][w] = runs[k][w]
<1>1. runs' = [runs EXCEPT ![l][v] = @ + 1] /\ runs[l][v] \in Nat
    BY DEF Commit, TypeOK
<1>2. runs'[l][v] = runs[l][v] + 1
    BY <1>1 DEF TypeOK
<1>3. \A k \in Lineage, w \in Version : k # l \/ w # v => runs'[k][w] = runs[k][w]
    BY <1>1 DEF TypeOK
<1>4. \A k \in Lineage, w \in Version : runs[k][w] > 0 => runs'[k][w] > 0
    BY <1>1, <1>2, <1>3 DEF TypeOK
<1> QED
    BY <1>1, <1>2, <1>3, <1>4

\* The commit of a body that Up or an orphaned backend runs keeps the ledger
\* truthful: the body's version is the one the ledger is dirty at.
LEMMA CommitUp ==
    ASSUME TypeOK, SessionInv, UpInv, LedgerTruthful, NEW t \in Actor, pc[t] \in {"body", "orphan"},
           Commit(at[t], pos[t]), NEW place \in {"clean", "close", "dead"}, Goto(t, place),
           UNCHANGED <<at, pos, snap, ledger>>
    PROVE  (UpInv /\ LedgerTruthful)'
<1>1. at[t] \in Lineage /\ pos[t] \in Version /\ ledger[at[t]] = Dirty(pos[t])
    BY DEF TypeOK, UpInv
<1>2. /\ runs'[at[t]][pos[t]] > 0
      /\ \A k \in Lineage, w \in Version : k # at[t] \/ w # pos[t] => runs'[k][w] = runs[k][w]
    BY <1>1, CommitRuns
<1>3. ASSUME NEW u \in Actor, u # t PROVE pc'[u] = pc[u] /\ pc[u] \notin InSession
    BY <1>3, Alone DEF Goto, InSession, TypeOK
<1>4. pc'[t] = place
    BY DEF Goto, TypeOK
<1>5. UpInv'
    <2> SUFFICES ASSUME NEW u \in Actor
                 PROVE  /\ pc'[u] \notin {"next", "body", "orphan"}
                        /\ pc'[u] = "clean" => u = t
        BY <1>1, <1>2 DEF UpInv
    <2> QED
        BY <1>3, <1>4 DEF InSession
<1>6. LedgerTruthful'
    <2>1. ledger[at[t]].version = pos[t] /\ ledger[at[t]].dirty
        BY <1>1 DEF Dirty
    <2>2. pos[t] \in Nat
        BY <1>1 DEF Version
    <2>3. ASSUME NEW l \in Lineage, NEW v \in Version, runs'[l][v] > 0 PROVE v <= ledger[l].version
        BY <1>1, <1>2, <2>1, <2>2, <2>3 DEF LedgerTruthful
    <2>4. ASSUME NEW l \in Lineage, ~ledger[l].dirty, ledger[l].version > 0
          PROVE  runs'[l][ledger[l].version] > 0
        <3>1. l # at[t] /\ ledger[l].version \in Version
            BY <2>1, <2>4 DEF TypeOK
        <3> QED
            BY <1>2, <2>4, <3>1 DEF LedgerTruthful
    <2> QED
        BY <2>3, <2>4 DEF LedgerTruthful
<1> QED
    BY <1>5, <1>6

\* A step that applies nothing, leaves the ledgers alone and moves nobody to
\* where Up's position matters.
LEMMA KeepUp ==
    ASSUME UpInv, LedgerTruthful, UNCHANGED <<runs, ledger>>,
           \A u \in Actor : pc'[u] \in {"next", "body", "clean", "orphan"} =>
                /\ pc'[u] = pc[u] /\ at'[u] = at[u]
                /\ pos'[u] = pos[u] /\ snap'[u] = snap[u]
    PROVE  (UpInv /\ LedgerTruthful)'
<1>1. LedgerTruthful'
    BY DEF LedgerTruthful
<1>2. UpInv'
    BY DEF UpInv, Passed, Clean, Dirty
<1> QED
    BY <1>1, <1>2

\* What was reached stays reached when a body commits.
LEMMA CommitReached ==
    ASSUME TypeOK, NEW l \in Lineage, NEW v \in Version, Commit(l, v)
    PROVE  \A k \in Lineage, w \in Version : Reached(k, w) => Reached(k, w)'
BY CommitRuns DEF Reached

\* Up's bookkeeping and the ledger move together: alone in its session, it
\* marks the least listed version above its position, which is above everything
\* applied.
LEMMA UpStep ==
    TypeOK /\ SessionInv /\ UpInv /\ LedgerTruthful /\ [Next]_vars
        => (UpInv /\ LedgerTruthful)'
<1> SUFFICES ASSUME TypeOK, SessionInv, UpInv, LedgerTruthful, [Next]_vars PROVE (UpInv /\
        LedgerTruthful)'
    OBVIOUS
<1> USE DEF TypeOK, SessionInv, InSession, UpInv, LedgerTruthful, Passed, Clean, Dirty, localVars,
        agentVars, dbVars, Goto, Return, Fault, NoFault, Breaks, TakeLock, DropLock, Fail, Commit
<1>1. ASSUME NEW t \in Actor, BeginInit(t) PROVE (UpInv /\ LedgerTruthful)'
    BY <1>1 DEF BeginInit
<1>2. ASSUME NEW t \in Actor, BeginStart(t) PROVE (UpInv /\ LedgerTruthful)'
    BY <1>2 DEF BeginStart
<1>3. ASSUME NEW t \in Actor, Cancel(t) PROVE (UpInv /\ LedgerTruthful)'
    BY <1>3 DEF Cancel
<1>4. ASSUME NEW t \in Actor, AcquireControlPlane(t) PROVE (UpInv /\ LedgerTruthful)'
    BY <1>4 DEF AcquireControlPlane
<1>5. ASSUME NEW t \in Actor, AcquireCancelled(t) PROVE (UpInv /\ LedgerTruthful)'
    BY <1>5 DEF AcquireCancelled
<1>6. ASSUME NEW t \in Actor, EnsureExtensions(t) PROVE (UpInv /\ LedgerTruthful)'
    BY <1>6 DEF EnsureExtensions
<1>7. ASSUME NEW t \in Actor, ExtensionFails(t) PROVE (UpInv /\ LedgerTruthful)'
    BY <1>7 DEF ExtensionFails
<1>8. ASSUME NEW t \in Actor, OpenMigration(t) PROVE (UpInv /\ LedgerTruthful)'
    BY <1>8 DEF OpenMigration
<1>9. ASSUME NEW t \in Actor, OpenSource(t) PROVE (UpInv /\ LedgerTruthful)'
    BY <1>9 DEF OpenSource
<1>10. ASSUME NEW t \in Actor, OpenRetry(t) PROVE (UpInv /\ LedgerTruthful)'
    BY <1>10 DEF OpenRetry
<1>11. ASSUME NEW t \in Actor, OpenFails(t) PROVE (UpInv /\ LedgerTruthful)'
    BY <1>11 DEF OpenFails
<1>12. ASSUME NEW t \in Actor, ReadVersion(t) PROVE (UpInv /\ LedgerTruthful)'
    BY <1>12 DEF ReadVersion
<1>13. ASSUME NEW t \in Actor, StartUp(t) PROVE (UpInv /\ LedgerTruthful)'
    <2> DEFINE l == at[t]
    <2>1. /\ pc[t] = "up" /\ UNCHANGED <<at, snap, ledger, runs>> /\ l \in Lineage
          /\ pos' = [pos EXCEPT ![t] = ledger[l].version]
        BY <1>13 DEF StartUp
    <2>2. CASE Goto(t, "close")
        <3>1. \A u \in Actor : pc'[u] \in {"next", "body", "clean", "orphan"} =>
                pc'[u] = pc[u] /\ pos'[u] = pos[u]
            BY <2>1, <2>2
        <3> HIDE DEF UpInv, LedgerTruthful
        <3> QED
            BY <2>1, <3>1, KeepUp
    <2>3. CASE ~ledger[l].dirty /\ Goto(t, "next")
        <3>1. ledger[l] = Clean(ledger[l].version)
            BY <2>1, <2>3
        <3>2. pc'[t] = "next" /\ pos'[t] = ledger[l].version
            BY <2>1, <2>3
        <3>3. ASSUME NEW u \in Actor, u # t PROVE pc'[u] = pc[u] /\ pc[u] \notin InSession
            BY <2>1, <2>3, <3>3
        <3>4. UpInv'
            <4> SUFFICES ASSUME NEW u \in Actor
                         PROVE  /\ pc'[u] \notin {"body", "clean", "orphan"}
                                /\ pc'[u] = "next" => u = t
                BY <2>1, <3>1, <3>2
            <4> QED
                BY <3>2, <3>3
        <3>5. LedgerTruthful'
            BY <2>1
        <3> QED
            BY <3>4, <3>5
    <2> QED
        BY <1>13, <2>2, <2>3 DEF StartUp, FailsClosed
<1>14. ASSUME NEW t \in Actor, UpDone(t) PROVE (UpInv /\ LedgerTruthful)'
    BY <1>14 DEF UpDone
<1>15. ASSUME NEW t \in Actor, RunBody(t) PROVE (UpInv /\ LedgerTruthful)'
    <2>1. /\ pc[t] = "body" /\ Commit(at[t], pos[t]) /\ Goto(t, "clean")
          /\ UNCHANGED <<at, pos, snap, ledger>>
        BY <1>15 DEF RunBody
    <2> HIDE DEF UpInv, LedgerTruthful, Commit, Goto, SessionInv, TypeOK
    <2> QED
        BY <2>1, CommitUp
<1>16. ASSUME NEW t \in Actor, MarkClean(t) PROVE (UpInv /\ LedgerTruthful)'
    <2> DEFINE l == at[t]
    <2>1. /\ pc[t] = "clean" /\ UNCHANGED <<at, pos, snap, runs>> /\ l \in Lineage /\ pos[t] \in Version
          /\ ledger' = [ledger EXCEPT ![l] = Clean(pos[t])] /\ pc' = [pc EXCEPT ![t] = "next"]
        BY <1>16 DEF MarkClean
    <2>2. ledger[l].version = pos[t] /\ runs[l][pos[t]] > 0
        <3> HIDE DEF Dirty, Clean, TypeOK, Passed, LedgerTruthful
        <3>1. ledger[l] = Dirty(pos[t]) /\ runs[l][pos[t]] > 0
            BY <2>1 DEF UpInv
        <3> QED
            BY <3>1 DEF Dirty
    <2>3. ASSUME NEW u \in Actor, u # t PROVE pc'[u] = pc[u] /\ pc[u] \notin InSession
        BY <2>1, <2>3
    <2>4. ledger'[l] = Clean(pos[t]) /\ \A k \in Lineage : k # l => ledger'[k] = ledger[k]
        BY <2>1
    <2>5. UpInv'
        <3> SUFFICES ASSUME NEW u \in Actor
                     PROVE  /\ pc'[u] \notin {"body", "clean", "orphan"}
                            /\ pc'[u] = "next" => u = t
            BY <2>1, <2>4
        <3> QED
            BY <2>1, <2>3
    <2>6. LedgerTruthful'
        BY <2>1, <2>2, <2>4
    <2> QED
        BY <2>5, <2>6
<1>17. ASSUME NEW t \in Actor, UpFails(t) PROVE (UpInv /\ LedgerTruthful)'
    <2>1. Goto(t, "close") /\ UNCHANGED <<at, pos, snap, ledger>>
        BY <1>17 DEF UpFails
    <2>2. CASE pc[t] = "body" /\ Commit(at[t], pos[t])
        <3> HIDE DEF UpInv, LedgerTruthful, Commit, Goto, SessionInv, TypeOK
        <3> QED
            BY <2>1, <2>2, CommitUp
    <2>3. CASE UNCHANGED <<runs, granted>>
        <3>1. \A u \in Actor : pc'[u] \in {"next", "body", "clean", "orphan"} => pc'[u] = pc[u]
            BY <2>1
        <3> HIDE DEF UpInv, LedgerTruthful
        <3> QED
            BY <2>1, <2>3, <3>1, KeepUp
    <2> QED
        BY <1>17, <2>2, <2>3 DEF UpFails
<1>18. ASSUME NEW t \in Actor, CloseMigration(t) PROVE (UpInv /\ LedgerTruthful)'
    <2>1. \A u \in Actor : u # t =>
            pc'[u] = pc[u] /\ at'[u] = at[u] /\ pos'[u] = pos[u] /\ snap'[u] = snap[u]
        BY <1>18 DEF CloseMigration
    <2>2. pc'[t] \in {"access", "idle", "open"} /\ UNCHANGED <<runs, ledger>>
        BY <1>18 DEF CloseMigration
    <2> HIDE DEF UpInv, LedgerTruthful
    <2> QED
        BY <2>1, <2>2, KeepUp
<1>19. ASSUME NEW t \in Actor, LockAccess(t) PROVE (UpInv /\ LedgerTruthful)'
    BY <1>19 DEF LockAccess
<1>20. ASSUME NEW t \in Actor, GrantTables(t) PROVE (UpInv /\ LedgerTruthful)'
    BY <1>20 DEF GrantTables
<1>21. ASSUME NEW t \in Actor, CommitAccess(t) PROVE (UpInv /\ LedgerTruthful)'
    BY <1>21 DEF CommitAccess
<1>22. ASSUME NEW t \in Actor, AccessFails(t) PROVE (UpInv /\ LedgerTruthful)'
    BY <1>22 DEF AccessFails
<1>23. ASSUME NEW t \in Actor, OrphanEnds(t) PROVE (UpInv /\ LedgerTruthful)'
    <2>1. Goto(t, "dead") /\ UNCHANGED <<at, pos, snap, ledger>>
        BY <1>23 DEF OrphanEnds
    <2>2. CASE pc[t] = "orphan" /\ Commit(at[t], pos[t])
        <3> HIDE DEF UpInv, LedgerTruthful, Commit, Goto, SessionInv, TypeOK
        <3> QED
            BY <2>1, <2>2, CommitUp
    <2>3. CASE UNCHANGED <<runs, granted>>
        <3>1. \A u \in Actor : pc'[u] \in {"next", "body", "clean", "orphan"} => pc'[u] = pc[u]
            BY <2>1
        <3> HIDE DEF UpInv, LedgerTruthful
        <3> QED
            BY <2>1, <2>3, <3>1, KeepUp
    <2> QED
        BY <1>23, <2>2, <2>3 DEF OrphanEnds
<1>24. ASSUME NEW t \in Actor, NEW v \in Version, MarkDirty(t, v) PROVE (UpInv /\ LedgerTruthful)'
    <2> DEFINE l == at[t]
    <2>1. /\ pc[t] = "next" /\ UNCHANGED <<at, snap, runs>> /\ l \in Lineage
          /\ ledger' = [ledger EXCEPT ![l] = Dirty(v)] /\ pc' = [pc EXCEPT ![t] = "body"]
          /\ pos' = [pos EXCEPT ![t] = v]
        BY <1>24 DEF MarkDirty
    <2>2. v > pos[t] /\ \A w \in snap[t][l] : w > pos[t] => v <= w
        BY <1>24 DEF MarkDirty, Above
    <2>3. ledger[l].version = pos[t] /\ ~ledger[l].dirty
        <3> HIDE DEF Dirty, Clean, TypeOK, Passed, LedgerTruthful
        <3>1. ledger[l] = Clean(pos[t])
            BY <2>1 DEF UpInv
        <3> QED
            BY <3>1 DEF Clean
    <2>4. /\ \A w \in Version : runs[l][w] > 0 => w <= pos[t]
          /\ pos[t] > 0 => runs[l][pos[t]] > 0
        BY <2>1, <2>3
    <2>5. v \in Nat /\ pos[t] \in Nat /\ snap[t][l] \subseteq Nat /\ Version \subseteq Nat \ {0}
          /\ pos[t] \in Version \cup {0} /\ snap[t][l] \subseteq Version
        BY <2>1 DEF Version
    <2>6. \A w \in Version : runs[l][w] > 0 => w < v
        BY <2>2, <2>4, <2>5
    <2>7. \A w \in snap[t][l] : w < v => Passed(l, w, v)
        <3> SUFFICES ASSUME NEW w \in snap[t][l], w < v PROVE Passed(l, w, v)
            OBVIOUS
        <3>1. w <= pos[t] /\ pos[t] < v /\ pos[t] \in Version
            BY <2>2, <2>5
        <3>2. runs[l][pos[t]] > 0
            BY <2>4, <2>5, <3>1
        <3> QED
            BY <3>1, <3>2
    <2>8. ASSUME NEW u \in Actor, u # t PROVE pc'[u] = pc[u] /\ pc[u] \notin InSession
        BY <2>1, <2>8
    <2>9. ledger'[l] = Dirty(v) /\ \A k \in Lineage : k # l => ledger'[k] = ledger[k]
        BY <2>1
    <2>10. UpInv'
        <3> SUFFICES ASSUME NEW u \in Actor
                     PROVE  /\ pc'[u] \notin {"next", "clean", "orphan"}
                            /\ pc'[u] = "body" => u = t
            BY <2>1, <2>6, <2>7, <2>9
        <3> QED
            BY <2>1, <2>8
    <2>11. ASSUME NEW k \in Lineage, NEW w \in Version, runs'[k][w] > 0 PROVE w <= ledger'[k].version
        <3>1. CASE k = l
            BY <2>1, <2>5, <2>6, <2>9, <2>11, <3>1
        <3>2. CASE k # l
            BY <2>1, <2>9, <2>11, <3>2
        <3> QED
            BY <3>1, <3>2
    <2>12. ASSUME NEW k \in Lineage, ~ledger'[k].dirty, ledger'[k].version > 0
           PROVE  runs'[k][ledger'[k].version] > 0
        <3>1. k # l
            BY <2>9, <2>12
        <3> QED
            BY <2>1, <2>9, <2>12, <3>1
    <2> QED
        BY <2>10, <2>11, <2>12
<1>25. ASSUME NEW t \in Actor, NEW l \in Lineage, NEW v \in Version, BeginSave(t, l, v)
       PROVE (UpInv /\ LedgerTruthful)'
    BY <1>25 DEF BeginSave
<1>26. ASSUME NEW g \in Agent, Stop(g) PROVE (UpInv /\ LedgerTruthful)'
    BY <1>26 DEF Stop
<1>27. ASSUME NEW g \in Agent, AgentDies(g) PROVE (UpInv /\ LedgerTruthful)'
    BY <1>27 DEF AgentDies
<1>28. ASSUME NEW l \in Lineage, NEW v \in Version, SaveFile(l, v) PROVE (UpInv /\ LedgerTruthful)'
    BY <1>28 DEF SaveFile
<1>29. ASSUME NEW l \in Lineage, Repair(l) PROVE (UpInv /\ LedgerTruthful)'
    BY <1>29 DEF Repair
<1>30. CASE UNCHANGED vars
    BY <1>30 DEF vars
<1> QED
        BY <1>1, <1>2, <1>3, <1>4, <1>5, <1>6, <1>7, <1>8, <1>9, <1>10, <1>11, <1>12, <1>13,
        <1>14, <1>15, <1>16, <1>17, <1>18, <1>19, <1>20, <1>21, <1>22, <1>23, <1>24, <1>25, <1>26,
        <1>27, <1>28, <1>29, <1>30 DEF Next, Step, MigrateStep, AccessStep

\* No table appears while a reconciliation is in its transaction, and one that
\* appears afterwards is covered by the default privileges.
LEMMA GrantStep ==
    TypeOK /\ SessionInv /\ GrantInv /\ GrantsCoverSchema /\ [Next]_vars
        => (GrantInv /\ GrantsCoverSchema)'
<1> SUFFICES ASSUME TypeOK, SessionInv, GrantInv, GrantsCoverSchema, [Next]_vars PROVE (GrantInv
        /\ GrantsCoverSchema)'
    OBVIOUS
<1> USE DEF TypeOK, SessionInv, InSession, GrantInv, GrantsCoverSchema, Tables, Table, localVars,
        agentVars, dbVars, Goto, Return, Fault, NoFault, Breaks, TakeLock, DropLock, Fail, Commit
<1>1. ASSUME NEW t \in Actor, BeginInit(t) PROVE (GrantInv /\ GrantsCoverSchema)'
    BY <1>1 DEF BeginInit
<1>2. ASSUME NEW t \in Actor, BeginStart(t) PROVE (GrantInv /\ GrantsCoverSchema)'
    BY <1>2 DEF BeginStart
<1>3. ASSUME NEW t \in Actor, Cancel(t) PROVE (GrantInv /\ GrantsCoverSchema)'
    BY <1>3 DEF Cancel
<1>4. ASSUME NEW t \in Actor, AcquireControlPlane(t) PROVE (GrantInv /\ GrantsCoverSchema)'
    BY <1>4 DEF AcquireControlPlane
<1>5. ASSUME NEW t \in Actor, AcquireCancelled(t) PROVE (GrantInv /\ GrantsCoverSchema)'
    BY <1>5 DEF AcquireCancelled
<1>6. ASSUME NEW t \in Actor, EnsureExtensions(t) PROVE (GrantInv /\ GrantsCoverSchema)'
    BY <1>6 DEF EnsureExtensions
<1>7. ASSUME NEW t \in Actor, ExtensionFails(t) PROVE (GrantInv /\ GrantsCoverSchema)'
    BY <1>7 DEF ExtensionFails
<1>8. ASSUME NEW t \in Actor, OpenMigration(t) PROVE (GrantInv /\ GrantsCoverSchema)'
    BY <1>8 DEF OpenMigration
<1>9. ASSUME NEW t \in Actor, OpenSource(t) PROVE (GrantInv /\ GrantsCoverSchema)'
    BY <1>9 DEF OpenSource
<1>10. ASSUME NEW t \in Actor, OpenRetry(t) PROVE (GrantInv /\ GrantsCoverSchema)'
    BY <1>10 DEF OpenRetry
<1>11. ASSUME NEW t \in Actor, OpenFails(t) PROVE (GrantInv /\ GrantsCoverSchema)'
    BY <1>11 DEF OpenFails
<1>12. ASSUME NEW t \in Actor, ReadVersion(t) PROVE (GrantInv /\ GrantsCoverSchema)'
    BY <1>12 DEF ReadVersion
<1>13. ASSUME NEW t \in Actor, StartUp(t) PROVE (GrantInv /\ GrantsCoverSchema)'
    BY <1>13 DEF StartUp
<1>14. ASSUME NEW t \in Actor, UpDone(t) PROVE (GrantInv /\ GrantsCoverSchema)'
    BY <1>14 DEF UpDone
<1>15. ASSUME NEW t \in Actor, RunBody(t) PROVE (GrantInv /\ GrantsCoverSchema)'
    BY <1>15 DEF RunBody
<1>16. ASSUME NEW t \in Actor, MarkClean(t) PROVE (GrantInv /\ GrantsCoverSchema)'
    BY <1>16 DEF MarkClean
<1>17. ASSUME NEW t \in Actor, UpFails(t) PROVE (GrantInv /\ GrantsCoverSchema)'
    <2>1. Goto(t, "close") /\ UNCHANGED <<grants, defaults>>
        BY <1>17 DEF UpFails
    <2>2. CASE pc[t] = "body" /\ Commit(at[t], pos[t])
        <3>1. /\ at[t] \in Lineage /\ pos[t] \in Version
              /\ granted' = IF defaults THEN granted \cup {<<at[t], pos[t]>>} ELSE granted
            BY <2>2
        <3>2. \A k \in Lineage, w \in Version : k # at[t] \/ w # pos[t] => runs'[k][w] = runs[k][w]
            BY <2>2, <3>1, CommitRuns
        <3>3. \A x \in Tables' : x \in Tables \/ x = <<at[t], pos[t]>>
            BY <3>1, <3>2
        <3>4. GrantsCoverSchema'
            BY <2>2, <2>1, <3>1, <3>3
        <3>5. \A u \in Actor : pc'[u] # "commit"
            BY <2>2, <2>1
        <3> QED
            BY <3>4, <3>5
    <2>3. CASE UNCHANGED <<runs, granted>>
        BY <2>1, <2>3
    <2> QED
        BY <1>17, <2>2, <2>3 DEF UpFails
<1>18. ASSUME NEW t \in Actor, CloseMigration(t) PROVE (GrantInv /\ GrantsCoverSchema)'
    <2>1. /\ UNCHANGED <<runs, granted, defaults>> /\ pc'[t] # "commit"
          /\ \A u \in Actor : u # t => pc'[u] = pc[u] /\ grants'[u] = grants[u]
        BY <1>18 DEF CloseMigration
    <2> QED
        BY <2>1
<1>19. ASSUME NEW t \in Actor, LockAccess(t) PROVE (GrantInv /\ GrantsCoverSchema)'
    BY <1>19 DEF LockAccess
<1>20. ASSUME NEW t \in Actor, GrantTables(t) PROVE (GrantInv /\ GrantsCoverSchema)'
    BY <1>20 DEF GrantTables
<1>21. ASSUME NEW t \in Actor, CommitAccess(t) PROVE (GrantInv /\ GrantsCoverSchema)'
    BY <1>21 DEF CommitAccess, Publish
<1>22. ASSUME NEW t \in Actor, AccessFails(t) PROVE (GrantInv /\ GrantsCoverSchema)'
    BY <1>22 DEF AccessFails, Publish
<1>23. ASSUME NEW t \in Actor, OrphanEnds(t) PROVE (GrantInv /\ GrantsCoverSchema)'
    <2>1. Goto(t, "dead") /\ UNCHANGED <<grants, defaults>>
        BY <1>23 DEF OrphanEnds
    <2>2. CASE pc[t] = "orphan" /\ Commit(at[t], pos[t])
        <3>1. /\ at[t] \in Lineage /\ pos[t] \in Version
              /\ granted' = IF defaults THEN granted \cup {<<at[t], pos[t]>>} ELSE granted
            BY <2>2
        <3>2. \A k \in Lineage, w \in Version : k # at[t] \/ w # pos[t] => runs'[k][w] = runs[k][w]
            BY <2>2, <3>1, CommitRuns
        <3>3. \A x \in Tables' : x \in Tables \/ x = <<at[t], pos[t]>>
            BY <3>1, <3>2
        <3>4. GrantsCoverSchema'
            BY <2>2, <2>1, <3>1, <3>3
        <3>5. \A u \in Actor : pc'[u] # "commit"
            BY <2>2, <2>1
        <3> QED
            BY <3>4, <3>5
    <2>3. CASE UNCHANGED <<runs, granted>>
        BY <2>1, <2>3
    <2> QED
        BY <1>23, <2>2, <2>3 DEF OrphanEnds
<1>24. ASSUME NEW t \in Actor, NEW v \in Version, MarkDirty(t, v)
       PROVE (GrantInv /\ GrantsCoverSchema)'
    BY <1>24 DEF MarkDirty
<1>25. ASSUME NEW t \in Actor, NEW l \in Lineage, NEW v \in Version, BeginSave(t, l, v)
       PROVE (GrantInv /\ GrantsCoverSchema)'
    BY <1>25 DEF BeginSave
<1>26. ASSUME NEW g \in Agent, Stop(g) PROVE (GrantInv /\ GrantsCoverSchema)'
    BY <1>26 DEF Stop
<1>27. ASSUME NEW g \in Agent, AgentDies(g) PROVE (GrantInv /\ GrantsCoverSchema)'
    BY <1>27 DEF AgentDies
<1>28. ASSUME NEW l \in Lineage, NEW v \in Version, SaveFile(l, v)
       PROVE (GrantInv /\ GrantsCoverSchema)'
    BY <1>28 DEF SaveFile
<1>29. ASSUME NEW l \in Lineage, Repair(l) PROVE (GrantInv /\ GrantsCoverSchema)'
    BY <1>29 DEF Repair
<1>30. CASE UNCHANGED vars
    BY <1>30 DEF vars
<1> QED
        BY <1>1, <1>2, <1>3, <1>4, <1>5, <1>6, <1>7, <1>8, <1>9, <1>10, <1>11, <1>12, <1>13,
        <1>14, <1>15, <1>16, <1>17, <1>18, <1>19, <1>20, <1>21, <1>22, <1>23, <1>24, <1>25, <1>26,
        <1>27, <1>28, <1>29, <1>30 DEF Next, Step, MigrateStep, AccessStep

\* A lineage that was left behind without an error is at or above every version
\* that was listed of it.
LEMMA ListedStep ==
    TypeOK /\ SessionInv /\ UpInv /\ LedgerTruthful /\ ListedInv /\ [Next]_vars
        => ListedInv'
<1> SUFFICES ASSUME TypeOK, SessionInv, UpInv, LedgerTruthful, ListedInv, [Next]_vars PROVE
        ListedInv'
    OBVIOUS
<1> USE DEF TypeOK, ListedInv, Reached, Lineage, localVars, agentVars, dbVars, Goto, Return,
        Fault, NoFault, Breaks, TakeLock, DropLock, Fail, Commit
<1>1. ASSUME NEW t \in Actor, BeginInit(t) PROVE ListedInv'
    BY <1>1 DEF BeginInit
<1>2. ASSUME NEW t \in Actor, BeginStart(t) PROVE ListedInv'
    BY <1>2 DEF BeginStart
<1>3. ASSUME NEW t \in Actor, Cancel(t) PROVE ListedInv'
    BY <1>3 DEF Cancel
<1>4. ASSUME NEW t \in Actor, AcquireControlPlane(t) PROVE ListedInv'
    BY <1>4 DEF AcquireControlPlane
<1>5. ASSUME NEW t \in Actor, AcquireCancelled(t) PROVE ListedInv'
    BY <1>5 DEF AcquireCancelled
<1>6. ASSUME NEW t \in Actor, EnsureExtensions(t) PROVE ListedInv'
    BY <1>6 DEF EnsureExtensions
<1>7. ASSUME NEW t \in Actor, ExtensionFails(t) PROVE ListedInv'
    BY <1>7 DEF ExtensionFails
<1>8. ASSUME NEW t \in Actor, OpenMigration(t) PROVE ListedInv'
    BY <1>8 DEF OpenMigration
<1>9. ASSUME NEW t \in Actor, OpenSource(t) PROVE ListedInv'
    BY <1>9 DEF OpenSource
<1>10. ASSUME NEW t \in Actor, OpenRetry(t) PROVE ListedInv'
    BY <1>10 DEF OpenRetry
<1>11. ASSUME NEW t \in Actor, OpenFails(t) PROVE ListedInv'
    BY <1>11 DEF OpenFails
<1>12. ASSUME NEW t \in Actor, ReadVersion(t) PROVE ListedInv'
    BY <1>12 DEF ReadVersion
<1>13. ASSUME NEW t \in Actor, StartUp(t) PROVE ListedInv'
    BY <1>13 DEF StartUp
<1>14. ASSUME NEW t \in Actor, UpDone(t) PROVE ListedInv'
    <2> DEFINE l == at[t]
    <2>1. /\ pc[t] = "next" /\ UNCHANGED <<op, at, snap, runs, failed>> /\ pc' = [pc EXCEPT ![t] = "close"]
          /\ l \in Lineage /\ \A v \in snap[t][l] : ~(v > pos[t])
        BY <1>14 DEF UpDone, Above
    <2>2. ledger[l] = Clean(pos[t])
        BY <2>1 DEF UpInv
    <2>3. ledger[l].version = pos[t] /\ ~ledger[l].dirty
        BY <2>2 DEF Clean
    <2>4. pos[t] > 0 => runs[l][pos[t]] > 0
        BY <2>1, <2>3 DEF LedgerTruthful
    <2>5. snap[t][l] \subseteq Version /\ pos[t] \in Version \cup {0} /\ Version \subseteq Nat \ {0}
        BY <2>1 DEF Version
    <2>6. \A v \in snap[t][l] : Reached(l, v)
        <3> SUFFICES ASSUME NEW v \in snap[t][l] PROVE Reached(l, v)
            OBVIOUS
        <3>1. v \in Nat \ {0} /\ pos[t] \in Nat /\ ~(v > pos[t])
            <4> HIDE DEF TypeOK, Lineage, ListedInv, l
            <4>1. v \in Version /\ ~(v > pos[t])
                BY <2>1, <2>5
            <4> QED
                BY <2>5, <4>1 DEF Version
        <3>2. pos[t] >= v /\ pos[t] > 0
            BY <3>1
        <3>3. pos[t] \in Version /\ runs[l][pos[t]] > 0
            BY <2>4, <2>5, <3>2
        <3> QED
            BY <3>2, <3>3 DEF Reached
    <2>7. \A k \in Lineage, v \in Version : Reached(k, v)' = Reached(k, v)
        BY <2>1 DEF Reached
    <2> HIDE DEF Reached
    <2> QED
        BY <2>1, <2>5, <2>6, <2>7
<1>15. ASSUME NEW t \in Actor, RunBody(t) PROVE ListedInv'
    <2>1. Goto(t, "clean") /\ UNCHANGED <<op, at, snap, failed>>
        BY <1>15 DEF RunBody
    <2>2. pc[t] = "body" /\ Commit(at[t], pos[t])
        BY <1>15 DEF RunBody
    <2> QED
        <3>1. at[t] \in Lineage /\ pos[t] \in Version
            BY <2>2
        <3>2. \A k \in Lineage, w \in Version : Reached(k, w) => Reached(k, w)'
            BY <2>2, <3>1, CommitReached
        <3>3. \A u \in Actor : at[u] \in Lineage /\ \A k \in Lineage : snap[u][k] \subseteq Version
            OBVIOUS
        <3> HIDE DEF Reached, Commit
        <3> QED
            BY <2>2, <2>1, <3>2, <3>3
<1>16. ASSUME NEW t \in Actor, MarkClean(t) PROVE ListedInv'
    BY <1>16 DEF MarkClean
<1>17. ASSUME NEW t \in Actor, UpFails(t) PROVE ListedInv'
    <2>1. Goto(t, "close") /\ UNCHANGED <<op, at, snap>> /\ failed' = [failed EXCEPT ![t] = TRUE]
        BY <1>17 DEF UpFails
    <2>2. CASE pc[t] = "body" /\ Commit(at[t], pos[t])
        <3>1. at[t] \in Lineage /\ pos[t] \in Version
            BY <2>2
        <3>2. \A k \in Lineage, w \in Version : Reached(k, w) => Reached(k, w)'
            BY <2>2, <3>1, CommitReached
        <3>3. \A u \in Actor : at[u] \in Lineage /\ \A k \in Lineage : snap[u][k] \subseteq Version
            OBVIOUS
        <3> HIDE DEF Reached, Commit
        <3> QED
            BY <2>2, <2>1, <3>2, <3>3
    <2>3. CASE UNCHANGED <<runs, granted>>
        BY <2>1, <2>3
    <2> QED
        BY <1>17, <2>2, <2>3 DEF UpFails
<1>18. ASSUME NEW t \in Actor, CloseMigration(t) PROVE ListedInv'
    <2>1. pc[t] = "close" /\ UNCHANGED runs /\ at[t] \in Lineage
        BY <1>18 DEF CloseMigration
    <2>2. CASE op[t] = "save" /\ Goto(t, "access") /\ UNCHANGED localVars
        BY <2>1, <2>2
    <2>3. CASE Return(t, FALSE)
        BY <2>1, <2>3
    <2>4. CASE /\ op[t] # "save" /\ ~failed[t] /\ at[t] < NLineage
               /\ Goto(t, "open") /\ at' = [at EXCEPT ![t] = @ + 1]
               /\ UNCHANGED <<op, snap, failed>>
        <3>1. /\ pc' = [pc EXCEPT ![t] = "open"] /\ at'[t] = at[t] + 1
              /\ \A u \in Actor : u # t => at'[u] = at[u]
            BY <2>4
        <3>2. op[t] \in {"init", "start"} => \A v \in snap[t][at[t]] : Reached(at[t], v)
            BY <2>1, <2>4
        <3>3. \A l \in Lineage : l < at[t] + 1 => l < at[t] \/ l = at[t]
            BY <2>1
        <3>4. op[t] \in {"init", "start"} =>
                \A l \in Lineage : l < at'[t] => \A v \in snap[t][l] : Reached(l, v)
            <4> HIDE DEF Reached
            <4> SUFFICES ASSUME op[t] \in {"init", "start"}, NEW l \in Lineage, l < at'[t],
                                NEW v \in snap[t][l]
                         PROVE  Reached(l, v)
                OBVIOUS
            <4>1. CASE l < at[t]
                BY <4>1
            <4>2. CASE l = at[t]
                BY <3>2, <4>2
            <4> QED
                BY <3>1, <3>3, <4>1, <4>2
        <3> HIDE DEF Reached
        <3>5. \A l \in Lineage, v \in Version : Reached(l, v)' = Reached(l, v)
            BY <2>1 DEF Reached
        <3> QED
            BY <2>1, <2>4, <3>1, <3>4, <3>5
    <2>5. CASE /\ op[t] # "save" /\ ~failed[t] /\ at[t] = NLineage
               /\ Goto(t, "access") /\ UNCHANGED localVars
        BY <2>1, <2>5
    <2> QED
        BY <1>18, <2>2, <2>3, <2>4, <2>5 DEF CloseMigration
<1>19. ASSUME NEW t \in Actor, LockAccess(t) PROVE ListedInv'
    BY <1>19 DEF LockAccess
<1>20. ASSUME NEW t \in Actor, GrantTables(t) PROVE ListedInv'
    BY <1>20 DEF GrantTables
<1>21. ASSUME NEW t \in Actor, CommitAccess(t) PROVE ListedInv'
    BY <1>21 DEF CommitAccess
<1>22. ASSUME NEW t \in Actor, AccessFails(t) PROVE ListedInv'
    BY <1>22 DEF AccessFails
<1>23. ASSUME NEW t \in Actor, OrphanEnds(t) PROVE ListedInv'
    <2>1. Goto(t, "dead") /\ UNCHANGED <<op, at, snap>> /\ UNCHANGED failed
        BY <1>23 DEF OrphanEnds
    <2>2. CASE pc[t] = "orphan" /\ Commit(at[t], pos[t])
        <3>1. at[t] \in Lineage /\ pos[t] \in Version
            BY <2>2
        <3>2. \A k \in Lineage, w \in Version : Reached(k, w) => Reached(k, w)'
            BY <2>2, <3>1, CommitReached
        <3>3. \A u \in Actor : at[u] \in Lineage /\ \A k \in Lineage : snap[u][k] \subseteq Version
            OBVIOUS
        <3> HIDE DEF Reached, Commit
        <3> QED
            BY <2>2, <2>1, <3>2, <3>3
    <2>3. CASE UNCHANGED <<runs, granted>>
        BY <2>1, <2>3
    <2> QED
        BY <1>23, <2>2, <2>3 DEF OrphanEnds
<1>24. ASSUME NEW t \in Actor, NEW v \in Version, MarkDirty(t, v) PROVE ListedInv'
    BY <1>24 DEF MarkDirty
<1>25. ASSUME NEW t \in Actor, NEW l \in Lineage, NEW v \in Version, BeginSave(t, l, v)
       PROVE ListedInv'
    BY <1>25 DEF BeginSave
<1>26. ASSUME NEW g \in Agent, Stop(g) PROVE ListedInv'
    BY <1>26 DEF Stop
<1>27. ASSUME NEW g \in Agent, AgentDies(g) PROVE ListedInv'
    BY <1>27 DEF AgentDies
<1>28. ASSUME NEW l \in Lineage, NEW v \in Version, SaveFile(l, v) PROVE ListedInv'
    BY <1>28 DEF SaveFile
<1>29. ASSUME NEW l \in Lineage, Repair(l) PROVE ListedInv'
    BY <1>29 DEF Repair
<1>30. CASE UNCHANGED vars
    BY <1>30 DEF vars
<1> QED
        BY <1>1, <1>2, <1>3, <1>4, <1>5, <1>6, <1>7, <1>8, <1>9, <1>10, <1>11, <1>12, <1>13,
        <1>14, <1>15, <1>16, <1>17, <1>18, <1>19, <1>20, <1>21, <1>22, <1>23, <1>24, <1>25, <1>26,
        <1>27, <1>28, <1>29, <1>30 DEF Next, Step, MigrateStep, AccessStep

\* Only a migration's body changes what is applied.
LEMMA OnlyBodies ==
    ASSUME [Next]_vars
    PROVE  \/ UNCHANGED runs
           \/ \E t \in Actor : pc[t] \in {"body", "orphan"} /\ Commit(at[t], pos[t])
<1>1. CASE UNCHANGED vars
    BY <1>1 DEF vars, dbVars
<1>2. ASSUME NEW t \in Actor, RunBody(t) \/ UpFails(t) \/ OrphanEnds(t)
      PROVE  \/ UNCHANGED runs
             \/ pc[t] \in {"body", "orphan"} /\ Commit(at[t], pos[t])
    BY <1>2 DEF RunBody, UpFails, OrphanEnds
<1>3. ASSUME NEW t \in Actor,
             \/ BeginInit(t) \/ BeginStart(t) \/ Cancel(t)
             \/ \E l \in Lineage, v \in Version : BeginSave(t, l, v)
             \/ AcquireControlPlane(t) \/ AcquireCancelled(t)
             \/ EnsureExtensions(t) \/ ExtensionFails(t)
             \/ OpenMigration(t) \/ OpenSource(t) \/ OpenRetry(t) \/ OpenFails(t)
             \/ ReadVersion(t) \/ StartUp(t) \/ UpDone(t)
             \/ \E v \in Version : MarkDirty(t, v)
             \/ MarkClean(t) \/ CloseMigration(t) \/ AccessStep(t)
      PROVE  UNCHANGED runs
    BY <1>3 DEF BeginInit, BeginStart, Cancel, BeginSave, AcquireControlPlane, AcquireCancelled,
        EnsureExtensions, ExtensionFails, OpenMigration, OpenSource, OpenRetry, OpenFails,
        ReadVersion, StartUp, UpDone, MarkDirty, MarkClean, CloseMigration, AccessStep,
        LockAccess, GrantTables, CommitAccess, AccessFails, dbVars
<1>4. ASSUME \/ \E g \in Agent : Stop(g) \/ AgentDies(g)
             \/ \E l \in Lineage, v \in Version : SaveFile(l, v)
             \/ \E l \in Lineage : Repair(l)
      PROVE  UNCHANGED runs
    BY <1>4 DEF Stop, AgentDies, SaveFile, Repair, dbVars
<1> QED
    BY <1>1, <1>2, <1>3, <1>4 DEF Next, Step, MigrateStep

\* The initial state satisfies every invariant of this module.
LEMMA InitInvs ==
    Init => /\ TypeOK /\ SessionInv /\ OwnerInv /\ LateInv
            /\ UpInv /\ LedgerTruthful
            /\ GrantInv /\ GrantsCoverSchema /\ ListedInv
<1> SUFFICES ASSUME Init
             PROVE  /\ TypeOK /\ SessionInv /\ OwnerInv /\ LateInv
                    /\ UpInv /\ LedgerTruthful
                    /\ GrantInv /\ GrantsCoverSchema /\ ListedInv
    OBVIOUS
<1>1. TypeOK
    <2>1. /\ pc \in [Actor -> ActorPc] /\ op \in [Actor -> Op] /\ at \in [Actor -> Lineage]
          /\ \A t \in Actor : pc[t] = "idle"
        BY DEF Init, ActorPc, Op, Lineage
    <2>2. /\ saw \in [Actor -> Version \cup {0}] /\ base \in [Actor -> Version \cup {0}]
          /\ pos \in [Actor -> Version \cup {0}]
          /\ snap \in [Actor -> [Lineage -> SUBSET Version]]
        BY DEF Init, NoSnap
    <2>3. /\ failed \in [Actor -> BOOLEAN] /\ ended \in [Actor -> BOOLEAN]
          /\ late \in [Actor -> BOOLEAN] /\ grants \in [Actor -> SUBSET Table]
        BY DEF Init
    <2>4. /\ cp \in [Agent -> Actor \cup {None}] /\ adv \in Actor \cup {None}
          /\ up \subseteq Agent /\ armed \subseteq Agent
          /\ inited \subseteq Agent /\ port \subseteq Agent
        BY DEF Init
    <2>5. files \in [Lineage -> SUBSET Version] /\ runs \in [Lineage -> [Version -> Nat]]
        BY DEF Init, Version
    <2>6. ledger \in [Lineage -> [version: Version \cup {0}, dirty: BOOLEAN]]
        BY DEF Init, Clean
    <2>7. granted \subseteq Table /\ defaults \in BOOLEAN /\ faults \in Nat
        BY DEF Init
    <2> QED
        BY <2>1, <2>2, <2>3, <2>4, <2>5, <2>6, <2>7 DEF TypeOK
<1>2. SessionInv /\ OwnerInv /\ LateInv /\ UpInv /\ GrantInv
    BY DEF Init, SessionInv, OwnerInv, InSession, LateInv, UpInv, GrantInv
<1>3. LedgerTruthful
    BY DEF Init, LedgerTruthful, Clean, Version, Lineage
<1>4. GrantsCoverSchema
    BY DEF Init, GrantsCoverSchema
<1>5. ListedInv
    BY DEF Init, ListedInv
<1> QED
    BY <1>1, <1>2, <1>3, <1>4, <1>5

-----------------------------------------------------------------------------

\* Type correctness of the control plane, for every set of agents and
\* goroutines and any number of lineages, versions and faults.
THEOREM SchemaControlTypeOK == Spec => []TypeOK
<1>1. Init => TypeOK
    BY InitInvs
<1>2. TypeOK /\ [Next]_vars => TypeOK'
    BY TypeStep
<1> QED
    BY <1>1, <1>2, PTL DEF Spec

\* The migration ledger of every lineage tells what was applied, whoever runs,
\* fails, is killed or repairs it (migrations.go openMigration, runUp).
THEOREM LedgerStaysTruthful == Spec => []LedgerTruthful
<1> DEFINE Inv == TypeOK /\ SessionInv /\ UpInv /\ LedgerTruthful
<1>1. Init => Inv
    BY InitInvs
<1>2. Inv /\ [Next]_vars => Inv'
    BY TypeStep, SessionStep, UpStep
<1>3. Inv => LedgerTruthful
    OBVIOUS
<1> QED
    BY <1>1, <1>2, <1>3, PTL DEF Spec

\* Every migration is applied above everything applied before it, once, and
\* passes over no listed one (migrations.go runUp, hotreload.go
\* applyMigrationChange).
THEOREM AppliedForward == Spec => ForwardOnly
<1> DEFINE Inv == TypeOK /\ SessionInv /\ UpInv /\ LedgerTruthful
           Fwd(l, v) ==
               runs'[l][v] > runs[l][v] =>
                   /\ \A w \in Version : runs[l][w] > 0 => w < v
                   /\ \A t \in Actor :
                       pc[t] \in {"body", "orphan"} /\ at[t] = l /\ pos[t] = v =>
                           \A w \in snap[t][l] : w < v =>
                               \E x \in Version : w <= x /\ x < v /\ runs[l][x] > 0
<1>1. Init => Inv
    BY InitInvs
<1>2. Inv /\ [Next]_vars => Inv'
    BY TypeStep, SessionStep, UpStep
<1>3. ASSUME Inv, [Next]_vars, NEW l \in Lineage, NEW v \in Version, runs'[l][v] > runs[l][v]
      PROVE  \A w \in Version : runs[l][w] > 0 => w < v
    <2>1. runs[l][v] \in Nat
        BY <1>3 DEF TypeOK
    <2>2. PICK t \in Actor : pc[t] \in {"body", "orphan"} /\ Commit(at[t], pos[t])
        BY <1>3, <2>1, OnlyBodies
    <2>3. at[t] \in Lineage /\ pos[t] \in Version
        BY <1>3, <2>2 DEF TypeOK
    <2>4. \A k \in Lineage, w \in Version : k # at[t] \/ w # pos[t] => runs'[k][w] = runs[k][w]
        BY <1>3, <2>2, <2>3, CommitRuns
    <2>5. l = at[t] /\ v = pos[t]
        BY <1>3, <2>1, <2>4
    <2> QED
        BY <1>3, <2>2, <2>5 DEF UpInv
<1>4. ASSUME Inv, NEW t \in Actor, pc[t] \in {"body", "orphan"},
             NEW w \in snap[t][at[t]], w < pos[t]
      PROVE  \E x \in Version : w <= x /\ x < pos[t] /\ runs[at[t]][x] > 0
    BY <1>4 DEF UpInv, Passed
<1>5. Inv /\ [Next]_vars => [\A l \in Lineage, v \in Version : Fwd(l, v)]_vars
    BY <1>3, <1>4
<1> QED
    BY <1>1, <1>2, <1>5, PTL DEF Spec, ForwardOnly

\* Runtime roles can use every table once a reconciliation has committed, with
\* any interleaving of migrations and reconciliations (runtime_access.go
\* ensureRuntimeAccessLocked).
THEOREM GrantsCover == Spec => []GrantsCoverSchema
<1> DEFINE Inv == TypeOK /\ SessionInv /\ GrantInv /\ GrantsCoverSchema
<1>1. Init => Inv
    BY InitInvs
<1>2. Inv /\ [Next]_vars => Inv'
    BY TypeStep, SessionStep, GrantStep
<1>3. Inv => GrantsCoverSchema
    OBVIOUS
<1> QED
    BY <1>1, <1>2, <1>3, PTL DEF Spec

\* Init and Start reach their last step only over a schema at or above every
\* migration they listed (runtime.go applySchema).
THEOREM SuccessMigrated == Spec => []SuccessMeansMigrated
<1> DEFINE Inv == TypeOK /\ SessionInv /\ UpInv /\ LedgerTruthful /\ ListedInv
<1>1. Init => Inv
    BY InitInvs
<1>2. Inv /\ [Next]_vars => Inv'
    BY TypeStep, SessionStep, UpStep, ListedStep
<1>3. Inv => SuccessMeansMigrated
    <2> SUFFICES ASSUME Inv, NEW t \in Actor, op[t] \in {"init", "start"},
                        pc[t] \in {"access", "grant", "commit"},
                        NEW l \in Lineage, NEW v \in snap[t][l]
                 PROVE  Reached(l, v)
        BY DEF SuccessMeansMigrated, Reached
    <2>1. at[t] = NLineage /\ (l < NLineage \/ l = NLineage)
        BY DEF ListedInv, Lineage
    <2> QED
        BY <2>1 DEF ListedInv
<1> QED
    BY <1>1, <1>2, <1>3, PTL DEF Spec

\* A caller whose context ended before it had the control plane never writes
\* to the database (runtime.go controlPlaneLock.acquire).
THEOREM CancelledNeverMutate == Spec => []CancelledNeverMutates
<1> DEFINE Inv == TypeOK /\ OwnerInv /\ LateInv
<1>1. Init => Inv
    BY InitInvs
<1>2. Inv /\ [Next]_vars => Inv'
    BY TypeStep, OwnerStep, LateStep
<1>3. Inv => CancelledNeverMutates
    BY DEF OwnerInv, LateInv, InSession, CancelledNeverMutates
<1> QED
    BY <1>1, <1>2, <1>3, PTL DEF Spec

=============================================================================
