-------------------------- MODULE ProvisionProofs --------------------------
(* Safety of provisionDatabase for any services and database names. *)
EXTENDS Provision, TLAPS

\* What the invariant says of one service.
ServiceInv(s) == FoundInv(s) /\ GivenInv(s) /\ OwnerInv(s) /\ RefusedInv(s)

\* A service other than the one that has the lock is idle or done.
LEMMA OthersRest ==
    ASSUME ProvTypeOK, ProvLockInv, NEW s \in Svc, at[s] \in Steps, NEW t \in Svc, t # s
    PROVE  at[t] \in {"idle", "done"}
BY DEF ProvTypeOK, ProvLockInv, Steps

\* What a service found and was given is undisturbed by a step that leaves its
\* own place, lookups, database and role alone.
LEMMA Undisturbed ==
    ASSUME NEW t \in Svc, ServiceInv(t),
           at'[t] = at[t], create'[t] = create[t], unclaimed'[t] = unclaimed[t],
           absent'[t] = absent[t], refused'[t] = refused[t],
           db'[DatabaseOf[t]] = db[DatabaseOf[t]],
           role'[DatabaseOf[t]] = role[DatabaseOf[t]],
           takers[DatabaseOf[t]] \subseteq takers'[DatabaseOf[t]]
    PROVE  ServiceInv(t)'
BY DEF ServiceInv, FoundInv, GivenInv, OwnerInv, RefusedInv, Owner, Exists

\* A service at rest keeps what it was given when a step of another service
\* leaves the claim, the owner, the openness and an existing role alone.
LEMMA RestKept ==
    ASSUME NEW t \in Svc, ServiceInv(t), at[t] \in {"idle", "done"},
           at'[t] = at[t], refused'[t] = refused[t],
           at[t] = "done" => /\ db'[DatabaseOf[t]] = db[DatabaseOf[t]]
                             /\ role'[DatabaseOf[t]] = role[DatabaseOf[t]],
           takers[DatabaseOf[t]] \subseteq takers'[DatabaseOf[t]]
    PROVE  ServiceInv(t)'
BY DEF ServiceInv, FoundInv, GivenInv, OwnerInv, RefusedInv, Owner

\* Every statement of provisionDatabase, and every migration, keeps the
\* invariant.
LEMMA ProvStepInv ==
    ProvTypeOK /\ ProvInv /\ [ProvNext]_provVars => ProvTypeOK' /\ ProvInv'
<1> SUFFICES ASSUME ProvTypeOK, ProvInv, [ProvNext]_provVars PROVE ProvTypeOK' /\ ProvInv'
    OBVIOUS
<1> USE SvcAssumption, DatabaseOfAssumption DEF Go, Refuse, Owner, Exists, Took
<1>a. ProvLockInv /\ TakenInv
    BY DEF ProvInv
<1>b. \A t \in Svc : ServiceInv(t)
    BY DEF ProvInv, ServiceInv
<1>c. ASSUME ProvTypeOK', ProvLockInv', TakenInv', \A t \in Svc : ServiceInv(t)' PROVE ProvTypeOK' /\ ProvInv'
    BY <1>c DEF ProvInv, ServiceInv
<1>1. ASSUME NEW s \in Svc, BeginProvision(s) PROVE ProvTypeOK' /\ ProvInv'
    <2>1. ProvTypeOK' /\ ProvLockInv'
        BY <1>a, <1>1, OthersRest DEF BeginProvision, ProvTypeOK, ProvLockInv, Steps
    <2>2. FoundInv(s)' /\ GivenInv(s)'
        BY <1>b, <1>1 DEF BeginProvision, ProvTypeOK, ServiceInv, FoundInv, GivenInv
    <2>3. OwnerInv(s)'
        BY <1>b, <1>1 DEF BeginProvision, ProvTypeOK, ServiceInv, OwnerInv
    <2>4. RefusedInv(s)'
        BY <1>b, <1>1 DEF BeginProvision, ProvTypeOK, ServiceInv, RefusedInv
    <2>5. \A t \in Svc : t # s => ServiceInv(t)'
        BY <1>b, <1>1, Undisturbed DEF BeginProvision, ProvTypeOK
    <2>t. TakenInv'
        BY <1>a, <1>1 DEF BeginProvision, ProvTypeOK, TakenInv
    <2> QED
        BY <1>c, <2>t, <2>1, <2>2, <2>3, <2>4, <2>5 DEF ServiceInv
<1>2. ASSUME NEW s \in Svc, Abort(s) PROVE ProvTypeOK' /\ ProvInv'
    <2>1. ProvTypeOK' /\ ProvLockInv'
        BY <1>a, <1>2, OthersRest DEF Abort, ProvTypeOK, ProvLockInv, Steps
    <2>2. FoundInv(s)' /\ GivenInv(s)'
        BY <1>b, <1>2 DEF Abort, ProvTypeOK, ServiceInv, FoundInv, GivenInv
    <2>3. OwnerInv(s)'
        BY <1>b, <1>2 DEF Abort, ProvTypeOK, ServiceInv, OwnerInv
    <2>4. RefusedInv(s)'
        BY <1>b, <1>2 DEF Abort, ProvTypeOK, ServiceInv, RefusedInv
    <2>5. \A t \in Svc : t # s => ServiceInv(t)'
        BY <1>b, <1>2, Undisturbed DEF Abort, ProvTypeOK
    <2>t. TakenInv'
        BY <1>a, <1>2 DEF Abort, ProvTypeOK, TakenInv
    <2> QED
        BY <1>c, <2>t, <2>1, <2>2, <2>3, <2>4, <2>5 DEF ServiceInv
<1>3. ASSUME NEW s \in Svc, LookUpDatabase(s) PROVE ProvTypeOK' /\ ProvInv'
    <2>t. TakenInv'
        BY <1>a, <1>3 DEF LookUpDatabase, ProvTypeOK, TakenInv
    <2>a. CASE ~Mine(s)
        <3>r. \A t \in Svc : t # s => at[t] \in {"idle", "done"}
            BY <1>a, <1>3, OthersRest DEF LookUpDatabase, Steps
        <3>p. ProvTypeOK'
            BY <1>3, <2>a DEF LookUpDatabase, ProvTypeOK
        <3>1. ProvTypeOK' /\ ProvLockInv'
            BY <1>3, <2>a, <3>r, <3>p DEF LookUpDatabase, ProvTypeOK, ProvLockInv, Steps
        <3>2. FoundInv(s)' /\ GivenInv(s)' /\ OwnerInv(s)'
            BY <1>3, <2>a DEF LookUpDatabase, ProvTypeOK, FoundInv, GivenInv, OwnerInv
        <3>3. RefusedInv(s)'
            BY <1>a, <1>3, <2>a DEF LookUpDatabase, ProvTypeOK, RefusedInv, Mine, TakenInv
        <3>4. \A t \in Svc : t # s => ServiceInv(t)'
            BY <1>b, <1>3, <2>a, Undisturbed DEF LookUpDatabase, ProvTypeOK
        <3> QED
            BY <1>c, <2>t, <3>1, <3>2, <3>3, <3>4 DEF ServiceInv
    <2>b. CASE Mine(s)
        <3>0. /\ create' = [create EXCEPT ![s] = ~Exists(DatabaseOf[s])]
              /\ unclaimed' = [unclaimed EXCEPT ![s] = db[DatabaseOf[s]].claim = Nobody]
              /\ create \in [Svc -> BOOLEAN] /\ unclaimed \in [Svc -> BOOLEAN]
            BY <1>3, <2>b DEF LookUpDatabase, ProvTypeOK
        <3>1. /\ create' \in [Svc -> BOOLEAN] /\ unclaimed' \in [Svc -> BOOLEAN]
              /\ create'[s] <=> ~Exists(DatabaseOf[s])
              /\ unclaimed'[s] <=> db[DatabaseOf[s]].claim = Nobody
            BY <3>0, Zenon
        <3>2. \A t \in Svc : t # s => create'[t] = create[t] /\ unclaimed'[t] = unclaimed[t]
            BY <3>0, Zenon
        <3>3. /\ at' = [at EXCEPT ![s] = "owner"]
              /\ UNCHANGED <<runLock, absent, refused, db, role, takers>>
            BY <1>3, <2>b DEF LookUpDatabase
        <3>4. ProvTypeOK' /\ ProvLockInv'
            BY <1>a, <1>3, <3>1, <3>3 DEF LookUpDatabase, ProvTypeOK, ProvLockInv, Steps
        <3>5. FoundInv(s)' /\ GivenInv(s)' /\ OwnerInv(s)'
            BY <2>b, <3>1, <3>3 DEF ProvTypeOK, FoundInv, GivenInv, OwnerInv, Mine, NoDatabase
        <3>6. RefusedInv(s)'
            BY <1>b, <3>3 DEF ServiceInv, RefusedInv
        <3>7. \A t \in Svc : t # s => ServiceInv(t)'
            BY <1>b, <3>2, <3>3, Undisturbed DEF ProvTypeOK
        <3> QED
            BY <1>c, <2>t, <3>4, <3>5, <3>6, <3>7 DEF ServiceInv
    <2> QED
        BY <2>a, <2>b
<1>4. ASSUME NEW s \in Svc, LookUpOwner(s) PROVE ProvTypeOK' /\ ProvInv'
    <2>t. TakenInv'
        BY <1>a, <1>4 DEF LookUpOwner, ProvTypeOK, TakenInv
    <2>a. CASE ~OwnRole(s)
        <3>r. \A t \in Svc : t # s => at[t] \in {"idle", "done"}
            BY <1>a, <1>4, OthersRest DEF LookUpOwner, Steps
        <3>p. ProvTypeOK'
            BY <1>4, <2>a DEF LookUpOwner, ProvTypeOK
        <3>1. ProvTypeOK' /\ ProvLockInv'
            BY <1>4, <2>a, <3>r, <3>p DEF LookUpOwner, ProvTypeOK, ProvLockInv, Steps
        <3>2. FoundInv(s)' /\ GivenInv(s)' /\ OwnerInv(s)'
            BY <1>4, <2>a DEF LookUpOwner, ProvTypeOK, FoundInv, GivenInv, OwnerInv
        <3>3. RefusedInv(s)'
            BY <1>a, <1>4, <2>a DEF LookUpOwner, ProvTypeOK, RefusedInv, OwnRole, TakenInv
        <3>4. \A t \in Svc : t # s => ServiceInv(t)'
            BY <1>b, <1>4, <2>a, Undisturbed DEF LookUpOwner, ProvTypeOK
        <3> QED
            BY <1>c, <2>t, <3>1, <3>2, <3>3, <3>4 DEF ServiceInv
    <2>b. CASE OwnRole(s)
        <3>1. absent' \in [Svc -> BOOLEAN] /\ (absent'[s] <=> role[DatabaseOf[s]] = "absent")
            BY <1>4, <2>b, Zenon DEF LookUpOwner, ProvTypeOK
        <3>2. \A t \in Svc : t # s => absent'[t] = absent[t]
            BY <1>4, <2>b, Zenon DEF LookUpOwner, ProvTypeOK
        <3>3. /\ at' = [at EXCEPT ![s] = "createRole"]
              /\ UNCHANGED <<runLock, create, unclaimed, refused, db, role, takers>>
            BY <1>4, <2>b DEF LookUpOwner
        <3>4. ProvTypeOK' /\ ProvLockInv'
            BY <1>a, <1>4, <3>1, <3>3 DEF LookUpOwner, ProvTypeOK, ProvLockInv, Steps
        <3>5. FoundInv(s)' /\ GivenInv(s)'
            BY <1>b, <1>4, <3>3 DEF LookUpOwner, ProvTypeOK, ServiceInv, FoundInv, GivenInv
        <3>6. OwnerInv(s)'
            BY <2>b, <3>1, <3>3 DEF ProvTypeOK, OwnerInv, OwnRole, RoleState
        <3>7. RefusedInv(s)'
            BY <1>b, <3>3 DEF ServiceInv, RefusedInv
        <3>8. \A t \in Svc : t # s => ServiceInv(t)'
            BY <1>b, <3>2, <3>3, Undisturbed DEF ProvTypeOK
        <3> QED
            BY <1>c, <2>t, <3>4, <3>5, <3>6, <3>7, <3>8 DEF ServiceInv
    <2> QED
        BY <2>a, <2>b
<1>5. ASSUME NEW s \in Svc, CreateRole(s) PROVE ProvTypeOK' /\ ProvInv'
    <2>1. ProvTypeOK' /\ ProvLockInv'
        BY <1>a, <1>5, OthersRest DEF CreateRole, ProvTypeOK, ProvLockInv, Steps, RoleState
    <2>2. FoundInv(s)' /\ GivenInv(s)'
        BY <1>b, <1>5 DEF CreateRole, ProvTypeOK, ServiceInv, FoundInv, GivenInv
    <2>3. OwnerInv(s)'
        BY <1>b, <1>5 DEF CreateRole, ProvTypeOK, ServiceInv, OwnerInv
    <2>4. RefusedInv(s)'
        BY <1>b, <1>5 DEF CreateRole, ProvTypeOK, ServiceInv, RefusedInv
    <2>5. ASSUME NEW t \in Svc, t # s PROVE ServiceInv(t)'
        <3>1. at[t] \in {"idle", "done"} /\ ServiceInv(t) /\ at'[t] = at[t] /\ refused'[t] = refused[t]
            BY <1>a, <1>b, <1>5, <2>5, OthersRest DEF CreateRole, ProvTypeOK, Steps
        <3>2. at[t] = "done" => /\ db'[DatabaseOf[t]] = db[DatabaseOf[t]]
                                /\ role'[DatabaseOf[t]] = role[DatabaseOf[t]]
            BY <1>5, <3>1 DEF CreateRole, ProvTypeOK, ServiceInv, OwnerInv
        <3>3. takers[DatabaseOf[t]] \subseteq takers'[DatabaseOf[t]]
            BY <1>5 DEF CreateRole, ProvTypeOK
        <3> QED
            BY <3>1, <3>2, <3>3, RestKept
    <2>t. TakenInv'
        BY <1>a, <1>5 DEF CreateRole, ProvTypeOK, TakenInv
    <2> QED
        BY <1>c, <2>t, <2>1, <2>2, <2>3, <2>4, <2>5 DEF ServiceInv
<1>6. ASSUME NEW s \in Svc, AlterRole(s) PROVE ProvTypeOK' /\ ProvInv'
    <2>1. ProvTypeOK' /\ ProvLockInv'
        BY <1>a, <1>6, OthersRest DEF AlterRole, ProvTypeOK, ProvLockInv, Steps
    <2>2. FoundInv(s)' /\ GivenInv(s)'
        BY <1>b, <1>6 DEF AlterRole, ProvTypeOK, ServiceInv, FoundInv, GivenInv
    <2>3. OwnerInv(s)'
        BY <1>b, <1>6 DEF AlterRole, ProvTypeOK, ServiceInv, OwnerInv
    <2>4. RefusedInv(s)'
        BY <1>b, <1>6 DEF AlterRole, ProvTypeOK, ServiceInv, RefusedInv
    <2>5. \A t \in Svc : t # s => ServiceInv(t)'
        BY <1>b, <1>6, Undisturbed DEF AlterRole, ProvTypeOK
    <2>t. TakenInv'
        BY <1>a, <1>6 DEF AlterRole, ProvTypeOK, TakenInv
    <2> QED
        BY <1>c, <2>t, <2>1, <2>2, <2>3, <2>4, <2>5 DEF ServiceInv
<1>7. ASSUME NEW s \in Svc, CreateDatabase(s) PROVE ProvTypeOK' /\ ProvInv'
    <2>1. ProvTypeOK' /\ ProvLockInv'
        BY <1>a, <1>7, OthersRest DEF CreateDatabase, ProvTypeOK, ProvLockInv, Steps, Database
    <2>2. FoundInv(s)' /\ GivenInv(s)'
        BY <1>b, <1>7 DEF CreateDatabase, ProvTypeOK, ServiceInv, FoundInv, GivenInv, NoDatabase
    <2>3. OwnerInv(s)'
        BY <1>b, <1>7 DEF CreateDatabase, ProvTypeOK, ServiceInv, OwnerInv
    <2>4. RefusedInv(s)'
        BY <1>b, <1>7 DEF CreateDatabase, ProvTypeOK, ServiceInv, RefusedInv
    <2>5. ASSUME NEW t \in Svc, t # s PROVE ServiceInv(t)'
        <3>1. at[t] \in {"idle", "done"} /\ ServiceInv(t) /\ at'[t] = at[t] /\ refused'[t] = refused[t]
            BY <1>a, <1>b, <1>7, <2>5, OthersRest DEF CreateDatabase, ProvTypeOK, Steps
        <3>2. at[t] = "done" => /\ db'[DatabaseOf[t]] = db[DatabaseOf[t]]
                                /\ role'[DatabaseOf[t]] = role[DatabaseOf[t]]
            BY <1>7, <3>1 DEF CreateDatabase, ProvTypeOK, ServiceInv, GivenInv, NoDatabase
        <3>3. takers[DatabaseOf[t]] \subseteq takers'[DatabaseOf[t]]
            BY <1>7 DEF CreateDatabase, ProvTypeOK
        <3> QED
            BY <3>1, <3>2, <3>3, RestKept
    <2>t. TakenInv'
        <3>1. CASE create[s]
            <4>1. /\ db' = [db EXCEPT ![DatabaseOf[s]] =
                        [owner |-> DatabaseOf[s], claim |-> Nobody, public |-> TRUE]]
                  /\ role' = role /\ \A d \in DbName : takers[d] \subseteq takers'[d]
                BY <1>7, <3>1 DEF CreateDatabase, ProvTypeOK
            <4> QED
                BY <1>a, <4>1 DEF ProvTypeOK, TakenInv
        <3>2. CASE ~create[s]
            BY <1>a, <1>7, <3>2 DEF CreateDatabase, TakenInv
        <3> QED
            BY <3>1, <3>2
    <2> QED
        BY <1>c, <2>t, <2>1, <2>2, <2>3, <2>4, <2>5 DEF ServiceInv
<1>8. ASSUME NEW s \in Svc, Comment(s) PROVE ProvTypeOK' /\ ProvInv'
    <2> DEFINE D == DatabaseOf[s]
    <2>0. db[D] \in Database /\ db[D] # NoDatabase /\ db[D].owner = D
          /\ db[D].claim = (IF unclaimed[s] THEN Nobody ELSE s) /\ role[D] = "own"
        BY <1>b, <1>8 DEF Comment, ProvTypeOK, ServiceInv, FoundInv, GivenInv, OwnerInv, NoDatabase
    <2>u. /\ db' \in [DbName -> Database \cup {NoDatabase}]
          /\ \A d \in DbName : d # D => db'[d] = db[d]
          /\ db'[D] \in Database /\ db'[D] # NoDatabase
          /\ db'[D].claim = s /\ db'[D].owner = D
        <3>1. db' = [db EXCEPT ![D] = db'[D]] /\ db'[D] \in Database
            BY <1>8, <2>0 DEF Comment, ProvTypeOK, Database
        <3>2. db'[D].claim = s /\ db'[D].owner = D
            BY <1>8, <2>0 DEF Comment, ProvTypeOK, Database
        <3>3. db'[D] # NoDatabase
            BY <3>2 DEF NoDatabase
        <3> QED
            BY <3>1, <3>2, <3>3 DEF ProvTypeOK
    <2>1. ProvTypeOK' /\ ProvLockInv'
        BY <1>a, <1>8, <2>u, OthersRest DEF Comment, ProvTypeOK, ProvLockInv, Steps
    <2>2. FoundInv(s)' /\ GivenInv(s)'
        BY <1>b, <1>8, <2>0, <2>u DEF Comment, ProvTypeOK, ServiceInv, FoundInv, GivenInv
    <2>3. OwnerInv(s)'
        BY <1>8, <2>0 DEF Comment, ProvTypeOK, OwnerInv
    <2>4. RefusedInv(s)'
        BY <1>b, <1>8, <2>0, <2>u DEF Comment, ProvTypeOK, ServiceInv, RefusedInv
    <2>5. ASSUME NEW t \in Svc, t # s PROVE ServiceInv(t)'
        <3>1. at[t] \in {"idle", "done"} /\ ServiceInv(t) /\ at'[t] = at[t] /\ refused'[t] = refused[t]
            BY <1>a, <1>b, <1>8, <2>5, OthersRest DEF Comment, ProvTypeOK, Steps
        <3>2. at[t] = "done" => /\ db'[DatabaseOf[t]] = db[DatabaseOf[t]]
                                /\ role'[DatabaseOf[t]] = role[DatabaseOf[t]]
            BY <1>8, <2>0, <2>5, <2>u, <3>1 DEF Comment, ServiceInv, GivenInv
        <3>3. takers[DatabaseOf[t]] \subseteq takers'[DatabaseOf[t]]
            BY <1>8 DEF Comment, ProvTypeOK
        <3> QED
            BY <3>1, <3>2, <3>3, RestKept
    <2>t. TakenInv'
        <3>1. /\ role' = role /\ \A d \in DbName : takers[d] \subseteq takers'[d]
              /\ unclaimed[s] /\ at[s] = "comment" => s \in takers'[D]
              /\ ~(unclaimed[s] /\ at[s] = "comment") => db[D].claim = s
            BY <1>8, <2>0 DEF Comment, ProvTypeOK
        <3>2. {s, Nobody} \cap takers'[D] # {}
            BY <1>a, <2>0, <3>1 DEF TakenInv, NoDatabase
        <3> QED
            BY <1>a, <2>0, <2>u, <3>1, <3>2 DEF TakenInv
    <2> QED
        BY <1>c, <2>t, <2>1, <2>2, <2>3, <2>4, <2>5 DEF ServiceInv
<1>9. ASSUME NEW s \in Svc, AlterOwner(s) PROVE ProvTypeOK' /\ ProvInv'
    <2> DEFINE D == DatabaseOf[s]
    <2>0. db[D] \in Database /\ db[D].claim = s /\ db[D].owner = D /\ role[D] = "own"
        BY <1>b, <1>9 DEF AlterOwner, ProvTypeOK, ServiceInv, FoundInv, GivenInv, OwnerInv, NoDatabase
    <2>u. /\ db' \in [DbName -> Database \cup {NoDatabase}]
          /\ \A d \in DbName : d # D => db'[d] = db[d]
          /\ db'[D] \in Database /\ db'[D] # NoDatabase
          /\ db'[D].claim = s /\ db'[D].owner = D
        <3>1. db' = [db EXCEPT ![D] = db'[D]] /\ db'[D] \in Database
            BY <1>9, <2>0 DEF AlterOwner, ProvTypeOK, Database
        <3>2. db'[D].claim = s /\ db'[D].owner = D
            BY <1>9, <2>0 DEF AlterOwner, ProvTypeOK, Database
        <3>3. db'[D] # NoDatabase
            BY <3>2 DEF NoDatabase
        <3> QED
            BY <3>1, <3>2, <3>3 DEF ProvTypeOK
    <2>1. ProvTypeOK' /\ ProvLockInv'
        BY <1>a, <1>9, <2>u, OthersRest DEF AlterOwner, ProvTypeOK, ProvLockInv, Steps
    <2>2. FoundInv(s)' /\ GivenInv(s)'
        BY <1>b, <1>9, <2>0, <2>u DEF AlterOwner, ProvTypeOK, ServiceInv, FoundInv, GivenInv
    <2>3. OwnerInv(s)'
        BY <1>9, <2>0 DEF AlterOwner, ProvTypeOK, OwnerInv
    <2>4. RefusedInv(s)'
        BY <1>b, <1>9, <2>0, <2>u DEF AlterOwner, ProvTypeOK, ServiceInv, RefusedInv
    <2>5. ASSUME NEW t \in Svc, t # s PROVE ServiceInv(t)'
        <3>1. at[t] \in {"idle", "done"} /\ ServiceInv(t) /\ at'[t] = at[t] /\ refused'[t] = refused[t]
            BY <1>a, <1>b, <1>9, <2>5, OthersRest DEF AlterOwner, ProvTypeOK, Steps
        <3>2. at[t] = "done" => /\ db'[DatabaseOf[t]] = db[DatabaseOf[t]]
                                /\ role'[DatabaseOf[t]] = role[DatabaseOf[t]]
            BY <1>9, <2>0, <2>5, <2>u, <3>1 DEF AlterOwner, ServiceInv, GivenInv
        <3>3. takers[DatabaseOf[t]] \subseteq takers'[DatabaseOf[t]]
            BY <1>9 DEF AlterOwner, ProvTypeOK
        <3> QED
            BY <3>1, <3>2, <3>3, RestKept
    <2>t. TakenInv'
        <3>1. /\ role' = role /\ \A d \in DbName : takers[d] \subseteq takers'[d]
              /\ unclaimed[s] /\ at[s] = "comment" => s \in takers'[D]
              /\ ~(unclaimed[s] /\ at[s] = "comment") => db[D].claim = s
            BY <1>9, <2>0 DEF AlterOwner, ProvTypeOK
        <3>2. {s, Nobody} \cap takers'[D] # {}
            BY <1>a, <2>0, <3>1 DEF TakenInv, NoDatabase
        <3> QED
            BY <1>a, <2>0, <2>u, <3>1, <3>2 DEF TakenInv
    <2> QED
        BY <1>c, <2>t, <2>1, <2>2, <2>3, <2>4, <2>5 DEF ServiceInv
<1>A. ASSUME NEW s \in Svc, RevokePublic(s) PROVE ProvTypeOK' /\ ProvInv'
    <2> DEFINE D == DatabaseOf[s]
    <2>0. db[D] \in Database /\ db[D].claim = s /\ db[D].owner = D /\ role[D] = "own"
        BY <1>b, <1>A DEF RevokePublic, ProvTypeOK, ServiceInv, FoundInv, GivenInv, OwnerInv, NoDatabase
    <2>u. /\ db' \in [DbName -> Database \cup {NoDatabase}]
          /\ \A d \in DbName : d # D => db'[d] = db[d]
          /\ db'[D] \in Database /\ db'[D] # NoDatabase
          /\ db'[D].claim = s /\ db'[D].owner = D /\ ~db'[D].public
        <3>1. db' = [db EXCEPT ![D] = db'[D]] /\ db'[D] \in Database
            BY <1>A, <2>0 DEF RevokePublic, ProvTypeOK, Database
        <3>2. db'[D].claim = s /\ db'[D].owner = D /\ ~db'[D].public
            BY <1>A, <2>0 DEF RevokePublic, ProvTypeOK, Database
        <3>3. db'[D] # NoDatabase
            BY <3>2 DEF NoDatabase
        <3> QED
            BY <3>1, <3>2, <3>3 DEF ProvTypeOK
    <2>1. ProvTypeOK' /\ ProvLockInv'
        BY <1>a, <1>A, <2>u, OthersRest DEF RevokePublic, ProvTypeOK, ProvLockInv, Steps
    <2>2. FoundInv(s)' /\ GivenInv(s)'
        BY <1>b, <1>A, <2>0, <2>u DEF RevokePublic, ProvTypeOK, ServiceInv, FoundInv, GivenInv
    <2>3. OwnerInv(s)'
        BY <1>A, <2>0 DEF RevokePublic, ProvTypeOK, OwnerInv
    <2>4. RefusedInv(s)'
        BY <1>b, <1>A, <2>0, <2>u DEF RevokePublic, ProvTypeOK, ServiceInv, RefusedInv
    <2>5. ASSUME NEW t \in Svc, t # s PROVE ServiceInv(t)'
        <3>1. at[t] \in {"idle", "done"} /\ ServiceInv(t) /\ at'[t] = at[t] /\ refused'[t] = refused[t]
            BY <1>a, <1>b, <1>A, <2>5, OthersRest DEF RevokePublic, ProvTypeOK, Steps
        <3>2. at[t] = "done" => /\ db'[DatabaseOf[t]] = db[DatabaseOf[t]]
                                /\ role'[DatabaseOf[t]] = role[DatabaseOf[t]]
            BY <1>A, <2>0, <2>5, <2>u, <3>1 DEF RevokePublic, ServiceInv, GivenInv
        <3>3. takers[DatabaseOf[t]] \subseteq takers'[DatabaseOf[t]]
            BY <1>A DEF RevokePublic, ProvTypeOK
        <3> QED
            BY <3>1, <3>2, <3>3, RestKept
    <2>t. TakenInv'
        <3>1. /\ role' = role /\ \A d \in DbName : takers[d] \subseteq takers'[d]
              /\ unclaimed[s] /\ at[s] = "comment" => s \in takers'[D]
              /\ ~(unclaimed[s] /\ at[s] = "comment") => db[D].claim = s
            BY <1>A, <2>0 DEF RevokePublic, ProvTypeOK
        <3>2. {s, Nobody} \cap takers'[D] # {}
            BY <1>a, <2>0, <3>1 DEF TakenInv, NoDatabase
        <3> QED
            BY <1>a, <2>0, <2>u, <3>1, <3>2 DEF TakenInv
    <2> QED
        BY <1>c, <2>t, <2>1, <2>2, <2>3, <2>4, <2>5 DEF ServiceInv
<1>B. ASSUME NEW s \in Svc, NEW d \in DbName, MigrationCreatesRole(s, d) PROVE ProvTypeOK' /\ ProvInv'
    <2>1. ProvTypeOK' /\ ProvLockInv'
        BY <1>a, <1>B DEF MigrationCreatesRole, ProvTypeOK, ProvLockInv, RoleState
    <2>2. ASSUME NEW t \in Svc PROVE ServiceInv(t)'
        <3>1. FoundInv(t)' /\ GivenInv(t)'
            BY <1>b, <1>B DEF MigrationCreatesRole, ServiceInv, FoundInv, GivenInv
        <3>2. OwnerInv(t)'
            BY <1>b, <1>B DEF MigrationCreatesRole, ProvTypeOK, ServiceInv, OwnerInv
        <3>3. RefusedInv(t)'
            BY <1>b, <1>B DEF MigrationCreatesRole, ProvTypeOK, ServiceInv, RefusedInv
        <3> QED
            BY <3>1, <3>2, <3>3 DEF ServiceInv
    <2>t. TakenInv'
        BY <1>a, <1>B DEF MigrationCreatesRole, ProvTypeOK, TakenInv
    <2> QED
        BY <1>c, <2>t, <2>1, <2>2
<1>C. ASSUME NEW s \in Svc, NEW d \in DbName, NEW c \in Svc \cup {Nobody},
             MigrationCreatesDatabase(s, d, c)
      PROVE  ProvTypeOK' /\ ProvInv'
    <2>1. ProvTypeOK' /\ ProvLockInv'
        BY <1>a, <1>C DEF MigrationCreatesDatabase, ProvTypeOK, ProvLockInv, Database
    <2>2. ASSUME NEW t \in Svc PROVE ServiceInv(t)'
        <3>1. FoundInv(t)' /\ GivenInv(t)'
            BY <1>b, <1>C DEF MigrationCreatesDatabase, ProvTypeOK, ServiceInv, FoundInv, GivenInv,
                NoDatabase
        <3>2. OwnerInv(t)'
            BY <1>b, <1>C DEF MigrationCreatesDatabase, ServiceInv, OwnerInv
        <3>3. RefusedInv(t)'
            BY <1>b, <1>C DEF MigrationCreatesDatabase, ProvTypeOK, ServiceInv, RefusedInv
        <3> QED
            BY <3>1, <3>2, <3>3 DEF ServiceInv
    <2>t. TakenInv'
        BY <1>a, <1>C DEF MigrationCreatesDatabase, ProvTypeOK, TakenInv, NoDatabase
    <2> QED
        BY <1>c, <2>t, <2>1, <2>2
<1>D. CASE UNCHANGED provVars
    <2>1. ProvTypeOK' /\ ProvLockInv'
        BY <1>a, <1>D DEF provVars, ProvTypeOK, ProvLockInv
    <2>2. \A t \in Svc : ServiceInv(t)'
        BY <1>b, <1>D, Undisturbed DEF provVars
    <2>t. TakenInv'
        BY <1>a, <1>D DEF provVars, TakenInv
    <2> QED
        BY <1>c, <2>t, <2>1, <2>2
<1> QED
    BY <1>1, <1>2, <1>3, <1>4, <1>5, <1>6, <1>7, <1>8, <1>9, <1>A, <1>B, <1>C, <1>D
        DEF ProvNext, ProvStep

\* The invariant holds before the first provision.
LEMMA ProvInitInv == ProvInit => ProvTypeOK /\ ProvInv
BY SvcAssumption, DatabaseOfAssumption
    DEF ProvInit, ProvTypeOK, ProvInv, ProvLockInv, TakenInv, Exists, FoundInv, GivenInv, OwnerInv, RefusedInv, Steps,
        Database, NoDatabase, RoleState

\* The provisioning invariant holds of every behaviour.
LEMMA ProvInvAlways == ProvSpec => [](ProvTypeOK /\ ProvInv)
BY ProvInitInv, ProvStepInv, PTL DEF ProvSpec

\* The state of provisionDatabase stays within its types.
THEOREM ProvisionTypeOK == ProvSpec => []ProvTypeOK
BY ProvInvAlways, PTL

\* A database handed to a service carries its claim, its own owner, and no
\* access of another (provisionDatabase).
THEOREM ProvisionHandsOutOwn == ProvSpec => []HandedOutIsOwn
<1>1. ProvTypeOK /\ ProvInv => HandedOutIsOwn
    BY DEF ProvInv, HandedOutIsOwn, GivenInv, OwnerInv
<1> QED
    BY <1>1, ProvInvAlways, PTL

\* A service is refused only when an agent of another service, or a migration, took
\* its name: no attempt of its own, interrupted at whatever statement, makes its
\* retry fail (provisionDatabase).
THEOREM ProvisionRefusesCollisions == ProvSpec => []RefusedOnlyOnCollision
<1>1. ProvTypeOK /\ ProvInv => RefusedOnlyOnCollision
    BY DEF ProvInv, RefusedOnlyOnCollision, RefusedInv
<1> QED
    BY <1>1, ProvInvAlways, PTL

=============================================================================
