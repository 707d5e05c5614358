--------------------------- MODULE HostIPCProofs ---------------------------
(***************************************************************************)
(* Collecting System V segments and semaphore sets, for any servers, keys, *)
(* collectors and identifiers.                                             *)
(***************************************************************************)
EXTENDS HostIPC, FiniteSetTheorems, WellFoundedInduction, TLAPS

USE NSetsAssumption, BaseAssumption, OtherAssumption

-----------------------------------------------------------------------------
(* The cut into clusters *)

\* Every set of numbers that is not empty has a least one.
LEMMA LeastKey ==
    ASSUME NEW T, T \subseteq Nat, T # {}
    PROVE  \E m \in T : \A k \in T : m <= k
<1> DEFINE Below == OpToRel(<, Nat)
<1>1. IsWellFoundedOn(Below, Nat)
    BY NatLessThanWellFounded
<1>2. \A x, y \in Nat : x < y => <<x, y>> \in Below
    BY DEF OpToRel
<1> HIDE DEF Below
<1>3. PICK m \in T : \A k \in T : ~(<<k, m>> \in Below)
    BY <1>1, WFMin
<1>4. \A k \in T : k \in Nat /\ m \in Nat /\ ~(k < m)
    BY <1>2, <1>3
<1> QED BY <1>3, <1>4

\* S cuts the keys: a key starts a cluster when no start before it reaches it.
Cut(S, keys) == \A k \in keys : k \in S <=> ~ \E f \in S : f < k /\ k - f <= Span

\* The keys up to any bound can be cut.
LEMMA CutExists ==
    ASSUME NEW keys \in SUBSET Nat, NEW B \in Nat
    PROVE  \E S \in SUBSET (keys \cap 0..B) : Cut(S, keys \cap 0..B)
<1> DEFINE Upto(n) == keys \cap 0..n
           Has(n) == \E S \in SUBSET Upto(n) : Cut(S, Upto(n))
           T == {n \in Nat : ~Has(n)}
<1> SUFFICES ASSUME T # {} PROVE FALSE
    OBVIOUS
<1>1. PICK n \in T : \A k \in T : n <= k
    <2>1. T \subseteq Nat
        OBVIOUS
    <2> HIDE DEF T
    <2> QED BY <2>1, LeastKey
<1>2. PICK S \in SUBSET (Upto(n) \ {n}) : Cut(S, Upto(n) \ {n})
    <2>1. CASE n = 0
        <3>1. Upto(n) \ {n} = {}
            BY <2>1
        <3> QED BY <3>1 DEF Cut
    <2>2. CASE n # 0
        <3>1. n - 1 \in Nat /\ ~(n <= n - 1)
            BY <2>2
        <3>2. Has(n - 1)
            BY <1>1, <3>1
        <3>3. Upto(n) \ {n} = Upto(n - 1)
            BY <3>1
        <3> QED BY <3>2, <3>3
    <2> QED BY <2>1, <2>2
<1> DEFINE Reached == \E f \in S : f < n /\ n - f <= Span
           R == IF n \in keys /\ ~Reached THEN S \cup {n} ELSE S
<1>3. R \in SUBSET Upto(n) /\ n \in Nat
    OBVIOUS
<1>4. Cut(R, Upto(n))
    <2>1. ASSUME NEW k \in Upto(n)
          PROVE  k \in R <=> ~ \E f \in R : f < k /\ k - f <= Span
        <3>1. \A f \in R : f \in S \/ f = n
            OBVIOUS
        <3>2. CASE k = n
            <4>1. n \notin S /\ (n \in R <=> ~Reached)
                BY <3>2
            <4>2. (\E f \in R : f < n /\ n - f <= Span) <=> Reached
                BY <3>1, <1>3
            <4> QED BY <3>2, <4>1, <4>2
        <3>3. CASE k # n
            <4>1. k \in Upto(n) \ {n} /\ k < n /\ k \in Nat
                BY <3>3
            <4>2. k \in S <=> ~ \E f \in S : f < k /\ k - f <= Span
                BY <1>2, <4>1 DEF Cut
            <4>3. k \in R <=> k \in S
                BY <3>1, <3>3
            <4>4. (\E f \in R : f < k /\ k - f <= Span) <=> (\E f \in S : f < k /\ k - f <= Span)
                BY <3>1, <4>1, <1>3
            <4> QED BY <4>2, <4>3, <4>4
        <3> QED BY <3>2, <3>3
    <2> QED BY <2>1 DEF Cut
<1>5. Has(n)
    BY <1>3, <1>4
<1> QED BY <1>1, <1>5

\* There is one way to cut the keys.
LEMMA CutUnique ==
    ASSUME NEW keys \in SUBSET Nat, NEW S \in SUBSET keys, NEW R \in SUBSET keys,
           Cut(S, keys), Cut(R, keys)
    PROVE  S = R
<1> DEFINE T == {k \in keys : ~(k \in S <=> k \in R)}
<1>1. CASE T # {}
    <2>1. T \subseteq Nat
        OBVIOUS
    <2>2. PICK k \in T : \A j \in T : k <= j
        <3> HIDE DEF T
        <3> QED BY <1>1, <2>1, LeastKey
    <2>3. \A f \in keys : f < k => (f \in S <=> f \in R)
        <3>1. ASSUME NEW f \in keys, f < k, ~(f \in S <=> f \in R) PROVE FALSE
            <4>1. f \in T
                BY <3>1
            <4>2. k <= f /\ k \in Nat /\ f \in Nat
                BY <2>1, <2>2, <4>1
            <4> QED BY <3>1, <4>2
        <3> QED BY <3>1
    <2>4. (\E f \in S : f < k /\ k - f <= Span) <=> (\E f \in R : f < k /\ k - f <= Span)
        BY <2>3
    <2> QED BY <2>2, <2>4 DEF Cut
<1>2. CASE T = {}
    BY <1>2
<1> QED BY <1>1, <1>2

\* Starts is that one cut, for every table: keys are bounded integers.
LEMMA StartsCut ==
    ASSUME NEW B \in Nat, NEW keys \in SUBSET (0..B)
    PROVE  /\ Starts(keys) \in SUBSET keys /\ Cut(Starts(keys), keys)
           /\ \A S \in SUBSET keys : Cut(S, keys) => S = Starts(keys)
<1>1. \A k \in keys : k \in 0..B /\ k \in Nat
    OBVIOUS
<1>2. keys \cap 0..B = keys /\ keys \in SUBSET Nat
    BY <1>1, Zenon
<1>3. \E S \in SUBSET (keys \cap 0..B) : Cut(S, keys \cap 0..B)
    BY <1>2, CutExists
<1>4. \E S \in SUBSET keys : Cut(S, keys)
    BY <1>2, <1>3, Zenon
<1>5. Starts(keys) = CHOOSE S \in SUBSET keys : Cut(S, keys)
    BY DEF Starts, Cut
<1>6. Starts(keys) \in SUBSET keys /\ Cut(Starts(keys), keys)
    BY <1>4, <1>5
<1>7. ASSUME NEW S \in SUBSET keys, Cut(S, keys) PROVE S = Starts(keys)
    BY <1>2, <1>6, <1>7, CutUnique
<1> QED BY <1>6, <1>7

\* The second pass examines every row of a creation time once: the clusters
\* hold all of them, no two overlap, and none is wider than the span of one
\* server's keys (hostipc_darwin.go, postgresIPCRemovalPlan).
THEOREM HostIPCClusters ==
    ASSUME NEW B \in Nat, NEW rows, \A s \in rows : s.key \in 0..B
    PROVE  /\ UNION Clusters(rows) = rows
           /\ \A c, d \in Clusters(rows) : c = d \/ c \cap d = {}
           /\ \A c \in Clusters(rows) : c # {} /\ \A s, t \in c : s.key - t.key <= Span
<1> DEFINE keys == {s.key : s \in rows}
           C(f) == {s \in rows : s.key >= f /\ s.key - f <= Span}
<1>1. keys \in SUBSET (0..B)
    OBVIOUS
<1> DEFINE S == Starts(keys)
<1>2. S \in SUBSET keys /\ Cut(S, keys)
    BY <1>1, StartsCut
<1>3. Clusters(rows) = {C(f) : f \in S}
    BY DEF Clusters
<1> HIDE DEF S
<1>4. UNION Clusters(rows) = rows
    <2>1. ASSUME NEW s \in rows PROVE \E f \in S : s \in C(f)
        <3>1. CASE s.key \in S
            BY <3>1
        <3>2. CASE s.key \notin S
            <4>1. PICK f \in S : f < s.key /\ s.key - f <= Span
                BY <1>2, <3>2 DEF Cut
            <4>2. f \in Nat /\ s.key \in Nat
                BY <1>1, <1>2
            <4> QED BY <4>1, <4>2
        <3> QED BY <3>1, <3>2
    <2> QED BY <1>3, <2>1
<1>5. ASSUME NEW f \in S, NEW g \in S, NEW s \in C(f), s \in C(g) PROVE f = g
    <2>1. f \in Nat /\ g \in Nat /\ s.key \in Nat
        BY <1>1, <1>2
    <2>2. ~(f < g /\ g - f <= Span) /\ ~(g < f /\ f - g <= Span)
        BY <1>2 DEF Cut
    <2> QED BY <1>5, <2>1, <2>2
<1>6. ASSUME NEW c \in Clusters(rows), NEW d \in Clusters(rows), c \cap d # {} PROVE c = d
    <2>1. PICK f \in S, g \in S : c = C(f) /\ d = C(g)
        BY <1>3
    <2>2. f = g
        BY <1>5, <1>6, <2>1
    <2> QED BY <2>1, <2>2
<1>7. ASSUME NEW f \in S PROVE C(f) # {} /\ \A s, t \in C(f) : s.key - t.key <= Span
    <2>1. PICK s \in rows : s.key = f
        BY <1>2
    <2>2. s \in C(f)
        BY <2>1
    <2> QED BY <1>1, <1>2, <2>2
<1> QED BY <1>3, <1>4, <1>6, <1>7

-----------------------------------------------------------------------------
(* The removal plan *)

\* A cluster is made of rows of the table.
LEMMA ClusterOfRows ==
    ASSUME NEW rows, NEW c \in Clusters(rows)
    PROVE  c \subseteq rows
BY DEF Clusters

\* A set of the second pass is one of two or more rows of its creation time,
\* none of which belongs to a server that was seen alive.
LEMMA SecondPassRows ==
    ASSUME NEW seen, NEW rows, NEW s \in SecondPass(seen, rows)
    PROVE  \E c \in SUBSET {t \in rows : t.ctime = s.ctime} :
              /\ s \in c /\ Cardinality(c) >= 2
              /\ \A t \in c : ~BelongsToActivePostgres(seen, t.key)
<1>1. PICK v, c : /\ c \in Clusters({t \in rows : t.ctime = v})
                  /\ s \in c /\ Cardinality(c) >= 2
                  /\ \A t \in c : ~BelongsToActivePostgres(seen, t.key)
    BY DEF SecondPass
<1>2. c \subseteq {t \in rows : t.ctime = v}
    BY <1>1, ClusterOfRows
<1> QED
    BY <1>1, <1>2

\* A set belongs to its own run of keys.
LEMMA OwnRun ==
    ASSUME NEW rows, NEW s \in rows, s.key \in Nat
    PROVE  s \in RunOf(rows, s)
<1>1. Min({s.key, s.key}) = s.key /\ Max({s.key, s.key}) = s.key
    BY DEF Min, Max
<1> QED
    BY <1>1 DEF RunOf

\* What a collector plans to remove is among the rows it read, and no set it
\* plans belongs to a server whose segment it saw attached.
LEMMA PlannedSetsSafe ==
    ASSUME NEW seen, NEW rows, NEW s \in PlannedSets(seen, rows),
           \A t \in rows : t.key \in Nat
    PROVE  s \in rows /\ ~BelongsToActivePostgres(seen, s.key)
<1> DEFINE first == FirstPass(seen, rows)
<1>1. CASE s \in first
    BY <1>1, OwnRun DEF FirstPass, OrphanedRun
<1>2. CASE s \in SecondPass(seen, rows \ first)
    <2> HIDE DEF first
    <2> QED
        BY <1>2, SecondPassRows
<1> QED
    BY <1>1, <1>2 DEF PlannedSets

\* The set of another application is in no plan: alone in its run of keys and in
\* its creation time, and next to no control segment.
LEMMA LoneNotPlanned ==
    ASSUME NEW seen, NEW rows, Lone \in rows, LoneIsApart,
           \A t \in rows : t = Lone \/
               (t.of \in Postmaster /\ t.key \in Keys(t.of) /\ t.ctime \in Nat /\ t.ctime > 0),
           \A x \in seen : \E p \in Postmaster : x.key = BaseOf[p]
    PROVE  Lone \notin PlannedSets(seen, rows)
<1> DEFINE first == FirstPass(seen, rows)
<1>0. Lone.key = LoneKey /\ Lone.ctime = 0
    BY DEF Lone
<1>k. \A t \in rows : t.key \in Nat
    BY <1>0 DEF Keys
<1>n. \A t \in rows : t # Lone => t.key # LoneKey /\ t.key # LoneKey + 1 /\ t.key # LoneKey - 1
    BY DEF LoneIsApart, Keys
<1>1. RunOf(rows, Lone) = {Lone}
    <2>1. ASSUME NEW t \in RunOf(rows, Lone), t # Lone PROVE FALSE
        <3>1. t \in rows /\ t.key \in Nat
            BY <2>1, <1>k DEF RunOf
        <3>2. CASE t.key > LoneKey
            <4>1. Min({LoneKey, t.key}) = LoneKey /\ Max({LoneKey, t.key}) = t.key
                BY <3>1, <3>2 DEF Min, Max
            <4>2. \E u \in rows : u.key = LoneKey + 1
                BY <1>0, <2>1, <3>1, <3>2, <4>1 DEF RunOf
            <4> QED
                BY <1>0, <1>n, <4>2
        <3>3. CASE t.key < LoneKey
            <4>1. Min({LoneKey, t.key}) = t.key /\ Max({LoneKey, t.key}) = LoneKey
                BY <3>1, <3>3 DEF Min, Max
            <4>2. \E u \in rows : u.key = LoneKey - 1
                BY <1>0, <2>1, <3>1, <3>3, <4>1 DEF RunOf
            <4> QED
                BY <1>0, <1>n, <4>2
        <3> QED
            BY <1>n, <2>1, <3>1, <3>2, <3>3
    <2> QED
        BY <1>0, <2>1, OwnRun
<1>2. Cardinality({Lone}) = 1
    BY FS_Singleton
<1>3. Lone \notin first
    <2>1. {s.key : s \in {Lone}} = {LoneKey}
        BY <1>0
    <2>2. Min({s.key : s \in {Lone}}) - 1 = LoneKey - 1
        <3>1. Min({LoneKey}) = LoneKey
            BY DEF Min
        <3> QED
            BY <2>1, <3>1
    <2>3. LoneKey - 1 \notin OrphanedBases(seen)
        BY DEF OrphanedBases, LoneIsApart
    <2>4. ~(Cardinality({Lone}) >= 2)
        BY <1>2
    <2>5. ~OrphanedRun(seen, {Lone})
        BY <2>2, <2>3, <2>4, Zenon DEF OrphanedRun
    <2> QED
        BY <1>1, <2>5 DEF FirstPass
<1>4. ASSUME Lone \in SecondPass(seen, rows \ first) PROVE FALSE
    <2> HIDE DEF first
    <2>1. PICK c \in SUBSET {t \in rows \ first : t.ctime = Lone.ctime} :
              Lone \in c /\ Cardinality(c) >= 2
        BY <1>4, SecondPassRows
    <2>2. c = {Lone}
        BY <1>0, <2>1
    <2> QED
        BY <1>2, <2>1, <2>2
<1> QED
    BY <1>3, <1>4 DEF PlannedSets

-----------------------------------------------------------------------------
(* Servers and collectors *)

\* The plan collector r makes when the numbers of the dead creators of these
\* rows are in use.
Planning(r, reused) ==
    /\ reap[r] = "semaphores"
    /\ planShm' = [planShm EXCEPT ![r] =
            {m.id : m \in PlannedSegments(Probed(sharedSeen[r], reused))}]
    /\ planSem' = [planSem EXCEPT ![r] =
            {s.id : s \in PlannedSets(Probed(sharedSeen[r], reused), sem)}]
    /\ orphans' = [orphans EXCEPT ![r] = @ \ reused]
    /\ sharedSeen' = [sharedSeen EXCEPT ![r] = {}]
    /\ reap' = [reap EXCEPT ![r] = "remove"]
    /\ UNCHANGED <<server, born, shm, sem, nextId, verdict>>

\* A collector that reads the second table makes such a plan.
LEMMA PlanIsMade ==
    ASSUME NEW r \in Reaper, ReadSemaphores(r)
    PROVE  \E reused : Planning(r, reused)
BY DEF ReadSemaphores, Planning

\* A row is probed with its identifier and its key.
LEMMA ProbedRows ==
    ASSUME NEW rows, NEW reused
    PROVE  /\ \A y \in Probed(rows, reused) : \E x \in rows :
                 y.id = x.id /\ y.key = x.key /\ (y.active <=> Active(x, reused))
           /\ \A x \in rows : \E y \in Probed(rows, reused) :
                 y.id = x.id /\ y.key = x.key /\ (y.active <=> Active(x, reused))
<1>1. ASSUME NEW y \in Probed(rows, reused)
      PROVE  \E x \in rows : y.id = x.id /\ y.key = x.key /\ (y.active <=> Active(x, reused))
    BY DEF Probed
<1>2. ASSUME NEW x \in rows
      PROVE  \E y \in Probed(rows, reused) :
                 y.id = x.id /\ y.key = x.key /\ (y.active <=> Active(x, reused))
    <2> DEFINE y == [id |-> x.id, key |-> x.key, active |-> Active(x, reused)]
    <2>1. y \in Probed(rows, reused) /\ y.id = x.id /\ y.key = x.key
        BY DEF Probed
    <2>2. y.active <=> Active(x, reused)
        OBVIOUS
    <2> QED BY <2>1, <2>2
<1> QED BY <1>1, <1>2

\* Every step keeps the variables in their types.
LEMMA IpcTypeStep ==
    ASSUME IpcTypeOK, [IpcNext]_ipcVars
    PROVE  IpcTypeOK'
<1>CreateSegment. ASSUME NEW p \in Postmaster, CreateSegment(p) PROVE IpcTypeOK'
    BY <1>CreateSegment DEF CreateSegment, Quiescent, IpcTypeOK
<1>CreateSets. ASSUME NEW p \in Postmaster, CreateSets(p) PROVE IpcTypeOK'
    BY <1>CreateSets DEF CreateSets, Keys, IpcTypeOK
<1>StopServer. ASSUME NEW p \in Postmaster, StopServer(p) PROVE IpcTypeOK'
    BY <1>StopServer DEF StopServer, IpcTypeOK
<1>KillServer. ASSUME NEW p \in Postmaster, KillServer(p) PROVE IpcTypeOK'
    BY <1>KillServer DEF KillServer, IpcTypeOK
<1>ReadShared. ASSUME NEW r \in Reaper, ReadShared(r) PROVE IpcTypeOK'
    <2> DEFINE Attached(m) == server[m.of] # "down"
    <2>1. {[id |-> m.id, key |-> m.key, attached |-> Attached(m)] : m \in shm}
              \in SUBSET [id : Nat, key : Nat, attached : BOOLEAN]
        <3>1. ASSUME NEW m \in shm PROVE Attached(m) \in BOOLEAN
            BY Zenon
        <3>2. ASSUME NEW m \in shm PROVE m.id \in Nat /\ m.key \in Nat
            BY DEF IpcTypeOK
        <3> HIDE DEF Attached
        <3> QED
            BY <3>1, <3>2
    <2>2. {m.id : m \in {x \in shm : server[x.of] = "down"}} \in SUBSET Nat
        BY DEF IpcTypeOK
    <2> QED
        BY <1>ReadShared, <2>1, <2>2 DEF ReadShared, IpcTypeOK
<1>ReadSemaphores. ASSUME NEW r \in Reaper, ReadSemaphores(r) PROVE IpcTypeOK'
    <2>0. PICK reused : Planning(r, reused)
        BY <1>ReadSemaphores, PlanIsMade
    <2> DEFINE seen == Probed(sharedSeen[r], reused)
    <2>1. ASSUME NEW s \in PlannedSets(seen, sem) PROVE s.id \in Nat
        <3> HIDE DEF seen
        <3>1. s \in sem
            BY PlannedSetsSafe DEF IpcTypeOK
        <3> QED
            BY <3>1 DEF IpcTypeOK
    <2>2. {s.id : s \in PlannedSets(seen, sem)} \in SUBSET Nat
        BY <2>1
    <2>3. {m.id : m \in PlannedSegments(seen)} \in SUBSET Nat
        BY DEF PlannedSegments, Probed, IpcTypeOK
    <2> HIDE DEF seen
    <2> QED
        BY <2>0, <2>2, <2>3 DEF Planning, IpcTypeOK, seen
<1>RunIPCRemove. ASSUME NEW r \in Reaper, RunIPCRemove(r) PROVE IpcTypeOK'
    BY <1>RunIPCRemove DEF RunIPCRemove, IpcTypeOK
<1>RecoveryVerdict. ASSUME NEW r \in Reaper, RecoveryVerdict(r) PROVE IpcTypeOK'
    BY <1>RecoveryVerdict DEF RecoveryVerdict, Surviving, IpcTypeOK
<1>U. CASE UNCHANGED ipcVars
    BY <1>U DEF ipcVars, IpcTypeOK
<1> QED
    BY <1>CreateSegment, <1>CreateSets, <1>StopServer, <1>KillServer,
       <1>ReadShared, <1>ReadSemaphores, <1>RunIPCRemove, <1>RecoveryVerdict, <1>U DEF IpcNext

\* The tables and what collectors know of them, step by step.
LEMMA TableStep ==
    ASSUME IpcTypeOK, TableInv, \A r \in Reaper : KnownInv(r), [IpcNext]_ipcVars
    PROVE  TableInv' /\ \A q \in Reaper : KnownInv(q)'
<1>CreateSegment. ASSUME NEW p \in Postmaster, CreateSegment(p)
                  PROVE  TableInv' /\ \A q \in Reaper : KnownInv(q)'
    <2>1. TableInv'
        BY <1>CreateSegment DEF CreateSegment, Quiescent, IpcTypeOK, TableInv, KnownInv, Lone
    <2>2. ASSUME NEW q \in Reaper PROVE KnownInv(q)'
        BY <1>CreateSegment DEF CreateSegment, Quiescent, IpcTypeOK, TableInv, KnownInv, Lone
    <2> QED
        BY <2>1, <2>2
<1>CreateSets. ASSUME NEW p \in Postmaster, CreateSets(p)
               PROVE  TableInv' /\ \A q \in Reaper : KnownInv(q)'
    <2>1. TableInv'
        BY <1>CreateSets DEF CreateSets, Keys, IpcTypeOK, TableInv, KnownInv, Lone
    <2>2. ASSUME NEW q \in Reaper PROVE KnownInv(q)'
        BY <1>CreateSets DEF CreateSets, Keys, IpcTypeOK, TableInv, KnownInv, Lone
    <2> QED
        BY <2>1, <2>2
<1>StopServer. ASSUME NEW p \in Postmaster, StopServer(p)
               PROVE  TableInv' /\ \A q \in Reaper : KnownInv(q)'
    <2>1. TableInv'
        BY <1>StopServer DEF StopServer, IpcTypeOK, TableInv, KnownInv, Lone
    <2>2. ASSUME NEW q \in Reaper PROVE KnownInv(q)'
        BY <1>StopServer DEF StopServer, IpcTypeOK, TableInv, KnownInv, Lone
    <2> QED
        BY <2>1, <2>2
<1>KillServer. ASSUME NEW p \in Postmaster, KillServer(p)
               PROVE  TableInv' /\ \A q \in Reaper : KnownInv(q)'
    <2>1. TableInv'
        BY <1>KillServer DEF KillServer, IpcTypeOK, TableInv, KnownInv, Lone
    <2>2. ASSUME NEW q \in Reaper PROVE KnownInv(q)'
        BY <1>KillServer DEF KillServer, IpcTypeOK, TableInv, KnownInv, Lone
    <2> QED
        BY <2>1, <2>2
<1>ReadShared. ASSUME NEW r \in Reaper, ReadShared(r)
               PROVE  TableInv' /\ \A q \in Reaper : KnownInv(q)'
    <2>1. TableInv'
        BY <1>ReadShared DEF ReadShared, IpcTypeOK, TableInv, KnownInv, Lone
    <2>2. ASSUME NEW q \in Reaper PROVE KnownInv(q)'
        BY <1>ReadShared DEF ReadShared, IpcTypeOK, TableInv, KnownInv, Lone
    <2> QED
        BY <2>1, <2>2
<1>ReadSemaphores. ASSUME NEW r \in Reaper, ReadSemaphores(r)
                   PROVE  TableInv' /\ \A q \in Reaper : KnownInv(q)'
    <2>1. TableInv'
        BY <1>ReadSemaphores DEF ReadSemaphores, TableInv
    <2>0. PICK reused : Planning(r, reused)
        BY <1>ReadSemaphores, PlanIsMade
    <2>2. ASSUME NEW s \in PlannedSets(Probed(sharedSeen[r], reused), sem)
          PROVE  s.id \in 0..(nextId - 1)
        <3>1. s \in sem
            BY PlannedSetsSafe DEF IpcTypeOK
        <3> QED
            BY <3>1 DEF TableInv, Lone, IpcTypeOK
    <2>3. ASSUME NEW q \in Reaper PROVE KnownInv(q)'
        <3>1. CASE q # r
            BY <1>ReadSemaphores, <3>1 DEF ReadSemaphores, KnownInv, IpcTypeOK
        <3>2. CASE q = r
            <4>1. planShm'[r] \subseteq 1..(nextId - 1)
                <5>1. planShm'[r] = {m.id : m \in PlannedSegments(Probed(sharedSeen[r], reused))}
                    BY <2>0 DEF Planning, IpcTypeOK
                <5>2. \A y \in Probed(sharedSeen[r], reused) : y.id \in 1..(nextId - 1)
                    BY ProbedRows DEF KnownInv
                <5> QED
                    BY <5>1, <5>2 DEF PlannedSegments
            <4>2. planSem'[r] \subseteq 0..(nextId - 1)
                BY <2>0, <2>2 DEF Planning, IpcTypeOK
            <4>3. sharedSeen'[r] = {} /\ UNCHANGED <<nextId, sem>>
                BY <1>ReadSemaphores DEF ReadSemaphores, IpcTypeOK
            <4> QED
                BY <3>2, <4>1, <4>2, <4>3 DEF KnownInv
        <3> QED
            BY <3>1, <3>2
    <2> QED
        BY <2>1, <2>3
<1>RunIPCRemove. ASSUME NEW r \in Reaper, RunIPCRemove(r)
                 PROVE  TableInv' /\ \A q \in Reaper : KnownInv(q)'
    <2>1. TableInv'
        BY <1>RunIPCRemove DEF RunIPCRemove, IpcTypeOK, TableInv, KnownInv, Lone
    <2>2. ASSUME NEW q \in Reaper PROVE KnownInv(q)'
        BY <1>RunIPCRemove DEF RunIPCRemove, IpcTypeOK, TableInv, KnownInv, Lone
    <2> QED
        BY <2>1, <2>2
<1>RecoveryVerdict. ASSUME NEW r \in Reaper, RecoveryVerdict(r)
                    PROVE  TableInv' /\ \A q \in Reaper : KnownInv(q)'
    <2>1. TableInv'
        BY <1>RecoveryVerdict DEF RecoveryVerdict, Surviving, IpcTypeOK, TableInv, KnownInv,
            Lone
    <2>2. ASSUME NEW q \in Reaper PROVE KnownInv(q)'
        BY <1>RecoveryVerdict DEF RecoveryVerdict, Surviving, IpcTypeOK, TableInv, KnownInv,
            Lone
    <2> QED
        BY <2>1, <2>2
<1>U. CASE UNCHANGED ipcVars
    BY <1>U DEF ipcVars, TableInv, KnownInv
<1> QED
    BY <1>CreateSegment, <1>CreateSets, <1>StopServer, <1>KillServer,
       <1>ReadShared, <1>ReadSemaphores, <1>RunIPCRemove, <1>RecoveryVerdict, <1>U DEF IpcNext

\* A pass plans every segment that is orphaned.
LEMMA PassStep ==
    ASSUME IpcTypeOK, TableInv, \A r \in Reaper : KnownInv(r), \A r \in Reaper : PassInv(r),
           [IpcNext]_ipcVars
    PROVE  \A q \in Reaper : PassInv(q)'
<1>CreateSegment. ASSUME NEW p \in Postmaster, CreateSegment(p), NEW q \in Reaper
                  PROVE  PassInv(q)'
    <2>0. /\ UNCHANGED <<reap, sharedSeen, planShm, orphans, verdict>>
          /\ \A x \in Postmaster : server'[x] = "down" <=> server[x] = "down" /\ x # p
          /\ shm' = {m \in shm : m.key # BaseOf[p]} \cup {[id |-> nextId, key |-> BaseOf[p], of |-> p]}
        BY <1>CreateSegment DEF CreateSegment, IpcTypeOK
    <2>1. ASSUME reap[q] = "semaphores", NEW id \in orphans[q], NEW m \in shm', m.id = id
          PROVE  server'[m.of] = "down"
        <3>1. PICK x \in sharedSeen[q] : x.id = id
            BY <2>1 DEF PassInv
        <3>2. id # nextId
            BY <3>1 DEF KnownInv, IpcTypeOK
        <3>3. m \in shm /\ m.key # BaseOf[p]
            BY <2>0, <2>1, <3>2
        <3>4. m.of \in Postmaster /\ m.of # p
            BY <3>3 DEF TableInv, IpcTypeOK
        <3> QED
            BY <2>0, <2>1, <3>3, <3>4 DEF PassInv
    <2> QED
        BY <2>0, <2>1 DEF PassInv
<1>CreateSets. ASSUME NEW p \in Postmaster, CreateSets(p) PROVE \A q \in Reaper : PassInv(q)'
    BY <1>CreateSets DEF CreateSets, IpcTypeOK, PassInv
<1>StopServer. ASSUME NEW p \in Postmaster, StopServer(p) PROVE \A q \in Reaper : PassInv(q)'
    BY <1>StopServer DEF StopServer, IpcTypeOK, PassInv
<1>KillServer. ASSUME NEW p \in Postmaster, KillServer(p) PROVE \A q \in Reaper : PassInv(q)'
    BY <1>KillServer DEF KillServer, IpcTypeOK, PassInv
<1>ReadShared. ASSUME NEW r \in Reaper, ReadShared(r) PROVE \A q \in Reaper : PassInv(q)'
    <2> SUFFICES ASSUME NEW q \in Reaper PROVE PassInv(q)'
        OBVIOUS
    <2>1. CASE q # r
        BY <1>ReadShared, <2>1 DEF ReadShared, PassInv, IpcTypeOK
    <2>2. CASE q = r
        <3>1. sharedSeen'[r] = {[id |-> m.id, key |-> m.key, attached |-> server[m.of] # "down"] : m \in shm}
            BY <1>ReadShared DEF ReadShared, IpcTypeOK
        <3>2. /\ orphans'[r] = {m.id : m \in {x \in shm : server[x.of] = "down"}}
              /\ reap'[r] = "semaphores" /\ verdict'[r] = "none" /\ UNCHANGED <<server, shm>>
            BY <1>ReadShared DEF ReadShared, IpcTypeOK
        <3>3. ASSUME NEW id \in orphans'[r]
              PROVE  /\ \E x \in sharedSeen'[r] : x.id = id /\ ~x.attached
                     /\ \A m \in shm : m.id = id => server[m.of] = "down"
            <4>1. PICK m \in shm : m.id = id /\ server[m.of] = "down"
                BY <3>2
            <4> DEFINE x == [id |-> m.id, key |-> m.key, attached |-> server[m.of] # "down"]
            <4>2. x \in sharedSeen'[r] /\ x.id = id /\ ~x.attached
                BY <3>1, <4>1
            <4> QED
                BY <4>1, <4>2 DEF TableInv
        <3> QED
            BY <2>2, <3>2, <3>3 DEF PassInv
    <2> QED
        BY <2>1, <2>2
<1>ReadSemaphores. ASSUME NEW r \in Reaper, ReadSemaphores(r)
                   PROVE  \A q \in Reaper : PassInv(q)'
    <2> SUFFICES ASSUME NEW q \in Reaper PROVE PassInv(q)'
        OBVIOUS
    <2>0. PICK reused : Planning(r, reused)
        BY <1>ReadSemaphores, PlanIsMade
    <2>1. CASE q # r
        BY <2>0, <2>1 DEF Planning, PassInv, IpcTypeOK
    <2>2. CASE q = r
        <3>1. /\ orphans'[r] = orphans[r] \ reused /\ reap'[r] = "remove" /\ verdict'[r] = "none"
              /\ planShm'[r] = {m.id : m \in PlannedSegments(Probed(sharedSeen[r], reused))}
            BY <2>0 DEF Planning, PassInv, IpcTypeOK
        <3>2. ASSUME NEW id \in orphans'[r] PROVE id \in planShm'[r]
            <4>1. PICK x \in sharedSeen[r] : x.id = id /\ ~x.attached
                BY <2>0, <3>1 DEF Planning, PassInv
            <4>2. \A m \in shm : m.id = id => server[m.of] = "down"
                BY <2>0, <3>1 DEF Planning, PassInv
            <4>3. ~Active(x, reused)
                BY <3>1, <4>1, <4>2 DEF Active, ProcessAlive
            <4>4. PICK y \in Probed(sharedSeen[r], reused) : y.id = id /\ ~y.active
                BY <4>1, <4>3, ProbedRows
            <4> QED
                BY <3>1, <4>4 DEF PlannedSegments
        <3> QED
            BY <2>2, <3>1, <3>2 DEF PassInv
    <2> QED
        BY <2>1, <2>2
<1>RunIPCRemove. ASSUME NEW r \in Reaper, RunIPCRemove(r) PROVE \A q \in Reaper : PassInv(q)'
    BY <1>RunIPCRemove DEF RunIPCRemove, IpcTypeOK, PassInv
<1>RecoveryVerdict. ASSUME NEW r \in Reaper, RecoveryVerdict(r)
                    PROVE  \A q \in Reaper : PassInv(q)'
    BY <1>RecoveryVerdict DEF RecoveryVerdict, IpcTypeOK, PassInv
<1>U. CASE UNCHANGED ipcVars
    BY <1>U DEF ipcVars, PassInv
<1> QED
    BY <1>CreateSegment, <1>CreateSets, <1>StopServer, <1>KillServer,
       <1>ReadShared, <1>ReadSemaphores, <1>RunIPCRemove, <1>RecoveryVerdict, <1>U DEF IpcNext

\* Nothing plans or removes the set that stands alone.
LEMMA LoneStep ==
    ASSUME IpcTypeOK, TableInv, \A r \in Reaper : KnownInv(r), LoneIsApart, LoneInv, [IpcNext]_ipcVars
    PROVE  LoneInv'
<1>CreateSegment. ASSUME NEW p \in Postmaster, CreateSegment(p) PROVE LoneInv'
    BY <1>CreateSegment DEF CreateSegment, IpcTypeOK, LoneInv, LoneSetKept, Lone, KnownInv
<1>CreateSets. ASSUME NEW p \in Postmaster, CreateSets(p) PROVE LoneInv'
    <2>1. LoneKey \notin Keys(p)
        BY DEF LoneIsApart, Keys
    <2>2. Lone \in sem /\ Lone.key = LoneKey
        BY DEF LoneInv, LoneSetKept, Lone
    <2>3. Lone \in sem'
        BY <1>CreateSets, <2>1, <2>2 DEF CreateSets
    <2> QED
        BY <1>CreateSets, <2>3 DEF CreateSets, LoneInv, LoneSetKept, Lone
<1>StopServer. ASSUME NEW p \in Postmaster, StopServer(p) PROVE LoneInv'
    BY <1>StopServer DEF StopServer, IpcTypeOK, LoneInv, LoneSetKept, Lone, KnownInv
<1>KillServer. ASSUME NEW p \in Postmaster, KillServer(p) PROVE LoneInv'
    BY <1>KillServer DEF KillServer, IpcTypeOK, LoneInv, LoneSetKept, Lone, KnownInv
<1>ReadShared. ASSUME NEW r \in Reaper, ReadShared(r) PROVE LoneInv'
    BY <1>ReadShared DEF ReadShared, IpcTypeOK, LoneInv, LoneSetKept, Lone, KnownInv
<1>ReadSemaphores. ASSUME NEW r \in Reaper, ReadSemaphores(r) PROVE LoneInv'
    <2>1. sem' = sem /\ Lone \in sem
        BY <1>ReadSemaphores DEF ReadSemaphores, LoneInv, LoneSetKept
    <2>0. PICK reused : Planning(r, reused)
        BY <1>ReadSemaphores, PlanIsMade
    <2> DEFINE seen == Probed(sharedSeen[r], reused)
    <2>2. Lone \notin PlannedSets(seen, sem)
        <3>1. \A x \in seen : \E p \in Postmaster : x.key = BaseOf[p]
            BY ProbedRows DEF KnownInv
        <3>2. \A t \in sem : t = Lone \/
                  (t.of \in Postmaster /\ t.key \in Keys(t.of) /\ t.ctime \in Nat /\ t.ctime > 0)
            BY DEF TableInv, IpcTypeOK
        <3> HIDE DEF seen
        <3> QED
            BY <2>1, <3>1, <3>2, LoneNotPlanned
    <2>3. ASSUME NEW s \in PlannedSets(seen, sem) PROVE s.id # 0
        <3> HIDE DEF seen
        <3>1. s \in sem
            BY PlannedSetsSafe DEF IpcTypeOK
        <3>2. s # Lone
            BY <2>2
        <3> QED
            BY <3>1, <3>2 DEF TableInv, IpcTypeOK
    <2>4. ASSUME NEW q \in Reaper PROVE 0 \notin planSem'[q]
        <3>1. CASE q = r
            BY <2>0, <2>3, <3>1 DEF Planning, IpcTypeOK
        <3>2. CASE q # r
            BY <1>ReadSemaphores, <3>2 DEF ReadSemaphores, IpcTypeOK, LoneInv
        <3> QED
            BY <3>1, <3>2
    <2>5. Lone' = Lone
        BY DEF Lone
    <2> QED
        BY <2>1, <2>4, <2>5 DEF LoneInv, LoneSetKept
<1>RunIPCRemove. ASSUME NEW r \in Reaper, RunIPCRemove(r) PROVE LoneInv'
    BY <1>RunIPCRemove DEF RunIPCRemove, IpcTypeOK, LoneInv, LoneSetKept, Lone, KnownInv
<1>RecoveryVerdict. ASSUME NEW r \in Reaper, RecoveryVerdict(r) PROVE LoneInv'
    BY <1>RecoveryVerdict DEF RecoveryVerdict, IpcTypeOK, LoneInv, LoneSetKept, Lone, KnownInv
<1>U. CASE UNCHANGED ipcVars
    BY <1>U DEF ipcVars, LoneInv, LoneSetKept
<1> QED
    BY <1>CreateSegment, <1>CreateSets, <1>StopServer, <1>KillServer,
       <1>ReadShared, <1>ReadSemaphores, <1>RunIPCRemove, <1>RecoveryVerdict, <1>U DEF IpcNext

\* Nothing that is planned or removed belongs to a live server.
LEMMA LiveStep ==
    ASSUME IpcTypeOK, TableInv, LiveServerKeepsIPC, DistinctKeys, ~StartsBetweenReads,
           \A r \in Reaper : KnownInv(r) /\ SeenInv(r) /\ PlanInv(r), [IpcNext]_ipcVars
    PROVE  LiveServerKeepsIPC' /\ \A q \in Reaper : SeenInv(q)' /\ PlanInv(q)'
<1>CreateSegment. ASSUME NEW p \in Postmaster, CreateSegment(p)
                  PROVE  LiveServerKeepsIPC' /\ \A q \in Reaper : SeenInv(q)' /\ PlanInv(q)'
    <2>1. LiveServerKeepsIPC'
        <3> SUFFICES ASSUME NEW q \in Postmaster
                     PROVE  /\ server'[q] \in {"segment", "up", "dying"} =>
                                \E m \in shm' : m.of = q /\ m.key = BaseOf[q]
                            /\ server'[q] \in {"up", "dying"} =>
                                \A k \in Keys(q) : \E s \in sem' :
                                    s.of = q /\ s.key = k /\ s.ctime = born'[q]
            BY DEF LiveServerKeepsIPC, Keys
        <3>0. /\ server[q] \in {"segment", "up", "dying"} =>
                   \E m \in shm : m.of = q /\ m.key = BaseOf[q]
              /\ server[q] \in {"up", "dying"} =>
                   \A k \in Keys(q) : \E s \in sem :
                       s.of = q /\ s.key = k /\ s.ctime = born[q]
            BY DEF LiveServerKeepsIPC
        <3>1. CASE q = p
            <4>1. [id |-> nextId, key |-> BaseOf[p], of |-> p] \in shm'
                BY <1>CreateSegment DEF CreateSegment
            <4>2. server'[p] = "segment"
                BY <1>CreateSegment DEF CreateSegment, IpcTypeOK
            <4> QED
                BY <3>1, <4>1, <4>2
        <3>2. CASE q # p
            <4>1. BaseOf[q] # BaseOf[p]
                BY <3>2 DEF DistinctKeys
            <4> QED
                BY <1>CreateSegment, <3>0, <3>2, <4>1 DEF CreateSegment, IpcTypeOK
        <3> QED
            BY <3>1, <3>2
    <2>2. ASSUME NEW q \in Reaper PROVE SeenInv(q)'
        BY <1>CreateSegment DEF CreateSegment, Quiescent, IpcTypeOK, SeenInv, TableInv,
            KnownInv, LiveServerKeepsIPC
    <2>3. ASSUME NEW q \in Reaper PROVE PlanInv(q)'
        BY <1>CreateSegment DEF CreateSegment, Quiescent, IpcTypeOK, PlanInv, SeenInv,
            TableInv, KnownInv
    <2> QED
        BY <2>1, <2>2, <2>3
<1>CreateSets. ASSUME NEW p \in Postmaster, CreateSets(p)
               PROVE  LiveServerKeepsIPC' /\ \A q \in Reaper : SeenInv(q)' /\ PlanInv(q)'
    <2>1. LiveServerKeepsIPC'
        <3> SUFFICES ASSUME NEW q \in Postmaster
                     PROVE  /\ server'[q] \in {"segment", "up", "dying"} =>
                                \E m \in shm' : m.of = q /\ m.key = BaseOf[q]
                            /\ server'[q] \in {"up", "dying"} =>
                                \A k \in Keys(q) : \E s \in sem' :
                                    s.of = q /\ s.key = k /\ s.ctime = born'[q]
            BY DEF LiveServerKeepsIPC, Keys
        <3>0. /\ server[q] \in {"segment", "up", "dying"} =>
                   \E m \in shm : m.of = q /\ m.key = BaseOf[q]
              /\ server[q] \in {"up", "dying"} =>
                   \A k \in Keys(q) : \E s \in sem :
                       s.of = q /\ s.key = k /\ s.ctime = born[q]
            BY DEF LiveServerKeepsIPC
        <3>1. CASE q = p
            <4>1. ASSUME NEW k \in Keys(p)
                  PROVE  \E s \in sem' : s.of = p /\ s.key = k /\ s.ctime = born'[p]
                <5>1. PICK i \in 1..NSets : k = BaseOf[p] + i
                    BY DEF Keys
                <5>2. [id |-> nextId + i - 1, key |-> BaseOf[p] + i, ctime |-> nextId, of |-> p] \in sem'
                    BY <1>CreateSets DEF CreateSets
                <5>3. born'[p] = nextId
                    BY <1>CreateSets DEF CreateSets, IpcTypeOK
                <5> QED
                    BY <5>1, <5>2, <5>3
            <4> QED
                BY <1>CreateSets, <3>0, <3>1, <4>1 DEF CreateSets, IpcTypeOK
        <3>2. CASE q # p
            <4>1. \A k \in Keys(q) : k \notin Keys(p)
                BY <3>2 DEF DistinctKeys
            <4>2. server'[q] = server[q] /\ born'[q] = born[q] /\ shm' = shm
                BY <1>CreateSets, <3>2 DEF CreateSets, IpcTypeOK
            <4>3. \A s \in sem : s.key \notin Keys(p) => s \in sem'
                BY <1>CreateSets DEF CreateSets
            <4> QED
                BY <3>0, <4>1, <4>2, <4>3
        <3> QED
            BY <3>1, <3>2
    <2>2. ASSUME NEW q \in Reaper PROVE SeenInv(q)'
        BY <1>CreateSets DEF CreateSets, IpcTypeOK, SeenInv, TableInv, KnownInv,
            LiveServerKeepsIPC
    <2>3. ASSUME NEW q \in Reaper PROVE PlanInv(q)'
        <3>1. planShm'[q] = planShm[q] /\ planSem'[q] = planSem[q] /\ shm' = shm
            BY <1>CreateSets DEF CreateSets
        <3>2. ASSUME NEW id \in planShm[q] \cup planSem[q] PROVE id \in Nat /\ id < nextId
            BY <3>2 DEF KnownInv, IpcTypeOK
        <3>3. \A m \in shm : server'[m.of] = "down" <=> server[m.of] = "down"
            BY <1>CreateSets DEF CreateSets, IpcTypeOK
        <3>4. ASSUME NEW s \in sem', s.id \in planShm[q] \cup planSem[q], s.of \in Postmaster
              PROVE  server'[s.of] \in {"down", "segment"}
            <4>1. CASE s \in sem /\ s.key \notin Keys(p)
                <5>1. s.of # p
                    BY <4>1, <3>4 DEF TableInv, Lone
                <5>2. server[s.of] \in {"down", "segment"}
                    BY <3>4, <4>1 DEF PlanInv
                <5> QED
                    BY <1>CreateSets, <3>4, <5>1, <5>2 DEF CreateSets, IpcTypeOK
            <4>2. CASE \E i \in 1..NSets : s.id = nextId + i - 1
                BY <3>2, <3>4, <4>2 DEF IpcTypeOK
            <4> QED
                BY <1>CreateSets, <4>1, <4>2 DEF CreateSets
        <3> QED
            BY <3>1, <3>3, <3>4 DEF PlanInv
    <2> QED
        BY <2>1, <2>2, <2>3
<1>StopServer. ASSUME NEW p \in Postmaster, StopServer(p)
               PROVE  LiveServerKeepsIPC' /\ \A q \in Reaper : SeenInv(q)' /\ PlanInv(q)'
    <2>1. LiveServerKeepsIPC'
        <3> SUFFICES ASSUME NEW q \in Postmaster
                     PROVE  /\ server'[q] \in {"segment", "up", "dying"} =>
                                \E m \in shm' : m.of = q /\ m.key = BaseOf[q]
                            /\ server'[q] \in {"up", "dying"} =>
                                \A k \in Keys(q) : \E s \in sem' :
                                    s.of = q /\ s.key = k /\ s.ctime = born'[q]
            BY DEF LiveServerKeepsIPC, Keys
        <3>0. /\ server[q] \in {"segment", "up", "dying"} =>
                   \E m \in shm : m.of = q /\ m.key = BaseOf[q]
              /\ server[q] \in {"up", "dying"} =>
                   \A k \in Keys(q) : \E s \in sem :
                       s.of = q /\ s.key = k /\ s.ctime = born[q]
            BY DEF LiveServerKeepsIPC
        <3> QED
            BY <1>StopServer, <3>0 DEF StopServer, IpcTypeOK
    <2>2. ASSUME NEW q \in Reaper PROVE SeenInv(q)'
        BY <1>StopServer DEF StopServer, IpcTypeOK, SeenInv, TableInv, KnownInv,
            LiveServerKeepsIPC
    <2>3. ASSUME NEW q \in Reaper PROVE PlanInv(q)'
        BY <1>StopServer DEF StopServer, IpcTypeOK, PlanInv, SeenInv, TableInv, KnownInv
    <2> QED
        BY <2>1, <2>2, <2>3
<1>KillServer. ASSUME NEW p \in Postmaster, KillServer(p)
               PROVE  LiveServerKeepsIPC' /\ \A q \in Reaper : SeenInv(q)' /\ PlanInv(q)'
    <2>1. LiveServerKeepsIPC'
        <3> SUFFICES ASSUME NEW q \in Postmaster
                     PROVE  /\ server'[q] \in {"segment", "up", "dying"} =>
                                \E m \in shm' : m.of = q /\ m.key = BaseOf[q]
                            /\ server'[q] \in {"up", "dying"} =>
                                \A k \in Keys(q) : \E s \in sem' :
                                    s.of = q /\ s.key = k /\ s.ctime = born'[q]
            BY DEF LiveServerKeepsIPC, Keys
        <3>0. /\ server[q] \in {"segment", "up", "dying"} =>
                   \E m \in shm : m.of = q /\ m.key = BaseOf[q]
              /\ server[q] \in {"up", "dying"} =>
                   \A k \in Keys(q) : \E s \in sem :
                       s.of = q /\ s.key = k /\ s.ctime = born[q]
            BY DEF LiveServerKeepsIPC
        <3> QED
            BY <1>KillServer, <3>0 DEF KillServer, IpcTypeOK
    <2>2. ASSUME NEW q \in Reaper PROVE SeenInv(q)'
        BY <1>KillServer DEF KillServer, IpcTypeOK, SeenInv, TableInv, KnownInv,
            LiveServerKeepsIPC
    <2>3. ASSUME NEW q \in Reaper PROVE PlanInv(q)'
        BY <1>KillServer DEF KillServer, IpcTypeOK, PlanInv, SeenInv, TableInv, KnownInv
    <2> QED
        BY <2>1, <2>2, <2>3
<1>ReadShared. ASSUME NEW r \in Reaper, ReadShared(r)
               PROVE  LiveServerKeepsIPC' /\ \A q \in Reaper : SeenInv(q)' /\ PlanInv(q)'
    <2>1. LiveServerKeepsIPC'
        <3> SUFFICES ASSUME NEW q \in Postmaster
                     PROVE  /\ server'[q] \in {"segment", "up", "dying"} =>
                                \E m \in shm' : m.of = q /\ m.key = BaseOf[q]
                            /\ server'[q] \in {"up", "dying"} =>
                                \A k \in Keys(q) : \E s \in sem' :
                                    s.of = q /\ s.key = k /\ s.ctime = born'[q]
            BY DEF LiveServerKeepsIPC, Keys
        <3>0. /\ server[q] \in {"segment", "up", "dying"} =>
                   \E m \in shm : m.of = q /\ m.key = BaseOf[q]
              /\ server[q] \in {"up", "dying"} =>
                   \A k \in Keys(q) : \E s \in sem :
                       s.of = q /\ s.key = k /\ s.ctime = born[q]
            BY DEF LiveServerKeepsIPC
        <3> QED
            BY <1>ReadShared, <3>0 DEF ReadShared, IpcTypeOK
    <2>2. ASSUME NEW q \in Reaper PROVE SeenInv(q)'
        <3>1. CASE q # r
            BY <1>ReadShared, <3>1 DEF ReadShared, SeenInv, IpcTypeOK
        <3>2. CASE q = r
            <4>1. sharedSeen'[r] = {[id |-> m.id, key |-> m.key, attached |-> server[m.of] # "down"] : m \in shm}
                BY <1>ReadShared DEF ReadShared, IpcTypeOK
            <4>2. UNCHANGED <<server, shm>>
                BY <1>ReadShared DEF ReadShared
            <4>3. ASSUME NEW p \in Postmaster, server[p] # "down"
                  PROVE  \E x \in sharedSeen'[r] : x.attached /\ x.key = BaseOf[p]
                <5>1. PICK m \in shm : m.of = p /\ m.key = BaseOf[p]
                    BY <4>3 DEF LiveServerKeepsIPC, IpcTypeOK
                <5> DEFINE x == [id |-> m.id, key |-> m.key, attached |-> server[m.of] # "down"]
                <5>2. x \in sharedSeen'[r] /\ x.attached /\ x.key = m.key
                    BY <4>1, <4>3, <5>1
                <5> QED
                    BY <5>1, <5>2
            <4>4. ASSUME NEW x \in sharedSeen'[r], NEW m \in shm, ~x.attached, m.id = x.id
                  PROVE  server[m.of] = "down"
                <5>1. PICK n \in shm : x = [id |-> n.id, key |-> n.key, attached |-> server[n.of] # "down"]
                    BY <4>1
                <5>2. n = m /\ server[n.of] = "down"
                    BY <4>4, <5>1 DEF TableInv
                <5> QED
                    BY <5>2
            <4> QED
                BY <3>2, <4>2, <4>3, <4>4 DEF SeenInv
        <3> QED
            BY <3>1, <3>2
    <2>3. ASSUME NEW q \in Reaper PROVE PlanInv(q)'
        BY <1>ReadShared DEF ReadShared, IpcTypeOK, PlanInv, SeenInv, TableInv, KnownInv
    <2> QED
        BY <2>1, <2>2, <2>3
<1>ReadSemaphores. ASSUME NEW r \in Reaper, ReadSemaphores(r)
                   PROVE  LiveServerKeepsIPC' /\ \A q \in Reaper : SeenInv(q)' /\ PlanInv(q)'
    <2>1. LiveServerKeepsIPC'
        <3> SUFFICES ASSUME NEW q \in Postmaster
                     PROVE  /\ server'[q] \in {"segment", "up", "dying"} =>
                                \E m \in shm' : m.of = q /\ m.key = BaseOf[q]
                            /\ server'[q] \in {"up", "dying"} =>
                                \A k \in Keys(q) : \E s \in sem' :
                                    s.of = q /\ s.key = k /\ s.ctime = born'[q]
            BY DEF LiveServerKeepsIPC, Keys
        <3>0. /\ server[q] \in {"segment", "up", "dying"} =>
                   \E m \in shm : m.of = q /\ m.key = BaseOf[q]
              /\ server[q] \in {"up", "dying"} =>
                   \A k \in Keys(q) : \E s \in sem :
                       s.of = q /\ s.key = k /\ s.ctime = born[q]
            BY DEF LiveServerKeepsIPC
        <3> QED
            BY <1>ReadSemaphores, <3>0 DEF ReadSemaphores, IpcTypeOK
    <2>2. ASSUME NEW q \in Reaper PROVE SeenInv(q)'
        BY <1>ReadSemaphores DEF ReadSemaphores, IpcTypeOK, SeenInv, TableInv, KnownInv,
            LiveServerKeepsIPC
    <2>3. ASSUME NEW q \in Reaper PROVE PlanInv(q)'
        <3>1. CASE q # r
            BY <1>ReadSemaphores, <3>1 DEF ReadSemaphores, PlanInv, IpcTypeOK
        <3>2. CASE q = r
            <4>0. reap[r] = "semaphores" /\ UNCHANGED <<server, shm, sem>>
                BY <1>ReadSemaphores DEF ReadSemaphores
            <4>p. PICK reused : Planning(r, reused)
                BY <1>ReadSemaphores, PlanIsMade
            <4> DEFINE seen == Probed(sharedSeen[r], reused)
            <4>1. planShm'[r] = {m.id : m \in PlannedSegments(seen)}
                BY <4>p DEF Planning, IpcTypeOK
            <4>2. planSem'[r] = {s.id : s \in PlannedSets(seen, sem)}
                BY <4>p DEF Planning, IpcTypeOK
            <4>a. \A x \in sharedSeen[r] : x.attached =>
                      \E y \in seen : y.active /\ y.key = x.key
                BY ProbedRows DEF Active
            <4>b. \A y \in seen : \E x \in sharedSeen[r] :
                      y.id = x.id /\ (y.active \/ ~x.attached)
                BY ProbedRows DEF Active
            <4> HIDE DEF seen
            <4>3. ASSUME NEW m \in shm, m.id \in planShm'[r] PROVE server[m.of] = "down"
                BY <4>0, <4>1, <4>3, <4>b DEF PlannedSegments, SeenInv
            <4>4. ASSUME NEW s \in sem, s.id \in planShm'[r] PROVE FALSE
                BY <4>1, <4>4, <4>b DEF PlannedSegments, KnownInv
            <4>k. \A t \in sem : t.key \in Nat
                BY DEF IpcTypeOK
            <4>5. ASSUME NEW m \in shm, m.id \in planSem'[r] PROVE FALSE
                <5>1. PICK s \in PlannedSets(seen, sem) : s.id = m.id
                    BY <4>2, <4>5
                <5>2. s \in sem
                    BY <4>k, PlannedSetsSafe
                <5> QED
                    BY <5>1, <5>2 DEF TableInv
            <4>6. ASSUME NEW s \in sem, s.id \in planSem'[r], s.of \in Postmaster
                  PROVE  server[s.of] = "down"
                <5>1. PICK t \in PlannedSets(seen, sem) : t.id = s.id
                    BY <4>2, <4>6
                <5>2. t \in sem /\ ~BelongsToActivePostgres(seen, t.key)
                    BY <4>k, PlannedSetsSafe
                <5>3. t = s
                    BY <5>1, <5>2 DEF TableInv
                <5>4. PICK i \in 1..NSets : s.key = BaseOf[s.of] + i
                    BY <4>6 DEF TableInv, Keys, Lone
                <5>5. ASSUME server[s.of] # "down" PROVE FALSE
                    <6>1. PICK x \in seen : x.active /\ x.key = BaseOf[s.of]
                        BY <4>0, <4>6, <4>a, <5>5 DEF SeenInv
                    <6>2. BaseOf[s.of] \in ActiveBases(seen)
                        BY <6>1 DEF ActiveBases
                    <6>3. BaseOf[s.of] \in Nat
                        BY <4>6
                    <6>4. s.key > BaseOf[s.of] /\ s.key - BaseOf[s.of] <= Span
                        BY <5>4, <6>3
                    <6> QED
                        BY <5>2, <5>3, <6>2, <6>4 DEF BelongsToActivePostgres
                <5> QED
                    BY <5>5
            <4> QED
                BY <3>2, <4>0, <4>3, <4>4, <4>5, <4>6 DEF PlanInv
        <3> QED
            BY <3>1, <3>2
    <2> QED
        BY <2>1, <2>2, <2>3
<1>RunIPCRemove. ASSUME NEW r \in Reaper, RunIPCRemove(r)
                 PROVE  LiveServerKeepsIPC' /\ \A q \in Reaper : SeenInv(q)' /\ PlanInv(q)'
    <2>1. LiveServerKeepsIPC'
        <3> SUFFICES ASSUME NEW q \in Postmaster
                     PROVE  /\ server'[q] \in {"segment", "up", "dying"} =>
                                \E m \in shm' : m.of = q /\ m.key = BaseOf[q]
                            /\ server'[q] \in {"up", "dying"} =>
                                \A k \in Keys(q) : \E s \in sem' :
                                    s.of = q /\ s.key = k /\ s.ctime = born'[q]
            BY DEF LiveServerKeepsIPC, Keys
        <3>0. /\ server[q] \in {"segment", "up", "dying"} =>
                   \E m \in shm : m.of = q /\ m.key = BaseOf[q]
              /\ server[q] \in {"up", "dying"} =>
                   \A k \in Keys(q) : \E s \in sem :
                       s.of = q /\ s.key = k /\ s.ctime = born[q]
            BY DEF LiveServerKeepsIPC
        <3>1. \A m \in shm : m.of = q /\ server[q] # "down" => m \in shm'
            BY <1>RunIPCRemove DEF RunIPCRemove, PlanInv
        <3>2. \A s \in sem : s.of = q /\ server[q] \in {"up", "dying"} => s \in sem'
            BY <1>RunIPCRemove DEF RunIPCRemove, PlanInv
        <3>3. UNCHANGED <<server, born>>
            BY <1>RunIPCRemove DEF RunIPCRemove
        <3> QED
            BY <3>0, <3>1, <3>2, <3>3
    <2>2. ASSUME NEW q \in Reaper PROVE SeenInv(q)'
        BY <1>RunIPCRemove DEF RunIPCRemove, IpcTypeOK, SeenInv, TableInv, KnownInv,
            LiveServerKeepsIPC
    <2>3. ASSUME NEW q \in Reaper PROVE PlanInv(q)'
        BY <1>RunIPCRemove DEF RunIPCRemove, IpcTypeOK, PlanInv, SeenInv, TableInv, KnownInv
    <2> QED
        BY <2>1, <2>2, <2>3
<1>RecoveryVerdict. ASSUME NEW r \in Reaper, RecoveryVerdict(r)
                    PROVE  LiveServerKeepsIPC' /\ \A q \in Reaper : SeenInv(q)' /\ PlanInv(q)'
    <2>1. LiveServerKeepsIPC'
        <3> SUFFICES ASSUME NEW q \in Postmaster
                     PROVE  /\ server'[q] \in {"segment", "up", "dying"} =>
                                \E m \in shm' : m.of = q /\ m.key = BaseOf[q]
                            /\ server'[q] \in {"up", "dying"} =>
                                \A k \in Keys(q) : \E s \in sem' :
                                    s.of = q /\ s.key = k /\ s.ctime = born'[q]
            BY DEF LiveServerKeepsIPC, Keys
        <3>0. /\ server[q] \in {"segment", "up", "dying"} =>
                   \E m \in shm : m.of = q /\ m.key = BaseOf[q]
              /\ server[q] \in {"up", "dying"} =>
                   \A k \in Keys(q) : \E s \in sem :
                       s.of = q /\ s.key = k /\ s.ctime = born[q]
            BY DEF LiveServerKeepsIPC
        <3> QED
            BY <1>RecoveryVerdict, <3>0 DEF RecoveryVerdict, IpcTypeOK
    <2>2. ASSUME NEW q \in Reaper PROVE SeenInv(q)'
        BY <1>RecoveryVerdict DEF RecoveryVerdict, IpcTypeOK, SeenInv, TableInv, KnownInv,
            LiveServerKeepsIPC
    <2>3. ASSUME NEW q \in Reaper PROVE PlanInv(q)'
        BY <1>RecoveryVerdict DEF RecoveryVerdict, IpcTypeOK, PlanInv, SeenInv, TableInv,
            KnownInv
    <2> QED
        BY <2>1, <2>2, <2>3
<1>U. CASE UNCHANGED ipcVars
    BY <1>U DEF ipcVars, LiveServerKeepsIPC, SeenInv, PlanInv
<1> QED
    BY <1>CreateSegment, <1>CreateSets, <1>StopServer, <1>KillServer,
       <1>ReadShared, <1>ReadSemaphores, <1>RunIPCRemove, <1>RecoveryVerdict, <1>U DEF IpcNext

-----------------------------------------------------------------------------
(* The theorems *)

\* The invariant holds before the first read.
LEMMA IpcInitInv ==
    IpcInit => /\ IpcTypeOK /\ IpcInv
               /\ LoneInv /\ \A r \in Reaper : PassInv(r)
<1> SUFFICES ASSUME IpcInit PROVE IpcTypeOK /\ IpcInv /\ LoneInv /\ \A r \in Reaper : PassInv(r)
    OBVIOUS
<1>1. IpcTypeOK
    BY DEF IpcInit, IpcTypeOK, Lone
<1>2. IpcInv
    BY DEF IpcInit, IpcInv, TableInv, LiveServerKeepsIPC, KnownInv, SeenInv, PlanInv
<1>3. LoneInv /\ \A r \in Reaper : PassInv(r)
    BY DEF IpcInit, LoneInv, LoneSetKept, PassInv
<1> QED
    BY <1>1, <1>2, <1>3

\* The collectors and the servers keep the tables and plans within their types.
THEOREM HostIPCTypeOK == IpcSpec => []IpcTypeOK
<1>1. IpcInit => IpcTypeOK
    BY IpcInitInv
<1>2. IpcTypeOK /\ [IpcNext]_ipcVars => IpcTypeOK'
    BY IpcTypeStep
<1> QED
    BY <1>1, <1>2, PTL DEF IpcSpec

\* A collector never takes a segment or a semaphore set of a live server, when
\* servers have distinct keys and none starts between the two readings of one
\* pass (hostipc_darwin.go, postgresIPCRemovalPlan, removePostgresIPC).
THEOREM HostIPCKeepsLive ==
    ASSUME DistinctKeys, ~StartsBetweenReads
    PROVE  IpcSpec => []LiveServerKeepsIPC
<1>1. IpcInit => IpcTypeOK /\ IpcInv
    BY IpcInitInv
<1>2. IpcTypeOK /\ IpcInv /\ [IpcNext]_ipcVars => IpcTypeOK' /\ IpcInv'
    BY IpcTypeStep, TableStep, LiveStep DEF IpcInv
<1>3. IpcInv => LiveServerKeepsIPC
    BY DEF IpcInv
<1> QED
    BY <1>1, <1>2, <1>3, PTL DEF IpcSpec

\* "A lone semaphore set with no matching control segment is never touched"
\* (hostipc_darwin.go), whatever servers start and die around it.
THEOREM HostIPCKeepsLone ==
    ASSUME LoneIsApart
    PROVE  IpcSpec => []LoneSetKept
<1> DEFINE Inv == IpcTypeOK /\ TableInv /\ (\A r \in Reaper : KnownInv(r)) /\ LoneInv
<1>1. IpcInit => Inv
    BY IpcInitInv DEF IpcInv
<1>2. Inv /\ [IpcNext]_ipcVars => Inv'
    BY IpcTypeStep, TableStep, LoneStep
<1>3. Inv => LoneSetKept
    BY DEF LoneInv
<1> QED
    BY <1>1, <1>2, <1>3, PTL DEF IpcSpec

\* A pass that reports recovery left no segment that was orphaned: whose server
\* was dead when the pass began and whose creator's number no process had when
\* it was probed, whoever else collected meanwhile (hostipc_darwin.go,
\* postgresIPCRemovalPlan, recoveryVerdict).
THEOREM HostIPCRecovers == IpcSpec => RecoveredMeansGone
<1> DEFINE Inv == /\ IpcTypeOK /\ TableInv
                  /\ (\A r \in Reaper : KnownInv(r)) /\ \A r \in Reaper : PassInv(r)
<1> DEFINE Gone(r) == reap[r] = "verify" /\ verdict'[r] = "recovered" =>
                          orphans[r] \cap {m.id : m \in shm} = {}
<1>1. IpcInit => Inv
    BY IpcInitInv DEF IpcInv
<1>2. Inv /\ [IpcNext]_ipcVars => Inv'
    BY IpcTypeStep, TableStep, PassStep
<1>3. Inv /\ [IpcNext]_ipcVars => [\A r \in Reaper : Gone(r)]_ipcVars
    <2> SUFFICES ASSUME Inv, IpcNext, NEW r \in Reaper,
                        reap[r] = "verify", verdict'[r] = "recovered"
                 PROVE  orphans[r] \cap {m.id : m \in shm} = {}
        OBVIOUS
    <2>1. PassInv(r) /\ verdict[r] = "none" /\ orphans[r] \subseteq planShm[r]
        BY DEF PassInv
    <2>2. RecoveryVerdict(r)
        BY <2>1 DEF IpcNext, IpcTypeOK, CreateSegment, CreateSets, StopServer, KillServer,
               ReadShared, ReadSemaphores, RunIPCRemove, RecoveryVerdict
    <2>3. ~Surviving(r)
        BY <2>2 DEF RecoveryVerdict, IpcTypeOK
    <2> QED
        BY <2>1, <2>3 DEF Surviving
<1> QED
    BY <1>1, <1>2, <1>3, PTL DEF IpcSpec, RecoveredMeansGone

=============================================================================
