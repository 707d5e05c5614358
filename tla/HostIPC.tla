------------------------------ MODULE HostIPC ------------------------------
(***************************************************************************)
(* hostipc_darwin.go: agents collect the System V shared memory and        *)
(* semaphores that interrupted PostgreSQL servers left on the host, while  *)
(* servers start, stop and are killed and other agents collect as well.    *)
(*                                                                         *)
(* Rows of the wrong owner, size, mode or semaphore count are passed over  *)
(* by the code before anything else and are left out here: every segment   *)
(* is a control segment, every set has PostgreSQL's shape.  Identifiers    *)
(* are never reused; the process number of a dead creator is.  A server    *)
(* attaches its segment as it creates it and creates its sets after it,    *)
(* all within one second.                                                  *)
(***************************************************************************)
EXTENDS Integers, FiniteSets, FiniteSetsExt

CONSTANTS
    Postmaster,   \* servers of this user
    BaseOf,       \* the key of each server's control segment
    NSets,        \* semaphore sets of a server
    LoneKey,      \* the key of another application's set of the same shape
    Span,         \* postgresDarwinSemaphoreKeySpan
    Reaper,       \* agents that collect
    MaxId,        \* bound on identifiers
    StartsBetweenReads  \* a server may start between the two ipcs commands

ASSUME NSetsAssumption == NSets \in Nat /\ Span \in Nat /\ NSets >= 2 /\ NSets <= Span
ASSUME BaseAssumption == BaseOf \in [Postmaster -> Nat] /\ LoneKey \in Nat
ASSUME OtherAssumption == "other" \notin Postmaster

VARIABLES
    server,    \* "down", "segment" (created that), "up" or "dying": its
               \* postmaster is gone and its backends are still attached
    born,      \* the second each server created its sets in
    shm,       \* the shared-memory table
    sem,       \* the semaphore table
    nextId,    \* the next identifier
    reap,      \* where each collector stands
    sharedSeen,\* the segments each collector has read
    planShm, planSem,  \* the identifiers it is to remove
    orphans,   \* the segments of dead servers when it began, without those
               \* whose creator's number was in use when it planned
    verdict    \* what its last pass reported

ipcVars == <<server, born, shm, sem, nextId, reap, sharedSeen, planShm, planSem, orphans, verdict>>

Keys(p) == {BaseOf[p] + i : i \in 1..NSets}

\* The other application's set was there before everything else.
Lone == [id |-> 0, key |-> LoneKey, ctime |-> 0, of |-> "other"]

IpcInit ==
    /\ server = [p \in Postmaster |-> "down"] /\ born = [p \in Postmaster |-> 0]
    /\ shm = {} /\ sem = {Lone} /\ nextId = 1
    /\ reap = [r \in Reaper |-> "idle"]
    /\ sharedSeen = [r \in Reaper |-> {}]
    /\ planShm = [r \in Reaper |-> {}] /\ planSem = [r \in Reaper |-> {}]
    /\ orphans = [r \in Reaper |-> {}]
    /\ verdict = [r \in Reaper |-> "none"]

-----------------------------------------------------------------------------
(* Servers *)

Quiescent == StartsBetweenReads \/ \A r \in Reaper : reap[r] # "semaphores"

\* A starting server removes what a dead one left under its keys and creates
\* its own, under new identifiers.
CreateSegment(p) ==
    /\ server[p] = "down" /\ nextId + NSets < MaxId /\ Quiescent
    /\ shm' = {m \in shm : m.key # BaseOf[p]} \cup {[id |-> nextId, key |-> BaseOf[p], of |-> p]}
    /\ server' = [server EXCEPT ![p] = "segment"]
    /\ nextId' = nextId + 1
    /\ UNCHANGED <<born, sem, reap, sharedSeen, planShm, planSem, orphans, verdict>>

CreateSets(p) ==
    /\ server[p] = "segment"
    /\ sem' = {s \in sem : s.key \notin Keys(p)} \cup
              {[id |-> nextId + i - 1, key |-> BaseOf[p] + i, ctime |-> nextId, of |-> p]
                  : i \in 1..NSets}
    /\ born' = [born EXCEPT ![p] = nextId]
    /\ nextId' = nextId + NSets
    /\ server' = [server EXCEPT ![p] = "up"]
    /\ UNCHANGED <<shm, reap, sharedSeen, planShm, planSem, orphans, verdict>>

\* An orderly exit removes both.
StopServer(p) ==
    /\ server[p] = "up"
    /\ shm' = {m \in shm : m.of # p} /\ sem' = {s \in sem : s.of # p}
    /\ server' = [server EXCEPT ![p] = "down"]
    /\ UNCHANGED <<born, nextId, reap, sharedSeen, planShm, planSem, orphans, verdict>>

\* The postmaster is killed; its backends may stay attached for a while.
KillServer(p) ==
    /\ server[p] \in {"segment", "up", "dying"}
    /\ \/ server[p] = "up" /\ server' = [server EXCEPT ![p] = "dying"]
       \/ server' = [server EXCEPT ![p] = "down"]
    /\ UNCHANGED <<born, shm, sem, nextId, reap, sharedSeen, planShm, planSem, orphans, verdict>>

-----------------------------------------------------------------------------
(* postgresIPCRemovalPlan *)

\* Signal 0 to the number in a row's CPID column: its creator is alive, or is
\* dead and another process has the number now ("reused" is the set of such
\* rows).  A row the code skips, for a number of 1 or less, has no counterpart:
\* no postmaster has one.
ProcessAlive(x, reused) ==
    x.id \in reused \/ \E m \in shm : m.id = x.id /\ server[m.of] \in {"segment", "up"}

\* Mutation: what is attached is not looked at.
CreatorAlive(x, reused) == ProcessAlive(x, reused)

\* A segment was attached when the table was read, or its creator's number is
\* in use when the plan is made, after the second table.
Active(x, reused) == x.attached \/ ProcessAlive(x, reused)

\* The rows of the first table, with that verdict.
Probed(rows, reused) ==
    {[id |-> x.id, key |-> x.key, active |-> Active(x, reused)] : x \in rows}

ActiveBases(seen) == {m.key : m \in {x \in seen : x.active}}
OrphanedBases(seen) == {m.key : m \in {x \in seen : ~x.active}}

BelongsToActivePostgres(seen, key) ==
    \E b \in ActiveBases(seen) : key > b /\ key - b <= Span

\* The maximal run of consecutive keys set s belongs to.
RunOf(rows, s) ==
    {t \in rows : \A k \in Min({s.key, t.key})..Max({s.key, t.key}) : \E u \in rows : u.key = k}

SameCreation(rows) == \A s, t \in rows : s.ctime = t.ctime

\* Mutation: a single set is enough.
OrphanedAlone(seen, run) ==
    /\ \A s \in run : ~BelongsToActivePostgres(seen, s.key)
    /\ Min({s.key : s \in run}) - 1 \in OrphanedBases(seen)
        \/ (Cardinality(run) >= 1 /\ SameCreation(run))

\* "Two same-creation-time consecutive sets are the minimum safe orphan
\* signature; a dead control segment is stronger and permits one."
OrphanedRun(seen, run) ==
    /\ \A s \in run : ~BelongsToActivePostgres(seen, s.key)
    /\ Min({s.key : s \in run}) - 1 \in OrphanedBases(seen)
        \/ (Cardinality(run) >= 2 /\ SameCreation(run))

FirstPass(seen, rows) == {s \in rows : OrphanedRun(seen, RunOf(rows, s))}

\* Rows of one creation time are cut into bounded clusters, from the lowest key
\* on: a row starts one when no start before it reaches it.
Starts(keys) ==
    CHOOSE S \in SUBSET keys :
        \A k \in keys : k \in S <=> ~ \E f \in S : f < k /\ k - f <= Span
Clusters(rows) ==
    {{s \in rows : s.key >= f /\ s.key - f <= Span} : f \in Starts({s.key : s \in rows})}

\* What an earlier, interrupted cleanup left with holes between the keys.
SecondPass(seen, rows) ==
    UNION {c \in UNION {Clusters({s \in rows : s.ctime = t}) : t \in {s.ctime : s \in rows}} :
            Cardinality(c) >= 2 /\ \A s \in c : ~BelongsToActivePostgres(seen, s.key)}

PlannedSets(seen, rows) ==
    LET first == FirstPass(seen, rows) IN first \cup SecondPass(seen, rows \ first)

PlannedSegments(seen) == {m \in seen : ~m.active}

-----------------------------------------------------------------------------
(* reapHostIPC *)

ReadShared(r) ==
    /\ reap[r] = "idle"
    /\ orphans' = [orphans EXCEPT ![r] =
            {m.id : m \in {x \in shm : server[x.of] = "down"}}]
    /\ sharedSeen' = [sharedSeen EXCEPT ![r] =
            {[id |-> m.id, key |-> m.key, attached |-> server[m.of] # "down"] : m \in shm}]
    /\ reap' = [reap EXCEPT ![r] = "semaphores"]
    /\ verdict' = [verdict EXCEPT ![r] = "none"]
    /\ UNCHANGED <<server, born, shm, sem, nextId, planShm, planSem>>

ReadSemaphores(r) ==
    /\ reap[r] = "semaphores"
    /\ \E reused \in SUBSET {x.id : x \in sharedSeen[r]} :
        LET seen == Probed(sharedSeen[r], reused) IN
        /\ planShm' = [planShm EXCEPT ![r] = {m.id : m \in PlannedSegments(seen)}]
        /\ planSem' = [planSem EXCEPT ![r] = {s.id : s \in PlannedSets(seen, sem)}]
        /\ orphans' = [orphans EXCEPT ![r] = @ \ reused]
    /\ sharedSeen' = [sharedSeen EXCEPT ![r] = {}]
    /\ reap' = [reap EXCEPT ![r] = "remove"]
    /\ UNCHANGED <<server, born, shm, sem, nextId, verdict>>

\* ipcrm: segments before sets; the command may be cut short before or after
\* the segments, or refuse one identifier.
RunIPCRemove(r) ==
    LET planned == planShm[r] \cup planSem[r] IN
    /\ reap[r] = "remove"
    /\ \E done \in {{}, planShm[r], planned} \cup {planned \ {x} : x \in planned} :
        /\ shm' = {m \in shm : m.id \notin done}
        /\ sem' = {s \in sem : s.id \notin done}
    /\ reap' = [reap EXCEPT ![r] = "verify"]
    /\ UNCHANGED <<server, born, nextId, sharedSeen, planShm, planSem, orphans, verdict>>

\* Mutation: only the semaphore table is read again.
SurvivingSets(r) == {s.id : s \in sem} \cap planSem[r] # {}

Surviving(r) ==
    {m.id : m \in shm} \cap planShm[r] # {} \/ {s.id : s \in sem} \cap planSem[r] # {}

\* recoveryVerdict: what survived decides, not what ipcrm said.
RecoveryVerdict(r) ==
    /\ reap[r] = "verify"
    /\ verdict' = [verdict EXCEPT ![r] = IF Surviving(r) THEN "survived" ELSE "recovered"]
    /\ planShm' = [planShm EXCEPT ![r] = {}] /\ planSem' = [planSem EXCEPT ![r] = {}]
    /\ orphans' = [orphans EXCEPT ![r] = {}]
    /\ reap' = [reap EXCEPT ![r] = "idle"]
    /\ UNCHANGED <<server, born, shm, sem, nextId, sharedSeen>>

IpcNext ==
    \/ \E p \in Postmaster :
        CreateSegment(p) \/ CreateSets(p) \/ StopServer(p) \/ KillServer(p)
    \/ \E r \in Reaper :
        ReadShared(r) \/ ReadSemaphores(r) \/ RunIPCRemove(r) \/ RecoveryVerdict(r)

IpcSpec == IpcInit /\ [][IpcNext]_ipcVars

-----------------------------------------------------------------------------
(* Properties *)

IpcTypeOK ==
    /\ server \in [Postmaster -> {"down", "segment", "up", "dying"}]
    /\ born \in [Postmaster -> Nat] /\ nextId \in Nat \ {0}
    /\ shm \subseteq [id : Nat, key : Nat, of : Postmaster]
    /\ sem \subseteq [id : Nat, key : Nat, ctime : Nat, of : Postmaster \cup {"other"}]
    /\ reap \in [Reaper -> {"idle", "semaphores", "remove", "verify"}]
    /\ sharedSeen \in [Reaper -> SUBSET [id : Nat, key : Nat, attached : BOOLEAN]]
    /\ planShm \in [Reaper -> SUBSET Nat] /\ planSem \in [Reaper -> SUBSET Nat]
    /\ orphans \in [Reaper -> SUBSET Nat]
    /\ verdict \in [Reaper -> {"none", "recovered", "survived"}]

\* A collector never takes from a live server: one that has created its segment
\* and its sets keeps them all until it ends, however old the tables are that
\* the removal was planned from.
LiveServerKeepsIPC ==
    \A p \in Postmaster :
        /\ server[p] \in {"segment", "up", "dying"} =>
            \E m \in shm : m.of = p /\ m.key = BaseOf[p]
        /\ server[p] \in {"up", "dying"} =>
            \A k \in Keys(p) : \E s \in sem : s.of = p /\ s.key = k /\ s.ctime = born[p]

\* "A lone semaphore set with no matching control segment is never touched."
LoneSetKept == Lone \in sem

\* A pass that reports recovery has collected: no segment is left that was
\* orphaned when the pass began, whatever ipcrm reported and whoever else swept
\* at the same time.  Orphaned: nobody is attached, and no process has the
\* creator's number when it is probed; the segment of a dead server whose number
\* another process has stays for a later pass.
RecoveredMeansGone ==
    [][\A r \in Reaper :
        reap[r] = "verify" /\ verdict'[r] = "recovered" =>
            orphans[r] \cap {m.id : m \in shm} = {}]_ipcVars

-----------------------------------------------------------------------------
(* What the theorems assume of the keys, and the inductive invariants *)

\* No two servers use the same keys.
DistinctKeys ==
    \A p, q \in Postmaster : p # q =>
        BaseOf[p] # BaseOf[q] /\ Keys(p) \cap Keys(q) = {}

\* The other application's set is not next to a server's keys.
LoneIsApart == \A p \in Postmaster : LoneKey \notin BaseOf[p]..(BaseOf[p] + NSets + 1)

\* Segments and sets have the keys of their server; an identifier names one of
\* them and was given out.
TableInv ==
    /\ \A m \in shm : m.id \in 1..(nextId - 1) /\ m.key = BaseOf[m.of]
    /\ \A s \in sem : s = Lone \/
        (s.of \in Postmaster /\ s.key \in Keys(s.of) /\ s.id \in 1..(nextId - 1) /\ s.ctime > 0)
    /\ \A m, n \in shm : m.id = n.id => m = n
    /\ \A s, t \in sem : s.id = t.id => s = t
    /\ \A m \in shm, s \in sem : m.id # s.id

\* What a collector has read or planned was given out before.
KnownInv(r) ==
    /\ planShm[r] \subseteq 1..(nextId - 1) /\ planSem[r] \subseteq 0..(nextId - 1)
    /\ \A x \in sharedSeen[r] : x.id \in 1..(nextId - 1) /\ \A s \in sem : s.id # x.id
    /\ \A x \in sharedSeen[r] : \E p \in Postmaster : x.key = BaseOf[p]

\* Between its two readings a collector has seen every live server's segment
\* attached, and what it saw detached is of a dead one.
SeenInv(r) ==
    reap[r] = "semaphores" =>
        /\ \A p \in Postmaster : server[p] # "down" =>
            \E x \in sharedSeen[r] : x.attached /\ x.key = BaseOf[p]
        /\ \A x \in sharedSeen[r], m \in shm :
            ~x.attached /\ m.id = x.id => server[m.of] = "down"

\* Nothing that is planned belongs to a live server.
PlanInv(r) ==
    \A id \in planShm[r] \cup planSem[r] :
        /\ \A m \in shm : m.id = id => server[m.of] = "down"
        /\ \A s \in sem : s.id = id /\ s.of \in Postmaster =>
            server[s.of] \in {"down", "segment"}

\* A pass removes the segments that were orphaned, and has not reported yet.
PassInv(r) ==
    /\ reap[r] = "semaphores" => \A id \in orphans[r] :
        /\ \E x \in sharedSeen[r] : x.id = id /\ ~x.attached
        /\ \A m \in shm : m.id = id => server[m.of] = "down"
    /\ reap[r] \in {"remove", "verify"} => orphans[r] \subseteq planShm[r]
    /\ reap[r] # "idle" => verdict[r] = "none"

IpcInv ==
    /\ TableInv /\ LiveServerKeepsIPC
    /\ \A r \in Reaper : KnownInv(r) /\ SeenInv(r) /\ PlanInv(r)

LoneInv == LoneSetKept /\ \A r \in Reaper : 0 \notin planSem[r]

=============================================================================
