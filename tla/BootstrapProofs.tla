-------------------------- MODULE BootstrapProofs --------------------------
(* Managed bootstrap, for any runs, lineages and number of lost sessions. *)
EXTENDS ManagedBootstrap, TLAPS

-----------------------------------------------------------------------------
(* The bootstrap package, for any lineages, contents and number of builds. *)

USE StagingAssumption, GoneAssumption

\* A service that was never built has nothing that could be inconsistent.
LEMMA StagingInitInv == StagingInit => StagingTypeOK /\ StagingInv
BY DEF StagingInit, StagingTypeOK, StagingInv, StagedMatchesPlan, JobAppliesWholePlan, Plan,
       Content, Unread, NoImage, Tree

\* Every step of a build, of an edit, of the image or of its Job keeps the
\* invariant.
LEMMA StagingStepInv ==
    StagingTypeOK /\ StagingInv /\ [StagingNext]_stagingVars => StagingTypeOK' /\ StagingInv'
<1> SUFFICES ASSUME StagingTypeOK, StagingInv, [StagingNext]_stagingVars
             PROVE StagingTypeOK' /\ StagingInv'
    OBVIOUS
<1>1. ASSUME NEW l \in Lineage, EditSource(l) PROVE StagingTypeOK' /\ StagingInv'
    <2>1. StagingTypeOK'
        BY <1>1 DEF EditSource, Content, StagingTypeOK, StagingInv, Plan, Content
    <2>2. StagingInv'
        BY <1>1 DEF EditSource, StagingTypeOK, StagingInv, StagedMatchesPlan,
               JobAppliesWholePlan, Plan
    <2> QED BY <2>1, <2>2
<1>2. ASSUME StartBuild PROVE StagingTypeOK' /\ StagingInv'
    <2>1. StagingTypeOK'
        BY <1>2 DEF StartBuild, StagingTypeOK, StagingInv, Plan, Content
    <2>2. StagingInv'
        BY <1>2 DEF StartBuild, StagingTypeOK, StagingInv, StagedMatchesPlan,
               JobAppliesWholePlan, Plan
    <2> QED BY <2>1, <2>2
<1>3. ASSUME NEW l \in Lineage, Attest(l) PROVE StagingTypeOK' /\ StagingInv'
    <2>1. StagingTypeOK'
        BY <1>3 DEF Attest, StagingTypeOK, StagingInv, Plan, Content
    <2>2. StagingInv'
        BY <1>3 DEF Attest, StagingTypeOK, StagingInv, StagedMatchesPlan,
               JobAppliesWholePlan, Plan
    <2> QED BY <2>1, <2>2
<1>4. ASSUME AssertAgentOwned PROVE StagingTypeOK' /\ StagingInv'
    <2>1. StagingTypeOK'
        BY <1>4 DEF AssertAgentOwned, StagingTypeOK, StagingInv, Plan, Content
    <2>2. StagingInv'
        BY <1>4 DEF AssertAgentOwned, Unread, StagingTypeOK, StagingInv, StagedMatchesPlan,
               JobAppliesWholePlan, Plan
    <2> QED BY <2>1, <2>2
<1>5. ASSUME NEW l \in Lineage, StageLineage(l) PROVE StagingTypeOK' /\ StagingInv'
    <2>1. StagingTypeOK'
        BY <1>5 DEF StageLineage, CopyAttested, StagingTypeOK, StagingInv, Plan, Content
    <2>2. StagingInv'
        BY <1>5 DEF StageLineage, CopyAttested, StagingTypeOK, StagingInv, StagedMatchesPlan,
               JobAppliesWholePlan, Plan
    <2> QED BY <2>1, <2>2
<1>6. ASSUME RemoveEntry PROVE StagingTypeOK' /\ StagingInv'
    <2> UNCHANGED <<source, build, builds, plan, staging, attested, image, job>>
        BY <1>6 DEF RemoveEntry
    <2>1. tree \in Tree
        BY <1>6 DEF RemoveEntry, StagingTypeOK
    <2>2. /\ tree' \in Tree \cup {Gone}
          /\ tree' # Gone /\ tree'.plan # Gone =>
                tree'.plan = tree.plan
                    /\ \A l \in Lineage : tree'.src[l] \in {tree.src[l], Gone}
        <3>1. CASE tree' = [tree EXCEPT !.marker = FALSE]
            BY <2>1, <3>1 DEF Tree
        <3>2. CASE tree' = [tree EXCEPT !.plan = Gone]
            BY <2>1, <3>2 DEF Tree
        <3>3. ASSUME NEW l \in Lineage, tree' = [tree EXCEPT !.src[l] = Gone]
              PROVE /\ tree' \in Tree
                    /\ tree'.plan = tree.plan
                    /\ \A k \in Lineage : tree'.src[k] \in {tree.src[k], Gone}
            <4>1. tree' = [tree EXCEPT !.src = [tree.src EXCEPT ![l] = Gone]]
                BY <2>1, <3>3 DEF Tree
            <4>2. [tree.src EXCEPT ![l] = Gone] \in [Lineage -> Content \cup {Gone}]
                BY <2>1 DEF Tree
            <4> QED
                BY <2>1, <4>1, <4>2 DEF Tree
        <3> QED
            BY <1>6, <3>1, <3>2, <3>3 DEF RemoveEntry
    <2>3. StagingTypeOK'
        BY <2>2 DEF StagingTypeOK
    <2>4. StagingInv'
        BY <1>6, <2>2 DEF RemoveEntry, StagingInv, StagedMatchesPlan, JobAppliesWholePlan
    <2> QED BY <2>3, <2>4
<1>7. ASSUME Swap PROVE StagingTypeOK' /\ StagingInv'
    <2>1. StagingTypeOK'
        BY <1>7 DEF Swap, Tree, Unread, StagingTypeOK, StagingInv, Plan, Content
    <2>2. StagingInv'
        BY <1>7 DEF Swap, Tree, Unread, StagingTypeOK, StagingInv, StagedMatchesPlan,
               JobAppliesWholePlan, Plan
    <2> QED BY <2>1, <2>2
<1>8. ASSUME BuildFails PROVE StagingTypeOK' /\ StagingInv'
    <2>1. StagingTypeOK'
        BY <1>8 DEF BuildFails, Unread, StagingTypeOK, StagingInv, Plan, Content
    <2>2. StagingInv'
        BY <1>8 DEF BuildFails, Unread, StagingTypeOK, StagingInv, StagedMatchesPlan,
               JobAppliesWholePlan, Plan
    <2> QED BY <2>1, <2>2
<1>9. ASSUME CopyManifest PROVE StagingTypeOK' /\ StagingInv'
    <2>1. StagingTypeOK'
        BY <1>9 DEF CopyManifest, Tree, StagingTypeOK, StagingInv, Plan, Content
    <2>2. StagingInv'
        BY <1>9 DEF CopyManifest, Tree, StagingTypeOK, StagingInv, StagedMatchesPlan,
               JobAppliesWholePlan, Plan
    <2> QED BY <2>1, <2>2
<1>10. ASSUME NEW l \in Lineage, CopySource(l) PROVE StagingTypeOK' /\ StagingInv'
    <2>1. StagingTypeOK'
        BY <1>10 DEF CopySource, Tree, StagingTypeOK, StagingInv, Plan, Content
    <2>2. StagingInv'
        BY <1>10 DEF CopySource, Tree, StagingTypeOK, StagingInv, StagedMatchesPlan,
               JobAppliesWholePlan, Plan
    <2> QED BY <2>1, <2>2
<1>11. ASSUME RunJob PROVE StagingTypeOK' /\ StagingInv'
    <2>1. /\ image.src \in [Lineage -> Content \cup {Gone}]
          /\ NoImage \in [manifest : BOOLEAN, plan : Plan \cup {Gone},
                          src : [Lineage -> Content \cup {Gone}], read : SUBSET Lineage]
        BY DEF StagingTypeOK, NoImage, Unread
    <2>2. CASE VerifySources(image)
        <3>1. /\ image.plan \in attested /\ image.src \in Plan
              /\ \A l \in Lineage : Carries(image.src[l], image.plan[l])
            BY <2>1, <2>2 DEF VerifySources, Carries, StagingInv, Plan
        <3>2. job' = image.src /\ image' = NoImage
            BY <1>11, <2>2 DEF RunJob
        <3>3. StagingTypeOK'
            BY <1>11, <2>1, <3>1, <3>2 DEF RunJob, StagingTypeOK
        <3>4. JobAppliesWholePlan'
            BY <1>11, <3>1, <3>2 DEF RunJob, JobAppliesWholePlan
        <3> QED
            BY <1>11, <3>2, <3>3, <3>4 DEF RunJob, NoImage, StagingInv, StagedMatchesPlan
    <2>3. CASE ~VerifySources(image)
        <3>1. job' = job /\ image' = NoImage
            BY <1>11, <2>3 DEF RunJob
        <3> QED
            BY <1>11, <2>1, <3>1 DEF RunJob, NoImage, StagingTypeOK, StagingInv,
                StagedMatchesPlan, JobAppliesWholePlan
    <2> QED BY <2>2, <2>3
<1>12. ASSUME UNCHANGED stagingVars PROVE StagingTypeOK' /\ StagingInv'
    BY <1>12 DEF stagingVars, StagingTypeOK, StagingInv, StagedMatchesPlan, JobAppliesWholePlan
<1> QED
    BY <1>1, <1>2, <1>3, <1>4, <1>5, <1>6, <1>7, <1>8, <1>9, <1>10, <1>11, <1>12
    DEF StagingNext, BuildNext, ImageNext

\* A Job that applies anything applies every migration of one build's plan as
\* that build attested it, whatever was edited, rebuilt, removed or copied
\* meanwhile (builder.go stageBootstrapContext, schemaplan.go stagedChecksums,
\* bootstrap.sh).
THEOREM StagingJobAppliesWholePlan == StagingSpec => []JobAppliesWholePlan
<1>1. StagingTypeOK /\ StagingInv => JobAppliesWholePlan
    BY DEF StagingInv
<1> QED
    BY StagingInitInv, StagingStepInv, <1>1, PTL DEF StagingSpec

-----------------------------------------------------------------------------
(* Managed runs. *)

USE RunAssumption

\* No run has begun.
LEMMA RunInitInv == BootstrapInit => StagingTypeOK /\ RunTypeOK /\ BootstrapInv
<1> SUFFICES ASSUME BootstrapInit PROVE StagingTypeOK /\ RunTypeOK /\ BootstrapInv
    OBVIOUS
<1>1. StagingTypeOK
    BY StagingInitInv DEF BootstrapInit
<1>2. RunTypeOK
    BY DEF BootstrapInit, RunInit, RunTypeOK, RunRecord, Working, Unread
<1>3. BootstrapInv
    BY DEF BootstrapInit, RunInit, BootstrapInv, CopyInv, ChildInv, LockInv, AppliedIsAttested,
           InChild, AtLock, Outcome, Unread
<1> QED BY <1>1, <1>2, <1>3

-----------------------------------------------------------------------------
(* What each kind of step does to the local state of its run. *)

Kept(x, y) == x.bind = y.bind /\ x.copy = y.copy /\ x.done = y.done /\ x.cur = y.cur
Completes(r) ==
    run' = [run EXCEPT ![r].pc = "lineage", ![r].done = @ \cup {run[r].cur}]
Others(r) == \A d \in Run \ {r} : run'[d] = run[d]

\* The run goes on: nothing but its position changes.
LEMMA GoToFields ==
    ASSUME RunTypeOK, NEW r \in Run, NEW p \in Working \cup Outcome, GoTo(r, p)
    PROVE  /\ run' \in [Run -> RunRecord] /\ Others(r)
           /\ run'[r].pc = p /\ Kept(run'[r], run[r])
<1> DEFINE x == [run[r] EXCEPT !.pc = p]
<1>1. run[r] \in RunRecord
    BY DEF RunTypeOK
<1>2. x \in RunRecord /\ x.pc = p /\ Kept(x, run[r])
    BY <1>1 DEF RunRecord, Kept
<1>3. run' = [run EXCEPT ![r] = x]
    BY DEF GoTo
<1> HIDE DEF x
<1> QED
    BY <1>2, <1>3 DEF RunTypeOK, Others

\* The run is bound.
LEMMA StartRunFields ==
    ASSUME RunTypeOK, NEW r \in Run, StagingTypeOK, StartRun(r)
    PROVE  /\ run' \in [Run -> RunRecord] /\ Others(r)
           /\ run'[r].pc = "plan" /\ run'[r].bind \in Plan
           /\ run'[r].copy = run[r].copy /\ run'[r].done = run[r].done
<1>0. PICK b \in Plan : run' = [run EXCEPT ![r].pc = "plan", ![r].bind = b]
    BY DEF StartRun, StagingTypeOK
<1> DEFINE x == [run[r] EXCEPT !.pc = "plan", !.bind = b]
<1>1. run[r] \in RunRecord
    BY DEF RunTypeOK
<1>2. x \in RunRecord
    BY <1>0, <1>1 DEF RunRecord, Working
<1>3. x.pc = "plan" /\ x.bind \in Plan /\ x.copy = run[r].copy /\ x.done = run[r].done
    BY <1>0, <1>1 DEF RunRecord, Working
<1>4. run' = [run EXCEPT ![r] = x]
    BY <1>0, <1>1 DEF RunTypeOK, RunRecord
<1> HIDE DEF x
<1> QED
    BY <1>2, <1>3, <1>4 DEF RunTypeOK, Others

\* The directory is open.
LEMMA OpenRootFields ==
    ASSUME RunTypeOK, NEW r \in Run, StagingTypeOK, OpenRoot(r)
    PROVE  /\ run' \in [Run -> RunRecord] /\ Others(r)
           /\ run'[r].pc = "sources" /\ Kept(run'[r], run[r])
<1>0. tree.id \in Nat /\ run' = [run EXCEPT ![r].pc = "sources", ![r].dir = tree.id]
    BY DEF OpenRoot, StagingTypeOK, Tree
<1> DEFINE x == [run[r] EXCEPT !.pc = "sources", !.dir = tree.id]
<1>1. run[r] \in RunRecord
    BY DEF RunTypeOK
<1>2. x \in RunRecord
    BY <1>0, <1>1 DEF RunRecord, Working, Kept
<1>3. x.pc = "sources" /\ Kept(x, run[r])
    BY <1>0, <1>1 DEF RunRecord, Working, Kept
<1>4. run' = [run EXCEPT ![r] = x]
    BY <1>0, <1>1 DEF RunTypeOK, RunRecord
<1> HIDE DEF x
<1> QED
    BY <1>2, <1>3, <1>4 DEF RunTypeOK, Others

\* One lineage is copied; with the last the run goes on to connect.
LEMMA SnapshotFields ==
    ASSUME RunTypeOK, NEW r \in Run, NEW l \in Lineage, CopyInv(r), SnapshotLineage(r, l)
    PROVE  /\ run' \in [Run -> RunRecord] /\ Others(r)
           /\ run'[r].bind = run[r].bind /\ run'[r].done = run[r].done
           /\ run'[r].copy = [run[r].copy EXCEPT ![l] = run[r].bind[l]]
           /\ \/ run'[r].pc = "sources"
              \/ run'[r].pc = "connect" /\ \A k \in Lineage \ {l} : run[r].copy[k] # Gone
<1> DEFINE next == IF \A k \in Lineage \ {l} : run[r].copy[k] # Gone THEN "connect" ELSE run[r].pc
<1>0. /\ run' = [run EXCEPT ![r].copy[l] = run[r].bind[l], ![r].pc = next]
      /\ run[r].bind[l] \in Content /\ run[r].pc = "sources"
    BY DEF SnapshotLineage, SourceAttested, CopyInv, Plan
<1>a. /\ next \in {"sources", "connect"}
      /\ next = "connect" => \A k \in Lineage \ {l} : run[r].copy[k] # Gone
    BY <1>0
<1> HIDE DEF next
<1> DEFINE x == [run[r] EXCEPT !.copy = [run[r].copy EXCEPT ![l] = run[r].bind[l]], !.pc = next]
<1>1. run[r] \in RunRecord
    BY DEF RunTypeOK
<1>2. x \in RunRecord
    BY <1>0, <1>a, <1>1 DEF RunRecord, Working
<1>3. /\ x.pc = next /\ x.bind = run[r].bind /\ x.done = run[r].done
      /\ x.copy = [run[r].copy EXCEPT ![l] = run[r].bind[l]]
    BY <1>0, <1>a, <1>1 DEF RunRecord, Working
<1>4. run' = [run EXCEPT ![r] = x]
    BY <1>0, <1>1 DEF RunTypeOK, RunRecord
<1> HIDE DEF x
<1> QED
    BY <1>a, <1>2, <1>3, <1>4 DEF RunTypeOK, Others

\* The next lineage is the smallest that is left.
LEMMA StartChildFields ==
    ASSUME RunTypeOK, NEW r \in Run, StartChild(r)
    PROVE  /\ run' \in [Run -> RunRecord] /\ Others(r)
           /\ run'[r].pc = "child" /\ run'[r].cur \in Lineage
           /\ run'[r].bind = run[r].bind /\ run'[r].copy = run[r].copy
           /\ run'[r].done = run[r].done /\ run'[r].cur \notin run[r].done
<1>0. PICK l \in Lineage \ run[r].done : run' = [run EXCEPT ![r].pc = "child", ![r].cur = l]
    BY DEF StartChild
<1> DEFINE x == [run[r] EXCEPT !.pc = "child", !.cur = l]
<1>1. run[r] \in RunRecord
    BY DEF RunTypeOK
<1>2. x \in RunRecord
    BY <1>0, <1>1 DEF RunRecord, Working
<1>3. /\ x.pc = "child" /\ x.cur \in Lineage /\ x.bind = run[r].bind /\ x.copy = run[r].copy
      /\ x.done = run[r].done /\ x.cur \notin run[r].done
    BY <1>0, <1>1 DEF RunRecord, Working
<1>4. run' = [run EXCEPT ![r] = x]
    BY <1>0, <1>1 DEF RunTypeOK, RunRecord
<1> HIDE DEF x
<1> QED
    BY <1>2, <1>3, <1>4 DEF RunTypeOK, Others

\* A lineage is complete.
LEMMA LineageFields ==
    ASSUME RunTypeOK, NEW r \in Run, run[r].cur \in Lineage, Completes(r)
    PROVE  /\ run' \in [Run -> RunRecord] /\ Others(r)
           /\ run'[r].pc = "lineage" /\ run'[r].bind = run[r].bind /\ run'[r].copy = run[r].copy
           /\ run'[r].done = run[r].done \cup {run[r].cur}
<1> DEFINE x == [run[r] EXCEPT !.pc = "lineage", !.done = @ \cup {run[r].cur}]
<1>1. run[r] \in RunRecord
    BY DEF RunTypeOK
<1>2. x \in RunRecord
    BY <1>1 DEF RunRecord, Working
<1>3. /\ x.pc = "lineage" /\ x.bind = run[r].bind /\ x.copy = run[r].copy
      /\ x.done = run[r].done \cup {run[r].cur}
    BY <1>1 DEF RunRecord, Working
<1>4. run' = [run EXCEPT ![r] = x]
    BY <1>1 DEF Completes, RunTypeOK, RunRecord
<1> HIDE DEF x
<1> QED
    BY <1>2, <1>3, <1>4 DEF RunTypeOK, Others

-----------------------------------------------------------------------------
\* Every step of a run, of its child and of the network keeps the invariant.
LEMMA RunStepInv ==
    ASSUME StagingTypeOK, RunTypeOK, BootstrapInv, NEW r \in Run, RunStep(r)
    PROVE  RunTypeOK' /\ BootstrapInv'
<1>a. \A d \in Run : CopyInv(d) /\ ChildInv(d) /\ LockInv(d)
    BY DEF BootstrapInv
<1>b. AppliedIsAttested
    BY DEF BootstrapInv
<1>c. ASSUME RunTypeOK', AppliedIsAttested',
             \A d \in Run : CopyInv(d)' /\ ChildInv(d)' /\ LockInv(d)'
      PROVE RunTypeOK' /\ BootstrapInv'
    BY <1>c DEF BootstrapInv
<1>1. ASSUME StartRun(r) PROVE RunTypeOK' /\ BootstrapInv'
    <2>0. /\ run' \in [Run -> RunRecord] /\ Others(r)
          /\ run'[r].pc = "plan" /\ run'[r].bind \in Plan /\ run'[r].copy = run[r].copy
        BY <1>a, <1>1, StartRunFields
    <2>1. RunTypeOK'
        BY <1>1, <2>0
        DEF StartRun, childVars, dbVars, Unread, RunTypeOK
    <2>2. ASSUME NEW d \in Run PROVE CopyInv(d)'
        BY <1>a, <1>1, <2>1, <2>0
        DEF StartRun, childVars, dbVars, Unread, Others, RunTypeOK, CopyInv, ChildInv,
            InChild, AtLock
    <2>3. ASSUME NEW d \in Run PROVE ChildInv(d)'
        BY <1>a, <1>1, <2>1, <2>0
        DEF StartRun, childVars, dbVars, Unread, Others, RunTypeOK, ChildInv, InChild
    <2>4. ASSUME NEW d \in Run PROVE LockInv(d)'
        BY <1>a, <1>1, <2>1, <2>0
        DEF StartRun, childVars, dbVars, Unread, Others, RunTypeOK, ChildInv, LockInv,
            InChild, AtLock, Outcome
    <2>5. AppliedIsAttested'
        BY <1>a, <1>b, <1>1, <2>1, <2>0
        DEF StartRun, childVars, dbVars, Unread, Others, RunTypeOK, CopyInv, ChildInv,
            InChild, AtLock, AppliedIsAttested
    <2> QED BY <1>c, <2>1, <2>2, <2>3, <2>4, <2>5
<1>2. ASSUME SnapshotPlan(r) PROVE RunTypeOK' /\ BootstrapInv'
    <2>0. /\ run' \in [Run -> RunRecord] /\ Others(r)
          /\ run'[r].pc = "open" /\ Kept(run'[r], run[r])
        BY <1>2, GoToFields DEF SnapshotPlan, Working, Outcome
    <2>1. RunTypeOK'
        BY <1>2, <2>0
        DEF SnapshotPlan, childVars, dbVars, RunTypeOK
    <2>2. ASSUME NEW d \in Run PROVE CopyInv(d)'
        BY <1>a, <1>2, <2>1, <2>0
        DEF SnapshotPlan, childVars, dbVars, Kept, Others, RunTypeOK, CopyInv,
            ChildInv, InChild, AtLock
    <2>3. ASSUME NEW d \in Run PROVE ChildInv(d)'
        BY <1>a, <1>2, <2>1, <2>0
        DEF SnapshotPlan, childVars, dbVars, Kept, Others, RunTypeOK, ChildInv,
            InChild
    <2>4. ASSUME NEW d \in Run PROVE LockInv(d)'
        BY <1>a, <1>2, <2>1, <2>0
        DEF SnapshotPlan, childVars, dbVars, Kept, Others, RunTypeOK, ChildInv,
            LockInv, InChild, AtLock, Outcome
    <2>5. AppliedIsAttested'
        BY <1>a, <1>b, <1>2, <2>1, <2>0
        DEF SnapshotPlan, childVars, dbVars, Kept, Others, RunTypeOK, CopyInv,
            ChildInv, InChild, AtLock, AppliedIsAttested
    <2> QED BY <1>c, <2>1, <2>2, <2>3, <2>4, <2>5
<1>3. ASSUME OpenRoot(r) PROVE RunTypeOK' /\ BootstrapInv'
    <2>0. /\ run' \in [Run -> RunRecord] /\ Others(r)
          /\ run'[r].pc = "sources" /\ Kept(run'[r], run[r])
        BY <1>a, <1>3, OpenRootFields
    <2>1. RunTypeOK'
        BY <1>3, <2>0
        DEF OpenRoot, childVars, dbVars, RunTypeOK
    <2>2. ASSUME NEW d \in Run PROVE CopyInv(d)'
        BY <1>a, <1>3, <2>1, <2>0
        DEF OpenRoot, childVars, dbVars, Kept, Others, RunTypeOK, CopyInv, ChildInv,
            InChild, AtLock
    <2>3. ASSUME NEW d \in Run PROVE ChildInv(d)'
        BY <1>a, <1>3, <2>1, <2>0
        DEF OpenRoot, childVars, dbVars, Kept, Others, RunTypeOK, ChildInv, InChild
    <2>4. ASSUME NEW d \in Run PROVE LockInv(d)'
        BY <1>a, <1>3, <2>1, <2>0
        DEF OpenRoot, childVars, dbVars, Kept, Others, RunTypeOK, ChildInv, LockInv,
            InChild, AtLock, Outcome
    <2>5. AppliedIsAttested'
        BY <1>a, <1>b, <1>3, <2>1, <2>0
        DEF OpenRoot, childVars, dbVars, Kept, Others, RunTypeOK, CopyInv, ChildInv,
            InChild, AtLock, AppliedIsAttested
    <2> QED BY <1>c, <2>1, <2>2, <2>3, <2>4, <2>5
<1>4. ASSUME NEW l \in Lineage, SnapshotLineage(r, l) PROVE RunTypeOK' /\ BootstrapInv'
    <2>0. /\ run' \in [Run -> RunRecord] /\ Others(r)
          /\ run'[r].bind = run[r].bind
          /\ run'[r].copy = [run[r].copy EXCEPT ![l] = run[r].bind[l]]
          /\ \/ run'[r].pc = "sources"
             \/ run'[r].pc = "connect" /\ \A k \in Lineage \ {l} : run[r].copy[k] # Gone
        BY <1>a, <1>4, SnapshotFields
    <2>1. RunTypeOK'
        BY <1>4, <2>0
        DEF SnapshotLineage, SourceAttested, childVars, dbVars, RunRecord, Plan,
            RunTypeOK
    <2>2. ASSUME NEW d \in Run PROVE CopyInv(d)'
        <3>1. CASE d # r
            BY <1>a, <2>0, <3>1 DEF Others, CopyInv
        <3>2. CASE d = r
            <4>1. run[r].bind \in Plan /\ run[r].copy \in [Lineage -> Content \cup {Gone}]
                BY <1>a, <1>4 DEF SnapshotLineage, CopyInv, RunTypeOK, RunRecord
            <4>2. \A k \in Lineage : run'[r].copy[k] \in {run[r].bind[k], Gone}
                BY <1>a, <2>0, <4>1 DEF CopyInv
            <4>3. ASSUME run'[r].pc = "connect" PROVE run'[r].copy = run[r].bind
                <5>1. \A k \in Lineage : run'[r].copy[k] = run[r].bind[k]
                    BY <1>a, <2>0, <4>1, <4>3 DEF CopyInv
                <5>2. run'[r].copy \in [Lineage -> Content \cup {Gone}]
                    BY <2>0, <4>1 DEF Plan
                <5> QED
                    BY <4>1, <5>1, <5>2 DEF Plan
            <4> QED
                BY <2>0, <3>2, <4>1, <4>2, <4>3 DEF CopyInv, AtLock, InChild
        <3> QED BY <3>1, <3>2
    <2>3. ASSUME NEW d \in Run PROVE ChildInv(d)'
        <3>1. run[r].pc = "sources" /\ UNCHANGED <<proc, backend, ledgerLock>>
            BY <1>4 DEF SnapshotLineage, childVars, dbVars
        <3> QED
            BY <1>a, <2>0, <3>1 DEF Others, ChildInv, InChild
    <2>4. ASSUME NEW d \in Run PROVE LockInv(d)'
        BY <1>a, <1>4, <2>1, <2>0
        DEF SnapshotLineage, SourceAttested, childVars, dbVars, RunRecord, Plan,
            Others, RunTypeOK, ChildInv, LockInv, InChild, AtLock, Outcome
    <2>5. AppliedIsAttested'
        <3> SUFFICES ASSUME NEW d \in Run, backend'[d] \in {"statement", "ran"}
                     PROVE  run'[d] = run[d] /\ UNCHANGED <<backend, ledger>>
            BY <1>b DEF AppliedIsAttested
        <3>1. run[r].pc = "sources" /\ UNCHANGED <<backend, ledger>>
            BY <1>4 DEF SnapshotLineage, childVars, dbVars
        <3> QED
            BY <1>a, <2>0, <3>1 DEF Others, ChildInv, InChild
    <2> QED BY <1>c, <2>1, <2>2, <2>3, <2>4, <2>5
<1>5. ASSUME OpenSession(r) PROVE RunTypeOK' /\ BootstrapInv'
    <2>0. /\ run' \in [Run -> RunRecord] /\ Others(r)
          /\ run'[r].pc = "lock" /\ Kept(run'[r], run[r])
        BY <1>5, GoToFields DEF OpenSession, Working, Outcome
    <2>1. RunTypeOK'
        BY <1>5, <2>0
        DEF OpenSession, childVars, dbVars, RunTypeOK
    <2>2. ASSUME NEW d \in Run PROVE CopyInv(d)'
        BY <1>a, <1>5, <2>1, <2>0
        DEF OpenSession, childVars, dbVars, Kept, Others, RunTypeOK, CopyInv, ChildInv,
            InChild, AtLock
    <2>3. ASSUME NEW d \in Run PROVE ChildInv(d)'
        BY <1>a, <1>5, <2>1, <2>0
        DEF OpenSession, childVars, dbVars, Kept, Others, RunTypeOK, ChildInv, InChild
    <2>4. ASSUME NEW d \in Run PROVE LockInv(d)'
        BY <1>a, <1>5, <2>1, <2>0
        DEF OpenSession, childVars, dbVars, Kept, Others, RunTypeOK, ChildInv, LockInv,
            InChild, AtLock, Outcome
    <2>5. AppliedIsAttested'
        BY <1>a, <1>b, <1>5, <2>1, <2>0
        DEF OpenSession, childVars, dbVars, Kept, Others, RunTypeOK, CopyInv, ChildInv,
            InChild, AtLock, AppliedIsAttested
    <2> QED BY <1>c, <2>1, <2>2, <2>3, <2>4, <2>5
<1>6. ASSUME TakeLock(r) PROVE RunTypeOK' /\ BootstrapInv'
    <2>0. /\ run' \in [Run -> RunRecord] /\ Others(r)
          /\ run'[r].pc = "extensions" /\ Kept(run'[r], run[r])
        BY <1>6, GoToFields DEF TakeLock, Working, Outcome
    <2>1. RunTypeOK'
        BY <1>6, <2>0
        DEF TakeLock, childVars, dbVars, RunTypeOK
    <2>2. ASSUME NEW d \in Run PROVE CopyInv(d)'
        BY <1>a, <1>6, <2>1, <2>0
        DEF TakeLock, childVars, dbVars, Kept, Others, RunTypeOK, CopyInv, ChildInv,
            InChild, AtLock
    <2>3. ASSUME NEW d \in Run PROVE ChildInv(d)'
        BY <1>a, <1>6, <2>1, <2>0
        DEF TakeLock, childVars, dbVars, Kept, Others, RunTypeOK, ChildInv, InChild
    <2>4. ASSUME NEW d \in Run PROVE LockInv(d)'
        BY <1>a, <1>6, <2>1, <2>0
        DEF TakeLock, childVars, dbVars, Kept, Others, RunTypeOK, ChildInv, LockInv,
            InChild, AtLock, Outcome
    <2>5. AppliedIsAttested'
        BY <1>a, <1>b, <1>6, <2>1, <2>0
        DEF TakeLock, childVars, dbVars, Kept, Others, RunTypeOK, CopyInv, ChildInv,
            InChild, AtLock, AppliedIsAttested
    <2> QED BY <1>c, <2>1, <2>2, <2>3, <2>4, <2>5
<1>7. ASSUME Extensions(r) PROVE RunTypeOK' /\ BootstrapInv'
    <2>0. /\ run' \in [Run -> RunRecord] /\ Others(r)
          /\ run'[r].pc = "lineage" /\ Kept(run'[r], run[r])
        BY <1>7, GoToFields DEF Extensions, Working, Outcome
    <2>1. RunTypeOK'
        BY <1>7, <2>0
        DEF Extensions, childVars, dbVars, RunTypeOK
    <2>2. ASSUME NEW d \in Run PROVE CopyInv(d)'
        BY <1>a, <1>7, <2>1, <2>0
        DEF Extensions, childVars, dbVars, Kept, Others, RunTypeOK, CopyInv, ChildInv,
            InChild, AtLock
    <2>3. ASSUME NEW d \in Run PROVE ChildInv(d)'
        BY <1>a, <1>7, <2>1, <2>0
        DEF Extensions, childVars, dbVars, Kept, Others, RunTypeOK, ChildInv, InChild
    <2>4. ASSUME NEW d \in Run PROVE LockInv(d)'
        BY <1>a, <1>7, <2>1, <2>0
        DEF Extensions, childVars, dbVars, Kept, Others, RunTypeOK, ChildInv, LockInv,
            InChild, AtLock, Outcome
    <2>5. AppliedIsAttested'
        BY <1>a, <1>b, <1>7, <2>1, <2>0
        DEF Extensions, childVars, dbVars, Kept, Others, RunTypeOK, CopyInv, ChildInv,
            InChild, AtLock, AppliedIsAttested
    <2> QED BY <1>c, <2>1, <2>2, <2>3, <2>4, <2>5
<1>8. ASSUME StartChild(r) PROVE RunTypeOK' /\ BootstrapInv'
    <2>0. /\ run' \in [Run -> RunRecord] /\ Others(r)
          /\ run'[r].pc = "child" /\ run'[r].cur \in Lineage
          /\ run'[r].bind = run[r].bind /\ run'[r].copy = run[r].copy
        BY <1>a, <1>8, StartChildFields
    <2>1. RunTypeOK'
        BY <1>8, <2>0
        DEF StartChild, childVars, dbVars, RunTypeOK
    <2>2. ASSUME NEW d \in Run PROVE CopyInv(d)'
        BY <1>a, <1>8, <2>1, <2>0
        DEF StartChild, childVars, dbVars, Others, RunTypeOK, CopyInv, ChildInv,
            InChild, AtLock
    <2>3. ASSUME NEW d \in Run PROVE ChildInv(d)'
        BY <1>a, <1>8, <2>1, <2>0
        DEF StartChild, childVars, dbVars, Others, RunTypeOK, ChildInv, InChild
    <2>4. ASSUME NEW d \in Run PROVE LockInv(d)'
        BY <1>a, <1>8, <2>1, <2>0
        DEF StartChild, childVars, dbVars, Others, RunTypeOK, ChildInv, LockInv,
            InChild, AtLock, Outcome
    <2>5. AppliedIsAttested'
        BY <1>a, <1>b, <1>8, <2>1, <2>0
        DEF StartChild, childVars, dbVars, Others, RunTypeOK, CopyInv, ChildInv,
            InChild, AtLock, AppliedIsAttested
    <2> QED BY <1>c, <2>1, <2>2, <2>3, <2>4, <2>5
<1>9. ASSUME AwaitChild(r) PROVE RunTypeOK' /\ BootstrapInv'
    <2>0. /\ run' \in [Run -> RunRecord] /\ Others(r)
          /\ run'[r].pc = "drain" /\ Kept(run'[r], run[r])
        BY <1>9, GoToFields DEF AwaitChild, Working, Outcome
    <2>1. RunTypeOK'
        BY <1>9, <2>0
        DEF AwaitChild, childVars, dbVars, RunTypeOK
    <2>2. ASSUME NEW d \in Run PROVE CopyInv(d)'
        BY <1>a, <1>9, <2>1, <2>0
        DEF AwaitChild, childVars, dbVars, Kept, Others, RunTypeOK, CopyInv, ChildInv,
            InChild, AtLock
    <2>3. ASSUME NEW d \in Run PROVE ChildInv(d)'
        BY <1>a, <1>9, <2>1, <2>0
        DEF AwaitChild, childVars, dbVars, Kept, Others, RunTypeOK, ChildInv, InChild
    <2>4. ASSUME NEW d \in Run PROVE LockInv(d)'
        BY <1>a, <1>9, <2>1, <2>0
        DEF AwaitChild, childVars, dbVars, Kept, Others, RunTypeOK, ChildInv, LockInv,
            InChild, AtLock, Outcome
    <2>5. AppliedIsAttested'
        BY <1>a, <1>b, <1>9, <2>1, <2>0
        DEF AwaitChild, childVars, dbVars, Kept, Others, RunTypeOK, CopyInv, ChildInv,
            InChild, AtLock, AppliedIsAttested
    <2> QED BY <1>c, <2>1, <2>2, <2>3, <2>4, <2>5
<1>10. ASSUME DrainTerminate(r) PROVE RunTypeOK' /\ BootstrapInv'
    <2>0. /\ run' \in [Run -> RunRecord] /\ Others(r)
          /\ run'[r].pc = "count" /\ Kept(run'[r], run[r])
        BY <1>10, GoToFields DEF DrainTerminate, Working, Outcome
    <2>1. RunTypeOK'
        BY <1>10, <2>0
        DEF DrainTerminate, ReleaseLedger, RunTypeOK
    <2>2. ASSUME NEW d \in Run PROVE CopyInv(d)'
        BY <1>a, <1>10, <2>1, <2>0
        DEF DrainTerminate, ReleaseLedger, Kept, Others, RunTypeOK, CopyInv, ChildInv,
            InChild, AtLock
    <2>3. ASSUME NEW d \in Run PROVE ChildInv(d)'
        <3>1. \/ ledgerLock' = ledgerLock /\ backend' = backend
              \/ ledgerLock' = ledgerLock /\ backend' = [backend EXCEPT ![r] = "ran"]
                    /\ backend[r] # "none"
              \/ ledgerLock' = ReleaseLedger(r) /\ backend' = [backend EXCEPT ![r] = "none"]
            BY <1>10 DEF DrainTerminate
        <3>2. /\ proc' = proc /\ proc[r] # "alive"
              /\ run[r].pc \in InChild /\ run'[r].pc \in InChild
              /\ Others(r) /\ Kept(run'[r], run[r])
            BY <1>a, <1>10, <2>0 DEF DrainTerminate, ChildInv, InChild
        <3>3. backend'[d] # "none" =>
                backend[d] # "none" /\ ledgerLock'[run[d].cur] = ledgerLock[run[d].cur]
            <4> SUFFICES ASSUME backend'[d] # "none"
                         PROVE backend[d] # "none"
                                 /\ ledgerLock'[run[d].cur] = ledgerLock[run[d].cur]
                OBVIOUS
            <4>1. backend[d] # "none"
                BY <3>1 DEF RunTypeOK
            <4>2. run[d].cur \in Lineage /\ ledgerLock[run[d].cur] = d
                BY <1>a, <4>1 DEF ChildInv
            <4>3. CASE ledgerLock' = ledgerLock
                BY <4>1, <4>3
            <4>4. CASE ledgerLock' = ReleaseLedger(r) /\ backend' = [backend EXCEPT ![r] = "none"]
                <5>1. d # r
                    BY <4>4 DEF RunTypeOK
                <5> QED
                    BY <4>1, <4>2, <4>4, <5>1 DEF ReleaseLedger
            <4> QED BY <3>1, <4>3, <4>4
        <3> QED
            BY <1>a, <3>2, <3>3 DEF ChildInv, InChild, Kept, Others
    <2>4. ASSUME NEW d \in Run PROVE LockInv(d)'
        BY <1>a, <1>10, <2>1, <2>0
        DEF DrainTerminate, ReleaseLedger, Kept, Others, RunTypeOK, ChildInv, LockInv,
            InChild, AtLock, Outcome
    <2>5. AppliedIsAttested'
        BY <1>a, <1>b, <1>10, <2>1, <2>0
        DEF DrainTerminate, ReleaseLedger, Kept, Others, RunTypeOK, CopyInv, ChildInv,
            InChild, AtLock, AppliedIsAttested
    <2> QED BY <1>c, <2>1, <2>2, <2>3, <2>4, <2>5
<1>11. ASSUME DrainDone(r) PROVE RunTypeOK' /\ BootstrapInv'
    <2>0. /\ run' \in [Run -> RunRecord] /\ Others(r)
          /\ run'[r].pc = IF ChildSucceeded(r) THEN "lineage" ELSE "failed"
          /\ run'[r].bind = run[r].bind /\ run'[r].copy = run[r].copy
        <3>1. run[r].cur \in Lineage
            BY <1>a, <1>11 DEF DrainDone, ChildInv, InChild
        <3>2. CASE ChildSucceeded(r)
            BY <1>11, <3>1, <3>2, LineageFields DEF DrainDone, Completes
        <3>3. CASE ~ChildSucceeded(r)
            BY <1>11, <3>3, GoToFields DEF DrainDone, Return, Outcome, Kept
        <3> QED BY <3>2, <3>3
    <2>1. RunTypeOK'
        BY <1>11, <2>0
        DEF DrainDone, ChildObservedGone, ChildSucceeded, Return, childVars, dbVars,
            RunTypeOK
    <2>2. ASSUME NEW d \in Run PROVE CopyInv(d)'
        BY <1>a, <1>11, <2>1, <2>0
        DEF DrainDone, ChildObservedGone, ChildSucceeded, Return, childVars, dbVars,
            Others, RunTypeOK, CopyInv, ChildInv, InChild, AtLock
    <2>3. ASSUME NEW d \in Run PROVE ChildInv(d)'
        BY <1>a, <1>11, <2>1, <2>0
        DEF DrainDone, ChildObservedGone, ChildSucceeded, Return, childVars, dbVars,
            Others, RunTypeOK, ChildInv, InChild
    <2>4. ASSUME NEW d \in Run PROVE LockInv(d)'
        BY <1>a, <1>11, <2>1, <2>0
        DEF DrainDone, ChildObservedGone, ChildSucceeded, Return, childVars, dbVars,
            Others, RunTypeOK, ChildInv, LockInv, InChild, AtLock, Outcome
    <2>5. AppliedIsAttested'
        BY <1>a, <1>b, <1>11, <2>1, <2>0
        DEF DrainDone, ChildObservedGone, ChildSucceeded, Return, childVars, dbVars,
            Others, RunTypeOK, CopyInv, ChildInv, InChild, AtLock, AppliedIsAttested
    <2> QED BY <1>c, <2>1, <2>2, <2>3, <2>4, <2>5
<1>12. ASSUME DrainUncertain(r) PROVE RunTypeOK' /\ BootstrapInv'
    <2>0. /\ run' \in [Run -> RunRecord] /\ Others(r)
          /\ run'[r].pc = "uncertain" /\ Kept(run'[r], run[r])
        BY <1>12, GoToFields DEF DrainUncertain, Return, Working, Outcome
    <2>1. RunTypeOK'
        BY <1>12, <2>0
        DEF DrainUncertain, Return, childVars, dbVars, RunTypeOK
    <2>2. ASSUME NEW d \in Run PROVE CopyInv(d)'
        BY <1>a, <1>12, <2>1, <2>0
        DEF DrainUncertain, Return, childVars, dbVars, Kept, Others, RunTypeOK,
            CopyInv, ChildInv, InChild, AtLock
    <2>3. ASSUME NEW d \in Run PROVE ChildInv(d)'
        BY <1>a, <1>12, <2>1, <2>0
        DEF DrainUncertain, Return, childVars, dbVars, Kept, Others, RunTypeOK,
            ChildInv, InChild
    <2>4. ASSUME NEW d \in Run PROVE LockInv(d)'
        BY <1>a, <1>12, <2>1, <2>0
        DEF DrainUncertain, Return, childVars, dbVars, Kept, Others, RunTypeOK,
            ChildInv, LockInv, InChild, AtLock, Outcome
    <2>5. AppliedIsAttested'
        BY <1>a, <1>b, <1>12, <2>1, <2>0
        DEF DrainUncertain, Return, childVars, dbVars, Kept, Others, RunTypeOK,
            CopyInv, ChildInv, InChild, AtLock, AppliedIsAttested
    <2> QED BY <1>c, <2>1, <2>2, <2>3, <2>4, <2>5
<1>13. ASSUME ReconcileAccess(r) PROVE RunTypeOK' /\ BootstrapInv'
    <2>0. /\ run' \in [Run -> RunRecord] /\ Others(r)
          /\ run'[r].pc = "commit" /\ Kept(run'[r], run[r])
        BY <1>13, GoToFields DEF ReconcileAccess, Working, Outcome
    <2>1. RunTypeOK'
        BY <1>13, <2>0
        DEF ReconcileAccess, childVars, dbVars, RunTypeOK
    <2>2. ASSUME NEW d \in Run PROVE CopyInv(d)'
        BY <1>a, <1>13, <2>1, <2>0
        DEF ReconcileAccess, childVars, dbVars, Kept, Others, RunTypeOK, CopyInv,
            ChildInv, InChild, AtLock
    <2>3. ASSUME NEW d \in Run PROVE ChildInv(d)'
        BY <1>a, <1>13, <2>1, <2>0
        DEF ReconcileAccess, childVars, dbVars, Kept, Others, RunTypeOK, ChildInv,
            InChild
    <2>4. ASSUME NEW d \in Run PROVE LockInv(d)'
        BY <1>a, <1>13, <2>1, <2>0
        DEF ReconcileAccess, childVars, dbVars, Kept, Others, RunTypeOK, ChildInv,
            LockInv, InChild, AtLock, Outcome
    <2>5. AppliedIsAttested'
        BY <1>a, <1>b, <1>13, <2>1, <2>0
        DEF ReconcileAccess, childVars, dbVars, Kept, Others, RunTypeOK, CopyInv,
            ChildInv, InChild, AtLock, AppliedIsAttested
    <2> QED BY <1>c, <2>1, <2>2, <2>3, <2>4, <2>5
<1>14. ASSUME CommitAccess(r) PROVE RunTypeOK' /\ BootstrapInv'
    <2>0. /\ run' \in [Run -> RunRecord] /\ Others(r)
          /\ run'[r].pc = "ok" /\ Kept(run'[r], run[r])
        BY <1>14, GoToFields DEF CommitAccess, Return, Working, Outcome
    <2>1. RunTypeOK'
        BY <1>14, <2>0
        DEF CommitAccess, Return, childVars, dbVars, RunTypeOK
    <2>2. ASSUME NEW d \in Run PROVE CopyInv(d)'
        BY <1>a, <1>14, <2>1, <2>0
        DEF CommitAccess, Return, childVars, dbVars, Kept, Others, RunTypeOK, CopyInv,
            ChildInv, InChild, AtLock
    <2>3. ASSUME NEW d \in Run PROVE ChildInv(d)'
        BY <1>a, <1>14, <2>1, <2>0
        DEF CommitAccess, Return, childVars, dbVars, Kept, Others, RunTypeOK, ChildInv,
            InChild
    <2>4. ASSUME NEW d \in Run PROVE LockInv(d)'
        BY <1>a, <1>14, <2>1, <2>0
        DEF CommitAccess, Return, childVars, dbVars, Kept, Others, RunTypeOK, ChildInv,
            LockInv, InChild, AtLock, Outcome
    <2>5. AppliedIsAttested'
        BY <1>a, <1>b, <1>14, <2>1, <2>0
        DEF CommitAccess, Return, childVars, dbVars, Kept, Others, RunTypeOK, CopyInv,
            ChildInv, InChild, AtLock, AppliedIsAttested
    <2> QED BY <1>c, <2>1, <2>2, <2>3, <2>4, <2>5
<1>15. ASSUME CommitUnknown(r) PROVE RunTypeOK' /\ BootstrapInv'
    <2>0. /\ run' \in [Run -> RunRecord] /\ Others(r)
          /\ run'[r].pc = "unknown" /\ Kept(run'[r], run[r])
        BY <1>15, GoToFields DEF CommitUnknown, Return, Working, Outcome
    <2>1. RunTypeOK'
        BY <1>15, <2>0
        DEF CommitUnknown, Return, childVars, dbVars, RunTypeOK
    <2>2. ASSUME NEW d \in Run PROVE CopyInv(d)'
        BY <1>a, <1>15, <2>1, <2>0
        DEF CommitUnknown, Return, childVars, dbVars, Kept, Others, RunTypeOK, CopyInv,
            ChildInv, InChild, AtLock
    <2>3. ASSUME NEW d \in Run PROVE ChildInv(d)'
        BY <1>a, <1>15, <2>1, <2>0
        DEF CommitUnknown, Return, childVars, dbVars, Kept, Others, RunTypeOK,
            ChildInv, InChild
    <2>4. ASSUME NEW d \in Run PROVE LockInv(d)'
        BY <1>a, <1>15, <2>1, <2>0
        DEF CommitUnknown, Return, childVars, dbVars, Kept, Others, RunTypeOK,
            ChildInv, LockInv, InChild, AtLock, Outcome
    <2>5. AppliedIsAttested'
        BY <1>a, <1>b, <1>15, <2>1, <2>0
        DEF CommitUnknown, Return, childVars, dbVars, Kept, Others, RunTypeOK, CopyInv,
            ChildInv, InChild, AtLock, AppliedIsAttested
    <2> QED BY <1>c, <2>1, <2>2, <2>3, <2>4, <2>5
<1>16. ASSUME RunFails(r) PROVE RunTypeOK' /\ BootstrapInv'
    <2>0. /\ run' \in [Run -> RunRecord] /\ Others(r)
          /\ run'[r].pc = "failed" /\ Kept(run'[r], run[r])
        BY <1>16, GoToFields DEF RunFails, Return, Working, Outcome
    <2>1. RunTypeOK'
        BY <1>16, <2>0
        DEF RunFails, Return, childVars, dbVars, Working, RunTypeOK
    <2>2. ASSUME NEW d \in Run PROVE CopyInv(d)'
        BY <1>a, <1>16, <2>1, <2>0
        DEF RunFails, Return, childVars, dbVars, Working, Kept, Others, RunTypeOK,
            CopyInv, ChildInv, InChild, AtLock
    <2>3. ASSUME NEW d \in Run PROVE ChildInv(d)'
        BY <1>a, <1>16, <2>1, <2>0
        DEF RunFails, Return, childVars, dbVars, Working, Kept, Others, RunTypeOK,
            ChildInv, InChild
    <2>4. ASSUME NEW d \in Run PROVE LockInv(d)'
        BY <1>a, <1>16, <2>1, <2>0
        DEF RunFails, Return, childVars, dbVars, Working, Kept, Others, RunTypeOK,
            ChildInv, LockInv, InChild, AtLock, Outcome
    <2>5. AppliedIsAttested'
        BY <1>a, <1>b, <1>16, <2>1, <2>0
        DEF RunFails, Return, childVars, dbVars, Working, Kept, Others, RunTypeOK,
            CopyInv, ChildInv, InChild, AtLock, AppliedIsAttested
    <2> QED BY <1>c, <2>1, <2>2, <2>3, <2>4, <2>5
<1>17. ASSUME LoseSession(r) PROVE RunTypeOK' /\ BootstrapInv'
    <2>1. RunTypeOK'
        BY <1>17
        DEF LoseSession, childVars, dbVars, RunTypeOK
    <2>2. ASSUME NEW d \in Run PROVE CopyInv(d)'
        BY <1>a, <1>17, <2>1
        DEF LoseSession, childVars, dbVars, Others, RunTypeOK, CopyInv, ChildInv,
            InChild, AtLock
    <2>3. ASSUME NEW d \in Run PROVE ChildInv(d)'
        BY <1>a, <1>17, <2>1
        DEF LoseSession, childVars, dbVars, Others, RunTypeOK, ChildInv, InChild
    <2>4. ASSUME NEW d \in Run PROVE LockInv(d)'
        BY <1>a, <1>17, <2>1
        DEF LoseSession, childVars, dbVars, Others, RunTypeOK, ChildInv, LockInv,
            InChild, AtLock, Outcome
    <2>5. AppliedIsAttested'
        BY <1>a, <1>b, <1>17, <2>1
        DEF LoseSession, childVars, dbVars, Others, RunTypeOK, CopyInv, ChildInv,
            InChild, AtLock, AppliedIsAttested
    <2> QED BY <1>c, <2>1, <2>2, <2>3, <2>4, <2>5
<1>18. ASSUME ChildLocks(r) PROVE RunTypeOK' /\ BootstrapInv'
    <2>1. RunTypeOK'
        BY <1>18
        DEF ChildLocks, RunTypeOK
    <2>2. ASSUME NEW d \in Run PROVE CopyInv(d)'
        BY <1>a, <1>18, <2>1
        DEF ChildLocks, Others, RunTypeOK, CopyInv, ChildInv, InChild, AtLock
    <2>3. ASSUME NEW d \in Run PROVE ChildInv(d)'
        BY <1>a, <1>18, <2>1
        DEF ChildLocks, Others, RunTypeOK, ChildInv, InChild
    <2>4. ASSUME NEW d \in Run PROVE LockInv(d)'
        BY <1>a, <1>18, <2>1
        DEF ChildLocks, Others, RunTypeOK, ChildInv, LockInv, InChild, AtLock, Outcome
    <2>5. AppliedIsAttested'
        BY <1>a, <1>b, <1>18, <2>1
        DEF ChildLocks, Others, RunTypeOK, CopyInv, ChildInv, InChild, AtLock,
            AppliedIsAttested
    <2> QED BY <1>c, <2>1, <2>2, <2>3, <2>4, <2>5
<1>19. ASSUME ChildApplies(r) PROVE RunTypeOK' /\ BootstrapInv'
    <2>1. RunTypeOK'
        <3>1. PICK l \in Lineage :
                /\ l = run[r].cur
                /\ ledger' = [ledger EXCEPT
                                ![l] = [version |-> ledger[l].version + 1, dirty |-> TRUE]]
            BY <1>a, <1>19 DEF ChildApplies, ChildInv, InChild
        <3>2. ledger[l].version \in Nat
            BY DEF RunTypeOK
        <3>3. [version |-> ledger[l].version + 1, dirty |-> TRUE] \in [version : Nat, dirty : BOOLEAN]
            BY <3>2
        <3>4. ledger' \in [Lineage -> [version : Nat, dirty : BOOLEAN]]
            BY <3>1, <3>3 DEF RunTypeOK
        <3> QED
            BY <1>19, <3>4 DEF ChildApplies, Strayed, RunTypeOK
    <2>2. ASSUME NEW d \in Run PROVE CopyInv(d)'
        BY <1>a, <1>19, <2>1
        DEF ChildApplies, Strayed, Others, RunTypeOK, CopyInv, ChildInv, InChild,
            AtLock
    <2>3. ASSUME NEW d \in Run PROVE ChildInv(d)'
        BY <1>a, <1>19, <2>1
        DEF ChildApplies, Strayed, Others, RunTypeOK, ChildInv, InChild
    <2>4. ASSUME NEW d \in Run PROVE LockInv(d)'
        BY <1>a, <1>19, <2>1
        DEF ChildApplies, Strayed, Others, RunTypeOK, ChildInv, LockInv, InChild,
            AtLock, Outcome
    <2>5. AppliedIsAttested'
        <3> SUFFICES ASSUME NEW d \in Run, backend'[d] \in {"statement", "ran"}
                     PROVE /\ ledger'[run[d].cur].version <= run[d].bind[run[d].cur].migrations
                           /\ run[d].copy[run[d].cur].edition = run[d].bind[run[d].cur].edition
            BY <1>19 DEF ChildApplies, AppliedIsAttested
        <3> DEFINE l == run[r].cur
        <3>1. /\ l \in Lineage /\ ledgerLock[l] = r /\ run[r].pc = "child"
              /\ backend[r] = "up" /\ ledger[l].version < run[r].copy[l].migrations
              /\ ledger' = [ledger EXCEPT ![l] = [version |-> ledger[l].version + 1, dirty |-> TRUE]]
            BY <1>a, <1>19 DEF ChildApplies, ChildInv, InChild
        <3>2. CASE d = r
            <4>1. run[r].copy[l] = run[r].bind[l] /\ run[r].bind[l] \in Content
                BY <1>a, <3>1 DEF CopyInv, AtLock, InChild, Plan
            <4>2. ledger'[l].version = ledger[l].version + 1 /\ ledger[l].version \in Nat
                BY <3>1 DEF RunTypeOK
            <4> QED
                BY <3>1, <3>2, <4>1, <4>2 DEF Content
        <3>3. CASE d # r
            <4>1. backend[d] \in {"statement", "ran"}
                BY <1>19, <3>3 DEF ChildApplies, RunTypeOK
            <4>2. run[d].cur \in Lineage /\ run[d].cur # l
                BY <1>a, <3>1, <3>3, <4>1 DEF ChildInv, InChild
            <4>3. ledger'[run[d].cur] = ledger[run[d].cur]
                BY <3>1, <4>2 DEF RunTypeOK
            <4> QED
                BY <1>b, <4>1, <4>3 DEF AppliedIsAttested
        <3> QED BY <3>2, <3>3
    <2> QED BY <1>c, <2>1, <2>2, <2>3, <2>4, <2>5
<1>20. ASSUME StatementEnds(r) PROVE RunTypeOK' /\ BootstrapInv'
    <2>1. RunTypeOK'
        BY <1>20
        DEF StatementEnds, Strayed, ReleaseLedger, RunTypeOK
    <2>2. ASSUME NEW d \in Run PROVE CopyInv(d)'
        BY <1>a, <1>20, <2>1
        DEF StatementEnds, Strayed, ReleaseLedger, Others, RunTypeOK, CopyInv,
            ChildInv, InChild, AtLock
    <2>3. ASSUME NEW d \in Run PROVE ChildInv(d)'
        <3>1. \/ ledgerLock' = ledgerLock /\ backend' = backend
              \/ ledgerLock' = ledgerLock /\ backend' = [backend EXCEPT ![r] = "ran"]
                    /\ backend[r] # "none"
              \/ ledgerLock' = ReleaseLedger(r) /\ backend' = [backend EXCEPT ![r] = "none"]
            BY <1>20 DEF StatementEnds
        <3>2. run' = run /\ proc' = proc
            BY <1>20 DEF StatementEnds
        <3>3. backend'[d] # "none" =>
                backend[d] # "none" /\ ledgerLock'[run[d].cur] = ledgerLock[run[d].cur]
            <4> SUFFICES ASSUME backend'[d] # "none"
                         PROVE backend[d] # "none"
                                 /\ ledgerLock'[run[d].cur] = ledgerLock[run[d].cur]
                OBVIOUS
            <4>1. backend[d] # "none"
                BY <3>1 DEF RunTypeOK
            <4>2. run[d].cur \in Lineage /\ ledgerLock[run[d].cur] = d
                BY <1>a, <4>1 DEF ChildInv
            <4>3. CASE ledgerLock' = ledgerLock
                BY <4>1, <4>3
            <4>4. CASE ledgerLock' = ReleaseLedger(r) /\ backend' = [backend EXCEPT ![r] = "none"]
                <5>1. d # r
                    BY <4>4 DEF RunTypeOK
                <5> QED
                    BY <4>1, <4>2, <4>4, <5>1 DEF ReleaseLedger
            <4> QED BY <3>1, <4>3, <4>4
        <3> QED
            BY <1>a, <3>2, <3>3 DEF ChildInv, InChild, Kept, Others
    <2>4. ASSUME NEW d \in Run PROVE LockInv(d)'
        <3>1. UNCHANGED <<run, sess, lock>> /\ stray' = Strayed(r) /\ backend[r] # "none"
            BY <1>20 DEF StatementEnds
        <3> QED
            BY <1>a, <3>1 DEF Strayed, ChildInv, LockInv, InChild, AtLock, Outcome, RunTypeOK
    <2>5. AppliedIsAttested'
        BY <1>a, <1>b, <1>20, <2>1
        DEF StatementEnds, Strayed, ReleaseLedger, Others, RunTypeOK, CopyInv,
            ChildInv, InChild, AtLock, AppliedIsAttested
    <2> QED BY <1>c, <2>1, <2>2, <2>3, <2>4, <2>5
<1>21. ASSUME ChildCleans(r) PROVE RunTypeOK' /\ BootstrapInv'
    <2>1. RunTypeOK'
        BY <1>21
        DEF ChildCleans, Strayed, RunTypeOK
    <2>2. ASSUME NEW d \in Run PROVE CopyInv(d)'
        BY <1>a, <1>21, <2>1
        DEF ChildCleans, Strayed, Others, RunTypeOK, CopyInv, ChildInv, InChild,
            AtLock
    <2>3. ASSUME NEW d \in Run PROVE ChildInv(d)'
        BY <1>a, <1>21, <2>1
        DEF ChildCleans, Strayed, Others, RunTypeOK, ChildInv, InChild
    <2>4. ASSUME NEW d \in Run PROVE LockInv(d)'
        BY <1>a, <1>21, <2>1
        DEF ChildCleans, Strayed, Others, RunTypeOK, ChildInv, LockInv, InChild,
            AtLock, Outcome
    <2>5. AppliedIsAttested'
        BY <1>a, <1>b, <1>21, <2>1
        DEF ChildCleans, Strayed, Others, RunTypeOK, CopyInv, ChildInv, InChild,
            AtLock, AppliedIsAttested
    <2> QED BY <1>c, <2>1, <2>2, <2>3, <2>4, <2>5
<1>22. ASSUME ChildExits(r) PROVE RunTypeOK' /\ BootstrapInv'
    <2>1. RunTypeOK'
        BY <1>22
        DEF ChildExits, ReleaseLedger, RunTypeOK
    <2>2. ASSUME NEW d \in Run PROVE CopyInv(d)'
        BY <1>a, <1>22, <2>1
        DEF ChildExits, ReleaseLedger, Others, RunTypeOK, CopyInv, ChildInv, InChild,
            AtLock
    <2>3. ASSUME NEW d \in Run PROVE ChildInv(d)'
        BY <1>a, <1>22, <2>1
        DEF ChildExits, ReleaseLedger, Others, RunTypeOK, ChildInv, InChild
    <2>4. ASSUME NEW d \in Run PROVE LockInv(d)'
        BY <1>a, <1>22, <2>1
        DEF ChildExits, ReleaseLedger, Others, RunTypeOK, ChildInv, LockInv, InChild,
            AtLock, Outcome
    <2>5. AppliedIsAttested'
        BY <1>a, <1>b, <1>22, <2>1
        DEF ChildExits, ReleaseLedger, Others, RunTypeOK, CopyInv, ChildInv, InChild,
            AtLock, AppliedIsAttested
    <2> QED BY <1>c, <2>1, <2>2, <2>3, <2>4, <2>5
<1>23. ASSUME ChildDies(r) PROVE RunTypeOK' /\ BootstrapInv'
    <2>1. RunTypeOK'
        BY <1>23
        DEF ChildDies, ReleaseLedger, RunTypeOK
    <2>2. ASSUME NEW d \in Run PROVE CopyInv(d)'
        BY <1>a, <1>23, <2>1
        DEF ChildDies, ReleaseLedger, Others, RunTypeOK, CopyInv, ChildInv, InChild,
            AtLock
    <2>3. ASSUME NEW d \in Run PROVE ChildInv(d)'
        <3>1. \/ ledgerLock' = ledgerLock /\ backend' = backend
              \/ ledgerLock' = ledgerLock /\ backend' = [backend EXCEPT ![r] = "ran"]
                    /\ backend[r] # "none"
              \/ ledgerLock' = ReleaseLedger(r) /\ backend' = [backend EXCEPT ![r] = "none"]
            BY <1>23 DEF ChildDies
        <3>2. run' = run /\ proc'[d] \in {proc[d], "failed"}
            BY <1>23 DEF ChildDies, RunTypeOK
        <3>3. backend'[d] # "none" =>
                backend[d] # "none" /\ ledgerLock'[run[d].cur] = ledgerLock[run[d].cur]
            <4> SUFFICES ASSUME backend'[d] # "none"
                         PROVE backend[d] # "none"
                                 /\ ledgerLock'[run[d].cur] = ledgerLock[run[d].cur]
                OBVIOUS
            <4>1. backend[d] # "none"
                BY <3>1 DEF RunTypeOK
            <4>2. run[d].cur \in Lineage /\ ledgerLock[run[d].cur] = d
                BY <1>a, <4>1 DEF ChildInv
            <4>3. CASE ledgerLock' = ledgerLock
                BY <4>1, <4>3
            <4>4. CASE ledgerLock' = ReleaseLedger(r) /\ backend' = [backend EXCEPT ![r] = "none"]
                <5>1. d # r
                    BY <4>4 DEF RunTypeOK
                <5> QED
                    BY <4>1, <4>2, <4>4, <5>1 DEF ReleaseLedger
            <4> QED BY <3>1, <4>3, <4>4
        <3> QED
            BY <1>a, <3>2, <3>3 DEF ChildInv, InChild, Kept, Others
    <2>4. ASSUME NEW d \in Run PROVE LockInv(d)'
        BY <1>a, <1>23, <2>1
        DEF ChildDies, ReleaseLedger, Others, RunTypeOK, ChildInv, LockInv, InChild,
            AtLock, Outcome
    <2>5. AppliedIsAttested'
        BY <1>a, <1>b, <1>23, <2>1
        DEF ChildDies, ReleaseLedger, Others, RunTypeOK, CopyInv, ChildInv, InChild,
            AtLock, AppliedIsAttested
    <2> QED BY <1>c, <2>1, <2>2, <2>3, <2>4, <2>5
<1> QED
    BY <1>1, <1>2, <1>3, <1>4, <1>5, <1>6, <1>7, <1>8, <1>9, <1>10, <1>11, <1>12,
       <1>13, <1>14, <1>15, <1>16, <1>17, <1>18, <1>19, <1>20, <1>21, <1>22,
       <1>23 DEF RunStep

\* Builds and runs interleave; neither writes what is the other's.
LEMMA BootstrapStepInv ==
    /\ StagingTypeOK /\ StagingInv /\ RunTypeOK /\ BootstrapInv
    /\ [BootstrapNext]_<<stagingVars, runVars>>
    => (StagingTypeOK /\ StagingInv /\ RunTypeOK /\ BootstrapInv)'
<1> SUFFICES ASSUME StagingTypeOK, StagingInv, RunTypeOK, BootstrapInv,
                    [BootstrapNext]_<<stagingVars, runVars>>
             PROVE (StagingTypeOK /\ StagingInv /\ RunTypeOK /\ BootstrapInv)'
    OBVIOUS
<1>1. StagingTypeOK' /\ StagingInv'
    BY StagingStepInv DEF BootstrapNext
<1>2. ASSUME UNCHANGED runVars PROVE RunTypeOK' /\ BootstrapInv'
    BY <1>2 DEF runVars, RunTypeOK, BootstrapInv, CopyInv, ChildInv, LockInv, AppliedIsAttested
<1>3. ASSUME RunNext PROVE RunTypeOK' /\ BootstrapInv'
    BY <1>3, RunStepInv DEF RunNext
<1> QED
    BY <1>1, <1>2, <1>3 DEF BootstrapNext

\* The invariant holds of every behaviour, with the package of Staging beside it.
LEMMA BootstrapInvariant ==
    BootstrapSpec => [](StagingTypeOK /\ StagingInv /\ RunTypeOK /\ BootstrapInv)
<1>1. BootstrapInit => StagingInv
    BY StagingInitInv DEF BootstrapInit
<1> QED
    BY RunInitInv, BootstrapStepInv, <1>1, PTL DEF BootstrapSpec

\* A run that has returned without calling its cleanup uncertain has left no
\* child and no session of one (run.go drainChild).
THEOREM BootstrapLeavesNoChild == BootstrapSpec => []CleanReturnLeavesNoChild
<1>1. BootstrapInv => CleanReturnLeavesNoChild
    BY DEF BootstrapInv, ChildInv, CleanReturnLeavesNoChild, Outcome, InChild
<1> QED
    BY BootstrapInvariant, <1>1, PTL

\* A run whose child wrote without the shared lock reports nothing but an
\* uncertain cleanup (run.go Run, drainChild).
THEOREM BootstrapReportsStrays == BootstrapSpec => []StrayWritesReported
<1>1. RunTypeOK /\ BootstrapInv => StrayWritesReported
    BY DEF RunTypeOK, BootstrapInv, LockInv, StrayWritesReported, InChild
<1> QED
    BY BootstrapInvariant, <1>1, PTL

\* No child applies more of a lineage than the run's binding attests (package.go
\* snapshot).
THEOREM BootstrapAppliesAttested == BootstrapSpec => []AppliedIsAttested
<1>1. BootstrapInv => AppliedIsAttested
    BY DEF BootstrapInv
<1> QED
    BY BootstrapInvariant, <1>1, PTL

-----------------------------------------------------------------------------
(* What a run has completed stays as it completed it. *)

\* A step that leaves the ledgers and this run's own state alone.
Quiet(d) ==
    /\ run'[d] = run[d] /\ ledger' = ledger /\ stray \subseteq stray'
    /\ proc'[d] \in {proc[d], "failed"} /\ (d \in sess' => d \in sess)

\* No run has completed anything.
LEMMA LedgerInitInv == BootstrapInit => LedgerInv
BY DEF BootstrapInit, RunInit, LedgerInv, DoneInv, InChild, AtLock

\* A quiet step keeps what it completed.
LEMMA LedgerQuiet ==
    ASSUME NEW d \in Run, DoneInv(d), Quiet(d)
    PROVE  DoneInv(d)'
<1>1. /\ run'[d].pc \in {"new", "plan", "open", "sources", "connect", "lock"} => run'[d].done = {}
      /\ run'[d].pc \in InChild => run'[d].cur \notin run'[d].done
      /\ run'[d].pc = "commit" => run'[d].done = Lineage
    BY DEF DoneInv, Quiet
<1>2. ASSUME stray' = {}, d \in sess', run'[d].pc \in AtLock, NEW l \in Lineage,
             l \in run'[d].done
                \/ (run'[d].pc \in InChild /\ l = run'[d].cur /\ proc'[d] = "ok")
      PROVE  ledger'[l] = [version |-> run'[d].bind[l].migrations, dirty |-> FALSE]
    BY <1>2 DEF DoneInv, Quiet
<1> QED
    BY <1>1, <1>2 DEF DoneInv

\* A child that writes to a ledger a run has completed strays: that run holds
\* the lock, so the writer is another one and does not.
LEMMA LedgerWritten ==
    ASSUME RunTypeOK, BootstrapInv, LedgerInv, NEW r \in Run, NEW d \in Run,
           proc[r] = "alive", UNCHANGED <<run, sess, proc>>, stray' = Strayed(r),
           \A l \in Lineage \ {run[r].cur} : ledger'[l] = ledger[l]
    PROVE  DoneInv(d)'
<1>0. DoneInv(d) /\ LockInv(d) /\ ChildInv(r) /\ DoneInv(r)
    BY DEF BootstrapInv, LedgerInv
<1>1. /\ run[d].pc \in {"new", "plan", "open", "sources", "connect", "lock"} => run[d].done = {}
      /\ run[d].pc \in InChild => run[d].cur \notin run[d].done
      /\ run[d].pc = "commit" => run[d].done = Lineage
    BY <1>0 DEF DoneInv
<1>2. ASSUME stray' = {}, d \in sess', run[d].pc \in AtLock, NEW l \in Lineage,
             l \in run[d].done \/ (run[d].pc \in InChild /\ l = run[d].cur /\ proc[d] = "ok")
      PROVE  ledger'[l] = [version |-> run[d].bind[l].migrations, dirty |-> FALSE]
    <2>1. lock = d /\ stray = {} /\ lock = r
        BY <1>0, <1>2 DEF LockInv, Strayed
    <2>2. run[r].pc = "child" /\ run[r].cur \notin run[r].done
        BY <1>0 DEF ChildInv, DoneInv, InChild
    <2>3. l # run[r].cur /\ l \in run[d].done
        BY <1>2, <2>1, <2>2
    <2> QED
        BY <1>0, <1>2, <2>1, <2>3 DEF DoneInv
<1> QED
    BY <1>1, <1>2 DEF DoneInv

\* Every step of a run, of its child and of the network keeps LedgerInv.
LEMMA LedgerStep ==
    ASSUME StagingTypeOK, RunTypeOK, BootstrapInv, LedgerInv, NEW r \in Run, RunStep(r)
    PROVE  LedgerInv'
<1>a. \A d \in Run : CopyInv(d) /\ ChildInv(d) /\ LockInv(d) /\ DoneInv(d)
    BY DEF BootstrapInv, LedgerInv
<1>b. ASSUME DoneInv(r)', \A d \in Run \ {r} : Quiet(d) PROVE LedgerInv'
    BY <1>a, <1>b, LedgerQuiet DEF LedgerInv
<1>c. ASSUME Return(r, "ok") \/ Return(r, "failed") \/ Return(r, "unknown") \/ Return(r, "uncertain"),
             UNCHANGED <<proc, ledger, stray>>
      PROVE  LedgerInv'
    <2>1. PICK p \in Outcome : GoTo(r, p) /\ sess' = sess \ {r}
        BY <1>c DEF Return, Outcome
    <2>2. Others(r) /\ run'[r].pc = p /\ Kept(run'[r], run[r])
        BY <2>1, GoToFields
    <2>3. DoneInv(r)'
        BY <2>1, <2>2 DEF DoneInv, Outcome, InChild, AtLock
    <2> QED
        BY <1>b, <1>c, <2>1, <2>2, <2>3 DEF Others, Quiet
<1>1. ASSUME StartRun(r) PROVE LedgerInv'
    <2>1. Others(r) /\ run'[r].pc = "plan" /\ run'[r].done = run[r].done
        BY <1>1, StartRunFields
    <2>2. DoneInv(r)'
        BY <1>a, <1>1, <2>1 DEF StartRun, DoneInv, InChild, AtLock
    <2> QED
        BY <1>b, <1>1, <2>1, <2>2 DEF StartRun, Others, Quiet, childVars, dbVars
<1>2. ASSUME SnapshotPlan(r) PROVE LedgerInv'
    <2>1. Others(r) /\ run'[r].pc = "open" /\ Kept(run'[r], run[r])
        BY <1>2, GoToFields DEF SnapshotPlan, Working
    <2>2. DoneInv(r)'
        BY <1>a, <1>2, <2>1 DEF SnapshotPlan, DoneInv, InChild, AtLock, Kept
    <2> QED
        BY <1>b, <1>2, <2>1, <2>2 DEF SnapshotPlan, Others, Quiet, childVars, dbVars
<1>3. ASSUME OpenRoot(r) PROVE LedgerInv'
    <2>1. Others(r) /\ run'[r].pc = "sources" /\ Kept(run'[r], run[r])
        BY <1>3, OpenRootFields
    <2>2. DoneInv(r)'
        BY <1>a, <1>3, <2>1 DEF OpenRoot, DoneInv, InChild, AtLock, Kept
    <2> QED
        BY <1>b, <1>3, <2>1, <2>2 DEF OpenRoot, Others, Quiet, childVars, dbVars
<1>4. ASSUME NEW l \in Lineage, SnapshotLineage(r, l) PROVE LedgerInv'
    <2>1. Others(r) /\ run'[r].pc \in {"sources", "connect"} /\ run'[r].done = run[r].done
        BY <1>a, <1>4, SnapshotFields
    <2>2. DoneInv(r)'
        BY <1>a, <1>4, <2>1 DEF SnapshotLineage, DoneInv, InChild, AtLock
    <2> QED
        BY <1>b, <1>4, <2>1, <2>2 DEF SnapshotLineage, Others, Quiet, childVars, dbVars
<1>5. ASSUME OpenSession(r) PROVE LedgerInv'
    <2>1. Others(r) /\ run'[r].pc = "lock" /\ Kept(run'[r], run[r])
        BY <1>5, GoToFields DEF OpenSession, Working
    <2>2. DoneInv(r)'
        BY <1>a, <1>5, <2>1 DEF OpenSession, DoneInv, InChild, AtLock, Kept
    <2> QED
        BY <1>b, <1>5, <2>1, <2>2 DEF OpenSession, Others, Quiet, childVars, dbVars
<1>6. ASSUME TakeLock(r) PROVE LedgerInv'
    <2>1. Others(r) /\ run'[r].pc = "extensions" /\ Kept(run'[r], run[r])
        BY <1>6, GoToFields DEF TakeLock, Working
    <2>2. DoneInv(r)'
        BY <1>a, <1>6, <2>1 DEF TakeLock, DoneInv, InChild, AtLock, Kept
    <2> QED
        BY <1>b, <1>6, <2>1, <2>2 DEF TakeLock, Others, Quiet, childVars, dbVars
<1>7. ASSUME Extensions(r) PROVE LedgerInv'
    <2>1. Others(r) /\ run'[r].pc = "lineage" /\ Kept(run'[r], run[r])
        BY <1>7, GoToFields DEF Extensions, Working
    <2>2. DoneInv(r)'
        BY <1>a, <1>7, <2>1 DEF Extensions, DoneInv, InChild, AtLock, Kept, childVars, dbVars
    <2> QED
        BY <1>b, <1>7, <2>1, <2>2 DEF Extensions, Others, Quiet, childVars, dbVars
<1>8. ASSUME StartChild(r) PROVE LedgerInv'
    <2>1. /\ Others(r) /\ run'[r].pc = "child" /\ run'[r].bind = run[r].bind
          /\ run'[r].done = run[r].done /\ run'[r].cur \notin run[r].done
        BY <1>8, StartChildFields
    <2>2. /\ run[r].pc = "lineage" /\ proc'[r] = "alive" /\ UNCHANGED <<sess, ledger, stray>>
          /\ \A d \in Run \ {r} : proc'[d] = proc[d]
        BY <1>8 DEF StartChild, RunTypeOK, dbVars
    <2>3. DoneInv(r)'
        BY <1>a, <2>1, <2>2 DEF DoneInv, InChild, AtLock
    <2> QED
        BY <1>b, <2>1, <2>2, <2>3 DEF Others, Quiet
<1>9. ASSUME AwaitChild(r) PROVE LedgerInv'
    <2>1. Others(r) /\ run'[r].pc = "drain" /\ Kept(run'[r], run[r])
        BY <1>9, GoToFields DEF AwaitChild, Working
    <2>2. DoneInv(r)'
        BY <1>a, <1>9, <2>1 DEF AwaitChild, DoneInv, InChild, AtLock, Kept, childVars, dbVars
    <2> QED
        BY <1>b, <1>9, <2>1, <2>2 DEF AwaitChild, Others, Quiet, childVars, dbVars
<1>10. ASSUME DrainTerminate(r) PROVE LedgerInv'
    <2>0. run[r].pc = "drain" /\ GoTo(r, "count") /\ UNCHANGED <<sess, proc, ledger, stray>>
        BY <1>10 DEF DrainTerminate
    <2>1. Others(r) /\ run'[r].pc = "count" /\ Kept(run'[r], run[r])
        BY <2>0, GoToFields DEF Working
    <2>2. DoneInv(r)'
        BY <1>a, <2>0, <2>1 DEF DoneInv, InChild, AtLock, Kept
    <2> QED
        BY <1>b, <2>0, <2>1, <2>2 DEF Others, Quiet
<1>11. ASSUME DrainDone(r) PROVE LedgerInv'
    <2>0. run[r].pc = "count" /\ UNCHANGED <<proc, ledger, stray>>
        BY <1>11 DEF DrainDone, childVars, dbVars
    <2>1. CASE ChildSucceeded(r)
        <3>1. proc[r] = "ok" /\ Completes(r) /\ sess' = sess /\ run[r].cur \in Lineage
            BY <1>a, <1>11, <2>0, <2>1 DEF DrainDone, ChildSucceeded, Completes, ChildInv,
                InChild
        <3>2. /\ Others(r) /\ run'[r].pc = "lineage" /\ run'[r].bind = run[r].bind
              /\ run'[r].done = run[r].done \cup {run[r].cur}
            BY <3>1, LineageFields
        <3>3. DoneInv(r)'
            BY <1>a, <2>0, <3>1, <3>2 DEF DoneInv, InChild, AtLock
        <3> QED
            BY <1>b, <2>0, <3>1, <3>2, <3>3 DEF Others, Quiet
    <2>2. CASE ~ChildSucceeded(r)
        BY <1>c, <1>11, <2>0, <2>2 DEF DrainDone
    <2> QED BY <2>1, <2>2
<1>12. ASSUME DrainUncertain(r) \/ CommitAccess(r) \/ CommitUnknown(r) \/ RunFails(r)
       PROVE  LedgerInv'
    BY <1>c, <1>12 DEF DrainUncertain, CommitAccess, CommitUnknown, RunFails, childVars, dbVars
<1>13. ASSUME ReconcileAccess(r) PROVE LedgerInv'
    <2>1. Others(r) /\ run'[r].pc = "commit" /\ Kept(run'[r], run[r])
        BY <1>13, GoToFields DEF ReconcileAccess, Working
    <2>2. DoneInv(r)'
        BY <1>a, <1>13, <2>1
        DEF ReconcileAccess, DoneInv, InChild, AtLock, Kept, childVars, dbVars
    <2> QED
        BY <1>b, <1>13, <2>1, <2>2 DEF ReconcileAccess, Others, Quiet, childVars, dbVars
<1>14. ASSUME LoseSession(r) \/ ChildLocks(r) \/ StatementEnds(r) \/ ChildDies(r)
       PROVE  LedgerInv'
    <2>1. ASSUME NEW d \in Run PROVE Quiet(d)
        <3>1. run' = run /\ ledger' = ledger /\ stray \subseteq stray' /\ sess' \subseteq sess
            BY <1>14
            DEF LoseSession, ChildLocks, StatementEnds, ChildDies, Strayed, childVars, dbVars
        <3>2. proc'[d] \in {proc[d], "failed"}
            BY <1>14
            DEF LoseSession, ChildLocks, StatementEnds, ChildDies, childVars, RunTypeOK
        <3> QED
            BY <3>1, <3>2 DEF Quiet
    <2> QED
        BY <1>a, <2>1, LedgerQuiet DEF LedgerInv
<1>15. ASSUME ChildApplies(r) \/ ChildCleans(r) PROVE LedgerInv'
    <2>1. /\ proc[r] = "alive" /\ UNCHANGED <<run, sess, proc>> /\ stray' = Strayed(r)
          /\ \A l \in Lineage \ {run[r].cur} : ledger'[l] = ledger[l]
        BY <1>15 DEF ChildApplies, ChildCleans, RunTypeOK
    <2> QED
        BY <2>1, LedgerWritten DEF LedgerInv
<1>16. ASSUME ChildExits(r) PROVE LedgerInv'
    <2>1. /\ proc[r] = "alive" /\ proc'[r] = "ok" /\ \A d \in Run \ {r} : proc'[d] = proc[d]
          /\ ledger[run[r].cur] = [version |-> run[r].copy[run[r].cur].migrations, dirty |-> FALSE]
          /\ UNCHANGED <<run, sess, ledger, stray>>
        BY <1>16 DEF ChildExits, RunTypeOK
    <2>2. run[r].pc = "child" /\ run[r].copy = run[r].bind
        BY <1>a, <2>1 DEF ChildInv, CopyInv, InChild, AtLock
    <2>3. DoneInv(r)'
        BY <1>a, <2>1, <2>2 DEF DoneInv, InChild, AtLock
    <2> QED
        BY <1>b, <2>1, <2>3 DEF Quiet
<1> QED
    BY <1>1, <1>2, <1>3, <1>4, <1>5, <1>6, <1>7, <1>8, <1>9, <1>10, <1>11, <1>12,
       <1>13, <1>14, <1>15, <1>16 DEF RunStep

\* LedgerInv holds of every behaviour, beside the invariant.
LEMMA LedgerInvariant == BootstrapSpec => []LedgerInv
<1>1. ASSUME StagingTypeOK, RunTypeOK, BootstrapInv, LedgerInv,
             [BootstrapNext]_<<stagingVars, runVars>>
      PROVE  LedgerInv'
    <2>1. CASE UNCHANGED runVars
        BY <1>1, <2>1 DEF runVars, LedgerInv, DoneInv
    <2>2. CASE RunNext
        BY <1>1, <2>2, LedgerStep DEF RunNext
    <2> QED
        BY <1>1, <2>1, <2>2 DEF BootstrapNext
<1> QED
    BY BootstrapInvariant, LedgerInitInv, <1>1, PTL DEF BootstrapSpec

\* Access is committed only over lineages that are clean and as attested, as
\* long as no run has strayed (run.go Run): the committing run has completed
\* every lineage and still holds the lock.
THEOREM BootstrapAccessOverCleanLedgers == BootstrapSpec => AccessOverCleanLedgers
<1> DEFINE Over(r) == stray = {} =>
        \A l \in Lineage : ledger[l] = [version |-> run[r].bind[l].migrations, dirty |-> FALSE]
<1>1. ASSUME LedgerInv, RunTypeOK, [BootstrapNext]_<<stagingVars, runVars>>,
             NEW r \in committed' \ committed
      PROVE  Over(r)
    <2>1. ~UNCHANGED runVars
        BY DEF runVars
    <2>2. PICK q \in Run : RunStep(q)
        BY <1>1, <2>1 DEF BootstrapNext, RunNext
    <2>3. q = r /\ run[q].pc = "commit" /\ q \in sess
        BY <2>2
        DEF RunStep, StartRun, SnapshotPlan, OpenRoot, SnapshotLineage, OpenSession, TakeLock,
            Extensions, StartChild, AwaitChild, DrainTerminate, DrainDone, DrainUncertain,
            ReconcileAccess, CommitAccess, CommitUnknown, RunFails, LoseSession, ChildLocks,
            ChildApplies, StatementEnds, ChildCleans, ChildExits, ChildDies
    <2> QED
        BY <1>1, <2>3 DEF LedgerInv, DoneInv, AtLock, InChild
<1>2. LedgerInv /\ RunTypeOK /\ [BootstrapNext]_<<stagingVars, runVars>>
      => [\A r \in committed' \ committed : Over(r)]_<<stagingVars, runVars>>
    BY <1>1
<1> QED
    BY BootstrapInvariant, LedgerInvariant, <1>2, PTL DEF BootstrapSpec, AccessOverCleanLedgers

=============================================================================
