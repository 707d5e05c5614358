------------------------------ MODULE Staging ------------------------------
(***************************************************************************)
(* The bootstrap package: Builder.Build attests the migration sources and  *)
(* stages them (builder.go stageBootstrapContext, schemaplan.go), and the  *)
(* bootstrap image is later built from the staged tree by a separate       *)
(* process and run as a Job (templates/bootstrap/bootstrap.sh.tmpl).       *)
(*                                                                         *)
(* The migration files may be edited while a build runs; a build may fail  *)
(* or be killed at any step and be started again; the image may be built   *)
(* while a build replaces the tree, one file at a time.                    *)
(***************************************************************************)
EXTENDS Naturals, FiniteSets

CONSTANTS
    Lineage,        \* migration sources of the service
    MaxMigrations,  \* bound on the migrations of a source
    MaxEdition,     \* bound on the wordings of a migration that already exists
    Gone,           \* a file or a directory that is not there
    MaxBuilds       \* bound on builds

ASSUME StagingAssumption ==
    /\ IsFiniteSet(Lineage)
    /\ MaxMigrations \in Nat \ {0} /\ MaxEdition \in Nat \ {0} /\ MaxBuilds \in Nat

\* What a source holds: its first migrations, in one wording.
Content == [migrations : 1..MaxMigrations, edition : 1..MaxEdition]
Plan == [Lineage -> Content]

ASSUME GoneAssumption == Gone \notin Content \cup Plan

\* Content c holds every file of content p unchanged, and maybe others.
Carries(c, p) == c # Gone /\ c.edition = p.edition /\ c.migrations >= p.migrations

VARIABLES
    source,     \* [Lineage -> Content], the files in the service's checkout
    build,      \* what the running build does next
    builds,     \* builds so far
    plan,       \* what the running build attested
    staging,    \* its staging directory, beside the tree
    tree,       \* the staged tree, or Gone
    attested,   \* the plans some build attested
    image,      \* the image: what was copied of manifest and sources so far
    job         \* what the Job applied, or Gone

stagingVars == <<source, build, builds, plan, staging, tree, attested, image, job>>

Unread == [l \in Lineage |-> Gone]

\* The staged tree: which tree it is, the marker file, plan.json with
\* sources.sha256, and the copies of the sources.
Tree == [id : Nat, marker : BOOLEAN, plan : Plan \cup {Gone},
         src : [Lineage -> Content \cup {Gone}]]

-----------------------------------------------------------------------------
\* The developer adds, removes or rewrites migrations of a source.
EditSource(l) ==
    /\ \E c \in Content \ {source[l]} : source' = [source EXCEPT ![l] = c]
    /\ UNCHANGED <<build, builds, plan, staging, tree, attested, image, job>>

\* Build: resolve the sources and inventory them.
StartBuild ==
    /\ build = "none" /\ builds < MaxBuilds
    /\ build' = "attest" /\ builds' = builds + 1
    /\ UNCHANGED <<source, plan, staging, tree, attested, image, job>>

\* plan.attest: digest every file, one after the other.
Attest(l) ==
    /\ build = "attest" /\ plan[l] = Gone
    /\ plan' = [plan EXCEPT ![l] = source[l]]
    /\ IF \E k \in Lineage : plan'[k] = Gone
       THEN UNCHANGED <<build, attested>>
       ELSE build' = "assert" /\ attested' = attested \cup {plan'}
    /\ UNCHANGED <<source, builds, staging, tree, image, job>>

\* assertBootstrapDirectoryIsAgentOwned, then MkdirTemp and the templates.
AssertAgentOwned ==
    /\ build = "assert" /\ (tree # Gone => tree.marker)
    /\ build' = "stage"
    /\ UNCHANGED <<source, builds, plan, staging, tree, attested, image, job>>

\* stageLineage: every inventoried file is there with the digest that was
\* attested.
CopyAttested(l, c) == Carries(c, plan[l])

\* The inventoried files are copied and no other; one that changed since it was
\* attested ends the build.
StageLineage(l) ==
    /\ build = "stage" /\ staging[l] = Gone /\ CopyAttested(l, source[l])
    /\ staging' = [staging EXCEPT ![l] = plan[l]]
    /\ build' = IF \E k \in Lineage : staging'[k] = Gone THEN "stage" ELSE "remove"
    /\ UNCHANGED <<source, builds, plan, tree, attested, image, job>>

\* os.RemoveAll of the old tree, one entry at a time in any order.
RemoveEntry ==
    /\ build = "remove" /\ tree # Gone
    /\ \/ tree.marker /\ tree' = [tree EXCEPT !.marker = FALSE]
       \/ tree.plan # Gone /\ tree' = [tree EXCEPT !.plan = Gone]
       \/ \E l \in Lineage : tree.src[l] # Gone /\ tree' = [tree EXCEPT !.src[l] = Gone]
       \/ ~tree.marker /\ tree.plan = Gone /\ tree.src = Unread /\ tree' = Gone
    /\ UNCHANGED <<source, build, builds, plan, staging, attested, image, job>>

\* os.Rename of the staging directory, which holds the plan and its checksums,
\* then runtime-access.sql.
Swap ==
    /\ build = "remove" /\ tree = Gone
    /\ tree' = [id |-> builds, marker |-> TRUE, plan |-> plan, src |-> staging]
    /\ build' = "none" /\ plan' = Unread /\ staging' = Unread
    /\ UNCHANGED <<source, builds, attested, image, job>>

\* The build fails and removes its staging directory, or is killed.
BuildFails ==
    /\ build # "none"
    /\ build' = "none" /\ plan' = Unread /\ staging' = Unread
    /\ UNCHANGED <<source, builds, tree, attested, image, job>>

-----------------------------------------------------------------------------
(* The image and its Job.                                                  *)

NoImage == [manifest |-> FALSE, plan |-> Gone, src |-> Unread, read |-> {}]

\* docker COPY: the build context is read one file after the other, in any order.
CopyManifest ==
    /\ ~image.manifest /\ tree # Gone
    /\ image' = [image EXCEPT !.manifest = TRUE, !.plan = tree.plan]
    /\ UNCHANGED <<source, build, builds, plan, staging, tree, attested, job>>

CopySource(l) ==
    /\ l \notin image.read /\ tree # Gone
    /\ image' = [image EXCEPT !.src[l] = tree.src[l], !.read = @ \cup {l}]
    /\ UNCHANGED <<source, build, builds, plan, staging, tree, attested, job>>

\* Mutation: the Job applies what the image holds.
VerifyNothing(i) == i.plan # Gone /\ \A l \in Lineage : i.src[l] # Gone

\* sha256sum -c sources.sha256: the manifest is there, and so is every file it
\* lists, as it lists it.  A file that it does not list is not looked at.
VerifySources(i) == i.plan # Gone /\ \A l \in Lineage : Carries(i.src[l], i.plan[l])

\* bootstrap.sh: verify, then one session applies every lineage.
RunJob ==
    /\ image.manifest /\ image.read = Lineage
    /\ job' = IF VerifySources(image) THEN image.src ELSE job
    /\ image' = NoImage
    /\ UNCHANGED <<source, build, builds, plan, staging, tree, attested>>

-----------------------------------------------------------------------------
StagingInit ==
    /\ source = [l \in Lineage |-> [migrations |-> 1, edition |-> 1]]
    /\ build = "none" /\ builds = 0
    /\ plan = Unread /\ staging = Unread
    /\ tree = Gone /\ attested = {} /\ job = Gone
    /\ image = NoImage

BuildNext ==
    \/ StartBuild \/ AssertAgentOwned \/ RemoveEntry \/ Swap \/ BuildFails
    \/ \E l \in Lineage : EditSource(l) \/ Attest(l) \/ StageLineage(l)

ImageNext == CopyManifest \/ RunJob \/ \E l \in Lineage : CopySource(l)

StagingNext == BuildNext \/ ImageNext

StagingSpec == StagingInit /\ [][StagingNext]_stagingVars

-----------------------------------------------------------------------------
StagingTypeOK ==
    /\ source \in Plan
    /\ build \in {"none", "attest", "assert", "stage", "remove"}
    /\ builds \in 0..MaxBuilds
    /\ plan \in [Lineage -> Content \cup {Gone}]
    /\ staging \in [Lineage -> Content \cup {Gone}]
    /\ tree \in Tree \cup {Gone}
    /\ attested \subseteq Plan
    /\ image \in [manifest : BOOLEAN, plan : Plan \cup {Gone},
                  src : [Lineage -> Content \cup {Gone}], read : SUBSET Lineage]
    /\ job \in Plan \cup {Gone}

\* A Job that applies anything applies all that one build attested, each
\* migration as attested: never fewer and never a rewritten one, however edits,
\* builds, failed removals and the copying of the image overlapped (builder.go
\* stageLineage, schemaplan.go stagedChecksums, bootstrap.sh).
JobAppliesWholePlan ==
    job # Gone => \E p \in attested : \A l \in Lineage : Carries(job[l], p[l])

\* A plan that can be read describes the sources beside it: those that are still
\* there are the attested ones.
StagedMatchesPlan ==
    tree # Gone /\ tree.plan # Gone =>
        /\ tree.plan \in attested
        /\ \A l \in Lineage : tree.src[l] \in {tree.plan[l], Gone}

\* What keeps both: a finished attestation is recorded, and what is staged is as
\* attested.
StagingInv ==
    /\ StagedMatchesPlan
    /\ JobAppliesWholePlan
    /\ build \notin {"stage", "remove"} => staging = Unread
    /\ build \in {"assert", "stage", "remove"} => plan \in attested
    /\ build \in {"stage", "remove"} => \A l \in Lineage : staging[l] \in {plan[l], Gone}
    /\ build = "remove" => staging = plan
    /\ image.plan # Gone => image.plan \in attested

=============================================================================
