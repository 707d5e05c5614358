----------------------------- MODULE Provision -----------------------------
(***************************************************************************)
(* provisionDatabase (nixpg.go): an agent gives its service a database on  *)
(* the run's shared server.  The statements run one by one under the run's *)
(* lock, which keeps other agents out but not the sessions of services     *)
(* that are already provisioned: their migration owners may create roles   *)
(* and databases of any name.  An agent may fail or be killed between any  *)
(* two statements, and another attempt may follow.                         *)
(***************************************************************************)
CONSTANTS
    Svc,          \* services of the run
    DbName,       \* database names
    DatabaseOf,   \* the configured database-name of each service
    Nobody        \* no service, no owner, no claim

ASSUME SvcAssumption == Nobody \notin Svc /\ Nobody \notin DbName
ASSUME DatabaseOfAssumption == DatabaseOf \in [Svc -> DbName]

VARIABLES
    at,        \* where the provisioning of each service stands
    runLock,   \* who holds the run's lock
    create,    \* the lookup of each service found no database
    unclaimed, \* the lookup of each service found no claim
    absent,    \* the lookup of each service found no owner role
    refused,   \* the service was refused by name
    db,        \* the databases: owner, claim, open to PUBLIC
    role,      \* the owner roles, named after the databases
    takers     \* history: whose agents created or claimed something under each
               \* name; Nobody stands for the migrations of any service

provVars == <<at, runLock, create, unclaimed, absent, refused, db, role, takers>>

\* nativeOwnerRole is a function of the database's name; an owner role is
\* written here as that name.
Owner(s) == DatabaseOf[s]

Database == [owner : DbName, claim : Svc \cup {Nobody}, public : BOOLEAN]
NoDatabase == [owner |-> Nobody, claim |-> Nobody, public |-> TRUE]

\* A role is absent, the agent's own, or one that carries a membership.
RoleState == {"absent", "own", "granted"}

Steps == {"lookup", "owner", "createRole", "alterRole", "createDatabase", "comment",
          "alterOwner", "revoke"}

ProvInit ==
    /\ at = [s \in Svc |-> "idle"] /\ runLock = Nobody
    /\ create = [s \in Svc |-> FALSE] /\ unclaimed = [s \in Svc |-> FALSE]
    /\ absent = [s \in Svc |-> FALSE] /\ refused = [s \in Svc |-> FALSE]
    /\ db = [d \in DbName |-> NoDatabase]
    /\ role = [d \in DbName |-> "absent"]
    /\ takers = [d \in DbName |-> {}]

Exists(d) == db[d] # NoDatabase

Took(d, who) == takers' = [takers EXCEPT ![d] = @ \cup {who}]

Go(s, where) == at' = [at EXCEPT ![s] = where]

BeginProvision(s) ==
    /\ at[s] \in {"idle", "done"} /\ runLock = Nobody
    /\ runLock' = s /\ Go(s, "lookup")
    /\ refused' = [refused EXCEPT ![s] = FALSE]
    /\ UNCHANGED <<create, unclaimed, absent, db, role, takers>>

\* An error return or the death of the agent: the lock goes with it.
Abort(s) ==
    /\ at[s] \in Steps
    /\ Go(s, "idle") /\ runLock' = Nobody
    /\ UNCHANGED <<create, unclaimed, absent, refused, db, role, takers>>

Refuse(s) ==
    /\ refused' = [refused EXCEPT ![s] = TRUE]
    /\ Go(s, "idle") /\ runLock' = Nobody
    /\ UNCHANGED <<create, unclaimed, absent, db, role, takers>>

\* Mutation: an existing database without a claim is refused.
Claimed(s) ==
    LET d == db[DatabaseOf[s]] IN
    Exists(DatabaseOf[s]) => d.owner = Owner(s) /\ d.claim = s

\* An existing database is taken over only when this service's owner owns it
\* and no other service has claimed it.
Mine(s) ==
    LET d == db[DatabaseOf[s]] IN
    Exists(DatabaseOf[s]) => d.owner = Owner(s) /\ d.claim \in {Nobody, s}

LookUpDatabase(s) ==
    /\ at[s] = "lookup"
    /\ \/ /\ Mine(s)
          /\ create' = [create EXCEPT ![s] = ~Exists(DatabaseOf[s])]
          /\ unclaimed' = [unclaimed EXCEPT ![s] = db[DatabaseOf[s]].claim = Nobody]
          /\ Go(s, "owner")
          /\ UNCHANGED <<runLock, absent, refused, db, role, takers>>
       \/ ~Mine(s) /\ Refuse(s)

\* An owner role that carries a membership was not created by an agent.
OwnRole(s) == role[Owner(s)] # "granted"

LookUpOwner(s) ==
    /\ at[s] = "owner"
    /\ \/ /\ OwnRole(s)
          /\ absent' = [absent EXCEPT ![s] = role[Owner(s)] = "absent"]
          /\ Go(s, "createRole")
          /\ UNCHANGED <<runLock, create, unclaimed, refused, db, role, takers>>
       \/ ~OwnRole(s) /\ Refuse(s)

\* CREATE ROLE fails when the name was taken since the lookup.
CreateRole(s) ==
    /\ at[s] = "createRole"
    /\ absent[s] => role[Owner(s)] = "absent"
    /\ role' = IF absent[s] THEN [role EXCEPT ![Owner(s)] = "own"] ELSE role
    /\ IF absent[s] THEN Took(Owner(s), s) ELSE UNCHANGED takers
    /\ Go(s, "alterRole")
    /\ UNCHANGED <<runLock, create, unclaimed, absent, refused, db>>

\* ALTER ROLE changes attributes and the password only.
AlterRole(s) ==
    /\ at[s] = "alterRole" /\ role[Owner(s)] # "absent"
    /\ Go(s, "createDatabase")
    /\ UNCHANGED <<runLock, create, unclaimed, absent, refused, db, role, takers>>

\* CREATE DATABASE fails when the name was taken since the lookup.  A new
\* database is open to PUBLIC and has no claim.
CreateDatabase(s) ==
    /\ at[s] = "createDatabase"
    /\ create[s] => ~Exists(DatabaseOf[s])
    /\ db' = IF create[s]
             THEN [db EXCEPT ![DatabaseOf[s]] =
                    [owner |-> Owner(s), claim |-> Nobody, public |-> TRUE]]
             ELSE db
    /\ IF create[s] THEN Took(DatabaseOf[s], s) ELSE UNCHANGED takers
    /\ Go(s, "comment")
    /\ UNCHANGED <<runLock, create, unclaimed, absent, refused, role>>

\* Mutation: the claim is only written on a database this attempt created.
CommentCreated(s) ==
    /\ at[s] = "comment"
    /\ db' = IF create[s] THEN [db EXCEPT ![DatabaseOf[s]].claim = s] ELSE db
    /\ IF create[s] THEN Took(DatabaseOf[s], s) ELSE UNCHANGED takers
    /\ Go(s, "alterOwner")
    /\ UNCHANGED <<runLock, create, unclaimed, absent, refused, role>>

Comment(s) ==
    /\ at[s] = "comment"
    /\ db' = IF unclaimed[s] THEN [db EXCEPT ![DatabaseOf[s]].claim = s] ELSE db
    /\ IF unclaimed[s] THEN Took(DatabaseOf[s], s) ELSE UNCHANGED takers
    /\ Go(s, "alterOwner")
    /\ UNCHANGED <<runLock, create, unclaimed, absent, refused, role>>

AlterOwner(s) ==
    /\ at[s] = "alterOwner"
    /\ db' = [db EXCEPT ![DatabaseOf[s]].owner = Owner(s)]
    /\ Go(s, "revoke")
    /\ UNCHANGED <<runLock, create, unclaimed, absent, refused, role, takers>>

RevokePublic(s) ==
    /\ at[s] = "revoke"
    /\ db' = [db EXCEPT ![DatabaseOf[s]].public = FALSE]
    /\ Go(s, "done") /\ runLock' = Nobody
    /\ UNCHANGED <<create, unclaimed, absent, refused, role, takers>>

-----------------------------------------------------------------------------
(* What the migrations of a provisioned service may do on the server.      *)

\* A role it creates is granted back to it.
MigrationCreatesRole(s, d) ==
    /\ at[s] = "done" /\ role[d] = "absent"
    /\ role' = [role EXCEPT ![d] = "granted"]
    /\ Took(d, Nobody)
    /\ UNCHANGED <<at, runLock, create, unclaimed, absent, refused, db>>

\* It owns a database it creates, whose comment may be anything.
MigrationCreatesDatabase(s, d, c) ==
    /\ at[s] = "done" /\ ~Exists(d)
    /\ db' = [db EXCEPT ![d] = [owner |-> Owner(s), claim |-> c, public |-> TRUE]]
    /\ Took(d, Nobody)
    /\ UNCHANGED <<at, runLock, create, unclaimed, absent, refused, role>>

ProvStep(s) ==
    \/ LookUpDatabase(s) \/ LookUpOwner(s) \/ CreateRole(s) \/ AlterRole(s)
    \/ CreateDatabase(s) \/ Comment(s) \/ AlterOwner(s) \/ RevokePublic(s)

ProvNext ==
    \E s \in Svc :
        \/ BeginProvision(s) \/ ProvStep(s) \/ Abort(s)
        \/ \E d \in DbName : MigrationCreatesRole(s, d)
        \/ \E d \in DbName, c \in Svc \cup {Nobody} : MigrationCreatesDatabase(s, d, c)

ProvSpec == ProvInit /\ [][ProvNext]_provVars

-----------------------------------------------------------------------------
(* Properties *)

ProvTypeOK ==
    /\ at \in [Svc -> Steps \cup {"idle", "done"}]
    /\ runLock \in Svc \cup {Nobody}
    /\ create \in [Svc -> BOOLEAN] /\ unclaimed \in [Svc -> BOOLEAN]
    /\ absent \in [Svc -> BOOLEAN] /\ refused \in [Svc -> BOOLEAN]
    /\ db \in [DbName -> Database \cup {NoDatabase}]
    /\ role \in [DbName -> RoleState]
    /\ takers \in [DbName -> SUBSET (Svc \cup {Nobody})]

\* A database that was handed to a service is that service's: it carries its
\* claim, its own owner owns it, nobody else can assume that owner, and PUBLIC
\* cannot connect; whatever was killed or retried, and whatever the migrations
\* of other services created under the same names.
HandedOutIsOwn ==
    \A s \in Svc : at[s] = "done" =>
        LET d == db[DatabaseOf[s]] IN
        /\ d.owner = Owner(s) /\ d.claim = s /\ ~d.public
        /\ role[Owner(s)] = "own"

\* A service is only ever refused because somebody else took its name: the agent
\* of another service created or claimed something under it, or a migration did.
\* An attempt of its own that failed or was killed at any statement, and nobody
\* else's, leaves nothing that its retry refuses.
RefusedOnlyOnCollision ==
    \A s \in Svc : refused[s] => takers[DatabaseOf[s]] \ {s} # {}

-----------------------------------------------------------------------------
(* The inductive invariant behind the safety properties *)

\* At most one service works, and it has the lock.
ProvLockInv == \A s \in Svc : at[s] \in Steps <=> runLock = s

\* What s found still describes what only an agent under the lock may change.
FoundInv(s) ==
    LET d == db[DatabaseOf[s]] IN
    /\ at[s] \in {"owner", "createRole", "alterRole", "createDatabase"} =>
        IF create[s] THEN unclaimed[s]
        ELSE d # NoDatabase /\ d.owner = Owner(s) /\ d.claim = IF unclaimed[s] THEN Nobody ELSE s
    /\ at[s] = "comment" =>
        d # NoDatabase /\ d.owner = Owner(s) /\ d.claim = IF unclaimed[s] THEN Nobody ELSE s

\* What is given to s stays as it was.
GivenInv(s) ==
    LET d == db[DatabaseOf[s]] IN
    /\ at[s] \in {"alterOwner", "revoke", "done"} => d.claim = s /\ d.owner = Owner(s)
    /\ at[s] = "done" => ~d.public

\* Once the owner role of s was found or made, nobody else has it.
OwnerInv(s) ==
    /\ at[s] = "createRole" /\ ~absent[s] => role[Owner(s)] = "own"
    /\ at[s] \in {"alterRole", "createDatabase", "comment", "alterOwner", "revoke", "done"} =>
        role[Owner(s)] = "own"

\* What took a name stays known.
RefusedInv(s) == refused[s] => takers[DatabaseOf[s]] \ {s} # {}

\* Whatever is under a name is there by somebody's doing: an agent's database
\* belongs to the owner of its name and its claim is that agent's service; only
\* migrations leave anything else.
TakenInv ==
    \A d \in DbName :
        /\ role[d] = "granted" => Nobody \in takers[d]
        /\ Exists(d) /\ db[d].owner # d => Nobody \in takers[d]
        /\ Exists(d) /\ db[d].claim # Nobody => {db[d].claim, Nobody} \cap takers[d] # {}

ProvInv ==
    /\ ProvLockInv /\ TakenInv
    /\ \A s \in Svc : FoundInv(s) /\ GivenInv(s) /\ OwnerInv(s) /\ RefusedInv(s)

=============================================================================
