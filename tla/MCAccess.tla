----------------------------- MODULE MCAccess ------------------------------
(***************************************************************************)
(* An instance of RuntimeAccess, Sessions and ManagedBootstrap for TLC.    *)
(* The three meet only in what they promise each other (the grants that    *)
(* sessions run under, the access a bootstrap commits), so a behaviour is  *)
(* one of: reconciliations of the grants, requests of a tenant and of      *)
(* maintenance, requests of two tenants on a pool of one connection while  *)
(* a denied role is granted and revoked, an image built while the package  *)
(* is rebuilt, a managed run while it is rebuilt, and managed runs that    *)
(* contend for one database.                                               *)
(***************************************************************************)
EXTENDS RuntimeAccess, Sessions, ManagedBootstrap

CONSTANTS ap, rd, lg, pr, pw, t1, t3, s1, s2, q1, q2, q3, x, y, r1

VARIABLE part

\* Configurations: two schemas; roles of migrations and a declared login;
\* external identities with delegated readers; external identities with roles.
MCSchemaOf == [t \in Table |-> IF t = t3 THEN s2 ELSE s1]
Base == [external |-> FALSE, schemas |-> {s1}, roles |-> <<>>, logins |-> <<>>,
         delegateReaders |-> FALSE, readers |-> {}, readPrincipals |-> {},
         writePrincipals |-> {}]
External == [Base EXCEPT !.external = TRUE, !.readPrincipals = {pr},
                         !.writePrincipals = {pw}]
MCConfigs ==
    {[Base EXCEPT !.schemas = {s1, s2}],
     [Base EXCEPT !.roles = <<ap>>, !.logins = <<[role |-> lg, roles |-> <<rd, ap>>]>>],
     [External EXCEPT !.delegateReaders = TRUE, !.readers = {rd}],
     [External EXCEPT !.roles = <<ap>>]}

\* A writer of tenant x and one of tenant y, which share a pool, and
\* maintenance, which has no tenant.
MCPoolOf == [q \in Request |-> IF q = q2 THEN "maintenance" ELSE "read-write"]
MCScopeOf == [q \in Request |-> IF q = q2 THEN Empty ELSE IF q = q1 THEN x ELSE y]

\* The first source gains and loses a migration, the second has one rewritten.
Edits == source[1].edition = 1 /\ source[2].migrations = 1

\* Pools of at most one connection each.
OneConnection ==
    \A c, d \in Conn : conn[c] # Unset /\ conn[d] # Unset /\ conn[c].pool = conn[d].pool => c = d

Part == {"grants", "capabilities", "tenants", "image", "rebuild", "contend"}

PartInit ==
    /\ part \in Part
    /\ AccessInit /\ SessInit /\ BootstrapInit
    /\ part # "grants" => cat.roles = {Owner}

bootVars == <<stagingVars, runVars>>

PartNext ==
    /\ UNCHANGED part
    /\ \/ part = "grants" /\ AccessNext /\ UNCHANGED <<sessVars, bootVars>>
       \/ /\ SessNext /\ UNCHANGED <<accessVars, bootVars>>
          /\ \/ part = "capabilities" /\ req'[q3] = "new" /\ grants' = 0
             \/ part = "tenants" /\ "maintenance" \notin pools' /\ OneConnection'
       \/ /\ UNCHANGED <<accessVars, sessVars>>
          /\ \/ part = "image" /\ StagingNext /\ UNCHANGED runVars
             \/ /\ part = "rebuild" /\ BuildNext /\ UNCHANGED runVars
                /\ UNCHANGED source \/ (build = "none" /\ builds = 1)
             \/ part = "rebuild" /\ RunStep(r1) /\ UNCHANGED stagingVars
             \/ /\ part = "contend" /\ tree = Gone /\ BuildNext /\ UNCHANGED runVars
                /\ builds' <= 1 /\ source'[2].edition = 1
             \/ part = "contend" /\ tree # Gone /\ RunNext /\ UNCHANGED stagingVars
          /\ Edits'

PartSpec ==
    PartInit /\ [][PartNext]_<<part, accessVars, sessVars, bootVars>> /\ SessFairness

=============================================================================
