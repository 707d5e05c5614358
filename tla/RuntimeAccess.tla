--------------------------- MODULE RuntimeAccess ---------------------------
(***************************************************************************)
(* Runtime access: what the roles exported to consumers may do.            *)
(* libs/go/controlplane/access.go reconciles grants and memberships,       *)
(* runtime_access.go does so for password logins and                      *)
(* libs/go/bootstrap/run.go for roles of a cloud identity provider.        *)
(*                                                                         *)
(* A reconciliation is one transaction under the database's advisory lock  *)
(* (SchemaControl models the lock), so here it is one step on the catalog: *)
(* all of it, or nothing.  Configurations change between reconciliations,  *)
(* migrations go on creating tables and roles, and somebody with the       *)
(* authority to do so may alter a managed role behind the agent's back.    *)
(***************************************************************************)
EXTENDS Naturals, Sequences, Functions

CONSTANTS
    Owner, ReadOnly, ReadWrite, \* the migration owner and the managed roles
    AppRole,                    \* roles that migrations create
    LoginRole,                  \* roles of declared runtime-logins
    Principal,                  \* logins an identity provider creates
    Table, Schema, SchemaOf,    \* tables and the schema of each
    Configs,                    \* configurations the service may be given
    MaxChanges,                 \* bound on changes other than reconciliations
    NoRole                      \* no session default role

Managed == {ReadOnly, ReadWrite} \cup LoginRole
Role == {Owner} \cup Managed \cup AppRole \cup Principal

\* Nothing is two of these: runtimeAccess and validateBinding refuse an owner
\* that is a managed role, resolveRuntimeLogins a login that is.
ASSUME RolesAssumption ==
    /\ ReadOnly # ReadWrite /\ Owner \notin Managed \cup AppRole \cup Principal
    /\ {ReadOnly, ReadWrite} \cap (LoginRole \cup AppRole \cup Principal) = {}
    /\ LoginRole \cap (AppRole \cup Principal) = {} /\ AppRole \cap Principal = {}
    /\ SchemaOf \in [Table -> Schema] /\ MaxChanges \in Nat

\* No login is declared twice and none with external identities
\* (resolveRuntimeLogins); only a bootstrap plan delegates readers (Run) and
\* only an external identity has principals (validateRuntimeAccess).
ASSUME ConfigsAssumption ==
    \A f \in Configs :
        /\ f.external \in BOOLEAN /\ f.delegateReaders \in BOOLEAN
        /\ f.schemas \subseteq Schema /\ f.readers \subseteq Role
        /\ f.roles \in Seq(Role) /\ f.logins \in Seq([role : LoginRole, roles : Seq(Role)])
        /\ \A i, j \in 1..Len(f.logins) : f.logins[i].role = f.logins[j].role => i = j
        /\ f.readPrincipals \subseteq Principal /\ f.writePrincipals \subseteq Principal
        /\ IF f.external THEN f.logins = <<>> ELSE ~f.delegateReaders

\* Role attributes: superuser, createdb and createrole are "admin",
\* replication and bypassrls are "bypass".
Attribute == {"login", "inherit", "admin", "bypass"}
Privilege == {"select", "write"}

VARIABLES
    cat,        \* the catalog: roles, attributes, memberships, grants
    tables,     \* the tables that exist
    applied,    \* the configuration of the last reconciliation, as a set of 0 or 1
    tampered,   \* a managed role was altered since
    changes     \* changes made by others so far

accessVars == <<cat, tables, applied, tampered, changes>>

\* {x : m is x, or a member of x, directly or not}: pg_has_role(m, x, 'MEMBER').
Has(c, m) ==
    {x \in Role : \A S \in SUBSET Role :
        (m \in S /\ \A e \in c.member : e[2] \in S => e[1] \in S) => x \in S}

\* GRANT g TO m is refused when it would close a cycle.
Grantable(c, g, m) == m \notin Has(c, g)

TablesOf(a) == {t \in tables : SchemaOf[t] \in a.schemas}

-----------------------------------------------------------------------------
(* The reconciler.  An access record says what to reconcile:               *)
(* schemas, the writer role, the roles it is delegated (a sequence),       *)
(* whether readers are delegated and to which, and the principals.         *)

\* ensureLoginRole: create it if absent, LOGIN NOINHERIT, every elevated
\* attribute cleared, default_transaction_read_only set or reset.
EnsureLoginRole(c, r, readOnly) ==
    [c EXCEPT !.roles = @ \cup {r},
              !.attr[r] = {"login"},
              !.readonly = IF readOnly THEN @ \cup {r} ELSE @ \ {r}]

\* ensureGroupRole: create it if absent, clear every attribute it has.
EnsureGroupRole(c, r) ==
    [c EXCEPT !.roles = @ \cup {r}, !.attr[r] = {}]

\* Mutation: default privileges are forgotten.
GrantsWithoutDefaults(c, a) ==
    LET kept(p) == ~(p[1] \in {ReadOnly, a.writer} /\ SchemaOf[p[2]] \in a.schemas)
        given == (IF a.delegateReaders THEN {} ELSE {<<ReadOnly, "select">>})
                 \cup (IF a.roles = <<>> THEN {a.writer} \X Privilege ELSE {})
    IN  [c EXCEPT !.priv = {p \in @ : kept(p)}
                           \cup {<<g[1], t, g[2]>> : g \in given, t \in TablesOf(a)}]

\* The grants of one list of schemas: everything of the two roles is revoked,
\* SELECT is granted to the reader unless readers are delegated, DML to the
\* writer unless it is delegated; default privileges follow the same rules.
ReconcileGrants(c, a) ==
    LET kept(p) == ~(p[1] \in {ReadOnly, a.writer} /\ SchemaOf[p[2]] \in a.schemas)
        defkept(d) == ~(d[1] \in {ReadOnly, a.writer} /\ d[2] \in a.schemas)
        given == (IF a.delegateReaders THEN {} ELSE {<<ReadOnly, "select">>})
                 \cup (IF a.roles = <<>> THEN {a.writer} \X Privilege ELSE {})
    IN  [c EXCEPT
          !.priv = {p \in @ : kept(p)}
                   \cup {<<g[1], t, g[2]>> : g \in given, t \in TablesOf(a)},
          !.defpriv = {d \in @ : defkept(d)}
                      \cup {<<g[1], s, g[2]>> : g \in given, s \in a.schemas}]

\* Mutation: only the role itself is examined.
ReaderItself(c, a, r) ==
    /\ r \in c.roles /\ c.attr[r] = {}
    /\ r \notin {Owner, ReadOnly, a.writer} \cup Range(a.roles)
    /\ ~ \E t \in TablesOf(a) : <<r, t, "write">> \in c.priv

\* validateReaderRoles: the role exists, cannot log in, and neither it nor any
\* role it is a member of is privileged, owns the database, is a managed or a
\* delegated writer role, or may write in the schemas.  The checks of CREATE on
\* the schemas and of sequences are left out: the catalog has tables only.
ReaderAllowed(c, a, r) ==
    /\ r \in c.roles /\ "login" \notin c.attr[r]
    /\ \A x \in Has(c, r) :
        /\ c.attr[x] \cap {"admin", "bypass"} = {}
        /\ x \notin {Owner, ReadOnly, a.writer} \cup Range(a.roles)
        /\ ~ \E t \in TablesOf(a) : <<x, t, "write">> \in c.priv

\* Mutation: the configured roles are granted and none is revoked.
MembershipsAdded(c, m, gs) ==
    [c EXCEPT !.member = @ \cup {<<g, m>> : g \in gs}]

\* reconcileRuntimeRoleMemberships: every membership of the role is revoked,
\* then each configured role is checked and granted.  One identity reconciles:
\* from PostgreSQL 16 on REVOKE reaches the grants of its own grantor only.
MembershipAllowed(c, m, g) ==
    /\ g \in c.roles
    /\ c.attr[g] \cap {"login", "admin"} = {}
    /\ Grantable(c, g, m)
ReconcileMemberships(c, m, gs) ==
    [c EXCEPT !.member = {e \in @ : e[2] # m} \cup {<<g, m>> : g \in gs}]

\* reconcileExternalPrincipals: the group's members become exactly the
\* configured principals, which must exist.
PrincipalAllowed(c, g, p) ==
    <<g, p>> \in c.member \/ (p \in c.roles /\ Grantable(c, g, p))
ReconcilePrincipals(c, g, ps) ==
    [c EXCEPT !.member = {e \in @ : e[1] # g} \cup {<<g, p>> : p \in ps}]

\* ReconcileRuntimeAccess: the catalog after it, in a set that is empty when it
\* returns an error and the transaction rolls back.
ReconcileRuntimeAccess(c, a) ==
    LET c1 == IF a.external
              THEN EnsureGroupRole(EnsureGroupRole(c, ReadOnly), a.writer) ELSE c
        c2 == ReconcileGrants(c1, a)
        c3 == IF a.delegateReaders
              THEN ReconcileMemberships(c2, ReadOnly, a.readers) ELSE c2
        c4 == ReconcileMemberships(c3, a.writer, Range(a.roles))
        c5 == ReconcilePrincipals(c4, ReadOnly, a.readPrincipals)
        c6 == ReconcilePrincipals(c5, a.writer, a.writePrincipals)
        freed(d, m) == [d EXCEPT !.member = {e \in @ : e[2] # m}]
        ok == /\ a.delegateReaders => \A r \in a.readers :
                    ReaderAllowed(c2, a, r)
                    /\ MembershipAllowed(freed(c2, ReadOnly), ReadOnly, r)
              /\ \A g \in Range(a.roles) :
                    MembershipAllowed(freed(c3, a.writer), a.writer, g)
              /\ a.external =>
                    /\ \A p \in a.readPrincipals : PrincipalAllowed(c4, ReadOnly, p)
                    /\ \A p \in a.writePrincipals : PrincipalAllowed(c5, a.writer, p)
    IN  IF ~ok THEN {} ELSE {IF a.external THEN c6 ELSE c4}

\* ensureDefaultRole: the first delegated role, or none.
DefaultRole(roles) == IF roles = <<>> THEN NoRole ELSE roles[1]
EnsureDefaultRole(c, m, roles) == [c EXCEPT !.setrole[m] = DefaultRole(roles)]

-----------------------------------------------------------------------------
(* Configurations.  A password configuration has the managed writer and    *)
(* the declared logins, each with its delegated roles; an external one has *)
(* the managed writer alone.                                               *)

Writers(f) == <<[role |-> ReadWrite, roles |-> f.roles]>> \o f.logins

Access(f, l) ==
    [writer |-> l.role, roles |-> l.roles, schemas |-> f.schemas,
     external |-> f.external, delegateReaders |-> f.delegateReaders,
     readers |-> f.readers, readPrincipals |-> f.readPrincipals,
     writePrincipals |-> f.writePrincipals]

\* ensureRuntimeAccessLocked: the two managed logins, their grants, the default
\* role, then each declared login in turn, in one transaction.
EnsureLogin(c, f, l) ==
    {EnsureDefaultRole(d, l.role, l.roles) :
        d \in ReconcileRuntimeAccess(EnsureLoginRole(c, l.role, FALSE), Access(f, l))}
EnsureNext(cs, f, n) == UNION {EnsureLogin(d, f, Writers(f)[n]) : d \in cs}
EnsureLogins(c, f) ==
    LET ensured[n \in 0..Len(Writers(f))] ==
            IF n = 0 THEN {EnsureLoginRole(c, ReadOnly, TRUE)}
            ELSE EnsureNext(ensured[n - 1], f, n)
    IN  ensured
EnsureRuntimeAccess(c, f) == EnsureLogins(c, f)[Len(Writers(f))]

\* preflight: a managed group is not a login or elevated, a principal logs in.
Preflight(c, f) ==
    /\ \A g \in {ReadOnly, ReadWrite} \cap c.roles :
          c.attr[g] \cap {"login", "admin", "bypass"} = {}
    /\ \A p \in f.readPrincipals \cup f.writePrincipals :
          p \in c.roles /\ "login" \in c.attr[p]

\* Run's last transaction: preflight, then the reconciler in external mode.
ManagedAccess(c, f) ==
    IF Preflight(c, f) THEN ReconcileRuntimeAccess(c, Access(f, Writers(f)[1])) ELSE {}

-----------------------------------------------------------------------------
\* A new database; the provider may have created its logins already.
AccessInit ==
    /\ \E P \in {{}, Principal} :
          cat = [roles |-> {Owner} \cup P,
                 attr |-> [r \in Role |-> IF r \in P THEN {"login"} ELSE {}],
                 member |-> {}, priv |-> {}, defpriv |-> {}, readonly |-> {},
                 setrole |-> [r \in Role |-> NoRole]]
    /\ tables = {}
    /\ applied = {}
    /\ tampered = FALSE
    /\ changes = 0

\* A reconciliation under some configuration that succeeds; one that fails
\* rolls back and changes nothing.
Reconcile(f) ==
    \E d \in (IF f.external THEN ManagedAccess(cat, f) ELSE EnsureRuntimeAccess(cat, f)) :
        /\ cat' = d
        /\ applied' = {f}
        /\ tampered' = FALSE
        /\ UNCHANGED <<tables, changes>>

Change(d, alters) ==
    /\ changes < MaxChanges
    /\ changes' = changes + 1
    /\ cat' = d
    /\ tampered' = (tampered \/ alters)
    /\ UNCHANGED applied

\* A migration creates a table; PostgreSQL applies the owner's default
\* privileges for its schema.
CreateTable(t) ==
    /\ t \notin tables
    /\ tables' = tables \cup {t}
    /\ Change([cat EXCEPT !.priv = @ \cup
                 {<<d[1], t, d[3]>> : d \in {x \in cat.defpriv : x[2] = SchemaOf[t]}}],
              FALSE)

\* A migration creates an application role, or a provider a login.
CreateRole(r, A) ==
    /\ r \notin cat.roles
    /\ Change([cat EXCEPT !.roles = @ \cup {r}, !.attr[r] = A], FALSE)
    /\ UNCHANGED tables

\* A migration drops a role that holds no privilege; its memberships go too.
DropRole(r) ==
    /\ r \in cat.roles
    /\ \A p \in cat.priv : p[1] # r
    /\ Change([cat EXCEPT !.roles = @ \ {r}, !.attr[r] = {},
                          !.member = {e \in @ : r \notin {e[1], e[2]}}], FALSE)
    /\ UNCHANGED tables

\* A migration gives an application role a privilege or a membership.
GrantTable(r, t, p) ==
    /\ r \in cat.roles /\ t \in tables
    /\ Change([cat EXCEPT !.priv = @ \cup {<<r, t, p>>}], FALSE)
    /\ UNCHANGED tables
GrantRole(g, m) ==
    /\ g \in cat.roles /\ m \in cat.roles /\ Grantable(cat, g, m)
    /\ Change([cat EXCEPT !.member = @ \cup {<<g, m>>}], FALSE)
    /\ UNCHANGED tables

\* Somebody else alters a managed role: gives it a role, a privilege or an
\* attribute.
Tamper(m) ==
    /\ m \in cat.roles
    /\ \/ \E g \in AppRole \cap cat.roles : Grantable(cat, g, m) /\
             Change([cat EXCEPT !.member = @ \cup {<<g, m>>}], TRUE)
       \/ \E t \in tables : Change([cat EXCEPT !.priv = @ \cup {<<m, t, "write">>}], TRUE)
       \/ Change([cat EXCEPT !.attr[m] = @ \cup {"bypass", "inherit"}], TRUE)
    /\ UNCHANGED tables

AccessNext ==
    \/ \E f \in Configs : Reconcile(f)
    \/ \E t \in Table : CreateTable(t)
    \/ \E r \in AppRole : \E A \in {{}, {"login"}, {"admin"}, {"bypass"}} : CreateRole(r, A)
    \/ \E r \in Principal : CreateRole(r, {"login"})
    \/ \E r \in AppRole : DropRole(r)
    \/ \E r \in AppRole, t \in Table, p \in Privilege : GrantTable(r, t, p)
    \/ \E g \in AppRole \cup {Owner}, m \in AppRole : GrantRole(g, m)
    \/ \E m \in Managed : Tamper(m)

AccessSpec == AccessInit /\ [][AccessNext]_accessVars

-----------------------------------------------------------------------------
\* The configuration in force: reconciled, and no managed role altered since.
InForce == IF tampered THEN {} ELSE applied

Direct(r, f) == {p \in cat.priv : p[1] = r /\ SchemaOf[p[2]] \in f.schemas}
Unprivileged(r) == cat.attr[r] \cap {"inherit", "admin", "bypass"} = {}

\* A writer delegated to application roles has no privilege of its own in the
\* exposed schemas, not on tables created later either, is a member of no other
\* role and its sessions start as the first; one that is not delegated may
\* write every table, later ones included, and is a member of nothing
\* (access.go ReconcileRuntimeAccess: "exclusive write authority").  Its grants
\* are those of one reconciling identity.
WriterAuthority ==
    \A f \in InForce : \A l \in Range(Writers(f)) :
        LET delegated == Range(l.roles)
            memberOf == {g \in Role : <<g, l.role>> \in cat.member}
        IN  /\ Unprivileged(l.role)
            /\ memberOf \subseteq delegated
            /\ Direct(l.role, f) = IF delegated = {}
                                   THEN {l.role} \X TablesOf(f) \X Privilege ELSE {}
            /\ ~f.external => cat.setrole[l.role] = DefaultRole(l.roles)

\* The privileges the reader has of its own are to select from every table of the
\* exposed schemas, later ones included, whatever was granted to it before; when
\* readers are delegated it has none of its own and is a member of the configured
\* readers only.  Without delegation its memberships are not reconciled, and what
\* it reaches through them is outside this property (access.go
\* ReconcileRuntimeAccess: "leaves memberships alone").
ReaderAuthority ==
    \A f \in InForce :
        /\ Unprivileged(ReadOnly)
        /\ Direct(ReadOnly, f) = IF f.delegateReaders THEN {}
                                 ELSE {ReadOnly} \X TablesOf(f) \X {"select"}
        /\ f.delegateReaders =>
              {g \in Role : <<g, ReadOnly>> \in cat.member} \subseteq f.readers
        /\ ~f.external => ReadOnly \in cat.readonly

\* Right after a reconciliation that delegates readers, no role the reader can
\* reach, through any chain of memberships, is privileged, owns the database,
\* or may write in the exposed schemas (access.go validateReaderRoles).  Its
\* memberships were granted by the identity that reconciles.
ReadersOnlyRead ==
    [][\A f \in Configs : (Reconcile(f) /\ f.delegateReaders) =>
          \A x \in Has(cat', ReadOnly) :
              /\ x # Owner
              /\ cat'.attr[x] \cap {"admin", "bypass"} = {}
              /\ \A p \in cat'.priv :
                    p[1] = x /\ p[3] = "write" => SchemaOf[p[2]] \notin f.schemas]_accessVars

-----------------------------------------------------------------------------
(* The inductive invariant behind the safety properties *)

Catalog ==
    [roles : SUBSET Role, attr : [Role -> SUBSET Attribute], member : SUBSET (Role \X Role),
     priv : SUBSET (Role \X Table \X Privilege), defpriv : SUBSET (Role \X Schema \X Privilege),
     readonly : SUBSET Role, setrole : [Role -> Role \cup {NoRole}]]

AccessTypeOK ==
    /\ cat \in Catalog /\ tables \subseteq Table
    /\ applied \in {{}} \cup {{f} : f \in Configs}
    /\ tampered \in BOOLEAN /\ changes \in 0..MaxChanges

\* Privileges are on tables that exist; the logins of the agent and of a
\* provider can log in; an application role is a member of such roles or the
\* owner only, and the owner of none.
CatalogInv(c) ==
    /\ \A p \in c.priv : p[2] \in tables
    /\ \A r \in c.roles \cap (LoginRole \cup Principal) : "login" \in c.attr[r]
    /\ \A e \in c.member :
          e[2] # Owner /\ (e[2] \in AppRole => e[1] \in AppRole \cup {Owner})

\* What a role holds in the schemas of a configuration, on tables and by default.
Holds(c, r, f, ps) ==
    /\ {p \in c.priv : p[1] = r /\ SchemaOf[p[2]] \in f.schemas} = {r} \X TablesOf(f) \X ps
    /\ {d \in c.defpriv : d[1] = r /\ d[2] \in f.schemas} = {r} \X f.schemas \X ps

\* A writer and the reader as the configuration has them, in any catalog.
WriterSettled(c, f, l) ==
    /\ c.attr[l.role] \subseteq {"login"}
    /\ {g \in Role : <<g, l.role>> \in c.member} \subseteq Range(l.roles)
    /\ Holds(c, l.role, f, IF l.roles = <<>> THEN Privilege ELSE {})
    /\ ~f.external => c.setrole[l.role] = DefaultRole(l.roles)

ReaderSettled(c, f) ==
    /\ c.attr[ReadOnly] \subseteq {"login"}
    /\ Holds(c, ReadOnly, f, IF f.delegateReaders THEN {} ELSE {"select"})
    /\ f.delegateReaders => {g \in Role : <<g, ReadOnly>> \in c.member} \subseteq f.readers
    /\ ~f.external => ReadOnly \in c.readonly

AuthorityInv ==
    \A f \in InForce : ReaderSettled(cat, f) /\ \A l \in Range(Writers(f)) : WriterSettled(cat, f, l)

AccessInv == CatalogInv(cat) /\ AuthorityInv

=============================================================================
