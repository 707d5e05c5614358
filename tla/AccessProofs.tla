--------------------------- MODULE AccessProofs ----------------------------
(***************************************************************************)
(* Proofs about RuntimeAccess: what the exported roles may do, for any     *)
(* configurations, any number of declared logins and any history of        *)
(* migrations.                                                             *)
(***************************************************************************)
EXTENDS RuntimeAccess, WellFoundedInduction, SequenceTheorems, TLAPS

-----------------------------------------------------------------------------
(* The loop over the logins: induction over their number.                  *)

\* Every set of numbers that is not empty has a least one.
LEMMA LeastNatural ==
    ASSUME NEW T, T \subseteq Nat, T # {}
    PROVE  \E m \in T : \A k \in T : m <= k
<1> DEFINE R == OpToRel(<, Nat)
<1>1. IsWellFoundedOn(R, Nat)
    BY NatLessThanWellFounded
<1>2. \A x, y \in Nat : <<x, y>> \in R <=> x < y
    BY DEF OpToRel
<1> HIDE DEF R
<1>3. PICK m \in T : \A k \in T : ~(<<k, m>> \in R)
    BY <1>1, WFMin
<1>4. ASSUME NEW k \in T PROVE m <= k
    <2>1. k \in Nat /\ m \in Nat /\ ~(k < m)
        BY <1>2, <1>3
    <2> QED BY <2>1
<1> QED BY <1>4

\* The loop's states, up to the login M.
Loop(g, c, f, M) ==
    g = [n \in 0..M |-> IF n = 0 THEN {EnsureLoginRole(c, ReadOnly, TRUE)}
                        ELSE EnsureNext(g[n - 1], f, n)]

\* The loop has states, however many logins there are.
LEMMA LoopExists ==
    ASSUME NEW c, NEW f, NEW N \in Nat
    PROVE  \E g : Loop(g, c, f, N)
<1> DEFINE T == {M \in Nat : ~ \E g : Loop(g, c, f, M)}
<1> SUFFICES ASSUME T # {} PROVE FALSE
    OBVIOUS
<1>1. PICK M \in T : \A k \in T : M <= k
    <2>1. T \subseteq Nat
        OBVIOUS
    <2> HIDE DEF T
    <2> QED BY <2>1, LeastNatural
<1>2. M # 0
    <2>1. Loop([n \in 0..0 |-> {EnsureLoginRole(c, ReadOnly, TRUE)}], c, f, 0)
        BY DEF Loop
    <2> QED BY <2>1
<1>3. M - 1 \in Nat /\ ~(M <= M - 1)
    BY <1>2
<1>4. PICK g : Loop(g, c, f, M - 1)
    BY <1>1, <1>3
<1> DEFINE h == [n \in 0..M |-> IF n = M THEN EnsureNext(g[M - 1], f, M) ELSE g[n]]
<1>5. Loop(h, c, f, M)
    <2>1. ASSUME NEW n \in 0..M
          PROVE  h[n] = IF n = 0 THEN {EnsureLoginRole(c, ReadOnly, TRUE)}
                        ELSE EnsureNext(h[n - 1], f, n)
        <3>1. CASE n = M
            BY <1>2, <1>3, <3>1
        <3>2. CASE n # M
            <4>1. n \in 0..(M - 1) /\ h[n] = g[n] /\ (n # 0 => n - 1 \in 0..M /\ n - 1 # M)
                BY <1>3, <3>2
            <4>2. g[n] = IF n = 0 THEN {EnsureLoginRole(c, ReadOnly, TRUE)}
                         ELSE EnsureNext(g[n - 1], f, n)
                BY <1>4, <4>1 DEF Loop
            <4> QED BY <4>1, <4>2
        <3> QED BY <3>1, <3>2
    <2> QED BY <2>1 DEF Loop
<1> QED BY <1>1, <1>5

\* EnsureLogins is the loop.
LEMMA LoopOfLogins ==
    ASSUME NEW c, NEW f, Len(Writers(f)) \in Nat
    PROVE  Loop(EnsureLogins(c, f), c, f, Len(Writers(f)))
<1>1. EnsureLogins(c, f) = CHOOSE g : Loop(g, c, f, Len(Writers(f)))
    BY Zenon DEF EnsureLogins, Loop
<1> QED
    BY <1>1, LoopExists

-----------------------------------------------------------------------------
(* Configurations.                                                         *)

USE RolesAssumption

WriterRole == {ReadWrite} \cup LoginRole
Writer == [role : WriterRole, roles : Seq(Role)]

\* The managed writer comes first, no role comes twice and the reader is none.
LEMMA WritersOf ==
    ASSUME NEW f \in Configs
    PROVE  /\ Writers(f) \in Seq(Writer) /\ Len(Writers(f)) \in Nat \ {0}
           /\ Writers(f)[1] = [role |-> ReadWrite, roles |-> f.roles]
           /\ \A i, j \in 1..Len(Writers(f)) : Writers(f)[i].role = Writers(f)[j].role => i = j
           /\ Range(Writers(f)) = {Writers(f)[n] : n \in 1..Len(Writers(f))}
           /\ f.external => Len(Writers(f)) = 1
<1> DEFINE w == [role |-> ReadWrite, roles |-> f.roles]
           L == f.logins
<1>0. L \in Seq([role : LoginRole, roles : Seq(Role)]) /\ f.roles \in Seq(Role)
    BY ConfigsAssumption
<1>1. w \in Writer /\ L \in Seq(Writer)
    <2> DEFINE Login == [role : LoginRole, roles : Seq(Role)]
    <2>1. \A x \in Login : x \in Writer
        BY DEF Writer, WriterRole
    <2>2. w \in Writer
        BY <1>0 DEF Writer, WriterRole
    <2>3. L \in Seq(Login)
        BY <1>0
    <2> HIDE DEF L, Login
    <2>4. L \in Seq(Writer)
        BY <2>1, <2>3, SeqMonotonic
    <2> QED BY <2>2, <2>4
<1>2. Writers(f) = <<w>> \o L
    BY DEF Writers
<1> HIDE DEF w, L
<1>3. /\ Writers(f) \in Seq(Writer) /\ Len(Writers(f)) = Len(L) + 1 /\ Len(L) \in Nat
      /\ Writers(f)[1] = w /\ \A i \in 2..Len(Writers(f)) : Writers(f)[i] = L[i - 1]
    BY <1>1, <1>2
<1>4. ASSUME NEW i \in 1..Len(Writers(f)), NEW j \in 1..Len(Writers(f)),
             Writers(f)[i].role = Writers(f)[j].role
      PROVE  i = j
    <2>1. \A k \in 2..Len(Writers(f)) : k - 1 \in 1..Len(L) /\ Writers(f)[k].role \in LoginRole
        <3> SUFFICES ASSUME NEW k \in 2..Len(Writers(f))
                     PROVE  k - 1 \in 1..Len(L) /\ Writers(f)[k].role \in LoginRole
            OBVIOUS
        <3>1. k - 1 \in 1..Len(L) /\ Writers(f)[k] = L[k - 1]
            BY <1>3
        <3>2. L[k - 1] \in [role : LoginRole, roles : Seq(Role)]
            BY <1>0, <3>1, ElementOfSeq
        <3> QED BY <3>1, <3>2
    <2>2. Writers(f)[1].role = ReadWrite
        BY <1>3 DEF w
    <2>3. CASE i = 1 \/ j = 1
        BY <1>4, <2>1, <2>2, <2>3
    <2>4. CASE i # 1 /\ j # 1
        <3>1. /\ i \in 2..Len(Writers(f)) /\ j \in 2..Len(Writers(f))
            BY <1>3, <2>4
        <3>2. i - 1 \in 1..Len(L) /\ j - 1 \in 1..Len(L) /\ L[i - 1].role = L[j - 1].role
            BY <1>3, <1>4, <2>1, <3>1
        <3>3. i - 1 = j - 1
            BY <3>2, ConfigsAssumption DEF L
        <3> QED BY <3>1, <3>3
    <2> QED BY <2>3, <2>4
<1>5. f.external => Len(Writers(f)) = 1
    BY <1>3, ConfigsAssumption DEF L
<1>6. Range(Writers(f)) = {Writers(f)[n] : n \in 1..Len(Writers(f))}
    BY <1>3 DEF Range
<1> QED BY <1>3, <1>4, <1>5, <1>6 DEF w

-----------------------------------------------------------------------------
(* What each part of the reconciler does to a catalog.                     *)

\* What to reconcile for one writer of a configuration.
IsAccess(a) ==
    /\ a.writer \in WriterRole /\ a.roles \in Seq(Role) /\ Range(a.roles) \subseteq Role
    /\ a.schemas \subseteq Schema /\ a.readers \subseteq Role
    /\ a.readPrincipals \subseteq Principal /\ a.writePrincipals \subseteq Principal
    /\ a.external \in BOOLEAN /\ a.delegateReaders \in BOOLEAN
    /\ a.external => a.writer = ReadWrite

Wanted(ps, on) == IF on THEN ps ELSE {}

\* A configuration and one of its writers give such a record.
LEMMA AccessOf ==
    ASSUME NEW f \in Configs, NEW l \in Writer, f.external => l.role = ReadWrite
    PROVE  IsAccess(Access(f, l))
<1>1. \A i \in DOMAIN l.roles : l.roles[i] \in Role
    BY LenProperties, ElementOfSeq DEF Writer
<1> QED
    BY <1>1, ConfigsAssumption DEF IsAccess, Access, Writer, Range

\* ensureGroupRole on both groups: no attributes, nothing else changed.
LEMMA GroupsOf ==
    ASSUME NEW c \in Catalog, CatalogInv(c), NEW a, IsAccess(a), a.external
    PROVE  LET d == EnsureGroupRole(EnsureGroupRole(c, ReadOnly), a.writer)
           IN  /\ d \in Catalog /\ CatalogInv(d)
               /\ d.priv = c.priv /\ d.defpriv = c.defpriv /\ d.member = c.member
               /\ d.readonly = c.readonly /\ d.setrole = c.setrole
               /\ d.attr[ReadOnly] = {} /\ d.attr[a.writer] = {}
<1> DEFINE b == EnsureGroupRole(c, ReadOnly)
           d == EnsureGroupRole(b, ReadWrite)
<1>0. a.writer = ReadWrite
    BY DEF IsAccess
<1>1. /\ b \in Catalog /\ b.attr = [c.attr EXCEPT ![ReadOnly] = {}]
      /\ b.roles = c.roles \cup {ReadOnly} /\ b.priv = c.priv /\ b.defpriv = c.defpriv
      /\ b.member = c.member /\ b.readonly = c.readonly /\ b.setrole = c.setrole
    BY DEF EnsureGroupRole, Catalog, Role, Managed
<1> HIDE DEF b
<1>2. /\ d \in Catalog /\ d.attr = [b.attr EXCEPT ![ReadWrite] = {}]
      /\ d.roles = b.roles \cup {ReadWrite} /\ d.priv = b.priv /\ d.defpriv = b.defpriv
      /\ d.member = b.member /\ d.readonly = b.readonly /\ d.setrole = b.setrole
    BY <1>1 DEF EnsureGroupRole, Catalog, Role, Managed
<1> HIDE DEF d
<1>3. d.attr[ReadOnly] = {} /\ d.attr[ReadWrite] = {}
    BY <1>1, <1>2 DEF Catalog, Role, Managed
<1>4. CatalogInv(d)
    BY <1>1, <1>2 DEF CatalogInv, Catalog, Role, Managed
<1> QED
    BY <1>0, <1>1, <1>2, <1>3, <1>4 DEF b, d

\* The grants: the reader and the writer hold exactly what they should in the
\* exposed schemas, and nobody else's privileges change.
LEMMA GrantsOf ==
    ASSUME NEW c \in Catalog, CatalogInv(c), NEW a, IsAccess(a), tables \subseteq Table
    PROVE  LET d == ReconcileGrants(c, a)
           IN  /\ d \in Catalog /\ CatalogInv(d)
               /\ d.roles = c.roles /\ d.attr = c.attr /\ d.member = c.member
               /\ d.readonly = c.readonly /\ d.setrole = c.setrole
               /\ Holds(d, ReadOnly, a, Wanted({"select"}, ~a.delegateReaders))
               /\ Holds(d, a.writer, a, Wanted(Privilege, a.roles = <<>>))
               /\ \A r \in Role \ {ReadOnly, a.writer} :
                    /\ \A p \in Role \X Table \X Privilege :
                          p[1] = r => (p \in d.priv <=> p \in c.priv)
                    /\ \A p \in Role \X Schema \X Privilege :
                          p[1] = r => (p \in d.defpriv <=> p \in c.defpriv)
<1> DEFINE kept(p) == ~(p[1] \in {ReadOnly, a.writer} /\ SchemaOf[p[2]] \in a.schemas)
           defkept(d) == ~(d[1] \in {ReadOnly, a.writer} /\ d[2] \in a.schemas)
           given == (IF a.delegateReaders THEN {} ELSE {<<ReadOnly, "select">>})
                    \cup (IF a.roles = <<>> THEN {a.writer} \X Privilege ELSE {})
           P == {p \in c.priv : kept(p)} \cup {<<g[1], t, g[2]>> : g \in given, t \in TablesOf(a)}
           D == {d \in c.defpriv : defkept(d)} \cup {<<g[1], s, g[2]>> : g \in given, s \in a.schemas}
           d == ReconcileGrants(c, a)
<1>1. d = [c EXCEPT !.priv = P, !.defpriv = D]
    BY DEF ReconcileGrants
<1>a. a.writer \in Role /\ a.writer # ReadOnly /\ ReadOnly \in Role
    BY DEF IsAccess, WriterRole, Role, Managed
<1>b. \A g \in {ReadOnly, a.writer} \X Privilege : g \in given <=>
         \/ g[1] = ReadOnly /\ g[2] \in Wanted({"select"}, ~a.delegateReaders)
         \/ g[1] = a.writer /\ g[2] \in Wanted(Privilege, a.roles = <<>>)
    BY <1>a DEF Wanted, Privilege, IsAccess
<1>c. given \subseteq {ReadOnly, a.writer} \X Privilege
    BY DEF Privilege
<1> HIDE DEF given
<1>d. \A t : t \in TablesOf(a) <=> t \in tables /\ SchemaOf[t] \in a.schemas
    BY DEF TablesOf
<1>2. \A p \in Role \X Table \X Privilege : p \in P <=>
        \/ p \in c.priv /\ kept(p)
        \/ <<p[1], p[3]>> \in given /\ p[2] \in TablesOf(a)
    BY <1>c
<1>3. \A p \in Role \X Schema \X Privilege : p \in D <=>
        \/ p \in c.defpriv /\ defkept(p)
        \/ <<p[1], p[3]>> \in given /\ p[2] \in a.schemas
    BY <1>c
<1>4. P \subseteq Role \X Table \X Privilege /\ D \subseteq Role \X Schema \X Privilege
    BY <1>a, <1>c, <1>d DEF Catalog, IsAccess
<1> HIDE DEF P, D
<1>5. /\ d \in Catalog /\ d.priv = P /\ d.defpriv = D
      /\ d.roles = c.roles /\ d.attr = c.attr /\ d.member = c.member
      /\ d.readonly = c.readonly /\ d.setrole = c.setrole
    BY <1>1, <1>4 DEF Catalog
<1> HIDE DEF d
<1>6. CatalogInv(d)
    <2>1. ASSUME NEW p \in P PROVE p[2] \in tables
        BY <1>2, <1>4, <1>d DEF CatalogInv
    <2> QED BY <1>5, <2>1 DEF CatalogInv
<1>7. ASSUME NEW r \in {ReadOnly, a.writer}, NEW ps \in SUBSET Privilege,
             \A x \in Privilege : <<r, x>> \in given <=> x \in ps
      PROVE  Holds(d, r, a, ps)
    <2>1. {p \in P : p[1] = r /\ SchemaOf[p[2]] \in a.schemas} = {r} \X TablesOf(a) \X ps
        <3>1. ASSUME NEW p \in P, p[1] = r, SchemaOf[p[2]] \in a.schemas
              PROVE  p \in {r} \X TablesOf(a) \X ps
            BY <1>2, <1>4, <1>7, <3>1
        <3>2. ASSUME NEW p \in {r} \X TablesOf(a) \X ps
              PROVE  p \in P /\ p[1] = r /\ SchemaOf[p[2]] \in a.schemas
            <4>1. p \in Role \X Table \X Privilege
                BY <1>a, <1>d
            <4> QED BY <1>2, <1>7, <1>d, <4>1
        <3> QED BY <3>1, <3>2
    <2>2. {p \in D : p[1] = r /\ p[2] \in a.schemas} = {r} \X a.schemas \X ps
        <3>1. ASSUME NEW p \in D, p[1] = r, p[2] \in a.schemas
              PROVE  p \in {r} \X a.schemas \X ps
            BY <1>3, <1>4, <1>7, <3>1
        <3>2. ASSUME NEW p \in {r} \X a.schemas \X ps
              PROVE  p \in D /\ p[1] = r /\ p[2] \in a.schemas
            <4>1. p \in Role \X Schema \X Privilege
                BY <1>a DEF IsAccess
            <4> QED BY <1>3, <1>7, <4>1
        <3> QED BY <3>1, <3>2
    <2> QED BY <1>5, <2>1, <2>2 DEF Holds
<1>8. Holds(d, ReadOnly, a, Wanted({"select"}, ~a.delegateReaders))
    <2>1. Wanted({"select"}, ~a.delegateReaders) \in SUBSET Privilege
        BY DEF Wanted, Privilege
    <2>2. \A x \in Privilege : <<ReadOnly, x>> \in given <=>
            x \in Wanted({"select"}, ~a.delegateReaders)
        BY <1>a, <1>b
    <2> QED BY <1>7, <2>1, <2>2
<1>9. Holds(d, a.writer, a, Wanted(Privilege, a.roles = <<>>))
    <2>1. Wanted(Privilege, a.roles = <<>>) \in SUBSET Privilege
        BY DEF Wanted
    <2>2. \A x \in Privilege : <<a.writer, x>> \in given <=> x \in Wanted(Privilege, a.roles = <<>>)
        BY <1>a, <1>b
    <2> QED BY <1>7, <2>1, <2>2
<1>10. ASSUME NEW r \in Role \ {ReadOnly, a.writer}
       PROVE  /\ \A p \in Role \X Table \X Privilege : p[1] = r => (p \in P <=> p \in c.priv)
              /\ \A p \in Role \X Schema \X Privilege : p[1] = r => (p \in D <=> p \in c.defpriv)
    BY <1>2, <1>3, <1>c
<1> QED
    BY <1>5, <1>6, <1>8, <1>9, <1>10 DEF d

\* Two catalogs that differ in memberships only.
SameButMembers(d, c) ==
    /\ d.roles = c.roles /\ d.attr = c.attr /\ d.priv = c.priv /\ d.defpriv = c.defpriv
    /\ d.readonly = c.readonly /\ d.setrole = c.setrole

\* reconcileRuntimeRoleMemberships: the role's memberships are the given ones.
LEMMA MembershipsOf ==
    ASSUME NEW c \in Catalog, CatalogInv(c), NEW m \in Managed, NEW gs \in SUBSET Role
    PROVE  LET d == ReconcileMemberships(c, m, gs)
           IN  /\ d \in Catalog /\ CatalogInv(d) /\ SameButMembers(d, c)
               /\ \A e \in Role \X Role :
                     e \in d.member <=> IF e[2] = m THEN e[1] \in gs ELSE e \in c.member
<1> DEFINE M == {e \in c.member : e[2] # m} \cup {<<g, m>> : g \in gs}
           d == ReconcileMemberships(c, m, gs)
<1>1. d = [c EXCEPT !.member = M]
    BY DEF ReconcileMemberships
<1>2. /\ M \subseteq Role \X Role
      /\ \A e \in Role \X Role : e \in M <=> IF e[2] = m THEN e[1] \in gs ELSE e \in c.member
    BY DEF Catalog, Role
<1>3. \A e \in M : e[2] # Owner /\ (e[2] \in AppRole => e[1] \in AppRole \cup {Owner})
    BY DEF CatalogInv, Managed
<1> HIDE DEF M
<1>4. d \in Catalog /\ d.member = M /\ SameButMembers(d, c)
    BY <1>1, <1>2 DEF Catalog, SameButMembers
<1> HIDE DEF d
<1>5. CatalogInv(d)
    BY <1>3, <1>4 DEF CatalogInv, SameButMembers
<1> QED
    BY <1>2, <1>4, <1>5 DEF d

\* reconcileExternalPrincipals: the group's members are the given ones.
LEMMA PrincipalsOf ==
    ASSUME NEW c \in Catalog, CatalogInv(c), NEW g \in Role, NEW ps \in SUBSET Principal
    PROVE  LET d == ReconcilePrincipals(c, g, ps)
           IN  /\ d \in Catalog /\ CatalogInv(d) /\ SameButMembers(d, c)
               /\ \A e \in Role \X Role :
                     e \in d.member <=> IF e[1] = g THEN e[2] \in ps ELSE e \in c.member
<1> DEFINE M == {e \in c.member : e[1] # g} \cup {<<g, p>> : p \in ps}
           d == ReconcilePrincipals(c, g, ps)
<1>1. d = [c EXCEPT !.member = M]
    BY DEF ReconcilePrincipals
<1>2. /\ M \subseteq Role \X Role
      /\ \A e \in Role \X Role : e \in M <=> IF e[1] = g THEN e[2] \in ps ELSE e \in c.member
    BY DEF Catalog, Role
<1>3. \A e \in M : e[2] # Owner /\ (e[2] \in AppRole => e[1] \in AppRole \cup {Owner})
    BY DEF CatalogInv
<1> HIDE DEF M
<1>4. d \in Catalog /\ d.member = M /\ SameButMembers(d, c)
    BY <1>1, <1>2 DEF Catalog, SameButMembers
<1> HIDE DEF d
<1>5. CatalogInv(d)
    BY <1>3, <1>4 DEF CatalogInv, SameButMembers
<1> QED
    BY <1>2, <1>4, <1>5 DEF d

\* The memberships of a reconciled catalog d: the configured ones, and of those
\* of c the ones of roles that were not reconciled.
MembersFrom(d, c, a) ==
    \A e \in d.member :
        \/ a.delegateReaders /\ e[2] = ReadOnly /\ e[1] \in a.readers
        \/ e[2] = a.writer /\ e[1] \in Range(a.roles)
        \/ a.external /\ e[1] \in {ReadOnly, a.writer} /\ e[2] \in Principal
        \/ e \in c.member /\ e[2] # a.writer /\ (a.delegateReaders => e[2] # ReadOnly)

\* A reconciliation that succeeds: the grants, the readers checked against them,
\* then the memberships.
LEMMA ReconcileStages ==
    ASSUME NEW c \in Catalog, CatalogInv(c), NEW a, IsAccess(a), tables \subseteq Table,
           NEW d \in ReconcileRuntimeAccess(c, a)
    PROVE  \E b \in Catalog :
             /\ b = ReconcileGrants(
                      IF a.external
                      THEN EnsureGroupRole(EnsureGroupRole(c, ReadOnly), a.writer) ELSE c, a)
             /\ a.delegateReaders => \A r \in a.readers : ReaderAllowed(b, a, r)
             /\ d \in Catalog /\ CatalogInv(d) /\ SameButMembers(d, b) /\ MembersFrom(d, b, a)
<1> DEFINE c1 == IF a.external
                 THEN EnsureGroupRole(EnsureGroupRole(c, ReadOnly), a.writer) ELSE c
           c2 == ReconcileGrants(c1, a)
           c3 == IF a.delegateReaders
                 THEN ReconcileMemberships(c2, ReadOnly, a.readers) ELSE c2
           c4 == ReconcileMemberships(c3, a.writer, Range(a.roles))
           c5 == ReconcilePrincipals(c4, ReadOnly, a.readPrincipals)
           c6 == ReconcilePrincipals(c5, a.writer, a.writePrincipals)
<1>1. /\ d = IF a.external THEN c6 ELSE c4
      /\ a.delegateReaders => \A r \in a.readers : ReaderAllowed(c2, a, r)
    BY DEF ReconcileRuntimeAccess
<1>2. c1 \in Catalog /\ CatalogInv(c1)
    BY GroupsOf
<1> HIDE DEF c1
<1>3. c2 \in Catalog /\ CatalogInv(c2)
    BY <1>2, GrantsOf
<1> HIDE DEF c2
<1>a. /\ ReadOnly \in Managed /\ a.writer \in Managed /\ ReadOnly \in Role /\ a.writer \in Role
      /\ a.readers \in SUBSET Role /\ Range(a.roles) \in SUBSET Role
      /\ a.readPrincipals \in SUBSET Principal /\ a.writePrincipals \in SUBSET Principal
      /\ a.writer # ReadOnly
    BY DEF IsAccess, WriterRole, Managed, Role
<1>4. /\ c3 \in Catalog /\ CatalogInv(c3) /\ SameButMembers(c3, c2)
      /\ \A e \in Role \X Role : e \in c3.member <=>
            IF a.delegateReaders /\ e[2] = ReadOnly THEN e[1] \in a.readers ELSE e \in c2.member
    BY <1>3, <1>a, MembershipsOf DEF SameButMembers
<1> HIDE DEF c3
<1>5. /\ c4 \in Catalog /\ CatalogInv(c4) /\ SameButMembers(c4, c3)
      /\ \A e \in Role \X Role : e \in c4.member <=>
            IF e[2] = a.writer THEN e[1] \in Range(a.roles) ELSE e \in c3.member
    BY <1>4, <1>a, MembershipsOf
<1> HIDE DEF c4
<1>6. /\ c5 \in Catalog /\ CatalogInv(c5) /\ SameButMembers(c5, c4)
      /\ \A e \in Role \X Role : e \in c5.member <=>
            IF e[1] = ReadOnly THEN e[2] \in a.readPrincipals ELSE e \in c4.member
    BY <1>5, <1>a, PrincipalsOf
<1> HIDE DEF c5
<1>7. /\ c6 \in Catalog /\ CatalogInv(c6) /\ SameButMembers(c6, c5)
      /\ \A e \in Role \X Role : e \in c6.member <=>
            IF e[1] = a.writer THEN e[2] \in a.writePrincipals ELSE e \in c5.member
    BY <1>6, <1>a, PrincipalsOf
<1> HIDE DEF c6
<1>8. d \in Catalog /\ CatalogInv(d) /\ SameButMembers(d, c2)
    BY <1>1, <1>4, <1>5, <1>6, <1>7 DEF SameButMembers
<1>9. MembersFrom(d, c2, a)
    <2> SUFFICES ASSUME NEW e \in d.member
                 PROVE  \/ a.delegateReaders /\ e[2] = ReadOnly /\ e[1] \in a.readers
                        \/ e[2] = a.writer /\ e[1] \in Range(a.roles)
                        \/ a.external /\ e[1] \in {ReadOnly, a.writer} /\ e[2] \in Principal
                        \/ /\ e \in c2.member /\ e[2] # a.writer
                           /\ a.delegateReaders => e[2] # ReadOnly
        BY DEF MembersFrom
    <2>1. e \in Role \X Role
        BY <1>8 DEF Catalog
    <2>2. \/ e \in c4.member
          \/ a.external /\ e[1] \in {ReadOnly, a.writer} /\ e[2] \in Principal
        BY <1>1, <1>6, <1>7, <1>a, <2>1
    <2> QED
        BY <1>4, <1>5, <1>a, <2>1, <2>2
<1> QED
    BY <1>1, <1>3, <1>8, <1>9 DEF c1, c2

-----------------------------------------------------------------------------
(* What one writer's reconciliation establishes, and leaves to the others. *)

MembersOf(c, m) == {g \in Role : <<g, m>> \in c.member}

\* Two catalogs agree on what a role holds.
Alike(d, c, r) ==
    /\ \A p \in Role \X Table \X Privilege : p[1] = r => (p \in d.priv <=> p \in c.priv)
    /\ \A p \in Role \X Schema \X Privilege : p[1] = r => (p \in d.defpriv <=> p \in c.defpriv)

\* What a role holds depends on its own privileges only.
LEMMA HoldsAlike ==
    ASSUME NEW c \in Catalog, NEW d \in Catalog, NEW r, NEW f, NEW ps,
           Alike(d, c, r), Holds(c, r, f, ps)
    PROVE  Holds(d, r, f, ps)
<1>1. {p \in d.priv : p[1] = r /\ SchemaOf[p[2]] \in f.schemas}
        = {p \in c.priv : p[1] = r /\ SchemaOf[p[2]] \in f.schemas}
    BY DEF Alike, Catalog
<1>2. {p \in d.defpriv : p[1] = r /\ p[2] \in f.schemas}
        = {p \in c.defpriv : p[1] = r /\ p[2] \in f.schemas}
    BY DEF Alike, Catalog
<1> QED BY <1>1, <1>2 DEF Holds

\* ReconcileRuntimeAccess settles the reader and the writer it is called for, and
\* changes no other writer.
LEMMA ReconcileSettles ==
    ASSUME NEW c \in Catalog, CatalogInv(c), NEW f \in Configs, NEW l \in Writer,
           f.external => l.role = ReadWrite, tables \subseteq Table,
           NEW d \in ReconcileRuntimeAccess(c, Access(f, l))
    PROVE  /\ d \in Catalog /\ CatalogInv(d)
           /\ d.readonly = c.readonly /\ d.setrole = c.setrole
           /\ IF f.external THEN d.attr[ReadOnly] = {} /\ d.attr[l.role] = {} ELSE d.attr = c.attr
           /\ Holds(d, ReadOnly, f, Wanted({"select"}, ~f.delegateReaders))
           /\ Holds(d, l.role, f, Wanted(Privilege, l.roles = <<>>))
           /\ MembersOf(d, l.role) \subseteq Range(l.roles)
           /\ f.delegateReaders => MembersOf(d, ReadOnly) \subseteq f.readers
           /\ \A r \in LoginRole \cup {ReadWrite} : r # l.role =>
                 Alike(d, c, r) /\ MembersOf(d, r) \subseteq MembersOf(c, r)
<1> DEFINE a == Access(f, l)
           b1 == IF a.external
                 THEN EnsureGroupRole(EnsureGroupRole(c, ReadOnly), a.writer) ELSE c
           b == ReconcileGrants(b1, a)
<1>1. IsAccess(a)
    BY AccessOf
<1>2. /\ a.writer = l.role /\ a.roles = l.roles /\ a.schemas = f.schemas
      /\ a.external = f.external /\ a.delegateReaders = f.delegateReaders /\ a.readers = f.readers
    BY DEF Access
<1> HIDE DEF a
<1>3. /\ a.delegateReaders => \A r \in a.readers : ReaderAllowed(b, a, r)
      /\ d \in Catalog /\ CatalogInv(d) /\ SameButMembers(d, b) /\ MembersFrom(d, b, a)
    BY <1>1, ReconcileStages DEF a
<1>4. /\ b1 \in Catalog /\ CatalogInv(b1)
      /\ b1.priv = c.priv /\ b1.defpriv = c.defpriv /\ b1.member = c.member
      /\ b1.readonly = c.readonly /\ b1.setrole = c.setrole
      /\ IF f.external THEN b1.attr[ReadOnly] = {} /\ b1.attr[l.role] = {} ELSE b1.attr = c.attr
    BY <1>1, <1>2, GroupsOf
<1> HIDE DEF b1
<1>5. /\ b \in Catalog /\ b.attr = b1.attr /\ b.member = b1.member
      /\ b.readonly = b1.readonly /\ b.setrole = b1.setrole
      /\ Holds(b, ReadOnly, a, Wanted({"select"}, ~a.delegateReaders))
      /\ Holds(b, a.writer, a, Wanted(Privilege, a.roles = <<>>))
      /\ \A r \in Role \ {ReadOnly, a.writer} : Alike(b, b1, r)
    BY <1>1, <1>4, GrantsOf DEF Alike
<1> HIDE DEF b
<1>6. /\ d.readonly = c.readonly /\ d.setrole = c.setrole
      /\ IF f.external THEN d.attr[ReadOnly] = {} /\ d.attr[l.role] = {} ELSE d.attr = c.attr
    BY <1>3, <1>4, <1>5 DEF SameButMembers
<1>7. /\ Holds(d, ReadOnly, f, Wanted({"select"}, ~f.delegateReaders))
      /\ Holds(d, l.role, f, Wanted(Privilege, l.roles = <<>>))
    BY <1>2, <1>3, <1>5 DEF Holds, SameButMembers, TablesOf
<1>8. MembersOf(d, l.role) \subseteq Range(l.roles)
    BY <1>1, <1>2, <1>3 DEF MembersOf, MembersFrom, IsAccess, WriterRole
<1>9. f.delegateReaders => MembersOf(d, ReadOnly) \subseteq f.readers
    BY <1>1, <1>2, <1>3 DEF MembersOf, MembersFrom, IsAccess, WriterRole
<1>10. ASSUME NEW r \in LoginRole \cup {ReadWrite}, r # l.role
       PROVE  Alike(d, c, r) /\ MembersOf(d, r) \subseteq MembersOf(c, r)
    <2>1. r \in Role \ {ReadOnly, a.writer} /\ r \notin Principal
        BY <1>2, <1>10 DEF Role, Managed
    <2>2. Alike(d, c, r)
        BY <1>3, <1>4, <1>5, <2>1 DEF Alike, SameButMembers
    <2>3. MembersOf(d, r) \subseteq MembersOf(c, r)
        BY <1>3, <1>4, <1>5, <2>1 DEF MembersOf, MembersFrom
    <2> QED BY <2>2, <2>3
<1> QED
    BY <1>3, <1>6, <1>7, <1>8, <1>9, <1>10

\* ensureLoginRole makes a role that logs in and does nothing else.
LEMMA LoginRoleOf ==
    ASSUME NEW c \in Catalog, CatalogInv(c), NEW r \in Managed, NEW ro \in BOOLEAN
    PROVE  LET d == EnsureLoginRole(c, r, ro)
           IN  /\ d \in Catalog /\ CatalogInv(d)
               /\ d.attr = [c.attr EXCEPT ![r] = {"login"}]
               /\ d.priv = c.priv /\ d.defpriv = c.defpriv /\ d.member = c.member
               /\ d.setrole = c.setrole
               /\ d.readonly = IF ro THEN c.readonly \cup {r} ELSE c.readonly \ {r}
<1> DEFINE d == EnsureLoginRole(c, r, ro)
<1>0. r \in Role /\ {"login"} \in SUBSET Attribute
    BY DEF Role, Attribute
<1>1. /\ d \in Catalog /\ d.attr = [c.attr EXCEPT ![r] = {"login"}]
      /\ d.roles = c.roles \cup {r}
      /\ d.priv = c.priv /\ d.defpriv = c.defpriv /\ d.member = c.member
      /\ d.setrole = c.setrole
      /\ d.readonly = IF ro THEN c.readonly \cup {r} ELSE c.readonly \ {r}
    BY <1>0 DEF EnsureLoginRole, Catalog
<1> HIDE DEF d
<1>2. CatalogInv(d)
    BY <1>0, <1>1 DEF CatalogInv, Catalog
<1> QED
    BY <1>1, <1>2 DEF d

\* One login of ensureRuntimeAccessLocked is settled, the reader with it, and
\* the other writers stay as they are: "reconciling one login never touches
\* another's".
LEMMA LoginSettles ==
    ASSUME NEW c \in Catalog, CatalogInv(c), NEW f \in Configs, ~f.external, NEW l \in Writer,
           tables \subseteq Table, ReadOnly \in c.readonly, c.attr[ReadOnly] = {"login"},
           NEW d \in EnsureLogin(c, f, l)
    PROVE  /\ d \in Catalog /\ CatalogInv(d)
           /\ ReadOnly \in d.readonly /\ d.attr[ReadOnly] = {"login"}
           /\ ReaderSettled(d, f) /\ WriterSettled(d, f, l)
           /\ \A k \in Writer : k.role # l.role /\ WriterSettled(c, f, k) => WriterSettled(d, f, k)
<1> DEFINE b == EnsureLoginRole(c, l.role, FALSE)
<1>0. /\ l.role \in Managed /\ l.role \in Role /\ l.role # ReadOnly /\ ReadOnly \in Role
      /\ l.role \in LoginRole \cup {ReadWrite} /\ l.roles \in Seq(Role)
    BY DEF Writer, WriterRole, Managed, Role
<1>1. /\ b \in Catalog /\ CatalogInv(b) /\ b.attr = [c.attr EXCEPT ![l.role] = {"login"}]
      /\ b.priv = c.priv /\ b.defpriv = c.defpriv /\ b.member = c.member
      /\ b.setrole = c.setrole /\ b.readonly = c.readonly \ {l.role}
    BY <1>0, LoginRoleOf
<1>2. PICK e \in ReconcileRuntimeAccess(b, Access(f, l)) : d = EnsureDefaultRole(e, l.role, l.roles)
    BY DEF EnsureLogin
<1> HIDE DEF b
<1>3. /\ e \in Catalog /\ CatalogInv(e)
      /\ e.readonly = b.readonly /\ e.setrole = b.setrole /\ e.attr = b.attr
      /\ Holds(e, ReadOnly, f, Wanted({"select"}, ~f.delegateReaders))
      /\ Holds(e, l.role, f, Wanted(Privilege, l.roles = <<>>))
      /\ MembersOf(e, l.role) \subseteq Range(l.roles)
      /\ f.delegateReaders => MembersOf(e, ReadOnly) \subseteq f.readers
      /\ \A r \in LoginRole \cup {ReadWrite} : r # l.role =>
            Alike(e, b, r) /\ MembersOf(e, r) \subseteq MembersOf(b, r)
    BY <1>1, <1>2, ReconcileSettles
<1>4. DefaultRole(l.roles) \in Role \cup {NoRole}
    BY <1>0 DEF DefaultRole
<1>5. /\ d \in Catalog /\ d.setrole = [e.setrole EXCEPT ![l.role] = DefaultRole(l.roles)]
      /\ d.roles = e.roles /\ d.attr = e.attr /\ d.member = e.member
      /\ d.priv = e.priv /\ d.defpriv = e.defpriv /\ d.readonly = e.readonly
    BY <1>0, <1>2, <1>3, <1>4 DEF EnsureDefaultRole, Catalog
<1>6. CatalogInv(d)
    BY <1>3, <1>5 DEF CatalogInv
<1>7. ReadOnly \in d.readonly /\ d.attr[ReadOnly] = {"login"} /\ d.attr[l.role] = {"login"}
    BY <1>0, <1>1, <1>3, <1>5 DEF Catalog
<1>8. ReaderSettled(d, f)
    BY <1>3, <1>5, <1>7 DEF ReaderSettled, Holds, MembersOf, Wanted
<1>9. WriterSettled(d, f, l)
    BY <1>0, <1>3, <1>5, <1>7 DEF WriterSettled, Holds, MembersOf, Wanted, Catalog
<1>10. ASSUME NEW k \in Writer, k.role # l.role, WriterSettled(c, f, k)
       PROVE  WriterSettled(d, f, k)
    <2>1. k.role \in LoginRole \cup {ReadWrite} /\ k.role \in Role
        BY DEF Writer, WriterRole, Role, Managed
    <2>2. /\ d.attr[k.role] = c.attr[k.role] /\ d.setrole[k.role] = c.setrole[k.role]
        BY <1>0, <1>1, <1>3, <1>5, <1>10, <2>1 DEF Catalog
    <2>3. MembersOf(d, k.role) \subseteq MembersOf(c, k.role)
        BY <1>1, <1>3, <1>5, <1>10, <2>1 DEF MembersOf
    <2>4. Alike(d, c, k.role)
        BY <1>1, <1>3, <1>5, <1>10, <2>1 DEF Alike
    <2> QED
        BY <1>5, <1>10, <2>2, <2>3, <2>4, HoldsAlike DEF WriterSettled, MembersOf
<1> QED
    BY <1>5, <1>6, <1>7, <1>8, <1>9, <1>10

\* After the loop every writer is settled: what an early login was given is
\* still there after the last one.
LEMMA LoginsSettle ==
    ASSUME NEW c \in Catalog, CatalogInv(c), NEW f \in Configs, ~f.external,
           tables \subseteq Table, NEW d \in EnsureRuntimeAccess(c, f)
    PROVE  /\ d \in Catalog /\ CatalogInv(d) /\ ReaderSettled(d, f)
           /\ \A l \in Range(Writers(f)) : WriterSettled(d, f, l)
<1> DEFINE N == Len(Writers(f))
           W == Writers(f)
           g == EnsureLogins(c, f)
           Good(e, n) ==
               /\ e \in Catalog /\ CatalogInv(e)
               /\ ReadOnly \in e.readonly /\ e.attr[ReadOnly] = {"login"}
               /\ n > 0 => ReaderSettled(e, f)
               /\ \A i \in 1..n : WriterSettled(e, f, W[i])
           T == {n \in 0..N : \E e \in g[n] : ~Good(e, n)}
<1>1. /\ W \in Seq(Writer) /\ N \in Nat \ {0} /\ Range(W) = {W[n] : n \in 1..N}
      /\ \A i, j \in 1..N : W[i].role = W[j].role => i = j
      /\ \A i \in 1..N : W[i] \in Writer
    BY WritersOf, ElementOfSeq
<1>2. Loop(g, c, f, N)
    BY <1>1, LoopOfLogins
<1>3. d \in g[N]
    BY DEF EnsureRuntimeAccess
<1> HIDE DEF N, W, g
<1>4. g[0] = {EnsureLoginRole(c, ReadOnly, TRUE)}
    BY <1>1, <1>2 DEF Loop
<1>5. ASSUME NEW n \in 1..N PROVE g[n] = EnsureNext(g[n - 1], f, n)
    <2>1. n \in 0..N /\ n # 0
        BY <1>1
    <2> QED BY <1>2, <2>1 DEF Loop
<1>6. \A e \in g[0] : Good(e, 0)
    <2> SUFFICES ASSUME NEW e \in g[0] PROVE Good(e, 0)
        OBVIOUS
    <2>1. ReadOnly \in Managed /\ ReadOnly \in Role
        BY DEF Managed, Role
    <2>2. /\ e \in Catalog /\ CatalogInv(e) /\ e.attr = [c.attr EXCEPT ![ReadOnly] = {"login"}]
          /\ e.readonly = c.readonly \cup {ReadOnly}
        <3>1. e = EnsureLoginRole(c, ReadOnly, TRUE) /\ TRUE \in BOOLEAN
            BY <1>4
        <3> QED BY <2>1, <3>1, LoginRoleOf
    <2>3. e.attr[ReadOnly] = {"login"}
        BY <2>1, <2>2 DEF Catalog
    <2> QED BY <2>2, <2>3
<1>7. ASSUME NEW n \in 1..N, \A e \in g[n - 1] : Good(e, n - 1)
      PROVE  \A e \in g[n] : Good(e, n)
    <2> SUFFICES ASSUME NEW e \in g[n] PROVE Good(e, n)
        OBVIOUS
    <2>1. PICK b \in g[n - 1] : e \in EnsureLogin(b, f, W[n])
        BY <1>5 DEF EnsureNext, W
    <2>2. Good(b, n - 1)
        BY <1>7
    <2>3. /\ e \in Catalog /\ CatalogInv(e)
          /\ ReadOnly \in e.readonly /\ e.attr[ReadOnly] = {"login"}
          /\ ReaderSettled(e, f) /\ WriterSettled(e, f, W[n])
          /\ \A k \in Writer : k.role # W[n].role /\ WriterSettled(b, f, k) => WriterSettled(e, f, k)
        BY <1>1, <2>1, <2>2, LoginSettles
    <2>4. ASSUME NEW i \in 1..n PROVE WriterSettled(e, f, W[i])
        <3>1. CASE i = n
            BY <2>3, <3>1
        <3>2. CASE i # n
            <4>1. i \in 1..(n - 1) /\ i \in 1..N /\ W[i] \in Writer /\ W[i].role # W[n].role
                BY <1>1, <3>2
            <4> QED BY <2>2, <2>3, <4>1
        <3> QED BY <3>1, <3>2
    <2> QED BY <2>3, <2>4
<1> HIDE DEF Good
<1>8. T = {}
    <2> SUFFICES ASSUME T # {} PROVE FALSE
        OBVIOUS
    <2>1. PICK m \in T : \A k \in T : m <= k
        <3>1. T \subseteq Nat
            BY <1>1
        <3> HIDE DEF T
        <3> QED BY <3>1, LeastNatural
    <2>2. m # 0
        BY <1>6
    <2>3. m \in 1..N /\ m - 1 \in 0..N /\ ~(m <= m - 1)
        BY <1>1, <2>2
    <2>4. m - 1 \notin T
        BY <2>1, <2>3
    <2>5. \A e \in g[m - 1] : Good(e, m - 1)
        BY <2>3, <2>4
    <2> QED BY <1>7, <2>3, <2>5
<1>9. Good(d, N)
    BY <1>1, <1>3, <1>8
<1> QED
    BY <1>1, <1>9 DEF Good, W

\* A reconciliation settles the reader and every writer of its configuration.
LEMMA ReconcileEstablishes ==
    ASSUME AccessTypeOK, CatalogInv(cat), NEW f \in Configs, Reconcile(f)
    PROVE  /\ cat' \in Catalog /\ CatalogInv(cat') /\ ReaderSettled(cat', f)
           /\ \A l \in Range(Writers(f)) : WriterSettled(cat', f, l)
           /\ applied' = {f} /\ tampered' = FALSE /\ UNCHANGED <<tables, changes>>
<1> DEFINE d == cat'
<1>0. cat \in Catalog /\ tables \subseteq Table
    BY DEF AccessTypeOK
<1>1. /\ d \in (IF f.external THEN ManagedAccess(cat, f) ELSE EnsureRuntimeAccess(cat, f))
      /\ applied' = {f} /\ tampered' = FALSE /\ UNCHANGED <<tables, changes>>
    BY DEF Reconcile
<1> HIDE DEF d
<1>2. CASE ~f.external
    BY <1>0, <1>1, <1>2, LoginsSettle DEF d
<1>3. CASE f.external
    <2> DEFINE l == Writers(f)[1]
    <2>1. l \in Writer /\ l.role = ReadWrite /\ Range(Writers(f)) = {l}
        <3>1. Range(Writers(f)) = {l}
            <4>1. Range(Writers(f)) = {Writers(f)[n] : n \in 1..1}
                BY <1>3, WritersOf
            <4>2. \A n \in 1..1 : n = 1
                OBVIOUS
            <4> QED BY <4>1, <4>2
        <3>2. l = [role |-> ReadWrite, roles |-> f.roles]
            BY WritersOf
        <3> QED BY <3>1, <3>2, ConfigsAssumption DEF Writer, WriterRole
    <2>2. d \in ReconcileRuntimeAccess(cat, Access(f, l))
        BY <1>1, <1>3 DEF ManagedAccess
    <2> HIDE DEF l
    <2>3. /\ d \in Catalog /\ CatalogInv(d)
          /\ d.attr[ReadOnly] = {} /\ d.attr[l.role] = {}
          /\ Holds(d, ReadOnly, f, Wanted({"select"}, ~f.delegateReaders))
          /\ Holds(d, l.role, f, Wanted(Privilege, l.roles = <<>>))
          /\ MembersOf(d, l.role) \subseteq Range(l.roles)
          /\ f.delegateReaders => MembersOf(d, ReadOnly) \subseteq f.readers
        BY <1>0, <1>3, <2>1, <2>2, ReconcileSettles
    <2>4. ReaderSettled(d, f) /\ WriterSettled(d, f, l)
        BY <1>3, <2>3 DEF ReaderSettled, WriterSettled, Wanted, MembersOf
    <2> QED
        BY <1>1, <2>1, <2>3, <2>4 DEF d
<1> QED BY <1>2, <1>3

-----------------------------------------------------------------------------
(* Between reconciliations.                                                *)

\* What a change may not touch for the managed roles to stay settled.
Spares(d, c) ==
    /\ d.setrole = c.setrole /\ d.readonly = c.readonly
    /\ \A r \in Managed : d.attr[r] = c.attr[r] /\ MembersOf(d, r) \subseteq MembersOf(c, r)

\* Every writer is a managed role.
LEMMA WritersAreManaged ==
    ASSUME NEW f \in Configs, NEW l \in Range(Writers(f))
    PROVE  l.role \in Managed /\ l.roles \in Seq(Role)
<1>0. Range(Writers(f)) = {Writers(f)[n] : n \in 1..Len(Writers(f))}
    BY WritersOf
<1>1. PICK n \in 1..Len(Writers(f)) : l = Writers(f)[n]
    BY <1>0
<1>2. l \in Writer
    BY <1>1, WritersOf, ElementOfSeq
<1> QED BY <1>2 DEF Writer, WriterRole, Managed

\* A change to roles, memberships or grants of others leaves it settled.
LEMMA SettledKept ==
    ASSUME NEW c \in Catalog, NEW d \in Catalog, NEW f \in Configs, Spares(d, c),
           \A r \in Managed : Alike(d, c, r)
    PROVE  /\ ReaderSettled(c, f) => ReaderSettled(d, f)
           /\ \A l \in Range(Writers(f)) : WriterSettled(c, f, l) => WriterSettled(d, f, l)
<1>1. \A r \in Managed, ps \in SUBSET Privilege : Holds(c, r, f, ps) => Holds(d, r, f, ps)
    BY HoldsAlike
<1>2. ReadOnly \in Managed
    BY DEF Managed
<1>3. ASSUME ReaderSettled(c, f) PROVE ReaderSettled(d, f)
    <2>1. (IF f.delegateReaders THEN {} ELSE {"select"}) \in SUBSET Privilege
        BY DEF Privilege
    <2> QED
        BY <1>1, <1>2, <1>3, <2>1 DEF ReaderSettled, Spares, MembersOf
<1>4. ASSUME NEW l \in Range(Writers(f)), WriterSettled(c, f, l) PROVE WriterSettled(d, f, l)
    <2>1. (IF l.roles = <<>> THEN Privilege ELSE {}) \in SUBSET Privilege
        OBVIOUS
    <2> QED
        BY <1>1, <1>4, <2>1, WritersAreManaged DEF WriterSettled, Spares, MembersOf
<1> QED BY <1>3, <1>4

\* What the default privileges of its schema give on a new table.
Inherited(t) == {<<x[1], t, x[3]>> : x \in {y \in cat.defpriv : y[2] = SchemaOf[t]}}

\* Holds, over any set of tables.
HoldsOn(c, r, f, ps, T) ==
    /\ {p \in c.priv : p[1] = r /\ SchemaOf[p[2]] \in f.schemas}
         = {r} \X {u \in T : SchemaOf[u] \in f.schemas} \X ps
    /\ {x \in c.defpriv : x[1] = r /\ x[2] \in f.schemas} = {r} \X f.schemas \X ps

\* A new table has what the default privileges of its schema say, so what a
\* role holds goes on to cover every table.
LEMMA HoldsNewTable ==
    ASSUME AccessTypeOK, NEW t \in Table, NEW d \in Catalog,
           d.defpriv = cat.defpriv,
           d.priv = cat.priv \cup Inherited(t),
           NEW r \in Role, NEW f, NEW ps \in SUBSET Privilege, Holds(cat, r, f, ps)
    PROVE  HoldsOn(d, r, f, ps, tables \cup {t})
<1> DEFINE U == {u \in tables \cup {t} : SchemaOf[u] \in f.schemas}
<1>1. cat.priv \subseteq Role \X Table \X Privilege /\ cat.defpriv \subseteq Role \X Schema \X Privilege
    BY DEF AccessTypeOK, Catalog
<1>2. {x \in cat.defpriv : x[1] = r /\ x[2] \in f.schemas} = {r} \X f.schemas \X ps
    BY DEF Holds
<1>3. {p \in cat.priv : p[1] = r /\ SchemaOf[p[2]] \in f.schemas}
        = {r} \X {u \in tables : SchemaOf[u] \in f.schemas} \X ps
    BY DEF Holds, TablesOf
<1>4. ASSUME NEW p \in d.priv, p[1] = r, SchemaOf[p[2]] \in f.schemas
      PROVE  p \in {r} \X U \X ps
    <2>1. CASE p \in cat.priv
        BY <1>3, <1>4, <2>1
    <2>2. CASE p \notin cat.priv
        <3>1. PICK x \in cat.defpriv : x[2] = SchemaOf[t] /\ p = <<x[1], t, x[3]>>
            BY <2>2 DEF Inherited
        <3>2. x \in {r} \X f.schemas \X ps
            BY <1>2, <1>4, <3>1
        <3> QED BY <1>4, <3>1, <3>2
    <2> QED BY <2>1, <2>2
<1>5. ASSUME NEW p \in {r} \X U \X ps
      PROVE  p \in d.priv /\ p[1] = r /\ SchemaOf[p[2]] \in f.schemas
    <2>1. PICK u \in U, z \in ps : p = <<r, u, z>>
        OBVIOUS
    <2>2. CASE u \in tables
        BY <1>3, <2>1, <2>2
    <2>3. CASE u = t
        <3>1. <<r, SchemaOf[t], z>> \in cat.defpriv
            BY <1>2, <2>1, <2>3
        <3>2. <<r, t, z>> \in Inherited(t)
            BY <3>1 DEF Inherited
        <3> QED BY <2>1, <2>3, <3>2
    <2> QED BY <2>1, <2>2, <2>3
<1> QED BY <1>2, <1>4, <1>5 DEF HoldsOn

\* Creating a table keeps the invariant.
LEMMA CreateTableInv ==
    ASSUME AccessTypeOK, AccessInv, NEW t \in Table, CreateTable(t)
    PROVE  AccessTypeOK' /\ AccessInv'
<1> DEFINE P == Inherited(t)
<1>0. cat \in Catalog /\ tables \subseteq Table /\ CatalogInv(cat) /\ AuthorityInv
    BY DEF AccessTypeOK, AccessInv
<1>1. /\ cat' = [cat EXCEPT !.priv = cat.priv \cup P] /\ tables' = tables \cup {t}
      /\ changes < MaxChanges /\ changes' = changes + 1
      /\ tampered' = tampered /\ applied' = applied
    BY DEF CreateTable, Change, AccessTypeOK, Inherited
<1>2. P \subseteq Role \X Table \X Privilege /\ \A p \in P : p[2] = t
    BY <1>0 DEF Catalog, Inherited
<1>3. /\ cat' \in Catalog /\ cat'.priv = cat.priv \cup P /\ cat'.defpriv = cat.defpriv
      /\ cat'.roles = cat.roles /\ cat'.attr = cat.attr /\ cat'.member = cat.member
      /\ cat'.setrole = cat.setrole /\ cat'.readonly = cat.readonly
    BY <1>0, <1>1, <1>2 DEF Catalog
<1>4. AccessTypeOK'
    BY <1>0, <1>1, <1>3 DEF AccessTypeOK
<1>5. CatalogInv(cat)'
    BY <1>0, <1>1, <1>2, <1>3 DEF CatalogInv
<1>6. ASSUME NEW f \in Configs, NEW r \in Managed, NEW ps \in SUBSET Privilege, Holds(cat, r, f, ps)
      PROVE  Holds(cat, r, f, ps)'
    <2>1. r \in Role
        BY DEF Role
    <2>2. HoldsOn(cat', r, f, ps, tables \cup {t})
        BY <1>3, <1>6, <2>1, HoldsNewTable
    <2> QED
        BY <1>1, <2>2 DEF Holds, HoldsOn, TablesOf
<1>7. ASSUME NEW f \in Configs, ReaderSettled(cat, f) PROVE ReaderSettled(cat, f)'
    <2>1. (IF f.delegateReaders THEN {} ELSE {"select"}) \in SUBSET Privilege /\ ReadOnly \in Managed
        BY DEF Privilege, Managed
    <2> QED
        BY <1>3, <1>6, <1>7, <2>1 DEF ReaderSettled
<1>8. ASSUME NEW f \in Configs, NEW l \in Range(Writers(f)), WriterSettled(cat, f, l)
      PROVE  WriterSettled(cat, f, l)'
    <2>1. (IF l.roles = <<>> THEN Privilege ELSE {}) \in SUBSET Privilege
        OBVIOUS
    <2> QED
        BY <1>3, <1>6, <1>8, <2>1, WritersAreManaged DEF WriterSettled
<1>9. AuthorityInv'
    BY <1>0, <1>1, <1>7, <1>8 DEF AuthorityInv, InForce, AccessTypeOK
<1> QED BY <1>4, <1>5, <1>9 DEF AccessInv

\* A change that is no tampering and spares the managed roles.
LEMMA ChangeInv ==
    ASSUME AccessTypeOK, AccessInv, NEW d \in Catalog, Change(d, FALSE), tables' = tables,
           CatalogInv(d), Spares(d, cat), \A r \in Managed : Alike(d, cat, r)
    PROVE  AccessTypeOK' /\ AccessInv'
<1>0. cat \in Catalog /\ CatalogInv(cat) /\ AuthorityInv
    BY DEF AccessTypeOK, AccessInv
<1>1. /\ cat' = d /\ tampered' = tampered /\ applied' = applied /\ changes' \in 0..MaxChanges
    BY DEF Change, AccessTypeOK
<1>2. AccessTypeOK' /\ CatalogInv(cat)'
    BY <1>1 DEF AccessTypeOK, CatalogInv
<1>3. ASSUME NEW f \in InForce
      PROVE  ReaderSettled(cat, f)' /\ \A l \in Range(Writers(f)) : WriterSettled(cat, f, l)'
    <2>1. f \in Configs
        BY DEF InForce, AccessTypeOK
    <2>2. ReaderSettled(d, f) /\ \A l \in Range(Writers(f)) : WriterSettled(d, f, l)
        BY <1>0, <2>1, SettledKept DEF AuthorityInv
    <2> QED
        BY <1>1, <2>2 DEF ReaderSettled, WriterSettled, Holds, TablesOf
<1>4. AuthorityInv'
    BY <1>1, <1>3 DEF AuthorityInv, InForce
<1> QED BY <1>2, <1>4 DEF AccessInv

\* A managed role that was altered: no configuration is in force.
LEMMA TamperInv ==
    ASSUME AccessTypeOK, NEW d \in Catalog, CatalogInv(d), Change(d, TRUE), tables' = tables
    PROVE  AccessTypeOK' /\ AccessInv'
<1>1. cat' = d /\ applied' = applied /\ changes' \in 0..MaxChanges
    BY DEF Change, AccessTypeOK
<1>2. tampered'
    BY Zenon DEF Change
<1>3. tampered' \in BOOLEAN
    BY Zenon DEF Change
<1>4. AccessTypeOK' /\ CatalogInv(cat)'
    BY <1>1, <1>3 DEF AccessTypeOK, CatalogInv
<1>5. AuthorityInv'
    BY <1>2 DEF AuthorityInv, InForce
<1> QED BY <1>4, <1>5 DEF AccessInv

\* Every step keeps the invariant.
LEMMA AccessStepInv ==
    AccessTypeOK /\ AccessInv /\ [AccessNext]_accessVars => (AccessTypeOK /\ AccessInv)'
<1> SUFFICES ASSUME AccessTypeOK, AccessInv, [AccessNext]_accessVars
             PROVE  AccessTypeOK' /\ AccessInv'
    OBVIOUS
<1>0. cat \in Catalog /\ CatalogInv(cat) /\ AuthorityInv
    BY DEF AccessTypeOK, AccessInv
<1>1. ASSUME NEW f \in Configs, Reconcile(f) PROVE AccessTypeOK' /\ AccessInv'
    <2>1. /\ cat' \in Catalog /\ CatalogInv(cat') /\ ReaderSettled(cat', f)
          /\ \A l \in Range(Writers(f)) : WriterSettled(cat', f, l)
          /\ applied' = {f} /\ tampered' = FALSE /\ UNCHANGED <<tables, changes>>
        BY <1>0, <1>1, ReconcileEstablishes
    <2>2. AccessTypeOK' /\ CatalogInv(cat)'
        BY <2>1 DEF AccessTypeOK, CatalogInv
    <2>3. AuthorityInv'
        BY <2>1 DEF AuthorityInv, InForce, ReaderSettled, WriterSettled, Holds, TablesOf
    <2> QED BY <2>2, <2>3 DEF AccessInv
<1>2. ASSUME NEW r \in AppRole \cup Principal, NEW A \in SUBSET Attribute, CreateRole(r, A),
             r \in Principal => A = {"login"}
      PROVE  AccessTypeOK' /\ AccessInv'
    <2> DEFINE d == [cat EXCEPT !.roles = @ \cup {r}, !.attr[r] = A]
    <2>1. r \in Role /\ r \notin Managed
        BY DEF Role, Managed
    <2>2. /\ d \in Catalog /\ d.roles = cat.roles \cup {r} /\ d.attr = [cat.attr EXCEPT ![r] = A]
          /\ d.member = cat.member /\ d.priv = cat.priv /\ d.defpriv = cat.defpriv
          /\ d.setrole = cat.setrole /\ d.readonly = cat.readonly
        BY <1>0, <2>1 DEF Catalog
    <2>3. Change(d, FALSE) /\ tables' = tables
        BY <1>2 DEF CreateRole
    <2> HIDE DEF d
    <2>4. CatalogInv(d)
        BY <1>0, <1>2, <2>1, <2>2 DEF CatalogInv, Catalog
    <2>5. Spares(d, cat) /\ \A m \in Managed : Alike(d, cat, m)
        BY <1>0, <2>1, <2>2 DEF Spares, MembersOf, Alike, Catalog, Role
    <2> QED BY <2>2, <2>3, <2>4, <2>5, ChangeInv
<1>3. ASSUME NEW r \in AppRole, DropRole(r) PROVE AccessTypeOK' /\ AccessInv'
    <2> DEFINE M == {e \in cat.member : r \notin {e[1], e[2]}}
               d == [cat EXCEPT !.roles = @ \ {r}, !.attr[r] = {}, !.member = M]
    <2>1. r \in Role /\ r \notin Managed
        BY DEF Role, Managed
    <2>2. M \subseteq cat.member
        OBVIOUS
    <2>3. Change(d, FALSE) /\ tables' = tables
        BY <1>3 DEF DropRole
    <2> HIDE DEF M
    <2>4. /\ d \in Catalog /\ d.roles = cat.roles \ {r} /\ d.attr = [cat.attr EXCEPT ![r] = {}]
          /\ d.member = M /\ d.priv = cat.priv /\ d.defpriv = cat.defpriv
          /\ d.setrole = cat.setrole /\ d.readonly = cat.readonly
        BY <1>0, <2>1, <2>2 DEF Catalog
    <2> HIDE DEF d
    <2>5. CatalogInv(d)
        BY <1>0, <2>1, <2>2, <2>4 DEF CatalogInv, Catalog
    <2>6. Spares(d, cat) /\ \A m \in Managed : Alike(d, cat, m)
        BY <1>0, <2>1, <2>2, <2>4 DEF Spares, MembersOf, Alike, Catalog, Role
    <2> QED BY <2>3, <2>4, <2>5, <2>6, ChangeInv
<1>4. ASSUME NEW r \in AppRole, NEW t \in Table, NEW p \in Privilege, GrantTable(r, t, p)
      PROVE  AccessTypeOK' /\ AccessInv'
    <2> DEFINE d == [cat EXCEPT !.priv = @ \cup {<<r, t, p>>}]
    <2>1. r \in Role /\ r \notin Managed /\ t \in tables
        BY <1>4 DEF GrantTable, Role, Managed
    <2>2. /\ d \in Catalog /\ d.priv = cat.priv \cup {<<r, t, p>>} /\ d.roles = cat.roles
          /\ d.attr = cat.attr /\ d.member = cat.member /\ d.defpriv = cat.defpriv
          /\ d.setrole = cat.setrole /\ d.readonly = cat.readonly
        BY <1>0, <2>1 DEF Catalog
    <2>3. Change(d, FALSE) /\ tables' = tables
        BY <1>4 DEF GrantTable
    <2> HIDE DEF d
    <2>4. CatalogInv(d)
        BY <1>0, <2>1, <2>2 DEF CatalogInv
    <2>5. Spares(d, cat) /\ \A m \in Managed : Alike(d, cat, m)
        BY <2>1, <2>2 DEF Spares, MembersOf, Alike
    <2> QED BY <2>2, <2>3, <2>4, <2>5, ChangeInv
<1>5. ASSUME NEW g \in AppRole \cup {Owner}, NEW m \in AppRole, GrantRole(g, m)
      PROVE  AccessTypeOK' /\ AccessInv'
    <2> DEFINE d == [cat EXCEPT !.member = @ \cup {<<g, m>>}]
    <2>1. g \in Role /\ m \in Role /\ m \notin Managed /\ m # Owner
        BY DEF Role, Managed
    <2>2. /\ d \in Catalog /\ d.member = cat.member \cup {<<g, m>>} /\ d.roles = cat.roles
          /\ d.attr = cat.attr /\ d.priv = cat.priv /\ d.defpriv = cat.defpriv
          /\ d.setrole = cat.setrole /\ d.readonly = cat.readonly
        BY <1>0, <2>1 DEF Catalog
    <2>3. Change(d, FALSE) /\ tables' = tables
        BY <1>5 DEF GrantRole
    <2> HIDE DEF d
    <2>4. CatalogInv(d)
        BY <1>0, <2>1, <2>2 DEF CatalogInv
    <2>5. Spares(d, cat) /\ \A r \in Managed : Alike(d, cat, r)
        BY <2>1, <2>2 DEF Spares, MembersOf, Alike
    <2> QED BY <2>2, <2>3, <2>4, <2>5, ChangeInv
<1>6. ASSUME NEW m \in Managed, Tamper(m) PROVE AccessTypeOK' /\ AccessInv'
    <2>0. m \in Role /\ m # Owner /\ m \notin AppRole
        BY DEF Role, Managed
    <2>1. PICK d : /\ Change(d, TRUE)
                   /\ \/ \E g \in AppRole : d = [cat EXCEPT !.member = @ \cup {<<g, m>>}]
                      \/ \E t \in tables : d = [cat EXCEPT !.priv = @ \cup {<<m, t, "write">>}]
                      \/ d = [cat EXCEPT !.attr[m] = @ \cup {"bypass", "inherit"}]
        BY <1>6 DEF Tamper
    <2>2. tables' = tables /\ tables \subseteq Table
        BY <1>6 DEF Tamper, AccessTypeOK
    <2>3. CASE \E g \in AppRole : d = [cat EXCEPT !.member = @ \cup {<<g, m>>}]
        <3>1. PICK g \in AppRole : d = [cat EXCEPT !.member = @ \cup {<<g, m>>}]
            BY <2>3
        <3>2. /\ d \in Catalog /\ d.member = cat.member \cup {<<g, m>>} /\ d.priv = cat.priv
              /\ d.roles = cat.roles /\ d.attr = cat.attr
            BY <1>0, <2>0, <3>1 DEF Catalog, Role
        <3>3. CatalogInv(d)
            BY <1>0, <2>0, <3>2 DEF CatalogInv
        <3> QED BY <2>1, <2>2, <3>2, <3>3, TamperInv
    <2>4. CASE \E t \in tables : d = [cat EXCEPT !.priv = @ \cup {<<m, t, "write">>}]
        <3>1. PICK t \in tables : d = [cat EXCEPT !.priv = @ \cup {<<m, t, "write">>}]
            BY <2>4
        <3>2. /\ d \in Catalog /\ d.priv = cat.priv \cup {<<m, t, "write">>}
              /\ d.member = cat.member /\ d.roles = cat.roles /\ d.attr = cat.attr
            BY <1>0, <2>0, <2>2, <3>1 DEF Catalog, Privilege
        <3>3. CatalogInv(d)
            BY <1>0, <2>0, <3>2 DEF CatalogInv
        <3> QED BY <2>1, <2>2, <3>2, <3>3, TamperInv
    <2>5. CASE d = [cat EXCEPT !.attr[m] = @ \cup {"bypass", "inherit"}]
        <3>1. /\ d \in Catalog /\ d.priv = cat.priv /\ d.member = cat.member
              /\ d.roles = cat.roles /\ \A r \in Role : cat.attr[r] \subseteq d.attr[r]
            BY <1>0, <2>0, <2>5 DEF Catalog, Attribute
        <3>2. CatalogInv(d)
            BY <1>0, <3>1 DEF CatalogInv, Catalog
        <3> QED BY <2>1, <2>2, <3>1, <3>2, TamperInv
    <2> QED BY <2>1, <2>3, <2>4, <2>5
<1>7. ASSUME UNCHANGED accessVars PROVE AccessTypeOK' /\ AccessInv'
    BY <1>0, <1>7
    DEF accessVars, AccessTypeOK, AccessInv, AuthorityInv, InForce, CatalogInv, ReaderSettled,
        WriterSettled, Holds, TablesOf
<1> QED
    <2>1. \A A \in {{}, {"login"}, {"admin"}, {"bypass"}} : A \in SUBSET Attribute
        BY DEF Attribute
    <2> QED
        BY <1>1, <1>2, <1>3, <1>4, <1>5, <1>6, <1>7, <2>1, CreateTableInv DEF AccessNext

\* In a new database no configuration is in force.
LEMMA AccessInitInv == AccessInit => AccessTypeOK /\ AccessInv
<1> SUFFICES ASSUME AccessInit PROVE AccessTypeOK /\ AccessInv
    OBVIOUS
<1>1. PICK P \in {{}, Principal} :
          cat = [roles |-> {Owner} \cup P,
                 attr |-> [r \in Role |-> IF r \in P THEN {"login"} ELSE {}],
                 member |-> {}, priv |-> {}, defpriv |-> {}, readonly |-> {},
                 setrole |-> [r \in Role |-> NoRole]]
    BY DEF AccessInit
<1>2. cat \in Catalog
    BY <1>1 DEF Catalog, Role, Attribute
<1>3. CatalogInv(cat)
    BY <1>1 DEF CatalogInv, Role, Managed
<1>4. tables = {} /\ applied = {} /\ tampered = FALSE /\ changes = 0
    BY DEF AccessInit
<1>5. AccessTypeOK
    <2>1. applied \in {{}} \cup {{f} : f \in Configs} /\ tampered \in BOOLEAN
        BY <1>4, Zenon
    <2>2. tables \subseteq Table /\ changes \in 0..MaxChanges
        BY <1>4
    <2> QED BY <1>2, <2>1, <2>2 DEF AccessTypeOK
<1>6. InForce = {}
    BY <1>4 DEF InForce
<1> QED
    BY <1>3, <1>5, <1>6 DEF AccessInv, AuthorityInv

\* The catalog keeps its shape (libs/go/controlplane/access.go): in particular
\* an application role is never made a member of a managed role.
THEOREM RuntimeAccessInvariant == AccessSpec => [](AccessTypeOK /\ AccessInv)
BY AccessInitInv, AccessStepInv, PTL DEF AccessSpec

\* What a writer may do is what the configuration in force says, whatever
\* configurations came before, however many logins were reconciled after it and
\* whatever migrations created since (access.go ReconcileRuntimeAccess).
THEOREM RuntimeAccessWriter == AccessSpec => []WriterAuthority
<1>1. AccessTypeOK /\ AccessInv => WriterAuthority
    <2> SUFFICES ASSUME AccessTypeOK, AccessInv, NEW f \in InForce, NEW l \in Range(Writers(f))
                 PROVE  /\ Unprivileged(l.role)
                        /\ {g \in Role : <<g, l.role>> \in cat.member} \subseteq Range(l.roles)
                        /\ Direct(l.role, f) = IF Range(l.roles) = {}
                                THEN {l.role} \X TablesOf(f) \X Privilege ELSE {}
                        /\ ~f.external => cat.setrole[l.role] = DefaultRole(l.roles)
        BY DEF WriterAuthority
    <2>1. f \in Configs /\ WriterSettled(cat, f, l)
        BY DEF InForce, AccessTypeOK, AccessInv, AuthorityInv
    <2>2. Range(l.roles) = {} <=> l.roles = <<>>
        <3>1. l.roles \in Seq(Role)
            BY <2>1, WritersAreManaged
        <3>2. DOMAIN l.roles = 1..Len(l.roles) /\ Len(l.roles) \in Nat
            BY <3>1, LenProperties
        <3>3. l.roles # <<>> => l.roles[1] \in Range(l.roles)
            BY <3>1, <3>2, EmptySeq DEF Range
        <3>4. l.roles = <<>> => DOMAIN l.roles = {}
            BY <3>2
        <3> QED BY <3>3, <3>4 DEF Range
    <2>3. Unprivileged(l.role)
        BY <2>1 DEF WriterSettled, Unprivileged
    <2>4. Direct(l.role, f) = IF Range(l.roles) = {}
              THEN {l.role} \X TablesOf(f) \X Privilege ELSE {}
        BY <2>1, <2>2 DEF WriterSettled, Direct, Holds
    <2> QED
        BY <2>1, <2>3, <2>4 DEF WriterSettled
<1> QED
    BY RuntimeAccessInvariant, <1>1, PTL

\* The reader's own privileges are to select from every table of the exposed
\* schemas; delegated, it has none and only the configured readers.  Memberships
\* of a reader that is not delegated are not reconciled and not claimed about
\* (access.go ReconcileRuntimeAccess).
THEOREM RuntimeAccessReader == AccessSpec => []ReaderAuthority
<1>1. AccessTypeOK /\ AccessInv => ReaderAuthority
    <2> SUFFICES ASSUME AccessTypeOK, AccessInv, NEW f \in InForce
                 PROVE  /\ Unprivileged(ReadOnly)
                        /\ Direct(ReadOnly, f) = IF f.delegateReaders THEN {}
                                                 ELSE {ReadOnly} \X TablesOf(f) \X {"select"}
                        /\ f.delegateReaders =>
                              {g \in Role : <<g, ReadOnly>> \in cat.member} \subseteq f.readers
                        /\ ~f.external => ReadOnly \in cat.readonly
        BY DEF ReaderAuthority
    <2>1. ReaderSettled(cat, f)
        BY DEF AccessInv, AuthorityInv
    <2>2. Direct(ReadOnly, f) = IF f.delegateReaders THEN {}
                                ELSE {ReadOnly} \X TablesOf(f) \X {"select"}
        BY <2>1 DEF ReaderSettled, Direct, Holds
    <2> QED
        BY <2>1, <2>2 DEF ReaderSettled, Unprivileged
<1> QED
    BY RuntimeAccessInvariant, <1>1, PTL

-----------------------------------------------------------------------------
(* Chains of memberships.                                                  *)

\* Has is the least set with the role that is closed under memberships.
LEMMA HasLeast ==
    ASSUME NEW c, NEW m, NEW S \in SUBSET Role, m \in S,
           \A e \in c.member : e[2] \in S => e[1] \in S
    PROVE  Has(c, m) \subseteq S
BY DEF Has

\* A role has itself, and whatever the roles it has are members of.
LEMMA HasClosed ==
    ASSUME NEW c \in Catalog, NEW m \in Role
    PROVE  /\ m \in Has(c, m) /\ Has(c, m) \subseteq Role
           /\ \A e \in c.member : e[2] \in Has(c, m) => e[1] \in Has(c, m)
<1>1. \A e \in c.member : e[1] \in Role
    BY DEF Catalog
<1>2. ASSUME NEW e \in c.member, e[2] \in Has(c, m) PROVE e[1] \in Has(c, m)
    <2>1. ASSUME NEW S \in SUBSET Role, m \in S, \A d \in c.member : d[2] \in S => d[1] \in S
          PROVE  e[1] \in S
        <3>1. e[2] \in S
            BY <1>2, <2>1, HasLeast
        <3> QED BY <2>1, <3>1
    <2> QED BY <1>1, <2>1 DEF Has
<1> QED BY <1>2 DEF Has

\* What a role that validateReaderRoles lets through reaches is application
\* roles only: it is none of the agent's, the provider's or the owner.
LEMMA ReaderReaches ==
    ASSUME NEW b \in Catalog, CatalogInv(b), NEW a, IsAccess(a), a.external,
           NEW r \in Role, ReaderAllowed(b, a, r)
    PROVE  r \in AppRole /\ Has(b, r) \subseteq AppRole
<1>1. /\ r \in b.roles /\ "login" \notin b.attr[r]
      /\ \A x \in Has(b, r) : x \notin {Owner, ReadOnly, a.writer}
    BY DEF ReaderAllowed
<1>2. r \in Has(b, r)
    BY HasClosed
<1>3. r \in AppRole
    BY <1>1, <1>2 DEF CatalogInv, IsAccess, Role, Managed
<1>4. Has(b, r) \subseteq AppRole \cup {Owner}
    <2> DEFINE S == AppRole \cup {Owner}
    <2>1. S \in SUBSET Role /\ r \in S
        BY <1>3 DEF Role
    <2>2. \A e \in b.member : e[2] \in S => e[1] \in S
        BY DEF CatalogInv
    <2> HIDE DEF S
    <2>3. Has(b, r) \subseteq S
        BY <2>1, <2>2, HasLeast
    <2> QED BY <2>3 DEF S
<1> QED BY <1>1, <1>3, <1>4

\* After a reconciliation the reader reaches itself and what the checked reader
\* roles reached when they were checked.
LEMMA ReadersReach ==
    ASSUME AccessTypeOK, CatalogInv(cat), NEW f \in Configs, Reconcile(f), f.delegateReaders,
           NEW x \in Has(cat', ReadOnly)
    PROVE  /\ x # Owner
           /\ cat'.attr[x] \cap {"admin", "bypass"} = {}
           /\ \A p \in cat'.priv :
                p[1] = x /\ p[3] = "write" => SchemaOf[p[2]] \notin f.schemas
<1> DEFINE d == cat'
           l == Writers(f)[1]
           a == Access(f, l)
           g == EnsureGroupRole(EnsureGroupRole(cat, ReadOnly), a.writer)
<1>0. cat \in Catalog /\ tables \subseteq Table /\ f.external
    BY ConfigsAssumption DEF AccessTypeOK
<1>1. l \in Writer /\ l.role = ReadWrite
    <2>1. l = [role |-> ReadWrite, roles |-> f.roles]
        BY WritersOf
    <2> QED BY <2>1, ConfigsAssumption DEF Writer, WriterRole
<1>2. d \in ReconcileRuntimeAccess(cat, a)
    BY <1>0 DEF Reconcile, ManagedAccess
<1> HIDE DEF d, l
<1>3. /\ d.attr[ReadOnly] = {}
      /\ Holds(d, ReadOnly, f, Wanted({"select"}, ~f.delegateReaders))
    BY <1>0, <1>1, <1>2, ReconcileSettles
<1>4. IsAccess(a)
    BY <1>0, <1>1, AccessOf
<1>5. a.external /\ a.delegateReaders /\ a.readers = f.readers /\ a.schemas = f.schemas
    BY <1>0 DEF Access
<1> HIDE DEF a
<1>6. PICK b \in Catalog :
        /\ b = ReconcileGrants(g, a) /\ \A r \in a.readers : ReaderAllowed(b, a, r)
        /\ d \in Catalog /\ CatalogInv(d) /\ SameButMembers(d, b) /\ MembersFrom(d, b, a)
    BY <1>0, <1>2, <1>4, <1>5, ReconcileStages
<1>7. CatalogInv(b)
    <2>1. g \in Catalog /\ CatalogInv(g)
        BY <1>0, <1>4, <1>5, GroupsOf
    <2> HIDE DEF g
    <2> QED BY <1>0, <1>4, <1>6, <2>1, GrantsOf
<1>8. ASSUME NEW r \in a.readers
      PROVE  /\ r \in Role /\ ReaderAllowed(b, a, r) /\ r \in Has(b, r) /\ Has(b, r) \subseteq AppRole
             /\ \A e \in b.member : e[2] \in Has(b, r) => e[1] \in Has(b, r)
    <2>1. r \in Role /\ ReaderAllowed(b, a, r)
        BY <1>4, <1>6 DEF IsAccess
    <2> QED BY <1>4, <1>5, <1>7, <2>1, ReaderReaches, HasClosed
<1> DEFINE R == UNION {Has(b, r) : r \in a.readers}
           S == {ReadOnly} \cup R
<1>9. R \subseteq AppRole /\ a.readers \subseteq R
    BY <1>8
<1>10. S \in SUBSET Role /\ ReadOnly \in S
    BY <1>9 DEF Role, Managed
<1>11. ASSUME NEW e \in d.member, e[2] \in S PROVE e[1] \in S
    <2>1. e[2] \notin Principal /\ e[2] # a.writer
        BY <1>4, <1>9, <1>11 DEF IsAccess, WriterRole
    <2>2. CASE e[2] = ReadOnly /\ e[1] \in a.readers
        BY <1>9, <2>2
    <2>3. CASE e \in b.member /\ e[2] # ReadOnly
        <3>1. PICK r \in a.readers : e[2] \in Has(b, r)
            BY <1>11, <2>3
        <3> QED BY <1>8, <2>3, <3>1
    <2> QED
        BY <1>5, <1>6, <2>1, <2>2, <2>3 DEF MembersFrom
<1> HIDE DEF S
<1>12. x \in S
    BY <1>10, <1>11, HasLeast DEF d
<1>13. CASE x = ReadOnly
    <2>1. x # Owner
        BY <1>13 DEF Managed
    <2>2. {p \in d.priv : p[1] = ReadOnly /\ SchemaOf[p[2]] \in f.schemas} = {}
        BY <1>3 DEF Holds, Wanted
    <2> QED BY <1>3, <1>13, <2>1, <2>2 DEF d
<1>14. CASE x # ReadOnly
    <2>1. PICK r \in a.readers : x \in Has(b, r)
        BY <1>12, <1>14 DEF S
    <2>2. /\ b.attr[x] \cap {"admin", "bypass"} = {}
          /\ ~ \E t \in TablesOf(a) : <<x, t, "write">> \in b.priv
        BY <1>8, <2>1 DEF ReaderAllowed
    <2>3. x # Owner
        BY <1>8, <2>1
    <2>4. ASSUME NEW p \in d.priv, p[1] = x, p[3] = "write", SchemaOf[p[2]] \in f.schemas
          PROVE  FALSE
        <3>1. p \in Role \X Table \X Privilege /\ p \in b.priv /\ p[2] \in tables
            BY <1>6, <2>4 DEF Catalog, CatalogInv, SameButMembers
        <3>2. p = <<x, p[2], "write">> /\ p[2] \in TablesOf(a)
            BY <1>5, <2>4, <3>1 DEF TablesOf
        <3> QED BY <2>2, <3>1, <3>2
    <2> QED
        BY <1>6, <2>2, <2>3, <2>4 DEF d, SameButMembers
<1> QED BY <1>13, <1>14

\* Right after a reconciliation that delegates readers nothing the reader can
\* reach, through any chain of memberships, is privileged, the owner, or may
\* write in the exposed schemas (access.go validateReaderRoles).
THEOREM RuntimeAccessReadersOnlyRead == AccessSpec => ReadersOnlyRead
<1>1. ASSUME AccessTypeOK, AccessInv
      PROVE  \A f \in Configs : (Reconcile(f) /\ f.delegateReaders) =>
                \A x \in Has(cat', ReadOnly) :
                    /\ x # Owner
                    /\ cat'.attr[x] \cap {"admin", "bypass"} = {}
                    /\ \A p \in cat'.priv :
                          p[1] = x /\ p[3] = "write" => SchemaOf[p[2]] \notin f.schemas
    BY <1>1, ReadersReach DEF AccessInv
<1>2. AccessTypeOK /\ AccessInv =>
        [\A f \in Configs : (Reconcile(f) /\ f.delegateReaders) =>
            \A x \in Has(cat', ReadOnly) :
                /\ x # Owner
                /\ cat'.attr[x] \cap {"admin", "bypass"} = {}
                /\ \A p \in cat'.priv :
                      p[1] = x /\ p[3] = "write" => SchemaOf[p[2]] \notin f.schemas]_accessVars
    BY <1>1
<1> QED
    BY RuntimeAccessInvariant, <1>2, PTL DEF ReadersOnlyRead

=============================================================================
