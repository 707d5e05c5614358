------------------------------ MODULE Sessions ------------------------------
(***************************************************************************)
(* The consumer library's database boundary: libs/go/open.go,              *)
(* maintenance.go, connection_policy.go, session_policy.go and the         *)
(* transactions of store.go, opened WithRestrictedSession and              *)
(* WithOperationTimeout.                                                   *)
(*                                                                         *)
(* Requests share the physical connections of a pool.  A callback may      *)
(* leave a setting or a role behind on its session; a denied role may be   *)
(* granted to a login and revoked again at any time; a request may run out *)
(* of time anywhere.  A callback, and an application's connection policy,  *)
(* are consumer code: the library gives them a context that expires and    *)
(* cannot interrupt them.  The pool itself (pgxpool) is external: it constructs         *)
(* connections on its own, runs the hooks, and destroys a connection that  *)
(* is released in a transaction.                                           *)
(***************************************************************************)
EXTENDS Naturals, FiniteSets

CONSTANTS
    Request,        \* callers of InTransaction, each for one principal
    Conn,           \* physical connections
    PoolOf,         \* [Request -> Pool], the capability of each
    ScopeOf,        \* [Request -> Scope], the principal's tenant; Empty for maintenance
    Scope, Empty,   \* tenants and the empty setting
    Unset,          \* a setting nobody made, an absent connection or request
    GrantPools,      \* pools whose login an operator may make a member of a denied role
    MaxGrants       \* bound on grants and revocations of a denied role

Pool == {"read-only", "read-write", "maintenance"}

\* Values the scope's setting takes.
Setting == Scope \cup {ScopeOf[q] : q \in Request}

\* The role a connection is made with, another role its login may select (for
\* maintenance the login itself, with SET ROLE NONE), and a denied one.
SessionRole == {"own", "allowed", "denied"}

Connection == [pool : Pool, session : Setting \cup {Unset}, local : Setting \cup {Unset},
               pending : Setting \cup {Unset}, role : SessionRole,
               pendingRole : SessionRole \cup {Unset}, tx : BOOLEAN]

ASSUME PoolOfAssumption == PoolOf \in [Request -> Pool]
ASSUME UnsetAssumption == Unset \notin Setting \cup Conn \cup Connection
ASSUME MaxGrantsAssumption == MaxGrants \in Nat

VARIABLES
    boundary,   \* progress of Open and of OpenMaintenance
    pools,      \* pools that are open
    conn,       \* [Conn -> connection or Unset]
    req,        \* [Request -> program counter]
    on,         \* [Request -> the connection it holds, or Unset]
    late,       \* requests whose context has expired
    changed,    \* requests whose own callback changed its session's scope or role
    granted,    \* pools whose login is a member of a denied role
    grants      \* grants and revocations so far

openVars == <<boundary, pools>>
sessVars == <<boundary, pools, conn, req, on, late, changed, granted, grants>>

\* A connection: its pool, the session's setting, the transaction's local
\* setting, the setting the transaction's callback made for the session, the
\* current role, the role the callback selected, and the transaction state.
Fresh(p) == [pool |-> p, session |-> Unset, local |-> Unset, pending |-> Unset,
             role |-> "own", pendingRole |-> Unset, tx |-> FALSE]

\* What current_setting returns, and current_user.
EffectiveScope(c) ==
    IF conn[c].pending # Unset THEN conn[c].pending
    ELSE IF conn[c].local # Unset THEN conn[c].local ELSE conn[c].session

Held == {on[q] : q \in Request} \ {Unset}
Idle == {c \in Conn : conn[c] # Unset} \ Held

-----------------------------------------------------------------------------
(* Open: the reader pool, the writer pool, a ping of each, the factory.    *)
(* OpenMaintenance: one pool, a ping.  A failure closes what was opened.   *)

Needs == [factory |-> {"read-only", "read-write"}, maintenance |-> {"maintenance"}]

\* Mutation: a failure closes only the pool whose step failed.
CloseLast(b, p) == {p}

\* closePools (and readerPool.Close, pool.Close) on an error.
CloseOnError(b, p) == Needs[b]

\* pgxpool.NewWithConfig, reader first.
OpenPool(b, p) ==
    /\ boundary[b] = "opening" /\ p \in Needs[b] \ pools
    /\ p = "read-write" => "read-only" \in pools
    /\ pools' = pools \cup {p}
    /\ boundary' = IF Needs[b] \subseteq pools' THEN [boundary EXCEPT ![b] = "ping"]
                                                ELSE boundary
    /\ UNCHANGED <<conn, req, on, late, changed, granted, grants>>

\* Every ping succeeded (each on a connection the pool made) and the boundary
\* is handed out.
OpenReady(b) ==
    /\ boundary[b] = "ping"
    /\ \A p \in Needs[b] : \E c \in Idle : conn[c].pool = p
    /\ boundary' = [boundary EXCEPT ![b] = "ready"]
    /\ UNCHANGED <<pools, conn, req, on, late, changed, granted, grants>>

\* A pool cannot be opened or a ping fails.
OpenFails(b, p) ==
    /\ boundary[b] \in {"opening", "ping"} /\ p \in Needs[b]
    /\ boundary[b] = "opening" => p \notin pools
    /\ pools' = pools \ CloseOnError(b, p)
    /\ conn' = [c \in Conn |-> IF conn[c] # Unset /\ conn[c].pool \in CloseOnError(b, p)
                               THEN Unset ELSE conn[c]]
    /\ boundary' = [boundary EXCEPT ![b] = "failed"]
    /\ UNCHANGED <<req, on, late, changed, granted, grants>>

-----------------------------------------------------------------------------
(* Connections.                                                            *)

\* Mutation: the session's login is examined, its current role is not.
LoginAllowed(pool, role) == pool \notin granted

\* checkRestrictedSession: neither the login nor the current role is, or is a
\* member of, a denied or privileged role.  Any other current role is admitted.
RestrictedSessionAllowed(pool, role) == pool \notin granted /\ role # "denied"

\* The pool constructs a connection; AfterConnect validates it (a maintenance
\* role is qualified here and only here), and a refused one never enters the
\* pool.
Connect(c, p) ==
    /\ p \in pools /\ conn[c] = Unset
    /\ RestrictedSessionAllowed(p, "own")
    /\ conn' = [conn EXCEPT ![c] = Fresh(p)]
    /\ UNCHANGED <<openVars, req, on, late, changed, granted, grants>>

\* The pool drops an idle connection, or the server closes it.
Disconnect(c) ==
    /\ c \in Idle
    /\ conn' = [conn EXCEPT ![c] = Unset]
    /\ UNCHANGED <<openVars, req, on, late, changed, granted, grants>>

\* An operator grants a denied role to a pool's login, or revokes it.
ChangeGrant(p) ==
    /\ p \in GrantPools /\ grants < MaxGrants
    /\ grants' = grants + 1
    /\ granted' = IF p \in granted THEN granted \ {p} ELSE granted \cup {p}
    /\ UNCHANGED <<openVars, conn, req, on, late, changed>>

-----------------------------------------------------------------------------
(* A request: Factory.Reader, Factory.Writer or Maintenance, then          *)
(* runTransaction.                                                         *)

Ready(q) == boundary[IF PoolOf[q] = "maintenance" THEN "maintenance" ELSE "factory"] = "ready"

\* principal, and AuthorizeDatabaseWrite for a writer: the authenticator refuses,
\* or the capability is bound to the principal's scope.  A principal may come
\* back with another request.
Authenticate(q) ==
    /\ req[q] \in {"new", "refused", "ok", "error", "commitError"} /\ Ready(q)
    /\ \E next \in {"refused", "acquire"} : req' = [req EXCEPT ![q] = next]
    /\ late' = late \ {q} /\ changed' = changed \ {q}
    /\ UNCHANGED <<openVars, conn, on, granted, grants>>

Expire(q) ==
    /\ req[q] \in {"acquire", "scope", "callback", "commit"} /\ q \notin late
    /\ late' = late \cup {q}
    /\ UNCHANGED <<openVars, conn, req, on, changed, granted, grants>>

\* BeginTx: the pool hands out an idle connection and PrepareConn validates it.
Acquire(q, c) ==
    /\ req[q] = "acquire" /\ c \in Idle /\ conn[c].pool = PoolOf[q]
    /\ q \notin late
    /\ RestrictedSessionAllowed(conn[c].pool, conn[c].role)
    /\ on' = [on EXCEPT ![q] = c]
    /\ conn' = [conn EXCEPT ![c].tx = TRUE]
    /\ req' = [req EXCEPT ![q] = "scope"]
    /\ UNCHANGED <<openVars, late, changed, granted, grants>>

\* A connection that is refused, or judged by a check that finished late, is
\* destroyed, and the acquisition fails with the reason.
AcquireRefused(q, c) ==
    /\ req[q] = "acquire" /\ c \in Idle /\ conn[c].pool = PoolOf[q]
    /\ q \in late \/ ~RestrictedSessionAllowed(conn[c].pool, conn[c].role)
    /\ conn' = [conn EXCEPT ![c] = Unset]
    /\ req' = [req EXCEPT ![q] = "error"]
    /\ UNCHANGED <<openVars, on, late, changed, granted, grants>>

\* Mutation: the wait for a connection ignores the context.
AcquireWaits(q) == FALSE /\ UNCHANGED sessVars

\* No connection before the context expired, none can be made, or BEGIN failed.
AcquireFails(q) ==
    /\ req[q] = "acquire"
    /\ req' = [req EXCEPT ![q] = "error"]
    /\ UNCHANGED <<openVars, conn, on, late, changed, granted, grants>>

\* Mutation: an empty scope installs nothing.
ScopeIfAny(s) == IF s = Empty THEN Unset ELSE s

\* The transaction-local value set_config(..., true) installs; Maintenance.scope
\* installs the empty one.
InstalledScope(s) == s

InstallScope(q) ==
    /\ req[q] = "scope" /\ q \notin late
    /\ conn' = [conn EXCEPT ![on[q]].local = InstalledScope(ScopeOf[q])]
    /\ req' = [req EXCEPT ![q] = "callback"]
    /\ UNCHANGED <<openVars, on, late, changed, granted, grants>>

\* The callback sets the scope for its whole session, or selects a role of its
\* login, a denied one while that is granted; both outlive the transaction if it
\* commits.
CallbackSetsScope(q, s) ==
    /\ req[q] = "callback"
    /\ conn' = [conn EXCEPT ![on[q]].pending = s]
    /\ changed' = changed \cup {q}
    /\ UNCHANGED <<openVars, req, on, late, granted, grants>>

CallbackSetsRole(q, role) ==
    /\ req[q] = "callback"
    /\ role = "denied" => PoolOf[q] \in granted
    /\ conn' = [conn EXCEPT ![on[q]].pendingRole = role]
    /\ changed' = changed \cup {q}
    /\ UNCHANGED <<openVars, req, on, late, granted, grants>>

CallbackReturns(q) ==
    /\ req[q] = "callback"
    /\ req' = [req EXCEPT ![q] = "commit"]
    /\ UNCHANGED <<openVars, conn, on, late, changed, granted, grants>>

\* What the server keeps of a session when its transaction commits or aborts.
Committed(k) == [k EXCEPT !.session = IF k.pending # Unset THEN k.pending ELSE @,
                          !.role = IF k.pendingRole # Unset THEN k.pendingRole ELSE @,
                          !.local = Unset, !.pending = Unset, !.pendingRole = Unset,
                          !.tx = FALSE]
Aborted(k) == [k EXCEPT !.local = Unset, !.pending = Unset, !.pendingRole = Unset,
                        !.tx = FALSE]

\* Release: a connection that is still in a transaction is destroyed.
Released(k) == IF k.tx THEN Unset ELSE k

\* COMMIT is acknowledged.
Commit(q) ==
    /\ req[q] = "commit" /\ q \notin late
    /\ conn' = [conn EXCEPT ![on[q]] = Released(Committed(@))]
    /\ on' = [on EXCEPT ![q] = Unset]
    /\ req' = [req EXCEPT ![q] = "ok"]
    /\ UNCHANGED <<openVars, late, changed, granted, grants>>

\* COMMIT is refused and the transaction aborted, or its answer is lost and the
\* connection with it.
CommitFails(q) ==
    /\ req[q] = "commit"
    /\ \E k \in {Aborted(conn[on[q]]), Unset} : conn' = [conn EXCEPT ![on[q]] = k]
    /\ on' = [on EXCEPT ![q] = Unset]
    /\ req' = [req EXCEPT ![q] = "commitError"]
    /\ UNCHANGED <<openVars, late, changed, granted, grants>>

\* The scope cannot be installed, or the callback returns an error: the
\* deferred Rollback reaches the server, or the context has expired, pgx closes
\* the connection, and the pool destroys it.
Fails(q) ==
    /\ req[q] \in {"scope", "callback"}
    /\ conn' = [conn EXCEPT ![on[q]] = Released(IF q \in late THEN @ ELSE Aborted(@))]
    /\ on' = [on EXCEPT ![q] = Unset]
    /\ req' = [req EXCEPT ![q] = "error"]
    /\ UNCHANGED <<openVars, late, changed, granted, grants>>

-----------------------------------------------------------------------------
SessInit ==
    /\ boundary = [b \in {"factory", "maintenance"} |-> "opening"]
    /\ pools = {}
    /\ conn = [c \in Conn |-> Unset]
    /\ req = [q \in Request |-> "new"]
    /\ on = [q \in Request |-> Unset]
    /\ late = {} /\ changed = {} /\ granted = {} /\ grants = 0

\* The steps of a call of InTransaction.
RequestStep(q) ==
    \/ AcquireFails(q) \/ InstallScope(q) \/ CallbackReturns(q)
    \/ Commit(q) \/ CommitFails(q) \/ Fails(q)
    \/ \E c \in Conn : Acquire(q, c) \/ AcquireRefused(q, c)

SessNext ==
    \/ \E b \in DOMAIN Needs : OpenReady(b) \/ \E p \in Pool : OpenPool(b, p) \/ OpenFails(b, p)
    \/ \E c \in Conn : Disconnect(c) \/ \E p \in Pool : Connect(c, p)
    \/ \E p \in Pool : ChangeGrant(p)
    \/ \E q \in Request :
          \/ Authenticate(q) \/ Expire(q) \/ RequestStep(q)
          \/ \E role \in SessionRole : CallbackSetsRole(q, role)
          \/ \E s \in Scope : CallbackSetsScope(q, s)

\* What the library itself does once the context of a call has expired.  The
\* callback is not its own, and a policy at checkout is taken to honour the
\* context it is given.
ExpiredStep(q) == q \in late /\ req[q] # "callback" /\ RequestStep(q)

\* The operation timeout expires, and the library's code goes on after it.
SessFairness == \A q \in Request : WF_sessVars(Expire(q)) /\ WF_sessVars(ExpiredStep(q))

SessSpec == SessInit /\ [][SessNext]_sessVars

-----------------------------------------------------------------------------
\* A callback's queries are scoped to its own principal, and a maintenance
\* callback's to nobody, whatever an earlier request left on the session it
\* shares (store.go runTransaction, maintenance.go scope).
ScopeIsOwn ==
    \A q \in Request : req[q] = "callback" /\ q \notin changed =>
        EffectiveScope(on[q]) = ScopeOf[q]

\* No callback starts in a denied role, not even on a session that selected it
\* while it was granted and kept it when it was revoked, and each starts on a
\* connection of its own capability (connection_policy.go PrepareConn,
\* session_policy.go).
NoDeniedRole ==
    \A q \in Request : req[q] \in {"scope", "callback"} /\ q \notin changed =>
        conn[on[q]].role # "denied" /\ conn[on[q]].pool = PoolOf[q]

\* An Open or OpenMaintenance that failed leaves no pool and no connection
\* behind (open.go, maintenance.go: each error path closes the pools).
FailedOpenLeaksNothing ==
    \A b \in DOMAIN Needs : boundary[b] = "failed" =>
        /\ pools \cap Needs[b] = {}
        /\ \A c \in Conn : conn[c] # Unset => conn[c].pool \notin Needs[b]

\* With an operation timeout a call waits forever neither for a connection, when
\* every one is taken or refused too, nor for its scope, nor for COMMIT: it comes
\* to its callback or returns (store.go runTransaction, connection_policy.go).
WaitsEnd ==
    \A q \in Request : req[q] \in {"acquire", "scope", "commit"} ~>
        req[q] \in {"callback", "ok", "error", "commitError"}

-----------------------------------------------------------------------------
(* Types, and the inductive invariant behind the safety properties *)

Holding == {"scope", "callback", "commit"}

SessTypeOK ==
    /\ boundary \in [DOMAIN Needs -> {"opening", "ping", "ready", "failed"}]
    /\ pools \subseteq Pool /\ granted \subseteq Pool /\ grants \in 0..MaxGrants
    /\ conn \in [Conn -> Connection \cup {Unset}]
    /\ req \in [Request -> {"new", "refused", "acquire", "ok", "error", "commitError"} \cup Holding]
    /\ on \in [Request -> Conn \cup {Unset}]
    /\ late \subseteq Request /\ changed \subseteq Request

\* A connection is of an open pool; a boundary that failed has none, and one
\* that a request has seen ready stays so.
PoolInv ==
    /\ \A c \in Conn : conn[c] # Unset => conn[c].pool \in pools
    /\ \A b \in DOMAIN Needs : boundary[b] = "failed" => pools \cap Needs[b] = {}
    /\ \A q \in Request : req[q] # "new" => Ready(q)

\* A request holds a connection of its own pool from BEGIN to the end of its
\* transaction, in a role that is not denied, with its own scope on it.
HoldInv(q) ==
    /\ req[q] \in Holding <=> on[q] # Unset
    /\ on[q] # Unset =>
        /\ conn[on[q]] # Unset
        /\ conn[on[q]].pool = PoolOf[q] /\ conn[on[q]].role # "denied"
        /\ conn[on[q]].tx
    /\ req[q] = "scope" => conn[on[q]].pending = Unset
    /\ req[q] = "callback" /\ q \notin changed =>
        conn[on[q]].pending = Unset /\ conn[on[q]].local = ScopeOf[q]

\* No two requests hold one connection.
ApartInv == \A q, r \in Request : on[q] = on[r] /\ on[q] # Unset => q = r

\* No transaction's setting is left on an idle connection.
IdleInv(c) == c \in Idle => conn[c].pending = Unset

SessInv ==
    /\ PoolInv /\ ApartInv
    /\ \A q \in Request : HoldInv(q)
    /\ \A c \in Conn : IdleInv(c)

=============================================================================
