--------------------------- MODULE SessionsProofs ---------------------------
(***************************************************************************)
(* What a request finds on the connection it is handed, for any requests,  *)
(* pools, scopes and connections.                                          *)
(***************************************************************************)
EXTENDS Sessions, TLAPS

USE PoolOfAssumption, UnsetAssumption, MaxGrantsAssumption DEF Pool, SessionRole

-----------------------------------------------------------------------------
(* What the server and the pool make of a connection *)

\* A connection stays one, of its pool, whichever of its parts changes.
LEMMA ChangedConn ==
    ASSUME NEW k \in Connection
    PROVE  /\ [k EXCEPT !.tx = TRUE] \in Connection
           /\ \A s \in Setting : [k EXCEPT !.local = s] \in Connection
           /\ \A s \in Setting : [k EXCEPT !.pending = s] \in Connection
           /\ \A role \in SessionRole : [k EXCEPT !.pendingRole = role] \in Connection
BY DEF Connection

\* A transaction that ends leaves nothing pending, and its connection to the pool.
LEMMA EndedConn ==
    ASSUME NEW k \in Connection
    PROVE  /\ Committed(k) \in Connection /\ Aborted(k) \in Connection
           /\ Committed(k).pool = k.pool /\ Aborted(k).pool = k.pool
           /\ Committed(k).pending = Unset /\ Aborted(k).pending = Unset
           /\ Released(Committed(k)) = Committed(k) /\ Released(Aborted(k)) = Aborted(k)
<1>1. Committed(k) \in Connection /\ Committed(k).pool = k.pool /\ Committed(k).pending = Unset
    BY DEF Committed, Connection
<1>2. Aborted(k) \in Connection /\ Aborted(k).pool = k.pool /\ Aborted(k).pending = Unset
    BY DEF Aborted, Connection
<1>3. ~Committed(k).tx /\ ~Aborted(k).tx
    BY DEF Committed, Aborted, Connection
<1> QED
    BY <1>1, <1>2, <1>3 DEF Released

\* Every step of the pools, of an operator and of a request keeps the invariant.
LEMMA SessStep ==
    SessTypeOK /\ SessInv /\ [SessNext]_sessVars => SessTypeOK' /\ SessInv'
<1> SUFFICES ASSUME SessTypeOK, SessInv, [SessNext]_sessVars PROVE SessTypeOK' /\ SessInv'
    OBVIOUS
<1>a. /\ PoolInv /\ ApartInv /\ (\A r \in Request : HoldInv(r)) /\ \A d \in Conn : IdleInv(d)
    BY DEF SessInv
<1>b. ASSUME SessTypeOK', PoolInv', ApartInv', \A r \in Request : HoldInv(r)', \A d \in Conn : IdleInv(d)'
      PROVE  SessTypeOK' /\ SessInv'
    BY <1>b DEF SessInv
<1>i. \A d \in Conn : d \in Idle <=> conn[d] # Unset /\ \A r \in Request : on[r] # d
    BY DEF Idle, Held
<1>j. \A d \in Conn : d \in Idle' <=> conn'[d] # Unset /\ \A r \in Request : on'[r] # d
    BY DEF Idle, Held
<1>OpenPool. ASSUME NEW b \in DOMAIN Needs, NEW p \in Pool, OpenPool(b, p)
             PROVE  SessTypeOK' /\ SessInv'
    <2>1. SessTypeOK'
        BY <1>a, <1>OpenPool DEF OpenPool, SessTypeOK, Holding, Needs
    <2>2. PoolInv'
        BY <1>a, <1>OpenPool DEF OpenPool, SessTypeOK, PoolInv, Ready, Needs
    <2>3. ApartInv'
        BY <1>a, <1>OpenPool DEF OpenPool, SessTypeOK, ApartInv
    <2>4. ASSUME NEW r \in Request PROVE HoldInv(r)'
        BY <1>a, <1>OpenPool DEF OpenPool, SessTypeOK, HoldInv, Holding
    <2>5. ASSUME NEW d \in Conn PROVE IdleInv(d)'
        BY <1>a, <1>OpenPool, <1>i, <1>j DEF OpenPool, SessTypeOK, IdleInv
    <2> QED BY <1>b, <2>1, <2>2, <2>3, <2>4, <2>5
<1>OpenReady. ASSUME NEW b \in DOMAIN Needs, OpenReady(b) PROVE SessTypeOK' /\ SessInv'
    <2>1. SessTypeOK'
        BY <1>a, <1>OpenReady DEF OpenReady, SessTypeOK, Holding, Needs
    <2>2. PoolInv'
        BY <1>a, <1>OpenReady DEF OpenReady, SessTypeOK, PoolInv, Ready, Needs
    <2>3. ApartInv'
        BY <1>a, <1>OpenReady DEF OpenReady, SessTypeOK, ApartInv
    <2>4. ASSUME NEW r \in Request PROVE HoldInv(r)'
        BY <1>a, <1>OpenReady DEF OpenReady, SessTypeOK, HoldInv, Holding
    <2>5. ASSUME NEW d \in Conn PROVE IdleInv(d)'
        BY <1>a, <1>OpenReady, <1>i, <1>j DEF OpenReady, SessTypeOK, IdleInv
    <2> QED BY <1>b, <2>1, <2>2, <2>3, <2>4, <2>5
<1>OpenFails. ASSUME NEW b \in DOMAIN Needs, NEW p \in Pool, OpenFails(b, p)
              PROVE  SessTypeOK' /\ SessInv'
    <2>1. SessTypeOK'
        BY <1>a, <1>OpenFails DEF OpenFails, CloseOnError, SessTypeOK, Holding, Connection,
            Setting, Needs
    <2>2. PoolInv'
        BY <1>a, <1>OpenFails DEF OpenFails, CloseOnError, SessTypeOK, PoolInv, Ready, Needs,
            Connection
    <2>3. ApartInv'
        BY <1>a, <1>OpenFails DEF OpenFails, CloseOnError, SessTypeOK, ApartInv
    <2>4. ASSUME NEW r \in Request PROVE HoldInv(r)'
        <3>1. on'[r] = on[r] /\ req'[r] = req[r] /\ changed' = changed
            BY <1>OpenFails DEF OpenFails
        <3>2. CASE on[r] = Unset
            BY <1>a, <3>1, <3>2 DEF HoldInv, Holding
        <3>3. CASE on[r] # Unset
            <4>1. conn[on[r]].pool = PoolOf[r] /\ req[r] # "new" /\ on[r] \in Conn
                BY <1>a, <3>3 DEF HoldInv, Holding, SessTypeOK
            <4>2. PoolOf[r] \notin Needs[b]
                BY <1>a, <1>OpenFails, <4>1 DEF OpenFails, PoolInv, Ready, Needs
            <4>3. conn'[on[r]] = conn[on[r]]
                BY <1>OpenFails, <4>1, <4>2 DEF OpenFails, CloseOnError
            <4> QED
                BY <1>a, <3>1, <4>3 DEF HoldInv
        <3> QED
            BY <3>2, <3>3
    <2>5. ASSUME NEW d \in Conn PROVE IdleInv(d)'
        BY <1>a, <1>OpenFails, <1>i, <1>j DEF OpenFails, CloseOnError, SessTypeOK, IdleInv,
            Connection
    <2> QED BY <1>b, <2>1, <2>2, <2>3, <2>4, <2>5
<1>Connect. ASSUME NEW c \in Conn, NEW p \in Pool, Connect(c, p) PROVE SessTypeOK' /\ SessInv'
    <2>1. SessTypeOK'
        BY <1>a, <1>Connect DEF Connect, RestrictedSessionAllowed, Fresh, openVars,
            SessTypeOK, Holding, Connection, Setting
    <2>2. PoolInv'
        BY <1>a, <1>Connect DEF Connect, RestrictedSessionAllowed, Fresh, openVars,
            SessTypeOK, PoolInv, Ready, Needs, Connection
    <2>3. ApartInv'
        BY <1>a, <1>Connect DEF Connect, RestrictedSessionAllowed, Fresh, openVars,
            SessTypeOK, ApartInv
    <2>4. ASSUME NEW r \in Request PROVE HoldInv(r)'
        BY <1>a, <1>Connect, <1>i DEF Connect, RestrictedSessionAllowed, Fresh, openVars,
            SessTypeOK, HoldInv, Holding, Connection, ApartInv
    <2>5. ASSUME NEW d \in Conn PROVE IdleInv(d)'
        BY <1>a, <1>Connect, <1>i, <1>j DEF Connect, RestrictedSessionAllowed, Fresh,
            openVars, SessTypeOK, IdleInv, Connection
    <2> QED BY <1>b, <2>1, <2>2, <2>3, <2>4, <2>5
<1>Disconnect. ASSUME NEW c \in Conn, Disconnect(c) PROVE SessTypeOK' /\ SessInv'
    <2>1. SessTypeOK'
        BY <1>a, <1>Disconnect DEF Disconnect, openVars, SessTypeOK, Holding, Connection,
            Setting
    <2>2. PoolInv'
        BY <1>a, <1>Disconnect DEF Disconnect, openVars, SessTypeOK, PoolInv, Ready, Needs,
            Connection
    <2>3. ApartInv'
        BY <1>a, <1>Disconnect DEF Disconnect, openVars, SessTypeOK, ApartInv
    <2>4. ASSUME NEW r \in Request PROVE HoldInv(r)'
        BY <1>a, <1>Disconnect, <1>i DEF Disconnect, openVars, SessTypeOK, HoldInv, Holding,
            Connection, ApartInv
    <2>5. ASSUME NEW d \in Conn PROVE IdleInv(d)'
        BY <1>a, <1>Disconnect, <1>i, <1>j DEF Disconnect, openVars, SessTypeOK, IdleInv,
            Connection
    <2> QED BY <1>b, <2>1, <2>2, <2>3, <2>4, <2>5
<1>ChangeGrant. ASSUME NEW p \in Pool, ChangeGrant(p) PROVE SessTypeOK' /\ SessInv'
    <2>1. SessTypeOK'
        BY <1>a, <1>ChangeGrant DEF ChangeGrant, openVars, SessTypeOK, Holding
    <2>2. PoolInv'
        BY <1>a, <1>ChangeGrant DEF ChangeGrant, openVars, SessTypeOK, PoolInv, Ready, Needs
    <2>3. ApartInv'
        BY <1>a, <1>ChangeGrant DEF ChangeGrant, openVars, SessTypeOK, ApartInv
    <2>4. ASSUME NEW r \in Request PROVE HoldInv(r)'
        BY <1>a, <1>ChangeGrant DEF ChangeGrant, openVars, SessTypeOK, HoldInv, Holding
    <2>5. ASSUME NEW d \in Conn PROVE IdleInv(d)'
        BY <1>a, <1>ChangeGrant, <1>i, <1>j DEF ChangeGrant, openVars, SessTypeOK, IdleInv
    <2> QED BY <1>b, <2>1, <2>2, <2>3, <2>4, <2>5
<1>Authenticate. ASSUME NEW q \in Request, Authenticate(q) PROVE SessTypeOK' /\ SessInv'
    <2>1. SessTypeOK'
        BY <1>a, <1>Authenticate DEF Authenticate, openVars, SessTypeOK, Holding
    <2>2. PoolInv'
        BY <1>a, <1>Authenticate DEF Authenticate, openVars, SessTypeOK, PoolInv, Ready, Needs
    <2>3. ApartInv'
        BY <1>a, <1>Authenticate DEF Authenticate, openVars, SessTypeOK, ApartInv
    <2>4. ASSUME NEW r \in Request PROVE HoldInv(r)'
        BY <1>a, <1>Authenticate DEF Authenticate, openVars, SessTypeOK, HoldInv, Holding
    <2>5. ASSUME NEW d \in Conn PROVE IdleInv(d)'
        BY <1>a, <1>Authenticate, <1>i, <1>j DEF Authenticate, openVars, SessTypeOK, IdleInv
    <2> QED BY <1>b, <2>1, <2>2, <2>3, <2>4, <2>5
<1>Expire. ASSUME NEW q \in Request, Expire(q) PROVE SessTypeOK' /\ SessInv'
    <2>1. SessTypeOK'
        BY <1>a, <1>Expire DEF Expire, openVars, SessTypeOK, Holding
    <2>2. PoolInv'
        BY <1>a, <1>Expire DEF Expire, openVars, SessTypeOK, PoolInv, Ready, Needs
    <2>3. ApartInv'
        BY <1>a, <1>Expire DEF Expire, openVars, SessTypeOK, ApartInv
    <2>4. ASSUME NEW r \in Request PROVE HoldInv(r)'
        BY <1>a, <1>Expire DEF Expire, openVars, SessTypeOK, HoldInv, Holding
    <2>5. ASSUME NEW d \in Conn PROVE IdleInv(d)'
        BY <1>a, <1>Expire, <1>i, <1>j DEF Expire, openVars, SessTypeOK, IdleInv
    <2> QED BY <1>b, <2>1, <2>2, <2>3, <2>4, <2>5
<1>Acquire. ASSUME NEW q \in Request, NEW c \in Conn, Acquire(q, c)
            PROVE  SessTypeOK' /\ SessInv'
    <2>h. c \in Idle /\ conn[c] \in Connection /\ conn[c].pending = Unset
        BY <1>a, <1>i, <1>Acquire DEF Acquire, SessTypeOK, IdleInv
    <2>c. PICK k \in Connection :
              /\ conn' = [conn EXCEPT ![c] = k]
              /\ k.tx /\ k.pool = PoolOf[q] /\ k.role # "denied" /\ k.pending = Unset
        <3> DEFINE k == [conn[c] EXCEPT !.tx = TRUE]
        <3>1. k \in Connection
            BY <1>a, <2>h, ChangedConn DEF Setting
        <3>2. conn' = [conn EXCEPT ![c] = k]
            BY <1>Acquire, <2>h DEF Acquire, SessTypeOK
        <3>3. k.tx /\ k.pool = PoolOf[q] /\ k.role # "denied" /\ k.pending = Unset
            BY <1>Acquire, <2>h DEF Acquire, RestrictedSessionAllowed, Connection
        <3> QED
            BY <3>1, <3>2, <3>3
    <2>0. /\ on' = [on EXCEPT ![q] = c]
          /\ req' = [req EXCEPT ![q] = "scope"]
          /\ req[q] = "acquire"
          /\ UNCHANGED <<boundary, pools, late, changed, granted, grants>>
        BY <1>Acquire DEF Acquire, openVars
    <2>1. SessTypeOK'
        BY <1>a, <2>h, <2>c, <2>0 DEF SessTypeOK, Holding
    <2>2. PoolInv'
        BY <1>a, <2>h, <2>c, <2>0, <1>i, <1>Acquire DEF Acquire, SessTypeOK, PoolInv, Ready,
            Needs
    <2>3. ApartInv'
        BY <1>a, <2>h, <2>c, <2>0, <1>i DEF SessTypeOK, ApartInv
    <2>4. ASSUME NEW r \in Request PROVE HoldInv(r)'
        BY <1>a, <2>h, <2>c, <2>0, <1>i DEF SessTypeOK, HoldInv, Holding, ApartInv
    <2>5. ASSUME NEW d \in Conn PROVE IdleInv(d)'
        BY <1>a, <2>h, <2>c, <2>0, <1>i, <1>j DEF SessTypeOK, IdleInv, HoldInv, Holding
    <2> QED BY <1>b, <2>1, <2>2, <2>3, <2>4, <2>5
<1>AcquireRefused. ASSUME NEW q \in Request, NEW c \in Conn, AcquireRefused(q, c)
                   PROVE  SessTypeOK' /\ SessInv'
    <2>1. SessTypeOK'
        BY <1>a, <1>AcquireRefused DEF AcquireRefused, openVars, SessTypeOK, Holding,
            Connection, Setting
    <2>2. PoolInv'
        BY <1>a, <1>AcquireRefused DEF AcquireRefused, openVars, SessTypeOK, PoolInv, Ready,
            Needs, Connection
    <2>3. ApartInv'
        BY <1>a, <1>AcquireRefused DEF AcquireRefused, openVars, SessTypeOK, ApartInv
    <2>4. ASSUME NEW r \in Request PROVE HoldInv(r)'
        BY <1>a, <1>AcquireRefused, <1>i DEF AcquireRefused, openVars, SessTypeOK, HoldInv,
            Holding, Connection, ApartInv
    <2>5. ASSUME NEW d \in Conn PROVE IdleInv(d)'
        BY <1>a, <1>AcquireRefused, <1>i, <1>j DEF AcquireRefused, openVars, SessTypeOK,
            IdleInv, Connection
    <2> QED BY <1>b, <2>1, <2>2, <2>3, <2>4, <2>5
<1>AcquireFails. ASSUME NEW q \in Request, AcquireFails(q) PROVE SessTypeOK' /\ SessInv'
    <2>1. SessTypeOK'
        BY <1>a, <1>AcquireFails DEF AcquireFails, openVars, SessTypeOK, Holding
    <2>2. PoolInv'
        BY <1>a, <1>AcquireFails DEF AcquireFails, openVars, SessTypeOK, PoolInv, Ready, Needs
    <2>3. ApartInv'
        BY <1>a, <1>AcquireFails DEF AcquireFails, openVars, SessTypeOK, ApartInv
    <2>4. ASSUME NEW r \in Request PROVE HoldInv(r)'
        BY <1>a, <1>AcquireFails DEF AcquireFails, openVars, SessTypeOK, HoldInv, Holding
    <2>5. ASSUME NEW d \in Conn PROVE IdleInv(d)'
        BY <1>a, <1>AcquireFails, <1>i, <1>j DEF AcquireFails, openVars, SessTypeOK, IdleInv
    <2> QED BY <1>b, <2>1, <2>2, <2>3, <2>4, <2>5
<1>InstallScope. ASSUME NEW q \in Request, InstallScope(q) PROVE SessTypeOK' /\ SessInv'
    <2>h. on[q] \in Conn /\ conn[on[q]] \in Connection /\ req[q] # "new" /\ req[q] \in Holding /\ conn[on[q]].tx
        BY <1>a, <1>InstallScope DEF InstallScope, SessTypeOK, HoldInv, Holding
    <2>c. PICK k \in Connection :
              /\ conn' = [conn EXCEPT ![on[q]] = k]
              /\ k.tx /\ k.pool = conn[on[q]].pool /\ k.role = conn[on[q]].role /\ k.pending = conn[on[q]].pending /\ k.local = ScopeOf[q]
        <3> DEFINE k == [conn[on[q]] EXCEPT !.local = ScopeOf[q]]
        <3>1. k \in Connection
            BY <1>a, <2>h, ChangedConn DEF Setting
        <3>2. conn' = [conn EXCEPT ![on[q]] = k]
            BY <1>InstallScope, <2>h DEF InstallScope, InstalledScope, SessTypeOK
        <3>3. k.tx /\ k.pool = conn[on[q]].pool /\ k.role = conn[on[q]].role /\ k.pending = conn[on[q]].pending /\ k.local = ScopeOf[q]
            BY <1>InstallScope, <2>h DEF InstallScope, InstalledScope, Connection
        <3> QED
            BY <3>1, <3>2, <3>3
    <2>0. /\ req[q] = "scope"
          /\ req' = [req EXCEPT ![q] = "callback"]
          /\ UNCHANGED <<boundary, pools, on, late, changed, granted, grants>>
        BY <1>InstallScope DEF InstallScope, openVars
    <2>1. SessTypeOK'
        BY <1>a, <2>h, <2>c, <2>0 DEF SessTypeOK, Holding
    <2>2. PoolInv'
        BY <1>a, <2>h, <2>c, <2>0 DEF SessTypeOK, PoolInv, HoldInv, Holding, Ready, Needs
    <2>3. ApartInv'
        BY <1>a, <2>h, <2>c, <2>0 DEF SessTypeOK, ApartInv
    <2>4. ASSUME NEW r \in Request PROVE HoldInv(r)'
        BY <1>a, <2>h, <2>c, <2>0 DEF SessTypeOK, HoldInv, Holding, ApartInv
    <2>5. ASSUME NEW d \in Conn PROVE IdleInv(d)'
        BY <1>a, <2>h, <2>c, <2>0, <1>i, <1>j DEF SessTypeOK, IdleInv
    <2> QED BY <1>b, <2>1, <2>2, <2>3, <2>4, <2>5
<1>CallbackSetsScope. ASSUME NEW q \in Request, NEW s \in Scope, CallbackSetsScope(q, s)
                      PROVE  SessTypeOK' /\ SessInv'
    <2>h. on[q] \in Conn /\ conn[on[q]] \in Connection /\ req[q] # "new" /\ req[q] \in Holding /\ conn[on[q]].tx
        BY <1>a, <1>CallbackSetsScope DEF CallbackSetsScope, SessTypeOK, HoldInv, Holding
    <2>c. PICK k \in Connection :
              /\ conn' = [conn EXCEPT ![on[q]] = k]
              /\ k.tx /\ k.pool = conn[on[q]].pool /\ k.role = conn[on[q]].role
        <3> DEFINE k == [conn[on[q]] EXCEPT !.pending = s]
        <3>1. k \in Connection
            BY <1>a, <2>h, ChangedConn DEF Setting
        <3>2. conn' = [conn EXCEPT ![on[q]] = k]
            BY <1>CallbackSetsScope, <2>h DEF CallbackSetsScope, SessTypeOK
        <3>3. k.tx /\ k.pool = conn[on[q]].pool /\ k.role = conn[on[q]].role
            BY <1>CallbackSetsScope, <2>h DEF CallbackSetsScope, Connection
        <3> QED
            BY <3>1, <3>2, <3>3
    <2>0. /\ req[q] = "callback"
          /\ changed' = changed \cup {q}
          /\ UNCHANGED <<boundary, pools, req, on, late, granted, grants>>
        BY <1>CallbackSetsScope DEF CallbackSetsScope, openVars
    <2>1. SessTypeOK'
        BY <1>a, <2>h, <2>c, <2>0 DEF SessTypeOK, Holding
    <2>2. PoolInv'
        BY <1>a, <2>h, <2>c, <2>0 DEF SessTypeOK, PoolInv, HoldInv, Holding, Ready, Needs
    <2>3. ApartInv'
        BY <1>a, <2>h, <2>c, <2>0 DEF SessTypeOK, ApartInv
    <2>4. ASSUME NEW r \in Request PROVE HoldInv(r)'
        BY <1>a, <2>h, <2>c, <2>0 DEF SessTypeOK, HoldInv, Holding, ApartInv
    <2>5. ASSUME NEW d \in Conn PROVE IdleInv(d)'
        BY <1>a, <2>h, <2>c, <2>0, <1>i, <1>j DEF SessTypeOK, IdleInv
    <2> QED BY <1>b, <2>1, <2>2, <2>3, <2>4, <2>5
<1>CallbackSetsRole. ASSUME NEW q \in Request, NEW role \in SessionRole, CallbackSetsRole(q, role)
                     PROVE  SessTypeOK' /\ SessInv'
    <2>h. on[q] \in Conn /\ conn[on[q]] \in Connection /\ req[q] # "new" /\ req[q] \in Holding /\ conn[on[q]].tx
        BY <1>a, <1>CallbackSetsRole DEF CallbackSetsRole, SessTypeOK, HoldInv, Holding
    <2>c. PICK k \in Connection :
              /\ conn' = [conn EXCEPT ![on[q]] = k]
              /\ k.tx /\ k.pool = conn[on[q]].pool /\ k.role = conn[on[q]].role /\ k.pending = conn[on[q]].pending
        <3> DEFINE k == [conn[on[q]] EXCEPT !.pendingRole = role]
        <3>1. k \in Connection
            BY <1>a, <2>h, ChangedConn DEF Setting
        <3>2. conn' = [conn EXCEPT ![on[q]] = k]
            BY <1>CallbackSetsRole, <2>h DEF CallbackSetsRole, SessTypeOK
        <3>3. k.tx /\ k.pool = conn[on[q]].pool /\ k.role = conn[on[q]].role /\ k.pending = conn[on[q]].pending
            BY <1>CallbackSetsRole, <2>h DEF CallbackSetsRole, Connection
        <3> QED
            BY <3>1, <3>2, <3>3
    <2>0. /\ req[q] = "callback"
          /\ changed' = changed \cup {q}
          /\ UNCHANGED <<boundary, pools, req, on, late, granted, grants>>
        BY <1>CallbackSetsRole DEF CallbackSetsRole, openVars
    <2>1. SessTypeOK'
        BY <1>a, <2>h, <2>c, <2>0 DEF SessTypeOK, Holding
    <2>2. PoolInv'
        BY <1>a, <2>h, <2>c, <2>0 DEF SessTypeOK, PoolInv, HoldInv, Holding, Ready, Needs
    <2>3. ApartInv'
        BY <1>a, <2>h, <2>c, <2>0 DEF SessTypeOK, ApartInv
    <2>4. ASSUME NEW r \in Request PROVE HoldInv(r)'
        BY <1>a, <2>h, <2>c, <2>0 DEF SessTypeOK, HoldInv, Holding, ApartInv
    <2>5. ASSUME NEW d \in Conn PROVE IdleInv(d)'
        BY <1>a, <2>h, <2>c, <2>0, <1>i, <1>j DEF SessTypeOK, IdleInv
    <2> QED BY <1>b, <2>1, <2>2, <2>3, <2>4, <2>5
<1>CallbackReturns. ASSUME NEW q \in Request, CallbackReturns(q) PROVE SessTypeOK' /\ SessInv'
    <2>1. SessTypeOK'
        BY <1>a, <1>CallbackReturns DEF CallbackReturns, openVars, SessTypeOK, Holding
    <2>2. PoolInv'
        BY <1>a, <1>CallbackReturns DEF CallbackReturns, openVars, SessTypeOK, PoolInv,
            Ready, Needs
    <2>3. ApartInv'
        BY <1>a, <1>CallbackReturns DEF CallbackReturns, openVars, SessTypeOK, ApartInv
    <2>4. ASSUME NEW r \in Request PROVE HoldInv(r)'
        BY <1>a, <1>CallbackReturns DEF CallbackReturns, openVars, SessTypeOK, HoldInv, Holding
    <2>5. ASSUME NEW d \in Conn PROVE IdleInv(d)'
        BY <1>a, <1>CallbackReturns, <1>i, <1>j DEF CallbackReturns, openVars, SessTypeOK,
            IdleInv
    <2> QED BY <1>b, <2>1, <2>2, <2>3, <2>4, <2>5
<1>Commit. ASSUME NEW q \in Request, Commit(q) PROVE SessTypeOK' /\ SessInv'
    <2>h. on[q] \in Conn /\ conn[on[q]] \in Connection /\ req[q] # "new" /\ req[q] \in Holding /\ conn[on[q]].tx
        BY <1>a, <1>Commit DEF Commit, SessTypeOK, HoldInv, Holding
    <2>c. PICK k \in Connection :
              /\ conn' = [conn EXCEPT ![on[q]] = k]
              /\ k.pool = conn[on[q]].pool /\ k.pending = Unset
        BY <1>Commit, <2>h, EndedConn DEF Commit, SessTypeOK
    <2>0. /\ on' = [on EXCEPT ![q] = Unset]
          /\ req' = [req EXCEPT ![q] = "ok"]
          /\ UNCHANGED <<boundary, pools, late, changed, granted, grants>>
        BY <1>Commit DEF Commit, openVars
    <2>1. SessTypeOK'
        BY <1>a, <2>h, <2>c, <2>0 DEF SessTypeOK, Holding
    <2>2. PoolInv'
        BY <1>a, <2>h, <2>c, <2>0 DEF SessTypeOK, PoolInv, HoldInv, Holding, Ready, Needs
    <2>3. ApartInv'
        BY <1>a, <2>h, <2>c, <2>0 DEF SessTypeOK, ApartInv
    <2>4. ASSUME NEW r \in Request PROVE HoldInv(r)'
        BY <1>a, <2>h, <2>c, <2>0 DEF SessTypeOK, HoldInv, Holding, ApartInv
    <2>5. ASSUME NEW d \in Conn PROVE IdleInv(d)'
        BY <1>a, <2>h, <2>c, <2>0, <1>i, <1>j DEF SessTypeOK, IdleInv
    <2> QED BY <1>b, <2>1, <2>2, <2>3, <2>4, <2>5
<1>CommitFails. ASSUME NEW q \in Request, CommitFails(q) PROVE SessTypeOK' /\ SessInv'
    <2>h. on[q] \in Conn /\ conn[on[q]] \in Connection /\ req[q] # "new" /\ req[q] \in Holding /\ conn[on[q]].tx
        BY <1>a, <1>CommitFails DEF CommitFails, SessTypeOK, HoldInv, Holding
    <2>c. PICK k \in Connection \cup {Unset} :
              /\ conn' = [conn EXCEPT ![on[q]] = k]
              /\ k # Unset => (k.pool = conn[on[q]].pool /\ k.pending = Unset)
        BY <1>CommitFails, <2>h, EndedConn DEF CommitFails
    <2>0. /\ on' = [on EXCEPT ![q] = Unset]
          /\ req' = [req EXCEPT ![q] = "commitError"]
          /\ UNCHANGED <<boundary, pools, late, changed, granted, grants>>
        BY <1>CommitFails DEF CommitFails, openVars
    <2>1. SessTypeOK'
        BY <1>a, <2>h, <2>c, <2>0 DEF SessTypeOK, Holding
    <2>2. PoolInv'
        BY <1>a, <2>h, <2>c, <2>0 DEF SessTypeOK, PoolInv, HoldInv, Holding, Ready, Needs
    <2>3. ApartInv'
        BY <1>a, <2>h, <2>c, <2>0 DEF SessTypeOK, ApartInv
    <2>4. ASSUME NEW r \in Request PROVE HoldInv(r)'
        BY <1>a, <2>h, <2>c, <2>0 DEF SessTypeOK, HoldInv, Holding, ApartInv
    <2>5. ASSUME NEW d \in Conn PROVE IdleInv(d)'
        BY <1>a, <2>h, <2>c, <2>0, <1>i, <1>j DEF SessTypeOK, IdleInv
    <2> QED BY <1>b, <2>1, <2>2, <2>3, <2>4, <2>5
<1>Fails. ASSUME NEW q \in Request, Fails(q) PROVE SessTypeOK' /\ SessInv'
    <2>h. on[q] \in Conn /\ conn[on[q]] \in Connection /\ req[q] # "new" /\ req[q] \in Holding /\ conn[on[q]].tx
        BY <1>a, <1>Fails DEF Fails, SessTypeOK, HoldInv, Holding
    <2>c. PICK k \in Connection \cup {Unset} :
              /\ conn' = [conn EXCEPT ![on[q]] = k]
              /\ k # Unset => (k.pool = conn[on[q]].pool /\ k.pending = Unset)
        <3>1. CASE q \in late
            BY <1>Fails, <2>h, <3>1 DEF Fails, Released, SessTypeOK
        <3>2. CASE q \notin late
            BY <1>Fails, <2>h, <3>2, EndedConn DEF Fails, SessTypeOK
        <3> QED
            BY <3>1, <3>2
    <2>0. /\ on' = [on EXCEPT ![q] = Unset]
          /\ req' = [req EXCEPT ![q] = "error"]
          /\ UNCHANGED <<boundary, pools, late, changed, granted, grants>>
        BY <1>Fails DEF Fails, openVars
    <2>1. SessTypeOK'
        BY <1>a, <2>h, <2>c, <2>0 DEF SessTypeOK, Holding
    <2>2. PoolInv'
        BY <1>a, <2>h, <2>c, <2>0 DEF SessTypeOK, PoolInv, HoldInv, Holding, Ready, Needs
    <2>3. ApartInv'
        BY <1>a, <2>h, <2>c, <2>0 DEF SessTypeOK, ApartInv
    <2>4. ASSUME NEW r \in Request PROVE HoldInv(r)'
        BY <1>a, <2>h, <2>c, <2>0 DEF SessTypeOK, HoldInv, Holding, ApartInv
    <2>5. ASSUME NEW d \in Conn PROVE IdleInv(d)'
        BY <1>a, <2>h, <2>c, <2>0, <1>i, <1>j DEF SessTypeOK, IdleInv
    <2> QED BY <1>b, <2>1, <2>2, <2>3, <2>4, <2>5
<1>U. CASE UNCHANGED sessVars
    BY <1>a, <1>b, <1>i, <1>j, <1>U DEF sessVars, SessTypeOK, PoolInv, Ready, ApartInv,
        HoldInv, IdleInv
<1> QED
    BY <1>OpenPool, <1>OpenReady, <1>OpenFails, <1>Connect, <1>Disconnect,
       <1>ChangeGrant, <1>Authenticate, <1>Expire, <1>Acquire, <1>AcquireRefused,
       <1>AcquireFails, <1>InstallScope, <1>CallbackSetsScope, <1>CallbackSetsRole, <1>CallbackReturns,
       <1>Commit, <1>CommitFails, <1>Fails, <1>U
    DEF SessNext, RequestStep

\* The invariant holds before the first request.
LEMMA SessInitInv == SessInit => SessTypeOK /\ SessInv
BY DEF SessInit, SessTypeOK, SessInv, PoolInv, ApartInv, HoldInv, IdleInv, Idle, Held,
    Holding, Needs

\* The sessions' invariant holds of every behaviour.
LEMMA SessInvAlways == SessSpec => [](SessTypeOK /\ SessInv)
BY SessInitInv, SessStep, PTL DEF SessSpec

\* The boundary, its connections and the requests keep their types.
THEOREM SessionsTypeOK == SessSpec => []SessTypeOK
BY SessInvAlways, PTL

\* The invariant gives the three properties.
LEMMA SessInvImplies ==
    SessTypeOK /\ SessInv => ScopeIsOwn /\ NoDeniedRole /\ FailedOpenLeaksNothing
<1> SUFFICES ASSUME SessTypeOK, SessInv PROVE ScopeIsOwn /\ NoDeniedRole /\ FailedOpenLeaksNothing
    OBVIOUS
<1>1. ScopeIsOwn
    BY DEF SessInv, HoldInv, ScopeIsOwn, EffectiveScope, Setting
<1>2. NoDeniedRole
    BY DEF SessInv, HoldInv, Holding, NoDeniedRole
<1>3. FailedOpenLeaksNothing
    BY DEF SessInv, PoolInv, FailedOpenLeaksNothing
<1> QED
    BY <1>1, <1>2, <1>3

\* A callback's queries are scoped to its own principal whatever an earlier
\* request committed to the session it shares (store.go, runTransaction).
THEOREM SessionsScopeIsOwn == SessSpec => []ScopeIsOwn
BY SessInvAlways, SessInvImplies, PTL

\* No callback starts in a denied role, whatever its session selected before, and
\* each starts on a connection of its own pool (connection_policy.go, PrepareConn;
\* session_policy.go).
THEOREM SessionsNoDeniedRole == SessSpec => []NoDeniedRole
BY SessInvAlways, SessInvImplies, PTL

\* An Open that failed leaves no pool and no connection (open.go, maintenance.go).
THEOREM SessionsFailedOpenLeaksNothing == SessSpec => []FailedOpenLeaksNothing
BY SessInvAlways, SessInvImplies, PTL

=============================================================================
