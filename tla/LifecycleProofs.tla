-------------------------- MODULE LifecycleProofs --------------------------
(* Safety of one agent's handlers and of the supervision of its postmaster, *)
(* for any number of Inits, Starts and connections and any caller.          *)
EXTENDS Lifecycle, TLAPS

-----------------------------------------------------------------------------
(* The endpoint of forward.go, for any connections. *)

\* The sockets of a connection are two, and no other connection has them.
LEMMA Sockets ==
    \A c, d \in Conn \cup {NoConn} :
        /\ Client(c) = Client(d) <=> c = d
        /\ Server(c) = Server(d) <=> c = d
        /\ Client(c) # Server(d)
BY DEF Client, Server

\* Every socket is the client's or the server's of one connection.
LEMMA SocketTypes ==
    /\ \A c \in Conn : Client(c) \in Socket /\ Server(c) \in Socket
    /\ \A s \in Socket : \E c \in Conn : s = Client(c) \/ s = Server(c)
BY DEF Client, Server, Socket

\* Every step of the accepting goroutine, of a session or of Close keeps the
\* invariant.
LEMMA FwdStepInv ==
    FwdTypeOK /\ FwdInv /\ [FwdNext]_fwdVars => FwdTypeOK' /\ FwdInv'
<1> SUFFICES ASSUME FwdTypeOK, FwdInv, [FwdNext]_fwdVars PROVE FwdTypeOK' /\ FwdInv'
    OBVIOUS
<1> USE ConnAssumption
<1>a. EndpointInv /\ \A d \in Conn : ConnInv(d)
    BY DEF FwdInv
<1>b. ASSUME FwdTypeOK', EndpointInv', \A d \in Conn : ConnInv(d)' PROVE FwdTypeOK' /\ FwdInv'
    BY <1>b DEF FwdInv
<1>1. ASSUME Listen PROVE FwdTypeOK' /\ FwdInv'
    <2>1. FwdTypeOK'
        BY <1>a, <1>1, SocketTypes DEF Listen, Quiet, FwdTypeOK, EndpointInv, ServePc, PipePc
    <2>2. EndpointInv'
        BY <1>a, <1>1, Sockets DEF Listen, Quiet, FwdTypeOK, EndpointInv, ConnInv, ServePc
    <2>3. ASSUME NEW d \in Conn PROVE ConnInv(d)'
        BY <1>a, <1>1, Sockets DEF Listen, Quiet, FwdTypeOK, EndpointInv, ConnInv
    <2> QED
        BY <1>b, <2>1, <2>2, <2>3
<1>2. ASSUME AcceptFails PROVE FwdTypeOK' /\ FwdInv'
    <2>1. FwdTypeOK'
        BY <1>a, <1>2, SocketTypes DEF AcceptFails, FwdTypeOK, EndpointInv, ServePc, PipePc
    <2>2. EndpointInv'
        BY <1>a, <1>2, Sockets DEF AcceptFails, Quiet, FwdTypeOK, EndpointInv, ConnInv, ServePc
    <2>3. ASSUME NEW d \in Conn PROVE ConnInv(d)'
        BY <1>a, <1>2, Sockets DEF AcceptFails, FwdTypeOK, EndpointInv, ConnInv
    <2> QED
        BY <1>b, <2>1, <2>2, <2>3
<1>3. ASSUME TrackClient PROVE FwdTypeOK' /\ FwdInv'
    <2>1. FwdTypeOK'
        BY <1>a, <1>3, SocketTypes DEF TrackClient, Track, FwdTypeOK, EndpointInv, ServePc,
            PipePc
    <2>2. EndpointInv'
        BY <1>a, <1>3, Sockets DEF TrackClient, Track, Quiet, FwdTypeOK, EndpointInv,
            ConnInv, ServePc
    <2>3. ASSUME NEW d \in Conn PROVE ConnInv(d)'
        BY <1>a, <1>3, Sockets DEF TrackClient, Track, FwdTypeOK, EndpointInv, ConnInv
    <2> QED
        BY <1>b, <2>1, <2>2, <2>3
<1>4. ASSUME Spawn PROVE FwdTypeOK' /\ FwdInv'
    <2>1. FwdTypeOK'
        BY <1>a, <1>4, SocketTypes DEF Spawn, PipeAt, FwdTypeOK, EndpointInv, ServePc, PipePc
    <2>2. EndpointInv'
        BY <1>a, <1>4, Sockets DEF Spawn, PipeAt, Quiet, FwdTypeOK, EndpointInv, ConnInv,
            ServePc
    <2>3. ASSUME NEW d \in Conn PROVE ConnInv(d)'
        BY <1>a, <1>4, Sockets DEF Spawn, PipeAt, FwdTypeOK, EndpointInv, ConnInv
    <2> QED
        BY <1>b, <2>1, <2>2, <2>3
<1>5. ASSUME BeginClose PROVE FwdTypeOK' /\ FwdInv'
    <2>1. FwdTypeOK'
        BY <1>a, <1>5, SocketTypes DEF BeginClose, FwdTypeOK, EndpointInv, ServePc, PipePc
    <2>2. EndpointInv'
        BY <1>a, <1>5, Sockets DEF BeginClose, Quiet, FwdTypeOK, EndpointInv, ConnInv, ServePc
    <2>3. ASSUME NEW d \in Conn PROVE ConnInv(d)'
        BY <1>a, <1>5, Sockets DEF BeginClose, FwdTypeOK, EndpointInv, ConnInv
    <2> QED
        BY <1>b, <2>1, <2>2, <2>3
<1>6. ASSUME CloseReturns PROVE FwdTypeOK' /\ FwdInv'
    <2>1. FwdTypeOK'
        BY <1>a, <1>6, SocketTypes DEF CloseReturns, Quiet, FwdTypeOK, EndpointInv, ServePc,
            PipePc
    <2>2. EndpointInv'
        BY <1>a, <1>6, Sockets DEF CloseReturns, Quiet, FwdTypeOK, EndpointInv, ConnInv, ServePc
    <2>3. ASSUME NEW d \in Conn PROVE ConnInv(d)'
        BY <1>a, <1>6, Sockets DEF CloseReturns, Quiet, FwdTypeOK, EndpointInv, ConnInv
    <2> QED
        BY <1>b, <2>1, <2>2, <2>3
<1>7. ASSUME NEW c \in Conn, Accept(c) PROVE FwdTypeOK' /\ FwdInv'
    <2>1. FwdTypeOK'
        BY <1>a, <1>7, SocketTypes DEF Accept, FwdTypeOK, EndpointInv, ServePc, PipePc
    <2>2. EndpointInv'
        BY <1>a, <1>7, Sockets DEF Accept, Quiet, FwdTypeOK, EndpointInv, ConnInv, ServePc
    <2>3. ASSUME NEW d \in Conn PROVE ConnInv(d)'
        BY <1>a, <1>7, Sockets DEF Accept, FwdTypeOK, EndpointInv, ConnInv
    <2> QED
        BY <1>b, <2>1, <2>2, <2>3
<1>8. ASSUME NEW c \in Conn, Dial(c) PROVE FwdTypeOK' /\ FwdInv'
    <2>1. FwdTypeOK'
        BY <1>a, <1>8, SocketTypes DEF Dial, PipeAt, FwdTypeOK, EndpointInv, ServePc, PipePc
    <2>2. EndpointInv'
        BY <1>a, <1>8, Sockets DEF Dial, PipeAt, Quiet, FwdTypeOK, EndpointInv, ConnInv, ServePc
    <2>3. ASSUME NEW d \in Conn PROVE ConnInv(d)'
        BY <1>a, <1>8, Sockets DEF Dial, PipeAt, FwdTypeOK, EndpointInv, ConnInv
    <2> QED
        BY <1>b, <2>1, <2>2, <2>3
<1>9. ASSUME NEW c \in Conn, TrackServer(c) PROVE FwdTypeOK' /\ FwdInv'
    <2>1. FwdTypeOK'
        BY <1>a, <1>9, SocketTypes DEF TrackServer, PipeAt, Track, FwdTypeOK, EndpointInv,
            ServePc, PipePc
    <2>2. EndpointInv'
        BY <1>a, <1>9, Sockets DEF TrackServer, PipeAt, Track, Quiet, FwdTypeOK, EndpointInv,
            ConnInv, ServePc
    <2>3. ASSUME NEW d \in Conn PROVE ConnInv(d)'
        BY <1>a, <1>9, Sockets DEF TrackServer, PipeAt, Track, FwdTypeOK, EndpointInv, ConnInv
    <2> QED
        BY <1>b, <2>1, <2>2, <2>3
<1>A. ASSUME NEW c \in Conn, CopyEnds(c) PROVE FwdTypeOK' /\ FwdInv'
    <2>1. FwdTypeOK'
        BY <1>a, <1>A, SocketTypes DEF CopyEnds, PipeAt, FwdTypeOK, EndpointInv, ServePc, PipePc
    <2>2. EndpointInv'
        BY <1>a, <1>A, Sockets DEF CopyEnds, PipeAt, Quiet, FwdTypeOK, EndpointInv, ConnInv,
            ServePc
    <2>3. ASSUME NEW d \in Conn PROVE ConnInv(d)'
        BY <1>a, <1>A, Sockets DEF CopyEnds, PipeAt, FwdTypeOK, EndpointInv, ConnInv
    <2> QED
        BY <1>b, <2>1, <2>2, <2>3
<1>B. ASSUME NEW c \in Conn, OtherCopyEnds(c) PROVE FwdTypeOK' /\ FwdInv'
    <2>1. FwdTypeOK'
        BY <1>a, <1>B, SocketTypes DEF OtherCopyEnds, PipeAt, FwdTypeOK, EndpointInv,
            ServePc, PipePc
    <2>2. EndpointInv'
        BY <1>a, <1>B, Sockets DEF OtherCopyEnds, PipeAt, Quiet, FwdTypeOK, EndpointInv,
            ConnInv, ServePc
    <2>3. ASSUME NEW d \in Conn PROVE ConnInv(d)'
        BY <1>a, <1>B, Sockets DEF OtherCopyEnds, PipeAt, FwdTypeOK, EndpointInv, ConnInv
    <2> QED
        BY <1>b, <2>1, <2>2, <2>3
<1>C. ASSUME NEW c \in Conn, UntrackServer(c) PROVE FwdTypeOK' /\ FwdInv'
    <2>1. FwdTypeOK'
        BY <1>a, <1>C, SocketTypes DEF UntrackServer, PipeAt, Untrack, FwdTypeOK,
            EndpointInv, ServePc, PipePc
    <2>2. EndpointInv'
        BY <1>a, <1>C, Sockets DEF UntrackServer, PipeAt, Untrack, Quiet, FwdTypeOK,
            EndpointInv, ConnInv, ServePc
    <2>3. ASSUME NEW d \in Conn PROVE ConnInv(d)'
        BY <1>a, <1>C, Sockets DEF UntrackServer, PipeAt, Untrack, FwdTypeOK, EndpointInv,
            ConnInv
    <2> QED
        BY <1>b, <2>1, <2>2, <2>3
<1>D. ASSUME NEW c \in Conn, UntrackClient(c) PROVE FwdTypeOK' /\ FwdInv'
    <2>1. FwdTypeOK'
        BY <1>a, <1>D, SocketTypes DEF UntrackClient, PipeAt, Untrack, FwdTypeOK,
            EndpointInv, ServePc, PipePc
    <2>2. EndpointInv'
        BY <1>a, <1>D, Sockets DEF UntrackClient, PipeAt, Untrack, Quiet, FwdTypeOK,
            EndpointInv, ConnInv, ServePc
    <2>3. ASSUME NEW d \in Conn PROVE ConnInv(d)'
        BY <1>a, <1>D, Sockets DEF UntrackClient, PipeAt, Untrack, FwdTypeOK, EndpointInv,
            ConnInv
    <2> QED
        BY <1>b, <2>1, <2>2, <2>3
<1>U. CASE UNCHANGED fwdVars
    BY <1>U DEF fwdVars, FwdTypeOK, FwdInv, EndpointInv, ConnInv, Quiet
<1> QED
    BY <1>1, <1>2, <1>3, <1>4, <1>5, <1>6, <1>7, <1>8, <1>9, <1>A, <1>B, <1>C, <1>D, <1>U DEF
        FwdNext, FwdStep, PipeStep

\* No endpoint is open at first.
LEMMA FwdInitInv == FwdInit => FwdTypeOK /\ FwdInv
BY ConnAssumption
    DEF FwdInit, FwdTypeOK, FwdInv, EndpointInv, ConnInv, ServePc, PipePc, Quiet

\* The invariant gives what Close promises.
LEMMA FwdInvImplies ==
    FwdTypeOK /\ FwdInv => ClosedLeavesNothing /\ CloseReachesEverySession
<1> SUFFICES ASSUME FwdTypeOK, FwdInv PROVE ClosedLeavesNothing /\ CloseReachesEverySession
    OBVIOUS
<1>1. ClosedLeavesNothing
    <2> SUFFICES ASSUME closing = "returned" PROVE ~listening /\ open = {}
        BY DEF ClosedLeavesNothing
    <2>1. ~listening /\ accepted = NoConn /\ \A c \in Conn : pipe[c] = "none"
        BY DEF FwdInv, EndpointInv, Quiet
    <2>2. \A c \in Conn : Client(c) \notin open /\ Server(c) \notin open
        BY <2>1, ConnAssumption DEF FwdInv, ConnInv
    <2> QED
        BY <2>1, <2>2, SocketTypes DEF FwdTypeOK
<1>2. CloseReachesEverySession
    BY DEF CloseReachesEverySession, FwdInv, EndpointInv, ConnInv
<1> QED
    BY <1>1, <1>2

\* The forwarder's invariant holds of every behaviour.
LEMMA FwdInvAlways == FwdSpec => [](FwdTypeOK /\ FwdInv)
BY FwdInitInv, FwdStepInv, PTL DEF FwdSpec

\* When Close has returned, the endpoint holds no listener and no socket,
\* whatever was being accepted or dialled meanwhile (forward.go, Close).
THEOREM ForwarderClosedLeavesNothing == FwdSpec => []ClosedLeavesNothing
BY FwdInvAlways, FwdInvImplies, PTL

\* Close never waits for a session that still has both its sockets
\* (forward.go, Close and track).
THEOREM ForwarderCloseReaches == FwdSpec => []CloseReachesEverySession
BY FwdInvAlways, FwdInvImplies, PTL

-----------------------------------------------------------------------------
(* The handlers and the supervision, with the endpoint. *)

USE BoundAssumption, CallersAssumption DEF Liberty, Patient

\* What the initial states have and every step keeps: the types, the handlers'
\* and goroutines' invariant, and the endpoint's own.
Inv == TypeOK /\ LifeInv /\ FwdInv

\* The invariant holds of an agent that has not started.
LEMMA LifeInitInv == Init => Inv
<1> SUFFICES ASSUME Init PROVE Inv
    OBVIOUS
<1>1. LifeTypeOK
    <2>1. liberties \in SUBSET Liberty /\ native \in BOOLEAN /\ keepRunning \in BOOLEAN
        BY DEF Init
    <2>2. pc \in [Thread -> ThreadPc]
        BY DEF Init, Thread, ThreadPc, Rest
    <2>3. runner \in BOOLEAN /\ released \in BOOLEAN /\ cancel \in BOOLEAN
        BY Zenon DEF Init
    <2>4. /\ inits \in 0..MaxInit /\ starts \in 0..MaxStart /\ nix \in 0..MaxInit
          /\ watchers \in Nat
        BY DEF Init
    <2> QED
        BY <2>1, <2>2, <2>3, <2>4 DEF Init, LifeTypeOK
<1>2. LifeInv
    BY DEF Init, LifeInv, AttachInv, SetupInv, WatcherInv, DeathNotMasked, ExitInv, TeardownInv,
           GivenUp, Thread, Teardown, Attachment, Initializing, Starting, Releasing
<1>3. FwdTypeOK /\ FwdInv
    BY FwdInitInv DEF Init
<1> QED
    BY <1>1, <1>2, <1>3 DEF Inv, TypeOK

\* Every handler's step, every goroutine's step and every exit of a postmaster
\* keeps the invariant; each is a step of the endpoint, or leaves it alone.
LEMMA LifeStepInv == Inv /\ [Next]_vars => Inv'
<1> SUFFICES ASSUME Inv, [Next]_vars PROVE Inv'
    OBVIOUS
<1>a. /\ LifeTypeOK /\ AttachInv /\ SetupInv /\ WatcherInv /\ DeathNotMasked
      /\ \A h \in Attachment : ExitInv(h)
      /\ \A u \in Teardown : TeardownInv(u)
    BY DEF Inv, TypeOK, LifeInv
<1>b. ASSUME [FwdNext]_fwdVars, LifeTypeOK', AttachInv', SetupInv', WatcherInv' /\ DeathNotMasked',
             \A h \in Attachment : ExitInv(h)', \A u \in Teardown : TeardownInv(u)'
      PROVE Inv'
    BY <1>b, FwdStepInv DEF Inv, TypeOK, LifeInv
<1>BeginInit. ASSUME BeginInit PROVE Inv'
    <2>1. [FwdNext]_fwdVars
        BY <1>BeginInit DEF BeginInit, FwdNext, fwdVars
    <2>2. LifeTypeOK'
        BY <1>a, <1>BeginInit DEF BeginInit, Resting, TornDown, Rest, rigidVars,
            handleVars, superVars, watcherVars, Thread, Teardown, Attachment,
            LifeTypeOK, ThreadPc, Initializing, Starting, Releasing
    <2>3. AttachInv'
        BY <1>a, <1>BeginInit, <2>2 DEF BeginInit, Resting, TornDown, Rest, rigidVars,
            handleVars, superVars, LifeTypeOK, Thread, Teardown, Attachment, AttachInv
    <2>4. SetupInv'
        BY <1>a, <1>BeginInit, <2>2 DEF BeginInit, Resting, TornDown, Rest,
            rigidVars, callVars, handleVars, superVars, watcherVars, LifeTypeOK,
            Thread, Teardown, Attachment, Initializing, Starting, Releasing,
            SetupInv, GivenUp, AttachInv, ExitInv, TeardownInv
    <2>5. WatcherInv' /\ DeathNotMasked'
        BY <1>a, <1>BeginInit, <2>2 DEF BeginInit, Resting, TornDown, Rest, handleVars,
            superVars, watcherVars, LifeTypeOK, Thread, Teardown, Attachment,
            WatcherInv, DeathNotMasked
    <2>6. ASSUME NEW h \in Attachment PROVE ExitInv(h)'
        BY <1>a, <1>BeginInit, <2>2 DEF BeginInit, Resting, TornDown, Rest, superVars,
            LifeTypeOK, Thread, Teardown, Attachment, ExitInv
    <2>7. ASSUME NEW u \in Teardown PROVE TeardownInv(u)'
        BY <1>a, <1>BeginInit, <2>2 DEF BeginInit, Resting, TornDown, Rest,
            handleVars, superVars, LifeTypeOK, Thread, Teardown, Attachment,
            Initializing, Releasing, TeardownInv, GivenUp, rigidVars, Starting,
            AttachInv, SetupInv
    <2> QED BY <1>b, <2>1, <2>2, <2>3, <2>4, <2>5, <2>6, <2>7
<1>InitFails. ASSUME InitFails PROVE Inv'
    <2>1. [FwdNext]_fwdVars
        BY <1>InitFails DEF InitFails, FwdNext, fwdVars
    <2>2. LifeTypeOK'
        BY <1>a, <1>InitFails DEF InitFails, Goto, rigidVars, handleVars, superVars,
            watcherVars, Thread, Teardown, Attachment, LifeTypeOK, ThreadPc, Rest,
            Initializing, Starting, Releasing
    <2>3. AttachInv'
        BY <1>a, <1>InitFails, <2>2 DEF InitFails, Goto, rigidVars, handleVars,
            superVars, LifeTypeOK, Thread, Teardown, Attachment, AttachInv
    <2>4. SetupInv'
        BY <1>a, <1>InitFails, <2>2 DEF InitFails, Goto, rigidVars, handleVars,
            superVars, LifeTypeOK, Thread, Teardown, Attachment, Initializing,
            Starting, SetupInv, GivenUp, AttachInv, TeardownInv
    <2>5. WatcherInv' /\ DeathNotMasked'
        BY <1>a, <1>InitFails, <2>2 DEF InitFails, Goto, handleVars, superVars,
            watcherVars, LifeTypeOK, Thread, Teardown, Attachment, WatcherInv,
            DeathNotMasked
    <2>6. ASSUME NEW h \in Attachment PROVE ExitInv(h)'
        BY <1>a, <1>InitFails, <2>2 DEF InitFails, Goto, superVars, LifeTypeOK, Thread,
            Teardown, Attachment, ExitInv
    <2>7. ASSUME NEW u \in Teardown PROVE TeardownInv(u)'
        BY <1>a, <1>InitFails, <2>2 DEF InitFails, Goto, handleVars, superVars,
            LifeTypeOK, Thread, Teardown, Attachment, Initializing, Releasing,
            TeardownInv, GivenUp, rigidVars, Starting, AttachInv, SetupInv
    <2> QED BY <1>b, <2>1, <2>2, <2>3, <2>4, <2>5, <2>6, <2>7
<1>AcquireServer. ASSUME AcquireServer PROVE Inv'
    <2>1. [FwdNext]_fwdVars
        BY <1>AcquireServer DEF AcquireServer, FwdNext, fwdVars
    <2>2. LifeTypeOK'
        BY <1>a, <1>AcquireServer DEF AcquireServer, Goto, rigidVars, watcherVars,
            Thread, Teardown, Attachment, LifeTypeOK, ThreadPc, Rest, Initializing,
            Starting, Releasing
    <2>3. AttachInv'
        BY <1>a, <1>AcquireServer, <2>2 DEF AcquireServer, Goto, rigidVars, LifeTypeOK,
            Thread, Teardown, Attachment, AttachInv
    <2>4. SetupInv'
        BY <1>a, <1>AcquireServer, <2>2 DEF AcquireServer, Goto, rigidVars,
            callVars, handleVars, superVars, watcherVars, LifeTypeOK, Thread,
            Teardown, Attachment, Initializing, Starting, Releasing, SetupInv,
            GivenUp, AttachInv, ExitInv, TeardownInv
    <2>5. WatcherInv' /\ DeathNotMasked'
        BY <1>a, <1>AcquireServer, <2>2 DEF AcquireServer, Goto, rigidVars, callVars,
            handleVars, superVars, watcherVars, LifeTypeOK, Thread, Teardown,
            Attachment, Initializing, Starting, Releasing, WatcherInv, DeathNotMasked,
            SetupInv, AttachInv, ExitInv, GivenUp
    <2>6. ASSUME NEW h \in Attachment PROVE ExitInv(h)'
        BY <1>a, <1>AcquireServer, <2>2 DEF AcquireServer, Goto, LifeTypeOK, Thread,
            Teardown, Attachment, ExitInv
    <2>7. ASSUME NEW u \in Teardown PROVE TeardownInv(u)'
        BY <1>a, <1>AcquireServer, <2>2 DEF AcquireServer, Goto, LifeTypeOK, Thread,
            Teardown, Attachment, Initializing, Releasing, TeardownInv, GivenUp,
            rigidVars, superVars, Starting, AttachInv, SetupInv
    <2> QED BY <1>b, <2>1, <2>2, <2>3, <2>4, <2>5, <2>6, <2>7
<1>ProvisionDatabase. ASSUME ProvisionDatabase PROVE Inv'
    <2>1. [FwdNext]_fwdVars
        BY <1>ProvisionDatabase DEF ProvisionDatabase, FwdNext, fwdVars
    <2>2. LifeTypeOK'
        BY <1>a, <1>ProvisionDatabase DEF ProvisionDatabase, Goto, rigidVars,
            handleVars, superVars, watcherVars, Thread, Teardown, Attachment,
            LifeTypeOK, ThreadPc, Rest, Initializing, Starting, Releasing
    <2>3. AttachInv'
        BY <1>a, <1>ProvisionDatabase, <2>2 DEF ProvisionDatabase, Goto, rigidVars,
            handleVars, superVars, LifeTypeOK, Thread, Teardown, Attachment, AttachInv
    <2>4. SetupInv'
        BY <1>a, <1>ProvisionDatabase, <2>2 DEF ProvisionDatabase, Goto, rigidVars,
            handleVars, superVars, LifeTypeOK, Thread, Teardown, Attachment,
            Initializing, Starting, SetupInv, GivenUp, AttachInv, TeardownInv
    <2>5. WatcherInv' /\ DeathNotMasked'
        BY <1>a, <1>ProvisionDatabase, <2>2 DEF ProvisionDatabase, Goto, handleVars,
            superVars, watcherVars, LifeTypeOK, Thread, Teardown, Attachment,
            WatcherInv, DeathNotMasked
    <2>6. ASSUME NEW h \in Attachment PROVE ExitInv(h)'
        BY <1>a, <1>ProvisionDatabase, <2>2 DEF ProvisionDatabase, Goto, superVars,
            LifeTypeOK, Thread, Teardown, Attachment, ExitInv
    <2>7. ASSUME NEW u \in Teardown PROVE TeardownInv(u)'
        BY <1>a, <1>ProvisionDatabase, <2>2 DEF ProvisionDatabase, Goto, handleVars,
            superVars, LifeTypeOK, Thread, Teardown, Attachment, Initializing,
            Releasing, TeardownInv, GivenUp, rigidVars, Starting, AttachInv,
            SetupInv
    <2> QED BY <1>b, <2>1, <2>2, <2>3, <2>4, <2>5, <2>6, <2>7
<1>PublishEndpoint. ASSUME PublishEndpoint PROVE Inv'
    <2>1. [FwdNext]_fwdVars
        BY <1>PublishEndpoint DEF PublishEndpoint, FwdNext, fwdVars
    <2>2. LifeTypeOK'
        BY <1>a, <1>PublishEndpoint DEF PublishEndpoint, Goto, rigidVars, superVars,
            watcherVars, Thread, Teardown, Attachment, LifeTypeOK, ThreadPc, Rest,
            Initializing, Starting, Releasing
    <2>3. AttachInv'
        BY <1>a, <1>PublishEndpoint, <2>2 DEF PublishEndpoint, Goto, rigidVars,
            superVars, LifeTypeOK, Thread, Teardown, Attachment, AttachInv
    <2>4. SetupInv'
        BY <1>a, <1>PublishEndpoint, <2>2 DEF PublishEndpoint, Goto, rigidVars,
            superVars, LifeTypeOK, Thread, Teardown, Attachment, Initializing,
            Starting, SetupInv, GivenUp, AttachInv, TeardownInv
    <2>5. WatcherInv' /\ DeathNotMasked'
        BY <1>a, <1>PublishEndpoint, <2>2 DEF PublishEndpoint, Goto, superVars,
            watcherVars, LifeTypeOK, Thread, Teardown, Attachment, WatcherInv,
            DeathNotMasked
    <2>6. ASSUME NEW h \in Attachment PROVE ExitInv(h)'
        BY <1>a, <1>PublishEndpoint, <2>2 DEF PublishEndpoint, Goto, superVars,
            LifeTypeOK, Thread, Teardown, Attachment, ExitInv
    <2>7. ASSUME NEW u \in Teardown PROVE TeardownInv(u)'
        BY <1>a, <1>PublishEndpoint, <2>2 DEF PublishEndpoint, Goto, superVars,
            LifeTypeOK, Thread, Teardown, Attachment, Initializing, Releasing,
            TeardownInv, GivenUp, rigidVars, Starting, AttachInv, SetupInv
    <2> QED BY <1>b, <2>1, <2>2, <2>3, <2>4, <2>5, <2>6, <2>7
<1>NativeInitFails. ASSUME NativeInitFails PROVE Inv'
    <2>1. [FwdNext]_fwdVars
        BY <1>NativeInitFails DEF NativeInitFails, FwdNext, fwdVars
    <2>2. LifeTypeOK'
        BY <1>a, <1>NativeInitFails DEF NativeInitFails, Goto, rigidVars, handleVars,
            superVars, watcherVars, Thread, Teardown, Attachment, LifeTypeOK, ThreadPc,
            Rest, Initializing, Starting, Releasing
    <2>3. AttachInv'
        BY <1>a, <1>NativeInitFails, <2>2 DEF NativeInitFails, Goto, rigidVars,
            handleVars, superVars, LifeTypeOK, Thread, Teardown, Attachment, AttachInv
    <2>4. SetupInv'
        BY <1>a, <1>NativeInitFails, <2>2 DEF NativeInitFails, Goto, rigidVars,
            handleVars, superVars, LifeTypeOK, Thread, Teardown, Attachment,
            Initializing, Starting, SetupInv, GivenUp, AttachInv, TeardownInv
    <2>5. WatcherInv' /\ DeathNotMasked'
        BY <1>a, <1>NativeInitFails, <2>2 DEF NativeInitFails, Goto, handleVars,
            superVars, watcherVars, LifeTypeOK, Thread, Teardown, Attachment,
            WatcherInv, DeathNotMasked
    <2>6. ASSUME NEW h \in Attachment PROVE ExitInv(h)'
        BY <1>a, <1>NativeInitFails, <2>2 DEF NativeInitFails, Goto, superVars,
            LifeTypeOK, Thread, Teardown, Attachment, ExitInv
    <2>7. ASSUME NEW u \in Teardown PROVE TeardownInv(u)'
        BY <1>a, <1>NativeInitFails, <2>2 DEF NativeInitFails, Goto, handleVars,
            superVars, LifeTypeOK, Thread, Teardown, Attachment, Initializing,
            Releasing, TeardownInv, GivenUp, rigidVars, Starting, AttachInv,
            SetupInv
    <2> QED BY <1>b, <2>1, <2>2, <2>3, <2>4, <2>5, <2>6, <2>7
<1>KeepRunner. ASSUME KeepRunner PROVE Inv'
    <2>1. [FwdNext]_fwdVars
        BY <1>KeepRunner DEF KeepRunner, FwdNext, fwdVars
    <2>2. LifeTypeOK'
        BY <1>a, <1>KeepRunner DEF KeepRunner, Goto, rigidVars, superVars,
            watcherVars, Thread, Teardown, Attachment, LifeTypeOK, ThreadPc, Rest,
            Initializing, Starting, Releasing
    <2>3. AttachInv'
        BY <1>a, <1>KeepRunner, <2>2 DEF KeepRunner, Goto, rigidVars, superVars,
            LifeTypeOK, Thread, Teardown, Attachment, AttachInv, SetupInv
    <2>4. SetupInv'
        BY <1>a, <1>KeepRunner, <2>2 DEF KeepRunner, Goto, rigidVars, superVars,
            LifeTypeOK, Thread, Teardown, Attachment, Initializing, Starting,
            SetupInv, GivenUp, AttachInv, TeardownInv
    <2>5. WatcherInv' /\ DeathNotMasked'
        BY <1>a, <1>KeepRunner, <2>2 DEF KeepRunner, Goto, superVars,
            watcherVars, LifeTypeOK, Thread, Teardown, Attachment, WatcherInv,
            DeathNotMasked
    <2>6. ASSUME NEW h \in Attachment PROVE ExitInv(h)'
        BY <1>a, <1>KeepRunner, <2>2 DEF KeepRunner, Goto, superVars, LifeTypeOK,
            Thread, Teardown, Attachment, ExitInv
    <2>7. ASSUME NEW u \in Teardown PROVE TeardownInv(u)'
        BY <1>a, <1>KeepRunner, <2>2 DEF KeepRunner, Goto, superVars, LifeTypeOK,
            Thread, Teardown, Attachment, Initializing, Releasing, TeardownInv,
            GivenUp, rigidVars, Starting, AttachInv, SetupInv
    <2> QED BY <1>b, <2>1, <2>2, <2>3, <2>4, <2>5, <2>6, <2>7
<1>InitContainer. ASSUME InitContainer PROVE Inv'
    <2>1. [FwdNext]_fwdVars
        BY <1>InitContainer DEF InitContainer, FwdNext, fwdVars
    <2>a. released' \in BOOLEAN
        BY <1>a, <1>InitContainer, Zenon DEF InitContainer, LifeTypeOK
    <2>b. container' \in {container, "running"}
        BY <1>InitContainer DEF InitContainer
    <2>c. pc' \in [Thread -> ThreadPc]
        BY <1>a, <1>InitContainer DEF InitContainer, Goto, Thread, LifeTypeOK,
            ThreadPc, Rest, Initializing
    <2>2. LifeTypeOK'
        BY <1>a, <1>InitContainer, <2>a, <2>b, <2>c DEF InitContainer, Goto, rigidVars, superVars,
            watcherVars, Thread, Teardown, Attachment, LifeTypeOK, ThreadPc, Rest,
            Initializing, Starting, Releasing
    <2>3. AttachInv'
        BY <1>a, <1>InitContainer, <2>2 DEF InitContainer, Goto, rigidVars, superVars,
            LifeTypeOK, Thread, Teardown, Attachment, AttachInv
    <2>4. SetupInv'
        BY <1>a, <1>InitContainer, <2>2 DEF InitContainer, Goto, rigidVars,
            superVars, LifeTypeOK, Thread, Teardown, Attachment, Initializing,
            Starting, SetupInv, GivenUp, AttachInv, TeardownInv
    <2>5. WatcherInv' /\ DeathNotMasked'
        BY <1>a, <1>InitContainer, <2>2 DEF InitContainer, Goto, superVars,
            watcherVars, LifeTypeOK, Thread, Teardown, Attachment, WatcherInv,
            DeathNotMasked
    <2>6. ASSUME NEW h \in Attachment PROVE ExitInv(h)'
        BY <1>a, <1>InitContainer, <2>2 DEF InitContainer, Goto, superVars, LifeTypeOK,
            Thread, Teardown, Attachment, ExitInv
    <2>7. ASSUME NEW u \in Teardown PROVE TeardownInv(u)'
        BY <1>a, <1>InitContainer, <2>2 DEF InitContainer, Goto, superVars,
            LifeTypeOK, Thread, Teardown, Attachment, Initializing, Releasing,
            TeardownInv, GivenUp, rigidVars, Starting, AttachInv, SetupInv
    <2> QED BY <1>b, <2>1, <2>2, <2>3, <2>4, <2>5, <2>6, <2>7
<1>ContainerInitFails. ASSUME ContainerInitFails PROVE Inv'
    <2>1. [FwdNext]_fwdVars
        BY <1>ContainerInitFails DEF ContainerInitFails, FwdNext, fwdVars
    <2>2. LifeTypeOK'
        BY <1>a, <1>ContainerInitFails DEF ContainerInitFails, Goto, rigidVars,
            handleVars, superVars, watcherVars, Thread, Teardown, Attachment,
            LifeTypeOK, ThreadPc, Rest, Initializing, Starting, Releasing
    <2>3. AttachInv'
        BY <1>a, <1>ContainerInitFails, <2>2 DEF ContainerInitFails, Goto, rigidVars,
            handleVars, superVars, LifeTypeOK, Thread, Teardown, Attachment, AttachInv
    <2>4. SetupInv'
        BY <1>a, <1>ContainerInitFails, <2>2 DEF ContainerInitFails, Goto,
            rigidVars, handleVars, superVars, LifeTypeOK, Thread, Teardown,
            Attachment, Initializing, Starting, SetupInv, GivenUp, AttachInv,
            TeardownInv
    <2>5. WatcherInv' /\ DeathNotMasked'
        BY <1>a, <1>ContainerInitFails, <2>2 DEF ContainerInitFails, Goto, handleVars,
            superVars, watcherVars, LifeTypeOK, Thread, Teardown, Attachment,
            WatcherInv, DeathNotMasked
    <2>6. ASSUME NEW h \in Attachment PROVE ExitInv(h)'
        BY <1>a, <1>ContainerInitFails, <2>2 DEF ContainerInitFails, Goto, superVars,
            LifeTypeOK, Thread, Teardown, Attachment, ExitInv
    <2>7. ASSUME NEW u \in Teardown PROVE TeardownInv(u)'
        BY <1>a, <1>ContainerInitFails, <2>2 DEF ContainerInitFails, Goto,
            handleVars, superVars, LifeTypeOK, Thread, Teardown, Attachment,
            Initializing, Releasing, TeardownInv, GivenUp, rigidVars, Starting,
            AttachInv, SetupInv
    <2> QED BY <1>b, <2>1, <2>2, <2>3, <2>4, <2>5, <2>6, <2>7
<1>MigrateOnInit. ASSUME MigrateOnInit PROVE Inv'
    <2>1. [FwdNext]_fwdVars
        BY <1>MigrateOnInit DEF MigrateOnInit, FwdNext, fwdVars
    <2>2. LifeTypeOK'
        BY <1>a, <1>MigrateOnInit DEF MigrateOnInit, Goto, rigidVars, handleVars,
            superVars, watcherVars, Thread, Teardown, Attachment, LifeTypeOK, ThreadPc,
            Rest, Initializing, Starting, Releasing
    <2>3. AttachInv'
        BY <1>a, <1>MigrateOnInit, <2>2 DEF MigrateOnInit, Goto, rigidVars, handleVars,
            superVars, LifeTypeOK, Thread, Teardown, Attachment, AttachInv
    <2>4. SetupInv'
        BY <1>a, <1>MigrateOnInit, <2>2 DEF MigrateOnInit, Goto, rigidVars,
            handleVars, superVars, LifeTypeOK, Thread, Teardown, Attachment,
            Initializing, Starting, SetupInv, GivenUp, AttachInv, TeardownInv
    <2>5. WatcherInv' /\ DeathNotMasked'
        BY <1>a, <1>MigrateOnInit, <2>2 DEF MigrateOnInit, Goto, handleVars, superVars,
            watcherVars, LifeTypeOK, Thread, Teardown, Attachment, WatcherInv,
            DeathNotMasked
    <2>6. ASSUME NEW h \in Attachment PROVE ExitInv(h)'
        BY <1>a, <1>MigrateOnInit, <2>2 DEF MigrateOnInit, Goto, superVars, LifeTypeOK,
            Thread, Teardown, Attachment, ExitInv
    <2>7. ASSUME NEW u \in Teardown PROVE TeardownInv(u)'
        BY <1>a, <1>MigrateOnInit, <2>2 DEF MigrateOnInit, Goto, handleVars,
            superVars, LifeTypeOK, Thread, Teardown, Attachment, Initializing,
            Releasing, TeardownInv, GivenUp, rigidVars, Starting, AttachInv,
            SetupInv
    <2> QED BY <1>b, <2>1, <2>2, <2>3, <2>4, <2>5, <2>6, <2>7
<1>BeginStart. ASSUME BeginStart PROVE Inv'
    <2>1. [FwdNext]_fwdVars
        BY <1>BeginStart DEF BeginStart, FwdNext, fwdVars
    <2>2. LifeTypeOK'
        BY <1>a, <1>BeginStart DEF BeginStart, Resting, TornDown, Rest, rigidVars,
            handleVars, watcherVars, Thread, Teardown, Attachment, LifeTypeOK,
            ThreadPc, Initializing, Starting, Releasing
    <2>3. AttachInv'
        BY <1>a, <1>BeginStart, <2>2 DEF BeginStart, Resting, TornDown, Rest,
            rigidVars, handleVars, LifeTypeOK, Thread, Teardown, Attachment, AttachInv
    <2>4. SetupInv'
        BY <1>a, <1>BeginStart, <2>2 DEF BeginStart, Resting, TornDown, Rest,
            rigidVars, callVars, handleVars, superVars, watcherVars, LifeTypeOK,
            Thread, Teardown, Attachment, Initializing, Starting, Releasing,
            SetupInv, GivenUp, AttachInv, ExitInv, TeardownInv
    <2>5. WatcherInv' /\ DeathNotMasked'
        BY <1>a, <1>BeginStart, <2>2 DEF BeginStart, Resting, TornDown, Rest,
            handleVars, watcherVars, LifeTypeOK, Thread, Teardown, Attachment,
            WatcherInv, DeathNotMasked
    <2>6. ASSUME NEW h \in Attachment PROVE ExitInv(h)'
        BY <1>a, <1>BeginStart, <2>2 DEF BeginStart, Resting, TornDown, Rest,
            LifeTypeOK, Thread, Teardown, Attachment, ExitInv
    <2>7. ASSUME NEW u \in Teardown PROVE TeardownInv(u)'
        BY <1>a, <1>BeginStart, <2>2 DEF BeginStart, Resting, TornDown, Rest,
            handleVars, LifeTypeOK, Thread, Teardown, Attachment, Initializing,
            Releasing, TeardownInv, GivenUp, rigidVars, superVars, Starting,
            AttachInv, SetupInv
    <2> QED BY <1>b, <2>1, <2>2, <2>3, <2>4, <2>5, <2>6, <2>7
<1>Prepare. ASSUME Prepare PROVE Inv'
    <2>1. [FwdNext]_fwdVars
        BY <1>Prepare DEF Prepare, FwdNext, fwdVars
    <2>2. LifeTypeOK'
        BY <1>a, <1>Prepare DEF Prepare, Goto, rigidVars, handleVars, superVars,
            watcherVars, Thread, Teardown, Attachment, LifeTypeOK, ThreadPc, Rest,
            Initializing, Starting, Releasing
    <2>3. AttachInv'
        BY <1>a, <1>Prepare, <2>2 DEF Prepare, Goto, rigidVars, handleVars, superVars,
            LifeTypeOK, Thread, Teardown, Attachment, AttachInv
    <2>4. SetupInv'
        BY <1>a, <1>Prepare, <2>2 DEF Prepare, Goto, rigidVars, handleVars,
            superVars, LifeTypeOK, Thread, Teardown, Attachment, Initializing,
            Starting, SetupInv, GivenUp, AttachInv, TeardownInv
    <2>5. WatcherInv' /\ DeathNotMasked'
        BY <1>a, <1>Prepare, <2>2 DEF Prepare, Goto, handleVars, superVars,
            watcherVars, LifeTypeOK, Thread, Teardown, Attachment, WatcherInv,
            DeathNotMasked
    <2>6. ASSUME NEW h \in Attachment PROVE ExitInv(h)'
        BY <1>a, <1>Prepare, <2>2 DEF Prepare, Goto, superVars, LifeTypeOK, Thread,
            Teardown, Attachment, ExitInv
    <2>7. ASSUME NEW u \in Teardown PROVE TeardownInv(u)'
        BY <1>a, <1>Prepare, <2>2 DEF Prepare, Goto, handleVars, superVars,
            LifeTypeOK, Thread, Teardown, Attachment, Initializing, Releasing,
            TeardownInv, GivenUp, rigidVars, Starting, AttachInv, SetupInv
    <2> QED BY <1>b, <2>1, <2>2, <2>3, <2>4, <2>5, <2>6, <2>7
<1>ArmWatcher. ASSUME ArmWatcher PROVE Inv'
    <2>1. [FwdNext]_fwdVars
        BY <1>ArmWatcher DEF ArmWatcher, FwdNext, fwdVars
    <2>a. watchers' \in Nat
        BY <1>a, <1>ArmWatcher DEF ArmWatcher, watcherVars, LifeTypeOK, WatcherInv
    <2>b. cancel' \in BOOLEAN
        BY <1>a, <1>ArmWatcher, Zenon DEF ArmWatcher, watcherVars, LifeTypeOK
    <2>2. LifeTypeOK'
        BY <1>a, <1>ArmWatcher, <2>a, <2>b DEF ArmWatcher, Goto, rigidVars, handleVars,
            superVars, watcherVars, Thread, Teardown, Attachment, LifeTypeOK, ThreadPc,
            Rest, Initializing, Starting, Releasing
    <2>3. AttachInv'
        BY <1>a, <1>ArmWatcher, <2>2 DEF ArmWatcher, Goto, rigidVars, handleVars,
            superVars, LifeTypeOK, Thread, Teardown, Attachment, AttachInv
    <2>4. SetupInv'
        BY <1>a, <1>ArmWatcher, <2>2 DEF ArmWatcher, Goto, rigidVars, handleVars,
            superVars, LifeTypeOK, Thread, Teardown, Attachment, Initializing,
            Starting, SetupInv, GivenUp, AttachInv, TeardownInv
    <2>5. WatcherInv' /\ DeathNotMasked'
        BY <1>a, <1>ArmWatcher, <2>2 DEF ArmWatcher, Goto, handleVars, superVars,
            watcherVars, LifeTypeOK, Thread, Teardown, Attachment, WatcherInv,
            DeathNotMasked
    <2>6. ASSUME NEW h \in Attachment PROVE ExitInv(h)'
        BY <1>a, <1>ArmWatcher, <2>2 DEF ArmWatcher, Goto, superVars, LifeTypeOK,
            Thread, Teardown, Attachment, ExitInv
    <2>7. ASSUME NEW u \in Teardown PROVE TeardownInv(u)'
        BY <1>a, <1>ArmWatcher, <2>2 DEF ArmWatcher, Goto, handleVars, superVars,
            LifeTypeOK, Thread, Teardown, Attachment, Initializing, Releasing,
            TeardownInv, GivenUp, rigidVars, Starting, AttachInv, SetupInv
    <2> QED BY <1>b, <2>1, <2>2, <2>3, <2>4, <2>5, <2>6, <2>7
<1>EnsureAccess. ASSUME EnsureAccess PROVE Inv'
    <2>1. [FwdNext]_fwdVars
        BY <1>EnsureAccess DEF EnsureAccess, FwdNext, fwdVars
    <2>2. LifeTypeOK'
        BY <1>a, <1>EnsureAccess DEF EnsureAccess, Goto, Answers, rigidVars,
            handleVars, superVars, watcherVars, Thread, Teardown, Attachment,
            LifeTypeOK, ThreadPc, Rest, Initializing, Starting, Releasing
    <2>3. AttachInv'
        BY <1>a, <1>EnsureAccess, <2>2 DEF EnsureAccess, Goto, Answers, rigidVars,
            handleVars, superVars, LifeTypeOK, Thread, Teardown, Attachment, AttachInv
    <2>4. SetupInv'
        BY <1>a, <1>EnsureAccess, <2>2 DEF EnsureAccess, Goto, Answers, rigidVars,
            callVars, handleVars, superVars, watcherVars, LifeTypeOK, Thread,
            Teardown, Attachment, Initializing, Starting, Releasing, SetupInv,
            GivenUp, AttachInv, ExitInv, TeardownInv
    <2>5. WatcherInv' /\ DeathNotMasked'
        BY <1>a, <1>EnsureAccess, <2>2 DEF EnsureAccess, Goto, Answers, handleVars,
            superVars, watcherVars, LifeTypeOK, Thread, Teardown, Attachment,
            WatcherInv, DeathNotMasked
    <2>6. ASSUME NEW h \in Attachment PROVE ExitInv(h)'
        BY <1>a, <1>EnsureAccess, <2>2 DEF EnsureAccess, Goto, Answers, superVars,
            LifeTypeOK, Thread, Teardown, Attachment, ExitInv
    <2>7. ASSUME NEW u \in Teardown PROVE TeardownInv(u)'
        BY <1>a, <1>EnsureAccess, <2>2 DEF EnsureAccess, Goto, Answers, handleVars,
            superVars, LifeTypeOK, Thread, Teardown, Attachment, Initializing,
            Releasing, TeardownInv, GivenUp, rigidVars, Starting, AttachInv,
            SetupInv
    <2> QED BY <1>b, <2>1, <2>2, <2>3, <2>4, <2>5, <2>6, <2>7
<1>StartFails. ASSUME StartFails PROVE Inv'
    <2>1. [FwdNext]_fwdVars
        BY <1>StartFails DEF StartFails, FwdNext, fwdVars
    <2>2. LifeTypeOK'
        BY <1>a, <1>StartFails DEF StartFails, Goto, rigidVars, handleVars,
            watcherVars, Thread, Teardown, Attachment, LifeTypeOK, ThreadPc, Rest,
            Initializing, Starting, Releasing
    <2>3. AttachInv'
        BY <1>a, <1>StartFails, <2>2 DEF StartFails, Goto, rigidVars, handleVars,
            LifeTypeOK, Thread, Teardown, Attachment, AttachInv
    <2>4. SetupInv'
        BY <1>a, <1>StartFails, <2>2 DEF StartFails, Goto, rigidVars, handleVars,
            LifeTypeOK, Thread, Teardown, Attachment, Initializing, Starting,
            SetupInv, GivenUp, AttachInv, TeardownInv
    <2>5. WatcherInv' /\ DeathNotMasked'
        BY <1>a, <1>StartFails, <2>2 DEF StartFails, Goto, handleVars, watcherVars,
            LifeTypeOK, Thread, Teardown, Attachment, WatcherInv, DeathNotMasked
    <2>6. ASSUME NEW h \in Attachment PROVE ExitInv(h)'
        BY <1>a, <1>StartFails, <2>2 DEF StartFails, Goto, LifeTypeOK, Thread,
            Teardown, Attachment, ExitInv
    <2>7. ASSUME NEW u \in Teardown PROVE TeardownInv(u)'
        BY <1>a, <1>StartFails, <2>2 DEF StartFails, Goto, handleVars, LifeTypeOK,
            Thread, Teardown, Attachment, Initializing, Releasing, TeardownInv,
            GivenUp, rigidVars, superVars, Starting, AttachInv, SetupInv
    <2> QED BY <1>b, <2>1, <2>2, <2>3, <2>4, <2>5, <2>6, <2>7
<1>CommitStarted. ASSUME CommitStarted PROVE Inv'
    <2>1. [FwdNext]_fwdVars
        BY <1>CommitStarted DEF CommitStarted, FwdNext, fwdVars
    <2>2. LifeTypeOK'
        BY <1>a, <1>CommitStarted DEF CommitStarted, Goto, rigidVars, handleVars,
            watcherVars, Thread, Teardown, Attachment, LifeTypeOK, ThreadPc, Rest,
            Initializing, Starting, Releasing
    <2>3. AttachInv'
        BY <1>a, <1>CommitStarted, <2>2 DEF CommitStarted, Goto, rigidVars, handleVars,
            LifeTypeOK, Thread, Teardown, Attachment, AttachInv
    <2>4. SetupInv'
        BY <1>a, <1>CommitStarted, <2>2 DEF CommitStarted, Goto, rigidVars,
            handleVars, LifeTypeOK, Thread, Teardown, Attachment, Initializing,
            Starting, SetupInv, GivenUp, AttachInv, TeardownInv
    <2>5. WatcherInv' /\ DeathNotMasked'
        BY <1>a, <1>CommitStarted, <2>2 DEF CommitStarted, Goto, rigidVars, callVars,
            handleVars, superVars, watcherVars, LifeTypeOK, Thread, Teardown,
            Attachment, Initializing, Starting, Releasing, WatcherInv, DeathNotMasked,
            SetupInv, AttachInv, ExitInv, GivenUp
    <2>6. ASSUME NEW h \in Attachment PROVE ExitInv(h)'
        BY <1>a, <1>CommitStarted, <2>2 DEF CommitStarted, Goto, LifeTypeOK, Thread,
            Teardown, Attachment, ExitInv
    <2>7. ASSUME NEW u \in Teardown PROVE TeardownInv(u)'
        BY <1>a, <1>CommitStarted, <2>2 DEF CommitStarted, Goto, handleVars,
            LifeTypeOK, Thread, Teardown, Attachment, Initializing, Releasing,
            TeardownInv, GivenUp, rigidVars, superVars, Starting, AttachInv,
            SetupInv
    <2> QED BY <1>b, <2>1, <2>2, <2>3, <2>4, <2>5, <2>6, <2>7
<1>Supervise. ASSUME Supervise PROVE Inv'
    <2>1. [FwdNext]_fwdVars
        BY <1>Supervise DEF Supervise, FwdNext, fwdVars
    <2>2. LifeTypeOK'
        BY <1>a, <1>Supervise DEF Supervise, Goto, rigidVars, handleVars, watcherVars,
            Thread, Teardown, Attachment, LifeTypeOK, ThreadPc, Rest, Initializing,
            Starting, Releasing
    <2>3. AttachInv'
        BY <1>a, <1>Supervise, <2>2 DEF Supervise, Goto, rigidVars, handleVars,
            LifeTypeOK, Thread, Teardown, Attachment, AttachInv
    <2>4. SetupInv'
        BY <1>a, <1>Supervise, <2>2 DEF Supervise, Goto, rigidVars, handleVars,
            LifeTypeOK, Thread, Teardown, Attachment, Initializing, Starting,
            SetupInv, GivenUp, AttachInv, TeardownInv
    <2>5. WatcherInv' /\ DeathNotMasked'
        BY <1>a, <1>Supervise, <2>2 DEF Supervise, Goto, handleVars, watcherVars,
            LifeTypeOK, Thread, Teardown, Attachment, WatcherInv, DeathNotMasked
    <2>6. ASSUME NEW h \in Attachment PROVE ExitInv(h)'
        BY <1>a, <1>Supervise, <2>2 DEF Supervise, Goto, LifeTypeOK, Thread, Teardown,
            Attachment, ExitInv
    <2>7. ASSUME NEW u \in Teardown PROVE TeardownInv(u)'
        BY <1>a, <1>Supervise, <2>2 DEF Supervise, Goto, handleVars, LifeTypeOK,
            Thread, Teardown, Attachment, Initializing, Releasing, TeardownInv,
            GivenUp, rigidVars, superVars, Starting, AttachInv, SetupInv
    <2> QED BY <1>b, <2>1, <2>2, <2>3, <2>4, <2>5, <2>6, <2>7
<1>BeginTeardown. ASSUME NEW t \in Teardown, BeginTeardown(t) PROVE Inv'
    <2>1. [FwdNext]_fwdVars
        BY <1>BeginTeardown DEF BeginTeardown, FwdNext, fwdVars
    <2>2. LifeTypeOK'
        BY <1>a, <1>BeginTeardown DEF BeginTeardown, Goto, Resting, Rest, rigidVars,
            handleVars, superVars, watcherVars, Thread, Teardown, Attachment,
            LifeTypeOK, ThreadPc, Initializing, Starting, Releasing
    <2>3. AttachInv'
        BY <1>a, <1>BeginTeardown, <2>2 DEF BeginTeardown, Goto, Resting, Rest,
            rigidVars, handleVars, superVars, LifeTypeOK, Thread, Teardown, Attachment,
            Starting, AttachInv
    <2>4. SetupInv'
        BY <1>a, <1>BeginTeardown, <2>2 DEF BeginTeardown, Goto, Resting, Rest,
            rigidVars, handleVars, superVars, LifeTypeOK, Thread, Teardown,
            Attachment, Initializing, Starting, SetupInv, GivenUp, AttachInv,
            TeardownInv
    <2>5. WatcherInv' /\ DeathNotMasked'
        BY <1>a, <1>BeginTeardown, <2>2 DEF BeginTeardown, Goto, Resting, Rest,
            handleVars, superVars, watcherVars, LifeTypeOK, Thread, Teardown,
            Attachment, Starting, WatcherInv, DeathNotMasked
    <2>6. ASSUME NEW h \in Attachment PROVE ExitInv(h)'
        BY <1>a, <1>BeginTeardown, <2>2 DEF BeginTeardown, Goto, Resting, Rest,
            superVars, LifeTypeOK, Thread, Teardown, Attachment, Starting, ExitInv
    <2>7. ASSUME NEW u \in Teardown PROVE TeardownInv(u)'
        BY <1>a, <1>BeginTeardown, <2>2 DEF BeginTeardown, Goto, Resting, Rest,
            handleVars, superVars, LifeTypeOK, Thread, Teardown, Attachment,
            Initializing, Starting, Releasing, TeardownInv, GivenUp, rigidVars,
            AttachInv, SetupInv
    <2> QED BY <1>b, <2>1, <2>2, <2>3, <2>4, <2>5, <2>6, <2>7
<1>CancelSupervision. ASSUME NEW t \in Thread, CancelSupervision(t) PROVE Inv'
    <2>1. [FwdNext]_fwdVars
        BY <1>CancelSupervision DEF CancelSupervision, FwdNext, fwdVars
    <2>2. LifeTypeOK'
        BY <1>a, <1>CancelSupervision DEF CancelSupervision, Goto, rigidVars, callVars,
            handleVars, superVars, watcherVars, Thread, Teardown, Attachment,
            LifeTypeOK, ThreadPc, Rest, Initializing, Starting, Releasing, AttachInv,
            SetupInv, TeardownInv
    <2>3. AttachInv'
        BY <1>a, <1>CancelSupervision, <2>2 DEF CancelSupervision, Goto, rigidVars,
            handleVars, LifeTypeOK, Thread, Teardown, Attachment, AttachInv
    <2>4. SetupInv'
        BY <1>a, <1>CancelSupervision, <2>2 DEF CancelSupervision, Goto, rigidVars,
            handleVars, LifeTypeOK, Thread, Teardown, Attachment, Initializing,
            Starting, SetupInv, GivenUp, AttachInv, TeardownInv
    <2>5. WatcherInv' /\ DeathNotMasked'
        BY <1>a, <1>CancelSupervision, <2>2 DEF CancelSupervision, Goto, handleVars,
            watcherVars, LifeTypeOK, Thread, Teardown, Attachment, WatcherInv,
            DeathNotMasked
    <2>6. ASSUME NEW h \in Attachment PROVE ExitInv(h)'
        BY <1>a, <1>CancelSupervision, <2>2 DEF CancelSupervision, Goto, LifeTypeOK,
            Thread, Teardown, Attachment, ExitInv
    <2>7. ASSUME NEW u \in Teardown PROVE TeardownInv(u)'
        BY <1>a, <1>CancelSupervision, <2>2 DEF CancelSupervision, Goto, handleVars,
            LifeTypeOK, Thread, Teardown, Attachment, Initializing, Releasing,
            TeardownInv, GivenUp, rigidVars, superVars, Starting, AttachInv,
            SetupInv
    <2> QED BY <1>b, <2>1, <2>2, <2>3, <2>4, <2>5, <2>6, <2>7
<1>EndpointClosed. ASSUME NEW t \in Thread, EndpointClosed(t) PROVE Inv'
    <2>1. [FwdNext]_fwdVars
        BY <1>EndpointClosed DEF EndpointClosed, FwdNext, fwdVars
    <2>2. LifeTypeOK'
        BY <1>a, <1>EndpointClosed DEF EndpointClosed, Goto, rigidVars, handleVars,
            superVars, watcherVars, Thread, Teardown, Attachment, LifeTypeOK, ThreadPc,
            Rest, Initializing, Starting, Releasing
    <2>3. AttachInv'
        BY <1>a, <1>EndpointClosed, <2>2 DEF EndpointClosed, Goto, rigidVars,
            handleVars, superVars, LifeTypeOK, Thread, Teardown, Attachment, AttachInv
    <2>4. SetupInv'
        BY <1>a, <1>EndpointClosed, <2>2 DEF EndpointClosed, Goto, rigidVars,
            handleVars, superVars, LifeTypeOK, Thread, Teardown, Attachment,
            Initializing, Starting, SetupInv, GivenUp, AttachInv, TeardownInv
    <2>5. WatcherInv' /\ DeathNotMasked'
        BY <1>a, <1>EndpointClosed, <2>2 DEF EndpointClosed, Goto, handleVars,
            superVars, watcherVars, LifeTypeOK, Thread, Teardown, Attachment,
            WatcherInv, DeathNotMasked
    <2>6. ASSUME NEW h \in Attachment PROVE ExitInv(h)'
        BY <1>a, <1>EndpointClosed, <2>2 DEF EndpointClosed, Goto, superVars,
            LifeTypeOK, Thread, Teardown, Attachment, ExitInv
    <2>7. ASSUME NEW u \in Teardown PROVE TeardownInv(u)'
        BY <1>a, <1>EndpointClosed, <2>2 DEF EndpointClosed, Goto, handleVars,
            superVars, LifeTypeOK, Thread, Teardown, Attachment, Initializing,
            Releasing, TeardownInv, GivenUp, rigidVars, Starting, AttachInv,
            SetupInv
    <2> QED BY <1>b, <2>1, <2>2, <2>3, <2>4, <2>5, <2>6, <2>7
<1>ReleaseNative. ASSUME NEW t \in Thread, ReleaseNative(t) PROVE Inv'
    <2>1. [FwdNext]_fwdVars
        BY <1>ReleaseNative DEF ReleaseNative, FwdNext, fwdVars
    <2>2. LifeTypeOK'
        BY <1>a, <1>ReleaseNative DEF ReleaseNative, Goto, Unlock, rigidVars,
            superVars, watcherVars, Thread, Teardown, Attachment, LifeTypeOK, ThreadPc,
            Rest, Initializing, Starting, Releasing
    <2>3. AttachInv'
        BY <1>a, <1>ReleaseNative, <2>2 DEF ReleaseNative, Goto, Unlock, rigidVars,
            superVars, LifeTypeOK, Thread, Teardown, Attachment, AttachInv
    <2>4. SetupInv'
        BY <1>a, <1>ReleaseNative, <2>2 DEF ReleaseNative, Goto, Unlock, rigidVars,
            callVars, handleVars, superVars, watcherVars, LifeTypeOK, Thread,
            Teardown, Attachment, Initializing, Starting, Releasing, SetupInv,
            GivenUp, AttachInv, ExitInv, TeardownInv
    <2>5. WatcherInv' /\ DeathNotMasked'
        BY <1>a, <1>ReleaseNative, <2>2 DEF ReleaseNative, Goto, Unlock, superVars,
            watcherVars, LifeTypeOK, Thread, Teardown, Attachment, WatcherInv,
            DeathNotMasked
    <2>6. ASSUME NEW h \in Attachment PROVE ExitInv(h)'
        BY <1>a, <1>ReleaseNative, <2>2 DEF ReleaseNative, Goto, Unlock, superVars,
            LifeTypeOK, Thread, Teardown, Attachment, ExitInv
    <2>7. ASSUME NEW u \in Teardown PROVE TeardownInv(u)'
        BY <1>a, <1>ReleaseNative, <2>2 DEF ReleaseNative, Goto, Unlock, superVars,
            LifeTypeOK, Thread, Teardown, Attachment, Initializing, Releasing,
            TeardownInv, GivenUp, rigidVars, Starting, AttachInv, SetupInv
    <2> QED BY <1>b, <2>1, <2>2, <2>3, <2>4, <2>5, <2>6, <2>7
<1>ReleaseNil. ASSUME NEW t \in Thread, ReleaseNil(t) PROVE Inv'
    <2>1. [FwdNext]_fwdVars
        BY <1>ReleaseNil DEF ReleaseNil, FwdNext, fwdVars
    <2>2. LifeTypeOK'
        BY <1>a, <1>ReleaseNil DEF ReleaseNil, Goto, Unlock, rigidVars, handleVars,
            superVars, watcherVars, Thread, Teardown, Attachment, LifeTypeOK, ThreadPc,
            Rest, Initializing, Starting, Releasing
    <2>3. AttachInv'
        BY <1>a, <1>ReleaseNil, <2>2 DEF ReleaseNil, Goto, Unlock, rigidVars,
            handleVars, superVars, LifeTypeOK, Thread, Teardown, Attachment, AttachInv
    <2>4. SetupInv'
        BY <1>a, <1>ReleaseNil, <2>2 DEF ReleaseNil, Goto, Unlock, rigidVars,
            handleVars, superVars, LifeTypeOK, Thread, Teardown, Attachment,
            Initializing, Starting, SetupInv, GivenUp, AttachInv, TeardownInv
    <2>5. WatcherInv' /\ DeathNotMasked'
        BY <1>a, <1>ReleaseNil, <2>2 DEF ReleaseNil, Goto, Unlock, handleVars,
            superVars, watcherVars, LifeTypeOK, Thread, Teardown, Attachment,
            WatcherInv, DeathNotMasked
    <2>6. ASSUME NEW h \in Attachment PROVE ExitInv(h)'
        BY <1>a, <1>ReleaseNil, <2>2 DEF ReleaseNil, Goto, Unlock, superVars,
            LifeTypeOK, Thread, Teardown, Attachment, ExitInv
    <2>7. ASSUME NEW u \in Teardown PROVE TeardownInv(u)'
        BY <1>a, <1>ReleaseNil, <2>2 DEF ReleaseNil, Goto, Unlock, handleVars,
            superVars, LifeTypeOK, Thread, Teardown, Attachment, Initializing,
            Releasing, TeardownInv, GivenUp, rigidVars, Starting, AttachInv,
            SetupInv
    <2> QED BY <1>b, <2>1, <2>2, <2>3, <2>4, <2>5, <2>6, <2>7
<1>ReleaseFails. ASSUME NEW t \in Thread, ReleaseFails(t) PROVE Inv'
    <2>1. [FwdNext]_fwdVars
        BY <1>ReleaseFails DEF ReleaseFails, FwdNext, fwdVars
    <2>2. LifeTypeOK'
        BY <1>a, <1>ReleaseFails DEF ReleaseFails, Goto, Unlock, rigidVars, handleVars,
            superVars, watcherVars, Thread, Teardown, Attachment, LifeTypeOK, ThreadPc,
            Rest, Initializing, Starting, Releasing
    <2>3. AttachInv'
        BY <1>a, <1>ReleaseFails, <2>2 DEF ReleaseFails, Goto, Unlock, rigidVars,
            handleVars, superVars, LifeTypeOK, Thread, Teardown, Attachment, AttachInv
    <2>4. SetupInv'
        BY <1>a, <1>ReleaseFails, <2>2 DEF ReleaseFails, Goto, Unlock, rigidVars,
            handleVars, superVars, LifeTypeOK, Thread, Teardown, Attachment,
            Initializing, Starting, SetupInv, GivenUp, AttachInv, TeardownInv
    <2>5. WatcherInv' /\ DeathNotMasked'
        BY <1>a, <1>ReleaseFails, <2>2 DEF ReleaseFails, Goto, Unlock, handleVars,
            superVars, watcherVars, LifeTypeOK, Thread, Teardown, Attachment,
            WatcherInv, DeathNotMasked
    <2>6. ASSUME NEW h \in Attachment PROVE ExitInv(h)'
        BY <1>a, <1>ReleaseFails, <2>2 DEF ReleaseFails, Goto, Unlock, superVars,
            LifeTypeOK, Thread, Teardown, Attachment, ExitInv
    <2>7. ASSUME NEW u \in Teardown PROVE TeardownInv(u)'
        BY <1>a, <1>ReleaseFails, <2>2 DEF ReleaseFails, Goto, Unlock, handleVars,
            superVars, LifeTypeOK, Thread, Teardown, Attachment, Initializing,
            Releasing, TeardownInv, GivenUp, rigidVars, Starting, AttachInv,
            SetupInv
    <2> QED BY <1>b, <2>1, <2>2, <2>3, <2>4, <2>5, <2>6, <2>7
<1>Stop. ASSUME Stop PROVE Inv'
    <2>1. [FwdNext]_fwdVars
        BY <1>Stop DEF Stop, FwdNext, fwdVars
    <2>a. watchers' \in Nat
        BY <1>a, <1>Stop DEF Stop, StopWatcher, LifeTypeOK, WatcherInv
    <2>b. cancel' \in BOOLEAN
        BY <1>a, <1>Stop, Zenon DEF Stop, StopWatcher, LifeTypeOK
    <2>2. LifeTypeOK'
        BY <1>a, <1>Stop, <2>a, <2>b DEF Stop, Goto, StopWatcher, rigidVars,
            handleVars, superVars, Thread, Teardown, Attachment, LifeTypeOK, ThreadPc,
            Rest, Initializing, Starting, Releasing
    <2>3. AttachInv'
        BY <1>a, <1>Stop, <2>2 DEF Stop, Goto, StopWatcher, rigidVars, handleVars,
            superVars, LifeTypeOK, Thread, Teardown, Attachment, AttachInv
    <2>4. SetupInv'
        BY <1>a, <1>Stop, <2>2 DEF Stop, Goto, StopWatcher, rigidVars, handleVars,
            superVars, LifeTypeOK, Thread, Teardown, Attachment, Initializing,
            Starting, SetupInv, GivenUp, AttachInv, TeardownInv
    <2>5. WatcherInv' /\ DeathNotMasked'
        BY <1>a, <1>Stop, <2>2 DEF Stop, Goto, StopWatcher, handleVars, superVars,
            LifeTypeOK, Thread, Teardown, Attachment, WatcherInv, DeathNotMasked
    <2>6. ASSUME NEW h \in Attachment PROVE ExitInv(h)'
        BY <1>a, <1>Stop, <2>2 DEF Stop, Goto, StopWatcher, superVars, LifeTypeOK,
            Thread, Teardown, Attachment, ExitInv
    <2>7. ASSUME NEW u \in Teardown PROVE TeardownInv(u)'
        BY <1>a, <1>Stop, <2>2 DEF Stop, Goto, StopWatcher, handleVars, superVars,
            LifeTypeOK, Thread, Teardown, Attachment, Initializing, Releasing,
            TeardownInv, GivenUp, rigidVars, Starting, AttachInv, SetupInv
    <2> QED BY <1>b, <2>1, <2>2, <2>3, <2>4, <2>5, <2>6, <2>7
<1>StopContainer. ASSUME StopContainer PROVE Inv'
    <2>1. [FwdNext]_fwdVars
        BY <1>StopContainer DEF StopContainer, FwdNext, fwdVars
    <2>2. LifeTypeOK'
        BY <1>a, <1>StopContainer DEF StopContainer, Goto, Unlock, rigidVars,
            superVars, watcherVars, Thread, Teardown, Attachment, LifeTypeOK, ThreadPc,
            Rest, Initializing, Starting, Releasing
    <2>3. AttachInv'
        BY <1>a, <1>StopContainer, <2>2 DEF StopContainer, Goto, Unlock, rigidVars,
            superVars, LifeTypeOK, Thread, Teardown, Attachment, AttachInv
    <2>4. SetupInv'
        BY <1>a, <1>StopContainer, <2>2 DEF StopContainer, Goto, Unlock, rigidVars,
            superVars, LifeTypeOK, Thread, Teardown, Attachment, Initializing,
            Starting, SetupInv, GivenUp, AttachInv, TeardownInv
    <2>5. WatcherInv' /\ DeathNotMasked'
        BY <1>a, <1>StopContainer, <2>2 DEF StopContainer, Goto, Unlock, superVars,
            watcherVars, LifeTypeOK, Thread, Teardown, Attachment, WatcherInv,
            DeathNotMasked
    <2>6. ASSUME NEW h \in Attachment PROVE ExitInv(h)'
        BY <1>a, <1>StopContainer, <2>2 DEF StopContainer, Goto, Unlock, superVars,
            LifeTypeOK, Thread, Teardown, Attachment, ExitInv
    <2>7. ASSUME NEW u \in Teardown PROVE TeardownInv(u)'
        BY <1>a, <1>StopContainer, <2>2 DEF StopContainer, Goto, Unlock, superVars,
            LifeTypeOK, Thread, Teardown, Attachment, Initializing, Releasing,
            TeardownInv, GivenUp, rigidVars, Starting, AttachInv, SetupInv
    <2> QED BY <1>b, <2>1, <2>2, <2>3, <2>4, <2>5, <2>6, <2>7
<1>StopContainerFails. ASSUME StopContainerFails PROVE Inv'
    <2>1. [FwdNext]_fwdVars
        BY <1>StopContainerFails DEF StopContainerFails, FwdNext, fwdVars
    <2>2. LifeTypeOK'
        BY <1>a, <1>StopContainerFails DEF StopContainerFails, Goto, Unlock, rigidVars,
            superVars, watcherVars, Thread, Teardown, Attachment, LifeTypeOK, ThreadPc,
            Rest, Initializing, Starting, Releasing
    <2>3. AttachInv'
        BY <1>a, <1>StopContainerFails, <2>2 DEF StopContainerFails, Goto, Unlock,
            rigidVars, superVars, LifeTypeOK, Thread, Teardown, Attachment, AttachInv
    <2>4. SetupInv'
        BY <1>a, <1>StopContainerFails, <2>2 DEF StopContainerFails, Goto, Unlock,
            rigidVars, superVars, LifeTypeOK, Thread, Teardown, Attachment,
            Initializing, Starting, SetupInv, GivenUp, AttachInv, TeardownInv
    <2>5. WatcherInv' /\ DeathNotMasked'
        BY <1>a, <1>StopContainerFails, <2>2 DEF StopContainerFails, Goto, Unlock,
            superVars, watcherVars, LifeTypeOK, Thread, Teardown, Attachment,
            WatcherInv, DeathNotMasked
    <2>6. ASSUME NEW h \in Attachment PROVE ExitInv(h)'
        BY <1>a, <1>StopContainerFails, <2>2 DEF StopContainerFails, Goto, Unlock,
            superVars, LifeTypeOK, Thread, Teardown, Attachment, ExitInv
    <2>7. ASSUME NEW u \in Teardown PROVE TeardownInv(u)'
        BY <1>a, <1>StopContainerFails, <2>2 DEF StopContainerFails, Goto, Unlock,
            superVars, LifeTypeOK, Thread, Teardown, Attachment, Initializing,
            Releasing, TeardownInv, GivenUp, rigidVars, Starting, AttachInv,
            SetupInv
    <2> QED BY <1>b, <2>1, <2>2, <2>3, <2>4, <2>5, <2>6, <2>7
<1>Destroy. ASSUME Destroy PROVE Inv'
    <2>1. [FwdNext]_fwdVars
        BY <1>Destroy DEF Destroy, FwdNext, fwdVars
    <2>a. watchers' \in Nat
        BY <1>a, <1>Destroy DEF Destroy, StopWatcher, LifeTypeOK, WatcherInv
    <2>b. cancel' \in BOOLEAN
        BY <1>a, <1>Destroy, Zenon DEF Destroy, StopWatcher, LifeTypeOK
    <2>2. LifeTypeOK'
        BY <1>a, <1>Destroy, <2>a, <2>b DEF Destroy, Goto, StopWatcher, rigidVars,
            handleVars, superVars, Thread, Teardown, Attachment, LifeTypeOK, ThreadPc,
            Rest, Initializing, Starting, Releasing
    <2>3. AttachInv'
        BY <1>a, <1>Destroy, <2>2 DEF Destroy, Goto, StopWatcher, rigidVars,
            handleVars, superVars, LifeTypeOK, Thread, Teardown, Attachment, AttachInv
    <2>4. SetupInv'
        BY <1>a, <1>Destroy, <2>2 DEF Destroy, Goto, StopWatcher, rigidVars,
            handleVars, superVars, LifeTypeOK, Thread, Teardown, Attachment,
            Initializing, Starting, SetupInv, GivenUp, AttachInv, TeardownInv
    <2>5. WatcherInv' /\ DeathNotMasked'
        BY <1>a, <1>Destroy, <2>2 DEF Destroy, Goto, StopWatcher, handleVars,
            superVars, LifeTypeOK, Thread, Teardown, Attachment, WatcherInv,
            DeathNotMasked
    <2>6. ASSUME NEW h \in Attachment PROVE ExitInv(h)'
        BY <1>a, <1>Destroy, <2>2 DEF Destroy, Goto, StopWatcher, superVars,
            LifeTypeOK, Thread, Teardown, Attachment, ExitInv
    <2>7. ASSUME NEW u \in Teardown PROVE TeardownInv(u)'
        BY <1>a, <1>Destroy, <2>2 DEF Destroy, Goto, StopWatcher, handleVars,
            superVars, LifeTypeOK, Thread, Teardown, Attachment, Initializing,
            Releasing, TeardownInv, GivenUp, rigidVars, Starting, AttachInv,
            SetupInv
    <2> QED BY <1>b, <2>1, <2>2, <2>3, <2>4, <2>5, <2>6, <2>7
<1>RemoveContainer. ASSUME RemoveContainer PROVE Inv'
    <2>1. [FwdNext]_fwdVars
        BY <1>RemoveContainer DEF RemoveContainer, FwdNext, fwdVars
    <2>2. LifeTypeOK'
        BY <1>a, <1>RemoveContainer DEF RemoveContainer, Goto, Unlock, rigidVars,
            superVars, watcherVars, Thread, Teardown, Attachment, LifeTypeOK, ThreadPc,
            Rest, Initializing, Starting, Releasing
    <2>3. AttachInv'
        BY <1>a, <1>RemoveContainer, <2>2 DEF RemoveContainer, Goto, Unlock, rigidVars,
            superVars, LifeTypeOK, Thread, Teardown, Attachment, AttachInv
    <2>4. SetupInv'
        BY <1>a, <1>RemoveContainer, <2>2 DEF RemoveContainer, Goto, Unlock,
            rigidVars, superVars, LifeTypeOK, Thread, Teardown, Attachment,
            Initializing, Starting, SetupInv, GivenUp, AttachInv, TeardownInv
    <2>5. WatcherInv' /\ DeathNotMasked'
        BY <1>a, <1>RemoveContainer, <2>2 DEF RemoveContainer, Goto, Unlock, superVars,
            watcherVars, LifeTypeOK, Thread, Teardown, Attachment, WatcherInv,
            DeathNotMasked
    <2>6. ASSUME NEW h \in Attachment PROVE ExitInv(h)'
        BY <1>a, <1>RemoveContainer, <2>2 DEF RemoveContainer, Goto, Unlock, superVars,
            LifeTypeOK, Thread, Teardown, Attachment, ExitInv
    <2>7. ASSUME NEW u \in Teardown PROVE TeardownInv(u)'
        BY <1>a, <1>RemoveContainer, <2>2 DEF RemoveContainer, Goto, Unlock,
            superVars, LifeTypeOK, Thread, Teardown, Attachment, Initializing,
            Releasing, TeardownInv, GivenUp, rigidVars, Starting, AttachInv,
            SetupInv
    <2> QED BY <1>b, <2>1, <2>2, <2>3, <2>4, <2>5, <2>6, <2>7
<1>RemoveContainerFails. ASSUME RemoveContainerFails PROVE Inv'
    <2>1. [FwdNext]_fwdVars
        BY <1>RemoveContainerFails DEF RemoveContainerFails, FwdNext, fwdVars
    <2>2. LifeTypeOK'
        BY <1>a, <1>RemoveContainerFails DEF RemoveContainerFails, Goto, Unlock,
            rigidVars, handleVars, superVars, watcherVars, Thread, Teardown,
            Attachment, LifeTypeOK, ThreadPc, Rest, Initializing, Starting, Releasing
    <2>3. AttachInv'
        BY <1>a, <1>RemoveContainerFails, <2>2 DEF RemoveContainerFails, Goto, Unlock,
            rigidVars, handleVars, superVars, LifeTypeOK, Thread, Teardown, Attachment,
            AttachInv
    <2>4. SetupInv'
        BY <1>a, <1>RemoveContainerFails, <2>2 DEF RemoveContainerFails, Goto,
            Unlock, rigidVars, handleVars, superVars, LifeTypeOK, Thread, Teardown,
            Attachment, Initializing, Starting, SetupInv, GivenUp, AttachInv,
            TeardownInv
    <2>5. WatcherInv' /\ DeathNotMasked'
        BY <1>a, <1>RemoveContainerFails, <2>2 DEF RemoveContainerFails, Goto, Unlock,
            handleVars, superVars, watcherVars, LifeTypeOK, Thread, Teardown,
            Attachment, WatcherInv, DeathNotMasked
    <2>6. ASSUME NEW h \in Attachment PROVE ExitInv(h)'
        BY <1>a, <1>RemoveContainerFails, <2>2 DEF RemoveContainerFails, Goto, Unlock,
            superVars, LifeTypeOK, Thread, Teardown, Attachment, ExitInv
    <2>7. ASSUME NEW u \in Teardown PROVE TeardownInv(u)'
        BY <1>a, <1>RemoveContainerFails, <2>2 DEF RemoveContainerFails, Goto,
            Unlock, handleVars, superVars, LifeTypeOK, Thread, Teardown, Attachment,
            Initializing, Releasing, TeardownInv, GivenUp, rigidVars, Starting,
            AttachInv, SetupInv
    <2> QED BY <1>b, <2>1, <2>2, <2>3, <2>4, <2>5, <2>6, <2>7
<1>PostmasterExits. ASSUME NEW g \in Attachment, PostmasterExits(g) PROVE Inv'
    <2>1. [FwdNext]_fwdVars
        BY <1>PostmasterExits DEF PostmasterExits, FwdNext, fwdVars
    <2>2. LifeTypeOK'
        BY <1>a, <1>PostmasterExits DEF PostmasterExits, rigidVars, callVars,
            handleVars, watcherVars, Thread, Teardown, Attachment, LifeTypeOK,
            ThreadPc, Rest, Initializing, Starting, Releasing
    <2>3. AttachInv'
        BY <1>a, <1>PostmasterExits, <2>2 DEF PostmasterExits, rigidVars, callVars,
            handleVars, LifeTypeOK, Thread, Teardown, Attachment, AttachInv
    <2>4. SetupInv'
        BY <1>a, <1>PostmasterExits, <2>2 DEF PostmasterExits, rigidVars, callVars,
            handleVars, LifeTypeOK, Thread, Teardown, Attachment, Initializing,
            Starting, SetupInv, GivenUp, AttachInv, TeardownInv
    <2>5. WatcherInv' /\ DeathNotMasked'
        BY <1>a, <1>PostmasterExits, <2>2 DEF PostmasterExits, handleVars, watcherVars,
            LifeTypeOK, Thread, Teardown, Attachment, WatcherInv, DeathNotMasked
    <2>6. ASSUME NEW h \in Attachment PROVE ExitInv(h)'
        BY <1>a, <1>PostmasterExits, <2>2 DEF PostmasterExits, LifeTypeOK, Thread,
            Teardown, Attachment, ExitInv
    <2>7. ASSUME NEW u \in Teardown PROVE TeardownInv(u)'
        BY <1>a, <1>PostmasterExits, <2>2 DEF PostmasterExits, callVars, handleVars,
            LifeTypeOK, Thread, Teardown, Attachment, Initializing, Releasing,
            TeardownInv, GivenUp, rigidVars, superVars, Starting, AttachInv,
            SetupInv
    <2> QED BY <1>b, <2>1, <2>2, <2>3, <2>4, <2>5, <2>6, <2>7
<1>WatchTick. ASSUME NEW g \in Attachment, WatchTick(g) PROVE Inv'
    <2>1. [FwdNext]_fwdVars
        BY <1>WatchTick DEF WatchTick, FwdNext, fwdVars
    <2>2. LifeTypeOK'
        BY <1>a, <1>WatchTick DEF WatchTick, rigidVars, callVars, handleVars,
            watcherVars, Thread, Teardown, Attachment, LifeTypeOK, ThreadPc, Rest,
            Initializing, Starting, Releasing
    <2>3. AttachInv'
        BY <1>a, <1>WatchTick, <2>2 DEF WatchTick, rigidVars, callVars, handleVars,
            LifeTypeOK, Thread, Teardown, Attachment, AttachInv
    <2>4. SetupInv'
        BY <1>a, <1>WatchTick, <2>2 DEF WatchTick, rigidVars, callVars, handleVars,
            LifeTypeOK, Thread, Teardown, Attachment, Initializing, Starting,
            SetupInv, GivenUp, AttachInv, TeardownInv
    <2>5. WatcherInv' /\ DeathNotMasked'
        BY <1>a, <1>WatchTick, <2>2 DEF WatchTick, handleVars, watcherVars, LifeTypeOK,
            Thread, Teardown, Attachment, WatcherInv, DeathNotMasked
    <2>6. ASSUME NEW h \in Attachment PROVE ExitInv(h)'
        BY <1>a, <1>WatchTick, <2>2 DEF WatchTick, LifeTypeOK, Thread, Teardown,
            Attachment, ExitInv
    <2>7. ASSUME NEW u \in Teardown PROVE TeardownInv(u)'
        BY <1>a, <1>WatchTick, <2>2 DEF WatchTick, callVars, handleVars, LifeTypeOK,
            Thread, Teardown, Attachment, Initializing, Releasing, TeardownInv,
            GivenUp, rigidVars, superVars, Starting, AttachInv, SetupInv
    <2> QED BY <1>b, <2>1, <2>2, <2>3, <2>4, <2>5, <2>6, <2>7
<1>WatchCancelled. ASSUME NEW g \in Attachment, WatchCancelled(g) PROVE Inv'
    <2>1. [FwdNext]_fwdVars
        BY <1>WatchCancelled DEF WatchCancelled, FwdNext, fwdVars
    <2>2. LifeTypeOK'
        BY <1>a, <1>WatchCancelled DEF WatchCancelled, rigidVars, callVars, handleVars,
            watcherVars, Thread, Teardown, Attachment, LifeTypeOK, ThreadPc, Rest,
            Initializing, Starting, Releasing
    <2>3. AttachInv'
        BY <1>a, <1>WatchCancelled, <2>2 DEF WatchCancelled, rigidVars, callVars,
            handleVars, LifeTypeOK, Thread, Teardown, Attachment, AttachInv
    <2>4. SetupInv'
        BY <1>a, <1>WatchCancelled, <2>2 DEF WatchCancelled, rigidVars, callVars,
            handleVars, LifeTypeOK, Thread, Teardown, Attachment, Initializing,
            Starting, SetupInv, GivenUp, AttachInv, TeardownInv
    <2>5. WatcherInv' /\ DeathNotMasked'
        BY <1>a, <1>WatchCancelled, <2>2 DEF WatchCancelled, handleVars, watcherVars,
            LifeTypeOK, Thread, Teardown, Attachment, WatcherInv, DeathNotMasked
    <2>6. ASSUME NEW h \in Attachment PROVE ExitInv(h)'
        BY <1>a, <1>WatchCancelled, <2>2 DEF WatchCancelled, LifeTypeOK, Thread,
            Teardown, Attachment, ExitInv
    <2>7. ASSUME NEW u \in Teardown PROVE TeardownInv(u)'
        BY <1>a, <1>WatchCancelled, <2>2 DEF WatchCancelled, callVars, handleVars,
            LifeTypeOK, Thread, Teardown, Attachment, Initializing, Releasing,
            TeardownInv, GivenUp, rigidVars, superVars, Starting, AttachInv,
            SetupInv
    <2> QED BY <1>b, <2>1, <2>2, <2>3, <2>4, <2>5, <2>6, <2>7
<1>ReceiveExit. ASSUME NEW g \in Attachment, ReceiveExit(g) PROVE Inv'
    <2>1. [FwdNext]_fwdVars
        BY <1>ReceiveExit DEF ReceiveExit, FwdNext, fwdVars
    <2>2. LifeTypeOK'
        BY <1>a, <1>ReceiveExit DEF ReceiveExit, rigidVars, callVars, handleVars,
            watcherVars, Thread, Teardown, Attachment, LifeTypeOK, ThreadPc, Rest,
            Initializing, Starting, Releasing
    <2>3. AttachInv'
        BY <1>a, <1>ReceiveExit, <2>2 DEF ReceiveExit, rigidVars, callVars, handleVars,
            LifeTypeOK, Thread, Teardown, Attachment, AttachInv
    <2>4. SetupInv'
        BY <1>a, <1>ReceiveExit, <2>2 DEF ReceiveExit, rigidVars, callVars,
            handleVars, LifeTypeOK, Thread, Teardown, Attachment, Initializing,
            Starting, SetupInv, GivenUp, AttachInv, TeardownInv
    <2>5. WatcherInv' /\ DeathNotMasked'
        BY <1>a, <1>ReceiveExit, <2>2 DEF ReceiveExit, handleVars, watcherVars,
            LifeTypeOK, Thread, Teardown, Attachment, WatcherInv, DeathNotMasked
    <2>6. ASSUME NEW h \in Attachment PROVE ExitInv(h)'
        BY <1>a, <1>ReceiveExit, <2>2 DEF ReceiveExit, LifeTypeOK, Thread, Teardown,
            Attachment, ExitInv
    <2>7. ASSUME NEW u \in Teardown PROVE TeardownInv(u)'
        BY <1>a, <1>ReceiveExit, <2>2 DEF ReceiveExit, callVars, handleVars,
            LifeTypeOK, Thread, Teardown, Attachment, Initializing, Releasing,
            TeardownInv, GivenUp, rigidVars, superVars, Starting, AttachInv,
            SetupInv
    <2> QED BY <1>b, <2>1, <2>2, <2>3, <2>4, <2>5, <2>6, <2>7
<1>JudgeExit. ASSUME NEW g \in Attachment, JudgeExit(g) PROVE Inv'
    <2>1. [FwdNext]_fwdVars
        BY <1>JudgeExit DEF JudgeExit, FwdNext, fwdVars
    <2>2. LifeTypeOK'
        BY <1>a, <1>JudgeExit DEF JudgeExit, Orderly, rigidVars, callVars, handleVars,
            watcherVars, Thread, Teardown, Attachment, LifeTypeOK, ThreadPc, Rest,
            Initializing, Starting, Releasing
    <2>3. AttachInv'
        BY <1>a, <1>JudgeExit, <2>2 DEF JudgeExit, Orderly, rigidVars, callVars,
            handleVars, LifeTypeOK, Thread, Teardown, Attachment, AttachInv
    <2>4. SetupInv'
        BY <1>a, <1>JudgeExit, <2>2 DEF JudgeExit, Orderly, rigidVars, callVars,
            handleVars, LifeTypeOK, Thread, Teardown, Attachment, Initializing,
            Starting, SetupInv, GivenUp, AttachInv, TeardownInv
    <2>5. WatcherInv' /\ DeathNotMasked'
        BY <1>a, <1>JudgeExit, <2>2 DEF JudgeExit, Orderly, handleVars, watcherVars,
            LifeTypeOK, Thread, Teardown, Attachment, WatcherInv, DeathNotMasked
    <2>6. ASSUME NEW h \in Attachment PROVE ExitInv(h)'
        BY <1>a, <1>JudgeExit, <2>2 DEF JudgeExit, Orderly, LifeTypeOK, Thread,
            Teardown, Attachment, ExitInv
    <2>7. ASSUME NEW u \in Teardown PROVE TeardownInv(u)'
        BY <1>a, <1>JudgeExit, <2>2 DEF JudgeExit, Orderly, callVars, handleVars,
            LifeTypeOK, Thread, Teardown, Attachment, Initializing, Releasing,
            TeardownInv, GivenUp, rigidVars, superVars, Starting, AttachInv,
            SetupInv
    <2> QED BY <1>b, <2>1, <2>2, <2>3, <2>4, <2>5, <2>6, <2>7
<1>ReportExit. ASSUME NEW g \in Attachment, ReportExit(g) PROVE Inv'
    <2>1. [FwdNext]_fwdVars
        BY <1>ReportExit DEF ReportExit, FwdNext, fwdVars
    <2>2. LifeTypeOK'
        BY <1>a, <1>ReportExit DEF ReportExit, rigidVars, callVars, handleVars,
            watcherVars, Thread, Teardown, Attachment, LifeTypeOK, ThreadPc, Rest,
            Initializing, Starting, Releasing
    <2>3. AttachInv'
        BY <1>a, <1>ReportExit, <2>2 DEF ReportExit, rigidVars, callVars, handleVars,
            LifeTypeOK, Thread, Teardown, Attachment, AttachInv
    <2>4. SetupInv'
        BY <1>a, <1>ReportExit, <2>2 DEF ReportExit, rigidVars, callVars,
            handleVars, LifeTypeOK, Thread, Teardown, Attachment, Initializing,
            Starting, SetupInv, GivenUp, AttachInv, TeardownInv
    <2>5. WatcherInv' /\ DeathNotMasked'
        BY <1>a, <1>ReportExit, <2>2 DEF ReportExit, handleVars, watcherVars,
            LifeTypeOK, Thread, Teardown, Attachment, WatcherInv, DeathNotMasked
    <2>6. ASSUME NEW h \in Attachment PROVE ExitInv(h)'
        BY <1>a, <1>ReportExit, <2>2 DEF ReportExit, LifeTypeOK, Thread, Teardown,
            Attachment, ExitInv
    <2>7. ASSUME NEW u \in Teardown PROVE TeardownInv(u)'
        BY <1>a, <1>ReportExit, <2>2 DEF ReportExit, callVars, handleVars,
            LifeTypeOK, Thread, Teardown, Attachment, Initializing, Releasing,
            TeardownInv, GivenUp, rigidVars, superVars, Starting, AttachInv,
            SetupInv
    <2> QED BY <1>b, <2>1, <2>2, <2>3, <2>4, <2>5, <2>6, <2>7
<1>Forward. ASSUME Forward PROVE Inv'
    <2>1. [FwdNext]_fwdVars
        BY <1>Forward DEF Forward, FwdNext
    <2>2. LifeTypeOK'
        BY <1>a, <1>Forward DEF Forward, rigidVars, callVars, handleVars, superVars,
            watcherVars, Thread, Teardown, Attachment, LifeTypeOK, ThreadPc, Rest,
            Initializing, Starting, Releasing
    <2>3. AttachInv'
        BY <1>a, <1>Forward, <2>2 DEF Forward, rigidVars, callVars, handleVars,
            superVars, LifeTypeOK, Thread, Teardown, Attachment, AttachInv
    <2>4. SetupInv'
        BY <1>a, <1>Forward, <2>2 DEF Forward, rigidVars, callVars, handleVars,
            superVars, LifeTypeOK, Thread, Teardown, Attachment, Initializing,
            Starting, SetupInv, GivenUp, AttachInv, TeardownInv
    <2>5. WatcherInv' /\ DeathNotMasked'
        BY <1>a, <1>Forward, <2>2 DEF Forward, handleVars, superVars, watcherVars,
            LifeTypeOK, Thread, Teardown, Attachment, WatcherInv, DeathNotMasked
    <2>6. ASSUME NEW h \in Attachment PROVE ExitInv(h)'
        BY <1>a, <1>Forward, <2>2 DEF Forward, superVars, LifeTypeOK, Thread, Teardown,
            Attachment, ExitInv
    <2>7. ASSUME NEW u \in Teardown PROVE TeardownInv(u)'
        BY <1>a, <1>Forward, <2>2 DEF Forward, callVars, handleVars, superVars,
            LifeTypeOK, Thread, Teardown, Attachment, Initializing, Releasing,
            TeardownInv, GivenUp, rigidVars, Starting, AttachInv, SetupInv
    <2> QED BY <1>b, <2>1, <2>2, <2>3, <2>4, <2>5, <2>6, <2>7
<1>U. CASE UNCHANGED vars
    BY <1>a, <1>U
    DEF vars, fwdVars, rigidVars, callVars, handleVars, superVars, watcherVars, Inv, TypeOK,
        LifeTypeOK, LifeInv, AttachInv, SetupInv, WatcherInv, DeathNotMasked, ExitInv,
        TeardownInv, GivenUp, FwdTypeOK, FwdInv, EndpointInv, ConnInv, Quiet
<1> QED
    BY <1>BeginInit, <1>InitFails, <1>AcquireServer, <1>ProvisionDatabase,
        <1>PublishEndpoint, <1>NativeInitFails, <1>KeepRunner, <1>InitContainer,
        <1>ContainerInitFails, <1>MigrateOnInit, <1>BeginStart, <1>Prepare,
        <1>ArmWatcher, <1>EnsureAccess, <1>StartFails, <1>CommitStarted, <1>Supervise,
        <1>BeginTeardown, <1>CancelSupervision, <1>EndpointClosed, <1>ReleaseNative,
        <1>ReleaseNil, <1>ReleaseFails, <1>Stop, <1>StopContainer, <1>StopContainerFails, <1>Destroy,
        <1>RemoveContainer, <1>RemoveContainerFails, <1>PostmasterExits, <1>WatchTick,
        <1>WatchCancelled, <1>ReceiveExit, <1>JudgeExit, <1>ReportExit, <1>Forward,
        <1>U
    DEF Next, InitStep, StartStep, TeardownStep, StopStep, DestroyStep, SuperviseStep

\* The lifecycle's invariant holds of every behaviour.
LEMMA LifeInvAlways == Spec => []Inv
BY LifeInitInv, LifeStepInv, PTL DEF Spec

\* The invariant gives the properties.
LEMMA LifeInvImplies ==
    Inv => TypeOK /\ NoFalseAlarm /\ DeathNotMasked
               /\ ClosedLeavesNothing /\ CloseReachesEverySession
<1> SUFFICES ASSUME Inv
             PROVE TypeOK /\ NoFalseAlarm /\ DeathNotMasked
                       /\ ClosedLeavesNothing /\ CloseReachesEverySession
    OBVIOUS
<1>1. TypeOK
    BY DEF Inv
<1>2. NoFalseAlarm
    BY DEF Inv, TypeOK, LifeTypeOK, LifeInv, ExitInv, NoFalseAlarm
<1>3. DeathNotMasked
    BY DEF Inv, LifeInv
<1>4. ClosedLeavesNothing /\ CloseReachesEverySession
    BY FwdInvImplies DEF Inv, TypeOK
<1> QED
    BY <1>1, <1>2, <1>3, <1>4

\* The handlers and their goroutines keep the types of the runtime's state.
THEOREM LifecycleTypeOK == Spec => []TypeOK
BY LifeInvAlways, LifeInvImplies, PTL

\* Supervise never reports an exit that follows this agent's own release
\* (nixpg.go, Supervise and release).
THEOREM LifecycleNoFalseAlarm == Spec => []NoFalseAlarm
BY LifeInvAlways, LifeInvImplies, PTL

\* A death reported for the current attachment is not overwritten by STARTED,
\* also when a Start is retried or overlaps a teardown (runtime.go, Start).
THEOREM LifecycleDeathNotMasked == Spec => []DeathNotMasked
BY LifeInvAlways, LifeInvImplies, PTL

\* The endpoint keeps its promise in every use the handlers make of it, one
\* forwarder after the other (nixpg.go, release; forward.go, Close).
THEOREM LifecycleClosesEndpoint == Spec => [](ClosedLeavesNothing /\ CloseReachesEverySession)
BY LifeInvAlways, LifeInvImplies, PTL

-----------------------------------------------------------------------------
(* What Stop and Destroy leave behind. *)

\* Nothing has been given up at first.
LEMMA GivenUpInit == Init => GivenUpInv
BY DEF Init, FwdInit, GivenUpInv, EndpointUse, CarefulInv, DownInv, EndpointGone, Quiet,
    Resting,
       Rest, Thread, Teardown, Initializing, Starting, Releasing

\* The caller's liberties are fixed.
LEMMA LibertiesRigid == [Next]_vars => liberties' = liberties
BY DEF Next, InitStep, StartStep, TeardownStep, StopStep, DestroyStep, SuperviseStep,
    BeginInit, InitFails, AcquireServer, ProvisionDatabase, PublishEndpoint,
    NativeInitFails, KeepRunner, InitContainer, ContainerInitFails, MigrateOnInit,
    BeginStart, Prepare, ArmWatcher, EnsureAccess, StartFails, CommitStarted, Supervise,
    BeginTeardown, CancelSupervision, EndpointClosed, ReleaseNative, ReleaseNil,
    ReleaseFails, Stop, StopContainer, StopContainerFails, Destroy, RemoveContainer,
    RemoveContainerFails, PostmasterExits, WatchTick, WatchCancelled, ReceiveExit,
    JudgeExit, ReportExit, Forward, vars, rigidVars

\* What the handlers give up, step by step.
LEMMA GivenUpStep == Inv /\ GivenUpInv /\ [Next]_vars => GivenUpInv'
<1> SUFFICES ASSUME Inv, GivenUpInv, [Next]_vars, Patient PROVE GivenUpInv'
    BY LibertiesRigid DEF GivenUpInv
<1>a. /\ "abandon" \notin liberties
      /\ LifeTypeOK /\ AttachInv /\ SetupInv /\ WatcherInv
      /\ \A u \in Teardown : TeardownInv(u)
      /\ EndpointUse /\ CarefulInv /\ \A u \in Teardown : DownInv(u)
    BY DEF Inv, TypeOK, LifeInv, GivenUpInv
<1>f. FwdTypeOK /\ EndpointInv
    BY DEF Inv, TypeOK, FwdInv
<1>b. ASSUME EndpointUse', CarefulInv', \A u \in Teardown : DownInv(u)' PROVE GivenUpInv'
    BY <1>b DEF GivenUpInv
<1>e. UNCHANGED fwdVars => (EndpointGone' <=> EndpointGone) /\ listening' = listening /\ closing' = closing
    BY DEF fwdVars, EndpointGone, Quiet
<1>BeginInit. ASSUME BeginInit PROVE GivenUpInv'
    <2>e. (EndpointGone' <=> EndpointGone) /\ listening' = listening /\ closing' = closing
        BY <1>e, <1>BeginInit DEF BeginInit
    <2>1. EndpointUse'
        BY <1>a, <1>BeginInit, <2>e DEF BeginInit, Resting, TornDown, Rest, rigidVars,
            handleVars, LifeTypeOK, Thread, Teardown, EndpointUse, DownInv, AttachInv,
            Attachment
    <2>2. CarefulInv'
        BY <1>a, <1>BeginInit DEF BeginInit, Resting, TornDown, Rest, rigidVars,
            handleVars, watcherVars, LifeTypeOK, Thread, Teardown, Initializing,
            Starting, Releasing, CarefulInv
    <2>3. ASSUME NEW u \in Teardown PROVE DownInv(u)'
        BY <1>a, <1>BeginInit, <2>e DEF BeginInit, Resting, TornDown, Rest, rigidVars,
            handleVars, LifeTypeOK, Thread, Teardown, DownInv
    <2> QED BY <1>b, <2>1, <2>2, <2>3
<1>InitFails. ASSUME InitFails PROVE GivenUpInv'
    <2>e. (EndpointGone' <=> EndpointGone) /\ listening' = listening /\ closing' = closing
        BY <1>e, <1>InitFails DEF InitFails
    <2>1. EndpointUse'
        BY <1>a, <1>InitFails, <2>e DEF InitFails, Goto, rigidVars, handleVars,
            LifeTypeOK, Thread, Teardown, EndpointUse
    <2>2. CarefulInv'
        BY <1>a, <1>InitFails DEF InitFails, Goto, rigidVars, handleVars, watcherVars,
            LifeTypeOK, Thread, Teardown, Initializing, Starting, Releasing,
            CarefulInv, Resting, Rest
    <2>3. ASSUME NEW u \in Teardown PROVE DownInv(u)'
        BY <1>a, <1>InitFails, <2>e DEF InitFails, Goto, rigidVars, handleVars,
            LifeTypeOK, Thread, Teardown, DownInv
    <2> QED BY <1>b, <2>1, <2>2, <2>3
<1>AcquireServer. ASSUME AcquireServer PROVE GivenUpInv'
    <2>e. (EndpointGone' <=> EndpointGone) /\ listening' = listening /\ closing' = closing
        BY <1>e, <1>AcquireServer DEF AcquireServer
    <2>1. EndpointUse'
        BY <1>a, <1>AcquireServer, <2>e DEF AcquireServer, Goto, rigidVars, LifeTypeOK,
            Thread, Teardown, EndpointUse
    <2>2. CarefulInv'
        BY <1>a, <1>AcquireServer DEF AcquireServer, Goto, rigidVars, watcherVars,
            LifeTypeOK, Thread, Teardown, Initializing, Starting, Releasing,
            CarefulInv, Resting, Rest
    <2>3. ASSUME NEW u \in Teardown PROVE DownInv(u)'
        BY <1>a, <1>AcquireServer, <2>e DEF AcquireServer, Goto, rigidVars, LifeTypeOK,
            Thread, Teardown, DownInv, TeardownInv, Initializing
    <2> QED BY <1>b, <2>1, <2>2, <2>3
<1>ProvisionDatabase. ASSUME ProvisionDatabase PROVE GivenUpInv'
    <2>e. (EndpointGone' <=> EndpointGone) /\ listening' = listening /\ closing' = closing
        BY <1>e, <1>ProvisionDatabase DEF ProvisionDatabase
    <2>1. EndpointUse'
        BY <1>a, <1>ProvisionDatabase, <2>e DEF ProvisionDatabase, Goto, rigidVars,
            handleVars, LifeTypeOK, Thread, Teardown, EndpointUse
    <2>2. CarefulInv'
        BY <1>a, <1>ProvisionDatabase DEF ProvisionDatabase, Goto, rigidVars,
            handleVars, watcherVars, LifeTypeOK, Thread, Teardown, Initializing,
            Starting, Releasing, CarefulInv, Resting, Rest
    <2>3. ASSUME NEW u \in Teardown PROVE DownInv(u)'
        BY <1>a, <1>ProvisionDatabase, <2>e DEF ProvisionDatabase, Goto, rigidVars,
            handleVars, LifeTypeOK, Thread, Teardown, DownInv
    <2> QED BY <1>b, <2>1, <2>2, <2>3
<1>PublishEndpoint. ASSUME PublishEndpoint PROVE GivenUpInv'
    <2>e. EndpointGone /\ listening'
        BY <1>a, <1>PublishEndpoint DEF PublishEndpoint, Listen, EndpointUse
    <2>1. EndpointUse'
        BY <1>a, <1>PublishEndpoint, <2>e DEF PublishEndpoint, Goto, rigidVars,
            LifeTypeOK, Thread, Teardown, EndpointUse, SetupInv
    <2>2. CarefulInv'
        BY <1>a, <1>PublishEndpoint DEF PublishEndpoint, Goto, rigidVars, watcherVars,
            LifeTypeOK, Thread, Teardown, Initializing, Starting, Releasing,
            CarefulInv, Resting, Rest
    <2>3. ASSUME NEW u \in Teardown PROVE DownInv(u)'
        BY <1>a, <1>PublishEndpoint, <2>e DEF PublishEndpoint, Goto, rigidVars,
            LifeTypeOK, Thread, Teardown, DownInv, TeardownInv, Initializing
    <2> QED BY <1>b, <2>1, <2>2, <2>3
<1>NativeInitFails. ASSUME NativeInitFails PROVE GivenUpInv'
    <2>e. (EndpointGone' <=> EndpointGone) /\ listening' = listening /\ closing' = closing
        BY <1>e, <1>NativeInitFails DEF NativeInitFails
    <2>1. EndpointUse'
        BY <1>a, <1>NativeInitFails, <2>e DEF NativeInitFails, Goto, rigidVars,
            handleVars, LifeTypeOK, Thread, Teardown, EndpointUse
    <2>2. CarefulInv'
        BY <1>a, <1>NativeInitFails DEF NativeInitFails, Goto, rigidVars, handleVars,
            watcherVars, LifeTypeOK, Thread, Teardown, Initializing, Starting,
            Releasing, CarefulInv, Resting, Rest
    <2>3. ASSUME NEW u \in Teardown PROVE DownInv(u)'
        BY <1>a, <1>NativeInitFails, <2>e DEF NativeInitFails, Goto, rigidVars,
            handleVars, LifeTypeOK, Thread, Teardown, DownInv
    <2> QED BY <1>b, <2>1, <2>2, <2>3
<1>KeepRunner. ASSUME KeepRunner PROVE GivenUpInv'
    <2>e. (EndpointGone' <=> EndpointGone) /\ listening' = listening /\ closing' = closing
        BY <1>e, <1>KeepRunner DEF KeepRunner
    <2>1. EndpointUse'
        BY <1>a, <1>KeepRunner, <2>e DEF KeepRunner, Goto, rigidVars, LifeTypeOK,
            Thread, Teardown, EndpointUse, SetupInv, AttachInv
    <2>2. CarefulInv'
        BY <1>a, <1>KeepRunner DEF KeepRunner, Goto, rigidVars, watcherVars,
            LifeTypeOK, Thread, Teardown, Initializing, Starting, Releasing,
            CarefulInv, Resting, Rest
    <2>3. ASSUME NEW u \in Teardown PROVE DownInv(u)'
        BY <1>a, <1>KeepRunner, <2>e DEF KeepRunner, Goto, rigidVars, LifeTypeOK,
            Thread, Teardown, DownInv, TeardownInv, Initializing
    <2> QED BY <1>b, <2>1, <2>2, <2>3
<1>InitContainer. ASSUME InitContainer PROVE GivenUpInv'
    <2>e. (EndpointGone' <=> EndpointGone) /\ listening' = listening /\ closing' = closing
        BY <1>e, <1>InitContainer DEF InitContainer
    <2>1. EndpointUse'
        BY <1>a, <1>InitContainer, <2>e DEF InitContainer, Goto, rigidVars, LifeTypeOK,
            Thread, Teardown, EndpointUse, SetupInv, AttachInv
    <2>2. CarefulInv'
        BY <1>a, <1>InitContainer DEF InitContainer, Goto, rigidVars, watcherVars,
            LifeTypeOK, Thread, Teardown, Initializing, Starting, Releasing,
            CarefulInv, Resting, Rest
    <2>3. ASSUME NEW u \in Teardown PROVE DownInv(u)'
        BY <1>a, <1>InitContainer, <2>e DEF InitContainer, Goto, rigidVars, LifeTypeOK,
            Thread, Teardown, DownInv, TeardownInv, Initializing
    <2> QED BY <1>b, <2>1, <2>2, <2>3
<1>ContainerInitFails. ASSUME ContainerInitFails PROVE GivenUpInv'
    <2>e. (EndpointGone' <=> EndpointGone) /\ listening' = listening /\ closing' = closing
        BY <1>e, <1>ContainerInitFails DEF ContainerInitFails
    <2>1. EndpointUse'
        BY <1>a, <1>ContainerInitFails, <2>e DEF ContainerInitFails, Goto, rigidVars,
            handleVars, LifeTypeOK, Thread, Teardown, EndpointUse
    <2>2. CarefulInv'
        BY <1>a, <1>ContainerInitFails DEF ContainerInitFails, Goto, rigidVars,
            handleVars, watcherVars, LifeTypeOK, Thread, Teardown, Initializing,
            Starting, Releasing, CarefulInv, Resting, Rest
    <2>3. ASSUME NEW u \in Teardown PROVE DownInv(u)'
        BY <1>a, <1>ContainerInitFails, <2>e DEF ContainerInitFails, Goto, rigidVars,
            handleVars, LifeTypeOK, Thread, Teardown, DownInv
    <2> QED BY <1>b, <2>1, <2>2, <2>3
<1>MigrateOnInit. ASSUME MigrateOnInit PROVE GivenUpInv'
    <2>e. (EndpointGone' <=> EndpointGone) /\ listening' = listening /\ closing' = closing
        BY <1>e, <1>MigrateOnInit DEF MigrateOnInit
    <2>1. EndpointUse'
        BY <1>a, <1>MigrateOnInit, <2>e DEF MigrateOnInit, Goto, rigidVars, handleVars,
            LifeTypeOK, Thread, Teardown, EndpointUse
    <2>2. CarefulInv'
        BY <1>a, <1>MigrateOnInit DEF MigrateOnInit, Goto, rigidVars, handleVars,
            watcherVars, LifeTypeOK, Thread, Teardown, Initializing, Starting,
            Releasing, CarefulInv, Resting, Rest
    <2>3. ASSUME NEW u \in Teardown PROVE DownInv(u)'
        BY <1>a, <1>MigrateOnInit, <2>e DEF MigrateOnInit, Goto, rigidVars, handleVars,
            LifeTypeOK, Thread, Teardown, DownInv
    <2> QED BY <1>b, <2>1, <2>2, <2>3
<1>BeginStart. ASSUME BeginStart PROVE GivenUpInv'
    <2>e. (EndpointGone' <=> EndpointGone) /\ listening' = listening /\ closing' = closing
        BY <1>e, <1>BeginStart DEF BeginStart
    <2>1. EndpointUse'
        BY <1>a, <1>BeginStart, <2>e DEF BeginStart, Resting, TornDown, Rest,
            rigidVars, handleVars, LifeTypeOK, Thread, Teardown, EndpointUse
    <2>2. CarefulInv'
        BY <1>a, <1>BeginStart DEF BeginStart, Resting, TornDown, Rest, rigidVars,
            handleVars, watcherVars, LifeTypeOK, Thread, Teardown, Initializing,
            Starting, Releasing, CarefulInv, TeardownInv
    <2>3. ASSUME NEW u \in Teardown PROVE DownInv(u)'
        BY <1>a, <1>BeginStart, <2>e DEF BeginStart, Resting, TornDown, Rest,
            rigidVars, handleVars, LifeTypeOK, Thread, Teardown, DownInv
    <2> QED BY <1>b, <2>1, <2>2, <2>3
<1>Prepare. ASSUME Prepare PROVE GivenUpInv'
    <2>e. (EndpointGone' <=> EndpointGone) /\ listening' = listening /\ closing' = closing
        BY <1>e, <1>Prepare DEF Prepare
    <2>1. EndpointUse'
        BY <1>a, <1>Prepare, <2>e DEF Prepare, Goto, rigidVars, handleVars, LifeTypeOK,
            Thread, Teardown, EndpointUse
    <2>2. CarefulInv'
        BY <1>a, <1>Prepare DEF Prepare, Goto, rigidVars, handleVars, watcherVars,
            LifeTypeOK, Thread, Teardown, Initializing, Starting, Releasing,
            CarefulInv, Resting, Rest
    <2>3. ASSUME NEW u \in Teardown PROVE DownInv(u)'
        BY <1>a, <1>Prepare, <2>e DEF Prepare, Goto, rigidVars, handleVars, LifeTypeOK,
            Thread, Teardown, DownInv
    <2> QED BY <1>b, <2>1, <2>2, <2>3
<1>ArmWatcher. ASSUME ArmWatcher PROVE GivenUpInv'
    <2>e. (EndpointGone' <=> EndpointGone) /\ listening' = listening /\ closing' = closing
        BY <1>e, <1>ArmWatcher DEF ArmWatcher
    <2>1. EndpointUse'
        BY <1>a, <1>ArmWatcher, <2>e DEF ArmWatcher, Goto, rigidVars, handleVars,
            LifeTypeOK, Thread, Teardown, EndpointUse
    <2>2. CarefulInv'
        <3> SUFFICES ASSUME liberties = {} PROVE CarefulInv'
            BY <1>ArmWatcher DEF ArmWatcher, rigidVars, CarefulInv
        <3>1. ~cancel /\ watchers = 0
            BY <1>a, <1>ArmWatcher DEF ArmWatcher, CarefulInv
        <3>2. watchers' = IF cancel' THEN 1 ELSE 0
            BY <1>ArmWatcher, <3>1 DEF ArmWatcher, watcherVars
        <3> QED
            BY <1>a, <1>ArmWatcher, <3>2
            DEF ArmWatcher, Goto, LifeTypeOK, Thread, Teardown, Initializing, Starting, Releasing,
                CarefulInv, Resting, Rest
    <2>3. ASSUME NEW u \in Teardown PROVE DownInv(u)'
        BY <1>a, <1>ArmWatcher, <2>e DEF ArmWatcher, Goto, rigidVars, handleVars,
            LifeTypeOK, Thread, Teardown, DownInv
    <2> QED BY <1>b, <2>1, <2>2, <2>3
<1>EnsureAccess. ASSUME EnsureAccess PROVE GivenUpInv'
    <2>e. (EndpointGone' <=> EndpointGone) /\ listening' = listening /\ closing' = closing
        BY <1>e, <1>EnsureAccess DEF EnsureAccess
    <2>1. EndpointUse'
        BY <1>a, <1>EnsureAccess, <2>e DEF EnsureAccess, Goto, rigidVars, handleVars,
            LifeTypeOK, Thread, Teardown, EndpointUse
    <2>2. CarefulInv'
        BY <1>a, <1>EnsureAccess DEF EnsureAccess, Goto, rigidVars, handleVars,
            watcherVars, LifeTypeOK, Thread, Teardown, Initializing, Starting,
            Releasing, CarefulInv, Resting, Rest
    <2>3. ASSUME NEW u \in Teardown PROVE DownInv(u)'
        BY <1>a, <1>EnsureAccess, <2>e DEF EnsureAccess, Goto, rigidVars, handleVars,
            LifeTypeOK, Thread, Teardown, DownInv
    <2> QED BY <1>b, <2>1, <2>2, <2>3
<1>StartFails. ASSUME StartFails PROVE GivenUpInv'
    <2>e. (EndpointGone' <=> EndpointGone) /\ listening' = listening /\ closing' = closing
        BY <1>e, <1>StartFails DEF StartFails
    <2>1. EndpointUse'
        BY <1>a, <1>StartFails, <2>e DEF StartFails, Goto, rigidVars, handleVars,
            LifeTypeOK, Thread, Teardown, EndpointUse
    <2>2. CarefulInv'
        BY <1>a, <1>StartFails DEF StartFails, Goto, rigidVars, handleVars,
            watcherVars, LifeTypeOK, Thread, Teardown, Initializing, Starting,
            Releasing, CarefulInv, Resting, Rest
    <2>3. ASSUME NEW u \in Teardown PROVE DownInv(u)'
        BY <1>a, <1>StartFails, <2>e DEF StartFails, Goto, rigidVars, handleVars,
            LifeTypeOK, Thread, Teardown, DownInv
    <2> QED BY <1>b, <2>1, <2>2, <2>3
<1>CommitStarted. ASSUME CommitStarted PROVE GivenUpInv'
    <2>e. (EndpointGone' <=> EndpointGone) /\ listening' = listening /\ closing' = closing
        BY <1>e, <1>CommitStarted DEF CommitStarted
    <2>1. EndpointUse'
        BY <1>a, <1>CommitStarted, <2>e DEF CommitStarted, Goto, rigidVars, handleVars,
            LifeTypeOK, Thread, Teardown, EndpointUse
    <2>2. CarefulInv'
        BY <1>a, <1>CommitStarted DEF CommitStarted, Goto, rigidVars, handleVars,
            watcherVars, LifeTypeOK, Thread, Teardown, Initializing, Starting,
            Releasing, CarefulInv, Resting, Rest
    <2>3. ASSUME NEW u \in Teardown PROVE DownInv(u)'
        BY <1>a, <1>CommitStarted, <2>e DEF CommitStarted, Goto, rigidVars, handleVars,
            LifeTypeOK, Thread, Teardown, DownInv
    <2> QED BY <1>b, <2>1, <2>2, <2>3
<1>Supervise. ASSUME Supervise PROVE GivenUpInv'
    <2>e. (EndpointGone' <=> EndpointGone) /\ listening' = listening /\ closing' = closing
        BY <1>e, <1>Supervise DEF Supervise
    <2>1. EndpointUse'
        BY <1>a, <1>Supervise, <2>e DEF Supervise, Goto, rigidVars, handleVars,
            LifeTypeOK, Thread, Teardown, EndpointUse
    <2>2. CarefulInv'
        BY <1>a, <1>Supervise DEF Supervise, Goto, rigidVars, handleVars, watcherVars,
            LifeTypeOK, Thread, Teardown, Initializing, Starting, Releasing,
            CarefulInv, Resting, Rest
    <2>3. ASSUME NEW u \in Teardown PROVE DownInv(u)'
        BY <1>a, <1>Supervise, <2>e DEF Supervise, Goto, rigidVars, handleVars,
            LifeTypeOK, Thread, Teardown, DownInv
    <2> QED BY <1>b, <2>1, <2>2, <2>3
<1>BeginTeardown. ASSUME NEW t \in Teardown, BeginTeardown(t) PROVE GivenUpInv'
    <2>e. (EndpointGone' <=> EndpointGone) /\ listening' = listening /\ closing' = closing
        BY <1>e, <1>BeginTeardown DEF BeginTeardown
    <2>1. EndpointUse'
        BY <1>a, <1>BeginTeardown, <2>e DEF BeginTeardown, Goto, Resting, Rest,
            rigidVars, handleVars, LifeTypeOK, Thread, Teardown, Starting, EndpointUse
    <2>2. CarefulInv'
        BY <1>a, <1>BeginTeardown DEF BeginTeardown, Goto, Resting, Rest, rigidVars,
            handleVars, watcherVars, LifeTypeOK, Thread, Teardown, Initializing,
            Starting, Releasing, CarefulInv, AttachInv
    <2>3. ASSUME NEW u \in Teardown PROVE DownInv(u)'
        BY <1>a, <1>BeginTeardown, <2>e DEF BeginTeardown, Goto, Resting, Rest,
            rigidVars, handleVars, LifeTypeOK, Thread, Teardown, Starting, DownInv
    <2> QED BY <1>b, <2>1, <2>2, <2>3
<1>CancelSupervision. ASSUME NEW t \in Thread, CancelSupervision(t) PROVE GivenUpInv'
    <2>e. /\ ~listening' /\ (closing' = "wait" \/ EndpointGone')
          /\ EndpointGone => EndpointGone'
        <3>1. CASE listening
            BY <1>f, <1>CancelSupervision, <3>1
            DEF CancelSupervision, BeginClose, EndpointGone, EndpointInv
        <3>2. CASE ~listening
            BY <1>a, <1>e, <1>CancelSupervision, <3>2 DEF CancelSupervision, EndpointUse
        <3> QED
            BY <3>1, <3>2
    <2>1. EndpointUse'
        BY <1>a, <1>CancelSupervision, <2>e DEF CancelSupervision, Goto, rigidVars,
            handleVars, LifeTypeOK, Thread, Teardown, EndpointUse, SetupInv
    <2>2. CarefulInv'
        BY <1>a, <1>CancelSupervision DEF CancelSupervision, Goto, rigidVars,
            handleVars, watcherVars, LifeTypeOK, Thread, Teardown, Initializing,
            Starting, Releasing, CarefulInv, Resting, Rest
    <2>3. ASSUME NEW u \in Teardown PROVE DownInv(u)'
        BY <1>a, <1>CancelSupervision, <2>e DEF CancelSupervision, Goto, rigidVars,
            handleVars, LifeTypeOK, Thread, Teardown, DownInv, TeardownInv, SetupInv,
            Initializing, Releasing
    <2> QED BY <1>b, <2>1, <2>2, <2>3
<1>EndpointClosed. ASSUME NEW t \in Thread, EndpointClosed(t) PROVE GivenUpInv'
    <2>e. EndpointGone' /\ listening' = listening
        <3>1. CASE closing = "wait"
            BY <1>EndpointClosed, <3>1 DEF EndpointClosed, CloseReturns, EndpointGone, Quiet
        <3>2. CASE closing # "wait"
            <4>1. ~listening
                BY <1>a, <1>EndpointClosed DEF EndpointClosed, EndpointUse, DownInv, Thread
            <4> QED
                BY <1>a, <1>e, <1>EndpointClosed, <3>2, <4>1 DEF EndpointClosed, EndpointUse
        <3> QED
            BY <3>1, <3>2
    <2>1. EndpointUse'
        BY <1>a, <1>EndpointClosed, <2>e DEF EndpointClosed, Goto, rigidVars,
            handleVars, LifeTypeOK, Thread, Teardown, EndpointUse
    <2>2. CarefulInv'
        BY <1>a, <1>EndpointClosed DEF EndpointClosed, Goto, rigidVars, handleVars,
            watcherVars, LifeTypeOK, Thread, Teardown, Initializing, Starting,
            Releasing, CarefulInv, Resting, Rest
    <2>3. ASSUME NEW u \in Teardown PROVE DownInv(u)'
        BY <1>a, <1>EndpointClosed, <2>e DEF EndpointClosed, Goto, rigidVars,
            handleVars, LifeTypeOK, Thread, Teardown, DownInv
    <2> QED BY <1>b, <2>1, <2>2, <2>3
<1>ReleaseNative. ASSUME NEW t \in Thread, ReleaseNative(t) PROVE GivenUpInv'
    <2>e. (EndpointGone' <=> EndpointGone) /\ listening' = listening /\ closing' = closing
        BY <1>e, <1>ReleaseNative DEF ReleaseNative
    <2>1. EndpointUse'
        BY <1>a, <1>ReleaseNative, <2>e DEF ReleaseNative, Goto, Unlock, rigidVars,
            LifeTypeOK, Thread, Teardown, EndpointUse, DownInv
    <2>2. CarefulInv'
        BY <1>a, <1>ReleaseNative DEF ReleaseNative, Goto, Unlock, rigidVars,
            watcherVars, LifeTypeOK, Thread, Teardown, Initializing, Starting,
            Releasing, CarefulInv, Resting, Rest
    <2>3. ASSUME NEW u \in Teardown PROVE DownInv(u)'
        BY <1>a, <1>ReleaseNative, <2>e DEF ReleaseNative, Goto, Unlock, rigidVars,
            LifeTypeOK, Thread, Teardown, DownInv, EndpointUse
    <2> QED BY <1>b, <2>1, <2>2, <2>3
<1>ReleaseNil. ASSUME NEW t \in Thread, ReleaseNil(t) PROVE GivenUpInv'
    BY <1>a, <1>ReleaseNil DEF ReleaseNil, Thread, SetupInv, TeardownInv
<1>ReleaseFails. ASSUME NEW t \in Thread, ReleaseFails(t) PROVE GivenUpInv'
    <2>e. (EndpointGone' <=> EndpointGone) /\ listening' = listening /\ closing' = closing
        BY <1>e, <1>ReleaseFails DEF ReleaseFails
    <2>1. EndpointUse'
        BY <1>a, <1>ReleaseFails, <2>e DEF ReleaseFails, Goto, Unlock, rigidVars,
            handleVars, LifeTypeOK, Thread, Teardown, EndpointUse
    <2>2. CarefulInv'
        BY <1>a, <1>ReleaseFails DEF ReleaseFails, Goto, Unlock, rigidVars, handleVars,
            watcherVars, LifeTypeOK, Thread, Teardown, Initializing, Starting,
            Releasing, CarefulInv, Resting, Rest
    <2>3. ASSUME NEW u \in Teardown PROVE DownInv(u)'
        BY <1>a, <1>ReleaseFails, <2>e DEF ReleaseFails, Goto, Unlock, rigidVars,
            handleVars, LifeTypeOK, Thread, Teardown, DownInv
    <2> QED BY <1>b, <2>1, <2>2, <2>3
<1>Stop. ASSUME Stop PROVE GivenUpInv'
    <2>e. (EndpointGone' <=> EndpointGone) /\ listening' = listening /\ closing' = closing
        BY <1>e, <1>Stop DEF Stop
    <2>1. EndpointUse'
        BY <1>a, <1>Stop, <2>e DEF Stop, Goto, StopWatcher, rigidVars, handleVars,
            LifeTypeOK, Thread, Teardown, EndpointUse
    <2>2. CarefulInv'
        BY <1>a, <1>Stop DEF Stop, Goto, StopWatcher, rigidVars, handleVars,
            LifeTypeOK, Thread, Teardown, Initializing, Starting, Releasing,
            CarefulInv, Resting, Rest
    <2>3. ASSUME NEW u \in Teardown PROVE DownInv(u)'
        BY <1>a, <1>Stop, <2>e DEF Stop, Goto, StopWatcher, rigidVars, handleVars,
            LifeTypeOK, Thread, Teardown, DownInv, EndpointUse, AttachInv
    <2> QED BY <1>b, <2>1, <2>2, <2>3
<1>StopContainer. ASSUME StopContainer PROVE GivenUpInv'
    <2>e. (EndpointGone' <=> EndpointGone) /\ listening' = listening /\ closing' = closing
        BY <1>e, <1>StopContainer DEF StopContainer
    <2>1. EndpointUse'
        BY <1>a, <1>StopContainer, <2>e DEF StopContainer, Goto, Unlock, rigidVars,
            LifeTypeOK, Thread, Teardown, EndpointUse
    <2>2. CarefulInv'
        BY <1>a, <1>StopContainer DEF StopContainer, Goto, Unlock, rigidVars,
            watcherVars, LifeTypeOK, Thread, Teardown, Initializing, Starting,
            Releasing, CarefulInv, Resting, Rest
    <2>3. ASSUME NEW u \in Teardown PROVE DownInv(u)'
        BY <1>a, <1>StopContainer, <2>e DEF StopContainer, Goto, Unlock, rigidVars,
            LifeTypeOK, Thread, Teardown, DownInv, EndpointUse
    <2> QED BY <1>b, <2>1, <2>2, <2>3
<1>StopContainerFails. ASSUME StopContainerFails PROVE GivenUpInv'
    <2>e. (EndpointGone' <=> EndpointGone) /\ listening' = listening /\ closing' = closing
        BY <1>e, <1>StopContainerFails DEF StopContainerFails
    <2>1. EndpointUse'
        BY <1>a, <1>StopContainerFails, <2>e DEF StopContainerFails, Goto, Unlock,
            rigidVars, LifeTypeOK, Thread, Teardown, EndpointUse
    <2>2. CarefulInv'
        BY <1>a, <1>StopContainerFails DEF StopContainerFails, Goto, Unlock, rigidVars,
            watcherVars, LifeTypeOK, Thread, Teardown, Initializing, Starting,
            Releasing, CarefulInv, Resting, Rest
    <2>3. ASSUME NEW u \in Teardown PROVE DownInv(u)'
        BY <1>a, <1>StopContainerFails, <2>e DEF StopContainerFails, Goto, Unlock,
            rigidVars, LifeTypeOK, Thread, Teardown, DownInv, EndpointUse
    <2> QED BY <1>b, <2>1, <2>2, <2>3
<1>Destroy. ASSUME Destroy PROVE GivenUpInv'
    <2>e. (EndpointGone' <=> EndpointGone) /\ listening' = listening /\ closing' = closing
        BY <1>e, <1>Destroy DEF Destroy
    <2>1. EndpointUse'
        BY <1>a, <1>Destroy, <2>e DEF Destroy, Goto, StopWatcher, rigidVars,
            handleVars, LifeTypeOK, Thread, Teardown, EndpointUse
    <2>2. CarefulInv'
        BY <1>a, <1>Destroy DEF Destroy, Goto, StopWatcher, rigidVars, handleVars,
            LifeTypeOK, Thread, Teardown, Initializing, Starting, Releasing,
            CarefulInv, Resting, Rest
    <2>3. ASSUME NEW u \in Teardown PROVE DownInv(u)'
        BY <1>a, <1>Destroy, <2>e DEF Destroy, Goto, StopWatcher, rigidVars,
            handleVars, LifeTypeOK, Thread, Teardown, DownInv, EndpointUse, AttachInv
    <2> QED BY <1>b, <2>1, <2>2, <2>3
<1>RemoveContainer. ASSUME RemoveContainer PROVE GivenUpInv'
    <2>e. (EndpointGone' <=> EndpointGone) /\ listening' = listening /\ closing' = closing
        BY <1>e, <1>RemoveContainer DEF RemoveContainer
    <2>1. EndpointUse'
        BY <1>a, <1>RemoveContainer, <2>e DEF RemoveContainer, Goto, Unlock, rigidVars,
            LifeTypeOK, Thread, Teardown, EndpointUse, TeardownInv, Initializing
    <2>2. CarefulInv'
        BY <1>a, <1>RemoveContainer DEF RemoveContainer, Goto, Unlock, rigidVars,
            watcherVars, LifeTypeOK, Thread, Teardown, Initializing, Starting,
            Releasing, CarefulInv, Resting, Rest
    <2>3. ASSUME NEW u \in Teardown PROVE DownInv(u)'
        BY <1>a, <1>RemoveContainer, <2>e DEF RemoveContainer, Goto, Unlock, rigidVars,
            LifeTypeOK, Thread, Teardown, DownInv, EndpointUse
    <2> QED BY <1>b, <2>1, <2>2, <2>3
<1>RemoveContainerFails. ASSUME RemoveContainerFails PROVE GivenUpInv'
    <2>e. (EndpointGone' <=> EndpointGone) /\ listening' = listening /\ closing' = closing
        BY <1>e, <1>RemoveContainerFails DEF RemoveContainerFails
    <2>1. EndpointUse'
        BY <1>a, <1>RemoveContainerFails, <2>e DEF RemoveContainerFails, Goto, Unlock,
            rigidVars, handleVars, LifeTypeOK, Thread, Teardown, EndpointUse
    <2>2. CarefulInv'
        BY <1>a, <1>RemoveContainerFails DEF RemoveContainerFails, Goto, Unlock,
            rigidVars, handleVars, watcherVars, LifeTypeOK, Thread, Teardown,
            Initializing, Starting, Releasing, CarefulInv, Resting, Rest
    <2>3. ASSUME NEW u \in Teardown PROVE DownInv(u)'
        BY <1>a, <1>RemoveContainerFails, <2>e DEF RemoveContainerFails, Goto, Unlock,
            rigidVars, handleVars, LifeTypeOK, Thread, Teardown, DownInv, EndpointUse
    <2> QED BY <1>b, <2>1, <2>2, <2>3
<1>PostmasterExits. ASSUME NEW g \in Attachment, PostmasterExits(g) PROVE GivenUpInv'
    <2>e. (EndpointGone' <=> EndpointGone) /\ listening' = listening /\ closing' = closing
        BY <1>e, <1>PostmasterExits DEF PostmasterExits
    <2>1. EndpointUse'
        BY <1>a, <1>PostmasterExits, <2>e DEF PostmasterExits, rigidVars, callVars,
            handleVars, LifeTypeOK, Thread, Teardown, EndpointUse
    <2>2. CarefulInv'
        BY <1>a, <1>PostmasterExits DEF PostmasterExits, rigidVars, callVars,
            handleVars, watcherVars, LifeTypeOK, Thread, Teardown, Initializing,
            Starting, Releasing, CarefulInv, Resting, Rest
    <2>3. ASSUME NEW u \in Teardown PROVE DownInv(u)'
        BY <1>a, <1>PostmasterExits, <2>e DEF PostmasterExits, rigidVars, callVars,
            handleVars, LifeTypeOK, Thread, Teardown, DownInv
    <2> QED BY <1>b, <2>1, <2>2, <2>3
<1>WatchTick. ASSUME NEW g \in Attachment, WatchTick(g) PROVE GivenUpInv'
    <2>e. (EndpointGone' <=> EndpointGone) /\ listening' = listening /\ closing' = closing
        BY <1>e, <1>WatchTick DEF WatchTick
    <2>1. EndpointUse'
        BY <1>a, <1>WatchTick, <2>e DEF WatchTick, rigidVars, callVars, handleVars,
            LifeTypeOK, Thread, Teardown, EndpointUse
    <2>2. CarefulInv'
        BY <1>a, <1>WatchTick DEF WatchTick, rigidVars, callVars, handleVars,
            watcherVars, LifeTypeOK, Thread, Teardown, Initializing, Starting,
            Releasing, CarefulInv, Resting, Rest
    <2>3. ASSUME NEW u \in Teardown PROVE DownInv(u)'
        BY <1>a, <1>WatchTick, <2>e DEF WatchTick, rigidVars, callVars, handleVars,
            LifeTypeOK, Thread, Teardown, DownInv
    <2> QED BY <1>b, <2>1, <2>2, <2>3
<1>WatchCancelled. ASSUME NEW g \in Attachment, WatchCancelled(g) PROVE GivenUpInv'
    <2>e. (EndpointGone' <=> EndpointGone) /\ listening' = listening /\ closing' = closing
        BY <1>e, <1>WatchCancelled DEF WatchCancelled
    <2>1. EndpointUse'
        BY <1>a, <1>WatchCancelled, <2>e DEF WatchCancelled, rigidVars, callVars,
            handleVars, LifeTypeOK, Thread, Teardown, EndpointUse
    <2>2. CarefulInv'
        BY <1>a, <1>WatchCancelled DEF WatchCancelled, rigidVars, callVars, handleVars,
            watcherVars, LifeTypeOK, Thread, Teardown, Initializing, Starting,
            Releasing, CarefulInv, Resting, Rest
    <2>3. ASSUME NEW u \in Teardown PROVE DownInv(u)'
        BY <1>a, <1>WatchCancelled, <2>e DEF WatchCancelled, rigidVars, callVars,
            handleVars, LifeTypeOK, Thread, Teardown, DownInv
    <2> QED BY <1>b, <2>1, <2>2, <2>3
<1>ReceiveExit. ASSUME NEW g \in Attachment, ReceiveExit(g) PROVE GivenUpInv'
    <2>e. (EndpointGone' <=> EndpointGone) /\ listening' = listening /\ closing' = closing
        BY <1>e, <1>ReceiveExit DEF ReceiveExit
    <2>1. EndpointUse'
        BY <1>a, <1>ReceiveExit, <2>e DEF ReceiveExit, rigidVars, callVars, handleVars,
            LifeTypeOK, Thread, Teardown, EndpointUse
    <2>2. CarefulInv'
        BY <1>a, <1>ReceiveExit DEF ReceiveExit, rigidVars, callVars, handleVars,
            watcherVars, LifeTypeOK, Thread, Teardown, Initializing, Starting,
            Releasing, CarefulInv, Resting, Rest
    <2>3. ASSUME NEW u \in Teardown PROVE DownInv(u)'
        BY <1>a, <1>ReceiveExit, <2>e DEF ReceiveExit, rigidVars, callVars, handleVars,
            LifeTypeOK, Thread, Teardown, DownInv
    <2> QED BY <1>b, <2>1, <2>2, <2>3
<1>JudgeExit. ASSUME NEW g \in Attachment, JudgeExit(g) PROVE GivenUpInv'
    <2>e. (EndpointGone' <=> EndpointGone) /\ listening' = listening /\ closing' = closing
        BY <1>e, <1>JudgeExit DEF JudgeExit
    <2>1. EndpointUse'
        BY <1>a, <1>JudgeExit, <2>e DEF JudgeExit, rigidVars, callVars, handleVars,
            LifeTypeOK, Thread, Teardown, EndpointUse
    <2>2. CarefulInv'
        BY <1>a, <1>JudgeExit DEF JudgeExit, rigidVars, callVars, handleVars,
            watcherVars, LifeTypeOK, Thread, Teardown, Initializing, Starting,
            Releasing, CarefulInv, Resting, Rest
    <2>3. ASSUME NEW u \in Teardown PROVE DownInv(u)'
        BY <1>a, <1>JudgeExit, <2>e DEF JudgeExit, rigidVars, callVars, handleVars,
            LifeTypeOK, Thread, Teardown, DownInv
    <2> QED BY <1>b, <2>1, <2>2, <2>3
<1>ReportExit. ASSUME NEW g \in Attachment, ReportExit(g) PROVE GivenUpInv'
    <2>e. (EndpointGone' <=> EndpointGone) /\ listening' = listening /\ closing' = closing
        BY <1>e, <1>ReportExit DEF ReportExit
    <2>1. EndpointUse'
        BY <1>a, <1>ReportExit, <2>e DEF ReportExit, rigidVars, callVars, handleVars,
            LifeTypeOK, Thread, Teardown, EndpointUse
    <2>2. CarefulInv'
        BY <1>a, <1>ReportExit DEF ReportExit, rigidVars, callVars, handleVars,
            watcherVars, LifeTypeOK, Thread, Teardown, Initializing, Starting,
            Releasing, CarefulInv, Resting, Rest
    <2>3. ASSUME NEW u \in Teardown PROVE DownInv(u)'
        BY <1>a, <1>ReportExit, <2>e DEF ReportExit, rigidVars, callVars, handleVars,
            LifeTypeOK, Thread, Teardown, DownInv
    <2> QED BY <1>b, <2>1, <2>2, <2>3
<1>Forward. ASSUME Forward PROVE GivenUpInv'
    <2>e. ~EndpointGone /\ listening' = listening /\ closing' = closing
        BY <1>Forward
        DEF Forward, FwdStep, PipeStep, Accept, AcceptFails, TrackClient, Spawn, Dial, TrackServer,
            CopyEnds, OtherCopyEnds, UntrackServer, UntrackClient, EndpointGone, Quiet
    <2>1. EndpointUse'
        BY <1>a, <1>Forward, <2>e DEF Forward, rigidVars, callVars, handleVars,
            LifeTypeOK, Thread, Teardown, EndpointUse
    <2>2. CarefulInv'
        BY <1>a, <1>Forward DEF Forward, rigidVars, callVars, handleVars, watcherVars,
            LifeTypeOK, Thread, Teardown, Initializing, Starting, Releasing,
            CarefulInv, Resting, Rest
    <2>3. ASSUME NEW u \in Teardown PROVE DownInv(u)'
        BY <1>a, <1>Forward, <2>e DEF Forward, rigidVars, callVars, handleVars,
            LifeTypeOK, Thread, Teardown, DownInv
    <2> QED BY <1>b, <2>1, <2>2, <2>3
<1>U. CASE UNCHANGED vars
    BY <1>a, <1>b, <1>e, <1>U
    DEF vars, rigidVars, callVars, handleVars, watcherVars, EndpointUse, CarefulInv, DownInv, Resting
<1> QED
    BY <1>BeginInit, <1>InitFails, <1>AcquireServer, <1>ProvisionDatabase,
        <1>PublishEndpoint, <1>NativeInitFails, <1>KeepRunner, <1>InitContainer,
        <1>ContainerInitFails, <1>MigrateOnInit, <1>BeginStart, <1>Prepare,
        <1>ArmWatcher, <1>EnsureAccess, <1>StartFails, <1>CommitStarted, <1>Supervise,
        <1>BeginTeardown, <1>CancelSupervision, <1>EndpointClosed, <1>ReleaseNative,
        <1>ReleaseNil, <1>ReleaseFails, <1>Stop, <1>StopContainer, <1>StopContainerFails, <1>Destroy,
        <1>RemoveContainer, <1>RemoveContainerFails, <1>PostmasterExits, <1>WatchTick,
        <1>WatchCancelled, <1>ReceiveExit, <1>JudgeExit, <1>ReportExit, <1>Forward,
        <1>U
    DEF Next, InitStep, StartStep, TeardownStep, StopStep, DestroyStep, SuperviseStep

\* GivenUpInv holds of every behaviour, beside the invariant.
LEMMA GivenUpAlways == Spec => [](Inv /\ GivenUpInv)
BY LifeInitInv, LifeStepInv, GivenUpInit, GivenUpStep, PTL DEF Spec

\* A closed endpoint has neither listener nor socket, and a teardown that has
\* returned gave up handle, endpoint and container.
LEMMA GivenUpImplies ==
    Inv /\ GivenUpInv => ReleasedMeansDown /\ DisciplinedStopLeavesNoWatcher
<1> SUFFICES ASSUME Inv, GivenUpInv
             PROVE  ReleasedMeansDown /\ DisciplinedStopLeavesNoWatcher
    OBVIOUS
<1>1. EndpointGone => ~listening
    BY DEF Inv, TypeOK, FwdTypeOK, FwdInv, EndpointInv, EndpointGone
<1>2. EndpointGone => open = {}
    <2> SUFFICES ASSUME EndpointGone, NEW s \in open PROVE FALSE
        BY DEF Inv
    <2>1. PICK c \in Conn : s = Client(c) \/ s = Server(c)
        BY SocketTypes DEF Inv, TypeOK, FwdTypeOK
    <2>2. pipe[c] = "none" /\ accepted = NoConn
        BY <2>1 DEF EndpointGone, Quiet, Inv, FwdInv, EndpointInv
    <2> QED
        BY <2>1, <2>2, ConnAssumption DEF Inv, FwdInv, ConnInv
<1>3. ReleasedMeansDown
    BY <1>1, <1>2 DEF GivenUpInv, EndpointUse, DownInv, ReleasedMeansDown
<1>4. DisciplinedStopLeavesNoWatcher
    BY DEF GivenUpInv, CarefulInv, DisciplinedStopLeavesNoWatcher, StopLeavesNoWatcher
<1> QED
    BY <1>3, <1>4

\* A Stop or Destroy that returned success has let go of the server, closed the
\* endpoint with every connection of it and stopped the container, however Stop,
\* Destroy and Start overlapped and whichever of their steps failed before, when
\* no teardown began while Init ran (runtime.go, Stop and Destroy; nixpg.go,
\* release).
THEOREM LifecycleReleasedMeansDown == Spec => []ReleasedMeansDown
BY GivenUpAlways, GivenUpImplies, PTL

\* No hot-reload watcher survives a teardown when the caller neither retries a
\* failed Start nor tears down while a Start or an Init runs (runtime.go, Stop and
\* Destroy).
THEOREM LifecycleLeavesNoWatcher == Spec => []DisciplinedStopLeavesNoWatcher
BY GivenUpAlways, GivenUpImplies, PTL

=============================================================================
