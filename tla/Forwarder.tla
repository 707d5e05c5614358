----------------------------- MODULE Forwarder -----------------------------
(***************************************************************************)
(* forward.go: a service's own TCP endpoint on its run's shared server.    *)
(* One goroutine accepts, one per connection carries its bytes to the      *)
(* server's Unix socket, and Close ends them all from another.  A          *)
(* connection is its two sockets in this process; what is carried does not *)
(* matter, only which sockets are open, which of them Close can reach      *)
(* (conns) and which goroutines its wait group still counts.               *)
(***************************************************************************)
CONSTANTS
    Conn,      \* connections that may exist at one time
    NoConn     \* no connection

ASSUME ConnAssumption == NoConn \notin Conn

VARIABLES
    listening, \* the listener is open
    closed,    \* the closed flag, under mu
    conns,     \* the conns map, under mu: the sockets Close can close
    open,      \* the sockets that are open
    serve,     \* where the accepting goroutine stands
    accepted,  \* the connection it has accepted and not yet handed over
    pipe,      \* where the goroutine of each connection stands
    closing    \* where the caller of Close stands

fwdVars == <<listening, closed, conns, open, serve, accepted, pipe, closing>>

\* The two ends this process has of connection c.
Client(c) == <<c, "client">>
Server(c) == <<c, "server">>
Socket == Conn \X {"client", "server"}

ServePc == {"off", "accept", "track", "spawn", "ended"}
PipePc == {"none", "dial", "track", "copy", "drain", "untrackServer", "untrackClient"}

FwdInit ==
    /\ listening = FALSE /\ closed = FALSE
    /\ conns = {} /\ open = {}
    /\ serve = "off" /\ accepted = NoConn
    /\ pipe = [c \in Conn |-> "none"]
    /\ closing = "no"

\* Mutation: the wait group does not count the accepting goroutine.
QuietPipes == \A c \in Conn : pipe[c] = "none"

\* The wait group is at zero.
Quiet == serve \in {"off", "ended"} /\ \A c \in Conn : pipe[c] = "none"

\* forwardToSocket: a new forwarder, once the one before it was closed.
Listen ==
    /\ ~listening /\ Quiet
    /\ listening' = TRUE /\ closed' = FALSE
    /\ conns' = {} /\ serve' = "accept" /\ closing' = "no"
    /\ UNCHANGED <<open, accepted, pipe>>

-----------------------------------------------------------------------------
(* serve *)

Accept(c) ==
    /\ serve = "accept" /\ listening /\ pipe[c] = "none" /\ c # accepted
    /\ Client(c) \notin open
    /\ open' = open \cup {Client(c)}
    /\ accepted' = c /\ serve' = "track"
    /\ UNCHANGED <<listening, closed, conns, pipe, closing>>

\* Accept returns an error because the listener was closed; any other error
\* would end the loop in the same way, with the listener still open.
AcceptFails ==
    /\ serve = "accept" /\ ~listening
    /\ serve' = "ended"
    /\ UNCHANGED <<listening, closed, conns, open, accepted, pipe, closing>>

\* Mutation: the closed flag is not looked at.
TrackAlways(s) == conns' = conns \cup {s}

\* track: the socket becomes one Close can reach, unless Close has begun.
Track(s) == ~closed /\ conns' = conns \cup {s}

TrackClient ==
    /\ serve = "track"
    /\ \/ /\ Track(Client(accepted))
          /\ serve' = "spawn"
          /\ UNCHANGED <<open, accepted>>
       \/ /\ closed
          /\ open' = open \ {Client(accepted)}
          /\ serve' = "ended" /\ accepted' = NoConn
          /\ UNCHANGED conns
    /\ UNCHANGED <<listening, closed, pipe, closing>>

Spawn ==
    /\ serve = "spawn"
    /\ pipe' = [pipe EXCEPT ![accepted] = "dial"]
    /\ serve' = "accept" /\ accepted' = NoConn
    /\ UNCHANGED <<listening, closed, conns, open, closing>>

-----------------------------------------------------------------------------
(* pipe *)

PipeAt(c, at) == pipe' = [pipe EXCEPT ![c] = at]

Dial(c) ==
    /\ pipe[c] = "dial"
    /\ \/ PipeAt(c, "untrackClient") /\ UNCHANGED open
       \/ PipeAt(c, "track") /\ open' = open \cup {Server(c)}
    /\ UNCHANGED <<listening, closed, conns, serve, accepted, closing>>

TrackServer(c) ==
    /\ pipe[c] = "track"
    /\ \/ /\ Track(Server(c))
          /\ PipeAt(c, "copy")
          /\ UNCHANGED open
       \/ /\ closed
          /\ open' = open \ {Server(c)}
          /\ PipeAt(c, "untrackClient")
          /\ UNCHANGED conns
    /\ UNCHANGED <<listening, closed, serve, accepted, closing>>

\* One of the two copies has ended, because its peer did or because its socket
\* was closed: both sockets are closed, which ends the other.
CopyEnds(c) ==
    /\ pipe[c] = "copy"
    /\ open' = open \ {Client(c), Server(c)}
    /\ PipeAt(c, "drain")
    /\ UNCHANGED <<listening, closed, conns, serve, accepted, closing>>

\* The other copy returns once its sockets are closed.
OtherCopyEnds(c) ==
    /\ pipe[c] = "drain" /\ {Client(c), Server(c)} \cap open = {}
    /\ PipeAt(c, "untrackServer")
    /\ UNCHANGED <<listening, closed, conns, open, serve, accepted, closing>>

Untrack(s) ==
    /\ conns' = conns \ {s}
    /\ open' = open \ {s}

\* The deferred untrack calls, and wg.Done with the last of them.
UntrackServer(c) ==
    /\ pipe[c] = "untrackServer"
    /\ Untrack(Server(c))
    /\ PipeAt(c, "untrackClient")
    /\ UNCHANGED <<listening, closed, serve, accepted, closing>>

UntrackClient(c) ==
    /\ pipe[c] = "untrackClient"
    /\ Untrack(Client(c))
    /\ PipeAt(c, "none")
    /\ UNCHANGED <<listening, closed, serve, accepted, closing>>

-----------------------------------------------------------------------------
(* Close *)

\* Under mu: the flag, the listener and every tracked socket.
BeginClose ==
    /\ closing = "no" /\ serve # "off"
    /\ closed' = TRUE /\ listening' = FALSE
    /\ open' = open \ conns
    /\ closing' = "wait"
    /\ UNCHANGED <<conns, serve, accepted, pipe>>

\* wg.Wait returns.
CloseReturns ==
    /\ closing = "wait" /\ Quiet
    /\ closing' = "returned"
    /\ UNCHANGED <<listening, closed, conns, open, serve, accepted, pipe>>

-----------------------------------------------------------------------------
\* What the forwarder's own goroutines do.
PipeStep(c) ==
    \/ Dial(c) \/ TrackServer(c) \/ CopyEnds(c) \/ OtherCopyEnds(c)
    \/ UntrackServer(c) \/ UntrackClient(c)

FwdStep ==
    \/ \E c \in Conn : Accept(c) \/ PipeStep(c)
    \/ AcceptFails \/ TrackClient \/ Spawn

FwdNext == Listen \/ FwdStep \/ BeginClose \/ CloseReturns

FwdSpec == FwdInit /\ [][FwdNext]_fwdVars

-----------------------------------------------------------------------------
(* Properties *)

FwdTypeOK ==
    /\ listening \in BOOLEAN /\ closed \in BOOLEAN
    /\ conns \subseteq Socket /\ open \subseteq Socket
    /\ serve \in ServePc
    /\ accepted \in Conn \cup {NoConn}
    /\ pipe \in [Conn -> PipePc]
    /\ closing \in {"no", "wait", "returned"}

\* "so the endpoint is released the moment the service is": when Close has
\* returned nothing listens and no socket of the endpoint is open, not even of
\* a connection that was accepted or dialled while Close ran.
ClosedLeavesNothing ==
    closing = "returned" => ~listening /\ open = {}

\* While Close waits, a connection it waits for is on its way out: once its
\* server socket is in use, one of its sockets was closed under it.
CloseReachesEverySession ==
    closing = "wait" =>
        \A c \in Conn : pipe[c] = "copy" => ~({Client(c), Server(c)} \subseteq open)

-----------------------------------------------------------------------------
(* The inductive invariant behind the safety properties *)

\* Every open socket belongs to a goroutine the wait group counts, a session in
\* use is one Close can reach, and a socket Close has reached stays closed.
ConnInv(c) ==
    /\ pipe[c] \in {"dial", "track", "copy"} => Client(c) \in conns
    /\ pipe[c] = "copy" => Server(c) \in conns
    /\ Client(c) \in conns => (c = accepted /\ serve = "spawn") \/ pipe[c] # "none"
    /\ Server(c) \in conns => pipe[c] \in {"copy", "drain", "untrackServer"}
    /\ Client(c) \in open => c = accepted \/ pipe[c] # "none"
    /\ Server(c) \in open => pipe[c] \in {"track", "copy"}
    /\ closed /\ Client(c) \in conns => Client(c) \notin open
    /\ closed /\ Server(c) \in conns => Server(c) \notin open

\* The flags agree, and at most one accepted connection has no goroutine yet.
EndpointInv ==
    /\ closing # "no" <=> closed
    /\ closed => ~listening
    /\ serve = "off" => closing = "no" /\ ~listening
    /\ serve \in {"track", "spawn"} <=> accepted # NoConn
    /\ accepted # NoConn => pipe[accepted] = "none"
    /\ serve = "spawn" => Client(accepted) \in conns
    /\ closing = "returned" => Quiet

FwdInv == EndpointInv /\ \A c \in Conn : ConnInv(c)

=============================================================================
