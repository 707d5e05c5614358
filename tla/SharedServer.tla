---------------------------- MODULE SharedServer ----------------------------
(***************************************************************************)
(* What a run server promises its users, whatever processes, locks and     *)
(* files it is made of: a root has at most one server, an agent is given a *)
(* server that runs, and a server is told to stop only when nobody uses    *)
(* it.  A server may still crash under its users, and users may vanish.    *)
(* RunServer implements this specification.                                *)
(***************************************************************************)
CONSTANTS Agent, Root

VARIABLES
    server,     \* [Root -> "down", "up" or "stopping"]
    users       \* [Root -> the agents that hold the running server]

sharedVars == <<server, users>>

SharedInit ==
    /\ server = [r \in Root |-> "down"]
    /\ users = [r \in Root |-> {}]

Start(r) ==
    /\ server[r] = "down"
    /\ server' = [server EXCEPT ![r] = "up"]
    /\ UNCHANGED users

Attach(r, a) ==
    /\ server[r] = "up"
    /\ users' = [users EXCEPT ![r] = @ \cup {a}]
    /\ UNCHANGED server

\* Agents release their servers or are gone, or their run is.
Detach(gone) ==
    /\ users' = [r \in Root |-> users[r] \ gone]
    /\ UNCHANGED server

Stop(r) ==
    /\ server[r] = "up" /\ users[r] = {}
    /\ server' = [server EXCEPT ![r] = "stopping"]
    /\ UNCHANGED users

\* The server exits, as told or on its own; there is nothing left to hold.
Exit(r) ==
    /\ server[r] # "down"
    /\ server' = [server EXCEPT ![r] = "down"]
    /\ users' = [users EXCEPT ![r] = {}]

SharedNext ==
    \/ \E r \in Root : Start(r) \/ Stop(r) \/ Exit(r) \/ \E a \in Agent : Attach(r, a)
    \/ \E gone \in SUBSET Agent : Detach(gone)

SharedSpec == SharedInit /\ [][SharedNext]_sharedVars

=============================================================================
