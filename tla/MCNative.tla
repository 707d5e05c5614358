----------------------------- MODULE MCNative ------------------------------
(***************************************************************************)
(* An instance of Provision and of HostIPC for TLC.  The two share nothing *)
(* (one works inside the run's server, the other on the host's tables), so *)
(* a behaviour is one of the first or one of the second.                   *)
(***************************************************************************)
EXTENDS Provision, HostIPC, TLC

CONSTANTS v1, v2, v3, n1, n2, q1, q2, w1, w2

VARIABLE part

\* Two services with one database-name, and one with its own.
MCDatabaseOf == [s \in Svc |-> IF s = v3 THEN n2 ELSE n1]

\* Keys far apart; the other application's set lies between them.
MCBaseOf == [p \in Postmaster |-> IF p = q1 THEN 10 ELSE 20]

\* Collectors are alike.
Alike == Permutations(Reaper)

NativeInit == part \in {"databases", "memory"} /\ ProvInit /\ IpcInit

NativeNext ==
    \/ part = "databases" /\ ProvNext /\ UNCHANGED <<ipcVars, part>>
    \/ part = "memory" /\ IpcNext /\ UNCHANGED <<provVars, part>>

NativeSpec == NativeInit /\ [][NativeNext]_<<provVars, ipcVars, part>>

=============================================================================
