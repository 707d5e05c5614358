---------------------------- MODULE MCLifecycle ----------------------------
(***************************************************************************)
(* An instance of Lifecycle for TLC.  A behaviour is one of: one Init with *)
(* connections at the endpoint, under a careful or a careless caller; and  *)
(* two Inits in turn of an agent nobody connects to, whose second          *)
(* attachment meets the goroutines of the first.                           *)
(***************************************************************************)
EXTENDS Lifecycle

VARIABLE part

\* The most careful caller, one that overlaps and retries Starts, and one that
\* abandons Inits.
AnyCaller == {{}, {"overlap", "retry"}, {"abandon"}}

PartInit ==
    /\ Init
    /\ part \in {"traffic", "again"}
    /\ part = "again" => native /\ liberties = {}

PartNext ==
    /\ Next /\ UNCHANGED part
    /\ part = "traffic" => inits' <= 1
    /\ part = "again" => open' = {}

PartSpec == PartInit /\ [][PartNext]_<<part, vars>> /\ Fairness

=============================================================================
