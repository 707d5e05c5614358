-------------------------- MODULE MCSchemaControl --------------------------
(* Instances of SchemaControl for TLC. *)
EXTENDS SchemaControl, TLC

CONSTANTS g1, g2, l1, l2, w1

\* Agent g1 has a lifecycle actor and a watcher, agent g2 a lifecycle actor.
MCAgentOf == [t \in Actor |-> IF t = l2 THEN g2 ELSE g1]

=============================================================================
