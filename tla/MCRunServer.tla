---------------------------- MODULE MCRunServer ----------------------------
(* Instances of RunServer for TLC. *)
EXTENDS RunServer, TLC

CONSTANTS a1, a2, a3, u1, u2, s1, s2, r1, r2

\* Two services of one run share root r1; another run has root r2.
MCRootOf == [a \in Agent |-> IF a = a3 THEN r2 ELSE r1]
MCServiceOf == [a \in Agent |-> IF a = a2 THEN s2 ELSE s1]
MCRunOf == [a \in Agent |-> IF a = a3 THEN u2 ELSE u1]

\* Two agents of one service: two invocations of codefly in one workspace and
\* naming scope, or an agent whose abandoned Stop still runs beside its successor.
SameServiceOf == [a \in Agent |-> s1]

=============================================================================
