----------------------------- MODULE MCSourcing -----------------------------
(* Sourcing with two workers and two candidate ids, one more than the cap. *)
EXTENDS Sourcing

CONSTANTS p1, p2, e1, e2

\* Only candidates to choose from, or more than the pool has room for.
MCPasses == {[core |-> {}, adjacent |-> {e2}], [core |-> {e1, e2}, adjacent |-> {}]}
=============================================================================
