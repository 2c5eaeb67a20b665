------------------------- MODULE MCPlannedExecution -------------------------
(* PlannedExecution on small instances: one plan is enough, since requests *)
(* and tasks of different plans share nothing but fresh transaction ids.   *)
EXTENDS PlannedExecution, TLC

\* Requests, message slots and fresh transaction ids are interchangeable.
Symmetry == Permutations(Clients) \cup Permutations(Workers) \cup Permutations(Txns)
=============================================================================
