--------------------------- MODULE MCExecutioner ---------------------------
(* Instances of Executioner for TLC.                                        *)
EXTENDS Executioner

CONSTANTS p1, r1, r2, r3

Exec(force, valid) == [type |-> "EXEC_VELIX_PROCESS", pkg |-> p1, force |-> force, valid |-> valid]
Cache(type) == [Exec(FALSE, TRUE) EXCEPT !.type = type]
Run == Exec(FALSE, TRUE)
Refresh == Exec(TRUE, TRUE)
Three(a, b, c, events) ==
  [plan |-> [r \in Request |-> IF r = r1 THEN a ELSE IF r = r2 THEN b ELSE c], events |-> events]

\* A leader, followers and a request that is not valid; the cache is cleaned
\* or pruned meanwhile; a refresh after an edit; a crash in the middle.
Loads == <<Three(Run, Run, Run, {}), Three(Run, Exec(FALSE, FALSE), Run, {"crash"}),
           Three(Run, Run, Cache("EXEC_CACHE_CLEAN"), {"stop"}),
           Three(Run, Refresh, Cache("EXEC_CACHE_PRUNE"), {"edit"}),
           Three(Run, Refresh, Run, {"crash"}), Three(Run, Refresh, Exec(FALSE, FALSE), {"edit", "crash"})>>
=============================================================================
