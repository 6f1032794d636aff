---------------------------- MODULE MCSupervisor ----------------------------
(* Model-checking instances of Supervisor: the sets that a .cfg names. *)
EXTENDS Supervisor, TLC

CONSTANTS o1, o2, t1, t2

Os1 == {o1}
Os2 == {o1, o2}
Threads1 == {t1}
Threads2 == {t1, t2}

NoMemory == {0}
\* Two processes are more than a tree may use.
EachOne == {1}

Lifecycle == {"new_tree", "join", "heartbeat", "kill", "stop"}
Handled == {"handler", "heartbeat", "stop"}
Served == {"handler", "new_tree", "heartbeat", "kill", "llm"}

LastBeats == {"FINISHED"}
FinalBeats == {"RUNNING", "FINISHED"}

Symmetry == Permutations(OsPid) \cup Permutations(Thread)
=============================================================================
