----------------------------- MODULE MCScheduler -----------------------------
(* Model-checking instances of Scheduler: the requests that a .cfg names. *)
EXTENDS Scheduler, TLC

CONSTANTS w1, w2, u1, c1, c2, x1, x2

Workers1 == {w1}
Workers2 == {w1, w2}

Req(id, trace, tree, mode, user, convo, priority) ==
  [id |-> id, trace |-> trace, tree |-> tree, mode |-> mode, user |-> user,
   convo |-> convo, priority |-> priority]

\* An attempt, its retry under the same trace, another request of the tree
\* and requests of other trees.
Attempt == Req(1, x1, "TREE_1", "conversation", None, c1, 1)
Retry == Req(2, x1, "TREE_1", "conversation", None, c1, 1)
Sibling == Req(3, x2, "TREE_1", "simple", None, None, 1)
Other == Req(4, None, "TREE_2", "simple", None, None, 1)
Urgent == Req(5, None, "TREE_3", "simple", None, None, 2)

Retried == {Attempt, Retry, Sibling}
Pair == {Attempt, Retry}
\* One worker, and a request that comes later and is more urgent.
Lone == {Other, Urgent}

WorkerSymmetry == Permutations(Workers)
=============================================================================
