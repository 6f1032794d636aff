---------------------------- MODULE MCConversation ----------------------------
(* Instances of Conversation for TLC.                                       *)
EXTENDS Conversation

CONSTANTS u1, p1, p2

S1 == <<u1, 1>>
P1 == <<p1, 1>>

Ask(i, c, pid, fresh, input, system) ==
  [id |-> i, convo |-> c, pid |-> pid, fresh |-> fresh, input |-> input, system |-> system]
Do(act, n) == [act |-> act, user |-> u1, n |-> n]
Holds(c, n) == [d \in Convo |-> IF d = c THEN n ELSE 0]
Workload(R, C, s, t) == [requests |-> R, commands |-> C, stored |-> s, time |-> t]

\* Two turns of a session of n messages, with commands in between.
Session1 == Ask(1, S1, None, FALSE, "user", "plain")
Session2 == Ask(2, S1, None, FALSE, "tool", "none")
Turns(C, n) == Workload({Session1, Session2}, C, Holds(S1, n), 1)
Turn(C, n) == Workload({Session1}, C, Holds(S1, n), 1)
\* A process opens a conversation and continues it.
Owned == Workload({Ask(1, P1, p1, TRUE, "user", "plain"), Ask(2, P1, p1, FALSE, "tool", "none")},
                  {}, Holds(P1, 0), 2)
\* It continues one that is old, and another process tries to.
Old == Workload({Ask(1, P1, p1, FALSE, "user", "override"), Ask(2, P1, p2, FALSE, "user", "none")},
                {}, Holds(P1, 3), 2)

Busy == <<Turns({Do("get_or_create", 0)}, 3), Turn({Do("destroy_user", 0)}, 3),
          Turns({Do("undo", 1)}, 0), Turn({Do("undo", 1)}, 3), Turn({Do("compact", 0)}, 3),
          Turn({Do("compact", 1), Do("delete", 1)}, 3),
          Turn({Do("undo", 0), Do("new", 0), Do("set_title", 1), Do("create_super_user", 0)}, 0),
          Owned, Old>>
\* A turn while the user compacts the session.
CompactOnly == <<Turn({Do("compact", 1)}, 3)>>
=============================================================================
