----------------------------- MODULE MCTerminal -----------------------------
(* Instances of Terminal for TLC.                                           *)
EXTENDS Terminal

CONSTANTS c1, c2, k1, k2, k3

Exec(k, cmd, deadline, mode) ==
  [act |-> "exec", key |-> k, cmd |-> cmd, deadline |-> deadline, mode |-> mode]
Kill(k) == [Exec(k, "ls", FALSE, "off") EXCEPT !.act = "kill"]
Once(k, cmd, mode) == [Exec(k, cmd, TRUE, mode) EXCEPT !.act = "oneshot"]
Pair(a, b, events) == [task |-> [c \in Client |-> IF c = c1 THEN a ELSE b], events |-> events]

\* Two commands for one shell, which may exit; a command and a kill, with
\* everything else; two commands the user is asked about; a limit on sessions;
\* a user whose sessions are killed while the manager stops; a shell that does
\* not read; two users with one dangerous command, one with an entry of the
\* configuration.
Shared == Pair(Exec(k1, "ls", TRUE, "off"), Exec(k1, "ls", FALSE, "smart"), {"exit", "watch"})
Killed == Pair(Exec(k1, "rm", TRUE, "off"), Kill(k1), Event \ {"full"})
Asked  == Pair(Exec(k1, "rm", FALSE, "smart"), Once(k1, "rm", "smart"), {"exit"})
Crowded == Pair(Exec(k1, "ls", FALSE, "off"), Exec(k2, "ls", FALSE, "manual"), {"watch"})
Leaving == Pair(Exec(k1, "ls", FALSE, "off"), [Kill(k2) EXCEPT !.act = "kill_all"], {"exit", "stop"})
Clogged == Pair(Exec(k1, "ls", TRUE, "off"), Exec(k1, "ls", FALSE, "off"), {"full"})
Strangers == Pair(Once(k1, "rm", "smart"), Once(k3, "rm", "smart"), {})
Configured == Pair(Once(k1, "ls", "manual"), Once(k3, "ls", "manual"), {})
Busy == <<Shared, Killed, Asked, Crowded, Leaving, Clogged, Strangers, Configured>>
TwoUsers == [k \in Key |-> IF k = k3 THEN "v" ELSE "u"]
Entry == {<<"manual", "v", "ls">>}
=============================================================================
