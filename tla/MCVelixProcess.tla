-------------------------- MODULE MCVelixProcess --------------------------
(* Instances of Bus and VelixProcess for TLC.                               *)
EXTENDS VelixProcess

CONSTANTS h1, h2, t1, t2, c1, c2

With(calls, tools, events) == [calls |-> calls, tools |-> tools, events |-> events]
One(events) == With({c1}, {t1}, events)

\* Two calls at once; a call that is retried, whose tools may be late; a tool
\* that asks; a handler that is replaced, or killed and replaced; kills, timeouts
\* and signals; a bus that stops or refuses a message; heartbeats that cannot be
\* forwarded, or go to the supervisor because there is no bus.
Loads == {With({c1, c2}, {t1, t2}, {"two"}), With({c1}, {t1, t2}, {"retry"}),
          One({"ask"}), One({"restart"}), With({}, {}, {"kill", "restart"}),
          One({"kill", "timeout"}), One({"signal"}), With({}, {}, {"signal", "nobus", "beat"}),
          One({"stop", "late"}), With({}, {}, {"stop", "beat"}), One({"huge", "error", "beat"}),
          One({"async", "nobus"}), One({"nobus", "beat"})}
\* A tool that the supervisor kills.
Killing == {One({"kill"})}
=============================================================================
