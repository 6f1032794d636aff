----------------------------- MODULE KeyedQueue -----------------------------
(***************************************************************************)
(* What the LLM scheduler promises, without heap, versions, threads or     *)
(* locks: requests of one key are served one at a time, in their order of  *)
(* arrival.                                                                *)
(***************************************************************************)
EXTENDS Sequences

CONSTANTS
  Request,      \* requests
  Key,          \* serialization keys
  KeyOf(_)      \* the key of a request

VARIABLES
  queue,        \* key -> requests not yet started, oldest first
  running       \* requests being served

Init == queue = [k \in Key |-> <<>>] /\ running = {}

Submit(r) ==
  /\ queue' = [queue EXCEPT ![KeyOf(r)] = Append(@, r)]
  /\ UNCHANGED running

Start(k) ==
  /\ queue[k] # <<>>
  /\ \A r \in running : KeyOf(r) # k
  /\ running' = running \cup {Head(queue[k])}
  /\ queue' = [queue EXCEPT ![k] = Tail(@)]

Finish(r) ==
  /\ r \in running
  /\ running' = running \ {r}
  /\ UNCHANGED queue

Next ==
  \/ \E r \in Request : Submit(r) \/ Finish(r)
  \/ \E k \in Key : Start(k)

Spec == Init /\ [][Next]_<<queue, running>>
=============================================================================
