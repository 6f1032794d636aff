--------------------------- MODULE SchedulerProofs ---------------------------
(***************************************************************************)
(* Proofs about Scheduler for every set of requests and workers: a key is  *)
(* held by one worker at a time, no waiting queue is forgotten, and the    *)
(* scheduler implements KeyedQueue.                                        *)
(***************************************************************************)
EXTENDS Scheduler, FiniteSetTheorems, TLAPS

\* A request waits in the queue of its own key.
QueueSound ==
  \A k \in Keys : \A i \in 1 .. Len(tree_queues[k].requests) :
    queue_key(tree_queues[k].requests[i]) = k

\* The inductive invariant.
Inv == TypeOK /\ QueueSound /\ KeyIsHeldOnce /\ ReadyIsListed

\* The workers serve after the step what they served before it.
SameService ==
  \A w \in Workers :
    /\ Serving(w)' <=> Serving(w)
    /\ Serving(w) => worker'[w].req = worker[w].req

\* The queues and the service are left alone: a step that the abstract queue
\* does not see.
Quiet == UNCHANGED queueVars /\ SameService

-----------------------------------------------------------------------------
LEMMA KeyOfRequest ==
  ASSUME NEW r \in Requests
  PROVE  queue_key(r) \in Keys
BY DEF Keys

LEMMA NoneIsNoWorker == None \notin Workers /\ None \notin Requests
BY SchedulerAssumption

\* Waking workers that sleep does not touch those that serve.
LEMMA WokenService ==
  ASSUME TypeOK, NEW S \in SUBSET Asleep, worker' = Woken(S, worker)
  PROVE  SameService
BY DEF TypeOK, SameService, Serving, Asleep, Woken, Resting, Holding

LEMMA WokenType ==
  ASSUME TypeOK, NEW S \in SUBSET Workers,
         NEW table \in [Workers -> [pc : WorkerPc, req : Requests \cup {None}]],
         \A w \in Workers : table[w].pc \in Holding => table[w].req \in Requests
  PROVE  /\ Woken(S, table) \in [Workers -> [pc : WorkerPc, req : Requests \cup {None}]]
         /\ \A w \in Workers : Woken(S, table)[w].pc \in Holding =>
                                 Woken(S, table)[w].req \in Requests
BY DEF Woken, Resting, WorkerPc, Holding

LEMMA QuietSteps ==
  ASSUME TypeOK,
         \/ \E r \in Requests : ClientStep(r) \/ Adopt(r) \/ Deliver(r) \/ Expire(r)
         \/ \E w \in Workers :
              \/ TestPredicate(w) \/ FallAsleep(w) \/ PickNothing(w)
              \/ CheckClient(w) \/ Prepare(w) \/ Infer(w) \/ Persist(w) \/ Complete(w)
         \/ StopFlag \/ StopStep \/ MainStep \/ Tick
         \/ UNCHANGED vars
  PROVE  Quiet
<1>1. ASSUME UNCHANGED queueVars, UNCHANGED worker PROVE Quiet
  BY <1>1 DEF Quiet, SameService, Serving
<1>2. ASSUME NEW r \in Requests, ClientStep(r) \/ Adopt(r) \/ Deliver(r) \/ Expire(r)
      PROVE  Quiet
  BY <1>1, <1>2 DEF ClientStep, Accept, HangUp, Receive, Adopt, Deliver, Expire, Answer
<1>3. ASSUME NEW w \in Workers,
             \/ TestPredicate(w) \/ FallAsleep(w) \/ PickNothing(w)
             \/ CheckClient(w) \/ Prepare(w) \/ Infer(w) \/ Persist(w) \/ Complete(w)
      PROVE  Quiet
  <2>1. UNCHANGED queueVars
    BY <1>3 DEF TestPredicate, FallAsleep, PickNothing, CheckClient, Prepare, Infer,
                Persist, Complete
  <2>2. CASE TestPredicate(w)
    <3>1. /\ worker[w].pc = "wait"
          /\ \E pc \in {"exited", "pick", "blocking"} :
               worker' = [worker EXCEPT ![w] = Resting(pc)]
      BY <2>2 DEF TestPredicate
    <3>2. SameService
      BY <3>1 DEF TypeOK, SameService, Serving, Resting, Holding
    <3>3. QED BY <2>1, <3>2 DEF Quiet
  <2>3. CASE FallAsleep(w) \/ PickNothing(w)
    <3>1. /\ worker[w].pc \notin Holding
          /\ \E pc \in {"blocked", "wait"} :
               worker' = [worker EXCEPT ![w] = Resting(pc)]
      BY <2>3 DEF FallAsleep, PickNothing, Holding
    <3>2. SameService
      BY <3>1 DEF TypeOK, SameService, Serving, Resting, Holding
    <3>3. QED BY <2>1, <3>2 DEF Quiet
  <2>4. CASE CheckClient(w) \/ Prepare(w) \/ Infer(w) \/ Persist(w) \/ Complete(w)
    <3>1. /\ worker[w].pc \in Holding
          /\ \E pc \in Holding : worker' = [worker EXCEPT ![w].pc = pc]
      BY <2>4 DEF CheckClient, Prepare, Infer, Persist, Complete, Proceed, Holding
    <3>2. SameService
      BY <3>1 DEF TypeOK, SameService, Serving
    <3>3. QED BY <2>1, <3>2 DEF Quiet
  <2>5. QED BY <1>3, <2>2, <2>3, <2>4
<1>4. CASE StopFlag \/ StopNotifyMain \/ MainTest \/ MainSleep \/ MainJoin
           \/ MainReturn \/ Tick \/ UNCHANGED vars
  BY <1>1, <1>4 DEF StopFlag, StopNotifyMain, MainTest, MainSleep, MainJoin,
                    MainReturn, MainGoes, Tick, vars
<1>5. CASE StopNotifyWorkers \/ MainClose
  BY <1>5, WokenService DEF StopNotifyWorkers, MainClose, MainGoes, Quiet
<1>6. QED BY <1>2, <1>3, <1>4, <1>5 DEF StopStep, MainStep

-----------------------------------------------------------------------------
LEMMA QuietInv ==
  ASSUME QueueSound, KeyIsHeldOnce, ReadyIsListed, Quiet
  PROVE  QueueSound' /\ KeyIsHeldOnce' /\ ReadyIsListed'
<1>1. UNCHANGED <<tree_queues, ready_tree_queue>>
  BY DEF Quiet, queueVars
<1>2. QueueSound' /\ ReadyIsListed'
  BY <1>1 DEF QueueSound, ReadyIsListed
<1>3. KeyIsHeldOnce'
  BY <1>1 DEF KeyIsHeldOnce, Quiet, SameService
<1>4. QED BY <1>2, <1>3

-----------------------------------------------------------------------------
\* What is pushed on the heap for a queue that waits fits it.
LEMMA PushedFits ==
  ASSUME NEW k, NEW q, q.requests # <<>>, ~q.has_active_key
  PROVE  \E c \in enqueue_tree_candidate_if_eligible(k, q) :
           c.queue_key = k /\ c.version = q.version
BY DEF enqueue_tree_candidate_if_eligible, Candidate

\* The heap only grows and one queue changes to q, which is listed: then every
\* queue that waits is listed.
LEMMA PushedListed ==
  ASSUME TypeOK, ReadyIsListed, NEW k \in Keys, NEW q,
         tree_queues' = [tree_queues EXCEPT ![k] = q],
         ready_tree_queue \subseteq ready_tree_queue',
         q.requests # <<>> /\ ~q.has_active_key =>
           \E c \in ready_tree_queue' : c.queue_key = k /\ c.version = q.version
  PROVE  ReadyIsListed'
<1> SUFFICES ASSUME NEW j \in Keys, tree_queues'[j].requests # <<>>,
                    ~tree_queues'[j].has_active_key
             PROVE  \E c \in ready_tree_queue' :
                      c.queue_key = j /\ c.version = tree_queues'[j].version
  BY DEF ReadyIsListed
<1>1. CASE j = k
  BY <1>1 DEF TypeOK
<1>2. CASE j # k
  <2>1. tree_queues'[j] = tree_queues[j]
    BY <1>2 DEF TypeOK
  <2>2. QED BY <2>1 DEF ReadyIsListed
<1>3. QED BY <1>1, <1>2

LEMMA EnqueueInv ==
  ASSUME Inv, NEW r \in Requests, Enqueue(r)
  PROVE  SameService /\ QueueSound' /\ KeyIsHeldOnce' /\ ReadyIsListed'
<1> DEFINE k == queue_key(r)
           q == Pushed(tree_queues[k], r)
<1>1. k \in Keys
  BY KeyOfRequest
<1>2. /\ tree_queues' = [tree_queues EXCEPT ![k] = q]
      /\ ready_tree_queue' = ready_tree_queue \cup enqueue_tree_candidate_if_eligible(k, q)
      /\ \E S \in SUBSET Asleep : worker' = Woken(S, worker)
  BY DEF Enqueue, Notified
<1>3. tree_queues[k] \in TreeQueue
  BY <1>1 DEF Inv, TypeOK
<1>4. /\ q.requests = Append(tree_queues[k].requests, r)
      /\ q.has_active_key = tree_queues[k].has_active_key
  BY <1>3 DEF Pushed, TreeQueue
<1>5. SameService
  BY <1>2, WokenService DEF Inv
<1>6. QueueSound'
  <2> SUFFICES ASSUME NEW j \in Keys, NEW i \in 1 .. Len(tree_queues'[j].requests)
               PROVE  queue_key(tree_queues'[j].requests[i]) = j
    BY DEF QueueSound
  <2>1. CASE j # k
    <3>1. tree_queues'[j] = tree_queues[j]
      BY <1>2, <2>1 DEF Inv, TypeOK
    <3>2. QED BY <3>1 DEF Inv, QueueSound
  <2>2. CASE j = k
    <3>1. tree_queues'[k].requests = Append(tree_queues[k].requests, r)
      BY <1>1, <1>2, <1>4 DEF Inv, TypeOK
    <3>2. tree_queues[k].requests \in Seq(Requests)
      BY <1>3 DEF TreeQueue
    <3>3. CASE i = Len(tree_queues[k].requests) + 1
      <4>1. tree_queues'[k].requests[i] = r
        BY <3>1, <3>2, <3>3
      <4>2. QED BY <4>1, <2>2
    <3>4. CASE i # Len(tree_queues[k].requests) + 1
      <4>1. /\ i \in 1 .. Len(tree_queues[k].requests)
            /\ tree_queues'[k].requests[i] = tree_queues[k].requests[i]
        BY <2>2, <3>1, <3>2, <3>4
      <4>2. QED BY <4>1, <1>1, <2>2 DEF Inv, QueueSound
    <3>5. QED BY <3>3, <3>4
  <2>3. QED BY <2>1, <2>2
<1>7. \A j \in Keys : tree_queues'[j].has_active_key = tree_queues[j].has_active_key
  BY <1>1, <1>2, <1>4 DEF Inv, TypeOK
<1>8. KeyIsHeldOnce'
  BY <1>5, <1>7 DEF Inv, KeyIsHeldOnce, SameService
<1>9. ReadyIsListed'
  <2>1. q.requests # <<>> /\ ~q.has_active_key =>
          \E c \in ready_tree_queue' : c.queue_key = k /\ c.version = q.version
    BY <1>2, PushedFits
  <2>2. ready_tree_queue \subseteq ready_tree_queue'
    BY <1>2
  <2> HIDE DEF k, q
  <2>3. QED BY <1>1, <1>2, <2>1, <2>2, PushedListed DEF Inv
<1>10. QED BY <1>5, <1>6, <1>8, <1>9

-----------------------------------------------------------------------------
\* A candidate that is stale is dropped: the queue it names does not wait, or
\* is listed under another version.
LEMMA PopStaleInv ==
  ASSUME Inv, NEW c \in ready_tree_queue, ~Fits(c),
         ready_tree_queue' = ready_tree_queue \ {c},
         UNCHANGED <<tree_queues, worker>>
  PROVE  SameService /\ QueueSound' /\ KeyIsHeldOnce' /\ ReadyIsListed'
<1>1. SameService
  BY DEF SameService, Serving
<1>2. QueueSound' /\ KeyIsHeldOnce'
  BY DEF Inv, QueueSound, KeyIsHeldOnce, Serving
<1>3. ReadyIsListed'
  BY DEF Inv, ReadyIsListed, Fits
<1>4. QED BY <1>1, <1>2, <1>3

\* What taking the front request of a queue does.
LEMMA TakenFields ==
  ASSUME Inv, NEW k \in Keys, tree_queues[k].requests # <<>>
  PROVE  LET s == tree_queues[k].requests
         IN  /\ s \in Seq(Requests)
             /\ Head(s) \in Requests
             /\ queue_key(Head(s)) = k
             /\ Tail(s) \in Seq(Requests)
             /\ \A i \in 1 .. Len(Tail(s)) : queue_key(Tail(s)[i]) = k
<1> DEFINE s == tree_queues[k].requests
<1>1. s \in Seq(Requests) /\ s # <<>>
  BY DEF Inv, TypeOK, TreeQueue
<1>2. /\ Head(s) = s[1] /\ 1 \in 1 .. Len(s)
      /\ Head(s) \in Requests /\ Tail(s) \in Seq(Requests)
      /\ Len(Tail(s)) = Len(s) - 1
      /\ \A i \in 1 .. Len(Tail(s)) : Tail(s)[i] = s[i + 1]
  BY <1>1
<1>3. \A i \in 1 .. Len(s) : queue_key(s[i]) = k
  BY DEF Inv, QueueSound
<1> HIDE DEF s
<1>4. \A i \in 1 .. Len(Tail(s)) : queue_key(Tail(s)[i]) = k
  <2> TAKE i \in 1 .. Len(Tail(s))
  <2>1. i + 1 \in 1 .. Len(s)
    BY <1>1, <1>2
  <2>2. QED BY <2>1, <1>2, <1>3
<1>5. QED BY <1>1, <1>2, <1>3, <1>4 DEF s

\* A candidate that fits: the worker gets the front request and its key.
LEMMA PopFitsInv ==
  ASSUME Inv, NEW w \in Workers, NEW c \in ready_tree_queue, Fits(c),
         ~Serving(w),
         ready_tree_queue' = ready_tree_queue \ {c},
         tree_queues' = [tree_queues EXCEPT ![c.queue_key] = Taken(tree_queues[c.queue_key])],
         worker' = [worker EXCEPT ![w] =
                      [pc |-> "check", req |-> Head(tree_queues[c.queue_key].requests)]]
  PROVE  QueueSound' /\ KeyIsHeldOnce' /\ ReadyIsListed'
<1> DEFINE k == c.queue_key
           r == Head(tree_queues[k].requests)
<1>1. k \in Keys /\ tree_queues[k].requests # <<>> /\ ~tree_queues[k].has_active_key
  BY DEF Inv, TypeOK, TreeCandidate, Fits
<1>2. r \in Requests /\ queue_key(r) = k
  BY <1>1, TakenFields
<1>3. \A j \in Keys : tree_queues'[j] = IF j = k THEN Taken(tree_queues[k]) ELSE tree_queues[j]
  BY <1>1 DEF Inv, TypeOK
<1>4. /\ Serving(w)' /\ worker'[w].req = r
      /\ \A v \in Workers \ {w} : worker'[v] = worker[v]
  BY DEF Inv, TypeOK, Serving, Holding
<1>5. \A v \in Workers : Serving(v) => queue_key(worker[v].req) # k
  BY <1>1 DEF Inv, KeyIsHeldOnce
<1>6. QueueSound'
  <2> SUFFICES ASSUME NEW j \in Keys, NEW i \in 1 .. Len(tree_queues'[j].requests)
               PROVE  queue_key(tree_queues'[j].requests[i]) = j
    BY DEF QueueSound
  <2>1. CASE j # k
    BY <1>3, <2>1 DEF Inv, QueueSound
  <2>2. CASE j = k
    <3>1. tree_queues'[j].requests = Tail(tree_queues[k].requests)
      BY <1>1, <1>3, <2>2 DEF Taken
    <3>2. QED BY <3>1, <1>1, <2>2, TakenFields
  <2>3. QED BY <2>1, <2>2
<1>7. KeyIsHeldOnce'
  <2>1. \A u, v \in Workers :
          Serving(u)' /\ Serving(v)' /\ queue_key(worker'[u].req) = queue_key(worker'[v].req)
            => u = v
    BY <1>2, <1>4, <1>5 DEF Inv, KeyIsHeldOnce, Serving
  <2>2. \A j \in Keys :
          tree_queues'[j].has_active_key <=>
            \E v \in Workers : Serving(v)' /\ queue_key(worker'[v].req) = j
    <3> TAKE j \in Keys
    <3>1. CASE j = k
      <4>1. tree_queues'[j].has_active_key
        BY <1>1, <1>3, <3>1 DEF Taken
      <4>2. QED BY <4>1, <1>2, <1>4, <3>1
    <3>2. CASE j # k
      <4>1. tree_queues'[j].has_active_key <=> tree_queues[j].has_active_key
        BY <1>3, <3>2
      <4>2. (\E v \in Workers : Serving(v)' /\ queue_key(worker'[v].req) = j)
              <=> (\E v \in Workers : Serving(v) /\ queue_key(worker[v].req) = j)
        BY <1>2, <1>4, <3>2 DEF Serving
      <4>3. QED BY <4>1, <4>2 DEF Inv, KeyIsHeldOnce
    <3>3. QED BY <3>1, <3>2
  <2>3. QED BY <2>1, <2>2 DEF KeyIsHeldOnce
<1>8. ReadyIsListed'
  <2> SUFFICES ASSUME NEW j \in Keys, tree_queues'[j].requests # <<>>,
                      ~tree_queues'[j].has_active_key
               PROVE  \E d \in ready_tree_queue' :
                        d.queue_key = j /\ d.version = tree_queues'[j].version
    BY DEF ReadyIsListed
  <2>1. j # k
    BY <1>1, <1>3 DEF Taken
  <2>2. tree_queues'[j] = tree_queues[j]
    BY <1>3, <2>1
  <2>3. PICK d \in ready_tree_queue : d.queue_key = j /\ d.version = tree_queues[j].version
    BY <2>2 DEF Inv, ReadyIsListed
  <2>4. d # c
    BY <2>1, <2>3
  <2>5. QED BY <2>2, <2>3, <2>4
<1>9. QED BY <1>6, <1>7, <1>8

-----------------------------------------------------------------------------
\* A worker gives its key back and rests; the others serve what they served.
LEMMA ReleasedService ==
  ASSUME TypeOK, NEW w \in Workers, NEW S \in SUBSET Asleep,
         worker' = Woken(S \cup {w}, worker)
  PROVE  /\ ~Serving(w)'
         /\ \A v \in Workers \ {w} :
              /\ Serving(v)' <=> Serving(v)
              /\ Serving(v) => worker'[v].req = worker[v].req
BY DEF TypeOK, Serving, Asleep, Woken, Resting, Holding

LEMMA ReleaseInv ==
  ASSUME Inv, NEW w \in Workers, Release(w)
  PROVE  QueueSound' /\ KeyIsHeldOnce' /\ ReadyIsListed'
<1> DEFINE r == worker[w].req
           k == queue_key(r)
           q == [tree_queues[k] EXCEPT !.has_active_key = FALSE, !.version = @ + 1]
           n == IF q.requests = <<>> THEN NoQueue ELSE q
<1>1. Serving(w) /\ r \in Requests /\ k \in Keys
  BY KeyOfRequest DEF Inv, TypeOK, Release, Serving, Holding
<1>2. /\ tree_queues' = [tree_queues EXCEPT ![k] = n]
      /\ ready_tree_queue' = ready_tree_queue \cup enqueue_tree_candidate_if_eligible(k, q)
      /\ \E S \in SUBSET Asleep : worker' = Woken(S \cup {w}, worker)
  BY DEF Release, Notified
<1>3. tree_queues[k] \in TreeQueue
  BY <1>1 DEF Inv, TypeOK
<1>4. q.requests = tree_queues[k].requests /\ ~q.has_active_key
  BY <1>3 DEF TreeQueue
<1>5. n.requests = tree_queues[k].requests /\ ~n.has_active_key
  BY <1>4 DEF NoQueue
<1>6. n.requests # <<>> => n = q
  BY <1>4, <1>5
<1>7. /\ ~Serving(w)'
      /\ \A v \in Workers \ {w} :
           /\ Serving(v)' <=> Serving(v)
           /\ Serving(v) => worker'[v].req = worker[v].req
  BY <1>2, ReleasedService DEF Inv
<1>8. \A v \in Workers \ {w} : Serving(v) => queue_key(worker[v].req) # k
  BY <1>1 DEF Inv, KeyIsHeldOnce
<1>9. ReadyIsListed'
  <2>1. n.requests # <<>> /\ ~n.has_active_key =>
          \E c \in ready_tree_queue' : c.queue_key = k /\ c.version = n.version
    <3> HAVE n.requests # <<>> /\ ~n.has_active_key
    <3>1. n = q
      BY <1>6
    <3>2. \E c \in enqueue_tree_candidate_if_eligible(k, q) :
            c.queue_key = k /\ c.version = q.version
      BY <1>4, <1>5, PushedFits
    <3> HIDE DEF k, q, n
    <3>3. QED BY <3>1, <3>2, <1>2
  <2>2. ready_tree_queue \subseteq ready_tree_queue'
    BY <1>2
  <2> HIDE DEF k, n
  <2>3. QED BY <1>1, <1>2, <2>1, <2>2, PushedListed DEF Inv
<1>10. \A j \in Keys : tree_queues'[j] = IF j = k THEN n ELSE tree_queues[j]
  BY <1>1, <1>2 DEF Inv, TypeOK
<1>11. QueueSound'
  <2> HIDE DEF n, k
  <2>1. \A j \in Keys : tree_queues'[j].requests = tree_queues[j].requests
    BY <1>5, <1>10
  <2>2. QED BY <2>1 DEF Inv, QueueSound
<1>12. KeyIsHeldOnce'
  <2> HIDE DEF n, k
  <2>1. \A u, v \in Workers :
          Serving(u)' /\ Serving(v)' /\ queue_key(worker'[u].req) = queue_key(worker'[v].req)
            => u = v
    BY <1>7 DEF Inv, KeyIsHeldOnce
  <2>2. \A j \in Keys :
          tree_queues'[j].has_active_key <=>
            \E v \in Workers : Serving(v)' /\ queue_key(worker'[v].req) = j
    <3> TAKE j \in Keys
    <3>1. CASE j = k
      <4>1. ~tree_queues'[j].has_active_key
        BY <1>5, <1>10, <3>1
      <4>2. QED BY <4>1, <1>7, <1>8, <3>1
    <3>2. CASE j # k
      <4>1. tree_queues'[j].has_active_key <=> tree_queues[j].has_active_key
        BY <1>10, <3>2
      <4>2. (\E v \in Workers : Serving(v)' /\ queue_key(worker'[v].req) = j)
              <=> (\E v \in Workers : Serving(v) /\ queue_key(worker[v].req) = j)
        BY <1>1, <1>7, <3>2 DEF k
      <4>3. QED BY <4>1, <4>2 DEF Inv, KeyIsHeldOnce
    <3>3. QED BY <3>1, <3>2
  <2>3. QED BY <2>1, <2>2 DEF KeyIsHeldOnce
<1>13. QED BY <1>9, <1>11, <1>12

-----------------------------------------------------------------------------
(* Types *)

ClientPc == {"none", "queued", "reading", "marked", "waiting", "done"}
Ids == {r.id : r \in Requests} \cup {None}

LobbyType ==
  /\ lobby_tasks \in Seq(Requests)
  /\ client \in [Requests -> ClientPc]
  /\ enqueued_at \in [Requests -> 0 .. clock]
  /\ clock \in 0 .. MaxTime

QueueType ==
  /\ tree_queues \in [Keys -> TreeQueue]
  /\ ready_tree_queue \subseteq TreeCandidate
  /\ lives \in [Keys -> Nat]

WorkerType ==
  /\ worker \in [Workers -> [pc : WorkerPc, req : Requests \cup {None}]]
  /\ \A w \in Workers : Serving(w) => worker[w].req \in Requests

BookType ==
  /\ completed \subseteq Requests
  /\ active_requests \in [Traces -> Ids]
  /\ queue_mutex \in Workers \cup {None}
  /\ llm_request_counts \in [TreeIds -> Nat]
  /\ saved \subseteq Requests

StopType ==
  /\ shutting_down \in BOOLEAN
  /\ stop_pc \in {"none", "queue", "lifecycle", "done"}
  /\ main_pc \in {"check", "blocking", "blocked", "close", "join", "drain",
                  "stopped"}

bookVars == <<completed, active_requests, queue_mutex, llm_request_counts, saved>>

LEMMA TypeParts ==
  /\ TypeOK <=> LobbyType /\ QueueType /\ WorkerType /\ BookType /\ StopType
  /\ TypeOK' <=> LobbyType' /\ QueueType' /\ WorkerType' /\ BookType' /\ StopType'
BY DEF TypeOK, LobbyType, QueueType, WorkerType, BookType, StopType, ClientPc, Ids

\* A part whose variables do not change keeps its type.
LEMMA PartsKept ==
  ASSUME TypeOK
  PROVE  /\ UNCHANGED <<lobbyVars, clock>> => LobbyType'
         /\ UNCHANGED queueVars => QueueType'
         /\ UNCHANGED worker => WorkerType'
         /\ UNCHANGED bookVars => BookType'
         /\ UNCHANGED stopVars => StopType'
<1>1. UNCHANGED <<lobbyVars, clock>> => LobbyType'
  BY TypeParts DEF LobbyType, lobbyVars
<1>2. UNCHANGED queueVars => QueueType'
  BY TypeParts DEF QueueType, queueVars
<1>3. UNCHANGED worker => WorkerType'
  BY TypeParts DEF WorkerType, Serving
<1>4. UNCHANGED bookVars => BookType'
  BY TypeParts DEF BookType, bookVars
<1>5. UNCHANGED stopVars => StopType'
  BY TypeParts DEF StopType, stopVars
<1>6. QED BY <1>1, <1>2, <1>3, <1>4, <1>5

LEMMA MarkType ==
  ASSUME TypeOK, NEW r \in Requests,
         mark_request_active(r) \/ clear_request_if_current(r)
  PROVE  active_requests' \in [Traces -> Ids]
<1>1. active_requests \in [Traces -> Ids]
  BY TypeParts DEF BookType
<1>2. r.id \in Ids /\ None \in Ids
  BY DEF Ids
<1>3. CASE mark_request_active(r)
  BY <1>1, <1>2, <1>3 DEF mark_request_active
<1>4. CASE clear_request_if_current(r)
  BY <1>1, <1>2, <1>4 DEF clear_request_if_current
<1>5. QED BY <1>3, <1>4

\* The lobby thread of a request goes to another stage.
LEMMA ClientType ==
  ASSUME TypeOK, NEW r \in Requests, NEW pc \in ClientPc,
         client' = [client EXCEPT ![r] = pc],
         lobby_tasks' \in Seq(Requests),
         enqueued_at' \in [Requests -> 0 .. clock],
         UNCHANGED clock
  PROVE  LobbyType'
BY TypeParts DEF LobbyType

LEMMA LobbySteps ==
  ASSUME TypeOK, NEW r \in Requests, ClientStep(r) \/ Adopt(r) \/ Deliver(r) \/ Expire(r)
  PROVE  TypeOK'
<1>1. /\ UNCHANGED <<queueVars, worker, completed, queue_mutex, llm_request_counts>>
      /\ UNCHANGED <<saved, clock, stopVars>>
      /\ \E pc \in ClientPc : client' = [client EXCEPT ![r] = pc]
  BY DEF ClientStep, Accept, HangUp, Receive, Adopt, Deliver, Expire, Answer, ClientPc
<1>2. lobby_tasks' \in Seq(Requests)
  <2>1. lobby_tasks \in Seq(Requests)
    BY TypeParts DEF LobbyType
  <2>2. \/ lobby_tasks' = lobby_tasks
        \/ lobby_tasks' = Append(lobby_tasks, r)
        \/ lobby_tasks # <<>> /\ lobby_tasks' = Tail(lobby_tasks)
    BY DEF ClientStep, Accept, HangUp, Receive, Adopt, Deliver, Expire, Answer
  <2>3. QED BY <2>1, <2>2
<1>3. enqueued_at' \in [Requests -> 0 .. clock]
  BY TypeParts DEF LobbyType, ClientStep, Accept, HangUp, Receive, Adopt, Deliver, Expire, Answer
<1>4. active_requests' \in [Traces -> Ids]
  <2>1. UNCHANGED active_requests \/ mark_request_active(r) \/ clear_request_if_current(r)
    BY DEF ClientStep, Accept, HangUp, Receive, Adopt, Deliver, Expire, Answer
  <2>2. QED BY <2>1, MarkType, TypeParts DEF BookType
<1>5. LobbyType'
  BY <1>1, <1>2, <1>3, ClientType
<1>6. BookType'
  BY <1>1, <1>4, TypeParts DEF BookType
<1>7. QED BY <1>1, <1>5, <1>6, PartsKept, TypeParts

LEMMA CandidateType ==
  ASSUME TypeOK, NEW k \in Keys, NEW q \in TreeQueue
  PROVE  enqueue_tree_candidate_if_eligible(k, q) \subseteq TreeCandidate
<1> SUFFICES ASSUME q.requests # <<>>
             PROVE  Candidate(k, effective_tree_priority(Head(q.requests)), q.version)
                      \in TreeCandidate
  BY DEF enqueue_tree_candidate_if_eligible
<1>1. Head(q.requests) \in Requests
  BY DEF TreeQueue
<1>2. effective_tree_priority(Head(q.requests)) \in Nat
  BY <1>1, SchedulerAssumption DEF effective_tree_priority, TypeOK
<1>3. QED BY <1>2 DEF Candidate, TreeCandidate, TreeQueue, TypeOK

LEMMA WokenWorkers ==
  ASSUME TypeOK, NEW S \in SUBSET Workers, worker' = Woken(S, worker)
  PROVE  WorkerType'
BY WokenType DEF TypeOK, WorkerType, Serving

LEMMA EnqueueType ==
  ASSUME TypeOK, NEW r \in Requests, Enqueue(r)
  PROVE  TypeOK'
<1> DEFINE k == queue_key(r)
           q == Pushed(tree_queues[k], r)
<1>1. k \in Keys
  BY KeyOfRequest
<1>2. q \in TreeQueue
  <2> DEFINE p == tree_queues[k]
  <2>1. p \in TreeQueue
    BY <1>1, TypeParts DEF QueueType
  <2> HIDE DEF p, k
  <2>2. Append(p.requests, r) \in Seq(Requests) /\ p.version + 1 \in Nat
    BY <2>1 DEF TreeQueue
  <2>3. Pushed(p, r) \in TreeQueue
    BY <2>1, <2>2 DEF TreeQueue, Pushed
  <2>4. QED BY <2>3 DEF p
<1>3. /\ tree_queues' = [tree_queues EXCEPT ![k] = q]
      /\ ready_tree_queue' = ready_tree_queue \cup enqueue_tree_candidate_if_eligible(k, q)
      /\ client' = [client EXCEPT ![r] = "waiting"]
      /\ \E S \in SUBSET Workers : worker' = Woken(S, worker)
      /\ UNCHANGED <<lives, lobby_tasks, enqueued_at, clock, bookVars, stopVars>>
  BY DEF Enqueue, Notified, Asleep, bookVars
<1> HIDE DEF k, q
<1>4. WorkerType'
  BY <1>3, WokenWorkers
<1>5. QueueType'
  BY <1>1, <1>2, <1>3, CandidateType, TypeParts DEF QueueType
<1>6. LobbyType'
  BY <1>3, ClientType, TypeParts DEF LobbyType, ClientPc
<1>7. QED BY <1>3, <1>4, <1>5, <1>6, PartsKept, TypeParts

LEMMA ReleaseType ==
  ASSUME TypeOK, NEW w \in Workers, Release(w)
  PROVE  TypeOK'
<1> DEFINE k == queue_key(worker[w].req)
           q == [tree_queues[k] EXCEPT !.has_active_key = FALSE, !.version = @ + 1]
           n == IF q.requests = <<>> THEN NoQueue ELSE q
<1>1. k \in Keys
  BY KeyOfRequest DEF TypeOK, Release, Serving, Holding
<1>2. q \in TreeQueue
  <2> DEFINE p == tree_queues[k]
  <2>1. p \in TreeQueue
    BY <1>1, TypeParts DEF QueueType
  <2>2. p.version + 1 \in Nat
    BY <2>1 DEF TreeQueue
  <2>3. q = [p EXCEPT !.has_active_key = FALSE, !.version = @ + 1]
    OBVIOUS
  <2> HIDE DEF p, k, q
  <2>4. QED BY <2>1, <2>2, <2>3 DEF TreeQueue
<1>3. n \in TreeQueue
  BY <1>2 DEF NoQueue, TreeQueue
<1>4. /\ tree_queues' = [tree_queues EXCEPT ![k] = n]
      /\ ready_tree_queue' = ready_tree_queue \cup enqueue_tree_candidate_if_eligible(k, q)
      /\ lives' = [lives EXCEPT ![k] = IF q.requests = <<>> THEN @ + 1 ELSE @]
      /\ UNCHANGED <<lobbyVars, clock, bookVars, stopVars>>
  BY DEF Release, bookVars
<1>5. WorkerType'
  <2>1. PICK S \in SUBSET Asleep : worker' = Woken(S \cup {w}, worker)
    BY DEF Release, Notified
  <2>2. S \cup {w} \in SUBSET Workers
    BY DEF Asleep
  <2>3. QED BY <2>1, <2>2, WokenWorkers
<1> HIDE DEF k, q, n
<1>6. QueueType'
  <2>1. lives' \in [Keys -> Nat]
    BY <1>1, <1>4, TypeParts DEF QueueType
  <2>2. QED BY <1>1, <1>2, <1>3, <1>4, <2>1, CandidateType, TypeParts DEF QueueType
<1>7. QED BY <1>4, <1>5, <1>6, PartsKept, TypeParts

\* A worker rests, or goes on with the request it has.
LEMMA RestType ==
  ASSUME TypeOK, NEW w \in Workers, NEW pc \in WorkerPc \ Holding,
         worker' = [worker EXCEPT ![w] = Resting(pc)]
  PROVE  WorkerType'
BY TypeParts DEF WorkerType, Resting, Serving

LEMMA ProceedType ==
  ASSUME TypeOK, NEW w \in Workers, NEW pc \in Holding, Serving(w), Proceed(w, pc)
  PROVE  WorkerType'
BY TypeParts DEF WorkerType, Proceed, Serving, WorkerPc

LEMMA PopType ==
  ASSUME TypeOK, NEW w \in Workers, PopCandidate(w)
  PROVE  TypeOK'
<1>1. PICK c \in ready_tree_queue :
        /\ ready_tree_queue' = ready_tree_queue \ {c}
        /\ IF Fits(c)
           THEN /\ tree_queues' = [tree_queues EXCEPT ![c.queue_key] =
                                     Taken(tree_queues[c.queue_key])]
                /\ worker' = [worker EXCEPT ![w] =
                                [pc |-> "check",
                                 req |-> Head(tree_queues[c.queue_key].requests)]]
                /\ queue_mutex' = None
           ELSE UNCHANGED <<tree_queues, worker, queue_mutex>>
  BY DEF PopCandidate
<1>2. UNCHANGED <<lives, lobbyVars, clock, completed, active_requests,
                  llm_request_counts, saved, stopVars>>
  BY DEF PopCandidate
<1>3. BookType'
  BY <1>1, <1>2, TypeParts DEF BookType
<1>4. CASE ~Fits(c)
  <2>1. QueueType' /\ WorkerType'
    BY <1>1, <1>2, <1>4, TypeParts, PartsKept DEF QueueType
  <2>2. QED BY <1>2, <1>3, <2>1, PartsKept, TypeParts
<1>5. CASE Fits(c)
  <2> DEFINE k == c.queue_key
             s == tree_queues[k].requests
  <2>1. k \in Keys /\ tree_queues[k] \in TreeQueue
    BY TypeParts DEF QueueType, TreeCandidate
  <2>2. s \in Seq(Requests) /\ s # <<>>
    BY <1>5, <2>1 DEF TreeQueue, Fits
  <2>3. Head(s) \in Requests /\ Tail(s) \in Seq(Requests)
    BY <2>2
  <2>4. Taken(tree_queues[k]) \in TreeQueue
    BY <2>1, <2>3 DEF Taken, TreeQueue
  <2>5. QueueType'
    BY <1>1, <1>2, <1>5, <2>1, <2>4, TypeParts DEF QueueType
  <2>6. WorkerType'
    <3>1. worker' = [worker EXCEPT ![w] = [pc |-> "check", req |-> Head(s)]]
      BY <1>1, <1>5
    <3> HIDE DEF s
    <3>2. QED BY <3>1, <2>3, TypeParts DEF WorkerType, Serving, WorkerPc, Holding
  <2>7. QED BY <1>2, <1>3, <2>5, <2>6, PartsKept, TypeParts
<1>6. QED BY <1>4, <1>5

LEMMA WorkerSteps ==
  ASSUME TypeOK, NEW w \in Workers, WorkerStep(w)
  PROVE  TypeOK'
<1>1. CASE PopCandidate(w) \/ Release(w)
  BY <1>1, PopType, ReleaseType
<1>2. CASE TestPredicate(w) \/ FallAsleep(w) \/ PickNothing(w)
  <2>1. /\ queue_mutex' \in Workers \cup {None}
        /\ UNCHANGED <<queueVars, lobbyVars, clock, stopVars>>
        /\ UNCHANGED <<completed, active_requests, llm_request_counts, saved>>
    BY <1>2 DEF TestPredicate, FallAsleep, PickNothing
  <2>2. \E pc \in {"exited", "pick", "blocking", "blocked", "wait"} :
          worker' = [worker EXCEPT ![w] = Resting(pc)]
    BY <1>2 DEF TestPredicate, FallAsleep, PickNothing
  <2>3. WorkerType'
    BY <2>2, RestType DEF WorkerPc, Holding
  <2>4. BookType'
    BY <2>1, TypeParts DEF BookType
  <2>5. QED BY <2>1, <2>3, <2>4, PartsKept, TypeParts
<1>3. CASE CheckClient(w) \/ Prepare(w) \/ Infer(w) \/ Persist(w) \/ Complete(w)
  <2>1. /\ Serving(w)
        /\ \E pc \in Holding : Proceed(w, pc)
    BY <1>3 DEF CheckClient, Prepare, Infer, Persist, Complete, Serving, Holding
  <2>2. WorkerType'
    BY <2>1, ProceedType
  <2>3. worker[w].req \in Requests /\ worker[w].req.tree \in TreeIds
    BY <2>1, TypeParts DEF WorkerType, TreeIds
  <2>4. UNCHANGED <<queueVars, lobbyVars, clock, stopVars, active_requests, queue_mutex>>
    BY <1>3 DEF CheckClient, Prepare, Infer, Persist, Complete
  <2>5. completed' \subseteq Requests /\ saved' \subseteq Requests
    BY <1>3, <2>3, TypeParts
    DEF BookType, CheckClient, Prepare, Infer, Persist, Complete
  <2>6. llm_request_counts' \in [TreeIds -> Nat]
    BY <1>3, <2>3, TypeParts
    DEF BookType, CheckClient, Prepare, Infer, Persist, Complete
  <2>7. BookType'
    BY <2>4, <2>5, <2>6, TypeParts DEF BookType
  <2>8. QED BY <2>2, <2>4, <2>7, PartsKept, TypeParts
<1>4. QED BY <1>1, <1>2, <1>3 DEF WorkerStep

LEMMA StopSteps ==
  ASSUME TypeOK, StopFlag \/ StopStep \/ MainStep
  PROVE  TypeOK'
<1>1. UNCHANGED <<queueVars, lobbyVars, clock, bookVars>>
  BY DEF StopFlag, StopStep, MainStep, StopNotifyWorkers, StopNotifyMain, MainTest,
         MainSleep, MainClose, MainJoin, MainReturn, MainGoes, bookVars
<1>2. worker' = worker \/ worker' = Woken(Asleep, worker)
  BY DEF StopFlag, StopStep, MainStep, StopNotifyWorkers, StopNotifyMain, MainTest,
         MainSleep, MainClose, MainJoin, MainReturn
<1>3. WorkerType'
  BY <1>2, PartsKept, WokenWorkers DEF Asleep
<1>4. StopType'
  BY TypeParts DEF StopType, StopFlag, StopStep, MainStep, StopNotifyWorkers,
     StopNotifyMain, MainTest, MainSleep, MainClose, MainJoin, MainReturn, MainGoes
<1>5. QED BY <1>1, <1>3, <1>4, PartsKept, TypeParts

LEMMA TickType ==
  ASSUME TypeOK, Tick
  PROVE  TypeOK'
<1>1. LobbyType'
  <2>1. clock' \in 0 .. MaxTime /\ 0 .. clock \subseteq 0 .. clock'
    BY SchedulerAssumption, TypeParts DEF LobbyType, Tick
  <2>2. QED BY <2>1, TypeParts DEF LobbyType, Tick, lobbyVars
<1>2. UNCHANGED <<queueVars, worker, bookVars, stopVars>>
  BY DEF Tick, bookVars
<1>3. QED BY <1>1, <1>2, PartsKept, TypeParts

LEMMA InitInv == Init => Inv
<1> SUFFICES ASSUME Init PROVE Inv
  OBVIOUS
<1>1. LobbyType
  BY SchedulerAssumption DEF Init, LobbyType, ClientPc
<1>2. QueueType
  BY DEF Init, QueueType, NoQueue, TreeQueue
<1>3. WorkerType
  BY DEF Init, WorkerType, Resting, Serving, WorkerPc, Holding
<1>4. BookType
  BY DEF Init, BookType, Ids
<1>5. StopType
  BY DEF Init, StopType
<1>6. QueueSound /\ ReadyIsListed
  BY DEF Init, QueueSound, ReadyIsListed, NoQueue
<1>7. KeyIsHeldOnce
  BY DEF Init, KeyIsHeldOnce, NoQueue, Serving, Resting, Holding
<1>8. QED BY <1>1, <1>2, <1>3, <1>4, <1>5, <1>6, <1>7, TypeParts DEF Inv

-----------------------------------------------------------------------------
(* A step is quiet, enqueues, pops a candidate or releases. *)

LEMMA StepKinds ==
  ASSUME TypeOK, [Next]_vars
  PROVE  \/ Quiet
         \/ \E r \in Requests : Enqueue(r)
         \/ \E w \in Workers : PopCandidate(w) \/ Release(w)
BY QuietSteps DEF Next, LobbyStep, WorkerStep

LEMMA NextType ==
  ASSUME TypeOK, [Next]_vars
  PROVE  TypeOK'
<1>1. CASE \E r \in Requests : ClientStep(r) \/ LobbyStep(r)
  BY <1>1, LobbySteps, EnqueueType DEF LobbyStep
<1>2. CASE \E w \in Workers : WorkerStep(w)
  BY <1>2, WorkerSteps
<1>3. CASE StopFlag \/ StopStep \/ MainStep
  BY <1>3, StopSteps
<1>4. CASE Tick
  BY <1>4, TickType
<1>5. CASE UNCHANGED vars
  <2>1. UNCHANGED <<queueVars, lobbyVars, clock, worker, bookVars, stopVars>>
    BY <1>5 DEF vars, bookVars
  <2>2. QED BY <2>1, PartsKept, TypeParts
<1>6. QED BY <1>1, <1>2, <1>3, <1>4, <1>5 DEF Next

LEMMA PopInv ==
  ASSUME Inv, NEW w \in Workers, PopCandidate(w)
  PROVE  QueueSound' /\ KeyIsHeldOnce' /\ ReadyIsListed'
<1>1. ~Serving(w)
  BY DEF PopCandidate, Serving, Holding
<1>2. PICK c \in ready_tree_queue :
        /\ ready_tree_queue' = ready_tree_queue \ {c}
        /\ IF Fits(c)
           THEN /\ tree_queues' = [tree_queues EXCEPT ![c.queue_key] =
                                     Taken(tree_queues[c.queue_key])]
                /\ worker' = [worker EXCEPT ![w] =
                                [pc |-> "check",
                                 req |-> Head(tree_queues[c.queue_key].requests)]]
           ELSE UNCHANGED <<tree_queues, worker>>
  BY DEF PopCandidate
<1>3. CASE Fits(c)
  BY <1>1, <1>2, <1>3, PopFitsInv
<1>4. CASE ~Fits(c)
  BY <1>2, <1>4, PopStaleInv
<1>5. QED BY <1>3, <1>4

LEMMA NextInv ==
  ASSUME Inv, [Next]_vars
  PROVE  Inv'
<1>1. TypeOK'
  BY NextType DEF Inv
<1>2. QueueSound' /\ KeyIsHeldOnce' /\ ReadyIsListed'
  BY StepKinds, QuietInv, EnqueueInv, PopInv, ReleaseInv DEF Inv
<1>3. QED BY <1>1, <1>2 DEF Inv

LEMMA Invariance == Spec => []Inv
BY InitInv, NextInv, PTL DEF Spec

-----------------------------------------------------------------------------
\* Every variable of the scheduler stays in its type, whatever the requests,
\* the number of threads and the order in which they run.
THEOREM TypeCorrect == Spec => []TypeOK
<1>1. Inv => TypeOK
  BY DEF Inv
<1>2. QED BY <1>1, Invariance, PTL

\* has_active_key is a lock: one worker at a time serves the requests of a key,
\* although versions restart and stale candidates stay in the heap.
THEOREM OneWorkerPerKey == Spec => []KeyIsHeldOnce
<1>1. Inv => KeyIsHeldOnce
  BY DEF Inv
<1>2. QED BY <1>1, Invariance, PTL

\* A queue that waits always has a candidate that pick_next_request takes: no
\* sequence of enqueue_tree_candidate_if_eligible, pick_next_request and
\* release_tree_key forgets a request.
THEOREM NoQueueForgotten == Spec => []ReadyIsListed
<1>1. Inv => ReadyIsListed
  BY DEF Inv
<1>2. QED BY <1>1, Invariance, PTL

-----------------------------------------------------------------------------
(* Who changes active_requests. *)

LEMMA OnlyLobbyMarks ==
  ASSUME [Next]_vars
  PROVE  \/ UNCHANGED active_requests
         \/ \E s \in Requests : mark_request_active(s)
         \/ \E s \in Requests : Answer(s)
<1>1. CASE \E s \in Requests : ClientStep(s) \/ LobbyStep(s)
  BY <1>1 DEF LobbyStep, ClientStep, Accept, HangUp, Receive, Adopt, Enqueue, Deliver, Expire
<1>2. CASE \E w \in Workers : WorkerStep(w)
  BY <1>2 DEF WorkerStep, TestPredicate, FallAsleep, PopCandidate, PickNothing,
              CheckClient, Prepare, Infer, Persist, Complete, Release
<1>3. CASE StopFlag \/ StopStep \/ MainStep \/ Tick \/ UNCHANGED vars
  BY <1>3 DEF StopFlag, StopStep, MainStep, StopNotifyWorkers, StopNotifyMain,
              MainTest, MainSleep, MainClose, MainJoin, MainReturn, MainGoes, Tick, vars
<1>4. QED BY <1>1, <1>2, <1>3 DEF Next

LEMMA OwnerClears ==
  ASSUME TypeOK, [Next]_vars, NEW r \in Requests,
         r.trace # None, active_requests[r.trace] = r.id,
         active_requests'[r.trace] = None
  PROVE  client'[r] = "done"
<1>1. None # r.id /\ r.trace \in Traces
  BY SchedulerAssumption DEF Traces
<1>2. active_requests \in [Traces -> Ids] /\ client \in [Requests -> ClientPc]
  BY TypeParts DEF BookType, LobbyType
<1>3. ASSUME NEW s \in Requests, mark_request_active(s) PROVE FALSE
  <2>1. None # s.id
    BY SchedulerAssumption
  <2>2. QED BY <1>1, <1>2, <1>3, <2>1 DEF mark_request_active
<1>4. ASSUME NEW s \in Requests, Answer(s) PROVE client'[r] = "done"
  <2>1. s.trace = r.trace /\ active_requests[s.trace] = s.id
    BY <1>1, <1>2, <1>4 DEF Answer, clear_request_if_current, is_request_current
  <2>2. s = r
    BY <2>1, SchedulerAssumption
  <2>3. QED BY <1>2, <1>4, <2>2 DEF Answer
<1>5. QED BY <1>1, <1>3, <1>4, OnlyLobbyMarks

\* A late attempt never clears the mark of the retry that superseded it:
\* clear_request_if_current only erases the entry of its own request.
THEOREM RetryKeepsMark == Spec => OnlyOwnerClears
<1>1. Inv /\ [Next]_vars =>
        [\A r \in Requests :
           /\ r.trace # None
           /\ active_requests[r.trace] = r.id
           /\ active_requests'[r.trace] = None
           => client'[r] = "done"]_vars
  BY OwnerClears DEF Inv
<1>2. QED BY <1>1, Invariance, PTL DEF Spec, OnlyOwnerClears

-----------------------------------------------------------------------------
(* A request that is current is with a lobby thread. *)

\* A connection that waits for a lobby thread waits once.
LobbySound ==
  /\ \A i \in 1 .. Len(lobby_tasks) : client[lobby_tasks[i]] = "queued"
  /\ \A i, j \in 1 .. Len(lobby_tasks) : lobby_tasks[i] = lobby_tasks[j] => i = j

LobbyInv == TypeOK /\ LobbySound /\ CurrentIsInLobby

\* What a step does to the lobby and to active_requests.
LEMMA LobbyKinds ==
  ASSUME [Next]_vars
  PROVE  \/ UNCHANGED <<lobby_tasks, client, active_requests>>
         \/ \E r \in Requests : ClientStep(r) \/ Adopt(r) \/ Enqueue(r) \/ Answer(r)
<1>1. CASE \E s \in Requests : ClientStep(s) \/ LobbyStep(s)
  BY <1>1 DEF LobbyStep, Deliver, Expire
<1>2. CASE \E w \in Workers : WorkerStep(w)
  BY <1>2 DEF WorkerStep, TestPredicate, FallAsleep, PopCandidate, PickNothing,
              CheckClient, Prepare, Infer, Persist, Complete, Release, lobbyVars
<1>3. CASE StopFlag \/ StopStep \/ MainStep \/ Tick \/ UNCHANGED vars
  BY <1>3 DEF StopFlag, StopStep, MainStep, StopNotifyWorkers, StopNotifyMain,
              MainTest, MainSleep, MainClose, MainJoin, MainReturn, MainGoes, Tick,
              vars, lobbyVars
<1>4. QED BY <1>1, <1>2, <1>3 DEF Next

LEMMA AcceptLobby ==
  ASSUME LobbyInv, NEW r \in Requests, Accept(r)
  PROVE  LobbySound' /\ CurrentIsInLobby'
<1> USE DEF LobbyInv
<1>1. lobby_tasks \in Seq(Requests) /\ client \in [Requests -> ClientPc]
  BY TypeParts DEF LobbyType
<1>2. \A i \in 1 .. Len(lobby_tasks) : lobby_tasks[i] # r /\ lobby_tasks[i] \in Requests
  BY <1>1 DEF LobbySound, Accept
<1>3. ASSUME lobby_tasks' = lobby_tasks, client' = [client EXCEPT ![r] = "done"]
      PROVE  LobbySound'
  <2>1. \A i \in 1 .. Len(lobby_tasks) : client'[lobby_tasks[i]] = client[lobby_tasks[i]]
    BY <1>1, <1>2, <1>3
  <2>2. QED BY <1>3, <2>1 DEF LobbySound
<1>4. ASSUME lobby_tasks' = Append(lobby_tasks, r),
             client' = [client EXCEPT ![r] = "queued"]
      PROVE  LobbySound'
  <2>1. /\ Len(lobby_tasks') = Len(lobby_tasks) + 1
        /\ lobby_tasks'[Len(lobby_tasks) + 1] = r
        /\ \A i \in 1 .. Len(lobby_tasks) : lobby_tasks'[i] = lobby_tasks[i]
        /\ Len(lobby_tasks) \in Nat
    BY <1>1, <1>4
  <2>2. \A i \in 1 .. Len(lobby_tasks') :
          i = Len(lobby_tasks) + 1 \/ i \in 1 .. Len(lobby_tasks)
    BY <2>1
  <2>3. \A i \in 1 .. Len(lobby_tasks) : client'[lobby_tasks[i]] = client[lobby_tasks[i]]
    BY <1>1, <1>2, <1>4
  <2>4. client'[r] = "queued"
    BY <1>1, <1>4
  <2>5. \A i \in 1 .. Len(lobby_tasks') : client'[lobby_tasks'[i]] = "queued"
    BY <2>1, <2>2, <2>3, <2>4 DEF LobbySound
  <2>6. \A i, j \in 1 .. Len(lobby_tasks') : lobby_tasks'[i] = lobby_tasks'[j] => i = j
    BY <1>2, <2>1, <2>2 DEF LobbySound
  <2>7. QED BY <2>5, <2>6 DEF LobbySound
<1>5. CurrentIsInLobby'
  <2>1. r \notin InLobby /\ InLobby \subseteq InLobby'
    BY <1>1 DEF Accept, InLobby
  <2>2. UNCHANGED active_requests
    BY DEF Accept
  <2>3. QED BY <2>1, <2>2 DEF CurrentIsInLobby
<1>6. QED BY <1>3, <1>4, <1>5 DEF Accept

LEMMA AdoptLobby ==
  ASSUME LobbyInv, NEW r \in Requests, Adopt(r)
  PROVE  LobbySound' /\ CurrentIsInLobby'
<1> USE DEF LobbyInv
<1>1. lobby_tasks \in Seq(Requests) /\ client \in [Requests -> ClientPc]
  BY TypeParts DEF LobbyType
<1>2. lobby_tasks # <<>> /\ r = Head(lobby_tasks) /\ lobby_tasks' = Tail(lobby_tasks)
  BY DEF Adopt
<1>3. /\ r = lobby_tasks[1] /\ 1 \in 1 .. Len(lobby_tasks)
      /\ Len(lobby_tasks') = Len(lobby_tasks) - 1
      /\ \A i \in 1 .. Len(lobby_tasks') : lobby_tasks'[i] = lobby_tasks[i + 1]
  BY <1>1, <1>2
<1>4. \A i \in 1 .. Len(lobby_tasks') : i + 1 \in 1 .. Len(lobby_tasks) /\ i + 1 # 1
  BY <1>1, <1>3
<1>5. \A i \in 1 .. Len(lobby_tasks') : lobby_tasks'[i] \in Requests \ {r}
  BY <1>1, <1>3, <1>4 DEF LobbySound
<1>6. \A s \in Requests \ {r} : client'[s] = client[s]
  BY <1>1 DEF Adopt
<1>7. LobbySound'
  <2>1. \A i \in 1 .. Len(lobby_tasks') : client'[lobby_tasks'[i]] = "queued"
    BY <1>3, <1>4, <1>5, <1>6 DEF LobbySound
  <2>2. ASSUME NEW i \in 1 .. Len(lobby_tasks'), NEW j \in 1 .. Len(lobby_tasks'),
               lobby_tasks'[i] = lobby_tasks'[j]
        PROVE  i = j
    <3>1. lobby_tasks[i + 1] = lobby_tasks[j + 1]
      BY <1>3, <2>2
    <3>2. i + 1 = j + 1
      BY <1>4, <3>1 DEF LobbySound
    <3>3. QED BY <3>2
  <2>3. QED BY <2>1, <2>2 DEF LobbySound
<1>8. client[r] = "queued"
  BY <1>3 DEF LobbySound
<1>9. InLobby \subseteq InLobby' /\ UNCHANGED active_requests
  BY <1>6, <1>8 DEF InLobby, Adopt
<1>10. CurrentIsInLobby'
  BY <1>9 DEF CurrentIsInLobby
<1>11. QED BY <1>7, <1>10

\* The client of a connection that has a thread sends its request or hangs up.
LEMMA ReceiveLobby ==
  ASSUME LobbyInv, NEW r \in Requests, Receive(r) \/ HangUp(r)
  PROVE  LobbySound' /\ CurrentIsInLobby'
<1> USE DEF LobbyInv
<1>1. /\ lobby_tasks \in Seq(Requests) /\ client \in [Requests -> ClientPc]
      /\ active_requests \in [Traces -> Ids]
  BY TypeParts DEF LobbyType, BookType
<1>2. client[r] = "reading" /\ UNCHANGED lobby_tasks
  BY DEF Receive, HangUp
<1>3. \A s \in Requests \ {r} : client'[s] = client[s]
  BY <1>1 DEF Receive, HangUp
<1>4. \A i \in 1 .. Len(lobby_tasks) : lobby_tasks[i] \in Requests \ {r}
  BY <1>1, <1>2 DEF LobbySound
<1>5. LobbySound'
  BY <1>2, <1>3, <1>4 DEF LobbySound
<1>6. InLobby \subseteq InLobby'
  BY <1>2, <1>3 DEF InLobby
<1>7. CurrentIsInLobby'
  <2>1. CASE Receive(r) /\ Wellformed(r)
    <3>1. r \in InLobby' /\ mark_request_active(r)
      BY <2>1, <1>1 DEF Receive, InLobby
    <3>2. \A t \in Traces :
            \/ active_requests'[t] = active_requests[t]
            \/ t = r.trace /\ active_requests'[t] = r.id
      BY <3>1, <1>1 DEF mark_request_active
    <3>3. QED BY <3>1, <3>2, <1>6 DEF CurrentIsInLobby
  <2>2. CASE HangUp(r) \/ ~Wellformed(r)
    <3>1. UNCHANGED active_requests
      BY <2>2 DEF Receive, HangUp
    <3>2. QED BY <3>1, <1>6 DEF CurrentIsInLobby
  <2>3. QED BY <2>1, <2>2
<1>8. QED BY <1>5, <1>7

LEMMA EnqueueLobby ==
  ASSUME LobbyInv, NEW r \in Requests, Enqueue(r)
  PROVE  LobbySound' /\ CurrentIsInLobby'
<1> USE DEF LobbyInv
<1>1. lobby_tasks \in Seq(Requests) /\ client \in [Requests -> ClientPc]
  BY TypeParts DEF LobbyType
<1>2. /\ client[r] = "marked" /\ client' = [client EXCEPT ![r] = "waiting"]
      /\ UNCHANGED <<lobby_tasks, active_requests>>
  BY DEF Enqueue
<1>3. InLobby' = InLobby
  BY <1>1, <1>2 DEF InLobby
<1>4. \A i \in 1 .. Len(lobby_tasks) : lobby_tasks[i] \in Requests \ {r}
  BY <1>1, <1>2 DEF LobbySound
<1>5. QED BY <1>1, <1>2, <1>3, <1>4 DEF LobbySound, CurrentIsInLobby

LEMMA AnswerLobby ==
  ASSUME LobbyInv, NEW r \in Requests, Answer(r)
  PROVE  LobbySound' /\ CurrentIsInLobby'
<1> USE DEF LobbyInv
<1>1. /\ lobby_tasks \in Seq(Requests) /\ client \in [Requests -> ClientPc]
      /\ active_requests \in [Traces -> Ids]
  BY TypeParts DEF LobbyType, BookType
<1>2. /\ client[r] = "waiting" /\ client' = [client EXCEPT ![r] = "done"]
      /\ UNCHANGED lobby_tasks /\ clear_request_if_current(r)
  BY DEF Answer
<1>3. \A i \in 1 .. Len(lobby_tasks) : lobby_tasks[i] \in Requests \ {r}
  BY <1>1, <1>2 DEF LobbySound
<1>4. LobbySound'
  BY <1>1, <1>2, <1>3 DEF LobbySound
<1>5. ASSUME NEW t \in Traces, active_requests'[t] # None
      PROVE  \E s \in InLobby' : s.trace = t /\ s.id = active_requests'[t]
  <2>1. /\ active_requests'[t] = active_requests[t]
        /\ t = r.trace => active_requests[t] # r.id
    BY <1>1, <1>2, <1>5 DEF clear_request_if_current, is_request_current, Traces
  <2>2. PICK s \in InLobby : s.trace = t /\ s.id = active_requests[t]
    BY <1>5, <2>1 DEF CurrentIsInLobby
  <2>3. s # r
    BY <2>1, <2>2
  <2>4. s \in InLobby'
    BY <1>1, <1>2, <2>3 DEF InLobby
  <2>5. QED BY <2>1, <2>2, <2>4
<1>6. QED BY <1>4, <1>5 DEF CurrentIsInLobby

\* active_requests does not leak: an entry exists only while the lobby thread
\* that made it, in handle_client_connection, is there to clear it.
THEOREM MarksDoNotLeak == Spec => []CurrentIsInLobby
<1>1. Init => LobbyInv
  <2> SUFFICES ASSUME Init PROVE LobbyInv
    OBVIOUS
  <2>1. LobbySound /\ CurrentIsInLobby
    BY DEF Init, LobbySound, CurrentIsInLobby
  <2>2. QED BY <2>1, InitInv DEF LobbyInv, Inv
<1>2. LobbyInv /\ [Next]_vars => LobbyInv'
  <2> SUFFICES ASSUME LobbyInv, [Next]_vars PROVE LobbyInv'
    OBVIOUS
  <2>1. TypeOK'
    BY NextType DEF LobbyInv
  <2>2. CASE UNCHANGED <<lobby_tasks, client, active_requests>>
    <3>1. LobbySound'
      BY <2>2 DEF LobbyInv, LobbySound
    <3>2. CurrentIsInLobby'
      BY <2>2 DEF LobbyInv, CurrentIsInLobby, InLobby
    <3>3. QED BY <2>1, <3>1, <3>2 DEF LobbyInv
  <2>3. CASE \E r \in Requests : ClientStep(r) \/ Adopt(r) \/ Enqueue(r) \/ Answer(r)
    BY <2>1, <2>3, AcceptLobby, ReceiveLobby, AdoptLobby, EnqueueLobby, AnswerLobby
    DEF LobbyInv, ClientStep
  <2>4. QED BY <2>2, <2>3, LobbyKinds
<1>3. LobbyInv => CurrentIsInLobby
  BY DEF LobbyInv
<1>4. QED BY <1>1, <1>2, <1>3, PTL DEF Spec

-----------------------------------------------------------------------------
(* No wakeup is lost. *)

\* A worker keeps queue_mutex while it pops candidates and until it sleeps, and
\* goes to sleep on an empty heap.
MutexSound ==
  \A w \in Workers :
    /\ worker[w].pc \in {"blocking", "pick"} => queue_mutex = w
    /\ worker[w].pc = "blocking" => ready_tree_queue = {}

WakeInv == TypeOK /\ MutexSound /\ SomeoneIsAwake

\* At least one call of notify_one, while workers sleep, wakes one.
LEMMA NotifyWakes ==
  ASSUME TypeOK, NEW k, NEW q, Asleep # {},
         NEW S \in Notified(1 + Cardinality(enqueue_tree_candidate_if_eligible(k, q)))
  PROVE  S # {}
<1> DEFINE n == Cardinality(enqueue_tree_candidate_if_eligible(k, q))
<1>1. n \in Nat
  <2> DEFINE P == enqueue_tree_candidate_if_eligible(k, q)
  <2>1. P = {} \/ \E c : P = {c}
    BY DEF enqueue_tree_candidate_if_eligible
  <2> HIDE DEF P
  <2>2. IsFiniteSet(P)
    BY <2>1, FS_EmptySet, FS_Singleton
  <2>3. QED BY <2>2, FS_CardinalityType DEF P
<1>2. IsFiniteSet(Asleep)
  BY SchedulerAssumption, FS_Subset DEF Asleep
<1>3. Cardinality(Asleep) \in Nat /\ Cardinality(Asleep) # 0
  BY <1>2, FS_CardinalityType, FS_EmptySet
<1> HIDE DEF n
<1>4. Cardinality(S) = IF Cardinality(Asleep) < 1 + n THEN Cardinality(Asleep) ELSE 1 + n
  BY DEF Notified, n
<1>5. Cardinality(S) # 0
  BY <1>1, <1>3, <1>4
<1>6. QED BY <1>5, FS_EmptySet

\* Nobody keeps queue_mutex and workers are woken: the invariant holds whatever
\* is pushed, as long as somebody is awake.
LEMMA PushWake ==
  ASSUME WakeInv, MutexFree, UNCHANGED queue_mutex,
         NEW S \in SUBSET Workers, worker' = Woken(S, worker),
         S # {} \/ \E w \in Workers : worker[w].pc # "blocked"
  PROVE  MutexSound' /\ SomeoneIsAwake'
<1>1. \A w \in Workers : worker'[w] = IF w \in S THEN Resting("wait") ELSE worker[w]
  BY DEF Woken
<1>2. \A w \in Workers : worker'[w].pc = IF w \in S THEN "wait" ELSE worker[w].pc
  BY <1>1 DEF Resting
<1>3. \A w \in Workers : worker[w].pc \notin {"blocking", "pick"}
  BY NoneIsNoWorker DEF WakeInv, MutexSound, MutexFree
<1>4. MutexSound'
  BY <1>2, <1>3 DEF MutexSound
<1>5. SomeoneIsAwake'
  BY <1>2 DEF SomeoneIsAwake
<1>6. QED BY <1>4, <1>5

\* A step of one worker that leaves it awake, and queue_mutex with it or free.
LEMMA WorkerWake ==
  ASSUME WakeInv, NEW w \in Workers,
         \A v \in Workers \ {w} : worker'[v] = worker[v],
         ready_tree_queue' \subseteq ready_tree_queue,
         worker'[w].pc # "blocked" \/ ready_tree_queue' = {},
         worker'[w].pc \in {"blocking", "pick"} => queue_mutex' = w,
         worker'[w].pc = "blocking" => ready_tree_queue' = {},
         queue_mutex' = queue_mutex \/ queue_mutex \in {w, None}
  PROVE  MutexSound' /\ SomeoneIsAwake'
<1>1. MutexSound'
  <2> SUFFICES ASSUME NEW v \in Workers
               PROVE  /\ worker'[v].pc \in {"blocking", "pick"} => queue_mutex' = v
                      /\ worker'[v].pc = "blocking" => ready_tree_queue' = {}
    BY DEF MutexSound
  <2>1. CASE v = w
    BY <2>1
  <2>2. CASE v # w
    BY <2>2, NoneIsNoWorker DEF WakeInv, MutexSound
  <2>3. QED BY <2>1, <2>2
<1>2. SomeoneIsAwake'
  BY DEF SomeoneIsAwake
<1>3. QED BY <1>1, <1>2

LEMMA WorkerStepWakes ==
  ASSUME WakeInv, NEW w \in Workers, WorkerStep(w)
  PROVE  MutexSound' /\ SomeoneIsAwake'
<1>1. worker \in [Workers -> [pc : WorkerPc, req : Requests \cup {None}]]
  BY TypeParts DEF WakeInv, WorkerType
<1>2. worker[w].pc \in {"blocking", "pick"} => queue_mutex = w
  BY DEF WakeInv, MutexSound
<1>3. CASE TestPredicate(w)
  <2>1. PICK pc \in {"exited", "pick", "blocking"} :
          /\ worker' = [worker EXCEPT ![w] = Resting(pc)]
          /\ queue_mutex' = IF pc = "exited" THEN None ELSE w
          /\ pc = "blocking" => ready_tree_queue = {}
    BY <1>3 DEF TestPredicate
  <2>2. worker'[w].pc = pc /\ \A v \in Workers \ {w} : worker'[v] = worker[v]
    BY <1>1, <2>1 DEF Resting
  <2>3. queue_mutex = None /\ UNCHANGED ready_tree_queue
    BY <1>3 DEF TestPredicate, MutexFree, queueVars
  <2>4. QED BY <2>1, <2>2, <2>3, WorkerWake
<1>4. CASE FallAsleep(w) \/ PickNothing(w)
  <2>1. /\ \E pc \in {"blocked", "wait"} : worker' = [worker EXCEPT ![w] = Resting(pc)]
        /\ queue_mutex' = None /\ UNCHANGED ready_tree_queue
        /\ worker[w].pc \in {"blocking", "pick"}
    BY <1>4 DEF FallAsleep, PickNothing, queueVars
  <2>2. /\ worker'[w].pc \in {"blocked", "wait"}
        /\ \A v \in Workers \ {w} : worker'[v] = worker[v]
    BY <1>1, <2>1 DEF Resting
  <2>3. ready_tree_queue = {}
    BY <1>4 DEF FallAsleep, PickNothing, WakeInv, MutexSound
  <2>4. QED BY <1>2, <2>1, <2>2, <2>3, WorkerWake
<1>5. CASE PopCandidate(w)
  <2>1. /\ worker[w].pc = "pick"
        /\ ready_tree_queue' \subseteq ready_tree_queue
        /\ \/ UNCHANGED <<worker, queue_mutex>>
           \/ \E r : worker' = [worker EXCEPT ![w] = [pc |-> "check", req |-> r]]
    BY <1>5 DEF PopCandidate
  <2>2. \/ UNCHANGED <<worker, queue_mutex>>
        \/ worker'[w].pc = "check" /\ \A v \in Workers \ {w} : worker'[v] = worker[v]
    BY <1>1, <2>1
  <2>3. QED BY <1>2, <2>1, <2>2, WorkerWake
<1>6. CASE CheckClient(w) \/ Prepare(w) \/ Infer(w) \/ Persist(w) \/ Complete(w)
  <2>1. /\ \E pc \in Holding : worker' = [worker EXCEPT ![w].pc = pc]
        /\ UNCHANGED <<ready_tree_queue, queue_mutex>>
    BY <1>6 DEF CheckClient, Prepare, Infer, Persist, Complete, Proceed, Holding, queueVars
  <2>2. worker'[w].pc \in Holding /\ \A v \in Workers \ {w} : worker'[v] = worker[v]
    BY <1>1, <2>1
  <2>3. QED BY <2>1, <2>2, WorkerWake DEF Holding
<1>7. CASE Release(w)
  <2>1. PICK S \in SUBSET Asleep : worker' = Woken(S \cup {w}, worker)
    BY <1>7 DEF Release, Notified
  <2>2. S \cup {w} \in SUBSET Workers /\ MutexFree /\ UNCHANGED queue_mutex
    BY <1>7 DEF Release, Asleep
  <2>3. QED BY <2>1, <2>2, PushWake
<1>8. QED BY <1>3, <1>4, <1>5, <1>6, <1>7 DEF WorkerStep

LEMMA EnqueueWakes ==
  ASSUME WakeInv, NEW r \in Requests, Enqueue(r)
  PROVE  MutexSound' /\ SomeoneIsAwake'
<1> DEFINE k == queue_key(r)
           q == Pushed(tree_queues[k], r)
<1>1. PICK S \in Notified(1 + Cardinality(enqueue_tree_candidate_if_eligible(k, q))) :
        worker' = Woken(S, worker)
  BY DEF Enqueue
<1>2. Asleep # {} => S # {}
  BY <1>1, NotifyWakes DEF WakeInv
<1> HIDE DEF k, q
<1>3. S \in SUBSET Workers
  BY DEF Notified, Asleep
<1>4. S # {} \/ \E w \in Workers : worker[w].pc # "blocked"
  BY <1>2, SchedulerAssumption DEF Asleep
<1>5. MutexFree /\ UNCHANGED queue_mutex
  BY DEF Enqueue
<1>6. QED BY <1>1, <1>3, <1>4, <1>5, PushWake

\* Waking every worker that sleeps, at shutdown.
LEMMA NotifyAllWakes ==
  ASSUME WakeInv, UNCHANGED <<ready_tree_queue, queue_mutex>>,
         worker' = worker \/ worker' = Woken(Asleep, worker)
  PROVE  MutexSound' /\ SomeoneIsAwake'
<1>1. CASE worker' = worker
  BY <1>1 DEF WakeInv, MutexSound, SomeoneIsAwake
<1>2. CASE worker' = Woken(Asleep, worker)
  <2>1. \A w \in Workers : worker'[w].pc = IF w \in Asleep THEN "wait" ELSE worker[w].pc
    BY <1>2 DEF Woken, Resting
  <2>2. QED BY <2>1 DEF WakeInv, MutexSound, SomeoneIsAwake
<1>3. QED BY <1>1, <1>2

\* No wakeup of queue_cv is lost: the workers never all sleep on a heap that is
\* not empty, whatever the interleaving of their waits with the notify_one calls
\* of the lobby and of the workers.
THEOREM NoLostWakeup == Spec => []SomeoneIsAwake
<1>1. Init => WakeInv
  <2> SUFFICES ASSUME Init PROVE WakeInv
    OBVIOUS
  <2>1. MutexSound /\ SomeoneIsAwake
    BY DEF Init, MutexSound, SomeoneIsAwake, Resting
  <2>2. QED BY <2>1, InitInv DEF WakeInv, Inv
<1>2. WakeInv /\ [Next]_vars => WakeInv'
  <2> SUFFICES ASSUME WakeInv, [Next]_vars PROVE WakeInv'
    OBVIOUS
  <2>1. TypeOK'
    BY NextType DEF WakeInv
  <2>2. MutexSound' /\ SomeoneIsAwake'
    <3>1. CASE \E r \in Requests : Enqueue(r)
      BY <3>1, EnqueueWakes
    <3>2. CASE \E w \in Workers : WorkerStep(w)
      BY <3>2, WorkerStepWakes
    <3>3. CASE \E r \in Requests : ClientStep(r) \/ Adopt(r) \/ Deliver(r) \/ Expire(r)
      BY <3>3, NotifyAllWakes
      DEF ClientStep, Accept, HangUp, Receive, Adopt, Deliver, Expire, Answer, queueVars
    <3>4. CASE StopFlag \/ StopStep \/ MainStep \/ Tick \/ UNCHANGED vars
      BY <3>4, NotifyAllWakes
      DEF StopFlag, StopStep, MainStep, StopNotifyWorkers, StopNotifyMain, MainTest,
          MainSleep, MainClose, MainJoin, MainReturn, MainGoes, Tick, vars, queueVars
    <3>5. QED BY <3>1, <3>2, <3>3, <3>4 DEF Next, LobbyStep
  <2>3. QED BY <2>1, <2>2 DEF WakeInv
<1>3. WakeInv => SomeoneIsAwake
  BY DEF WakeInv
<1>4. QED BY <1>1, <1>2, <1>3, PTL DEF Spec

-----------------------------------------------------------------------------
(* The scheduler implements KeyedQueue. *)

absQueue == [k \in Keys |-> tree_queues[k].requests]
absRunning == {worker[w].req : w \in {v \in Workers : Serving(v)}}

LEMMA SameRunning ==
  ASSUME SameService
  PROVE  absRunning' = absRunning
<1>1. \A r : r \in absRunning <=> \E w \in Workers : Serving(w) /\ r = worker[w].req
  BY DEF absRunning
<1>2. \A r : r \in absRunning' <=> \E w \in Workers : Serving(w)' /\ r = worker'[w].req
  BY DEF absRunning
<1>3. QED BY <1>1, <1>2 DEF SameService

\* A step that changes one queue changes one queue of the abstract state.
LEMMA OneQueue ==
  ASSUME TypeOK, NEW k \in Keys, NEW q, tree_queues' = [tree_queues EXCEPT ![k] = q]
  PROVE  absQueue' = [absQueue EXCEPT ![k] = q.requests]
BY DEF TypeOK, absQueue

LEMMA EnqueueIsSubmit ==
  ASSUME Inv, NEW r \in Requests, Enqueue(r)
  PROVE  Abstract!Submit(r)
<1> DEFINE k == queue_key(r)
           q == Pushed(tree_queues[k], r)
<1>1. k \in Keys /\ tree_queues' = [tree_queues EXCEPT ![k] = q]
  BY KeyOfRequest DEF Enqueue
<1>2. tree_queues[k] \in TreeQueue
  BY <1>1 DEF Inv, TypeOK
<1>3. q.requests = Append(tree_queues[k].requests, r)
  BY <1>2 DEF Pushed, TreeQueue
<1>4. absQueue[k] = tree_queues[k].requests
  BY <1>1 DEF absQueue
<1> HIDE DEF k, q
<1>5. absQueue' = [absQueue EXCEPT ![k] = Append(absQueue[k], r)]
  BY <1>1, <1>3, <1>4, OneQueue DEF Inv
<1>6. absRunning' = absRunning
  BY EnqueueInv, SameRunning
<1>7. QED BY <1>5, <1>6 DEF Abstract!Submit, absQueue, absRunning, k

LEMMA PopIsStart ==
  ASSUME Inv, NEW w \in Workers, PopCandidate(w)
  PROVE  \/ \E k \in Keys : Abstract!Start(k)
         \/ UNCHANGED <<absQueue, absRunning>>
<1>1. ~Serving(w)
  BY DEF PopCandidate, Serving, Holding
<1>2. PICK c \in ready_tree_queue :
        IF Fits(c)
        THEN /\ tree_queues' = [tree_queues EXCEPT ![c.queue_key] =
                                  Taken(tree_queues[c.queue_key])]
             /\ worker' = [worker EXCEPT ![w] =
                             [pc |-> "check",
                              req |-> Head(tree_queues[c.queue_key].requests)]]
        ELSE UNCHANGED <<tree_queues, worker>>
  BY DEF PopCandidate
<1>3. CASE ~Fits(c)
  BY <1>2, <1>3 DEF absQueue, absRunning, Serving
<1>4. CASE Fits(c)
  <2> DEFINE k == c.queue_key
             s == tree_queues[k].requests
  <2>1. k \in Keys /\ s # <<>> /\ ~tree_queues[k].has_active_key
    BY <1>4 DEF Inv, TypeOK, TreeCandidate, Fits
  <2>2. absQueue[k] = s
    BY <2>1 DEF absQueue
  <2>3. absQueue' = [absQueue EXCEPT ![k] = Tail(absQueue[k])]
    <3>1. Taken(tree_queues[k]).requests = Tail(s)
      BY DEF Taken
    <3>2. tree_queues' = [tree_queues EXCEPT ![k] = Taken(tree_queues[k])]
      BY <1>2, <1>4
    <3> HIDE DEF k, s
    <3>3. QED BY <3>1, <3>2, <2>1, <2>2, OneQueue DEF Inv
  <2>4. \A r \in absRunning : queue_key(r) # k
    BY <2>1 DEF Inv, KeyIsHeldOnce, absRunning
  <2>5. absRunning' = absRunning \cup {Head(s)}
    <3>1. /\ Serving(w)' /\ worker'[w].req = Head(s)
          /\ \A v \in Workers \ {w} : worker'[v] = worker[v]
      BY <1>2, <1>4 DEF Inv, TypeOK, Serving, Holding
    <3>2. \A v \in Workers \ {w} : Serving(v)' <=> Serving(v)
      BY <3>1 DEF Serving
    <3> HIDE DEF s
    <3>3. QED BY <1>1, <3>1, <3>2 DEF absRunning
  <2> HIDE DEF k, s
  <2>6. Abstract!Start(k)
    BY <2>1, <2>2, <2>3, <2>4, <2>5 DEF Abstract!Start, absQueue, absRunning
  <2>7. QED BY <2>1, <2>6
<1>5. QED BY <1>3, <1>4

LEMMA ReleaseIsFinish ==
  ASSUME Inv, NEW w \in Workers, Release(w)
  PROVE  \E r \in Requests : Abstract!Finish(r)
<1>0. Serving(w) /\ worker[w].req \in Requests
  BY DEF Inv, TypeOK, Release, Serving, Holding
<1> PICK r \in Requests : r = worker[w].req
  BY <1>0
<1> DEFINE k == queue_key(r)
           q == [tree_queues[k] EXCEPT !.has_active_key = FALSE, !.version = @ + 1]
           n == IF q.requests = <<>> THEN NoQueue ELSE q
<1>1. Serving(w) /\ k \in Keys
  BY <1>0, KeyOfRequest
<1>2. tree_queues[k] \in TreeQueue
  BY <1>1 DEF Inv, TypeOK
<1>3. q.requests = tree_queues[k].requests
  BY <1>2 DEF TreeQueue
<1>4. n.requests = tree_queues[k].requests
  BY <1>3 DEF NoQueue
<1>5. /\ tree_queues' = [tree_queues EXCEPT ![k] = n]
      /\ \E S \in SUBSET Asleep : worker' = Woken(S \cup {w}, worker)
  BY DEF Release, Notified
<1> HIDE DEF k, q, n
<1>6. absQueue' = absQueue
  BY <1>1, <1>4, <1>5, OneQueue DEF Inv, absQueue
<1>7. /\ ~Serving(w)'
      /\ \A v \in Workers \ {w} :
           /\ Serving(v)' <=> Serving(v)
           /\ Serving(v) => worker'[v].req = worker[v].req
  BY <1>5, ReleasedService DEF Inv
<1>8. \A v \in Workers \ {w} : Serving(v) => worker[v].req # r
  BY <1>1 DEF Inv, KeyIsHeldOnce
<1>9. absRunning' = absRunning \ {r} /\ r \in absRunning
  BY <1>1, <1>7, <1>8 DEF absRunning
<1>10. Abstract!Finish(r)
  BY <1>6, <1>9 DEF Abstract!Finish, absQueue, absRunning
<1>11. QED BY <1>10

\* The scheduler with its heap of versioned candidates, its worker threads and
\* its wakeups implements the keyed queue: per key one request at a time, in
\* order of arrival.
THEOREM Refinement == Spec => ServesInOrder
<1>1. Init => Abstract!Init
  <2> SUFFICES ASSUME Init PROVE Abstract!Init
    OBVIOUS
  <2>1. absQueue = [k \in Keys |-> <<>>]
    BY DEF Init, absQueue, NoQueue
  <2>2. absRunning = {}
    BY DEF Init, absRunning, Serving, Resting, Holding
  <2>3. QED BY <2>1, <2>2 DEF Abstract!Init, absQueue, absRunning
<1>2. Inv /\ [Next]_vars => [Abstract!Next]_<<absQueue, absRunning>>
  <2> SUFFICES ASSUME Inv, [Next]_vars
               PROVE  Abstract!Next \/ UNCHANGED <<absQueue, absRunning>>
    OBVIOUS
  <2>1. CASE Quiet
    BY <2>1, SameRunning DEF Quiet, queueVars, absQueue
  <2>2. CASE \E r \in Requests : Enqueue(r)
    BY <2>2, EnqueueIsSubmit DEF Abstract!Next
  <2>3. CASE \E w \in Workers : PopCandidate(w)
    BY <2>3, PopIsStart DEF Abstract!Next
  <2>4. CASE \E w \in Workers : Release(w)
    BY <2>4, ReleaseIsFinish DEF Abstract!Next
  <2>5. QED BY <2>1, <2>2, <2>3, <2>4, StepKinds DEF Inv
<1>3. QED BY <1>1, <1>2, Invariance, PTL
          DEF Spec, ServesInOrder, Abstract!Spec, absQueue, absRunning
=============================================================================
