------------------------------ MODULE Scheduler ------------------------------
(***************************************************************************)
(* The LLM scheduler (llm/scheduler.cpp): lobby threads that take client   *)
(* requests and wait for their answers, the per-key request queues, the    *)
(* heap of ready queues, the worker threads, and the shutdown.             *)
(*                                                                         *)
(* A step is what a thread does in one critical section of queue_mutex or  *)
(* trace_mutex, or between two waits.  queue_mutex itself is a variable,   *)
(* because a worker keeps it while it pops stale candidates and between    *)
(* the test of its wait predicate and falling asleep on queue_cv.          *)
(*                                                                         *)
(* A request is a record of what the scheduler tells requests apart by; a  *)
(* queue that is not in tree_queues is NoQueue.  What a response says (ok, *)
(* cancelled, an error) is left out, that there is one is not.  An         *)
(* operator marked (defect) is a plausible wrong version of the one after  *)
(* it; nothing uses it.                                                    *)
(***************************************************************************)
EXTENDS Integers, Sequences, FiniteSets

CONSTANTS
  Requests,      \* the requests clients may send, as records
  Workers,       \* the max_llm_keys worker threads
  LobbyThreads,  \* max_client_threads
  Capacity,      \* tasks that may wait for a lobby thread
  MaxTime,       \* bound on the clock, in the 5000 ms of one priority point
  MayStop,       \* whether the scheduler is asked to stop
  None           \* an empty string, a missing entry, an unset promise

Modes == {"simple", "conversation", "user_conversation"}

\* TREE_HANDLER is the tree of the chat handler.
HandlerTree == "TREE_HANDLER"

ASSUME SchedulerAssumption ==
  /\ Workers # {} /\ IsFiniteSet(Workers)
  /\ LobbyThreads \in Nat \ {0}
  /\ Capacity \in Nat
  /\ MaxTime \in Nat
  /\ MayStop \in BOOLEAN
  /\ None \notin Workers /\ None \notin Requests
  /\ \A r \in Requests : None # r.id
  /\ \A r \in Requests :
       /\ DOMAIN r = {"id", "trace", "tree", "mode", "user", "convo", "priority"}
       /\ r.mode \in Modes
       /\ r.priority \in Nat
  /\ \A r, s \in Requests : r.id = s.id => r = s

VARIABLES
  lobby_tasks,        \* accepted connections waiting for a lobby thread
  client,             \* where the lobby thread of a request is
  enqueued_at,        \* the time the request was parsed
  completed,          \* requests whose promise has its value
  active_requests,    \* trace id -> the request that is current for it
  tree_queues,        \* queue key -> TreeQueue
  ready_tree_queue,   \* the heap of TreeCandidates
  lives,              \* queue key -> how often its queue was erased
  queue_mutex,        \* the worker that keeps it between steps, or None
  worker,             \* worker -> where it is and the request it serves
  llm_request_counts, \* tree id -> requests whose processing began
  saved,              \* requests whose assistant turn was persisted
  clock,              \* steady_clock::now()
  shutting_down,
  stop_pc,            \* the thread in stop_scheduler() or the signal handler
  main_pc             \* the thread in start_scheduler()

queueVars == <<tree_queues, ready_tree_queue, lives>>
lobbyVars == <<lobby_tasks, client, enqueued_at>>
stopVars == <<shutting_down, stop_pc, main_pc>>
vars == <<queueVars, lobbyVars, completed, active_requests, queue_mutex, worker,
          llm_request_counts, saved, clock, stopVars>>

-----------------------------------------------------------------------------
\* The queue key chosen by parse_request_payload: users of the handler are
\* served in parallel, every other tree holds one LLM key.
queue_key(r) ==
  IF r.tree = HandlerTree /\ r.mode = "user_conversation" /\ r.user # None
  THEN <<"user", r.user>> ELSE <<"tree", r.tree>>

Keys == {queue_key(r) : r \in Requests}
Traces == {r.trace : r \in Requests} \ {None}
TreeIds == {r.tree : r \in Requests}
Conversational(r) == r.mode \in {"conversation", "user_conversation"}

\* The other checks of parse_request_payload; it throws when they fail.
Wellformed(r) ==
  CASE r.mode = "simple" -> r.convo = None /\ r.user = None
    [] r.mode = "conversation" -> r.user = None
    [] r.mode = "user_conversation" -> r.user # None

NoQueue == [requests |-> <<>>, has_active_key |-> FALSE, version |-> 0]

\* version is what pick_next_request compares; life tells apart the entries of
\* a heap whose versions are equal (they restart when a queue is erased).
Candidate(k, score, version) ==
  [queue_key |-> k, score |-> score, version |-> version, life |-> lives[k]]

effective_tree_priority(r) == r.priority + (clock - enqueued_at[r])

\* (defect) A queue that already had requests is taken to be in the heap.
enqueue_tree_candidate_if_first(k, q) ==
  IF q.has_active_key \/ Len(q.requests) # 1 THEN {}
  ELSE {Candidate(k, effective_tree_priority(Head(q.requests)), q.version)}

\* What is pushed on the heap for queue q of key k.
enqueue_tree_candidate_if_eligible(k, q) ==
  IF q.has_active_key \/ q.requests = <<>> THEN {}
  ELSE {Candidate(k, effective_tree_priority(Head(q.requests)), q.version)}

\* (defect) The new request goes to the front of its queue.
PushedFront(q, r) == [q EXCEPT !.requests = <<r>> \o @, !.version = @ + 1]

\* A queue after push_back, and after its front was taken by a worker.
Pushed(q, r) == [q EXCEPT !.requests = Append(@, r), !.version = @ + 1]

\* (defect) The key is not marked as held.
TakenUnmarked(q) == [q EXCEPT !.requests = Tail(@), !.version = @ + 1]

Taken(q) == [requests |-> Tail(q.requests), has_active_key |-> TRUE,
             version |-> q.version + 1]

\* Worker stages; those in Holding have picked a request and not released it.
Holding == {"check", "prepare", "infer", "persist", "complete", "release"}
WorkerPc == Holding \cup {"wait", "blocking", "blocked", "pick", "exited"}
Resting(pc) == [pc |-> pc, req |-> None]
Serving(w) == worker[w].pc \in Holding

MutexFree == queue_mutex = None

Init ==
  /\ lobby_tasks = <<>>
  /\ client = [r \in Requests |-> "none"]
  /\ enqueued_at = [r \in Requests |-> 0]
  /\ completed = {}
  /\ active_requests = [t \in Traces |-> None]
  /\ tree_queues = [k \in Keys |-> NoQueue]
  /\ ready_tree_queue = {}
  /\ lives = [k \in Keys |-> 0]
  /\ queue_mutex = None
  /\ worker = [w \in Workers |-> Resting("wait")]
  /\ llm_request_counts = [t \in TreeIds |-> 0]
  /\ saved = {}
  /\ clock = 0
  /\ shutting_down = FALSE
  /\ stop_pc = "none"
  /\ main_pc = "check"

-----------------------------------------------------------------------------
(* active_requests, under trace_mutex. *)

mark_request_active(r) ==
  active_requests' = IF r.trace = None THEN active_requests
                     ELSE [active_requests EXCEPT ![r.trace] = r.id]

is_request_current(r) == r.trace # None => active_requests[r.trace] = r.id

\* (defect) The entry is erased whoever it belongs to.
clear_request(r) ==
  active_requests' = IF r.trace # None
                     THEN [active_requests EXCEPT ![r.trace] = None]
                     ELSE active_requests

clear_request_if_current(r) ==
  active_requests' = IF r.trace # None /\ is_request_current(r)
                     THEN [active_requests EXCEPT ![r.trace] = None]
                     ELSE active_requests

-----------------------------------------------------------------------------
(* queue_cv *)

Asleep == {w \in Workers : worker[w].pc = "blocked"}

\* n calls of notify_one; the workers that wake reacquire queue_mutex later.
Notified(n) ==
  {S \in SUBSET Asleep : Cardinality(S) = IF Cardinality(Asleep) < n
                                          THEN Cardinality(Asleep) ELSE n}
Woken(S, table) == [w \in Workers |-> IF w \in S THEN Resting("wait") ELSE table[w]]

-----------------------------------------------------------------------------
(* handle_client_connection, on a thread of lobby_pool. *)

InLobby == {r \in Requests : client[r] \in {"marked", "waiting"}}
\* The connections that have a lobby thread.
OnThread == {r \in Requests : client[r] = "reading"} \cup InLobby

\* The accept handler: try_submit, or the load is shed with an error.
Accept(r) ==
  /\ client[r] = "none"
  /\ ~shutting_down
  /\ IF Len(lobby_tasks) >= Capacity
     THEN /\ client' = [client EXCEPT ![r] = "done"]
          /\ UNCHANGED lobby_tasks
     ELSE /\ lobby_tasks' = Append(lobby_tasks, r)
          /\ client' = [client EXCEPT ![r] = "queued"]
  /\ UNCHANGED <<queueVars, enqueued_at, completed, active_requests, queue_mutex,
                 worker, llm_request_counts, saved, clock, stopVars>>

\* A lobby thread turns to the connection and reads from it, without a time
\* limit: it is held until the client sends its request or hangs up.
Adopt(r) ==
  /\ lobby_tasks # <<>> /\ Head(lobby_tasks) = r
  /\ Cardinality(OnThread) < LobbyThreads
  /\ lobby_tasks' = Tail(lobby_tasks)
  /\ client' = [client EXCEPT ![r] = "reading"]
  /\ UNCHANGED <<queueVars, enqueued_at, completed, active_requests, queue_mutex,
                 worker, llm_request_counts, saved, clock, stopVars>>

\* The client closes the connection instead.
HangUp(r) ==
  /\ client[r] = "reading"
  /\ client' = [client EXCEPT ![r] = "done"]
  /\ UNCHANGED <<queueVars, lobby_tasks, enqueued_at, completed, active_requests,
                 queue_mutex, worker, llm_request_counts, saved, clock, stopVars>>

\* The request is there: parse_request_payload, which may refuse it, and
\* mark_request_active.
Receive(r) ==
  /\ client[r] = "reading"
  /\ IF Wellformed(r)
     THEN /\ client' = [client EXCEPT ![r] = "marked"]
          /\ enqueued_at' = [enqueued_at EXCEPT ![r] = clock]
          /\ mark_request_active(r)
     ELSE /\ client' = [client EXCEPT ![r] = "done"]
          /\ UNCHANGED <<enqueued_at, active_requests>>
  /\ UNCHANGED <<queueVars, lobby_tasks, completed, queue_mutex, worker,
                 llm_request_counts, saved, clock, stopVars>>

\* push_back, ++version, enqueue_tree_candidate_if_eligible, notify_one.
Enqueue(r) ==
  LET k == queue_key(r)
      q == Pushed(tree_queues[k], r)
      pushed == enqueue_tree_candidate_if_eligible(k, q)
  IN  /\ client[r] = "marked"
      /\ MutexFree
      /\ tree_queues' = [tree_queues EXCEPT ![k] = q]
      /\ ready_tree_queue' = ready_tree_queue \cup pushed
      /\ client' = [client EXCEPT ![r] = "waiting"]
      /\ \E S \in Notified(1 + Cardinality(pushed)) : worker' = Woken(S, worker)
      /\ UNCHANGED <<lives, lobby_tasks, enqueued_at, completed, active_requests,
                     queue_mutex, llm_request_counts, saved, clock, stopVars>>

\* The future is ready and the response is sent, or the client is gone, or the
\* deadline of wait_for passed and an error is sent: the request ends the same.
Answer(r) ==
  /\ client[r] = "waiting"
  /\ clear_request_if_current(r)
  /\ client' = [client EXCEPT ![r] = "done"]
  /\ UNCHANGED <<queueVars, lobby_tasks, enqueued_at, completed, queue_mutex,
                 worker, llm_request_counts, saved, clock, stopVars>>

Deliver(r) == r \in completed /\ Answer(r)

\* (defect) The request of a client that gave up stays the current one.
ExpireMarked(r) ==
  /\ client[r] = "waiting" /\ r \notin completed
  /\ client' = [client EXCEPT ![r] = "done"]
  /\ UNCHANGED <<queueVars, lobby_tasks, enqueued_at, completed, active_requests,
                 queue_mutex, worker, llm_request_counts, saved, clock, stopVars>>

\* (defect) The wait has no deadline.
ExpireNever(r) == r \in completed /\ Answer(r)

Expire(r) == r \notin completed /\ Answer(r)

-----------------------------------------------------------------------------
(* worker_loop *)

\* (defect) queue_mutex is not kept until the worker sleeps.
TestUnlocked(w) ==
  /\ worker[w].pc = "wait"
  /\ MutexFree
  /\ LET pc == CASE shutting_down -> "exited"
                 [] ~shutting_down /\ ready_tree_queue # {} -> "pick"
                 [] OTHER -> "blocking"
     IN  /\ worker' = [worker EXCEPT ![w] = Resting(pc)]
         /\ queue_mutex' = IF pc = "pick" THEN w ELSE None
  /\ UNCHANGED <<queueVars, lobbyVars, completed, active_requests,
                 llm_request_counts, saved, clock, stopVars>>

\* queue_cv.wait: the predicate is tested with queue_mutex held.
TestPredicate(w) ==
  /\ worker[w].pc = "wait"
  /\ MutexFree
  /\ LET pc == CASE shutting_down -> "exited"
                 [] ~shutting_down /\ ready_tree_queue # {} -> "pick"
                 [] OTHER -> "blocking"
     IN  /\ worker' = [worker EXCEPT ![w] = Resting(pc)]
         /\ queue_mutex' = IF pc = "exited" THEN None ELSE w
  /\ UNCHANGED <<queueVars, lobbyVars, completed, active_requests,
                 llm_request_counts, saved, clock, stopVars>>

\* The predicate was false: queue_mutex is released and the worker sleeps.
FallAsleep(w) ==
  /\ worker[w].pc = "blocking"
  /\ worker' = [worker EXCEPT ![w] = Resting("blocked")]
  /\ queue_mutex' = None
  /\ UNCHANGED <<queueVars, lobbyVars, completed, active_requests,
                 llm_request_counts, saved, clock, stopVars>>

\* One iteration of pick_next_request: the top candidate is popped and, unless
\* it is stale, the front request of its queue is taken.
Fits(c) ==
  LET q == tree_queues[c.queue_key]
  IN  /\ q.version = c.version
      /\ ~q.has_active_key
      /\ q.requests # <<>>

IsTop(c) == \A d \in ready_tree_queue : d.score <= c.score

PopCandidate(w) ==
  /\ worker[w].pc = "pick"
  /\ \E c \in ready_tree_queue :
       /\ IsTop(c)
       /\ ready_tree_queue' = ready_tree_queue \ {c}
       /\ IF Fits(c)
          THEN LET q == tree_queues[c.queue_key]
               IN  /\ tree_queues' = [tree_queues EXCEPT ![c.queue_key] = Taken(q)]
                   /\ worker' = [worker EXCEPT ![w] =
                                   [pc |-> "check", req |-> Head(q.requests)]]
                   /\ queue_mutex' = None
          ELSE UNCHANGED <<tree_queues, worker, queue_mutex>>
  /\ UNCHANGED <<lives, lobbyVars, completed, active_requests,
                 llm_request_counts, saved, clock, stopVars>>

\* The heap is empty: pick_next_request returns false and the loop continues.
PickNothing(w) ==
  /\ worker[w].pc = "pick"
  /\ ready_tree_queue = {}
  /\ worker' = [worker EXCEPT ![w] = Resting("wait")]
  /\ queue_mutex' = None
  /\ UNCHANGED <<queueVars, lobbyVars, completed, active_requests,
                 llm_request_counts, saved, clock, stopVars>>

\* The worker goes on with its request.
Proceed(w, pc) == worker' = [worker EXCEPT ![w].pc = pc]

\* Is the client still there?
CheckClient(w) ==
  /\ worker[w].pc = "check"
  /\ Proceed(w, IF is_request_current(worker[w].req) THEN "prepare" ELSE "complete")
  /\ UNCHANGED <<queueVars, lobbyVars, completed, active_requests, queue_mutex,
                 llm_request_counts, saved, clock, stopVars>>

\* The request is counted; normalising it or building its messages may throw.
Prepare(w) ==
  /\ worker[w].pc = "prepare"
  /\ MutexFree
  /\ llm_request_counts' = [llm_request_counts EXCEPT ![worker[w].req.tree] = @ + 1]
  /\ Proceed(w, "infer") \/ Proceed(w, "complete")
  /\ UNCHANGED <<queueVars, lobbyVars, completed, active_requests, queue_mutex,
                 saved, clock, stopVars>>

\* run_chat_once throws, or returns; a result no longer wanted is dropped.
Infer(w) ==
  LET r == worker[w].req
  IN  /\ worker[w].pc = "infer"
      /\ \/ Proceed(w, "complete")
         \/ /\ is_request_current(r) /\ Conversational(r)
            /\ Proceed(w, "persist")
      /\ UNCHANGED <<queueVars, lobbyVars, completed, active_requests, queue_mutex,
                     llm_request_counts, saved, clock, stopVars>>

\* The assistant turn is written (a failure is only logged).
Persist(w) ==
  /\ worker[w].pc = "persist"
  /\ saved' = saved \cup {worker[w].req} \/ UNCHANGED saved
  /\ Proceed(w, "complete")
  /\ UNCHANGED <<queueVars, lobbyVars, completed, active_requests, queue_mutex,
                 llm_request_counts, clock, stopVars>>

\* safe_set_promise_value
Complete(w) ==
  /\ worker[w].pc = "complete"
  /\ completed' = completed \cup {worker[w].req}
  /\ Proceed(w, "release")
  /\ UNCHANGED <<queueVars, lobbyVars, active_requests, queue_mutex,
                 llm_request_counts, saved, clock, stopVars>>

\* release_tree_key and notify_one; an empty queue is erased.
Release(w) ==
  LET k == queue_key(worker[w].req)
      q == [tree_queues[k] EXCEPT !.has_active_key = FALSE, !.version = @ + 1]
      pushed == enqueue_tree_candidate_if_eligible(k, q)
      empty == q.requests = <<>>
  IN  /\ worker[w].pc = "release"
      /\ MutexFree
      /\ tree_queues' = [tree_queues EXCEPT ![k] = IF empty THEN NoQueue ELSE q]
      /\ lives' = [lives EXCEPT ![k] = IF empty THEN @ + 1 ELSE @]
      /\ ready_tree_queue' = ready_tree_queue \cup pushed
      /\ \E S \in Notified(1 + Cardinality(pushed)) :
           worker' = Woken(S \cup {w}, worker)
      /\ UNCHANGED <<lobbyVars, completed, active_requests, queue_mutex,
                     llm_request_counts, saved, clock, stopVars>>

-----------------------------------------------------------------------------
(* Shutdown *)

\* stop_scheduler() or a signal sets the flag.  Nobody takes a mutex.
StopFlag ==
  /\ MayStop
  /\ stop_pc = "none"
  /\ shutting_down' = TRUE
  /\ stop_pc' \in {"queue", "lifecycle"}
  /\ UNCHANGED <<queueVars, lobbyVars, completed, active_requests, queue_mutex,
                 worker, llm_request_counts, saved, clock, main_pc>>

\* shutdown_scheduler: queue_cv.notify_all (the signal handler has no such call).
StopNotifyWorkers ==
  /\ stop_pc = "queue"
  /\ worker' = Woken(Asleep, worker)
  /\ stop_pc' = "lifecycle"
  /\ UNCHANGED <<queueVars, lobbyVars, completed, active_requests, queue_mutex,
                 llm_request_counts, saved, clock, shutting_down, main_pc>>

\* scheduler_lifecycle_cv.notify_all
StopNotifyMain ==
  /\ stop_pc = "lifecycle"
  /\ main_pc' = IF main_pc = "blocked" THEN "check" ELSE main_pc
  /\ stop_pc' = "done"
  /\ UNCHANGED <<queueVars, lobbyVars, completed, active_requests, queue_mutex,
                 worker, llm_request_counts, saved, clock, shutting_down>>

MainGoes(from, to) ==
  /\ main_pc = from
  /\ main_pc' = to
  /\ UNCHANGED <<queueVars, lobbyVars, completed, active_requests, queue_mutex,
                 llm_request_counts, saved, clock, shutting_down, stop_pc>>

\* scheduler_lifecycle_cv.wait: test, then sleep.
MainTest == MainGoes("check", IF shutting_down THEN "close" ELSE "blocking")
            /\ UNCHANGED worker
MainSleep == MainGoes("blocking", "blocked") /\ UNCHANGED worker
\* The acceptor is closed, the workers are notified once more ...
MainClose == MainGoes("close", "join") /\ worker' = Woken(Asleep, worker)
\* ... and joined; leaving the function joins the lobby threads.
MainJoin == /\ \A w \in Workers : worker[w].pc = "exited"
            /\ MainGoes("join", "drain")
            /\ UNCHANGED worker
MainReturn == /\ lobby_tasks = <<>> /\ OnThread = {}
              /\ MainGoes("drain", "stopped")
              /\ UNCHANGED worker

Tick ==
  /\ clock < MaxTime
  /\ clock' = clock + 1
  /\ UNCHANGED <<queueVars, lobbyVars, completed, active_requests, queue_mutex,
                 worker, llm_request_counts, saved, stopVars>>

-----------------------------------------------------------------------------
LobbyStep(r) ==
  Adopt(r) \/ Enqueue(r) \/ Deliver(r) \/ Expire(r)
ClientStep(r) == Accept(r) \/ HangUp(r) \/ Receive(r)

WorkerStep(w) ==
  \/ TestPredicate(w) \/ FallAsleep(w) \/ PopCandidate(w) \/ PickNothing(w)
  \/ CheckClient(w) \/ Prepare(w) \/ Infer(w) \/ Persist(w) \/ Complete(w)
  \/ Release(w)

StopStep == StopNotifyWorkers \/ StopNotifyMain
MainStep == MainTest \/ MainSleep \/ MainClose \/ MainJoin \/ MainReturn

Next ==
  \/ \E r \in Requests : ClientStep(r) \/ LobbyStep(r)
  \/ \E w \in Workers : WorkerStep(w)
  \/ StopFlag \/ StopStep
  \/ MainStep
  \/ Tick

Spec == Init /\ [][Next]_vars

\* Threads are scheduled, adapters have timeouts (so inference ends) and the
\* deadline of wait_for passes.  A client that is sent something takes it or
\* hangs up; it need not connect, send its request, or hang up before that.
\* Nobody need ask for a stop.
Fairness ==
  /\ \A r \in Requests : WF_vars(LobbyStep(r))
  /\ \A w \in Workers : WF_vars(WorkerStep(w))
  /\ WF_vars(StopStep) /\ WF_vars(MainStep)

FairSpec == Spec /\ Fairness

-----------------------------------------------------------------------------
(* Properties *)

TreeQueue == [requests : Seq(Requests), has_active_key : BOOLEAN, version : Nat]
TreeCandidate == [queue_key : Keys, score : Nat, version : Nat, life : Nat]

\* Every variable stays in its type.
TypeOK ==
  /\ lobby_tasks \in Seq(Requests)
  /\ client \in [Requests -> {"none", "queued", "reading", "marked", "waiting", "done"}]
  /\ enqueued_at \in [Requests -> 0 .. clock]
  /\ completed \subseteq Requests
  /\ active_requests \in [Traces -> {r.id : r \in Requests} \cup {None}]
  /\ tree_queues \in [Keys -> TreeQueue]
  /\ ready_tree_queue \subseteq TreeCandidate
  /\ lives \in [Keys -> Nat]
  /\ queue_mutex \in Workers \cup {None}
  /\ worker \in [Workers -> [pc : WorkerPc, req : Requests \cup {None}]]
  /\ \A w \in Workers : Serving(w) => worker[w].req \in Requests
  /\ llm_request_counts \in [TreeIds -> Nat]
  /\ saved \subseteq Requests
  /\ clock \in 0 .. MaxTime
  /\ shutting_down \in BOOLEAN
  /\ stop_pc \in {"none", "queue", "lifecycle", "done"}
  /\ main_pc \in {"check", "blocking", "blocked", "close", "join", "drain",
                  "stopped"}

\* has_active_key is a lock: the requests of a key are served by one worker at
\* a time, even though versions restart and stale candidates may match again.
KeyIsHeldOnce ==
  /\ \A v, w \in Workers :
       Serving(v) /\ Serving(w) /\ queue_key(worker[v].req) = queue_key(worker[w].req)
         => v = w
  /\ \A k \in Keys :
       tree_queues[k].has_active_key <=>
         \E w \in Workers : Serving(w) /\ queue_key(worker[w].req) = k

\* No request is forgotten: a queue with requests and no active key has a
\* candidate in the heap that pick_next_request will not take for stale.
ReadyIsListed ==
  \A k \in Keys :
    tree_queues[k].requests # <<>> /\ ~tree_queues[k].has_active_key
      => \E c \in ready_tree_queue :
           c.queue_key = k /\ c.version = tree_queues[k].version

\* No wakeup of queue_cv is lost: the workers never all sleep on a heap that
\* is not empty.
SomeoneIsAwake ==
  ready_tree_queue # {} => \E w \in Workers : worker[w].pc # "blocked"

\* active_requests does not leak: a request is current only as long as its
\* lobby thread is there to clear it.
CurrentIsInLobby ==
  \A t \in Traces :
    active_requests[t] # None =>
      \E r \in InLobby : r.trace = t /\ r.id = active_requests[t]

\* A late attempt never clears the mark of the retry that superseded it: a
\* request stops being current when a newer one of its trace is received, or
\* when its own lobby thread is done with it.
OnlyOwnerClears ==
  [][\A r \in Requests :
       /\ r.trace # None
       /\ active_requests[r.trace] = r.id
       /\ active_requests'[r.trace] = None
       => client'[r] = "done"]_vars

\* The scheduler implements the keyed queue: per key one request at a time, in
\* order of arrival.
Abstract == INSTANCE KeyedQueue WITH
  Request <- Requests, Key <- Keys, KeyOf <- queue_key,
  queue <- [k \in Keys |-> tree_queues[k].requests],
  running <- {worker[w].req : w \in {v \in Workers : Serving(v)}}

ServesInOrder == Abstract!Spec

\* Every request that was enqueued is completed by a worker in the end, whether
\* or not its client still waits, unless the scheduler is stopped.
EveryRequestServed ==
  \A r \in Requests :
    client[r] = "waiting" ~> (r \in completed \/ shutting_down)

\* A lobby thread reads from r, or all of them from clients, for want of a
\* frame.
HeldBySilence(r) ==
  \/ client[r] = "reading"
  \/ Cardinality({s \in Requests : client[s] = "reading"}) = LobbyThreads
\* Every accepted client is answered in the end, also across a shutdown,
\* unless it sends nothing itself or clients that send nothing hold every
\* lobby thread for good (scheduler.cpp:1625 reads without a time limit).
EveryClientAnswered ==
  \A r \in Requests : client[r] = "queued" ~> (client[r] = "done" \/ []HeldBySilence(r))

-----------------------------------------------------------------------------
(* What the comments say and the code does not do: see the findings. *)

\* "Discard the stale result and prevent any conversation writes."
StaleNeverWrites ==
  [][\A r \in saved' \ saved : is_request_current(r)]_vars

\* "Priority grows with wait time so older requests gain fairness": the request
\* that is picked has waited and weighs the most of those that could be.
PickIsFair ==
  [][\A w \in Workers, k \in Keys :
       /\ PopCandidate(w) /\ worker'[w].pc = "check"
       /\ tree_queues[k].requests # <<>> /\ ~tree_queues[k].has_active_key
       => effective_tree_priority(Head(tree_queues[k].requests))
            <= effective_tree_priority(worker'[w].req)]_vars

\* "Ensure queue workers wake up for shutdown."
ShutdownCompletes == shutting_down ~> main_pc = "stopped"
=============================================================================
