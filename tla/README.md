# Velix: TLA+ models of the core services

Velix runs trees of operating system processes (agents, tools, a chat handler)
around a few services: a **supervisor** that registers processes, watches them
and kills them; a **bus** that relays messages between them; an **executioner**
that prepares and launches packages; an **LLM scheduler** that serialises
requests to language models and keeps their conversations; and an **application
manager** that owns terminal sessions. This directory holds the specifications
of these services and of their clients, the configurations TLC checks them with
and the proofs TLAPS checks.

## Contents

| file | what it is |
| --- | --- |
| `ProcessRegistry.tla` | the supervisor's tables and indexes and the operations on them |
| `Supervisor.tla` | request threads, termination engine, watchdog, handler restart, shutdown; properties |
| `SupervisorProofs.tla` | the inductive invariants of the supervisor and six theorems |
| `KeyedQueue.tla` | abstract specification: one request per key at a time, first come first served |
| `Scheduler.tla` | the LLM scheduler: lobby, queues, heap, workers, retries, shutdown; properties |
| `SchedulerProofs.tla` | the scheduler's invariants, its implementation of `KeyedQueue`; seven theorems |
| `Storage.tla` | the JSON and the SQLite storage provider as functions from store to store |
| `Conversation.tla` | turns, session control, compaction and cleanup over a store; properties |
| `ConversationProofs.tla` | the cache and the compaction queue; two theorems |
| `TurnProofs.tla` | no reported turn is lost; a theorem and its corollary |
| `Bus.tla` | sessions, routing tables and write queues of the bus |
| `VelixProcess.tla` | the C++ SDK in a handler and its tools, over `Bus`; properties |
| `VelixProcessProofs.tla` | routing tables, responses, the last status; three theorems |
| `Executioner.tla` | prepare once, launch, cache, crash and restart; properties |
| `ExecutionerProofs.tla` | the coalescer and what may be launched; three theorems |
| `Terminal.tla` | application manager, terminal registry, shells, the terminal tool; properties |
| `TerminalProofs.tla` | owners of shells, consent, reports, the end of a job; four theorems |
| `ChatHandler.tla` | gateway connections, table of sessions, turns, questions of tools; properties |
| `ChatHandlerProofs.tla` | the table of sessions, questions, replies; four theorems |
| `MC*.tla` | the sets, requests and workloads the `.cfg` files name |
| `*.cfg` | one per question, see "Runs" |
| `PROJECT.json` | components, runs, mutants, map to source lines, findings, hazards, theorems |

`tlc -config X.cfg M`, with the module `PROJECT.json` gives for the run, repeats
it; `tlapm M.tla`, with one of the eight `*Proofs` modules, repeats its proofs.

## Inventory

**Process registry** (`core/process_registry.*`). State: `process_table_`
(live and historical processes with atomic status, memory, heartbeat, alive),
`tree_table_`, `tree_process_index_`, `process_children_`, two counters; one
shared mutex, and lock-free stores into `ProcessInfo`. Operations: register,
heartbeat, kill_tree, mark killed, terminate, count an LLM request, clean up,
complete a tree. Correct when: live processes are indexed, indexes do not
dangle, completed trees are and stay empty, killed trees lose every process.

**Supervisor and termination engine** (`core/supervisor.cpp`,
`core/termination_engine.cpp`). Request threads serve REGISTER_PID, HEARTBEAT,
LLM_REQUEST, TREE_STATUS and TREE_KILL; the watchdog thread enforces heartbeat
timeouts and limits, completes trees and restarts the handler; `stop()` ends
everything. Hard: three kinds of threads interleave between critical sections;
kills sleep a grace period per process; times are read early and used late.

**LLM scheduler** (`llm/scheduler.cpp`, `utils/thread_pool.hpp`). State: lobby
pool, `tree_queues`, the heap `ready_tree_queue` of versioned candidates,
`active_requests` (which attempt of a trace is current), promises, two condition
variables. Hard: lazy deletion from the heap, retries and deadlines racing
answers, wakeups, shutdown from a signal. Correct when: a key is served by one
worker at a time and in order, nothing ready is forgotten, every client is
answered.

**Session io, session manager, compaction, storage** (`llm/session_*.cpp`,
`llm/compacter.cpp`, `llm/storage/`). State: conversations as files or rows with
a cache in front, the index of users and sessions, snapshots, the compaction
queue and its marks. Used by the scheduler's workers, by the threads that serve
SESSION_CONTROL, by the compaction thread and by an hourly cleanup thread, of
which there are two: `supervisor.cpp:498` makes a `SessionIO` of its own. Hard:
`convo_mutex_` is released between reading a conversation and writing it,
compaction takes seconds while turns are added, and storage is changed behind
the cache. Correct when: the cache agrees with storage, no reported message
disappears, a session is queued for compaction once and its mark goes away.

**Bus** (`core/bus.cpp`). State: sessions, pid to session, tree to root pid, a
write queue per session. Operations: BUS_REGISTER, IPM_RELAY, HEARTBEAT
forwarding, unregister, stop. Hard: a session that ends after its successor
registered; many relays into one write queue.

**C++ SDK** (`runtime/sdk/cpp/velix_process.cpp`). State per process: pending and
response queues by trace, `is_running`, `forced_by_signal`, the final status.
Threads: main, heartbeat, bus listener, one per tool call. Calls the executioner
(launch, with retries), the scheduler (LLM rounds) and the bus. Hard: a result
that races the timeout of its call; signals, loss of the bus and the end of
`run()` that all set the final status; `shutdown()` joining threads that read.

**Executioner** (`execution/`). State: package cache, prepare slots,
`status.json` per cache key on disk, children. Hard: coalesced prepares with
timeouts, a crash between prepare and record, cache cleaning against launches.
Correct when: one thread prepares per key, no slot is orphaned, only what was
prepared is launched, every accepted request is answered.

**Application manager, terminal registry and driver**
(`core/persistant_applications/`), **terminal tool** (`tools/terminal/`). State:
sessions per user with their shells, jobs, an allow list. Threads: clients, the
watchdog, per shell a reader and a timeout thread. Hard: eviction by the
watchdog against requests that hold a driver; four places that may finish a job.
Correct when: every shell has one owner or is closed, a job ends once, a
dangerous command runs only with consent, the tool reports what happened.

**Chat handler** (`chat/handler.cpp`). State: `sessions_` (session id to
connection), a queue per connection, questions of tools. Threads: one that
accepts, a reader and a worker per connection, the SDK's bus listener. Hard:
renames and removals by the name a connection has at that moment. Correct when:
the table is true, an answer is relayed once, a reply is shown whole and once,
a queued message is taken.

**Kernel** (`integration_kernel.cpp`) starts and stops the services. Adapters,
tool manifests, skills, framing and file utilities keep little or no shared
state.

How they interact: a process registers with the supervisor and with the bus,
sends heartbeats to the supervisor, LLM requests to the scheduler, launches to
the executioner and results over the bus; the supervisor kills processes and
sends CHILD_TERMINATED to the bus; the chat handler is itself a process, the
root of TREE_HANDLER; the terminal tool is a process that talks to the
application manager and asks the user through the bus and the chat handler.

`PROJECT.json` lists the components with their status and the hazards with the
line each one bites at.

## How the models correspond to the code

### ProcessRegistry and Supervisor

One step is one critical section of `registry_mutex_`, one group of atomic
accesses, or one wait. Operators of `ProcessRegistry` carry the code's names;
`Supervisor` calls them from actions:

| code | actions |
| --- | --- |
| `handle_register_pid` | `RegisterHandler`, `RegisterNewTree`, `RegisterJoin` (checks), `RegisterProcess` (`register_process`), `TrackHandler` |
| `handle_heartbeat`, `update_heartbeat` | `ReceiveHeartbeat` (reads and alive test), `StoreHeartbeat`, `TerminateFinished` |
| `handle_llm_request`, `handle_tree_kill` | `ReceiveLlmRequest`; `ReceiveTreeKill`, `CollectTargets`, `ReplyTreeKill` |
| `kill_processes` | `MarkTarget` (steps 1-3), `FinishTarget` (steps 5-6), by any of the killers |
| `watchdog_loop` | `WdWake` ... `WdComplete` in the order of the loop; a limit is read in one step (`WdMemory`, `WdLlm`) and `kill_tree` called in the next (`WdMemoryKill`, `WdLlmKill`) |
| handler monitoring, `spawn_handler_process` | `WdHandlerCheck`, `WdHandlerUp`, `WdHandlerGone`, `WdKillPrevious`, `WdFork` |
| `stop()` | `StopBegin`, `StopSnapshot`, `StopDone` |

`wd_now` is the `now_ms` the loop reads once; `Sub` is subtraction in
`uint64_t`, with `Word` in place of 2^64. `os_state` is the operating system:
`none` (not started), `up`, `registering` (it sent its one REGISTER_PID),
`unread` (it is gone, and a heartbeat of it is still to be read) and `gone`. SIGTERM is not a step of its own: a process may exit at any time, which
includes on SIGTERM. A request that is refused before it changes anything is a
stuttering step. Left out: roles other than handler, trace ids, the contents of
replies, the dead conversation tables of the supervisor, operating system pids
that are used again.

### Scheduler

| code | actions |
| --- | --- |
| `scheduler_accept_next`, `ThreadPool::try_submit` | `Accept` |
| `handle_client_connection` | `Adopt` (a lobby thread begins to read), `HangUp` or `Receive` (parse, mark), `Enqueue`, `Deliver`, `Expire` |
| `queue_cv.wait` in `worker_loop` | `TestPredicate`, `FallAsleep` |
| `pick_next_request` | `PopCandidate` (one iteration), `PickNothing` |
| `worker_loop`, `process_llm_request_stateless` | `CheckClient`, `Prepare`, `Infer`, `Persist`, `Complete` |
| `release_tree_key` | `Release` |
| `shutdown_scheduler`, `handle_shutdown_signal` | `StopFlag`, `StopNotifyWorkers`, `StopNotifyMain` |
| `start_scheduler` after `listen` | `MainTest`, `MainSleep`, `MainClose`, `MainJoin`, `MainReturn` |

`queue_mutex` is a variable because a worker keeps it across steps; everybody
else takes and releases it within one. The heap is a set: two candidates that
agree in key, score and version can only come from two lives of a queue, and
`life` tells them apart without being read by any guard. Failures of message
building, inference and persisting are alternatives of their actions. Priorities
are integers and one clock tick is the 5000 ms that are worth one of them. A
request that `parse_request_payload` refuses changes nothing but its own
answer; the requests of the runs are all well formed.

### Storage and Conversation

A store is a record of rows, index entries, users, directories and snapshots.
Every call of a provider holds its mutex, so it is one function from store to
store: `sqlite_*` and `json_*` have the names of the methods and differ where
the providers do (a JSON session without an index entry is found again by its
directory, an SQLite conversation is deleted only under its creator). A message
is its author (the request whose turn wrote it, a summary, or what was stored at
the start) and a role; a row also has creator, last activity and tokens.
`WithoutSystem` is the `std::remove_if` of a turn that overrides the system
prompt, as a recursive function so that it can be proved about.

| code | actions |
| --- | --- |
| `normalize_llm_request` | `NormalizeUser`, `NormalizeProcess` |
| `build_conversation_messages_safely` (two critical sections of `convo_mutex_`) | `BuildRead`, `BuildWrite` |
| `persist_assistant_response`, the reply of a stale attempt | `PersistReply`, `ReplyDiscarded` |
| `compute_context_usage`, `enqueue_auto_compaction_if_needed`, `CompactionQueue::enqueue` | `ComputeUsage`, `MarkNeeding`, `enqueue` |
| `compact`, `run_auto_compact_guard`, `CompactionQueue::worker_loop` | `Dequeue`, `get_conversation`, `Summarize`, `save_snapshot`, `PersistCompacted`, `invalidate_conversation_cache`, `Unqueue`, `Unmark`, `StopQueue`, `WorkerExit` |
| `handle_session_control` and the session manager | `Resolve`, `CreateSession`, `IndexUser`, `IndexSession`, `create_super_user`, `set_session_title`, `Undo`, `delete_session`, `delete_conversation`, `DestroyList`, `DestroyEvict`, `delete_super_user` |
| the cleanup threads, a step per call of the provider | `cleanup_loop`, `ScanProcess`, `ScanConvo`, `Judge`, `EvictProcess`, `RemoveProcess` |

The scheduler's key (`KeyFree`) keeps two requests of one session and two of one
process apart, as module `Scheduler` proves of any keys. It is the key of the
request, not of the conversation: a process that asks for the conversation of
another is not held back by it, and is refused as no owner. So a conversation is
written by one worker at a time, although keys and conversations are different
things: `normalize_llm_request` serves a session to the handler only, whose key
for it is the session, and a process conversation to its owner only. Commands and
compaction do not take a key, as in the code. `kept`, `raced` and `reaped` are history: what was reported as written,
which conversations were overwritten from an old copy, and which were removed
from storage behind the cache: every row that such a step takes away (`Removed`),
the rows of other users that SQLite's pattern matches included.

### Bus and VelixProcess

`VelixProcess` extends `Bus`. A session is named by the process at its other end
and `wire` is its pair of streams. A callback of a strand is one action, except where
it takes a mutex twice or waits: registering releases the mutex before the
acknowledgement is queued, a relay resolves its target in one critical section
and looks up the session in the next, and a forwarded heartbeat is answered when
the supervisor answers, if it does.

| code | actions |
| --- | --- |
| `handle_message`, `resolve_target_pid`, `relay_message` | `handle_message` and `relay_message` of `Bus`, in `BusStep` |
| `forward_heartbeat_to_supervisor` and its callbacks | `forward_heartbeat_to_supervisor` in `handle_message`, `HeartbeatAnswer` in `BusAnswer` |
| `register_session`, `enqueue_json`, `write_next`, `read_next`, `BusService::stop` | operators of those names, `RegisterAck`, `WriteDone`, `ReadError`, `BusStop` |
| `start()` of the SDK, the bus handshake | `start`, `RegistrationFailed`, `Handshake` |
| `bus_listener_loop`, `on_bus_event` | `bus_listener_loop`, `ListenerExit`, `ListenerBlocks` |
| `execute_tool_internal` | `LaunchOk`, `Retry`, `Refused`, `TakeResult`, `WaitTimeout` |
| `call_llm_internal` and its rounds | `call_llm`, `dispatch_llm_request`, `ToolsDone` |
| `ask_user`, the handler's reply | `ask_user`, `AskEnds`, `handle_ask_user_reply` |
| `report_result`, the guard of `start()` | `report_result`, `ResultGuard` |
| `run_kernel_io_loop` | `BeatBegins`, `Heartbeat` (over the bus, or directly), `SupervisorAnswers`, `FinalHeartbeat` |
| `shutdown_impl`, `request_forced_shutdown`, the signal handler | `shutdown`, `CloseSocket`, `Joined`, `Signal` |
| termination engine | `Kill`, `notify_bus_child_terminated` |

The supervisor appears only by what it is told and by its kills; the executioner
by whether a launch is accepted, refused or answered late; the scheduler by its
answers. A workload (`load`) says how many calls and tools there are and which
external events happen. `latest` is history: the handler whose registration the
bus handled last, which need not be the one that started last. A handler may be
killed while its BUS_REGISTER is still unread; its successor registers, then the
old frame is handled and takes the root entry, and the end of the old session
removes it: a live handler is then unlisted. `RootIsListed` is about `latest` and
does not cover this. `held` is the mutex under which a signal found the main
thread (`bus_mutex` while it sends, `queue_mutex` while it tests or waits), and
`stuck` that a thread which `shutdown()` joins waits for that mutex.

### Executioner

| code | actions |
| --- | --- |
| accept loop, the thread pool, `reap_children`, `stop` | `Accept`, `reap_children`, `stop` |
| `handle_exec_request`, `resolve_package` | `handle_exec_request`, `resolve_package`, `PutPackage` |
| `PrepareCoalescer` | `enter`, `wait`, `Settle`, `erase` |
| the cache under its file lock, in `handle_exec_request` | `OpenCache`, `ReadStatus`, `WritePreparing`, `WriteStatus` |
| `execute_prepare`, `run_sync_with_timeout` | `execute_prepare`, `ChildExit`, `run_sync_with_timeout` (until the exit or the deadline), `Drain` (the output, to its end) |
| whoever inherits the pipe of a step | `Inherit`, `Release` |
| `launch`, cache messages | `launch`, `handle_cache_clean`, `handle_cache_prune` |
| outside | `Edit` (someone changes the package), `Crash` |

A cache key is the package with the version of its sources and of what earlier
prepares left among them, because the code hashes every file. `Crash` loses
package cache, slots and requests; sources, artifacts and status files stay.

### Terminal

| code | actions |
| --- | --- |
| terminal tool | `check_approval`, `ask_handler`, `approve_permanent`, `run_oneshot_direct`, `am_poll_until_done` |
| `TerminalRegistry::get_or_create` (its two critical sections) and `exec` | `get_or_create`, `Recreate`, `Refused`, `exec_lookup` |
| `kill_session`, watchdog, `stop` | `kill_session`; `DetectScan`, `DetectMark`, `evict_dead_and_idle`, `PruneClock`, `prune`, `WatchdogExit`; `Stop`, `StopJoin`, `kill_session_by_id` |
| `LocalPTYDriver::exec` | `ExecWait`, `ExecSubmit`, `write_to_shell` |
| the shell and the reader | `on_end`, `ShellExit`, `ReaderHangup`, `ReaderFinalize` |
| the timeout thread | `TimerTest`, `TimerSleep`, `TimerFire` |
| `close()` | `CloseBegin`, `CloseStop`, `CloseJoinTimer`, `CloseJoinReader`, `CloseDead` |

A driver is a record of shell, reader, timer and current job. A job is named by
the client that submitted it. An entry of the allow list is mode, user and
command (`PatternKey`); `Entries` are those of the skill's configuration. The
allow list is one file for the tools of all users; to add an entry a tool reads it
and, in a second step, writes it back. A write to the shell fails when the shell is gone
and, on the nonblocking master, when the shell does not read (event `full`).
`lost` is history: jobs whose place in `current_job_` a second `exec` took.

### ChatHandler

| code | actions |
| --- | --- |
| `handle_new_connection` | `handle_new_connection`, `ResolveSession`, `ListSession` |
| `session_reader` and what it serves itself | `session_reader`, `handle_switch_session`, `handle_ask_user_reply`, `TeardownMark`, `TeardownErase` |
| the worker's wait | `TestPredicate`, `FallAsleep` |
| turns | `process_request` (streamed tokens, `flush_reply`), `EndTurn` |
| commands | `CommandResolve`, `CommandMove`, `DeleteCheck`, `DeleteCall`, `DestroyCheck`, `DestroyCall`, `Query` |
| `on_bus_event` | `on_bus_event` (`Recipients`: whom it is for), `inject_to_session`, `send_to_session` |
| the end of `/destroy_user`; `on_shutdown` | `Disconnect` (erases the entry), `Deactivate`; `on_shutdown` |

The scheduler is external here: `send_session_control` answers from `stored`,
the sessions it has. The keys of the table are `Uid`: session ids, and names of
users, because `handle_switch_session` takes both. Replies are short sequences of tokens, of which any part
may have been streamed.

## Runs

Passing:

| run | properties | bounds |
| --- | --- | --- |
| `SupervisorLifecycle` | `TypeOK`, `AliveIsIndexed`, `CompletedIsEmpty`, `KilledIsHunted`, `KilledIsGone` | 2 request threads, 2 processes (pids run out), 1 tree besides the handler's, last heartbeats only, a clock that stands still, the memory limit reachable, stop |
| `SupervisorLiveness` | `IndexIsKnown`, `KilledTreeDies`, `SilentProcessDies`, `DoneTreeCompletes` | 1 thread, 1 process, 3 instants, periodic and last heartbeats, handler restart, the LLM limit reachable, fairness |
| `SchedulerRetries` | `KeyIsHeldOnce`, `ReadyIsListed`, `CurrentIsInLobby`, `OnlyOwnerClears`, `ServesInOrder` | attempt, retry and sibling of one key, 2 workers, 2 instants |
| `SchedulerLiveness` | `SomeoneIsAwake`, `EveryRequestServed`, `EveryClientAnswered` | attempt and retry, 2 workers, one lobby thread that a silent client may hold, a lobby queue of 1, stop, fairness |
| `Conversation` | `CacheIsFresh`, `TurnIsKept`, `QueuedOnce`, `MarkIsCleared` | 9 workloads on both providers: up to 2 requests and 4 commands on one user's 2 sessions or on process conversations, compaction at 4 tokens, cleanup, fairness |
| `VelixProcess` | `RootIsListed`, `StoredIsAwaited`, `FinishedIsOver`, `ResultIsDelivered`, `ShutdownEnds` | 13 workloads: 2 handlers one after the other, also with the first one's registration handled late, up to 2 tools and 2 calls, 2 attempts, 2 rounds, with kills, timeouts, signals also inside a critical section, loss or lack of the bus, a heartbeat that is not answered, fairness |
| `Executioner` | `OnePreparePerKey`, `SlotHasLeader`, `LaunchedIsPrepared`, `AcceptedIsAnswered` | 6 workloads of 3 requests for a package on 2 threads, one prepare step whose pipe may be held open, an edit, a crash, fairness |
| `Terminal` | `DriverHasOneOwner`, `DangerNeedsConsent`, `ToldIsTrue`, `EndedStaysEnded`, `JobEnds` | 8 workloads of 2 clients of one or two users, 3 keys, 2 shells that may not read, a limit of 1 session, one entry in the configuration, watchdog, stop, fairness |
| `ChatHandler` | `ListedUnderItsName`, `DeadIsUnlisted`, `AskAnsweredOnce`, `ReplyIsShown`, `QueueIsServed` | 2 connections of a user with 2 sessions, 2 messages, a question, 4 kinds of bus events, with and without a user, fairness |

The bounds are the smallest in which the races happen. A process that joins
while another thread kills its tree needs two processes, one tree and two
threads besides the watchdog; a wrapped difference needs the clock to move
within one watchdog iteration; a stale candidate needs three requests of a key, a
sleeping worker a second one that takes its work. A retention that expires next
to a tree that completes needs three instants. A turn that races another writer
needs one request and one command; a mark that outlives its queue entry needs a
session that exceeds the limit, is compacted and exceeds it again. A result that
is passed over needs two frames in one write queue; a root entry that is removed
by its predecessor needs two handlers, one that loses the entry for good a registration that is
handled late. A follower that gives up needs a leader
and one thread more; a third request comes after the leader failed, and two
threads are the fewest of which a held pipe leaves one. A driver
closed twice needs two threads that take the same session out. `Retention`,
`HbTimeout`, `Ttl` and the limits are small enough to be exceeded and large
enough not to be always. The workloads of a run are alternatives of its initial
states: each brings together the operations that meet on the same state, and
together they take every action.

Violations, each a statement of a comment, header, document or configuration
that the code does not keep (details under `findings`):

| run | property | what happens |
| --- | --- | --- |
| `HandlerLockedOut` | `RestartedHandlerMayRegister` | a killed process stays in its tree's index, so a handler that timed out is restarted and refused, again and again |
| `TurnLost` | `TurnNeverLost` | a turn written while its session is compacted is in neither the session nor a snapshot |
| `CrashTold` | `CrashIsTold` | the bus drops CHILD_TERMINATED, so a call waits its full timeout for a killed tool |

**Statements the code does not meet.** These are defined in the modules and are
not runs of their own; TLC finds each violated when it takes the place of the
properties of the configuration named:

| property | configuration | the statement | what happens |
| --- | --- | --- | --- |
| `OnlyOldTreesTimeOut` | `SupervisorLiveness` | `supervisor.cpp:1126`, `termination_engine.hpp:98` | a tree created during the watchdog's kills is killed as too old |
| `StaleNeverWrites` | `SchedulerRetries` | `scheduler.cpp:1198` | a superseded attempt writes its turn |
| `ShutdownCompletes` | `SchedulerLiveness` | `scheduler.cpp:235`, `:1813` | a stop between predicate and sleep is lost; a silent client holds a lobby thread that the stop joins |
| `PickIsFair` | `SchedulerRetries` with `Requests <- Lone`, `Workers <- Workers1`, `MaxTime = 2` | `scheduler.cpp:1284` | waiting does not raise the score of a queued request |
| `CloseReturns` | `Terminal` | `terminal_driver.hpp:21` | `close()` of a shell that exited never returns |
| `NoJobLost` | `Terminal` | `terminal_driver.hpp:24` | two `exec` at once displace a current job, which then never ends |
| `AskIsAnswered` | `VelixProcess` | `velix_process.hpp:79` | the reply to `ask_user` carries no trace and is dropped |
| `OneSocketPerSession` | `ChatHandler` | `handler.cpp:6` | a registration tests the id it was given, not the session it gets |

**Noted differences**, met while modelling and visible in the models:

*Supervisor and scheduler*

- `kill_processes` does not "remove from registry" (`termination_engine.hpp`,
  step 6): every killed process stays in `process_table_` and in the indexes,
  with termination time 0, so the retention never removes it.
- The heartbeat timeout subtracts in `uint64_t` too (`supervisor.cpp:1082`): a
  heartbeat stored between the reading of `now_ms` and the snapshot counts as a
  timeout.
- A heartbeat in flight may overwrite the status KILLED of a process that was
  just marked dead (`process_registry.cpp:142`); its tree then never counts as
  done by status.
- `stop()` takes its snapshot while request threads still run: a registration in
  flight survives the shutdown (`supervisor.cpp:448`).
- The scheduler does not send LLM_REQUEST, so `max_llm_requests_per_tree` never
  fires for a tree that only talks to the scheduler (`supervisor.cpp:982`).
- `queue_key` of a process conversation is the tree and not the conversation id
  its comment names (`scheduler.cpp:77`).
- A lobby thread reads a request without a time limit (`scheduler.cpp:1625`): a
  client that sends nothing holds it, and as many such clients as there are lobby
  threads keep everyone else waiting. `EveryClientAnswered` exempts this.

*Conversations*

- Two callers of `new` compute the same session id (`session_manager.cpp:358`).
- A request in flight writes a session back after `/delete` removed it.
- `destroy_user` and the cleanup of the other `SessionIO` remove storage behind
  the cache (`reaped`).
- A deleted JSON session keeps its directory and is found again by it.
- SQLite's `delete_super_user` deletes `LIKE 'u_s%'`, in which `_` matches any
  character: rows of other users go too (`Alike`, empty in the runs).
- A manual compaction loses the row's creation time, total and metadata, and the
  retained tail may begin with a tool message without its call.

*Bus and SDK*

- A push that comes between registration and acknowledgement is taken for the
  acknowledgement and lost (`bus.cpp:237`); without one the process runs without
  a listener.
- A failing write closes a session whose last frames are unread.
- Without a bus a heartbeat waits for the supervisor's answer without a time limit
  (`velix_process.cpp:608`), and `shutdown()` joins that thread.
- The signal handler runs `shutdown()` itself (`velix_process.cpp:257`): when it
  interrupts the main thread under `bus_mutex` or `queue_mutex` and a thread that
  is joined needs that mutex, neither ever goes on. `ShutdownEnds` exempts these
  two and nothing else.
- A bus session has no limit for the supervisor's answer to a heartbeat it
  forwarded (`bus.cpp:332`); the connection stays open.
- `report_result` without `append` erases the trace in the tool's own set; a
  failed launch leaves its response entry; a launch that is retried may have
  started a tool already.
- When the bus is lost, FINISHED is sent while `run()` goes on; after an
  exception the guard reports "completed"; waiting calls ignore a shutdown.

*Chat handler*

- `/new` or `/delete` after the teardown lists a dead connection again.
- The teardown notifies the worker without `queue_mutex`, so a worker that is
  about to sleep does not see it; `user_id` is read and written without a lock.
- A bus result for the former id of a session is dropped; questions nobody
  answers stay in the table.

*Terminal*

- A timeout signals the shell's process group: the shell may end with the job.
- A write that the shell's full input refuses ends the job as an error, and part
  of the command may have been written to a shell that lives on
  (`terminal_driver.cpp:340`).
- The clock is read before the lock, so idle time and age may wrap.
- `DetectMark` may mark a session dead that was made anew since the scan.
- A foreground call is "ok" whatever the exit code; a job that was pruned while
  the tool polls is reported as an error; the allow list is read and written
  without a lock between processes.

*Executioner*

- `reap_children` may take the status of a prepare step, which then counts as
  failed.
- After the deadline of a prepare step its output is read to the end
  (`process_spawner.hpp:370`): a process that the step left behind, or that
  another thread forked meanwhile, holds the pipe and with it the leader, for as
  long as it lives. `AcceptedIsAnswered` exempts such a leader, and a pool that
  consists of them; followers time out.
- A key includes artifacts: a refresh, or an edit that is undone, prepares under
  another key in the same directory, at the same time or over an older build.
- The package cache misses edits; cleaning and pruning remove directories in use.

Deadlock is not checked: the services end after a stop, and with bounded
clocks, clients and messages they come to rest.

**Mutants.** Every property of a passing run has a defect that breaks it: an
operator marked (defect), placed before the one it would replace, with the
change a plausible mistake in that code would make.

**Fairness.** `Supervisor!FairSpec` assumes that request threads and killers go
on with what they began, that the watchdog thread is scheduled (its sleeps end)
and that time passes; nothing of clients, processes or `stop()`.
`Scheduler!FairSpec` assumes the same of lobby threads, except where they read
from a client, of workers, the stopping thread and the main thread; inference
ends because adapters have timeouts, and `wait_for` has a deadline. Clients need
neither send a request nor hang up. Weak fairness of a whole thread is enough: no step of
a thread is enabled and disabled for ever by another.
`Conversation!FairSpec` assumes that some request, some command and the
compaction thread go on when they can: the waits for the model end with an answer
or a timeout. `VelixProcess!Spec` assumes it of the threads nothing outside holds
up: the strands of the bus, listeners, the sending of heartbeats, the steps of
`shutdown()` and a call whose result is there; clients and tools may stop, and
the supervisor need not answer.
`Executioner!Spec` assumes it of each request that a thread serves, because a
prepare step and a follower's wait have timeouts; nothing is assumed of children
and of what they leave behind, so the reading of a held pipe may never end.
`Terminal!FairSpec` assumes it of client threads, of closing, and per shell of
reader, timeout thread and the end of a started command; not of the watchdog, of
time or of the expiry of a deadline. `ChatHandler!Spec` assumes it of each
worker, whose requests to the scheduler have timeouts; not of users, gateways or
the bus.

## Proofs

`SupervisorProofs.tla` proves for every number of threads, processes, trees and
every value of the limits:

- `TypeCorrect`: `Spec => []TypeOK`
- `IndexSound`: `Spec => [](AliveIsIndexed /\ IndexIsKnown)`
- `IndexesKnown`: `Spec => []IndexIsKnown`
- `CompletedStaysEmpty`: `Spec => []CompletedIsEmpty`
- `NoEscape`: `Spec => []KilledIsHunted`

None of these is inductive alone. The invariant is

    Inv == TypeOK /\ RegistryInv /\ LocalInv /\ KilledIsHunted

`RegistryInv` adds that pids and tree ids to come are unused, that an indexed
process never has a termination time (so the retention cannot erase it: the fact
behind `IndexIsKnown`), and that TREE_HANDLER is never COMPLETED. `LocalInv`
says what a thread's locals promise about the tables between two of its steps: a
registration in flight names a tree and a parent that exist, a target names a
known process. `KilledIsHunted` needs both: between `kill_tree` and the kills a
process may only leave the tree, because `register_process` tests the tree's
status under the lock that `kill_tree` held. Each action has one step, and the
registry's operators have a lemma each, so that the many actions that call
`kill_tree` or `terminate_process` cite the same fact. The proof rests on
`RegistryAssumption` and `SupervisorAssumption` only. Every conjunct was checked
with TLC as an invariant before it was proved.

`SchedulerProofs.tla` proves for every set of requests with distinct ids, every
finite set of workers, every capacity and number of lobby threads:

- `TypeCorrect`: `Spec => []TypeOK` (with the proof, no run repeats it)
- `OneWorkerPerKey`: `Spec => []KeyIsHeldOnce`
- `NoQueueForgotten`: `Spec => []ReadyIsListed`
- `RetryKeepsMark`: `Spec => OnlyOwnerClears` (an action property)
- `MarksDoNotLeak`: `Spec => []CurrentIsInLobby`
- `NoLostWakeup`: `Spec => []SomeoneIsAwake`
- `Refinement`: `Spec => ServesInOrder`, that is, `Scheduler` implements
  `KeyedQueue`

There are three inductive invariants, each over `TypeOK`, because the three
mechanisms do not depend on each other:

    Inv      == TypeOK /\ QueueSound /\ KeyIsHeldOnce /\ ReadyIsListed
    LobbyInv == TypeOK /\ LobbySound /\ CurrentIsInLobby
    WakeInv  == TypeOK /\ MutexSound /\ SomeoneIsAwake

`QueueSound` says that a request waits in the queue of its own key, so a worker
that takes the front of a queue marks the key it will later release. Versions
play no part in `KeyIsHeldOnce`: a candidate left over from an earlier life of
its queue may match again, and what keeps the key safe is that
`pick_next_request` tests `has_active_key` itself. They do in `ReadyIsListed`:
every change of a queue that leaves it waiting pushes a candidate of the new
version, and a candidate that is dropped as stale is not that one. `LobbySound`
(a connection waits for a lobby thread once) keeps `Receive` from ending a
request that is current. `MutexSound` says that a worker has `queue_mutex` from
its test of the predicate until it sleeps, so that nothing is pushed in between;
`NotifyWakes` is the one argument about cardinalities. Most actions leave the
queues and what is served alone (`QuietSteps`): these are the stuttering steps
of `KeyedQueue`; `Enqueue` is `Submit`, a `PopCandidate` that fits is `Start`,
`Release` is `Finish`. The only assumption is `SchedulerAssumption`.

`SupervisorProofs.tla` also proves `KillReachesOs`: `Spec => []KilledIsGone`.
Its invariant, over `Inv`, is `GoneInv == AimInv /\ KilledIsGone`. A killer waits
for the operating system process it read when it made its list, and the property
speaks of the one the table has now: `AimInv` says that they are the same. Every
target was registered (so no later registration can take its pid) and, while it
is in the table, carries the OS pid the killer has; and a killer that has yet to
filter its list is in no grace period, so that a second list never replaces a
process that was signalled and not waited for. `Ages` is what every operation of
the registry does to the table.

`ExecutionerProofs.tla`, for every set of requests and packages, every workload
and every number of threads, edits and crashes:

- `OneLeader`: `Spec => []OnePreparePerKey`
- `NoOrphanSlot`: `Spec => []SlotHasLeader`
- `LaunchIsSafe`: `Spec => []LaunchedIsPrepared`

      Inv == TypeOK /\ LocalInv /\ LeaderIsListed /\ SlotHasLeader /\ SlotInv /\ ReadyInv

Map and leaders point at each other: `LeaderIsListed` gives the first theorem,
since a key has one entry, and `SlotHasLeader` is the converse. A slot outlives
its entry for the followers that still wait on it; `SlotInv` says that its key is
the one they asked for, without which `ready` would be said of another key.
`ReadyInv` follows the word ready from the prepare to the slot, the status file,
the follower and the launch.

`ChatHandlerProofs.tla`, for every set of connections, users, sessions, messages
and events:

- `TableIsTrue`: `Spec => []ListedUnderItsName`
- `TornDownIsUnlisted`: `Spec => []DeadIsUnlisted`
- `OneReplyPerAsk`: `Spec => []AskAnsweredOnce`
- `WholeReply`: `Spec => []ReplyIsShown`

`Local(c)` says that every entry that leads to a connection is under the name it
has and that an entry whose connection was torn down was made by its worker
afterwards (`late`). Each rename erases the old name under `sessions_mutex_`, and
the name it erases is the one the connection has then, since between
`CommandResolve` and `CommandMove` the reader may have renamed it. `AskInv` says
that a trace in the table has a request that was not answered. `WholeReply` rests
on lemmas about prefixes and suffixes of sequences.

`VelixProcessProofs.tla`, for every set of processes and calls and every
workload:

- `LatestHandlerIsRoot`: `Spec => []RootIsListed`
- `ResponseHasReader`: `Spec => []StoredIsAwaited`
- `FinishedIsTold`: `Spec => []FinishedIsOver`

`Inv` is `TypeOK` and, for every process, `BusInv` (a connection belongs to the
process that opened it; an open one is in the tables), `AwaitInv` (a trace is
pending, or has a response, only for its own thread, which waits) and `EndInv` (a
process that has started and is not running was signalled or lost the bus).
`AwaitInv` is what `StoredIsAwaited` lacks: the listener tests the pending set,
so what is in the set must be awaited too.

`TerminalProofs.tla`, for every set of clients and sessions, every workload,
every limit and any number of shells:

- `ConsentFirst`: `Spec => []DangerNeedsConsent`
- `ReportIsTrue`: `Spec => []ToldIsTrue`
- `OneOwner`: `Spec => []DriverHasOneOwner`
- `EndIsFinal`: `Spec => EndedStaysEnded` (an action property)

`Inv` has a part for what each client has come to, `allow \subseteq consent`
(with `KeyIsQuestion`: the key under which a command is allowed names its mode,
its user and itself, so that what one user allowed says nothing of another's),
`JobInv` (the job a shell runs is running and was handed to that shell and no
other: a job ends only where it is current, so it ends once), `CloseInv` (a
thread that closes shells has one at hand and the others to do) and `OwnerInv`,
which is `DriverHasOneOwner` without cardinalities: no two keys, no two threads
and no key and thread have the same shell, and a started shell that is not ending
has one of them.

`ConversationProofs.tla`, for every set of users, processes, requests and
commands, both providers, every limit and every `Alike`:

- `CacheAgrees`: `Spec => []CacheIsFresh`
- `OneCompaction`: `Spec => []QueuedOnce`

`Inv` says which fields stores and threads have and nothing of the messages in
them; `QueueInv` that the queue holds conversations, over which `QueuedOnce` is inductive
because it names what the compaction thread is at (`AtWork`); `DeleteInv` that a delete which has yet to evict its session is about that
session. The providers have lemmas for which rows they keep (`RowsKept`) and
which they may take (`RowsTaken`); actions are sorted by what they do to cache
and storage (`Steady`, `Open`, `Fresh`).

`TurnProofs.tla`, for the same constants:

- `TurnsAreKept`: `Spec => [](OwnIds => TurnIsKept)`
- `TurnsAreAllKept`: with `NobodyAlike`, `Spec => []TurnIsKept`

`OwnIds` says that the provider is JSON, or that SQLite's pattern `LIKE 'u_s%'`
matches no id of another user; without it `delete_super_user` does take turns of
others, so over SQLite the hypothesis is needed, and over JSON there is none.
What was overwritten from an old copy (`raced`) is excluded by the property
itself; run `TurnLost` shows that this happens.

`TurnIsKept` speaks of rows and snapshots only and is not inductive: a worker, an
undo or a compaction stores a copy it made steps before. `TurnInv` adds what is
known of those copies:

- `RowInv`: a row, stored or cached, holds only messages whose author is past
  their write (`Written`), and the row of a process conversation names the
  process in its id as owner. The first makes the message a worker is about to
  append new to every row; by the second, SQLite's delete by creator takes no
  other conversations than JSON's delete of the directory of a process.
- `WorkerInv`: a worker that is about to write has a conversation and a copy that
  is such a row.
- `CopyInv`: a compaction or undo has such a copy of a session; one about to
  replace the history has already put into a snapshot whatever of its copy is to
  be kept, so the replacement loses nothing, unless the history was written to
  meanwhile, which `raced` records.

What `WithoutSystem` keeps needs induction, and `CutFrom` and `LastOf` choose the
greatest element of a set, which has to exist. The library's induction theorems cannot be instantiated
here, but its `WFMin` (a nonempty set has a minimal element under a well-founded
relation) takes sets only: `LeastNat` and `GreatestNat` follow from it, and `WithoutSystemIs` is
proved by the least index at which it would fail. Then one lemma per action shows that it preserves `TurnInv`,
most of them from `TurnFrame`, which says what follows when rows, snapshots and
`kept` change only as stated.

Every inductive invariant was checked with TLC on the configurations of its
module before it was proved. The proofs use the named assumptions of the modules
and nothing else; those say that the constants have their types, that `None` and
the names of threads are no values of theirs, and of the terminals that times
stay below the word, so that a difference wraps only when it is negative, and of
the conversations that a new process conversation has the id of its creator, as
`generate_process_convo_id` makes it (`session_io.cpp:1049`).

Only model-checked:

- Liveness under fairness, which is out of the prover's reach: `KilledTreeDies`,
  `SilentProcessDies`, `DoneTreeCompletes`, `EveryRequestServed`,
  `EveryClientAnswered`, `MarkIsCleared`, `QueueIsServed`, `JobEnds`,
  `AcceptedIsAnswered`, `ResultIsDelivered`, `ShutdownEnds`.

Every invariant and every action property of the passing runs has a theorem.

## Not modelled

Runtime adapters, the kernel, the Python, Go, Node and Rust SDKs, gateways, model
adapters, the skill registry, file utilities and framing: input and output,
string work, or the same protocol once more. Of the modelled parts: the Windows
branches, the SSH and Docker drivers, the parser of the shell's sentinels,
terminal calls in the background, the contents of prompts, schemas, summaries
and streamed responses, session queries, failing writes of storage, and children
of a prepare that outlive a crash.

## Plan

Left to do: the SDK composed with the supervisor in place of `os_state`, and the
scheduler's workers composed with the conversations in place of `KeyFree`.
