----------------------------- MODULE Supervisor -----------------------------
(***************************************************************************)
(* The supervisor service (core/supervisor.cpp) on top of the registry:    *)
(* the request threads of its pool, the termination engine they and the    *)
(* watchdog call (core/termination_engine.cpp), the watchdog thread, the   *)
(* restart of the handler process and the shutdown in stop().              *)
(*                                                                         *)
(* One step is one critical section of the registry, one group of atomic   *)
(* accesses, or one wait: between two steps of a thread any other thread   *)
(* may run.  A request that is refused before it changes anything is the   *)
(* stuttering step.  The operating system is os_state: the processes that  *)
(* exist, whether they sent their one REGISTER_PID, and their death.       *)
(***************************************************************************)
EXTENDS ProcessRegistry

CONSTANTS
  Thread,        \* threads of thread_pool_ serving requests
  Watchdog,      \* the watchdog thread
  Main,          \* the thread that runs stop()
  Offered,       \* the requests clients make (all of them, or a part)
  BeatStatus,    \* statuses the SDKs report in heartbeats
  HbTimeout,     \* heartbeat_timeout_sec
  RuntimeLimit,  \* max_tree_runtime_sec
  MemLimit,      \* max_memory_per_tree_mb
  LlmLimit,      \* max_llm_requests_per_tree, 0 when disabled
  RestartDelay   \* handler_restart_delay_ms

Killer == Thread \cup {Watchdog, Main}
RequestKind == {"handler", "new_tree", "join", "heartbeat", "llm", "kill", "stop"}

ASSUME SupervisorAssumption ==
  /\ Watchdog # Main
  /\ {Watchdog, Main} \cap Thread = {}
  /\ Offered \subseteq RequestKind
  /\ BeatStatus \subseteq ProcessStatus
  /\ HbTimeout \in Nat /\ RuntimeLimit \in Nat /\ MemLimit \in Nat
  /\ LlmLimit \in Nat /\ RestartDelay \in Nat

VARIABLES
  req,               \* what each request thread is doing, and its locals
  hunt,              \* the kill_processes call each killer is in
  wd_pc,             \* where the watchdog is in its loop ...
  wd_now,            \* ... the now_ms it read at the top,
  wd_list,           \* tree_ids_with_created,
  wd_left,           \* the trees of the current for loop still to visit
  wd_tree,           \* and the tree of the limit checks
  os_state,          \* operating system processes
  handler_os_pid, handler_velix_pid,
  handler_needs_restart, handler_dead_since,
  main_pc            \* "running", "joining", "stopping", "stopped"

wdVars == <<wd_pc, wd_now, wd_list, wd_left, wd_tree>>
handlerVars == <<handler_os_pid, handler_velix_pid, handler_needs_restart,
                 handler_dead_since>>
vars == <<registryVars, req, hunt, wdVars, os_state, handlerVars, main_pc>>

-----------------------------------------------------------------------------
\* The locals of a request thread; which fields matter depends on op.
Request ==
  [op : {"idle", "register", "registered", "beat", "terminate", "kill"},
   os : OsPid \cup {NoPid}, tree : TreeId \cup {NewTree},
   pid : Pid \cup {NoPid}, handler : BOOLEAN, status : ProcessStatus,
   mem : Memory \cup {0}, now : Time, final : BOOLEAN]

Idle == [op |-> "idle", os |-> NoPid, tree |-> NewTree, pid |-> NoPid,
         handler |-> FALSE, status |-> "STARTING", mem |-> 0, now |-> 0,
         final |-> FALSE]

\* A kill_processes call: targets are <<velix pid, os pid>> pairs, cur is the
\* one in its grace period.  "collect": kill_tree returned, its pids are not
\* yet filtered by alive.  NoHunt: the killer is in no such call.
NoTarget == <<NoPid, NoPid>>
Target == Pid \X OsPid
Hunt == [phase : {"collect", "kill"}, targets : SUBSET Target,
         cur : Target \cup {NoTarget}]
HuntOf(phase, targets, cur) ==
  [phase |-> IF targets = {} /\ cur = NoTarget THEN "kill" ELSE phase,
   targets |-> targets, cur |-> cur]
NoHunt == HuntOf("kill", {}, NoTarget)

TargetsOf(S) == {<<p, process_table[p].os>> : p \in S}
StartHunt(k, phase, S) ==
  hunt' = [hunt EXCEPT ![k] = HuntOf(phase, TargetsOf(S), NoTarget)]

\* k's kill_processes call (if any) has returned.
HuntOver(k) == hunt[k] = NoHunt

\* "unread": gone, with a heartbeat that the supervisor has yet to read.
OsState == {"none", "up", "registering", "unread", "gone"}
WdPc == {"sleep", "cleanup", "snapshot", "list", "runtime", "memory",
         "memory_kill", "llm", "llm_kill", "complete", "handler_up",
         "handler_gone", "spawn", "fork", "exited"}

Init ==
  /\ RegistryInit
  /\ req = [t \in Thread |-> Idle]
  /\ hunt = [k \in Killer |-> NoHunt]
  /\ wd_pc = "sleep" /\ wd_now = 0
  /\ wd_list = {} /\ wd_left = {} /\ wd_tree = HandlerTree
  \* start() has forked the handler binary.
  /\ handler_os_pid \in OsPid
  \* The executioner and users start the others; when is invisible here
  \* until they register, so those that will run are up from the start.
  /\ os_state \in [OsPid -> {"none", "up"}]
  /\ os_state[handler_os_pid] = "up"
  /\ handler_velix_pid = NoPid
  /\ handler_needs_restart = FALSE
  /\ handler_dead_since = 0
  /\ main_pc = "running"

-----------------------------------------------------------------------------
(* Operating system processes (external to the supervisor). *)

\* A process exits or crashes without telling the supervisor, or right after
\* a heartbeat.
OsExit(o) ==
  /\ \/ os_state[o] \in {"up", "registering"} /\ os_state' = [os_state EXCEPT ![o] = "gone"]
     \/ os_state[o] = "registering" /\ os_state' = [os_state EXCEPT ![o] = "unread"]
  /\ UNCHANGED <<registryVars, req, hunt, wdVars, handlerVars, main_pc>>

AdvanceClock ==
  /\ Tick
  /\ UNCHANGED <<req, hunt, wdVars, os_state, handlerVars, main_pc>>

-----------------------------------------------------------------------------
(* REGISTER_PID: handle_register_pid. *)

\* An idle pool thread takes a request.  Requests accepted before stop() closed
\* the listening socket wait in the pool's queue and are still served.
Accept(t) == req[t].op = "idle" /\ main_pc # "stopped"

SendRegister(t, o, r) ==
  /\ Accept(t)
  /\ os_state[o] = "up"
  /\ os_state' = [os_state EXCEPT ![o] = "registering"]
  /\ req' = [req EXCEPT ![t] = r]
  /\ UNCHANGED <<registryVars, hunt, wdVars, handlerVars, main_pc>>

RegisterHandler(t, o, m) ==
  /\ "handler" \in Offered
  /\ tree_process_index[HandlerTree] = {}
  /\ handler_os_pid \in {NoPid, o}
  /\ SendRegister(t, o, [Idle EXCEPT !.op = "register", !.os = o, !.mem = m,
                                     !.tree = HandlerTree, !.handler = TRUE])

RegisterNewTree(t, o, m) ==
  /\ "new_tree" \in Offered
  /\ tree_counter <= MaxTree         \* bound
  /\ SendRegister(t, o, [Idle EXCEPT !.op = "register", !.os = o, !.mem = m])

RegisterJoin(t, o, m, parent) ==
  /\ "join" \in Offered
  /\ parent \in Known
  /\ process_table[parent].status \notin TerminalStatus
  /\ SendRegister(t, o, [Idle EXCEPT !.op = "register", !.os = o, !.mem = m,
                                     !.tree = process_table[parent].tree,
                                     !.pid = parent])

\* The call of register_process, after the checks above.
RegisterProcess(t) ==
  LET r == req[t]
  IN  /\ r.op = "register"
      /\ r.tree = NewTree => tree_counter <= MaxTree    \* bound
      /\ \/ /\ register_process(r.os, r.tree, r.pid, r.status, r.mem, r.handler)
            /\ req' = [req EXCEPT ![t] =
                         IF r.handler
                         THEN [Idle EXCEPT !.op = "registered",
                                           !.pid = process_counter]
                         ELSE Idle]
         \/ /\ register_rejected(r.tree, r.handler)
            /\ req' = [req EXCEPT ![t] = Idle]
      /\ UNCHANGED <<hunt, wdVars, os_state, handlerVars, main_pc>>

\* The handler tracking at the end of handle_register_pid.
TrackHandler(t) ==
  /\ req[t].op = "registered"
  /\ handler_velix_pid' = req[t].pid
  /\ handler_needs_restart' = FALSE
  /\ handler_dead_since' = 0
  /\ req' = [req EXCEPT ![t] = Idle]
  /\ UNCHANGED <<registryVars, hunt, wdVars, os_state, handler_os_pid, main_pc>>

-----------------------------------------------------------------------------
(* HEARTBEAT: handle_heartbeat. *)

\* get_process, the time, the previous status and the alive test of
\* update_heartbeat.  For a process marked dead the request changes nothing;
\* whether the process itself still exists is not looked at.
ReceiveHeartbeat(t, p, s, m) ==
  /\ "heartbeat" \in Offered
  /\ Accept(t)
  /\ IsAlive(p)
  /\ os_state[process_table[p].os] \in {"registering", "unread"}
  /\ os_state' = [os_state EXCEPT ![process_table[p].os] = IF @ = "unread" THEN "gone" ELSE @]
  /\ req' = [req EXCEPT ![t] =
               [Idle EXCEPT !.op = "beat", !.pid = p, !.status = s, !.mem = m,
                            !.now = clock,
                            !.final = /\ process_table[p].status \notin TerminalStatus
                                      /\ s \in TerminalStatus]]
  /\ UNCHANGED <<registryVars, hunt, wdVars, handlerVars, main_pc>>

StoreHeartbeat(t) ==
  LET r == req[t]
  IN  /\ r.op = "beat"
      /\ heartbeat_stores(r.pid, r.status, r.mem, r.now)
      /\ req' = [req EXCEPT ![t] =
                   IF r.final THEN [Idle EXCEPT !.op = "terminate", !.pid = r.pid]
                              ELSE Idle]
      /\ UNCHANGED <<hunt, wdVars, os_state, handlerVars, main_pc>>

TerminateFinished(t) ==
  /\ req[t].op = "terminate"
  /\ terminate_process(req[t].pid)
  /\ req' = [req EXCEPT ![t] = Idle]
  /\ UNCHANGED <<hunt, wdVars, os_state, handlerVars, main_pc>>

-----------------------------------------------------------------------------
(* LLM_REQUEST and TREE_KILL. *)

ReceiveLlmRequest(p) ==
  /\ "llm" \in Offered
  /\ main_pc # "stopped"
  /\ p \in Known
  /\ process_table[p].tree \in Trees => tree_table[process_table[p].tree].llm <= LlmLimit \* bound
  /\ increment_llm_request(process_table[p].tree)
  /\ UNCHANGED <<req, hunt, wdVars, os_state, handlerVars, main_pc>>

ReceiveTreeKill(t, tree) ==
  /\ "kill" \in Offered
  /\ Accept(t)
  /\ kill_tree(tree)
  /\ req' = [req EXCEPT ![t] = [Idle EXCEPT !.op = "kill", !.tree = tree]]
  /\ StartHunt(t, "collect", KillSet(tree))
  /\ UNCHANGED <<wdVars, os_state, handlerVars, main_pc>>

ReplyTreeKill(t) ==
  /\ req[t].op = "kill"
  /\ HuntOver(t)
  /\ req' = [req EXCEPT ![t] = Idle]
  /\ UNCHANGED <<registryVars, hunt, wdVars, os_state, handlerVars, main_pc>>

-----------------------------------------------------------------------------
(* TerminationEngine::kill_processes, run by any killer. *)

\* (defect) The test is inverted: the live targets are dropped.
CollectDead(k) ==
  /\ hunt[k].phase = "collect"
  /\ hunt' = [hunt EXCEPT ![k] =
                HuntOf("kill", {x \in @.targets : ~IsAlive(x[1])}, NoTarget)]
  /\ UNCHANGED <<registryVars, req, wdVars, os_state, handlerVars, main_pc>>

\* The callers of kill_tree look each pid up again and drop the dead ones.
CollectTargets(k) ==
  /\ hunt[k].phase = "collect"
  /\ hunt' = [hunt EXCEPT ![k] =
                HuntOf("kill", {x \in @.targets : IsAlive(x[1])}, NoTarget)]
  /\ UNCHANGED <<registryVars, req, wdVars, os_state, handlerVars, main_pc>>

\* Steps 1 to 3: mark, notify the bus, SIGTERM (the process may then OsExit).
MarkTarget(k) ==
  /\ hunt[k].phase = "kill"
  /\ hunt[k].cur = NoTarget
  /\ \E x \in hunt[k].targets :
       /\ mark_process_killed(x[1])
       /\ hunt' = [hunt EXCEPT ![k].targets = @ \ {x}, ![k].cur = x]
  /\ UNCHANGED <<req, wdVars, os_state, handlerVars, main_pc>>

\* (defect) SIGKILL is not sent to a process marked dead, which it always is.
FinishAlive(k) ==
  /\ hunt[k].cur # NoTarget
  /\ os_state' = [os_state EXCEPT ![hunt[k].cur[2]] =
                    IF IsAlive(hunt[k].cur[1]) THEN "gone" ELSE @]
  /\ terminate_process(hunt[k].cur[1])
  /\ hunt' = [hunt EXCEPT ![k].cur = NoTarget]
  /\ UNCHANGED <<req, wdVars, handlerVars, main_pc>>

\* Steps 5 and 6, after the grace period: SIGKILL, then terminate_process.
FinishTarget(k) ==
  /\ hunt[k].cur # NoTarget
  /\ os_state' = [os_state EXCEPT ![hunt[k].cur[2]] = "gone"]
  /\ terminate_process(hunt[k].cur[1])
  /\ hunt' = [hunt EXCEPT ![k].cur = NoTarget]
  /\ UNCHANGED <<req, wdVars, handlerVars, main_pc>>

-----------------------------------------------------------------------------
(* watchdog_loop *)

WatchdogAt(pc) == wd_pc = pc /\ HuntOver(Watchdog)

WdWake ==
  /\ WatchdogAt("sleep")
  /\ IF main_pc = "running"
     THEN wd_now' = clock /\ wd_pc' = "cleanup"
     ELSE wd_now' = 0 /\ wd_pc' = "exited"
  /\ UNCHANGED <<registryVars, req, hunt, wd_list, wd_left, wd_tree, os_state,
                 handlerVars, main_pc>>

WdCleanup ==
  /\ WatchdogAt("cleanup")
  /\ cleanup_historical_processes(wd_now)
  /\ wd_pc' = "snapshot"
  /\ UNCHANGED <<req, hunt, wd_now, wd_list, wd_left, wd_tree, os_state,
                 handlerVars, main_pc>>

\* The snapshot, its overdue entries as targets, and kill_processes.
WdSnapshot ==
  /\ WatchdogAt("snapshot")
  /\ StartHunt(Watchdog, "kill", OverdueAt(wd_now, HbTimeout))
  /\ wd_pc' = "list"
  /\ UNCHANGED <<registryVars, req, wd_now, wd_list, wd_left, wd_tree, os_state,
                 handlerVars, main_pc>>

\* (defect) Trees without a process are not listed.
WdListInhabited ==
  /\ WatchdogAt("list")
  /\ wd_list' = {t \in Trees \ {HandlerTree} : tree_process_index[t] # {}}
  /\ wd_left' = wd_list'
  /\ wd_pc' = IF wd_list' = {} THEN "complete" ELSE "runtime"
  /\ UNCHANGED <<registryVars, req, hunt, wd_now, wd_tree, os_state,
                 handlerVars, main_pc>>

\* get_all_tree_ids_with_created_at; TREE_HANDLER is skipped by every loop.
WdListTrees ==
  /\ WatchdogAt("list")
  /\ wd_list' = Trees \ {HandlerTree}
  /\ wd_left' = wd_list'
  /\ wd_pc' = IF wd_list' = {} THEN "complete" ELSE "runtime"
  /\ UNCHANGED <<registryVars, req, hunt, wd_now, wd_tree, os_state,
                 handlerVars, main_pc>>

\* kill_tree and kill_processes, for a limit that was found exceeded.
Enforce(tree) == kill_tree(tree) /\ StartHunt(Watchdog, "collect", KillSet(tree))

\* The time of creation is in the list: no lock is taken to compare it.
RuntimeExceeded(now, tree) == Sub(now, tree_table[tree].created) > RuntimeLimit

WdRuntime ==
  /\ WatchdogAt("runtime")
  /\ \E tree \in wd_left :
       /\ IF RuntimeExceeded(wd_now, tree) THEN Enforce(tree)
                                          ELSE UNCHANGED <<registryVars, hunt>>
       /\ wd_tree' = tree
       /\ wd_left' = wd_left \ {tree}
  /\ wd_pc' = "memory"
  /\ UNCHANGED <<req, wd_now, wd_list, os_state, handlerVars, main_pc>>

\* The other limits are compared under one lock and enforced under the next.
WdMemory ==
  /\ WatchdogAt("memory")
  /\ wd_pc' = IF compute_tree_memory_mb(wd_tree) > MemLimit THEN "memory_kill" ELSE "llm"
  /\ UNCHANGED <<registryVars, req, hunt, wd_now, wd_list, wd_left, wd_tree,
                 os_state, handlerVars, main_pc>>

WdMemoryKill ==
  /\ WatchdogAt("memory_kill")
  /\ Enforce(wd_tree)
  /\ wd_pc' = "llm"
  /\ UNCHANGED <<req, wd_now, wd_list, wd_left, wd_tree, os_state, handlerVars,
                 main_pc>>

\* The next tree; after the last one the completion loop starts.
NextTree ==
  /\ wd_pc' = IF wd_left = {} THEN "complete" ELSE "runtime"
  /\ wd_left' = IF wd_left = {} THEN wd_list ELSE wd_left
  /\ wd_tree' = HandlerTree

WdLlm ==
  /\ WatchdogAt("llm")
  /\ IF LlmLimit > 0 /\ tree_table[wd_tree].llm > LlmLimit
     THEN wd_pc' = "llm_kill" /\ UNCHANGED <<wd_left, wd_tree>>
     ELSE NextTree
  /\ UNCHANGED <<registryVars, req, hunt, wd_now, wd_list, os_state,
                 handlerVars, main_pc>>

WdLlmKill ==
  /\ WatchdogAt("llm_kill")
  /\ Enforce(wd_tree)
  /\ NextTree
  /\ UNCHANGED <<req, wd_now, wd_list, os_state, handlerVars, main_pc>>

WdComplete ==
  /\ WatchdogAt("complete")
  /\ \E tree \in wd_left :
       /\ mark_tree_completed_if_done(tree)
       /\ wd_left' = wd_left \ {tree}
  /\ UNCHANGED <<req, hunt, wd_pc, wd_now, wd_list, wd_tree, os_state,
                 handlerVars, main_pc>>

\* Handler restart monitoring: first the look at the registry ...
WdHandlerCheck ==
  /\ WatchdogAt("complete")
  /\ wd_left = {}
  /\ wd_pc' = IF IsAlive(handler_velix_pid) THEN "handler_up" ELSE "handler_gone"
  /\ wd_now' = 0 /\ wd_list' = {}     \* not used after the loops
  /\ UNCHANGED <<registryVars, req, hunt, wd_left, wd_tree, os_state,
                 handlerVars, main_pc>>

WdHandlerUp ==
  /\ wd_pc = "handler_up"
  /\ handler_needs_restart' = FALSE
  /\ wd_pc' = "sleep"
  /\ UNCHANGED <<registryVars, req, hunt, wd_now, wd_list, wd_left, wd_tree,
                 os_state, handler_os_pid, handler_velix_pid,
                 handler_dead_since, main_pc>>

\* ... then the decision, on flags a request thread may have changed since.
WdHandlerGone ==
  /\ wd_pc = "handler_gone"
  /\ IF ~handler_needs_restart
     THEN /\ handler_needs_restart' = TRUE
          /\ handler_dead_since' = clock
          /\ wd_pc' = "sleep"
     ELSE /\ wd_pc' = IF clock - handler_dead_since >= RestartDelay
                      THEN "spawn" ELSE "sleep"
          /\ UNCHANGED <<handler_needs_restart, handler_dead_since>>
  /\ UNCHANGED <<registryVars, req, hunt, wd_now, wd_list, wd_left, wd_tree,
                 os_state, handler_os_pid, handler_velix_pid, main_pc>>

\* spawn_handler_process: SIGTERM, 500 ms, SIGKILL for the previous handler ...
WdKillPrevious ==
  /\ wd_pc = "spawn"
  /\ os_state' = [o \in OsPid |-> IF o = handler_os_pid THEN "gone"
                                                       ELSE os_state[o]]
  /\ handler_os_pid' = NoPid
  /\ wd_pc' = "fork"
  /\ UNCHANGED <<registryVars, req, hunt, wd_now, wd_list, wd_left, wd_tree,
                 handler_velix_pid, handler_needs_restart, handler_dead_since,
                 main_pc>>

\* ... then fork() and execv(), or the logged failure of fork().
WdFork ==
  /\ wd_pc = "fork"
  /\ \/ \E o \in OsPid :
          /\ os_state[o] = "none"
          /\ os_state' = [os_state EXCEPT ![o] = "up"]
          /\ handler_os_pid' = o
     \/ UNCHANGED <<os_state, handler_os_pid>>
  /\ handler_needs_restart' = FALSE
  /\ wd_pc' = "sleep"
  /\ UNCHANGED <<registryVars, req, hunt, wd_now, wd_list, wd_left, wd_tree,
                 handler_velix_pid, handler_dead_since, main_pc>>

-----------------------------------------------------------------------------
(* stop() *)

\* running_ = false and the listening socket is closed.
StopBegin ==
  /\ "stop" \in Offered
  /\ main_pc = "running"
  /\ main_pc' = "joining"
  /\ UNCHANGED <<registryVars, req, hunt, wdVars, os_state, handlerVars>>

\* The watchdog is joined; every live process becomes a target.
StopSnapshot ==
  /\ main_pc = "joining"
  /\ wd_pc = "exited"
  /\ StartHunt(Main, "kill", {p \in Known : process_table[p].alive})
  /\ main_pc' = "stopping"
  /\ UNCHANGED <<registryVars, req, wdVars, os_state, handlerVars>>

StopDone ==
  /\ main_pc = "stopping"
  /\ HuntOver(Main)
  /\ main_pc' = "stopped"
  /\ UNCHANGED <<registryVars, req, hunt, wdVars, os_state, handlerVars>>

-----------------------------------------------------------------------------
ThreadStep(t) ==
  \/ RegisterProcess(t)
  \/ TrackHandler(t)
  \/ StoreHeartbeat(t)
  \/ TerminateFinished(t)
  \/ ReplyTreeKill(t)

KillerStep(k) == CollectTargets(k) \/ MarkTarget(k) \/ FinishTarget(k)

WatchdogStep ==
  \/ WdWake \/ WdCleanup \/ WdSnapshot \/ WdListTrees
  \/ WdRuntime \/ WdMemory \/ WdMemoryKill \/ WdLlm \/ WdLlmKill \/ WdComplete
  \/ WdHandlerCheck \/ WdHandlerUp \/ WdHandlerGone \/ WdKillPrevious \/ WdFork

Requests(t) ==
  \/ \E o \in OsPid, m \in Memory :
       \/ RegisterHandler(t, o, m)
       \/ RegisterNewTree(t, o, m)
       \/ \E p \in Known : RegisterJoin(t, o, m, p)
  \/ \E p \in Known, s \in BeatStatus, m \in Memory : ReceiveHeartbeat(t, p, s, m)
  \/ \E tree \in TreeId : ReceiveTreeKill(t, tree)

Next ==
  \/ \E o \in OsPid : OsExit(o)
  \/ AdvanceClock
  \/ \E t \in Thread : Requests(t) \/ ThreadStep(t)
  \/ \E p \in Known : ReceiveLlmRequest(p)
  \/ \E k \in Killer : KillerStep(k)
  \/ WatchdogStep
  \/ StopBegin \/ StopSnapshot \/ StopDone

Spec == Init /\ [][Next]_vars

\* Threads are scheduled, sleeps and grace periods end, time passes.  Nothing
\* is assumed of clients, of processes or of stop().
Fairness ==
  /\ \A t \in Thread : WF_vars(ThreadStep(t))
  /\ \A k \in Killer : WF_vars(KillerStep(k))
  /\ WF_vars(WatchdogStep)
  /\ WF_vars(AdvanceClock)

FairSpec == Spec /\ Fairness

-----------------------------------------------------------------------------
(* Properties *)

\* Every variable stays in its type.
TypeOK ==
  /\ RegistryTypeOK
  /\ req \in [Thread -> Request]
  /\ hunt \in [Killer -> Hunt]
  /\ wd_pc \in WdPc
  /\ wd_now \in Time
  /\ wd_list \subseteq Trees /\ wd_left \subseteq wd_list
  /\ wd_tree \in Trees
  /\ os_state \in [OsPid -> OsState]
  /\ handler_os_pid \in OsPid \cup {NoPid}
  /\ handler_velix_pid \in Pid \cup {NoPid}
  /\ handler_needs_restart \in BOOLEAN
  /\ handler_dead_since \in Time
  /\ main_pc \in {"running", "joining", "stopping", "stopped"}

\* A live process can be found through its tree: kill_tree, the memory sum and
\* mark_tree_completed_if_done, which only read the index, cannot miss it.
AliveIsIndexed ==
  \A p \in Known : process_table[p].alive =>
                     p \in tree_process_index[process_table[p].tree]

\* The index never dangles: cleanup_historical_processes does not erase a
\* process that its tree or its parent still refers to.
IndexIsKnown ==
  /\ \A t \in TreeId : \A p \in tree_process_index[t] :
       p \in Known /\ process_table[p].tree = t
  /\ \A c \in process_children :
       /\ c[2] \in Known
       /\ process_table[c[2]].parent = c[1]
       /\ c[2] \in tree_process_index[process_table[c[2]].tree]

\* mark_tree_completed_if_done only closes trees that stay empty: no process
\* of a COMPLETED tree is alive, whatever registrations were in flight.
CompletedIsEmpty ==
  \A t \in Trees : tree_table[t].status = "COMPLETED" => AliveIn(t) = {}

\* A process of a killed tree that is still alive is on the target list of some
\* kill_processes call in progress: no process slips into the tree between
\* kill_tree and the kills.  (TREE_HANDLER is reopened by a handler.)
KilledIsHunted ==
  \A t \in Trees \ {HandlerTree} :
    tree_table[t].status = "KILLED" =>
      \A p \in AliveIn(t) :
        \E k \in Killer : \E x \in hunt[k].targets : x[1] = p

\* Once kill_processes is done with a process, its OS process is gone.
KilledIsGone ==
  \A p \in Known :
    /\ ~process_table[p].alive
    /\ process_table[p].term = 0
    /\ \A k \in Killer : hunt[k].cur[1] # p
    => os_state[process_table[p].os] = "gone"

\* A tree that was killed has no live process in the end.
KilledTreeDies ==
  \A t \in TreeId \ {HandlerTree} :
    (t \in Trees /\ tree_table[t].status = "KILLED") ~> (AliveIn(t) = {})

\* The bounded clock can still pass the deadline of p.
DeadlineAhead(p) ==
  /\ process_table[p].hb + HbTimeout < MaxTime
  /\ \A t \in Thread : req[t].op = "beat" /\ req[t].pid = p =>
                          req[t].now + HbTimeout < MaxTime

\* A process that died silently is taken for dead in the end, unless the
\* supervisor itself stops.
SilentProcessDies ==
  \A p \in Pid :
    (/\ IsAlive(p)
     /\ os_state[process_table[p].os] = "gone"
     /\ DeadlineAhead(p)) ~> (~IsAlive(p) \/ main_pc # "running")

\* A tree whose processes all left in good order is not forgotten: it is
\* marked COMPLETED (or killed, or joined again) unless the supervisor stops.
DoneTreeCompletes ==
  \A t \in TreeId : TreeDone(t) ~> (~TreeDone(t) \/ main_pc # "running")

-----------------------------------------------------------------------------
(* What the documentation says and the code does not do: see the findings. *)

\* auto_restart: when no process of TREE_HANDLER is alive, or being killed, the
\* handler binary the supervisor forked may register.
RestartedHandlerMayRegister ==
  /\ handler_os_pid # NoPid
  /\ os_state[handler_os_pid] = "up"
  /\ AliveIn(HandlerTree) = {}
  /\ \A k \in Killer : HuntOver(k)
  => tree_process_index[HandlerTree] = {}

\* The runtime limit kills trees that have been running too long.
OnlyOldTreesTimeOut ==
  [][\A t \in Trees :
       /\ WdRuntime
       /\ tree_table[t].status = "ACTIVE"
       /\ tree_table'[t].status = "KILLED"
       => clock - tree_table[t].created > RuntimeLimit]_vars
=============================================================================
