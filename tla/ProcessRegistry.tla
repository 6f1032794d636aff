--------------------------- MODULE ProcessRegistry ---------------------------
(***************************************************************************)
(* The supervisor's ProcessRegistry (core/process_registry.hpp and .cpp):  *)
(* the process table, the tree table, the two indexes derived from them,   *)
(* and the operations the supervisor's threads call.  Every operator below *)
(* that primes a variable is one critical section of registry_mutex_ (or   *)
(* one group of lock-free stores); module Supervisor interleaves them.     *)
(*                                                                         *)
(* Process ids start at 1 here (at 1000 in the code) and tree TREE_n is    *)
(* the number n + 1; 0 is TREE_HANDLER.  process_children_ is the set of   *)
(* <<parent, child>> pairs and tree_process_index_ maps every tree to the  *)
(* set of its pids, so the code's erase-the-entry-when-empty is implicit.  *)
(*                                                                         *)
(* An operator marked (defect) is a plausible wrong version of the one     *)
(* after it.  Nothing uses it: put in that one's place it breaks a         *)
(* property, which shows what the property guards against.                 *)
(***************************************************************************)
EXTENDS Integers, FiniteSets, FiniteSetsExt

CONSTANTS
  MaxPid,      \* numeric_limits<int>::max(): the last pid that can be given
  MaxTree,     \* bound on the trees created besides TREE_HANDLER
  OsPid,       \* operating system process ids
  Memory,      \* values a process can report as memory_mb
  MaxTime,     \* bound on the clock
  Word,        \* the modulus of uint64_t arithmetic
  Retention    \* retention_ms of cleanup_historical_processes

NoPid == -1

ASSUME RegistryAssumption ==
  /\ NoPid \notin OsPid
  /\ MaxPid \in Nat \ {0}
  /\ MaxTree \in Nat
  /\ Memory \subseteq Nat
  /\ MaxTime \in Nat \ {0}
  /\ Word \in Nat /\ Word > MaxTime
  /\ Retention \in Nat

VARIABLES
  process_table,       \* pid -> ProcessInfo, live and historical processes
  tree_table,          \* tree id -> TreeInfo
  tree_process_index,  \* tree id -> pids registered in it and not removed
  process_children,    \* <<parent pid, child pid>> pairs
  process_counter,     \* the next pid; MaxPid + 1 once the space is exhausted
  tree_counter,        \* the next tree id
  clock                \* system_clock::now()

registryVars == <<process_table, tree_table, tree_process_index,
                  process_children, process_counter, tree_counter, clock>>

-----------------------------------------------------------------------------
Pid == 1 .. MaxPid
TreeId == 0 .. MaxTree
HandlerTree == 0
NewTree == -1          \* the empty tree_id: "let the registry create it"
Time == 0 .. MaxTime

ProcessStatus == {"STARTING", "RUNNING", "WAITING_LLM", "WAITING_EXEC",
                  "FINISHED", "ERROR", "KILLED"}
TerminalStatus == {"FINISHED", "ERROR", "KILLED"}
TreeStatus == {"ACTIVE", "COMPLETED", "FAILED", "KILLED"}

ProcessInfo == [tree : TreeId, parent : Pid \cup {NoPid}, os : OsPid,
                status : ProcessStatus, mem : Memory \cup {0}, hb : Time,
                alive : BOOLEAN, term : Time]
TreeInfo == [root : Pid \cup {NoPid}, created : Time, status : TreeStatus,
             llm : Nat]

\* uint64_t subtraction: it wraps when b is later than a.
Sub(a, b) == (a - b) % Word

\* The map f with key k set to v.
Put(f, k, v) == [x \in DOMAIN f \cup {k} |-> IF x = k THEN v ELSE f[x]]

Known == DOMAIN process_table
Trees == DOMAIN tree_table
IsAlive(p) == p \in Known /\ process_table[p].alive
AliveIn(t) == {p \in Known : process_table[p].tree = t /\ process_table[p].alive}

-----------------------------------------------------------------------------
\* The constructor, then register_system_handler_tree().
FreshTree == [root |-> NoPid, created |-> clock, status |-> "ACTIVE", llm |-> 0]

RegistryInit ==
  /\ clock = 1
  /\ process_table = [p \in {} |-> 0]
  /\ tree_table = [t \in {HandlerTree} |-> FreshTree]
  /\ tree_process_index = [t \in TreeId |-> {}]
  /\ process_children = {}
  /\ process_counter = 1
  /\ tree_counter = 1

\* The system clock advances (bounded by MaxTime).
Tick ==
  /\ clock < MaxTime
  /\ clock' = clock + 1
  /\ UNCHANGED <<process_table, tree_table, tree_process_index,
                 process_children, process_counter, tree_counter>>

-----------------------------------------------------------------------------
\* (defect) The status of the tree that is joined is not tested.
CanRegisterAnyTree(tree, isHandler) ==
  /\ process_counter <= MaxPid
  /\ isHandler \/ tree = NewTree \/ tree \in Trees

\* What register_process checks under the lock: a pid is left and a tree that
\* is joined exists and is ACTIVE (the system handler skips the tree check).
CanRegister(tree, isHandler) ==
  /\ process_counter <= MaxPid
  /\ \/ isHandler
     \/ tree = NewTree
     \/ tree \in Trees /\ tree_table[tree].status = "ACTIVE"

\* (defect) The counter is advanced by the check and again by the registration.
NextCounterTwice == process_counter + 2

\* The pid is consumed whether or not the registration succeeds.
NextCounter == IF process_counter <= MaxPid THEN process_counter + 1
                                            ELSE process_counter

register_process(o, tree, parent, status, mem, isHandler) ==
  LET pid == process_counter
      t == IF tree = NewTree THEN tree_counter ELSE tree
      isRoot == isHandler \/ tree = NewTree
      base == IF tree = NewTree THEN Put(tree_table, t, FreshTree)
                                ELSE tree_table
  IN  /\ CanRegister(tree, isHandler)
      /\ process_table' =
           Put(process_table, pid,
               [tree |-> t, parent |-> parent, os |-> o, status |-> status,
                mem |-> mem, hb |-> clock, alive |-> TRUE, term |-> 0])
      /\ tree_table' = IF isRoot THEN [base EXCEPT ![t].root = pid] ELSE base
      /\ tree_process_index' =
           [tree_process_index EXCEPT ![t] = @ \cup {pid}]
      /\ process_children' =
           process_children \cup (IF parent = NoPid THEN {}
                                                    ELSE {<<parent, pid>>})
      /\ process_counter' = NextCounter
      /\ tree_counter' = IF tree = NewTree THEN tree_counter + 1
                                           ELSE tree_counter
      /\ UNCHANGED clock

register_rejected(tree, isHandler) ==
  /\ ~CanRegister(tree, isHandler)
  /\ process_counter' = NextCounter
  /\ UNCHANGED <<process_table, tree_table, tree_process_index,
                 process_children, tree_counter, clock>>

\* The three stores of update_heartbeat.  The caller tested alive before, so
\* they may land on a process that has died, or left the table, meanwhile.
heartbeat_stores(p, status, mem, now) ==
  /\ process_table' =
       IF p \in Known
       THEN [process_table EXCEPT
               ![p] = [@ EXCEPT !.status = status, !.mem = mem, !.hb = now]]
       ELSE process_table
  /\ UNCHANGED <<tree_table, tree_process_index, process_children,
                 process_counter, tree_counter, clock>>

\* kill_tree returns these pids to its caller ...
KillSet(t) == {p \in tree_process_index[t] : IsAlive(p)}

\* ... and marks them, and the tree, KILLED.  They stay alive.
kill_tree(t) ==
  /\ tree_table' = IF t \in Trees
                   THEN [tree_table EXCEPT ![t].status = "KILLED"]
                   ELSE tree_table
  /\ process_table' = [p \in Known |->
                         IF p \in KillSet(t)
                         THEN [process_table[p] EXCEPT !.status = "KILLED"]
                         ELSE process_table[p]]
  /\ UNCHANGED <<tree_process_index, process_children, process_counter,
                 tree_counter, clock>>

mark_process_killed(p) ==
  /\ process_table' =
       IF p \in Known
       THEN [process_table EXCEPT
               ![p] = [@ EXCEPT !.status = "KILLED", !.alive = FALSE]]
       ELSE process_table
  /\ UNCHANGED <<tree_table, tree_process_index, process_children,
                 process_counter, tree_counter, clock>>

\* (defect) The process leaves the index but stays alive.
terminate_process_keeps_alive(p) ==
  /\ tree_process_index' = IF IsAlive(p)
                           THEN [tree_process_index EXCEPT ![process_table[p].tree] = @ \ {p}]
                           ELSE tree_process_index
  /\ UNCHANGED <<process_table, tree_table, process_children, process_counter,
                 tree_counter, clock>>

\* Idempotent: nothing happens for a process that alive.exchange(false) finds
\* already dead, which is also the state mark_process_killed leaves.
terminate_process(p) ==
  IF ~IsAlive(p)
  THEN UNCHANGED registryVars
  ELSE /\ process_table' =
            [process_table EXCEPT ![p] = [@ EXCEPT !.alive = FALSE, !.term = clock]]
       /\ tree_process_index' =
            [tree_process_index EXCEPT ![process_table[p].tree] = @ \ {p}]
       /\ process_children' =
            {c \in process_children : c[1] # p /\
                                      c # <<process_table[p].parent, p>>}
       /\ UNCHANGED <<tree_table, process_counter, tree_counter, clock>>

increment_llm_request(t) ==
  /\ tree_table' = IF t \in Trees
                   THEN [tree_table EXCEPT ![t].llm = @ + 1]
                   ELSE tree_table
  /\ UNCHANGED <<process_table, tree_process_index, process_children,
                 process_counter, tree_counter, clock>>

\* (defect) A termination time of 0, "never set", counts as long ago.
ExpiredUnset(now) ==
  {p \in Known : ~process_table[p].alive /\ Sub(now, process_table[p].term) > Retention}

\* Dead processes whose termination time is older than the retention.
Expired(now) ==
  {p \in Known : /\ ~process_table[p].alive
                 /\ process_table[p].term > 0
                 /\ Sub(now, process_table[p].term) > Retention}

cleanup_historical_processes(now) ==
  /\ process_table' = [p \in Known \ Expired(now) |-> process_table[p]]
  /\ UNCHANGED <<tree_table, tree_process_index, process_children,
                 process_counter, tree_counter, clock>>

\* (defect) A process that never reported RUNNING is not timed out.
OverdueRunning(now, timeout) ==
  {p \in Known : /\ process_table[p].alive /\ process_table[p].status = "RUNNING"
                 /\ Sub(now, process_table[p].hb) > timeout}

\* The watchdog's view of the live processes that look overdue at time now.
OverdueAt(now, timeout) ==
  {p \in Known : /\ process_table[p].alive
                 /\ Sub(now, process_table[p].hb) > timeout}

compute_tree_memory_mb(t) ==
  MapThenSumSet(LAMBDA p : process_table[p].mem,
                tree_process_index[t] \cap Known)

\* (defect) Only the reported statuses are looked at, not the index.
TreeDoneByStatus(t) ==
  /\ t \in Trees /\ t # HandlerTree /\ tree_table[t].status = "ACTIVE"
  /\ \A p \in Known : process_table[p].tree = t =>
                        process_table[p].status \in TerminalStatus

\* The test of mark_tree_completed_if_done.
TreeDone(t) ==
  /\ t \in Trees
  /\ t # HandlerTree
  /\ tree_table[t].status = "ACTIVE"
  /\ tree_process_index[t] = {}
  /\ \A p \in Known : process_table[p].tree = t =>
                        process_table[p].status \in TerminalStatus

mark_tree_completed_if_done(t) ==
  /\ tree_table' = IF TreeDone(t)
                   THEN [tree_table EXCEPT ![t].status = "COMPLETED"]
                   ELSE tree_table
  /\ UNCHANGED <<process_table, tree_process_index, process_children,
                 process_counter, tree_counter, clock>>

-----------------------------------------------------------------------------
RegistryTypeOK ==
  /\ Known \subseteq Pid
  /\ process_table \in [Known -> ProcessInfo]
  /\ Trees \subseteq TreeId
  /\ tree_table \in [Trees -> TreeInfo]
  /\ tree_process_index \in [TreeId -> SUBSET Pid]
  /\ process_children \subseteq Pid \X Pid
  /\ process_counter \in 1 .. (MaxPid + 1)
  /\ tree_counter \in 1 .. (MaxTree + 1)
  /\ clock \in Time
=============================================================================
