---------------------------- MODULE Executioner ----------------------------
(***************************************************************************)
(* The executioner (src/execution): a pool of threads that resolve a       *)
(* package, prepare it once per content (PrepareCoalescer in memory, a     *)
(* status file per cache key on disk) and launch it, while an accept loop  *)
(* reaps every child of the process.                                       *)
(*                                                                         *)
(* The cache key is the hash of all files of the package: the sources and  *)
(* what earlier prepares left among them.  The locks of the coalescer, of  *)
(* a slot, of the package cache and of a status file each make an action.  *)
(* A crash loses what is in memory; the disk stays.                        *)
(***************************************************************************)
EXTENDS Naturals, FiniteSets

CONSTANTS Request,      \* requests, each with a connection of its own
          Load,         \* workloads; a behaviour has one: the message of each
                        \* request, and which of Event happen around them
          Package,
          Steps,        \* prepare steps of a package
          Threads, MaxQueue,
          MaxEdits, MaxCrashes,   \* bounds
          None

MessageType == [type : {"EXEC_VELIX_PROCESS", "EXEC_CACHE_CLEAN", "EXEC_CACHE_PRUNE"},
                pkg : Package, force : BOOLEAN, valid : BOOLEAN]
Event == {"stop", "edit", "crash"}
\* The contents a package's sources may have.
Version == 0 .. MaxEdits
Key == [pkg : Package, src : Version, art : Version \cup {None}]

ASSUME ExecutionerAssumption ==
  /\ \A l \in DOMAIN Load : Load[l] \in [plan : [Request -> MessageType], events : SUBSET Event]
  /\ Steps \in Nat /\ Threads \in Nat \ {0} /\ MaxQueue \in Nat
  /\ MaxEdits \in Nat /\ MaxCrashes \in Nat
  /\ None \notin Request \cup Version \cup Key
  /\ None \notin {"up", "ok", "bad", "reaped", "preparing", "ready", "failed"}

VARIABLES
  load, running,
  disk,        \* package -> [src, art]: its sources and what was built of them
  status,      \* key -> status.json of its cache directory; "absent" without one
  pkg_cache,   \* package -> the cache key that was computed for it, or None
  slots,       \* the coalescer's map_: key -> the request that leads, or None
  slot,        \* request -> the state of the slot it made
  req,         \* request -> [pc, key, leads, step, ok]
  child,       \* request -> the child of its running prepare step
  held,        \* requests whose child's output pipe another process holds open
  edits, crashes,
  prepared,    \* history: keys that a prepare went through for
  launched     \* history: requests whose process was spawned

proc == <<child, held>>
vars == <<load, running, disk, status, pkg_cache, slots, slot, req, proc, edits, crashes,
          prepared, launched>>
counters == <<load, edits, crashes>>
Happens(e) == e \in Load[load].events
history == <<prepared, launched>>
coalescer == <<slots, slot>>

Idle == [pc |-> "new", key |-> None, leads |-> None, step |-> 0, ok |-> FALSE]

Init ==
  /\ load \in DOMAIN Load /\ running = TRUE
  /\ disk = [p \in Package |-> [src |-> 0, art |-> None]]
  /\ status = [k \in Key |-> "absent"]
  /\ pkg_cache = [p \in Package |-> None]
  /\ slots = [k \in Key |-> None] /\ slot = [r \in Request |-> None]
  /\ req = [r \in Request |-> Idle] /\ child = [r \in Request |-> None] /\ held = {}
  /\ edits = 0 /\ crashes = 0
  /\ prepared = {} /\ launched = {}

Msg(r) == Load[load].plan[r]
At(r, pc) == req[r].pc = pc
Go(r, pc) == req' = [req EXCEPT ![r].pc = pc]
Answer(r, ok) == req' = [req EXCEPT ![r] = [@ EXCEPT !.pc = "done", !.leads = None, !.step = 0,
                                                    !.ok = ok]]
Busy == {r \in Request : ~(req[r].pc \in {"new", "queued", "done", "lost"})}
Queued == {r \in Request : At(r, "queued")}

----------------------------------------------------------------------------
(* The accept loop                                                         *)

\* A connection is queued for the pool, or told that the executioner is busy.
Accept(r) ==
  /\ running /\ At(r, "new")
  /\ Go(r, IF Cardinality(Queued) < MaxQueue THEN "queued" ELSE "done")
  /\ UNCHANGED <<running, disk, status, pkg_cache, coalescer, proc, counters, history>>

\* waitpid(-1) of the accept loop takes the exit status of any child.
reap_children ==
  /\ \E r \in Request : child[r] \in {"ok", "bad"}
  /\ child' = [r \in Request |-> IF child[r] \in {"ok", "bad"} THEN "reaped" ELSE child[r]]
  /\ UNCHANGED <<running, disk, status, pkg_cache, coalescer, req, held, counters, history>>

stop ==
  /\ Happens("stop") /\ running /\ running' = FALSE
  /\ UNCHANGED <<disk, status, pkg_cache, coalescer, req, proc, counters, history>>

----------------------------------------------------------------------------
(* A request, up to the coalescer                                          *)

\* A thread takes a request.  What is wrong with an invalid one is found before
\* the package is resolved (intent, source pid, name) or after it (Checked).
handle_exec_request(r) ==
  /\ At(r, "queued") /\ Cardinality(Busy) < Threads
  /\ LET m == Msg(r) IN
     \/ m.type = "EXEC_CACHE_CLEAN" /\ Go(r, "clean")
     \/ m.type = "EXEC_CACHE_PRUNE" /\ Go(r, "prune")
     \/ m.type = "EXEC_VELIX_PROCESS" /\ ~m.valid /\ Answer(r, FALSE)
     \/ m.type = "EXEC_VELIX_PROCESS" /\ Go(r, "resolve")
  /\ UNCHANGED <<running, disk, status, pkg_cache, coalescer, proc, counters, history>>

compute_cache_key(p) == [pkg |-> p, src |-> disk[p].src, art |-> disk[p].art]

\* The parameters, the workdir, the adapter and the prepare steps are in order.
Checked(r) == IF Msg(r).valid THEN "enter" ELSE "done"

\* The cached key unless it is missing or a refresh is forced; the disk is
\* scanned without a lock, then the cache is written.
resolve_package(r) ==
  LET p == Msg(r).pkg
      fresh == Msg(r).force \/ pkg_cache[p] = None
  IN
  /\ At(r, "resolve")
  /\ req' = [req EXCEPT ![r].key = IF fresh THEN compute_cache_key(p) ELSE pkg_cache[p],
                        ![r].pc = IF fresh THEN "put" ELSE Checked(r)]
  /\ UNCHANGED <<running, disk, status, pkg_cache, coalescer, proc, counters, history>>
PutPackage(r) ==
  /\ At(r, "put")
  /\ pkg_cache' = [pkg_cache EXCEPT ![Msg(r).pkg] = req[r].key]
  /\ Go(r, Checked(r))
  /\ UNCHANGED <<running, disk, status, coalescer, proc, counters, history>>

\* (defect) A request whose leader has failed leads as well.
EnterAfterFailure(r) ==
  LET k == req[r].key
      leads == slots[k] = None \/ slot[slots[k]] = "failed"
  IN
  /\ At(r, "enter")
  /\ slots' = IF leads THEN [slots EXCEPT ![k] = r] ELSE slots
  /\ slot' = IF leads THEN [slot EXCEPT ![r] = "preparing"] ELSE slot
  /\ req' = [req EXCEPT ![r].pc = IF leads THEN "open" ELSE "wait",
                        ![r].leads = IF leads THEN r ELSE slots[k]]
  /\ UNCHANGED <<running, disk, status, pkg_cache, proc, counters, history>>
\* The first request for a key leads, the others follow it.
enter(r) ==
  LET k == req[r].key
      leads == slots[k] = None
  IN
  /\ At(r, "enter")
  /\ slots' = IF leads THEN [slots EXCEPT ![k] = r] ELSE slots
  /\ slot' = IF leads THEN [slot EXCEPT ![r] = "preparing"] ELSE slot
  /\ req' = [req EXCEPT ![r].pc = IF leads THEN "open" ELSE "wait",
                        ![r].leads = IF leads THEN r ELSE slots[k]]
  /\ UNCHANGED <<running, disk, status, pkg_cache, proc, counters, history>>

\* A follower waits for the state of the slot, or for its own deadline.
wait(r) ==
  /\ At(r, "wait")
  /\ \/ slot[req[r].leads] = "ready" /\ Go(r, "launch")
     \/ slot[req[r].leads] = "failed" /\ Answer(r, FALSE)
     \/ slot[req[r].leads] = "preparing" /\ Answer(r, FALSE)   \* prepare_peer_timeout
  /\ UNCHANGED <<running, disk, status, pkg_cache, coalescer, proc, counters, history>>

----------------------------------------------------------------------------
(* The leader                                                              *)

SetStatus(k, s) == status' = [status EXCEPT ![k] = s]
Present(k) == status[k] # "absent"

\* The cache directory is made; a refresh removes it first.
OpenCache(r) ==
  LET k == req[r].key IN
  /\ At(r, "open")
  /\ IF Msg(r).force THEN SetStatus(k, "none") /\ Go(r, "begin")
     ELSE /\ IF Present(k) THEN UNCHANGED status ELSE SetStatus(k, "none")
          /\ Go(r, "read")
  /\ UNCHANGED <<running, disk, pkg_cache, coalescer, proc, counters, history>>

\* (defect) Only a failed prepare is done again.
UsableUnlessFailed(s) == s \in {"ready", "preparing"}
\* "preparing" is the trace of a crash.
Usable(s) == s = "ready"
\* (defect) The way out of a failed lock does not tell the coalescer.
LockFailureForgets == "done"
LockFailure == "fail"
\* The status file, under its lock; no lock without the directory.
ReadStatus(r) ==
  LET k == req[r].key IN
  /\ At(r, "read")
  /\ IF ~Present(k) THEN Go(r, LockFailure) /\ UNCHANGED status
     ELSE IF Usable(status[k]) THEN Go(r, "finish") /\ UNCHANGED status
     ELSE Go(r, "begin") /\ SetStatus(k, "none")
  /\ UNCHANGED <<running, disk, pkg_cache, coalescer, proc, counters, history>>
WritePreparing(r) ==
  /\ At(r, "begin")
  /\ IF Present(req[r].key) THEN Go(r, "step") /\ SetStatus(req[r].key, "preparing")
     ELSE Go(r, LockFailure) /\ UNCHANGED status
  /\ UNCHANGED <<running, disk, pkg_cache, coalescer, proc, counters, history>>
\* execute_prepare: the steps run one by one in the directory of the package.
execute_prepare(r) ==
  /\ At(r, "step")
  /\ IF req[r].step = Steps
     THEN /\ Go(r, "ready") /\ prepared' = prepared \cup {req[r].key}
          /\ UNCHANGED child
     ELSE Go(r, "sync") /\ child' = [child EXCEPT ![r] = "up"] /\ UNCHANGED prepared
  /\ UNCHANGED <<running, disk, status, pkg_cache, coalescer, held, counters, launched>>
ChildExit(r) ==
  LET p == req[r].key.pkg IN
  /\ child[r] = "up"
  /\ \/ /\ child' = [child EXCEPT ![r] = "ok"]
        /\ disk' = [disk EXCEPT ![p].art = disk[p].src]
     \/ child' = [child EXCEPT ![r] = "bad"] /\ UNCHANGED disk
  /\ UNCHANGED <<running, status, pkg_cache, coalescer, req, held, counters, history>>
\* A process that the child starts, or that another thread forks before the
\* executioner has closed its end, inherits the write end of the pipe; it
\* closes it when it likes.
Inherit(r) ==
  /\ child[r] = "up" /\ r \notin held /\ held' = held \cup {r}
  /\ UNCHANGED <<running, disk, status, pkg_cache, coalescer, req, child, counters, history>>
Release(r) ==
  /\ r \in held /\ held' = held \ {r}
  /\ UNCHANGED <<running, disk, status, pkg_cache, coalescer, req, child, counters, history>>

\* (defect) A step has no deadline.
NeverTimedOut(r) == FALSE
\* The deadline of a step may pass before its child is seen to have ended; a
\* child that was reaped elsewhere is never seen.
TimedOut(r) == TRUE
run_sync_with_timeout(r) ==
  /\ At(r, "sync")
  /\ \/ child[r] = "ok" /\ req' = [req EXCEPT ![r].pc = "drain", ![r].ok = TRUE]
     \/ (child[r] = "bad" \/ TimedOut(r)) /\ Go(r, "drain")
  /\ child' = [child EXCEPT ![r] = None]
  /\ UNCHANGED <<running, disk, status, pkg_cache, coalescer, held, counters, history>>
\* Then the output is read to its end, without a deadline: the pipe is at its
\* end when the last process that holds it has closed it.
Drain(r) ==
  /\ At(r, "drain") /\ r \notin held
  /\ IF req[r].ok THEN req' = [req EXCEPT ![r].pc = "step", ![r].step = @ + 1, ![r].ok = FALSE]
     ELSE Go(r, "failed")
  /\ UNCHANGED <<running, disk, status, pkg_cache, coalescer, proc, counters, history>>

\* Both writes are best effort.
WriteStatus(r) ==
  LET k == req[r].key IN
  /\ req[r].pc \in {"ready", "failed"}
  /\ IF Present(k) THEN SetStatus(k, req[r].pc) ELSE UNCHANGED status
  /\ Go(r, IF At(r, "ready") THEN "finish" ELSE "fail")
  /\ UNCHANGED <<running, disk, pkg_cache, coalescer, proc, counters, history>>

\* finish and fail: the state of the slot, then the erasure of the key.
Settle(r) ==
  /\ req[r].pc \in {"finish", "fail"}
  /\ slot' = [slot EXCEPT ![r] = IF At(r, "finish") THEN "ready" ELSE "failed"]
  /\ Go(r, "erase")
  /\ UNCHANGED <<running, disk, status, pkg_cache, slots, proc, counters, history>>
erase(r) ==
  /\ At(r, "erase")
  /\ slots' = [slots EXCEPT ![req[r].key] = None]
  /\ IF slot[r] = "ready" THEN Go(r, "launch") ELSE Answer(r, FALSE)
  /\ UNCHANGED <<running, disk, status, pkg_cache, slot, proc, counters, history>>

launch(r) ==
  /\ At(r, "launch")
  /\ \/ Answer(r, TRUE) /\ launched' = launched \cup {r}
     \/ Answer(r, FALSE) /\ UNCHANGED launched      \* the spawn fails
  /\ UNCHANGED <<running, disk, status, pkg_cache, coalescer, proc, counters, prepared>>

----------------------------------------------------------------------------
(* Cache management, and what happens around the service                   *)

\* Directories go whether or not they are in use.
handle_cache_clean(r) ==
  /\ At(r, "clean") /\ Answer(r, TRUE)
  /\ status' = [k \in Key |-> "absent"]
  /\ UNCHANGED <<running, disk, pkg_cache, coalescer, proc, counters, history>>
handle_cache_prune(r) ==
  /\ At(r, "prune") /\ Answer(r, TRUE)
  /\ \E old \in SUBSET {k \in Key : Present(k)} :
       status' = [k \in Key |-> IF k \in old THEN "absent" ELSE status[k]]
  /\ UNCHANGED <<running, disk, pkg_cache, coalescer, proc, counters, history>>

\* A developer changes the sources of a package.
Edit ==
  /\ Happens("edit") /\ edits < MaxEdits /\ edits' = edits + 1
  /\ \E p \in Package, v \in Version : v # disk[p].src /\ disk' = [disk EXCEPT ![p].src = v]
  /\ UNCHANGED <<running, status, pkg_cache, coalescer, req, proc, load, crashes, history>>

\* The executioner dies and is started again.
Crash ==
  /\ Happens("crash") /\ crashes < MaxCrashes /\ crashes' = crashes + 1
  /\ req' = [r \in Request |-> IF req[r].pc \in {"new", "done"} THEN req[r]
                               ELSE [Idle EXCEPT !.pc = "lost"]]
  /\ child' = [r \in Request |-> None] /\ held' = {}
  /\ pkg_cache' = [p \in Package |-> None]
  /\ slots' = [k \in Key |-> None] /\ slot' = [r \in Request |-> None]
  /\ running' = TRUE
  /\ UNCHANGED <<load, disk, status, edits, history>>

----------------------------------------------------------------------------
Serve(r) ==
  \/ handle_exec_request(r) \/ resolve_package(r) \/ PutPackage(r) \/ enter(r) \/ wait(r)
  \/ OpenCache(r) \/ ReadStatus(r) \/ WritePreparing(r)
  \/ execute_prepare(r) \/ run_sync_with_timeout(r) \/ Drain(r) \/ WriteStatus(r)
  \/ Settle(r) \/ erase(r)
  \/ launch(r) \/ handle_cache_clean(r) \/ handle_cache_prune(r)

Next == \/ \E r \in Request : Accept(r) \/ Serve(r) \/ ChildExit(r) \/ Inherit(r) \/ Release(r)
        \/ reap_children \/ stop \/ Edit \/ Crash

\* The threads of the pool run; nothing is assumed of the children and of what
\* they leave behind.
Spec == Init /\ [][Next]_vars /\ \A r \in Request : WF_vars(Serve(r))

----------------------------------------------------------------------------
(* Properties                                                              *)

Leading == {"open", "read", "begin", "step", "sync", "drain", "ready", "failed", "finish", "fail",
            "erase"}

\* "only one thread prepares per cache key" (executioner.cpp:953): two leaders
\* of one key never overlap, also while the slot of the first is settled but
\* not yet erased.
OnePreparePerKey ==
  \A r, s \in Request : req[r].pc \in Leading /\ req[s].pc \in Leading /\ req[r].key = req[s].key
                          => r = s

\* A key in the coalescer's map has a leader that is still at work: every way
\* out of the prepare tells the coalescer, or later requests for the key would
\* follow a leader that is gone and time out for ever.
SlotHasLeader ==
  \A k \in Key : slots[k] # None => req[slots[k]].pc \in Leading /\ req[slots[k]].key = k

\* A process is launched only if a prepare for its key went through, in this
\* or an earlier life of the service: a follower never takes a failure for a
\* success, and what a crash left behind is not taken for ready.
LaunchedIsPrepared == \A r \in launched : req[r].key \in prepared

\* The thread of r reads a pipe that does not come to its end.
HeldByPipe(r) == At(r, "drain") /\ r \in held
PoolHeld == Cardinality({r \in Request : HeldByPipe(r)}) = Threads
\* Every request that was accepted is answered, or lost in a crash, even if a
\* prepare step hangs, its exit status is reaped by the accept loop, or it
\* follows a leader that never comes back.  The deadline of a step does not
\* cover what its child leaves behind: the exception is a leader whose child's
\* pipe is held open for ever, and a pool that consists of such leaders.
AcceptedIsAnswered ==
  \A r \in Request : At(r, "queued") ~> \/ req[r].pc \in {"done", "lost"}
                                         \/ []HeldByPipe(r)
                                         \/ []PoolHeld
=============================================================================
