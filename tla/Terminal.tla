------------------------------ MODULE Terminal ------------------------------
(***************************************************************************)
(* Persistent terminals (src/core/persistant_applications): the            *)
(* application manager with its client threads and its watchdog, the       *)
(* TerminalRegistry of sessions, the shells behind LocalPTYDriver with     *)
(* their reader and timeout threads, and the store of jobs; and the        *)
(* terminal tool (src/tools/terminal) that asks for approval, submits a    *)
(* command and polls for its end.                                          *)
(*                                                                         *)
(* sessions_mx_, job_mx_ and timeout_mx_ each make one action.  A driver   *)
(* is closed outside the lock of the registry, in steps.  The shell and    *)
(* the user who approves are external.                                     *)
(***************************************************************************)
EXTENDS Naturals, Sequences, FiniteSets

CONSTANTS Client,          \* client threads; each has one command, its job
          Load,            \* workloads; a behaviour has one: what its clients
                           \* do, and which of Event happen around them
          Key,             \* ids of sessions, "user_id:session_name"
          UserOf,          \* the user_id of each
          Cmd, Dangerous,  \* commands, and those detect_dangerous finds
          Entries,         \* what the configuration of the tool allows
          MaxDriver,       \* bound: shells that are ever started
          MaxSessions,     \* max_sessions_total
          MaxPerUser,      \* max_sessions_per_user
          IdleTimeout, Retention,
          MaxTime,         \* bound: the end of time
          Word,            \* uint64_t counts modulo Word
          None

VARIABLES
  load,
  sessions,    \* sessions_: key -> [driver, status, last_used], or None
  drv,         \* driver -> LocalPTYDriver
  thr,         \* client threads, the watchdog and the main thread
  jobs,        \* JobStore: client -> [status, finished_at, stored]
  told,        \* what the tool reported to its caller
  allow,       \* the permanent allow list of the terminal tool
  running, now,
  consent,     \* history: the clients whose command the user allowed, and keys
  lost         \* history: jobs another job displaced in current_job_

vars == <<load, sessions, drv, thr, jobs, told, allow, running, now, consent, lost>>
registry == <<sessions, running>>
tool == <<allow, consent, told>>

Task(c) == Load[load].task[c]
\* The watchdog comes round, the manager stops, a shell exits, a shell does
\* not read its input, time passes.
Event == {"watch", "stop", "exit", "full", "tick"}
Happens(e) == e \in Load[load].events
TaskType == [act : {"exec", "oneshot", "kill", "kill_all", "none"}, key : Key, cmd : Cmd, deadline : BOOLEAN,
             mode : {"off", "smart", "manual"}]
Thread == Client \cup {"watchdog", "main"}
Driver == 1 .. MaxDriver

SessionEntry == [driver : Driver, status : {"Active", "Dead"}, last_used : Nat]

ASSUME TerminalAssumption ==
  /\ Load \in Seq([task : [Client -> TaskType], events : SUBSET Event])
  /\ Dangerous \subseteq Cmd /\ DOMAIN UserOf = Key
  /\ MaxDriver \in Nat /\ MaxSessions \in Nat \ {0} /\ MaxPerUser \in Nat \ {0} /\ Word \in Nat
  /\ IdleTimeout \in Nat /\ Retention \in Nat
  /\ MaxTime + IdleTimeout + Retention < Word
  /\ None \notin Client /\ None \notin Driver /\ None \notin SessionEntry
  /\ "watchdog" \notin Client /\ "main" \notin Client

\* now - t in uint64_t.
Sub(a, b) == (Word + a - b) % Word

NoDriver == [alive |-> FALSE, stop |-> FALSE, shell |-> "none", current |-> None,
             input |-> <<>>, reader |-> "off", timer |-> "off", armed |-> None]
\* spawn_shell starts the reader and the timeout thread.
spawn_shell == [NoDriver EXCEPT !.alive = TRUE, !.shell = "up", !.reader = "run", !.timer = "test"]

Init ==
  /\ load \in DOMAIN Load
  /\ sessions = [k \in Key |-> None]
  /\ drv = [d \in Driver |-> NoDriver]
  /\ thr = [t \in Thread |-> [pc |-> IF t = "watchdog" THEN "sleep" ELSE IF t = "main" THEN "serve"
                                     ELSE IF Task(t).act \in {"exec", "oneshot"} THEN "approve" ELSE Task(t).act,
                              then |-> None, driver |-> None, todo |-> {}, ids |-> {}, at |-> 0]]
  /\ jobs = [c \in Client |-> [status |-> "none", finished_at |-> 0, stored |-> FALSE]]
  /\ told = [c \in Client |-> "none"]
  /\ allow = {} /\ running = TRUE /\ now = 0
  /\ consent = {} /\ lost = {}

Go(t, pc) == thr' = [thr EXCEPT ![t].pc = pc]
\* report_result, done_error, done_blocked: the tool is over.
Report(c, s) == Go(c, "done") /\ told' = [told EXCEPT ![c] = s]
\* Thread t closes the drivers of ds one by one, then goes on at pc.
CloseAll(t, ds, pc) ==
  LET d == CHOOSE d \in ds : TRUE
      more == ds # {}
  IN  thr' = [thr EXCEPT ![t] = [@ EXCEPT !.pc = IF more THEN "close" ELSE pc,
                                          !.then = IF more THEN pc ELSE None,
                                          !.driver = IF more THEN d ELSE None,
                                          !.todo = IF more THEN ds \ {d} ELSE {}]]
Closed(t) == CloseAll(t, thr[t].todo, thr[t].then)

----------------------------------------------------------------------------
(* The terminal tool: approval                                             *)

NeedsApproval(c) == Task(c).mode = "manual" \/ (Task(c).mode = "smart" /\ Task(c).cmd \in Dangerous)
User(c) == UserOf[Task(c).key]
\* (defect) What one user allows for good is allowed to all.
AnyUser(c) == <<Task(c).mode, Task(c).cmd>>
\* The pattern that is allowed for good: the mode, the user, the exact command.
PatternKey(c) == <<Task(c).mode, User(c), Task(c).cmd>>
\* What a user who says "always" has said yes to.
Question(c) == <<Task(c).mode, User(c), Task(c).cmd>>
Approved(c) == Go(c, IF Task(c).act = "oneshot" THEN "oneshot" ELSE "create")

\* check_approval; is_approved looks into the configuration, then the list.
check_approval(c) ==
  /\ thr[c].pc = "approve"
  /\ IF NeedsApproval(c) /\ PatternKey(c) \notin Entries \cup allow THEN Go(c, "ask") ELSE Approved(c)
  /\ UNCHANGED <<load, registry, drv, jobs, tool, now, lost>>

\* A request that is denied, or not answered in time, is blocked.
ask_handler(c) ==
  /\ thr[c].pc = "ask"
  /\ \/ Report(c, "blocked") /\ UNCHANGED consent
     \/ Approved(c) /\ consent' = consent \cup {<<c, "once">>} /\ UNCHANGED told       \* allow
     \/ Go(c, "whitelist") /\ consent' = consent \cup {Question(c)} /\ UNCHANGED told
  /\ UNCHANGED <<load, registry, drv, jobs, allow, now, lost>>

\* The list is a file of all tools, read and written back by each.
approve_permanent(c) ==
  /\ \/ thr[c].pc = "whitelist" /\ UNCHANGED allow
        /\ thr' = [thr EXCEPT ![c].pc = "save", ![c].ids = allow]
     \/ thr[c].pc = "save" /\ allow' = thr[c].ids \cup {PatternKey(c)}
        /\ thr' = [thr EXCEPT ![c].pc = IF Task(c).act = "oneshot" THEN "oneshot" ELSE "create",
                              ![c].ids = {}]
  /\ UNCHANGED <<load, registry, drv, jobs, consent, told, now, lost>>

\* posix_exec: the child's exit code, or its death at the deadline.
posix_exec(c) == {"ok", "error"} \cup (IF Task(c).deadline THEN {"timeout"} ELSE {})
run_oneshot_direct(c) ==
  /\ thr[c].pc = "oneshot"
  /\ \E s \in posix_exec(c) : Report(c, s)
  /\ UNCHANGED <<load, registry, drv, jobs, allow, consent, now, lost>>

----------------------------------------------------------------------------
(* The registry                                                            *)

Healthy(k) == sessions[k] # None /\ sessions[k].status = "Active" /\ drv[sessions[k].driver].alive
Unborn == {d \in Driver : drv[d].reader = "off"}
Listed == {k \in Key : sessions[k] # None}

\* The fast path, under the shared lock.
get_or_create(c) ==
  /\ thr[c].pc = "create"
  /\ Go(c, IF Healthy(Task(c).key) THEN "lookup" ELSE "recreate")
  /\ UNCHANGED <<load, registry, drv, jobs, tool, now, lost>>

\* Both limits are tested without the dead session; the user's counts the
\* sessions that are not marked dead.
Full(k) ==
  LET others == Listed \ {k} IN
  \/ Cardinality(others) >= MaxSessions
  \/ Cardinality({j \in others : UserOf[j] = UserOf[k] /\ sessions[j].status = "Active"}) >= MaxPerUser

\* (defect) A refused client forgets the driver it has taken out.
RefusedForgets(old) == {}
\* Every way out closes the driver of the dead session.
RefusedCloses(old) == old

\* The write path: the dead session goes, the limits are tested, a driver is
\* made under the lock; the old driver is closed after it.
Recreate(c) ==
  LET k == Task(c).key
      old == IF sessions[k] = None THEN {} ELSE {sessions[k].driver}
      without == [sessions EXCEPT ![k] = None]
  IN
  /\ thr[c].pc = "recreate"
  /\ \/ Healthy(k) /\ Go(c, "lookup") /\ UNCHANGED <<sessions, drv>>
     \/ /\ ~Healthy(k) /\ Full(k)
        /\ sessions' = without
        /\ CloseAll(c, RefusedCloses(old), "refused")
        /\ UNCHANGED drv
     \/ /\ ~Healthy(k) /\ ~Full(k)
        /\ \/ /\ Unborn # {}
              /\ LET d == CHOOSE d \in Unborn : TRUE IN
                 /\ drv' = [drv EXCEPT ![d] = spawn_shell]
                 /\ sessions' = [sessions EXCEPT ![k] = [driver |-> d, status |-> "Active",
                                                         last_used |-> now]]
                 /\ CloseAll(c, old, "lookup")
           \/ /\ sessions' = without      \* make_driver throws
              /\ CloseAll(c, RefusedCloses(old), "refused")
              /\ UNCHANGED drv
  /\ UNCHANGED <<load, jobs, tool, running, now, lost>>

\* EXECUTE is answered with an error.
Refused(c) ==
  /\ thr[c].pc = "refused"
  /\ Report(c, "error")
  /\ UNCHANGED <<load, registry, drv, jobs, allow, consent, now, lost>>

\* TerminalRegistry::exec, up to the call of the driver.
exec_lookup(c) ==
  LET k == Task(c).key IN
  /\ thr[c].pc = "lookup"
  /\ IF sessions[k] = None \/ ~drv[sessions[k].driver].alive
     THEN Go(c, "refused") /\ UNCHANGED sessions
     ELSE /\ thr' = [thr EXCEPT ![c].pc = "exec", ![c].driver = sessions[k].driver]
          /\ sessions' = [sessions EXCEPT ![k].last_used = now]
  /\ UNCHANGED <<load, drv, jobs, tool, running, now, lost>>

\* The sessions without those of K.
extract_locked(K) == [k \in Key |-> IF k \in K THEN None ELSE sessions[k]]
DriversOf(K) == {sessions[k].driver : k \in K}

\* One session, or all sessions of the user when no name is given.
kill_session(c) ==
  LET k == Task(c).key
      K == {j \in Listed : j = k \/ (Task(c).act = "kill_all" /\ UserOf[j] = UserOf[k])}
  IN
  /\ thr[c].pc \in {"kill", "kill_all"}
  /\ sessions' = extract_locked(K)
  /\ CloseAll(c, DriversOf(K), "done")
  /\ UNCHANGED <<load, drv, jobs, tool, running, now, lost>>

----------------------------------------------------------------------------
(* The watchdog                                                            *)

Dead(k) == sessions[k].status = "Active" /\ ~drv[sessions[k].driver].alive

\* detect_dead_sessions: a scan, then the marks by key.
DetectScan ==
  /\ thr["watchdog"].pc = "sleep" /\ running /\ Happens("watch")
  /\ thr' = [thr EXCEPT !["watchdog"].pc = "mark", !["watchdog"].ids = {k \in Listed : Dead(k)}]
  /\ UNCHANGED <<load, registry, drv, jobs, tool, now, lost>>
\* evict_dead_and_idle reads the clock before it takes the lock.
DetectMark ==
  LET ids == thr["watchdog"].ids \cap Listed IN
  /\ thr["watchdog"].pc = "mark"
  /\ sessions' = [k \in Key |-> IF k \in ids THEN [sessions[k] EXCEPT !.status = "Dead"]
                                ELSE sessions[k]]
  /\ thr' = [thr EXCEPT !["watchdog"].pc = "evict", !["watchdog"].ids = {}, !["watchdog"].at = now]
  /\ UNCHANGED <<load, drv, jobs, tool, running, now, lost>>

Idle(k) == Sub(thr["watchdog"].at, sessions[k].last_used) > IdleTimeout
evict_dead_and_idle ==
  LET K == {k \in Listed : sessions[k].status # "Active" \/ Idle(k)} IN
  /\ thr["watchdog"].pc = "evict"
  /\ sessions' = extract_locked(K)
  /\ CloseAll("watchdog", DriversOf(K), "prune")
  /\ UNCHANGED <<load, drv, jobs, tool, running, now, lost>>

\* JobStore::prune, which reads the clock before it takes its lock too.
PruneClock ==
  /\ thr["watchdog"].pc = "prune"
  /\ thr' = [thr EXCEPT !["watchdog"].pc = "pruning", !["watchdog"].at = now]
  /\ UNCHANGED <<load, registry, drv, jobs, tool, now, lost>>
prune ==
  LET old == {c \in Client : /\ jobs[c].stored /\ jobs[c].status # "Running"
                             /\ Sub(thr["watchdog"].at, jobs[c].finished_at) > Retention} IN
  /\ thr["watchdog"].pc = "pruning"
  /\ jobs' = [c \in Client |-> IF c \in old THEN [jobs[c] EXCEPT !.stored = FALSE] ELSE jobs[c]]
  /\ thr' = [thr EXCEPT !["watchdog"].pc = "sleep", !["watchdog"].at = 0]
  /\ UNCHANGED <<load, registry, drv, tool, now, lost>>
WatchdogExit ==
  /\ thr["watchdog"].pc = "sleep" /\ ~running
  /\ Go("watchdog", "done")
  /\ UNCHANGED <<load, registry, drv, jobs, tool, now, lost>>

\* stop(): the watchdog is joined, then the sessions of a snapshot are killed
\* one by one, while clients may still make others.
Stop ==
  /\ thr["main"].pc = "serve" /\ Happens("stop")
  /\ running' = FALSE
  /\ Go("main", "join")
  /\ UNCHANGED <<load, sessions, drv, jobs, tool, now, lost>>
StopJoin ==
  /\ thr["main"].pc = "join" /\ thr["watchdog"].pc = "done"
  /\ thr' = [thr EXCEPT !["main"].pc = "teardown", !["main"].ids = Listed]
  /\ UNCHANGED <<load, registry, drv, jobs, tool, now, lost>>
kill_session_by_id ==
  LET ids == thr["main"].ids IN
  /\ thr["main"].pc = "teardown"
  /\ \/ ids = {} /\ Go("main", "done") /\ UNCHANGED sessions
     \/ \E k \in ids :
          /\ sessions' = extract_locked({k})
          /\ IF k \in Listed
             THEN thr' = [thr EXCEPT !["main"] = [@ EXCEPT !.pc = "close", !.then = "teardown",
                                                           !.driver = sessions[k].driver, !.ids = ids \ {k}]]
             ELSE thr' = [thr EXCEPT !["main"].ids = ids \ {k}]
  /\ UNCHANGED <<load, drv, jobs, tool, running, now, lost>>

----------------------------------------------------------------------------
(* The driver: jobs                                                        *)

\* (defect) The job stays current when it ends.
EndedKept(r) == r
\* finish_job_locked: current_job_ is reset and the timeout thread notified.
Ended(r) == [r EXCEPT !.current = None, !.timer = IF @ = "asleep" THEN "test" ELSE @]
Finish(j, s) == jobs' = IF j = None THEN jobs
                        ELSE [jobs EXCEPT ![j] = [@ EXCEPT !.status = s, !.finished_at = now]]

\* exec: alive_, then the wait for the previous job, which has a ceiling.
ExecWait(c) ==
  LET d == thr[c].driver IN
  /\ \/ thr[c].pc = "exec" /\ ~drv[d].alive /\ Go(c, "refused")
     \/ thr[c].pc = "exec" /\ drv[d].alive /\ Go(c, "wait")
     \/ thr[c].pc = "wait" /\ Go(c, IF drv[d].current = None THEN "submit" ELSE "refused")
  /\ UNCHANGED <<load, registry, drv, jobs, tool, now, lost>>

\* The job is stored and made current, in a critical section after the wait.
ExecSubmit(c) ==
  LET d == thr[c].driver IN
  /\ thr[c].pc = "submit"
  /\ jobs' = [jobs EXCEPT ![c].status = "Running", ![c].stored = TRUE]
  /\ drv' = [drv EXCEPT ![d].current = c,
                        ![d].timer = IF @ = "asleep" THEN "test" ELSE @]
  /\ lost' = lost \cup ({drv[d].current} \ {None})
  /\ Go(c, "write")
  /\ UNCHANGED <<load, registry, tool, now>>

\* The master side does not block: a shell that does not read its input makes
\* the write fail like a dead one, wholly or after a part of the command.  A
\* write to a shell that has just died may still succeed.
write_to_shell(c) ==
  LET d == thr[c].driver
      mine == drv[d].current = c
  IN
  /\ thr[c].pc = "write"
  /\ \/ /\ drv[d].alive
        /\ drv' = [drv EXCEPT ![d].input = IF drv[d].shell = "up" THEN Append(@, c) ELSE @]
        /\ Go(c, "poll") /\ UNCHANGED jobs
     \/ /\ ~drv[d].alive \/ drv[d].shell = "dead" \/ Happens("full")
        /\ drv' = [drv EXCEPT ![d] = [@ EXCEPT !.current = IF mine THEN None ELSE drv[d].current,
                                               !.alive = FALSE]]
        /\ Finish(IF mine THEN c ELSE None, "Error")
        /\ Go(c, "refused")
  /\ UNCHANGED <<load, registry, tool, now, lost>>

\* (defect) A job that is gone has finished.
GoneIsFine == "ok"
\* POLL of a job that was pruned fails.
unknown_job == "error"
\* The status of the job is the status of the call, whatever the exit code.
run_pty_foreground(status) ==
  CASE status = "Finished" -> "ok" [] status = "Timeout" -> "timeout" [] OTHER -> "error"
\* The tool polls until the job is over; it gives up when the manager is gone
\* or the deadline of the job has passed with some grace.
am_poll_until_done(c) ==
  LET j == jobs[c] IN
  /\ thr[c].pc = "poll"
  /\ \/ j.stored /\ j.status # "Running" /\ Report(c, run_pty_foreground(j.status))
     \/ ~j.stored /\ Report(c, unknown_job)
     \/ Task(c).deadline /\ Report(c, "timeout")
     \/ ~running /\ Report(c, "error")
  /\ UNCHANGED <<load, registry, drv, jobs, allow, consent, now, lost>>

----------------------------------------------------------------------------
(* The driver: its threads                                                 *)

\* The command ends, by itself or on the SIGINT of CANCEL_JOB, and the reader
\* gets its VELIX_END frame; the exit code 124 stands for a timeout.
on_end(d) ==
  LET j == Head(drv[d].input)
      mine == drv[d].current = j
      rest == [drv[d] EXCEPT !.input = Tail(@)]
  IN
  /\ drv[d].reader = "run" /\ drv[d].alive /\ drv[d].shell = "up" /\ drv[d].input # <<>>
  /\ drv' = [drv EXCEPT ![d] = IF mine THEN Ended(rest) ELSE rest]
  /\ \E s \in {"Finished", "Timeout"} : Finish(IF mine THEN j ELSE None, s)
  /\ UNCHANGED <<load, registry, thr, tool, now, lost>>

\* The shell exits by itself.
ShellExit(d) ==
  /\ drv[d].shell = "up" /\ Happens("exit")
  /\ drv' = [drv EXCEPT ![d].shell = "dead", ![d].input = <<>>]
  /\ UNCHANGED <<load, registry, thr, jobs, tool, now, lost>>

\* reader_loop ends on a hangup or when alive_ is false, then it finalizes.
ReaderHangup(d) ==
  /\ drv[d].reader = "run" /\ (drv[d].shell = "dead" \/ ~drv[d].alive)
  /\ drv' = [drv EXCEPT ![d].reader = "finalize", ![d].alive = FALSE]
  /\ UNCHANGED <<load, registry, thr, jobs, tool, now, lost>>
\* (defect) The reader ends and leaves its job.
ReaderForgets(d) ==
  /\ drv[d].reader = "finalize"
  /\ drv' = [drv EXCEPT ![d].reader = "done"]
  /\ UNCHANGED <<load, registry, thr, jobs, tool, now, lost>>
ReaderFinalize(d) ==
  /\ drv[d].reader = "finalize"
  /\ drv' = [drv EXCEPT ![d] = [@ EXCEPT !.current = None, !.reader = "done"]]
  /\ Finish(drv[d].current, "Error")
  /\ UNCHANGED <<load, registry, thr, tool, now, lost>>

HasDeadline(d) == drv[d].current # None /\ Task(drv[d].current).deadline

\* timeout_loop: a predicate, a sleep, a deadline.
TimerTest(d) ==
  /\ drv[d].timer = "test"
  /\ drv' = [drv EXCEPT
       ![d].timer = IF drv[d].stop THEN "done" ELSE IF HasDeadline(d) THEN "armed" ELSE "dozing",
       ![d].armed = IF HasDeadline(d) /\ ~drv[d].stop THEN drv[d].current ELSE None]
  /\ UNCHANGED <<load, registry, thr, jobs, tool, now, lost>>
TimerSleep(d) ==
  /\ drv[d].timer = "dozing"
  /\ drv' = [drv EXCEPT ![d].timer = "asleep"]
  /\ UNCHANGED <<load, registry, thr, jobs, tool, now, lost>>
\* The deadline passes, or a notification ends the wait.  The process group
\* of the job is the shell's own.
TimerFire(d) ==
  LET mine == drv[d].current = drv[d].armed IN
  /\ drv[d].timer = "armed"
  /\ IF drv[d].stop THEN drv' = [drv EXCEPT ![d].timer = "done"] /\ UNCHANGED jobs
     ELSE /\ drv' = [drv EXCEPT ![d] =
                       [IF mine THEN [Ended(@) EXCEPT !.shell = "dead", !.input = <<>>] ELSE @
                        EXCEPT !.timer = "test", !.armed = None]]
          /\ Finish(IF mine THEN drv[d].armed ELSE None, "Timeout")
  /\ UNCHANGED <<load, registry, thr, tool, now, lost>>

----------------------------------------------------------------------------
(* The driver: close                                                       *)

\* alive_.exchange(false), and the way of a driver that was dead already.
CloseBegin(t) ==
  LET d == thr[t].driver IN
  /\ thr[t].pc = "close"
  /\ drv' = [drv EXCEPT ![d].alive = FALSE]
  /\ Go(t, IF drv[d].alive THEN "stop" ELSE "dead_reader")
  /\ UNCHANGED <<load, registry, jobs, tool, now, lost>>
CloseStop(t) ==
  /\ thr[t].pc = "stop"
  /\ drv' = [drv EXCEPT ![thr[t].driver].stop = TRUE,
                        ![thr[t].driver].timer = IF @ = "asleep" THEN "test" ELSE @]
  /\ drv[thr[t].driver].timer # "dozing"     \* timeout_mx_
  /\ Go(t, "join_timer")
  /\ UNCHANGED <<load, registry, jobs, tool, now, lost>>
\* The timeout thread is joined and the shell killed.
CloseJoinTimer(t) ==
  LET d == thr[t].driver IN
  /\ thr[t].pc = "join_timer" /\ drv[d].timer = "done"
  /\ drv' = [drv EXCEPT ![d].shell = "dead", ![d].input = <<>>]
  /\ Go(t, "join_reader")
  /\ UNCHANGED <<load, registry, jobs, tool, now, lost>>
\* The reader is joined; a job that is still there is an error.
CloseJoinReader(t) ==
  LET d == thr[t].driver IN
  /\ thr[t].pc = "join_reader" /\ drv[d].reader = "done"
  /\ drv' = [drv EXCEPT ![d].current = None]
  /\ Finish(drv[d].current, "Error")
  /\ Closed(t)
  /\ UNCHANGED <<load, registry, tool, now, lost>>
\* A dead driver: its timeout thread is notified and joined, never stopped.
CloseDead(t) ==
  LET d == thr[t].driver IN
  /\ thr[t].pc \in {"dead_reader", "dead_timer"}
  /\ IF thr[t].pc = "dead_reader"
     THEN /\ drv[d].reader = "done" /\ Go(t, "dead_timer")
          /\ drv' = [drv EXCEPT ![d].timer = IF @ = "asleep" THEN "test" ELSE @]
     ELSE drv[d].timer = "done" /\ Closed(t) /\ UNCHANGED drv
  /\ UNCHANGED <<load, registry, jobs, tool, now, lost>>

Tick ==
  /\ now < MaxTime /\ Happens("tick") /\ now' = now + 1
  /\ UNCHANGED <<load, registry, drv, thr, jobs, tool, lost>>

----------------------------------------------------------------------------
ClientStep(c) ==
  \/ check_approval(c) \/ ask_handler(c) \/ approve_permanent(c) \/ run_oneshot_direct(c)
  \/ get_or_create(c) \/ Recreate(c) \/ exec_lookup(c) \/ Refused(c) \/ kill_session(c)
  \/ ExecWait(c) \/ ExecSubmit(c) \/ write_to_shell(c) \/ am_poll_until_done(c)
WatchdogStep == DetectScan \/ DetectMark \/ evict_dead_and_idle \/ PruneClock \/ prune \/ WatchdogExit
CloseStep(t) ==
  \/ CloseBegin(t) \/ CloseStop(t) \/ CloseJoinTimer(t) \/ CloseJoinReader(t) \/ CloseDead(t)
DriverStep(d) ==
  \/ ReaderHangup(d) \/ ReaderFinalize(d) \/ TimerTest(d) \/ TimerSleep(d) \/ TimerFire(d)

Next ==
  \/ \E c \in Client : ClientStep(c)
  \/ WatchdogStep \/ Stop \/ StopJoin \/ kill_session_by_id
  \/ \E t \in Thread : CloseStep(t)
  \/ \E d \in Driver : DriverStep(d) \/ on_end(d) \/ ShellExit(d)
  \/ Tick

Spec == Init /\ [][Next]_vars

\* The threads run, and a command that was started ends.
FairSpec ==
  /\ Spec
  /\ WF_vars(\E c \in Client : ClientStep(c))
  /\ WF_vars(\E t \in Thread : CloseStep(t))
  /\ \A d \in Driver : WF_vars(ReaderHangup(d) \/ ReaderFinalize(d)) /\ WF_vars(on_end(d))
                       /\ WF_vars(TimerTest(d) \/ TimerSleep(d))

----------------------------------------------------------------------------
(* Properties                                                              *)

Closing == {"close", "stop", "join_timer", "join_reader", "dead_reader", "dead_timer"}
ClosingBy(t) == thr[t].todo \cup (IF thr[t].pc \in Closing THEN {thr[t].driver} ELSE {})

\* A shell that was started belongs to exactly one place: a session of the
\* registry, or the one thread that closes it (extract_locked takes it out
\* before close(), and every way out of get_or_create closes what it took),
\* or it has been closed.  No driver is closed twice, or used by the map
\* while it is closed, and none is forgotten with its threads running.
DriverHasOneOwner ==
  \A d \in Driver : drv[d].reader # "off" =>
    LET owners == {k \in Listed : sessions[k].driver = d} \cup {t \in Thread : d \in ClosingBy(t)}
    IN  IF drv[d].stop \/ drv[d].timer = "done" THEN Cardinality(owners) <= 1
        ELSE Cardinality(owners) = 1

\* A job that has ended keeps its status: the reader, the timeout thread,
\* close() and a failed write may all try to finish it, and one of them does.
EndedStaysEnded ==
  [][\A c \in Client : jobs[c].status \in {"Finished", "Error", "Timeout"} =>
       jobs'[c].status = jobs[c].status]_vars

\* A command that needs approval is run only if the configuration allows it,
\* or its own user did, once or for good (check_approval, ask_handler): not
\* when the request was denied or timed out, nor on the word of another user,
\* although the tools of all users read and write back one list.
DangerNeedsConsent ==
  \A c \in Client :
    NeedsApproval(c) /\ (jobs[c].status # "none" \/ told[c] \in {"ok", "timeout"})
      => \/ Question(c) \in Entries
         \/ {<<c, "once">>, Question(c)} \cap consent # {}

\* What the tool reports is what happened: success only if the job finished,
\* whatever the watchdog prunes while the tool polls (am_poll_until_done).
ToldIsTrue ==
  \A c \in Client : told[c] = "ok" /\ Task(c).act = "exec" => jobs[c].status = "Finished"

\* Every submitted job ends, whatever happens to its shell, unless a second
\* exec took its place in current_job_.
JobEnds == \A c \in Client : jobs[c].status = "Running" ~> (jobs[c].status # "Running" \/ c \in lost)

\* "close() - clean shutdown" (terminal_driver.hpp:21): it returns.
CloseReturns == \A t \in Thread : thr[t].pc = "close" ~> ClosingBy(t) = {}

\* "Thread safety: ALL public methods are safe to call from any thread."
NoJobLost == lost = {}
=============================================================================
