---------------------------- MODULE VelixProcess ----------------------------
(***************************************************************************)
(* The C++ SDK (src/runtime/sdk/cpp/velix_process.cpp) over the bus: a     *)
(* handler that runs the agent loop and calls tools, the tools that the     *)
(* executioner spawns for the calls, and the supervisor that ends them.     *)
(*                                                                         *)
(* A process has a main thread, a heartbeat thread, a listener of the bus   *)
(* and one thread per tool call.  pending and response are guarded by       *)
(* queue_mutex: what a thread does under it is one action.  A signal runs   *)
(* shutdown() on the main thread, which goes on with run() afterwards; it   *)
(* may find the main thread in a critical section of bus_mutex or           *)
(* queue_mutex, which is then left when shutdown() has come back.           *)
(***************************************************************************)
EXTENDS Bus, FiniteSets

CONSTANTS Calls,        \* tool calls; a call is named by its trace
          MaxAttempts,  \* EXEC_RETRY_LIMIT
          MaxRounds,    \* MAX_ITERATIONS
          MaxBeats,     \* bound: heartbeats before the last one
          Load          \* workloads; a behaviour has one: the calls and tools it
                        \* may use, and what may happen in it

Tools == Pids \ Handlers
\* A tool asks the user at most once: the trace of the question is the tool.
Traces == Calls \cup Tools
Events == {"two", "ask", "retry", "restart", "signal", "kill", "stop", "error", "huge",
           "late", "timeout", "async", "nobus", "beat"}

ASSUME VelixProcessAssumption ==
  /\ Calls \cap Pids = {} /\ None \notin Calls \cup {"FINISHED"}
  /\ MaxAttempts \in Nat \ {0} /\ MaxRounds \in Nat /\ MaxBeats \in Nat
  /\ \A l \in Load : l.calls \subseteq Calls /\ l.tools \subseteq Tools /\ l.events \subseteq Events

VARIABLES
  load,
  proc,       \* pid -> [main, parent, trace, reported, async, is_running, force,
              \*         signal, halt, sock, listener, io; held, the mutex that the
              \*         signal found in use; stuck, a thread to be joined waits for it]
  pending,    \* pid -> pending_response_traces
  response,   \* pid -> the traces response_map has an entry for
  call,       \* call -> [owner, phase, attempt]
  ask,        \* tool -> the state of its question
  agent,      \* handler -> [pc, round] of call_llm_internal
  asks,       \* handler -> its ask_trace_to_pid_
  beats,
  told,       \* history: pid -> the status of its last heartbeat
  lost,       \* history: processes whose listener lost the bus
  crashed,    \* history: calls of whose child's end the bus was told
  replied     \* history: questions whose reply reached the waiting tool

sdk == <<proc, pending, response, call, ask, agent, asks>>
history == <<told, lost, crashed, replied>>
vars == <<bus, load, sdk, beats, history>>

Happens(e) == e \in load.events
NotStarted == [main |-> "none", parent |-> None, trace |-> None, reported |-> FALSE,
               async |-> FALSE, is_running |-> FALSE, force |-> FALSE, signal |-> FALSE, halt |-> "no",
               sock |-> FALSE, listener |-> FALSE, io |-> "none", held |-> None, stuck |-> FALSE]

Init ==
  /\ BusInit /\ load \in Load
  /\ proc = [p \in Pids |-> NotStarted]
  /\ pending = [p \in Pids |-> {}] /\ response = [p \in Pids |-> {}]
  /\ call = [c \in Calls |-> [owner |-> None, phase |-> "none", attempt |-> 0]]
  /\ ask = [t \in Tools |-> "none"]
  /\ agent = [h \in Handlers |-> [pc |-> "idle", round |-> 0]]
  /\ asks = [h \in Handlers |-> {}] /\ beats = 0
  /\ told = [p \in Pids |-> None] /\ lost = {} /\ crashed = {} /\ replied = {}

Alive(p) == proc[p].main \notin {"none", "end", "aborted"}
\* The main thread is not inside shutdown().
Main(p, pc) == proc[p].main = pc /\ proc[p].halt \in {"no", "done"}
Set(p, r) == proc' = [proc EXCEPT ![p] = r]

----------------------------------------------------------------------------
(* Start                                                                   *)

Spawned(parent, trace) == [NotStarted EXCEPT !.main = "spawned", !.parent = parent,
                                                !.trace = trace]

\* The executioner spawns a process with a fresh pid for call c.
Fresh == {p \in load.tools : proc[p].main = "none"}
Spawn(c) == LET p == CHOOSE q \in Fresh : TRUE
            IN Fresh # {} /\ Set(p, Spawned(call[c].owner, c))

\* A handler is started by hand, again when the one before it is gone.
StartHandler(h) ==
  /\ proc[h].main = "none" /\ (Happens("restart") \/ \A g \in Handlers : proc[g].main = "none")
  /\ \A g \in Handlers : ~Alive(g)
  /\ Set(h, Spawned(None, None))
  /\ UNCHANGED <<bus, load, pending, response, call, ask, agent, asks, beats, history>>

\* Registered with the supervisor, a process turns to the bus; without one it
\* runs with a socket that is closed and no listener.
start(p) ==
  /\ proc[p].main = "spawned"
  /\ \/ /\ accept_next(p, Bare("BUS_REGISTER"))
        /\ Set(p, [proc[p] EXCEPT !.main = "handshake", !.is_running = TRUE, !.sock = TRUE])
        /\ UNCHANGED <<running_, registry>>
     \/ /\ ~running_ \/ Happens("nobus")
        /\ Set(p, [proc[p] EXCEPT !.main = "run", !.is_running = TRUE, !.io = "loop"])
        /\ UNCHANGED bus
  /\ UNCHANGED <<load, pending, response, call, ask, agent, asks, beats, history>>

\* The supervisor refuses the registration: start() throws.
RegistrationFailed(p) ==
  /\ Happens("nobus") /\ proc[p].main = "spawned"
  /\ Set(p, [proc[p] EXCEPT !.main = "end"])
  /\ UNCHANGED <<bus, load, pending, response, call, ask, agent, asks, beats, history>>

\* The first frame is taken for the acknowledgement whatever it is.  Without
\* one in a second, or on a closed connection, there is no listener.
Handshake(p) ==
  /\ Main(p, "handshake")
  /\ \/ /\ wire[p].down # <<>>
        /\ wire' = [wire EXCEPT ![p].down = Tail(@)]
        /\ Set(p, [proc[p] EXCEPT !.main = "run", !.listener = proc[p].is_running, !.io = "loop"])
     \/ /\ wire[p].down = <<>> /\ (Happens("late") \/ session[p].closed)
        /\ Set(p, [proc[p] EXCEPT !.main = "run", !.io = "loop"])
        /\ UNCHANGED wire
  /\ UNCHANGED <<running_, registry, session, load, pending, response, call, ask, agent, asks,
                 beats, history>>

----------------------------------------------------------------------------
(* Messages                                                                *)

Send(p, m) == wire' = [wire EXCEPT ![p].up = Append(@, m)]
Result(p, kind) == Message("IPM_RELAY", proc[p].parent, proc[p].trace, kind, None, None)

\* report_result of a tool to its parent; append = FALSE is a result out of band.
report_result(p) ==
  /\ p \in Tools /\ Main(p, "run") /\ proc[p].sock /\ ~proc[p].reported /\ ask[p] # "waiting"
  /\ \/ \E kind \in {"result"} \cup (IF Happens("huge") THEN {"huge"} ELSE {}) :
          /\ Send(p, Result(p, kind))
          /\ Set(p, [proc[p] EXCEPT !.reported = TRUE])
          /\ UNCHANGED <<pending, response>>
     \/ /\ Happens("async") /\ ~proc[p].async
        /\ Send(p, Result(p, "async"))
        /\ pending' = [pending EXCEPT ![p] = @ \ {proc[p].trace}]
        /\ response' = [response EXCEPT ![p] = @ \ {proc[p].trace}]
        /\ Set(p, [proc[p] EXCEPT !.async = TRUE])
  /\ UNCHANGED <<running_, registry, session, load, call, ask, agent, asks, beats, history>>

\* run() ends, by itself or by an exception, and the guard reports for it.
ResultGuard(p) ==
  LET reports_ == p \in Tools /\ ~proc[p].reported /\ proc[p].sock IN
  /\ Main(p, "run") /\ (p \in Tools => ask[p] # "waiting")
  /\ p \in Handlers => agent[p].pc = "idle" /\ (~proc[p].is_running \/ Happens("restart"))
  /\ IF reports_ THEN Send(p, Result(p, "result")) ELSE UNCHANGED wire
  /\ Set(p, [proc[p] EXCEPT !.main = "over", !.reported = @ \/ reports_])
  /\ UNCHANGED <<running_, registry, session, load, pending, response, call, ask, agent, asks,
                 beats, history>>

\* ask_user: the question goes to the handler without a trace of its own.
ask_user(p) ==
  /\ Happens("ask") /\ Main(p, "run") /\ proc[p].sock /\ ask[p] = "none" /\ ~proc[p].reported
  /\ pending' = [pending EXCEPT ![p] = @ \cup {p}]
  /\ ask' = [ask EXCEPT ![p] = "waiting"]
  /\ Send(p, Message("IPM_RELAY", None, None, "ask", p, None))
  /\ UNCHANGED <<running_, registry, session, load, proc, response, call, agent, asks, beats, history>>

AskEnds(p) ==
  /\ ask[p] = "waiting" /\ Main(p, "run")
  /\ ask' = [ask EXCEPT ![p] = IF p \in response[p] THEN "answered" ELSE "timeout"]
  /\ response' = [response EXCEPT ![p] = @ \ {p}]
  /\ pending' = [pending EXCEPT ![p] = @ \ {p}]
  /\ UNCHANGED <<bus, load, proc, call, agent, asks, beats, history>>

\* The user answers a question that the handler knows: send_message, which
\* has no trace, to the process that asked.
handle_ask_user_reply(h, t) ==
  /\ Alive(h) /\ t \in asks[h] /\ proc[h].held # "bus_mutex"
  /\ asks' = [asks EXCEPT ![h] = @ \ {t}]
  /\ IF proc[h].sock THEN Send(h, Message("IPM_RELAY", t, None, "reply", t, None))
                     ELSE UNCHANGED wire
  /\ UNCHANGED <<running_, registry, session, load, proc, pending, response, call, ask, agent,
                 beats, history>>

\* on_bus_event: a handler notes a question; what else comes changes nothing here.
on_bus_event(p, m) ==
  asks' = IF p \in Handlers /\ m.kind = "ask" THEN [asks EXCEPT ![p] = @ \cup {m.of}] ELSE asks

\* One message: to the call that waits for its trace, or to on_bus_event.
bus_listener_loop(p) ==
  LET m == Head(wire[p].down)
      routed == m.trace # None /\ m.trace \in pending[p]
  IN
  /\ proc[p].listener /\ Alive(p) /\ proc[p].is_running /\ proc[p].sock /\ wire[p].down # <<>>
  /\ wire' = [wire EXCEPT ![p].down = Tail(@)]
  /\ IF m.type = "IPM_PUSH"
       THEN /\ response' = IF routed THEN [response EXCEPT ![p] = @ \cup {m.trace}] ELSE response
            /\ IF routed THEN UNCHANGED asks ELSE on_bus_event(p, m)
            /\ replied' = IF m.kind = "reply" /\ m.of \in pending[p]
                            THEN replied \cup {m.of} ELSE replied
            /\ UNCHANGED <<proc, lost>>
       ELSE /\ IF m.type = "error"
                 THEN Set(p, [proc[p] EXCEPT !.is_running = FALSE, !.listener = FALSE])
                      /\ lost' = lost \cup {p}
                 ELSE UNCHANGED <<proc, lost>>
            /\ UNCHANGED <<response, asks, replied>>
  /\ UNCHANGED <<running_, registry, session, load, pending, call, ask, agent, beats, told,
                 crashed>>

\* (defect) A read without a time limit: the loop looks up only when the bus ends.
StopsOnLoss(p) == proc[p].is_running /\ session[p].closed /\ wire[p].down = <<>>
\* The listener ends: it is told to, its socket is closed, or the bus hung up,
\* which also stops the process.
ListenerStops(p) == ~proc[p].is_running \/ ~proc[p].sock \/ (session[p].closed /\ wire[p].down = <<>>)

ListenerExit(p) ==
  /\ proc[p].listener /\ Alive(p) /\ ListenerStops(p) /\ ~(proc[p].stuck /\ proc[p].held = "queue_mutex")
  /\ Set(p, [proc[p] EXCEPT !.is_running = FALSE, !.listener = FALSE])
  /\ lost' = IF proc[p].is_running THEN lost \cup {p} ELSE lost
  /\ UNCHANGED <<bus, load, pending, response, call, ask, agent, asks, beats, told, crashed, replied>>

\* The listener, which was in its read when the process was told to stop, has a
\* message to route or a failure to note, and the signal found the main thread
\* in a critical section of the mutex that it takes for either.
ListenerBlocks(p) ==
  /\ proc[p].listener /\ Alive(p) /\ proc[p].held = "queue_mutex" /\ ~proc[p].stuck
  /\ \/ ~proc[p].sock \/ (session[p].closed /\ wire[p].down = <<>>)
     \/ wire[p].down # <<>> /\ LET m == Head(wire[p].down) IN m.trace # None \/ m.type = "error"
  /\ Set(p, [proc[p] EXCEPT !.stuck = TRUE])
  /\ UNCHANGED <<bus, load, pending, response, call, ask, agent, asks, beats, history>>

----------------------------------------------------------------------------
(* Tool calls: execute_tool_internal                                       *)

Over(c) == call[c].phase \in {"done", "timeout", "failed", "dead"}
Calling(c, phase) == call[c].phase = phase /\ Alive(call[c].owner)
End(c, phase) ==
  /\ proc[call[c].owner].held # "queue_mutex"
  /\ call' = [call EXCEPT ![c].phase = phase]
  /\ pending' = [pending EXCEPT ![call[c].owner] = @ \ {c}]

\* The executioner spawns a tool for the call and says so; the wait for it may
\* have begun before the process was told to stop.
LaunchOk(c) ==
  /\ Calling(c, "launch")
  /\ Spawn(c)
  /\ call' = [call EXCEPT ![c].phase = "wait"]
  /\ UNCHANGED <<bus, load, pending, response, ask, agent, asks, beats, history>>

Failed(c) == End(c, "failed")

\* Busy, or no answer in time although the tool may have been spawned: the same
\* trace is tried again, up to the limit.
Retry(c) ==
  /\ Happens("retry") /\ Calling(c, "launch") /\ proc[call[c].owner].is_running
  /\ \/ UNCHANGED proc
     \/ Spawn(c)
  /\ IF call[c].attempt + 1 < MaxAttempts
       THEN call' = [call EXCEPT ![c].attempt = @ + 1] /\ UNCHANGED pending
       ELSE Failed(c)
  /\ UNCHANGED <<bus, load, response, ask, agent, asks, beats, history>>

\* Refused for another reason, or the process is stopping and no longer waits
\* to hear of the tool it asked for.
Refused(c) ==
  /\ \/ Calling(c, "launch") /\ Happens("retry") /\ UNCHANGED proc
     \/ /\ Calling(c, "launch") \/ Calling(c, "unheard")
        /\ ~proc[call[c].owner].is_running
        /\ UNCHANGED proc \/ Spawn(c)
  /\ Failed(c)
  /\ UNCHANGED <<bus, load, response, ask, agent, asks, beats, history>>

TakeResult(c) ==
  /\ Calling(c, "wait") /\ c \in response[call[c].owner]
  /\ End(c, "done")
  /\ response' = [response EXCEPT ![call[c].owner] = @ \ {c}]
  /\ UNCHANGED <<bus, load, proc, ask, agent, asks, beats, history>>

\* (defect) The trace stays pending after the wait has given up.
TimeoutKeeps(c) == call' = [call EXCEPT ![c].phase = "timeout"] /\ UNCHANGED pending
TimedOut(c) == End(c, "timeout")

\* Sixty minutes without a response.
WaitTimeout(c) ==
  /\ Happens("timeout") /\ Calling(c, "wait") /\ c \notin response[call[c].owner]
  /\ TimedOut(c)
  /\ UNCHANGED <<bus, load, proc, response, ask, agent, asks, beats, history>>

----------------------------------------------------------------------------
(* The agent loop: call_llm_internal                                       *)

call_llm(h) ==
  /\ Main(h, "run") /\ agent[h].pc = "idle" /\ \E c \in load.calls : call[c].phase = "none"
  /\ agent' = [agent EXCEPT ![h] = [pc |-> "llm", round |-> 0]]
  /\ UNCHANGED <<bus, load, proc, pending, response, call, ask, asks, beats, history>>

\* A call on a thread of its own; a process that is stopping still asks for
\* the tool, and hears no more of it.
Launching(h) == [owner |-> h, attempt |-> 0,
                 phase |-> IF proc[h].is_running THEN "launch" ELSE "unheard"]
ToolCalls(h) ==
  \E cs \in SUBSET {c \in load.calls : call[c].phase = "none"} :
    /\ cs # {} /\ (Cardinality(cs) > 1 => Happens("two")) /\ proc[h].held # "queue_mutex"
    /\ call' = [c \in Calls |-> IF c \in cs THEN Launching(h) ELSE call[c]]
    /\ pending' = [pending EXCEPT ![h] = @ \cup cs]
    /\ agent' = [agent EXCEPT ![h].pc = "tools"]
\* A text or an error ends the loop.
FinalReply(h) == agent' = [agent EXCEPT ![h].pc = "idle"] /\ UNCHANGED <<call, pending>>

\* The scheduler's reply.
dispatch_llm_request(h) ==
  /\ Alive(h) /\ agent[h].pc = "llm"
  /\ ToolCalls(h) \/ FinalReply(h)
  /\ UNCHANGED <<bus, load, proc, response, ask, asks, beats, history>>

\* Every future is waited for; then the results go to the model, unless the
\* process stops or the rounds are used up.
ToolsDone(h) ==
  /\ Alive(h) /\ agent[h].pc = "tools" /\ \A c \in Calls : call[c].owner = h => Over(c)
  /\ agent' = [agent EXCEPT ![h] =
       [pc |-> IF proc[h].is_running /\ agent[h].round + 1 < MaxRounds THEN "llm" ELSE "idle",
        round |-> @.round + 1]]
  /\ UNCHANGED <<bus, load, proc, pending, response, call, ask, asks, beats, history>>

----------------------------------------------------------------------------
(* Heartbeats and the end of a process                                     *)

\* The process is gone: its memory and its calls with it, its end of the
\* connection closed.
Gone(p, main) ==
  /\ Set(p, [NotStarted EXCEPT !.main = main, !.signal = proc[p].signal])
  /\ call' = [c \in Calls |-> IF call[c].owner = p /\ ~Over(c)
                                THEN [call[c] EXCEPT !.phase = "dead"] ELSE call[c]]
  /\ wire' = [wire EXCEPT ![p].shut = TRUE, ![p].down = <<>>]
  /\ pending' = [pending EXCEPT ![p] = {}] /\ response' = [response EXCEPT ![p] = {}]
  /\ asks' = [h \in Handlers |-> IF h = p THEN {} ELSE asks[h]]

\* The heartbeat thread finds the process running and begins a heartbeat.
BeatBegins(p) ==
  /\ Happens("beat") /\ proc[p].io = "loop" /\ Alive(p) /\ proc[p].is_running /\ ~proc[p].force
  /\ beats < MaxBeats /\ beats' = beats + 1
  /\ Set(p, [proc[p] EXCEPT !.io = "beat"])
  /\ UNCHANGED <<bus, load, pending, response, call, ask, agent, asks, history>>

\* The heartbeat thread goes on at pc.
Beat(p, pc) == Set(p, [proc[p] EXCEPT !.io = pc]) /\ UNCHANGED <<call, wire, pending, response, asks>>
\* It could not be sent, or has no answer: the process exits, unless it is
\* already told to stop.
BeatFails(p) == IF proc[p].is_running THEN Gone(p, "end") ELSE Beat(p, "loop")

\* Over the bus, under bus_mutex; what is sent on a connection that the bus has
\* closed is lost or fails.  With the socket closed, by shutdown() or because
\* there is no bus, the supervisor is asked directly.
Heartbeat(p) ==
  /\ proc[p].io = "beat" /\ Alive(p) /\ ~(proc[p].stuck /\ proc[p].held = "bus_mutex")
  /\ \/ /\ proc[p].sock /\ proc[p].held = "bus_mutex"
        /\ Set(p, [proc[p] EXCEPT !.stuck = TRUE])
        /\ UNCHANGED <<call, wire, pending, response, asks>>
     \/ /\ proc[p].sock /\ proc[p].held # "bus_mutex" /\ ~session[p].closed
        /\ Send(p, Bare("HEARTBEAT")) /\ Set(p, [proc[p] EXCEPT !.io = "loop"])
        /\ UNCHANGED <<call, pending, response, asks>>
     \/ /\ proc[p].sock /\ proc[p].held # "bus_mutex" /\ session[p].closed
        /\ Beat(p, "loop") \/ BeatFails(p)
     \/ ~proc[p].sock /\ (Beat(p, "asking") \/ BeatFails(p))
  /\ UNCHANGED <<running_, registry, session, load, ask, agent, beats, history>>

\* The supervisor answers, or closes the connection; the read has no time limit.
SupervisorAnswers(p) ==
  /\ proc[p].io = "asking" /\ Alive(p)
  /\ Beat(p, "loop") \/ BeatFails(p)
  /\ UNCHANGED <<running_, registry, session, load, ask, agent, beats, history>>

\* The last heartbeat goes to the supervisor directly.
FinalHeartbeat(p) ==
  /\ proc[p].io = "loop" /\ Alive(p) /\ (~proc[p].is_running \/ proc[p].force)
  /\ told' = [told EXCEPT ![p] = IF proc[p].signal THEN "KILLED" ELSE "FINISHED"]
  /\ Set(p, [proc[p] EXCEPT !.io = "done"])
  /\ UNCHANGED <<bus, load, pending, response, call, ask, agent, asks, beats, lost, crashed, replied>>

Stopping(r) == [r EXCEPT !.is_running = FALSE, !.force = TRUE,
                         !.halt = IF r.is_running THEN "closing" ELSE @]
\* (defect) The signal is noted when shutdown() has come back.
forced_late(r) == Stopping(r)
request_forced_shutdown(r) == [Stopping(r) EXCEPT !.signal = TRUE, !.force = TRUE]

\* After run(): shutdown(), unless the process is already not running; then
\* main returns, and a thread that was never joined aborts the process.
shutdown(p) ==
  /\ Main(p, "over")
  /\ IF proc[p].is_running
       THEN Set(p, Stopping(proc[p])) /\ UNCHANGED <<wire, call, pending, response, asks>>
       ELSE Gone(p, IF proc[p].halt = "done" THEN "end" ELSE "aborted")
  /\ UNCHANGED <<running_, registry, session, load, ask, agent, beats, history>>

CloseSocket(p) ==
  /\ Alive(p) /\ proc[p].halt = "closing"
  /\ Set(p, [proc[p] EXCEPT !.halt = "joining", !.sock = FALSE])
  /\ wire' = [wire EXCEPT ![p].shut = proc[p].sock \/ @]
  /\ UNCHANGED <<running_, registry, session, load, pending, response, call, ask, agent, asks,
                 beats, history>>

Joined(p) ==
  /\ Alive(p) /\ proc[p].halt = "joining"
  /\ proc[p].io \notin {"loop", "beat", "asking"} /\ ~proc[p].listener
  /\ Set(p, [proc[p] EXCEPT !.halt = "done", !.held = None])
  /\ UNCHANGED <<bus, load, pending, response, call, ask, agent, asks, beats, history>>

\* SIGTERM, from the supervisor or the terminal.  It may interrupt the main
\* thread where run() sends a message or waits for one, under a mutex.  (Bound:
\* one process of a behaviour.)
Signal(p) ==
  /\ Happens("signal") /\ proc[p].halt = "no" /\ \A q \in Pids : ~proc[q].signal
  /\ proc[p].main \in {"handshake", "run", "over"}
  /\ \E mutex \in {None, "bus_mutex", "queue_mutex"} :
       /\ mutex # None => proc[p].main = "run" /\ proc[p].sock /\ proc[p].is_running
       /\ Set(p, [request_forced_shutdown(proc[p]) EXCEPT !.held = mutex])
  /\ UNCHANGED <<bus, load, pending, response, call, ask, agent, asks, beats, history>>

\* The supervisor tells the bus that it ends a tool; the bus knows three types
\* of message, and this is none of them.
notify_bus_child_terminated(p) ==
  /\ Happens("kill") /\ running_ /\ p \in Tools /\ proc[p].main \in {"handshake", "run", "over"}
  /\ proc[p].trace \notin crashed
  /\ Calling(proc[p].trace, "wait") /\ pid_sessions_[proc[p].parent] # None
  /\ crashed' = crashed \cup {proc[p].trace}
  /\ UNCHANGED <<bus, load, sdk, beats, told, lost, replied>>

Kill(p) ==
  /\ Alive(p) /\ Happens("kill") /\ (p \in Tools => proc[p].trace \in crashed)
  /\ Gone(p, "end")
  /\ UNCHANGED <<running_, registry, session, load, ask, agent, beats, history>>

----------------------------------------------------------------------------

BusStop == Happens("stop") /\ stop_bus /\ UNCHANGED <<load, sdk, beats, history>>
BusStep(s) ==
  /\ handle_message(s) \/ relay_message(s) \/ RegisterAck(s) \/ ReadError(s) \/ WriteDone(s)
  /\ UNCHANGED <<load, sdk, beats, history>>
\* The supervisor is not reached, or has something to say.
BusAnswer(s) ==
  /\ HeartbeatAnswer(s, "ok") \/ (Happens("error") /\ HeartbeatAnswer(s, "error"))
  /\ UNCHANGED <<load, sdk, beats, history>>

\* The threads that nothing outside holds up.
Progress ==
  \/ \E p \in Pids : BusStep(p) \/ bus_listener_loop(p) \/ ListenerExit(p) \/ ListenerBlocks(p)
                     \/ Heartbeat(p) \/ FinalHeartbeat(p) \/ CloseSocket(p) \/ Joined(p)
  \/ \E c \in Calls : TakeResult(c)

Next ==
  \/ \E h \in Handlers : StartHandler(h) \/ call_llm(h) \/ dispatch_llm_request(h) \/ ToolsDone(h)
  \/ \E h \in Handlers, t \in Tools : handle_ask_user_reply(h, t)
  \/ \E t \in Tools : report_result(t) \/ ask_user(t) \/ AskEnds(t) \/ notify_bus_child_terminated(t)
  \/ \E p \in Pids : start(p) \/ RegistrationFailed(p) \/ Handshake(p) \/ ResultGuard(p)
                     \/ BeatBegins(p) \/ SupervisorAnswers(p) \/ BusAnswer(p)
                     \/ shutdown(p) \/ Signal(p) \/ Kill(p)
  \/ \E c \in Calls : LaunchOk(c) \/ Retry(c) \/ Refused(c) \/ WaitTimeout(c)
  \/ BusStop \/ Progress

\* Each of those threads takes finitely many steps between two steps of the
\* others, so that all of them go on when one that can go on does.
Spec == Init /\ [][Next]_vars /\ WF_vars(Progress)

----------------------------------------------------------------------------
(* Properties                                                              *)

\* A registered process is reached under its pid, and messages for the handler
\* reach the one whose registration the bus handled last, until its own session
\* ends: the sessions of other handlers may end before or after.
RootIsListed ==
  \A p \in Pids : Open(p) /\ session[p].pid = p
                   => pid_sessions_[p] = p /\ (latest = p => tree_root_pid_map_ = p)

\* A response is stored only for a thread that will take it: the call that has
\* its trace still waits, or the tool still asks.  The entry of a trace that
\* nobody waits for is left by a failed launch alone.
StoredIsAwaited ==
  \A p \in Pids : Alive(p) => \A t \in response[p] :
    \/ t \in Calls /\ call[t].owner = p /\ call[t].phase \in {"launch", "unheard", "wait", "failed"}
    \/ t = p /\ ask[p] = "waiting"

\* The supervisor hears FINISHED of a process whose run() goes on only when
\* the process has lost the bus; a signal is reported as KILLED.
FinishedIsOver ==
  \A p \in Pids : told[p] = "FINISHED" /\ proc[p].main = "run" => p \in lost

Carries(stream, c) == \E i \in DOMAIN stream : stream[i].trace = c /\ stream[i].kind = "result"
OnTheWay(c) == Carries(session[call[c].owner].queue, c) \/ Carries(wire[call[c].owner].down, c)
Listening(p) == proc[p].listener /\ proc[p].is_running /\ Alive(p)

\* A result that the bus has taken reaches the call that waits for it, unless
\* the caller stops listening or gives up.
ResultIsDelivered ==
  \A c \in Calls : (call[c].phase = "wait" /\ OnTheWay(c) /\ Listening(call[c].owner))
                     ~> (call[c].phase # "wait" \/ ~Listening(call[c].owner))

\* shutdown() comes back: the threads it joins end.  It hangs for ever only with
\* the heartbeat thread in the read of an answer that the supervisor never
\* gives, or with a thread that waits for the mutex under which the signal
\* found the main thread.
HeldUp(p) == proc[p].io = "asking" \/ proc[p].stuck
ShutdownEnds ==
  \A p \in Pids : proc[p].halt = "closing" ~> (proc[p].halt = "done" \/ ~Alive(p) \/ []HeldUp(p))

\* What velix_process.hpp says of execute_tool: a child that was ended for a
\* call makes the call fail at once, for the caller that listens is told.
CrashIsTold ==
  \A c \in crashed :
    LET p == call[c].owner IN
    \/ Over(c) \/ ~Listening(p) \/ c \in response[p]
    \/ \E i \in DOMAIN session[p].queue : session[p].queue[i].trace = c
    \/ \E i \in DOMAIN wire[p].down : wire[p].down[i].trace = c

\* What velix_process.hpp says of ask_user: the reply that arrives while the
\* tool waits is the answer it gets.
AskIsAnswered == \A t \in replied : t \in response[t] \/ ask[t] = "answered" \/ ~Alive(t)
=============================================================================
