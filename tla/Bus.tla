-------------------------------- MODULE Bus --------------------------------
(***************************************************************************)
(* The bus (src/core/bus.cpp): one session per connection, each on a strand *)
(* of its own, and a registry of processes and tree roots under one mutex. *)
(*                                                                         *)
(* A process of the SDK opens one connection and pids are never reused, so  *)
(* a session is named by the process at its other end.  wire is the pair    *)
(* of streams of the connection: what was sent before an end was closed is  *)
(* still read.  A callback of a strand is an action, except where it takes  *)
(* the registry's mutex and goes on without it: registering and relaying    *)
(* are two each.  A heartbeat is forwarded to the supervisor, which answers *)
(* in its own time, or never.                                               *)
(***************************************************************************)
EXTENDS Sequences, Naturals

CONSTANTS Pids, Handlers, None

ASSUME BusAssumption == Handlers \subseteq Pids /\ None \notin Pids

VARIABLES
  running_,
  pid_sessions_,       \* pid -> its session, or None
  tree_root_pid_map_,  \* the entry of TREE_HANDLER: a pid, or None
  latest,              \* history: the handler whose registration came last, or None
  session,             \* of each connection: [pid, closed, queue, writing, ack; relay, the
                       \* message in relay_message; forwarded, the heartbeats unanswered]
  wire                 \* [up, down, shut]: the frames either way, the far end closed

bus == <<running_, pid_sessions_, tree_root_pid_map_, latest, session, wire>>
registry == <<pid_sessions_, tree_root_pid_map_, latest>>

\* pid -1 is None: a message for the handler, or one without a trace.
Message(type, target, trace, kind, of, src) ==
  [type |-> type, target |-> target, trace |-> trace, kind |-> kind, of |-> of, src |-> src]
Bare(type) == Message(type, None, None, None, None, None)

BusInit ==
  /\ running_ = TRUE
  /\ pid_sessions_ = [p \in Pids |-> None] /\ tree_root_pid_map_ = None /\ latest = None
  /\ session = [p \in Pids |-> [pid |-> None, closed |-> TRUE, queue |-> <<>>, writing |-> FALSE,
                                ack |-> FALSE, relay |-> None, forwarded |-> 0]]
  /\ wire = [p \in Pids |-> [up |-> <<>>, down |-> <<>>, shut |-> FALSE]]

Open(s) == running_ /\ ~session[s].closed
\* The strand is not inside relay_message.
Free(s) == Open(s) /\ session[s].relay = None

\* A frame for s.  The first one of an empty queue starts the writing; a
\* session that is closed never writes it.
enqueue_json(r, m) ==
  IF r.closed THEN r
  ELSE [r EXCEPT !.queue = Append(@, m), !.writing = @ \/ r.queue = <<>>]

\* (defect) The completed write does not start the next one.
write_last(q) == FALSE
write_next(q) == q # <<>>

\* (defect) An ending session takes the tree root entry of whoever has it.
owns_any(pid) == TRUE
owns_root(pid) == tree_root_pid_map_ = pid

unregister_session(s) ==
  LET pid == session[s].pid IN
  /\ pid_sessions_' = IF pid # None /\ pid_sessions_[pid] = s
                        THEN [pid_sessions_ EXCEPT ![pid] = None] ELSE pid_sessions_
  /\ tree_root_pid_map_' = IF pid # None /\ owns_root(pid) THEN None ELSE tree_root_pid_map_
  /\ UNCHANGED latest

Ended(r) == [r EXCEPT !.closed = TRUE, !.queue = <<>>, !.writing = FALSE, !.ack = FALSE,
                      !.relay = None, !.forwarded = 0]
close_on_strand(s) == session' = [session EXCEPT ![s] = Ended(@)] /\ unregister_session(s)

\* The connection is accepted and its first frame is on the way.
accept_next(s, m) ==
  /\ running_
  /\ session' = [session EXCEPT ![s].closed = FALSE]
  /\ wire' = [wire EXCEPT ![s].up = <<m>>]

register_session(s) ==
  /\ session' = [session EXCEPT ![s].pid = s, ![s].ack = TRUE]
  /\ pid_sessions_' = [pid_sessions_ EXCEPT ![s] = s]
  /\ tree_root_pid_map_' = IF s \in Handlers THEN s ELSE tree_root_pid_map_
  /\ latest' = IF s \in Handlers THEN s ELSE latest

\* ... and, the registry's mutex released, the acknowledgement is queued.
RegisterAck(s) ==
  /\ Open(s) /\ session[s].ack
  /\ session' = [session EXCEPT ![s] = [enqueue_json(@, Bare("ok")) EXCEPT !.ack = FALSE]]
  /\ UNCHANGED <<running_, registry, wire>>

\* A target of -1 is the handler.  (Without a handler the tree of the message
\* would be looked up; the C++ SDK's messages name none.)
resolve_target_pid(m) == IF m.target # None THEN m.target ELSE tree_root_pid_map_

\* A message whose target is known is on its way to relay_message; another one
\* is dropped.
Resolved(s, m) ==
  LET target == resolve_target_pid(m) IN
  session' = IF target = None THEN session
             ELSE [session EXCEPT ![s].relay = [m EXCEPT !.target = target]]

\* ... and there the mutex is taken again: a push to the session that the target
\* has then, or nothing when it has none.
relay_message(s) ==
  LET m == session[s].relay
      to == pid_sessions_[m.target]
      idle == [session EXCEPT ![s].relay = None]
  IN
  /\ Open(s) /\ m # None
  /\ session' = IF to = None THEN idle
                ELSE [idle EXCEPT ![to] =
                        enqueue_json(@, [m EXCEPT !.type = "IPM_PUSH", !.src = session[s].pid])]
  /\ UNCHANGED <<running_, registry, wire>>

\* The heartbeat is on its way to the supervisor over a connection of its own.
forward_heartbeat_to_supervisor(s) == session' = [session EXCEPT ![s].forwarded = @ + 1]

\* The supervisor's answer, or that there is none to be had, goes back to the
\* process; nothing limits the wait for it.
HeartbeatAnswer(s, status) ==
  /\ Open(s) /\ session[s].forwarded > 0
  /\ session' = [session EXCEPT ![s] =
                    [enqueue_json(@, Bare(status)) EXCEPT !.forwarded = session[s].forwarded - 1]]
  /\ UNCHANGED <<running_, registry, wire>>

\* The next frame of session s.  A frame above max_message_bytes ends it.
handle_message(s) ==
  LET m == Head(wire[s].up) IN
  /\ Free(s) /\ ~session[s].ack /\ wire[s].up # <<>>
  /\ wire' = [wire EXCEPT ![s].up = Tail(@)]
  /\ UNCHANGED running_
  /\ \/ m.kind = "huge" /\ close_on_strand(s)
     \/ m.kind # "huge" /\ m.type = "BUS_REGISTER" /\ register_session(s)
     \/ m.kind # "huge" /\ m.type = "IPM_RELAY" /\ Resolved(s, m) /\ UNCHANGED registry
     \/ m.type = "HEARTBEAT" /\ forward_heartbeat_to_supervisor(s) /\ UNCHANGED registry

\* The far end closed: the read fails.
ReadError(s) ==
  /\ Free(s) /\ ~session[s].ack /\ wire[s].up = <<>> /\ wire[s].shut
  /\ close_on_strand(s) /\ UNCHANGED <<running_, wire>>

\* The write in progress ends, or fails once the far end is closed.
WriteDone(s) ==
  /\ Free(s) /\ session[s].writing
  /\ UNCHANGED running_
  /\ IF wire[s].shut THEN close_on_strand(s) /\ UNCHANGED wire
     ELSE /\ wire' = [wire EXCEPT ![s].down = Append(@, Head(session[s].queue))]
          /\ LET rest == Tail(session[s].queue) IN
             session' = [session EXCEPT ![s].queue = rest, ![s].writing = write_next(rest)]
          /\ UNCHANGED registry

\* stop() and the end of the kernel, which closes every connection.
stop_bus ==
  /\ running_ /\ running_' = FALSE
  /\ pid_sessions_' = [p \in Pids |-> None] /\ tree_root_pid_map_' = None
  /\ session' = [p \in Pids |-> Ended(session[p])]
  /\ UNCHANGED <<wire, latest>>
=============================================================================
