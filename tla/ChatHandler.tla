---------------------------- MODULE ChatHandler ----------------------------
(***************************************************************************)
(* The terminal handler (src/chat/handler.cpp), the process behind the     *)
(* gateways.  Every gateway connection has a connection thread, then a     *)
(* reader and a worker thread; the bus listener of the SDK injects work    *)
(* and asks of tools; the scheduler, an external service here, owns the    *)
(* sessions.  sessions_ maps a session id to the connection that has it.   *)
(*                                                                         *)
(* sessions_mutex_, queue_mutex and the lock of the ask table each make    *)
(* one action; calls to the scheduler happen between critical sections.    *)
(***************************************************************************)
EXTENDS Integers, Sequences, FiniteSets

CONSTANTS Client,       \* gateway connections
          SuperUser, MaxSession,
          Wish,         \* client -> what it may register as: [user_id, force_new]
          Job,          \* client -> what it may ask for: [type, target]
          BusEvent,     \* what may come over the bus: [purpose, uid, trace]
          Trace, Text,  \* traces of asks; replies as sequences of tokens
          Budget,       \* bound: messages of clients, but for replies to asks,
                        \* and of the bus
          None

Sid == SuperUser \X (1 .. MaxSession)
is_session_id_format(v) == v \in Sid
\* The keys of sessions_: switch_session also takes the name of the user.
Uid == Sid \cup SuperUser
extract_super_user(v) == IF is_session_id_format(v) THEN v[1] ELSE v

\* Jobs that the handler passes to the scheduler without a change of its own,
\* and those it works on itself; every slash command that only asks is a query.
Turns == {"text", "tool_message", "independent_msg"}
Commands == {"new", "delete", "destroy_user", "query"}
AskPurpose == "ASK_USER_REQUEST"

ASSUME ChatHandlerAssumption ==
  /\ MaxSession \in Nat \ {0} /\ Budget \in Nat
  /\ None \notin Client \cup Uid
  /\ \A c \in Client : /\ Wish[c] \subseteq [user_id : Uid, force_new : BOOLEAN]
                       /\ Job[c] \subseteq [type : Commands \cup Turns \cup {"switch"},
                                            target : Uid \cup {None}]
                       /\ \A j \in Job[c] : j.type = "switch" => j.target # None
  /\ \A e \in BusEvent : e.uid \in Uid \cup {None} /\ (e.purpose = AskPurpose => e.trace \in Trace)
  /\ \A s \in Text : s \in Seq({s[i] : i \in 1 .. Len(s)})

VARIABLES
  is_running,
  sessions,     \* sessions_: its key -> client, or None
  known_users,
  sess,         \* Session of each client: [user_id, super_user, active, queue]
  thr,          \* its threads: [conn, reader, worker, sid]
  asked,        \* ask_trace_to_pid_: the traces in it
  bus,          \* the bus listener: [job, todo]
  stored,       \* external: the sessions the scheduler has
  budget,
  answered,     \* history: trace -> replies relayed minus requests received
  shown,        \* history: what the last turn streamed, replied and showed
  late          \* history: clients listed again after their teardown

vars == <<is_running, sessions, known_users, sess, thr, asked, bus, stored, budget,
          answered, shown, late>>
quiet == <<is_running, asked, bus, answered>>

Init ==
  /\ is_running = TRUE
  /\ sessions = [k \in Uid |-> None]
  /\ known_users = {}
  /\ sess = [c \in Client |-> [user_id |-> None, super_user |-> None, active |-> TRUE,
                               queue |-> <<>>]]
  /\ thr = [c \in Client |-> [conn |-> "register", reader |-> "off", worker |-> "off",
                              sid |-> None]]
  /\ asked = {} /\ bus = [job |-> None, todo |-> {}]
  /\ stored = {} /\ budget = Budget
  /\ answered = [t \in Trace |-> 0]
  /\ shown = None
  /\ late = {}

----------------------------------------------------------------------------
(* The scheduler, as its answers show it: a session id, or no answer.      *)

SessionsOf(u) == {k \in stored : k[1] = u}
LastSession(u) == IF SessionsOf(u) = {} THEN <<u, 1>>
                  ELSE CHOOSE k \in SessionsOf(u) : \A l \in SessionsOf(u) : l[2] <= k[2]
NewSession(u) == IF SessionsOf(u) = {} THEN <<u, 1>>
                 ELSE <<u, LastSession(u)[2] + 1>>

\* send_session_control: the session the scheduler answers with, None when
\* it cannot be reached or does not answer in time.
send_session_control(u, action) ==
  {None} \cup (Sid \cap {IF action = "new" THEN NewSession(u) ELSE LastSession(u)})

----------------------------------------------------------------------------
(* Registration                                                            *)

ensure_known_user(u) == known_users' = known_users \cup {u}

\* The check looks for the id the client asked for, the entry made later has
\* the id the scheduler resolves.
handle_new_connection(c) ==
  /\ is_running /\ thr[c].conn = "register"
  /\ \E w \in Wish[c] :
       LET taken == sessions[w.user_id] # None IN
       /\ ensure_known_user(extract_super_user(w.user_id))
       /\ thr' = [thr EXCEPT
            ![c].conn = IF taken THEN "refused" ELSE IF w.force_new THEN "new" ELSE "resolve",
            ![c].sid = IF taken THEN None ELSE w.user_id]
       /\ sess' = [sess EXCEPT ![c].super_user = extract_super_user(w.user_id)]
  /\ UNCHANGED <<quiet, sessions, stored, budget, shown, late>>

ResolveSession(c) ==
  /\ thr[c].conn \in {"new", "resolve"}
  /\ \E sid \in IF thr[c].conn = "resolve" /\ is_session_id_format(thr[c].sid)
                THEN {thr[c].sid}
                ELSE send_session_control(sess[c].super_user,
                                          IF thr[c].conn = "new" THEN "new" ELSE "get_or_create") :
       /\ thr' = [thr EXCEPT ![c].sid = None, ![c].conn = IF sid = None THEN "refused" ELSE "list"]
       /\ sess' = [sess EXCEPT ![c].user_id = sid]
       /\ stored' = stored \cup ({sid} \ {None})
  /\ UNCHANGED <<quiet, sessions, known_users, budget, shown, late>>

\* The client is told, then listed; the reader and the worker start.
ListSession(c) ==
  /\ thr[c].conn = "list"
  /\ \/ /\ sessions' = [sessions EXCEPT ![sess[c].user_id] = c]
        /\ thr' = [thr EXCEPT ![c].conn = "done", ![c].reader = "read", ![c].worker = "test"]
     \/ /\ thr' = [thr EXCEPT ![c].conn = "refused"]     \* the client is gone
        /\ UNCHANGED sessions
  /\ UNCHANGED <<quiet, known_users, sess, stored, budget, shown, late>>

----------------------------------------------------------------------------
(* Moving a connection to another session                                  *)

\* (defect) The entry under the old id stays.
MovedTwice(c, sid) == [sessions EXCEPT ![sid] = c]
\* /new, /delete and switch_session erase the old entry and make a new one.
Moved(c, sid) == [[sessions EXCEPT ![sess[c].user_id] = None] EXCEPT ![sid] = c]

Move(c, sid) ==
  /\ sessions' = Moved(c, sid)
  /\ sess' = [sess EXCEPT ![c].user_id = sid]
  /\ late' = IF thr[c].reader = "done" THEN late \cup {c} ELSE late

----------------------------------------------------------------------------
(* The reader                                                              *)

Reading(c) == is_running /\ sess[c].active /\ thr[c].reader = "read"
Woken(t) == [t EXCEPT !.worker = IF @ = "asleep" THEN "test" ELSE @]

\* (defect) The queue is pushed to without its lock.
MayPushUnlocked(c) == TRUE
\* queue_mutex: free unless the worker is between its test and its sleep.
MayPush(c) == thr[c].worker # "dozing"

session_reader(c) ==
  /\ Reading(c) /\ budget > 0 /\ MayPush(c)
  /\ \E j \in Job[c] : /\ j.type # "switch"
                    /\ sess' = [sess EXCEPT ![c].queue = Append(@, j)]
  /\ thr' = [thr EXCEPT ![c] = Woken(@)]
  /\ budget' = budget - 1
  /\ UNCHANGED <<quiet, sessions, known_users, stored, shown, late>>

handle_switch_session(c) ==
  /\ Reading(c) /\ budget > 0
  /\ budget' = budget - 1
  /\ \E j \in Job[c] :
       /\ j.type = "switch" /\ extract_super_user(j.target) = sess[c].super_user
       /\ IF sessions[j.target] \notin {None, c} THEN UNCHANGED <<sessions, sess, late>>
          ELSE Move(c, j.target)
  /\ UNCHANGED <<quiet, known_users, thr, stored, shown>>

\* (defect) The entry of an answered ask stays.
StillAsked(t) == asked
\* The first reply to a trace takes its entry; later ones go nowhere.
Unasked(t) == asked \ {t}
handle_ask_user_reply(c) ==
  /\ Reading(c)
  /\ \E t \in Trace :
       /\ asked' = Unasked(t)
       /\ answered' = IF t \in asked THEN [answered EXCEPT ![t] = @ + 1] ELSE answered
  /\ UNCHANGED <<is_running, sessions, known_users, sess, thr, bus, stored, budget, shown, late>>

\* The client hangs up, or the loop ends: teardown_session, which stores
\* active and notifies without queue_mutex.
TeardownMark(c) ==
  /\ thr[c].reader = "read"
  /\ sess' = [sess EXCEPT ![c].active = FALSE]
  /\ thr' = [thr EXCEPT ![c] = [Woken(@) EXCEPT !.reader = "erase"]]
  /\ UNCHANGED <<quiet, sessions, known_users, stored, budget, shown, late>>

\* (defect) Teardown leaves the entry of the session.
TeardownKeeps(c) ==
  /\ thr[c].reader = "erase"
  /\ thr' = [thr EXCEPT ![c].reader = "done"]
  /\ UNCHANGED <<quiet, sessions, known_users, sess, stored, budget, shown, late>>
TeardownErase(c) ==
  /\ thr[c].reader = "erase"
  /\ sessions' = [sessions EXCEPT ![sess[c].user_id] = None]
  /\ thr' = [thr EXCEPT ![c].reader = "done"]
  /\ UNCHANGED <<quiet, known_users, sess, stored, budget, shown, late>>

----------------------------------------------------------------------------
(* The worker                                                              *)

Stopped(c) == ~sess[c].active \/ ~is_running
WorkerStep(c, pc) == thr' = [thr EXCEPT ![c].worker = pc]

\* The predicate of queue_cv, tested under queue_mutex.
TestPredicate(c) ==
  /\ thr[c].worker = "test"
  /\ IF Stopped(c) THEN WorkerStep(c, "done") /\ UNCHANGED sess
     ELSE IF sess[c].queue = <<>> THEN WorkerStep(c, "dozing") /\ UNCHANGED sess
     ELSE /\ thr' = [thr EXCEPT ![c].sid = Head(sess[c].queue).target,
                                ![c].worker = LET y == Head(sess[c].queue).type IN
                                              IF y \in Turns THEN "turn" ELSE y]
          /\ sess' = [sess EXCEPT ![c].queue = Tail(@)]
  /\ UNCHANGED <<quiet, sessions, known_users, stored, budget, shown, late>>

FallAsleep(c) ==
  /\ thr[c].worker = "dozing"
  /\ WorkerStep(c, "asleep")
  /\ UNCHANGED <<quiet, sessions, known_users, sess, stored, budget, shown, late>>

IsPrefix(s, t) == Len(s) <= Len(t) /\ SubSeq(t, 1, Len(s)) = s
IsSuffix(s, t) == Len(s) <= Len(t) /\ SubSeq(t, Len(t) - Len(s) + 1, Len(t)) = s

\* (defect) A longer reply is taken for a continuation.
flush_by_length(streamed, reply) ==
  IF reply = <<>> \/ IsSuffix(reply, streamed) THEN streamed
  ELSE IF Len(reply) > Len(streamed) THEN streamed \o SubSeq(reply, Len(streamed) + 1, Len(reply))
  ELSE streamed \o <<"newline">> \o reply
\* What the client has seen once the reply is reconciled with the stream.
flush_reply(streamed, reply) ==
  IF reply = <<>> \/ IsSuffix(reply, streamed) THEN streamed
  ELSE IF IsPrefix(streamed, reply) THEN reply
  ELSE streamed \o <<"newline">> \o reply

\* A turn with the model; an error ends it without a reply.
process_request(c) ==
  /\ thr[c].worker = "turn"
  /\ \E streamed, reply \in Text :
       shown' = [streamed |-> streamed, reply |-> reply, seen |-> flush_reply(streamed, reply)]
  /\ WorkerStep(c, "end")
  /\ UNCHANGED <<quiet, sessions, known_users, sess, stored, budget, late>>

\* emit_context_usage and "end", then the test of the loop.
EndTurn(c) ==
  /\ thr[c].worker = "end"
  /\ thr' = [thr EXCEPT ![c].worker = IF Stopped(c) THEN "done" ELSE "test",
                        ![c].sid = None]
  /\ shown' = None
  /\ UNCHANGED <<quiet, sessions, known_users, sess, stored, budget, late>>

\* /new asks the scheduler, and /delete for a session to fall back on.
CommandResolve(c) ==
  /\ thr[c].worker \in {"new", "fallback"}
  /\ \E sid \in send_session_control(sess[c].super_user,
                                     IF thr[c].worker = "new" THEN "new" ELSE "get_or_create") :
       /\ stored' = stored \cup ({sid} \ {None})
       /\ thr' = [thr EXCEPT ![c].sid = sid, ![c].worker = IF sid = None THEN "end" ELSE "move"]
  /\ UNCHANGED <<quiet, sessions, known_users, sess, budget, shown, late>>
CommandMove(c) ==
  /\ thr[c].worker = "move"
  /\ Move(c, thr[c].sid)
  /\ WorkerStep(c, "end")
  /\ UNCHANGED <<quiet, known_users, stored, budget, shown>>

\* /compact, /undo, /sessions, /title and the commands that show something:
\* the scheduler is asked and the client told what it says.
Query(c) ==
  /\ thr[c].worker = "query"
  /\ WorkerStep(c, "end")
  /\ UNCHANGED <<quiet, sessions, known_users, sess, stored, budget, shown, late>>

\* /delete: a session of this super user that no other connection has.
DeleteCheck(c) ==
  LET k == thr[c].sid IN
  /\ thr[c].worker = "delete"
  /\ WorkerStep(c, IF /\ is_session_id_format(k) /\ extract_super_user(k) = sess[c].super_user
                      /\ sessions[k] \in {None, c}
                   THEN "delete_call" ELSE "end")
  /\ UNCHANGED <<quiet, sessions, known_users, sess, stored, budget, shown, late>>
DeleteCall(c) ==
  LET k == thr[c].sid IN
  /\ thr[c].worker = "delete_call"
  /\ \/ stored' \in {stored, stored \ {k}} /\ WorkerStep(c, "end")    \* no answer, an error
     \/ stored' = stored \ {k}
        /\ WorkerStep(c, IF k = sess[c].user_id THEN "fallback" ELSE "end")
  /\ UNCHANGED <<quiet, sessions, known_users, sess, budget, shown, late>>

\* /destroy_user: refused while a second connection of the user is listed.
DestroyCheck(c) ==
  /\ thr[c].worker = "destroy_user"
  /\ LET listed == {k \in Uid : sessions[k] # None /\ sess[sessions[k]].super_user = sess[c].super_user}
     IN  WorkerStep(c, IF Cardinality(listed) > 1 THEN "end" ELSE "destroy_call")
  /\ UNCHANGED <<quiet, sessions, known_users, sess, stored, budget, shown, late>>
DestroyCall(c) ==
  /\ thr[c].worker = "destroy_call"
  /\ LET left == stored \ SessionsOf(sess[c].super_user) IN
     \/ stored' = left /\ WorkerStep(c, "disconnect")
     \/ stored' \in {stored, left} /\ WorkerStep(c, "end")
  /\ UNCHANGED <<quiet, sessions, known_users, sess, budget, shown, late>>
\* The user is gone: the connection is unlisted, then marked, and the reader
\* may move it to another session in between.
Disconnect(c) ==
  /\ thr[c].worker = "disconnect"
  /\ sessions' = [sessions EXCEPT ![sess[c].user_id] = None]
  /\ WorkerStep(c, "deactivate")
  /\ UNCHANGED <<quiet, known_users, sess, stored, budget, shown, late>>
Deactivate(c) ==
  /\ thr[c].worker = "deactivate"
  /\ sess' = [sess EXCEPT ![c].active = FALSE]
  /\ WorkerStep(c, "end")
  /\ UNCHANGED <<quiet, sessions, known_users, stored, budget, shown, late>>

----------------------------------------------------------------------------
(* The bus listener                                                        *)

Holder(uid) == {sessions[uid]} \ {None}
Listed == {sessions[k] : k \in Uid} \ {None}

\* Events that are for one user: without a user id they go to nobody, other
\* events go to every connection then.
Addressed == {AskPurpose, "tool_event", "tool_message"}
Recipients(e) == IF e.uid # None THEN Holder(e.uid)
                 ELSE IF e.purpose \in Addressed THEN {} ELSE Listed

\* on_bus_event: an ask is entered in the table; the connections that the
\* event is for are looked up.
on_bus_event ==
  /\ is_running /\ bus.todo = {} /\ budget > 0
  /\ budget' = budget - 1
  /\ \E e \in BusEvent :
       /\ bus' = [job |-> e.purpose, todo |-> Recipients(e)]
       /\ IF e.purpose # AskPurpose THEN UNCHANGED <<asked, answered>>
          ELSE /\ asked' = asked \cup {e.trace}
               /\ answered' = [answered EXCEPT ![e.trace] = @ - 1]
  /\ UNCHANGED <<is_running, sessions, known_users, sess, thr, stored, shown, late>>

\* inject_to_session and broadcast_injection.
inject_to_session(c) ==
  /\ c \in bus.todo /\ bus.job \in Turns /\ MayPush(c)
  /\ sess' = [sess EXCEPT ![c].queue = Append(@, [type |-> bus.job, target |-> None])]
  /\ thr' = [thr EXCEPT ![c] = Woken(@)]
  /\ bus' = [bus EXCEPT !.todo = @ \ {c}]
  /\ UNCHANGED <<is_running, sessions, known_users, asked, stored, budget, answered, shown, late>>
\* send_to_session and broadcast_event: a frame, when the socket is open.
send_to_session(c) ==
  /\ c \in bus.todo /\ bus.job \notin Turns
  /\ bus' = [bus EXCEPT !.todo = @ \ {c}]
  /\ UNCHANGED <<is_running, sessions, known_users, sess, thr, asked, stored, budget, answered,
                 shown, late>>

\* on_shutdown: the listed connections are ended.
on_shutdown ==
  /\ is_running /\ is_running' = FALSE
  /\ sess' = [c \in Client |-> IF c \in Listed THEN [sess[c] EXCEPT !.active = FALSE]
                               ELSE sess[c]]
  /\ thr' = [c \in Client |-> IF c \in Listed THEN Woken(thr[c]) ELSE thr[c]]
  /\ UNCHANGED <<sessions, known_users, asked, bus, stored, budget, answered, shown, late>>

----------------------------------------------------------------------------
Connection(c) == handle_new_connection(c) \/ ResolveSession(c) \/ ListSession(c)
Reader(c) == \/ session_reader(c) \/ handle_switch_session(c) \/ handle_ask_user_reply(c)
             \/ TeardownMark(c) \/ TeardownErase(c)
Worker(c) == \/ TestPredicate(c) \/ FallAsleep(c) \/ process_request(c) \/ EndTurn(c)
             \/ Query(c) \/ CommandResolve(c) \/ CommandMove(c) \/ DeleteCheck(c) \/ DeleteCall(c)
             \/ DestroyCheck(c) \/ DestroyCall(c) \/ Disconnect(c) \/ Deactivate(c)
Bus(c) == inject_to_session(c) \/ send_to_session(c)

Next == \/ \E c \in Client : Connection(c) \/ Reader(c) \/ Worker(c) \/ Bus(c)
        \/ on_bus_event \/ on_shutdown

\* The worker threads run; a call to the scheduler ends with its timeout.
Spec == Init /\ [][Next]_vars /\ \A c \in Client : WF_vars(Worker(c))

----------------------------------------------------------------------------
(* Properties                                                              *)

\* An entry of sessions_ leads to a connection that is in that session, so
\* that send_to_session and teardown_session work on the right one, whatever
\* /new, /delete, switch_session and a second connection do meanwhile.
ListedUnderItsName ==
  \A k \in Uid : sessions[k] # None => sess[sessions[k]].user_id = k

\* A connection whose teardown is over is not listed any more (a listed one
\* blocks its session id: handle_new_connection answers "already active"),
\* unless a command of its worker lists it again afterwards.
DeadIsUnlisted ==
  \A c \in Client \ late : thr[c].reader = "done" => c \notin Listed

\* handle_ask_user_reply relays at most one reply per request, also when the
\* readers of two connections answer the same trace.
AskAnsweredOnce == \A t \in Trace : answered[t] <= 0

\* After a turn the client has seen the whole reply, last, and once when it
\* was streamed (flush_reply reconciles the stream with the final reply).
ReplyIsShown ==
  shown # None =>
    /\ IsSuffix(shown.reply, shown.seen) /\ IsPrefix(shown.streamed, shown.seen)
    /\ IsPrefix(shown.streamed, shown.reply) =>
         shown.seen = IF shown.reply = <<>> THEN shown.streamed ELSE shown.reply

\* Every queued message is taken by the worker, or the connection ends: the
\* notification of queue_cv is not lost (session_worker's wait).
QueueIsServed ==
  \A c \in Client : sess[c].queue # <<>> ~> (sess[c].queue = <<>> \/ Stopped(c))

\* "one active socket per (super_user, session_id)" (handler.cpp:6).
OneSocketPerSession ==
  \A c, d \in Listed \cup {e \in Client : thr[e].reader = "read" /\ sess[e].active} :
    sess[c].user_id = sess[d].user_id => c = d
=============================================================================
