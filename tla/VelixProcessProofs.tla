------------------------- MODULE VelixProcessProofs -------------------------
(***************************************************************************)
(* Proofs about Bus and VelixProcess for every set of processes and calls  *)
(* and every workload: the bus reaches the handler that registered last,   *)
(* a response is stored for somebody who waits for it, and FINISHED is     *)
(* said of a process that is over or has lost the bus.                     *)
(***************************************************************************)
EXTENDS VelixProcess, SequenceTheorems, TLAPS

Frame == [type : {"BUS_REGISTER", "IPM_RELAY", "IPM_PUSH", "HEARTBEAT", "ok", "error"},
          target : Pids \cup {None}, trace : Calls \cup {None},
          kind : {"result", "huge", "async", "ask", "reply", None},
          of : Tools \cup {None}, src : Pids \cup {None}]
\* A session that writes has a frame to write.
Connected == {s \in [pid : Pids \cup {None}, closed : BOOLEAN, queue : Seq(Frame),
                     writing : BOOLEAN, ack : BOOLEAN, relay : Frame \cup {None},
                     forwarded : Nat] : /\ s.writing => s.queue # <<>>
                                        /\ s.relay # None => s.relay.target # None}
Streams == [up : Seq(Frame), down : Seq(Frame), shut : BOOLEAN]
Unborn == {"none", "spawned"}
MainPc == Unborn \cup {"handshake", "run", "over", "end", "aborted"}
Process == [main : MainPc, parent : Pids \cup {None}, trace : Calls \cup {None},
            reported : BOOLEAN, async : BOOLEAN, is_running : BOOLEAN, force : BOOLEAN,
            signal : BOOLEAN, halt : {"no", "closing", "joining", "done"}, sock : BOOLEAN,
            listener : BOOLEAN, io : {"none", "loop", "beat", "asking", "done"},
            held : {None, "bus_mutex", "queue_mutex"}, stuck : BOOLEAN]
Waiting == {"launch", "unheard", "wait"}
CallState == [owner : Pids \cup {None},
              phase : Waiting \cup {"none", "done", "timeout", "failed", "dead"}, attempt : Nat]

BusType ==
  /\ running_ \in BOOLEAN /\ pid_sessions_ \in [Pids -> Pids \cup {None}]
  /\ tree_root_pid_map_ \in Pids \cup {None} /\ latest \in Handlers \cup {None}
  /\ session \in [Pids -> Connected] /\ wire \in [Pids -> Streams]
ProcType == proc \in [Pids -> Process]
WaitType ==
  /\ pending \in [Pids -> SUBSET Traces] /\ response \in [Pids -> SUBSET Traces]
  /\ call \in [Calls -> CallState]
  /\ ask \in [Tools -> {"none", "waiting", "answered", "timeout"}]
RestType ==
  /\ load \in Load /\ beats \in Nat
  /\ agent \in [Handlers -> [pc : {"idle", "llm", "tools"}, round : Nat]]
  /\ asks \in [Handlers -> SUBSET (Tools \cup {None})]
  /\ told \in [Pids -> {"FINISHED", "KILLED", None}] /\ lost \subseteq Pids
  /\ crashed \subseteq Calls \cup {None} /\ replied \subseteq Traces
TypeOK == BusType /\ ProcType /\ WaitType /\ RestType

\* A connection belongs to the process that opened it and its entry in the
\* registry stands as long as it does.
BusInv(p) ==
  /\ session[p].pid \in {None, p}
  /\ proc[p].main \in Unborn => session[p].closed /\ session[p].pid = None
  /\ Open(p) /\ session[p].pid = p => /\ pid_sessions_[p] = p
                                      /\ latest = p => tree_root_pid_map_ = p

\* A trace is pending or has a response only for its own waiting thread.
For(p, t, phases) ==
  \/ t \in Calls /\ call[t].owner = p /\ call[t].phase \in phases
  \/ t = p /\ p \in Tools /\ ask[p] = "waiting"
AwaitInv(p) ==
  /\ \A t \in pending[p] : For(p, t, Waiting)
  /\ \A t \in response[p] : For(p, t, Waiting \cup {"failed"})

\* A process that has started and is not running was signalled or lost the
\* bus; before that its heartbeat thread says nothing.
EndInv(p) ==
  /\ proc[p].main \in Unborn \cup {"handshake"} => proc[p].io = "none" /\ told[p] # "FINISHED"
  /\ proc[p].main \in Unborn => ~proc[p].force
  /\ proc[p].main \in {"handshake", "run"} =>
       /\ proc[p].force => proc[p].signal
       /\ ~proc[p].is_running => proc[p].signal \/ p \in lost
  /\ proc[p].main = "run" /\ told[p] = "FINISHED" => p \in lost

\* The inductive invariant.
Inv == TypeOK /\ \A p \in Pids : BusInv(p) /\ AwaitInv(p) /\ EndInv(p)

-----------------------------------------------------------------------------
(* Frames and streams                                                      *)

LEMMA BareType ==
  ASSUME NEW type \in {"BUS_REGISTER", "HEARTBEAT", "ok", "error"}
  PROVE  Bare(type) \in Frame
BY DEF Bare, Message, Frame

LEMMA ResultType ==
  ASSUME ProcType, NEW p \in Pids, NEW kind \in {"result", "huge", "async"}
  PROVE  Result(p, kind) \in Frame
<1>1. proc[p].parent \in Pids \cup {None} /\ proc[p].trace \in Calls \cup {None}
  BY DEF ProcType, Process
<1>2. QED BY <1>1 DEF Result, Message, Frame

LEMMA WireUpdate ==
  ASSUME wire \in [Pids -> Streams], NEW p \in Pids, NEW n \in Streams,
         wire' = [wire EXCEPT ![p] = n]
  PROVE  wire' \in [Pids -> Streams]
OBVIOUS

LEMMA StreamType ==
  ASSUME wire \in [Pids -> Streams], NEW p \in Pids
  PROVE  /\ wire[p] \in Streams /\ wire[p].up \in Seq(Frame) /\ wire[p].down \in Seq(Frame)
         /\ wire[p].shut \in BOOLEAN
BY DEF Streams

LEMMA SendType ==
  ASSUME wire \in [Pids -> Streams], NEW p \in Pids, NEW m \in Frame, Send(p, m)
  PROVE  wire' \in [Pids -> Streams]
<1> DEFINE q == Append(wire[p].up, m)
<1> DEFINE n == [wire[p] EXCEPT !.up = q]
<1>1. wire[p] \in Streams /\ q \in Seq(Frame)
  BY StreamType, AppendProperties
<1>2. wire' = [wire EXCEPT ![p] = n]
  BY DEF Send
<1> HIDE DEF q
<1>3. n \in Streams
  BY <1>1 DEF Streams
<1> HIDE DEF n
<1>4. QED BY <1>2, <1>3, WireUpdate

LEMMA DownType ==
  ASSUME wire \in [Pids -> Streams], NEW p \in Pids, NEW q \in Seq(Frame),
         wire' = [wire EXCEPT ![p].down = q]
  PROVE  wire' \in [Pids -> Streams]
<1> DEFINE n == [wire[p] EXCEPT !.down = q]
<1>1. wire[p] \in Streams
  BY StreamType
<1>2. wire' = [wire EXCEPT ![p] = n]
  OBVIOUS
<1>3. n \in Streams
  BY <1>1 DEF Streams
<1> HIDE DEF n
<1>4. QED BY <1>2, <1>3, WireUpdate

LEMMA UpType ==
  ASSUME wire \in [Pids -> Streams], NEW p \in Pids, NEW q \in Seq(Frame),
         wire' = [wire EXCEPT ![p].up = q]
  PROVE  wire' \in [Pids -> Streams]
<1> DEFINE n == [wire[p] EXCEPT !.up = q]
<1>1. wire[p] \in Streams
  BY StreamType
<1>2. wire' = [wire EXCEPT ![p] = n]
  OBVIOUS
<1>3. n \in Streams
  BY <1>1 DEF Streams
<1> HIDE DEF n
<1>4. QED BY <1>2, <1>3, WireUpdate

-----------------------------------------------------------------------------
(* Sessions and processes, field by field                                  *)

SessionMove(s, pid, closed) ==
  /\ session' \in [Pids -> Connected] /\ \A q \in Pids : q # s => session'[q] = session[q]
  /\ session'[s].pid = pid /\ session'[s].closed = closed
SessionsKept ==
  /\ session' \in [Pids -> Connected]
  /\ \A q \in Pids : session'[q].pid = session[q].pid /\ session'[q].closed = session[q].closed

LEMMA SessionUpdate ==
  ASSUME session \in [Pids -> Connected], NEW s \in Pids, NEW n \in Connected,
         session' = [session EXCEPT ![s] = n]
  PROVE  SessionMove(s, n.pid, n.closed)
BY DEF SessionMove

LEMMA SessionType ==
  ASSUME session \in [Pids -> Connected], NEW s \in Pids
  PROVE  /\ session[s] \in Connected /\ session[s].queue \in Seq(Frame)
         /\ session[s].writing \in BOOLEAN /\ session[s].pid \in Pids \cup {None}
         /\ session[s].writing => session[s].queue # <<>>
         /\ session[s].relay \in Frame \cup {None} /\ session[s].forwarded \in Nat
         /\ session[s].relay # None => session[s].relay.target # None
BY DEF Connected

LEMMA KeptMove ==
  ASSUME NEW s \in Pids, SessionMove(s, session[s].pid, session[s].closed)
  PROVE  SessionsKept
BY DEF SessionMove, SessionsKept

LEMMA QueueMove ==
  ASSUME session \in [Pids -> Connected], NEW s \in Pids, NEW q \in Seq(Frame), NEW w \in BOOLEAN,
         w => q # <<>>, session' = [session EXCEPT ![s].queue = q, ![s].writing = w]
  PROVE  SessionsKept
<1> DEFINE n == [session[s] EXCEPT !.queue = q, !.writing = w]
<1>1. session[s] \in Connected
  BY SessionType
<1>2. n \in Connected /\ n.pid = session[s].pid /\ n.closed = session[s].closed
  BY <1>1 DEF Connected
<1>3. session' = [session EXCEPT ![s] = n]
  OBVIOUS
<1> HIDE DEF n
<1>4. QED BY <1>2, <1>3, SessionUpdate, KeptMove

LEMMA EnqueueType ==
  ASSUME NEW r \in Connected, NEW m \in Frame
  PROVE  /\ enqueue_json(r, m) \in Connected
         /\ enqueue_json(r, m).pid = r.pid /\ enqueue_json(r, m).closed = r.closed
<1> DEFINE q == Append(r.queue, m)
<1> DEFINE w == r.writing \/ r.queue = <<>>
<1>1. r.queue \in Seq(Frame) /\ w \in BOOLEAN
  BY DEF Connected
<1>2. q \in Seq(Frame) /\ q # <<>>
  BY <1>1, AppendProperties
<1>3. enqueue_json(r, m) = IF r.closed THEN r ELSE [r EXCEPT !.queue = q, !.writing = w]
  BY DEF enqueue_json
<1> HIDE DEF q, w
<1>4. QED BY <1>1, <1>2, <1>3 DEF Connected

\* A session that becomes n, with the same pid and as open as before.
LEMMA KeptUpdate ==
  ASSUME session \in [Pids -> Connected], NEW s \in Pids, NEW n \in Connected,
         n.pid = session[s].pid, n.closed = session[s].closed,
         session' = [session EXCEPT ![s] = n]
  PROVE  SessionsKept
BY SessionUpdate, KeptMove

LEMMA EndedType ==
  ASSUME NEW r \in Connected
  PROVE  Ended(r) \in Connected /\ Ended(r).pid = r.pid /\ Ended(r).closed = TRUE
<1>1. <<>> \in Seq(Frame)
  BY EmptySeq
<1>2. QED BY <1>1 DEF Ended, Connected

LEMMA CloseMove ==
  ASSUME session \in [Pids -> Connected], NEW s \in Pids, close_on_strand(s)
  PROVE  SessionMove(s, session[s].pid, TRUE)
<1> DEFINE n == Ended(session[s])
<1>1. n \in Connected /\ n.pid = session[s].pid /\ n.closed = TRUE
  BY SessionType, EndedType
<1>2. session' = [session EXCEPT ![s] = n]
  BY DEF close_on_strand
<1> HIDE DEF n
<1>3. QED BY <1>1, <1>2, SessionUpdate

\* The process p has become n.
Becomes(p, n) == ProcType' /\ proc'[p] = n /\ \A q \in Pids : q # p => proc'[q] = proc[q]

LEMMA SetBecomes ==
  ASSUME ProcType, NEW p \in Pids, NEW n \in Process, Set(p, n)
  PROVE  Becomes(p, n)
BY DEF ProcType, Set, Becomes

LEMMA ProcessType ==
  ASSUME ProcType, NEW p \in Pids
  PROVE  proc[p] \in Process
BY DEF ProcType

-----------------------------------------------------------------------------
(* What a step leaves alone                                                *)

\* No process is unborn again.
Forward == \A p \in Pids : proc'[p].main \in Unborn => proc[p].main \in Unborn

LEMMA BusKept ==
  ASSUME Inv, UNCHANGED <<running_, registry>>, SessionsKept, Forward
  PROVE  \A p \in Pids : BusInv(p)'
<1> SUFFICES ASSUME NEW p \in Pids
             PROVE  BusInv(p)'
  OBVIOUS
<1>1. BusInv(p) /\ (proc'[p].main \in Unborn => proc[p].main \in Unborn)
  BY DEF Inv, Forward
<1>2. QED BY <1>1 DEF BusInv, SessionsKept, Open, registry

LEMMA SameSessions ==
  ASSUME Inv, UNCHANGED session
  PROVE  SessionsKept
BY DEF Inv, TypeOK, BusType, SessionsKept

LEMMA AwaitKept ==
  ASSUME Inv, UNCHANGED <<pending, response, call, ask>>
  PROVE  WaitType' /\ \A p \in Pids : AwaitInv(p)'
<1>1. WaitType'
  BY DEF Inv, TypeOK, WaitType
<1>2. \A p \in Pids : AwaitInv(p)'
  BY DEF Inv, AwaitInv, For
<1>3. QED BY <1>1, <1>2

LEMMA EndSame ==
  ASSUME Inv, UNCHANGED <<proc, told>>, lost \subseteq lost'
  PROVE  \A p \in Pids : EndInv(p)'
BY DEF Inv, EndInv

LEMMA EndMoves ==
  ASSUME Inv, NEW p \in Pids, NEW n, Becomes(p, n), \A q \in Pids : q # p => told'[q] = told[q],
         lost \subseteq lost', EndInv(p)'
  PROVE  \A q \in Pids : EndInv(q)'
<1> SUFFICES ASSUME NEW q \in Pids, q # p
             PROVE  EndInv(q)'
  OBVIOUS
<1>1. EndInv(q) /\ proc'[q] = proc[q] /\ told'[q] = told[q]
  BY DEF Inv, Becomes
<1>2. QED BY <1>1 DEF EndInv

\* A step of one process that leaves the bus but for the wire, and the calls
\* and their responses, alone.
LEMMA ProcessStep ==
  ASSUME Inv, NEW p \in Pids, NEW n, Becomes(p, n), UNCHANGED <<running_, registry, session>>,
         n.main \in Unborn => proc[p].main \in Unborn,
         wire' \in [Pids -> Streams], UNCHANGED <<pending, response, call, ask>>,
         \A q \in Pids : q # p => told'[q] = told[q], lost \subseteq lost', RestType', EndInv(p)'
  PROVE  Inv'
<1>1. Forward
  BY DEF Forward, Becomes
<1>2. \A q \in Pids : BusInv(q)'
  BY <1>1, BusKept, SameSessions
<1>3. WaitType' /\ \A q \in Pids : AwaitInv(q)'
  BY AwaitKept
<1>4. \A q \in Pids : EndInv(q)'
  BY EndMoves
<1>5. BusType'
  BY DEF Inv, TypeOK, BusType, registry
<1>6. QED BY <1>2, <1>3, <1>4, <1>5 DEF Inv, TypeOK, Becomes

\* A step that changes no process.
LEMMA QuietStep ==
  ASSUME Inv, UNCHANGED <<running_, registry, session, proc, told>>,
         wire' \in [Pids -> Streams], lost \subseteq lost', RestType',
         WaitType' /\ \A q \in Pids : AwaitInv(q)'
  PROVE  Inv'
<1>1. Forward
  BY DEF Forward
<1>2. \A q \in Pids : BusInv(q)'
  BY <1>1, BusKept, SameSessions
<1>3. \A q \in Pids : EndInv(q)'
  BY EndSame
<1>4. BusType' /\ ProcType'
  BY DEF Inv, TypeOK, BusType, ProcType, registry
<1>5. QED BY <1>2, <1>3, <1>4 DEF Inv, TypeOK

LEMMA RestKept ==
  ASSUME RestType, UNCHANGED <<load, agent, asks, beats, history>>
  PROVE  RestType'
BY DEF RestType, history

-----------------------------------------------------------------------------
(* The bus                                                                 *)

\* A step of the bus: no process moves, and its own invariant is kept.
LEMMA BusStepInv ==
  ASSUME Inv, UNCHANGED <<load, sdk, beats, history>>, BusType', \A p \in Pids : BusInv(p)'
  PROVE  Inv'
<1>1. UNCHANGED <<proc, pending, response, call, ask, agent, asks, load, beats, history>>
  BY DEF sdk
<1>2. WaitType' /\ \A p \in Pids : AwaitInv(p)'
  BY <1>1, AwaitKept
<1>3. \A p \in Pids : EndInv(p)'
  BY <1>1, EndSame DEF history
<1>4. ProcType' /\ RestType'
  BY <1>1, RestKept DEF Inv, TypeOK, ProcType
<1>5. QED BY <1>2, <1>3, <1>4 DEF Inv, TypeOK

LEMMA QueueStep ==
  ASSUME Inv, UNCHANGED <<load, sdk, beats, history, running_, registry>>, SessionsKept,
         wire' \in [Pids -> Streams]
  PROVE  Inv'
<1>1. Forward
  BY DEF Forward, sdk
<1>2. \A p \in Pids : BusInv(p)'
  BY <1>1, BusKept
<1>3. BusType'
  BY DEF Inv, TypeOK, BusType, registry, SessionsKept
<1>4. QED BY <1>2, <1>3, BusStepInv

\* An ending session takes no entry but its own.
LEMMA CloseStep ==
  ASSUME Inv, UNCHANGED <<load, sdk, beats, history, running_>>, NEW s \in Pids,
         close_on_strand(s), wire' \in [Pids -> Streams]
  PROVE  Inv'
<1>1. BusType /\ \A p \in Pids : BusInv(p)
  BY DEF Inv, TypeOK
<1>2. SessionMove(s, session[s].pid, TRUE)
  BY <1>1, CloseMove DEF BusType
<1>3. session[s].pid \in {None, s} /\ None \notin Pids
  BY <1>1, BusAssumption DEF BusInv
<1>4. /\ pid_sessions_' \in [Pids -> Pids \cup {None}]
      /\ \A q \in Pids : q # s => pid_sessions_'[q] = pid_sessions_[q]
  BY <1>1, <1>3 DEF close_on_strand, unregister_session, BusType
<1>5. /\ latest' = latest
      /\ tree_root_pid_map_' \in Pids \cup {None}
      /\ \A q \in Pids : q # s /\ tree_root_pid_map_ = q => tree_root_pid_map_' = q
  BY <1>1, <1>3 DEF close_on_strand, unregister_session, owns_root, BusType
<1>6. BusType'
  BY <1>1, <1>2, <1>4, <1>5 DEF BusType, SessionMove
<1>7. ASSUME NEW q \in Pids
      PROVE  BusInv(q)'
  <2>1. BusInv(q) /\ proc' = proc /\ running_' = running_
    BY <1>1 DEF sdk
  <2>2. CASE q = s
    BY <1>2, <2>1, <2>2 DEF BusInv, SessionMove, Open
  <2>3. CASE q # s
    BY <1>2, <1>4, <1>5, <2>1, <2>3 DEF BusInv, SessionMove, Open
  <2>4. QED BY <2>2, <2>3
<1>8. QED BY <1>6, <1>7, BusStepInv

LEMMA RegisterStep ==
  ASSUME Inv, UNCHANGED <<load, sdk, beats, history, running_>>, NEW s \in Pids, Open(s),
         register_session(s), wire' \in [Pids -> Streams]
  PROVE  Inv'
<1>1. BusType /\ (\A p \in Pids : BusInv(p)) /\ Handlers \subseteq Pids /\ None \notin Pids
  BY BusAssumption DEF Inv, TypeOK
<1> DEFINE n == [session[s] EXCEPT !.pid = s, !.ack = TRUE]
<1>2. n \in Connected /\ n.pid = s /\ n.closed = session[s].closed
  <2>1. session[s] \in Connected
    BY <1>1, SessionType DEF BusType
  <2>2. QED BY <2>1 DEF Connected
<1>3. session' = [session EXCEPT ![s] = n]
  BY DEF register_session
<1> HIDE DEF n
<1>4. SessionMove(s, s, session[s].closed)
  BY <1>1, <1>2, <1>3, SessionUpdate DEF BusType
<1>5. /\ pid_sessions_' \in [Pids -> Pids \cup {None}] /\ pid_sessions_'[s] = s
      /\ \A q \in Pids : q # s => pid_sessions_'[q] = pid_sessions_[q]
  BY <1>1 DEF register_session, BusType
<1>6. /\ latest' \in Handlers \cup {None} /\ tree_root_pid_map_' \in Pids \cup {None}
      /\ latest' = s => tree_root_pid_map_' = s
      /\ \A q \in Pids : q # s /\ latest' = q => latest = q /\ tree_root_pid_map_' = tree_root_pid_map_
  BY <1>1 DEF register_session, BusType
<1>7. BusType'
  BY <1>1, <1>4, <1>5, <1>6 DEF BusType, SessionMove
<1>8. ASSUME NEW q \in Pids
      PROVE  BusInv(q)'
  <2>1. BusInv(q) /\ proc' = proc /\ running_' = running_
    BY <1>1 DEF sdk
  <2>2. CASE q = s
    BY <1>4, <1>5, <1>6, <2>1, <2>2 DEF BusInv, SessionMove, Open
  <2>3. CASE q # s
    BY <1>4, <1>5, <1>6, <2>1, <2>3 DEF BusInv, SessionMove, Open
  <2>4. QED BY <2>2, <2>3
<1>9. QED BY <1>7, <1>8, BusStepInv

\* What is on its way to relay_message has a target.
LEMMA ResolvedKept ==
  ASSUME BusType, NEW s \in Pids, NEW m \in Frame, Resolved(s, m)
  PROVE  SessionsKept
<1> DEFINE target == resolve_target_pid(m)
<1>1. target \in Pids \cup {None}
  BY DEF BusType, resolve_target_pid, Frame
<1>2. CASE target = None
  BY <1>2 DEF Resolved, BusType, SessionsKept
<1>3. CASE target # None
  <2> DEFINE f == [m EXCEPT !.target = target]
  <2> DEFINE n == [session[s] EXCEPT !.relay = f]
  <2>1. session' = [session EXCEPT ![s] = n]
    BY <1>3 DEF Resolved
  <2> HIDE DEF target
  <2>2. f \in Frame /\ f.target # None
    BY <1>1, <1>3 DEF Frame
  <2> HIDE DEF f
  <2>3. n \in Connected /\ n.pid = session[s].pid /\ n.closed = session[s].closed
    <3>1. session[s] \in Connected
      BY SessionType DEF BusType
    <3>2. QED BY <2>2, <3>1 DEF Connected
  <2> HIDE DEF n
  <2>4. QED BY <2>1, <2>3, KeptUpdate DEF BusType
<1>4. QED BY <1>2, <1>3

LEMMA relay_messageInv ==
  ASSUME Inv, NEW s \in Pids, relay_message(s), UNCHANGED <<load, sdk, beats, history>>
  PROVE  Inv'
<1>1. BusType /\ session \in [Pids -> Connected]
  BY DEF Inv, TypeOK, BusType
<1> DEFINE m == session[s].relay
<1> DEFINE to == pid_sessions_[m.target]
<1> DEFINE r == [session[s] EXCEPT !.relay = None]
<1> DEFINE idle == [session EXCEPT ![s] = r]
<1> DEFINE push == [m EXCEPT !.type = "IPM_PUSH", !.src = session[s].pid]
<1>2. session' = IF to = None THEN idle ELSE [idle EXCEPT ![to] = enqueue_json(@, push)]
  BY DEF relay_message
<1>3. m \in Frame /\ m.target \in Pids
  <2>1. m # None /\ m \in Frame \cup {None} /\ m.target # None
    BY <1>1, SessionType DEF relay_message
  <2>2. QED BY <2>1 DEF Frame
<1>4. to \in Pids \cup {None}
  BY <1>1, <1>3 DEF BusType
<1>5. push \in Frame
  <2>1. session[s].pid \in Pids \cup {None}
    BY <1>1, SessionType
  <2>2. QED BY <1>3, <2>1 DEF Frame
<1>6. r \in Connected /\ r.pid = session[s].pid /\ r.closed = session[s].closed
  <2>1. session[s] \in Connected
    BY <1>1, SessionType
  <2>2. QED BY <2>1 DEF Connected
<1> HIDE DEF m, to, r, push
<1>7. /\ idle \in [Pids -> Connected]
      /\ \A q \in Pids : idle[q].pid = session[q].pid /\ idle[q].closed = session[q].closed
  BY <1>1, <1>6
<1> HIDE DEF idle
<1>8. SessionsKept
  <2>1. CASE to = None
    BY <1>2, <1>7, <2>1 DEF SessionsKept
  <2>2. CASE to # None
    <3>1. to \in Pids /\ idle[to] \in Connected
      BY <1>4, <1>7, <2>2
    <3> DEFINE n == enqueue_json(idle[to], push)
    <3>2. n \in Connected /\ n.pid = idle[to].pid /\ n.closed = idle[to].closed
      BY <1>5, <3>1, EnqueueType
    <3>3. session' = [idle EXCEPT ![to] = n]
      BY <1>2, <2>2
    <3> HIDE DEF n
    <3>4. QED BY <1>7, <3>1, <3>2, <3>3 DEF SessionsKept
  <2>3. QED BY <2>1, <2>2
<1>9. wire' \in [Pids -> Streams] /\ UNCHANGED <<running_, registry>>
  BY <1>1 DEF relay_message, BusType
<1>10. QED BY <1>8, <1>9, QueueStep

LEMMA HeartbeatAnswerInv ==
  ASSUME Inv, NEW s \in Pids, NEW status \in {"ok", "error"}, HeartbeatAnswer(s, status),
         UNCHANGED <<load, sdk, beats, history>>
  PROVE  Inv'
<1>1. BusType
  BY DEF Inv, TypeOK
<1> DEFINE r == enqueue_json(session[s], Bare(status))
<1> DEFINE k == session[s].forwarded - 1
<1> DEFINE n == [r EXCEPT !.forwarded = k]
<1>2. r \in Connected /\ r.pid = session[s].pid /\ r.closed = session[s].closed
  BY <1>1, SessionType, BareType, EnqueueType DEF BusType
<1>3. k \in Nat
  BY <1>1, SessionType DEF BusType, HeartbeatAnswer
<1>4. session' = [session EXCEPT ![s] = n]
  BY DEF HeartbeatAnswer
<1> HIDE DEF r, k
<1>5. n \in Connected /\ n.pid = session[s].pid /\ n.closed = session[s].closed
  BY <1>2, <1>3 DEF Connected
<1> HIDE DEF n
<1>6. SessionsKept
  BY <1>1, <1>4, <1>5, KeptUpdate DEF BusType
<1>7. wire' \in [Pids -> Streams] /\ UNCHANGED <<running_, registry>>
  BY <1>1 DEF HeartbeatAnswer, BusType
<1>8. QED BY <1>6, <1>7, QueueStep

LEMMA ForwardKept ==
  ASSUME BusType, NEW s \in Pids, forward_heartbeat_to_supervisor(s)
  PROVE  SessionsKept
<1> DEFINE k == session[s].forwarded + 1
<1> DEFINE n == [session[s] EXCEPT !.forwarded = k]
<1>1. session[s] \in Connected /\ k \in Nat
  BY SessionType DEF BusType
<1>2. session' = [session EXCEPT ![s] = n]
  BY DEF forward_heartbeat_to_supervisor
<1> HIDE DEF k
<1>3. n \in Connected /\ n.pid = session[s].pid /\ n.closed = session[s].closed
  BY <1>1 DEF Connected
<1> HIDE DEF n
<1>4. QED BY <1>2, <1>3, KeptUpdate DEF BusType

LEMMA handle_messageInv ==
  ASSUME Inv, NEW s \in Pids, handle_message(s), UNCHANGED <<load, sdk, beats, history>>
  PROVE  Inv'
<1>1. BusType /\ UNCHANGED running_ /\ Open(s)
  BY DEF Inv, TypeOK, handle_message, Free
<1> DEFINE m == Head(wire[s].up)
<1> DEFINE rest == Tail(wire[s].up)
<1>2. wire[s].up \in Seq(Frame) /\ wire[s].up # <<>>
  BY <1>1, StreamType DEF BusType, handle_message
<1>3. m \in Frame /\ rest \in Seq(Frame)
  BY <1>2, HeadTailProperties
<1>4. wire' = [wire EXCEPT ![s].up = rest]
  BY DEF handle_message
<1>5. \/ close_on_strand(s)
      \/ register_session(s)
      \/ Resolved(s, m) /\ UNCHANGED registry
      \/ forward_heartbeat_to_supervisor(s) /\ UNCHANGED registry
  BY DEF handle_message
<1> HIDE DEF m, rest
<1>6. wire' \in [Pids -> Streams]
  BY <1>1, <1>3, <1>4, UpType DEF BusType
<1>7. CASE Resolved(s, m) /\ UNCHANGED registry
  BY <1>1, <1>3, <1>6, <1>7, ResolvedKept, QueueStep
<1>8. CASE forward_heartbeat_to_supervisor(s) /\ UNCHANGED registry
  BY <1>1, <1>6, <1>8, ForwardKept, QueueStep
<1>9. QED BY <1>1, <1>5, <1>6, <1>7, <1>8, CloseStep, RegisterStep

LEMMA RegisterAckInv ==
  ASSUME Inv, NEW s \in Pids, RegisterAck(s), UNCHANGED <<load, sdk, beats, history>>
  PROVE  Inv'
<1>1. BusType
  BY DEF Inv, TypeOK
<1> DEFINE r == enqueue_json(session[s], Bare("ok"))
<1> DEFINE n == [r EXCEPT !.ack = FALSE]
<1>2. r \in Connected /\ r.pid = session[s].pid /\ r.closed = session[s].closed
  BY <1>1, SessionType, BareType, EnqueueType DEF BusType
<1>3. session' = [session EXCEPT ![s] = n]
  BY DEF RegisterAck
<1> HIDE DEF r
<1>4. n \in Connected /\ n.pid = session[s].pid /\ n.closed = session[s].closed
  BY <1>2 DEF Connected
<1> HIDE DEF n
<1>5. SessionsKept
  BY <1>1, <1>3, <1>4, KeptUpdate DEF BusType
<1>6. wire' \in [Pids -> Streams] /\ UNCHANGED <<running_, registry>>
  BY <1>1 DEF RegisterAck, BusType
<1>7. QED BY <1>5, <1>6, QueueStep

LEMMA ReadErrorInv ==
  ASSUME Inv, NEW s \in Pids, ReadError(s), UNCHANGED <<load, sdk, beats, history>>
  PROVE  Inv'
<1>1. close_on_strand(s) /\ UNCHANGED running_ /\ wire' \in [Pids -> Streams]
  BY DEF ReadError, Inv, TypeOK, BusType
<1>2. QED BY <1>1, CloseStep

LEMMA WriteDoneInv ==
  ASSUME Inv, NEW s \in Pids, WriteDone(s), UNCHANGED <<load, sdk, beats, history>>
  PROVE  Inv'
<1>1. BusType /\ UNCHANGED running_
  BY DEF Inv, TypeOK, WriteDone
<1>2. CASE wire[s].shut
  <2>1. close_on_strand(s) /\ wire' \in [Pids -> Streams]
    BY <1>1, <1>2 DEF WriteDone, BusType
  <2>2. QED BY <1>1, <2>1, CloseStep
<1>3. CASE ~wire[s].shut
  <2> DEFINE m == Head(session[s].queue)
  <2> DEFINE rest == Tail(session[s].queue)
  <2> DEFINE down == Append(wire[s].down, m)
  <2> DEFINE w == write_next(rest)
  <2>0. session[s].queue # <<>>
    BY <1>1, SessionType DEF WriteDone, BusType
  <2>1. m \in Frame /\ rest \in Seq(Frame)
    BY <1>1, <2>0, SessionType, HeadTailProperties DEF BusType
  <2>2. wire' = [wire EXCEPT ![s].down = down] /\ UNCHANGED registry
        /\ session' = [session EXCEPT ![s].queue = rest, ![s].writing = w]
    BY <1>3 DEF WriteDone
  <2>3. w \in BOOLEAN /\ (w => rest # <<>>)
    BY DEF write_next
  <2> HIDE DEF m, rest, w
  <2>4. down \in Seq(Frame)
    BY <1>1, <2>1, StreamType, AppendProperties DEF BusType
  <2> HIDE DEF down
  <2>5. wire' \in [Pids -> Streams] /\ SessionsKept
    BY <1>1, <2>1, <2>2, <2>3, <2>4, DownType, QueueMove DEF BusType
  <2>6. QED BY <1>1, <2>2, <2>5, QueueStep
<1>4. QED BY <1>2, <1>3

LEMMA BusStopInv ==
  ASSUME Inv, BusStop
  PROVE  Inv'
<1>1. BusType /\ \A p \in Pids : BusInv(p)
  BY DEF Inv, TypeOK
<1>2. ASSUME NEW p \in Pids
      PROVE  session'[p] \in Connected /\ session'[p].pid = session[p].pid /\ session'[p].closed
  <2>1. session[p] \in Connected
    BY <1>1, SessionType DEF BusType
  <2>2. session'[p] = Ended(session[p])
    BY DEF BusStop, stop_bus
  <2>3. QED BY <2>1, <2>2, EndedType
<1>3. session' = [p \in Pids |-> session'[p]]
  BY DEF BusStop, stop_bus
<1>4. session' \in [Pids -> Connected]
  BY <1>2, <1>3
<1>5. BusType'
  BY <1>1, <1>4 DEF BusType, BusStop, stop_bus
<1>6. \A p \in Pids : BusInv(p)'
  BY <1>1, <1>2 DEF BusInv, Open, BusStop, stop_bus, sdk
<1>7. QED BY <1>5, <1>6, BusStepInv DEF BusStop

-----------------------------------------------------------------------------
(* The life of a process                                                   *)

LEMMA SpawnedType ==
  ASSUME NEW parent \in Pids \cup {None}, NEW trace \in Calls \cup {None}
  PROVE  /\ Spawned(parent, trace) \in Process
         /\ Spawned(parent, trace).main = "spawned" /\ Spawned(parent, trace).io = "none"
         /\ Spawned(parent, trace).force = FALSE
BY DEF Spawned, NotStarted, Process, MainPc, Unborn

LEMMA StartHandlerInv ==
  ASSUME Inv, NEW h \in Handlers, StartHandler(h)
  PROVE  Inv'
<1>1. h \in Pids /\ ProcType /\ EndInv(h) /\ proc[h].main = "none"
  BY BusAssumption DEF Inv, TypeOK, StartHandler
<1> DEFINE n == Spawned(None, None)
<1>2. n \in Process /\ n.main = "spawned" /\ n.io = "none" /\ n.force = FALSE
  BY SpawnedType
<1>3. Set(h, n)
  BY DEF StartHandler
<1> HIDE DEF n
<1>4. Becomes(h, n)
  BY <1>1, <1>2, <1>3, SetBecomes
<1>5. EndInv(h)'
  BY <1>1, <1>2, <1>4 DEF EndInv, Becomes, Unborn, StartHandler, history
<1>6. /\ UNCHANGED <<running_, registry, session, pending, response, call, ask, told, lost>>
      /\ wire' \in [Pids -> Streams] /\ RestType'
  BY RestKept DEF StartHandler, bus, registry, history, Inv, TypeOK, BusType
<1>7. QED BY <1>1, <1>2, <1>4, <1>5, <1>6, ProcessStep DEF Unborn

LEMMA startInv ==
  ASSUME Inv, NEW p \in Pids, start(p)
  PROVE  Inv'
<1>1. /\ BusType /\ ProcType /\ proc[p] \in Process /\ proc[p].main = "spawned"
      /\ BusInv(p) /\ EndInv(p) /\ None \notin Pids
  BY BusAssumption, ProcessType DEF Inv, TypeOK, start
<1>2. /\ UNCHANGED <<load, pending, response, call, ask, agent, asks, beats, history>>
      /\ RestType' /\ UNCHANGED <<told, lost>>
  BY RestKept DEF start, Inv, TypeOK, history
<1>3. CASE /\ accept_next(p, Bare("BUS_REGISTER"))
           /\ Set(p, [proc[p] EXCEPT !.main = "handshake", !.is_running = TRUE, !.sock = TRUE])
           /\ UNCHANGED <<running_, registry>>
  <2> DEFINE n == [proc[p] EXCEPT !.main = "handshake", !.is_running = TRUE, !.sock = TRUE]
  <2> DEFINE s == [session[p] EXCEPT !.closed = FALSE]
  <2>1. /\ n \in Process /\ n.main = "handshake" /\ n.io = proc[p].io
        /\ n.is_running = TRUE /\ n.force = proc[p].force
    BY <1>1 DEF Process, MainPc
  <2>2. s \in Connected /\ s.pid = session[p].pid
    <3>1. session[p] \in Connected
      BY <1>1, SessionType DEF BusType
    <3>2. QED BY <3>1 DEF Connected
  <2>3. Set(p, n) /\ session' = [session EXCEPT ![p] = s]
    BY <1>3 DEF accept_next
  <2> HIDE DEF n, s
  <2>4. Becomes(p, n) /\ SessionMove(p, session[p].pid, s.closed)
    BY <1>1, <2>1, <2>2, <2>3, SetBecomes, SessionUpdate DEF BusType
  <2>5. EndInv(p)'
    BY <1>1, <1>2, <2>1, <2>4 DEF EndInv, Becomes, Unborn
  <2>6. \A q \in Pids : EndInv(q)'
    BY <1>2, <2>4, <2>5, EndMoves
  <2>7. wire' \in [Pids -> Streams]
    <3>1. <<Bare("BUS_REGISTER")>> \in Seq(Frame)
      BY BareType
    <3>2. QED BY <1>1, <1>3, <3>1, UpType DEF accept_next, BusType
  <2>8. BusType'
    BY <1>1, <1>3, <2>4, <2>7 DEF BusType, registry, SessionMove
  <2>9. ASSUME NEW q \in Pids
        PROVE  BusInv(q)'
    <3>1. CASE q = p
      BY <1>1, <2>1, <2>4, <3>1 DEF BusInv, Becomes, SessionMove, Unborn
    <3>2. CASE q # p
      BY <1>3, <2>4, <3>2 DEF Inv, BusInv, Becomes, SessionMove, Open, registry
    <3>3. QED BY <3>1, <3>2
  <2>10. WaitType' /\ \A q \in Pids : AwaitInv(q)'
    BY <1>2, AwaitKept
  <2>11. QED BY <1>2, <2>4, <2>6, <2>8, <2>9, <2>10 DEF Inv, TypeOK, Becomes
<1>4. CASE /\ Set(p, [proc[p] EXCEPT !.main = "run", !.is_running = TRUE, !.io = "loop"])
           /\ UNCHANGED bus
  <2> DEFINE n == [proc[p] EXCEPT !.main = "run", !.is_running = TRUE, !.io = "loop"]
  <2>1. n \in Process /\ n.main = "run" /\ n.is_running = TRUE /\ n.force = proc[p].force
    BY <1>1 DEF Process, MainPc
  <2>2. Set(p, n)
    BY <1>4
  <2> HIDE DEF n
  <2>3. Becomes(p, n)
    BY <1>1, <2>1, <2>2, SetBecomes
  <2>4. EndInv(p)'
    BY <1>1, <1>2, <2>1, <2>3 DEF EndInv, Becomes, Unborn
  <2>5. UNCHANGED <<running_, registry, session>> /\ wire' \in [Pids -> Streams]
    BY <1>1, <1>4 DEF bus, registry, BusType
  <2>6. QED BY <1>1, <1>2, <2>3, <2>4, <2>5, ProcessStep DEF Unborn
<1>5. QED BY <1>3, <1>4 DEF start

\* A step of a process that stays as it was but for fields that no invariant
\* reads, or leaves its life.
LEMMA LateStep ==
  ASSUME Inv, NEW p \in Pids, NEW n \in Process, Set(p, n),
         \/ n.main \notin Unborn \cup {"handshake", "run"}
         \/ /\ n.main = proc[p].main /\ n.force = proc[p].force /\ n.signal = proc[p].signal
            /\ n.is_running = proc[p].is_running /\ n.io = proc[p].io
         \/ /\ n.main = proc[p].main /\ n.force = proc[p].force /\ n.signal = proc[p].signal
            /\ n.is_running = proc[p].is_running /\ proc[p].io # "none",
         UNCHANGED <<running_, registry, session, pending, response, call, ask, told, lost>>,
         wire' \in [Pids -> Streams], RestType'
  PROVE  Inv'
<1>1. ProcType /\ EndInv(p)
  BY DEF Inv, TypeOK
<1>2. Becomes(p, n)
  BY <1>1, SetBecomes
<1>3. EndInv(p)'
  BY <1>1, <1>2 DEF EndInv, Becomes, Unborn
<1>4. QED BY <1>2, <1>3, ProcessStep

LEMMA RegistrationFailedInv ==
  ASSUME Inv, NEW p \in Pids, RegistrationFailed(p)
  PROVE  Inv'
<1> DEFINE n == [proc[p] EXCEPT !.main = "end"]
<1>1. n \in Process /\ n.main = "end"
  <2>1. proc[p] \in Process
    BY ProcessType DEF Inv, TypeOK
  <2>2. QED BY <2>1 DEF Process, MainPc
<1>2. Set(p, n)
  BY DEF RegistrationFailed
<1> HIDE DEF n
<1>3. /\ UNCHANGED <<running_, registry, session, pending, response, call, ask, told, lost>>
      /\ wire' \in [Pids -> Streams] /\ RestType'
  BY RestKept DEF RegistrationFailed, bus, registry, history, Inv, TypeOK, BusType
<1>4. QED BY <1>1, <1>2, <1>3, LateStep DEF Unborn

LEMMA HandshakeInv ==
  ASSUME Inv, NEW p \in Pids, Handshake(p)
  PROVE  Inv'
<1>1. BusType /\ ProcType /\ proc[p] \in Process /\ proc[p].main = "handshake" /\ EndInv(p)
  BY ProcessType DEF Inv, TypeOK, Handshake, Main
<1>2. /\ UNCHANGED <<running_, registry, session, pending, response, call, ask, told, lost>>
      /\ RestType'
  BY RestKept DEF Handshake, history, Inv, TypeOK
<1>3. wire' \in [Pids -> Streams]
  <2>1. CASE UNCHANGED wire
    BY <1>1, <2>1 DEF BusType
  <2>2. CASE wire[p].down # <<>> /\ wire' = [wire EXCEPT ![p].down = Tail(@)]
    <3> DEFINE q == Tail(wire[p].down)
    <3>1. q \in Seq(Frame)
      BY <1>1, <2>2, StreamType, HeadTailProperties DEF BusType
    <3>2. wire' = [wire EXCEPT ![p].down = q]
      BY <2>2
    <3> HIDE DEF q
    <3>3. QED BY <1>1, <3>1, <3>2, DownType DEF BusType
  <2>3. QED BY <2>1, <2>2 DEF Handshake
<1>4. PICK b \in BOOLEAN :
        Set(p, [proc[p] EXCEPT !.main = "run", !.listener = b, !.io = "loop"])
  <2>1. CASE Set(p, [proc[p] EXCEPT !.main = "run", !.listener = proc[p].is_running, !.io = "loop"])
    BY <1>1, <2>1 DEF Process
  <2>2. CASE Set(p, [proc[p] EXCEPT !.main = "run", !.io = "loop"])
    <3>1. proc[p].listener \in BOOLEAN
      BY <1>1 DEF Process
    <3>2. [proc[p] EXCEPT !.main = "run", !.io = "loop"]
            = [proc[p] EXCEPT !.main = "run", !.listener = proc[p].listener, !.io = "loop"]
      BY <1>1 DEF Process
    <3>3. QED BY <2>2, <3>1, <3>2
  <2>3. QED BY <2>1, <2>2 DEF Handshake
<1> DEFINE n == [proc[p] EXCEPT !.main = "run", !.listener = b, !.io = "loop"]
<1>5. /\ n \in Process /\ n.main = "run" /\ n.is_running = proc[p].is_running
      /\ n.force = proc[p].force /\ n.signal = proc[p].signal
  BY <1>1 DEF Process, MainPc
<1>6. Set(p, n)
  BY <1>4
<1> HIDE DEF n
<1>7. Becomes(p, n)
  BY <1>1, <1>5, <1>6, SetBecomes
<1>8. EndInv(p)'
  BY <1>1, <1>2, <1>5, <1>7 DEF EndInv, Becomes, Unborn
<1>9. QED BY <1>2, <1>3, <1>5, <1>7, <1>8, ProcessStep DEF Unborn

LEMMA ResultGuardInv ==
  ASSUME Inv, NEW p \in Pids, ResultGuard(p)
  PROVE  Inv'
<1>1. BusType /\ ProcType /\ proc[p] \in Process
  BY ProcessType DEF Inv, TypeOK
<1> DEFINE b == proc[p].reported \/ (p \in Tools /\ ~proc[p].reported /\ proc[p].sock)
<1> DEFINE n == [proc[p] EXCEPT !.main = "over", !.reported = b]
<1>2. Set(p, n)
  BY DEF ResultGuard
<1>3. b \in BOOLEAN
  BY <1>1 DEF Process
<1> HIDE DEF b
<1>4. n \in Process /\ n.main = "over"
  BY <1>1, <1>3 DEF Process, MainPc
<1> HIDE DEF n
<1>5. wire' \in [Pids -> Streams]
  <2>1. Send(p, Result(p, "result")) \/ UNCHANGED wire
    BY DEF ResultGuard
  <2>2. Result(p, "result") \in Frame
    BY <1>1, ResultType
  <2>3. QED BY <1>1, <2>1, <2>2, SendType DEF BusType
<1>6. /\ UNCHANGED <<running_, registry, session, pending, response, call, ask, told, lost>>
      /\ RestType'
  BY RestKept DEF ResultGuard, history, Inv, TypeOK
<1>7. QED BY <1>2, <1>4, <1>5, <1>6, LateStep DEF Unborn

LEMMA ListenerExitInv ==
  ASSUME Inv, NEW p \in Pids, ListenerExit(p)
  PROVE  Inv'
<1>1. BusType /\ ProcType /\ RestType /\ proc[p] \in Process /\ EndInv(p)
  BY ProcessType DEF Inv, TypeOK
<1> DEFINE n == [proc[p] EXCEPT !.is_running = FALSE, !.listener = FALSE]
<1>2. /\ n \in Process /\ n.main = proc[p].main /\ n.force = proc[p].force /\ n.io = proc[p].io
      /\ n.signal = proc[p].signal /\ n.is_running = FALSE /\ proc[p].is_running \in BOOLEAN
  BY <1>1 DEF Process
<1>3. Set(p, n)
  BY DEF ListenerExit
<1> HIDE DEF n
<1>4. Becomes(p, n)
  BY <1>1, <1>2, <1>3, SetBecomes
<1>5. /\ UNCHANGED <<running_, registry, session, pending, response, call, ask, told>>
      /\ wire' \in [Pids -> Streams] /\ lost \subseteq lost' /\ RestType'
      /\ lost' = IF proc[p].is_running THEN lost \cup {p} ELSE lost
  BY <1>1 DEF ListenerExit, bus, registry, BusType, RestType
<1>6. EndInv(p)'
  BY <1>1, <1>2, <1>4, <1>5 DEF EndInv, Becomes
<1>7. QED BY <1>2, <1>4, <1>5, <1>6, ProcessStep

LEMMA FinalHeartbeatInv ==
  ASSUME Inv, NEW p \in Pids, FinalHeartbeat(p)
  PROVE  Inv'
<1>1. BusType /\ ProcType /\ RestType /\ proc[p] \in Process /\ EndInv(p)
      /\ proc[p].io = "loop" /\ (~proc[p].is_running \/ proc[p].force)
  BY ProcessType DEF Inv, TypeOK, FinalHeartbeat
<1> DEFINE n == [proc[p] EXCEPT !.io = "done"]
<1>2. /\ n \in Process /\ n.main = proc[p].main /\ n.force = proc[p].force
      /\ n.signal = proc[p].signal /\ n.is_running = proc[p].is_running
  BY <1>1 DEF Process
<1>3. Set(p, n)
  BY DEF FinalHeartbeat
<1> HIDE DEF n
<1>4. Becomes(p, n)
  BY <1>1, <1>2, <1>3, SetBecomes
<1> DEFINE word == IF proc[p].signal THEN "KILLED" ELSE "FINISHED"
<1>5. /\ UNCHANGED <<running_, registry, session, pending, response, call, ask, lost>>
      /\ wire' \in [Pids -> Streams] /\ told' = [told EXCEPT ![p] = word]
  BY <1>1 DEF FinalHeartbeat, bus, registry, BusType
<1>6. /\ RestType' /\ told'[p] = word /\ \A q \in Pids : q # p => told'[q] = told[q]
  BY <1>1, <1>5 DEF FinalHeartbeat, RestType
<1>7. EndInv(p)'
  <2>1. proc[p].main \notin Unborn \cup {"handshake"}
    BY <1>1 DEF EndInv
  <2>2. proc[p].main = "run" => proc[p].signal \/ p \in lost
    BY <1>1 DEF EndInv
  <2>3. QED BY <1>1, <1>2, <1>4, <1>5, <1>6, <2>1, <2>2 DEF EndInv, Becomes, Unborn
<1>8. QED BY <1>2, <1>4, <1>5, <1>6, <1>7, ProcessStep

LEMMA CloseSocketInv ==
  ASSUME Inv, NEW p \in Pids, CloseSocket(p)
  PROVE  Inv'
<1>1. BusType /\ ProcType /\ proc[p] \in Process
  BY ProcessType DEF Inv, TypeOK
<1> DEFINE n == [proc[p] EXCEPT !.halt = "joining", !.sock = FALSE]
<1>2. /\ n \in Process /\ n.main = proc[p].main /\ n.force = proc[p].force /\ n.io = proc[p].io
      /\ n.signal = proc[p].signal /\ n.is_running = proc[p].is_running
  BY <1>1 DEF Process
<1>3. Set(p, n)
  BY DEF CloseSocket
<1> HIDE DEF n
<1>4. wire' \in [Pids -> Streams]
  <2> DEFINE b == proc[p].sock \/ wire[p].shut
  <2> DEFINE w == [wire[p] EXCEPT !.shut = b]
  <2>1. wire[p] \in Streams /\ b \in BOOLEAN
    BY <1>1, StreamType DEF BusType, Process
  <2>2. wire' = [wire EXCEPT ![p] = w]
    BY DEF CloseSocket
  <2> HIDE DEF b
  <2>3. w \in Streams
    BY <2>1 DEF Streams
  <2> HIDE DEF w
  <2>4. QED BY <1>1, <2>2, <2>3, WireUpdate DEF BusType
<1>5. /\ UNCHANGED <<running_, registry, session, pending, response, call, ask, told, lost>>
      /\ RestType'
  BY RestKept DEF CloseSocket, history, Inv, TypeOK
<1>6. QED BY <1>2, <1>3, <1>4, <1>5, LateStep

LEMMA JoinedInv ==
  ASSUME Inv, NEW p \in Pids, Joined(p)
  PROVE  Inv'
<1>1. BusType /\ ProcType /\ proc[p] \in Process
  BY ProcessType DEF Inv, TypeOK
<1> DEFINE n == [proc[p] EXCEPT !.halt = "done", !.held = None]
<1>2. /\ n \in Process /\ n.main = proc[p].main /\ n.force = proc[p].force /\ n.io = proc[p].io
      /\ n.signal = proc[p].signal /\ n.is_running = proc[p].is_running
  BY <1>1 DEF Process
<1>3. Set(p, n)
  BY DEF Joined
<1> HIDE DEF n
<1>4. /\ UNCHANGED <<running_, registry, session, pending, response, call, ask, told, lost>>
      /\ wire' \in [Pids -> Streams] /\ RestType'
  BY <1>1, RestKept DEF Joined, bus, registry, history, Inv, TypeOK, BusType
<1>5. QED BY <1>2, <1>3, <1>4, LateStep

LEMMA StoppingType ==
  ASSUME NEW r \in Process
  PROVE  /\ Stopping(r) \in Process /\ Stopping(r).main = r.main /\ Stopping(r).io = r.io
         /\ request_forced_shutdown(r) \in Process /\ request_forced_shutdown(r).main = r.main
         /\ request_forced_shutdown(r).io = r.io /\ request_forced_shutdown(r).signal = TRUE
<1>1. /\ Stopping(r) \in Process /\ Stopping(r).main = r.main /\ Stopping(r).io = r.io
  BY DEF Stopping, Process
<1>2. QED BY <1>1 DEF request_forced_shutdown, Process

LEMMA SignalInv ==
  ASSUME Inv, NEW p \in Pids, Signal(p)
  PROVE  Inv'
<1>1. /\ BusType /\ ProcType /\ proc[p] \in Process /\ EndInv(p)
      /\ proc[p].main \in {"handshake", "run", "over"}
  BY ProcessType DEF Inv, TypeOK, Signal
<1>0. PICK mutex \in {None, "bus_mutex", "queue_mutex"} :
        Set(p, [request_forced_shutdown(proc[p]) EXCEPT !.held = mutex])
  BY DEF Signal
<1> DEFINE r == request_forced_shutdown(proc[p])
<1> DEFINE n == [r EXCEPT !.held = mutex]
<1>3. Set(p, n)
  BY <1>0
<1>9. r \in Process /\ r.main = proc[p].main /\ r.io = proc[p].io /\ r.signal = TRUE
  BY <1>1, StoppingType
<1> HIDE DEF r
<1>2. n \in Process /\ n.main = proc[p].main /\ n.io = proc[p].io /\ n.signal = TRUE
  BY <1>9 DEF Process
<1> HIDE DEF n
<1>4. Becomes(p, n)
  BY <1>1, <1>2, <1>3, SetBecomes
<1>5. /\ UNCHANGED <<running_, registry, session, pending, response, call, ask, told, lost>>
      /\ wire' \in [Pids -> Streams] /\ RestType'
  BY <1>1, RestKept DEF Signal, bus, registry, history, Inv, TypeOK, BusType
<1>6. EndInv(p)'
  BY <1>1, <1>2, <1>4, <1>5 DEF EndInv, Becomes, Unborn
<1>7. QED BY <1>2, <1>4, <1>5, <1>6, ProcessStep

LEMMA ListenerBlocksInv ==
  ASSUME Inv, NEW p \in Pids, ListenerBlocks(p)
  PROVE  Inv'
<1>1. proc[p] \in Process
  BY ProcessType DEF Inv, TypeOK
<1> DEFINE n == [proc[p] EXCEPT !.stuck = TRUE]
<1>2. /\ n \in Process /\ n.main = proc[p].main /\ n.force = proc[p].force /\ n.io = proc[p].io
      /\ n.signal = proc[p].signal /\ n.is_running = proc[p].is_running
  BY <1>1 DEF Process
<1>3. Set(p, n)
  BY DEF ListenerBlocks
<1> HIDE DEF n
<1>4. /\ UNCHANGED <<running_, registry, session, pending, response, call, ask, told, lost>>
      /\ wire' \in [Pids -> Streams] /\ RestType'
  BY RestKept DEF ListenerBlocks, bus, registry, history, Inv, TypeOK, BusType
<1>5. QED BY <1>2, <1>3, <1>4, LateStep

-----------------------------------------------------------------------------
(* Who waits for what                                                      *)

\* Fewer traces pend or have a response, of the same calls and questions.
LEMMA AwaitFewer ==
  ASSUME Inv, UNCHANGED <<call, ask>>, pending' \in [Pids -> SUBSET Traces],
         response' \in [Pids -> SUBSET Traces],
         \A p \in Pids : pending'[p] \subseteq pending[p] /\ response'[p] \subseteq response[p]
  PROVE  WaitType' /\ \A p \in Pids : AwaitInv(p)'
<1>1. WaitType'
  BY DEF Inv, TypeOK, WaitType
<1>2. \A p \in Pids : AwaitInv(p)'
  BY DEF Inv, AwaitInv, For
<1>3. QED BY <1>1, <1>2

LEMMA report_resultInv ==
  ASSUME Inv, NEW p \in Tools, report_result(p)
  PROVE  Inv'
<1>1. p \in Pids /\ BusType /\ ProcType /\ WaitType /\ proc[p] \in Process /\ EndInv(p)
  BY ProcessType DEF Inv, TypeOK, Tools
<1>2. UNCHANGED <<running_, registry, session, call, ask, told, lost>> /\ RestType'
  BY RestKept DEF report_result, history, Inv, TypeOK
<1>3. CASE /\ \E kind \in {"result"} \cup (IF Happens("huge") THEN {"huge"} ELSE {}) : Send(p, Result(p, kind))
           /\ Set(p, [proc[p] EXCEPT !.reported = TRUE])
           /\ UNCHANGED <<pending, response>>
  <2> DEFINE n == [proc[p] EXCEPT !.reported = TRUE]
  <2>1. /\ n \in Process /\ n.main = proc[p].main /\ n.force = proc[p].force /\ n.io = proc[p].io
        /\ n.signal = proc[p].signal /\ n.is_running = proc[p].is_running
    BY <1>1 DEF Process
  <2>2. Set(p, n)
    BY <1>3
  <2> HIDE DEF n
  <2>3. wire' \in [Pids -> Streams]
    <3>1. PICK kind \in {"result", "huge"} : Send(p, Result(p, kind))
      BY <1>3
    <3>2. Result(p, kind) \in Frame
      BY <1>1, ResultType
    <3>3. QED BY <1>1, <3>1, <3>2, SendType DEF BusType
  <2>4. QED BY <1>1, <1>2, <1>3, <2>1, <2>2, <2>3, LateStep
<1>4. CASE /\ Send(p, Result(p, "async"))
           /\ pending' = [pending EXCEPT ![p] = @ \ {proc[p].trace}]
           /\ response' = [response EXCEPT ![p] = @ \ {proc[p].trace}]
           /\ Set(p, [proc[p] EXCEPT !.async = TRUE])
  <2> DEFINE n == [proc[p] EXCEPT !.async = TRUE]
  <2>1. /\ n \in Process /\ n.main = proc[p].main /\ n.force = proc[p].force /\ n.io = proc[p].io
        /\ n.signal = proc[p].signal /\ n.is_running = proc[p].is_running
    BY <1>1 DEF Process
  <2>2. Set(p, n)
    BY <1>4
  <2> HIDE DEF n
  <2>3. wire' \in [Pids -> Streams]
    <3>1. Result(p, "async") \in Frame
      BY <1>1, ResultType
    <3>2. QED BY <1>1, <1>4, <3>1, SendType DEF BusType
  <2>4. WaitType' /\ \A q \in Pids : AwaitInv(q)'
    <3>1. /\ pending' \in [Pids -> SUBSET Traces] /\ response' \in [Pids -> SUBSET Traces]
          /\ \A q \in Pids : pending'[q] \subseteq pending[q] /\ response'[q] \subseteq response[q]
      BY <1>1, <1>4 DEF WaitType
    <3>2. QED BY <1>2, <3>1, AwaitFewer
  <2>5. Becomes(p, n)
    BY <1>1, <2>1, <2>2, SetBecomes
  <2>6. EndInv(p)'
    BY <1>1, <1>2, <2>1, <2>5 DEF EndInv, Becomes
  <2>7. Forward
    BY <2>1, <2>5 DEF Forward, Becomes
  <2>8. (\A q \in Pids : BusInv(q)') /\ BusType'
    BY <1>1, <1>2, <2>3, <2>7, BusKept, SameSessions DEF BusType, registry
  <2>9. \A q \in Pids : EndInv(q)'
    BY <1>1, <1>2, <2>5, <2>6, EndMoves
  <2>10. QED BY <1>2, <2>4, <2>5, <2>8, <2>9 DEF Inv, TypeOK, Becomes
<1>5. QED BY <1>3, <1>4 DEF report_result

LEMMA ask_userInv ==
  ASSUME Inv, NEW p \in Tools, ask_user(p)
  PROVE  Inv'
<1>1. p \in Pids /\ p \in Traces /\ BusType /\ WaitType /\ RestType
  BY DEF Inv, TypeOK, Tools, Traces
<1>2. UNCHANGED <<running_, registry, session, proc, told, lost, response, call>> /\ RestType'
  BY <1>1, RestKept DEF ask_user, history
<1>3. /\ pending' = [pending EXCEPT ![p] = @ \cup {p}] /\ ask' = [ask EXCEPT ![p] = "waiting"]
      /\ Send(p, Message("IPM_RELAY", None, None, "ask", p, None))
  BY DEF ask_user
<1>4. WaitType'
  BY <1>1, <1>2, <1>3 DEF WaitType
<1>5. ASSUME NEW q \in Pids
      PROVE  AwaitInv(q)'
  <2>1. AwaitInv(q)
    BY DEF Inv
  <2>2. \A t \in pending'[q] : t \in pending[q] \/ (q = p /\ t = p)
    BY <1>1, <1>3 DEF WaitType
  <2>3. q \in Tools /\ ask[q] = "waiting" => ask'[q] = "waiting"
    BY <1>1, <1>3 DEF WaitType
  <2>4. ask'[p] = "waiting"
    BY <1>1, <1>3 DEF WaitType
  <2>5. QED BY <1>2, <2>1, <2>2, <2>3, <2>4 DEF AwaitInv, For
<1>6. wire' \in [Pids -> Streams]
  <2>1. Message("IPM_RELAY", None, None, "ask", p, None) \in Frame
    BY DEF Message, Frame
  <2>2. QED BY <1>1, <1>3, <2>1, SendType DEF BusType
<1>7. QED BY <1>2, <1>4, <1>5, <1>6, QuietStep

LEMMA AskEndsInv ==
  ASSUME Inv, NEW p \in Tools, AskEnds(p)
  PROVE  Inv'
<1>1. p \in Pids /\ BusType /\ WaitType /\ RestType
  BY DEF Inv, TypeOK, Tools
<1>2. UNCHANGED <<running_, registry, session, wire, proc, told, lost, call>> /\ RestType'
  BY <1>1, RestKept DEF AskEnds, bus, registry, history
<1>3. PICK word \in {"answered", "timeout"} : ask' = [ask EXCEPT ![p] = word]
  BY DEF AskEnds
<1>4. /\ pending' = [pending EXCEPT ![p] = @ \ {p}]
      /\ response' = [response EXCEPT ![p] = @ \ {p}]
  BY DEF AskEnds
<1>5. WaitType'
  BY <1>1, <1>2, <1>3, <1>4 DEF WaitType
<1>6. ASSUME NEW q \in Pids
      PROVE  AwaitInv(q)'
  <2>1. AwaitInv(q)
    BY DEF Inv
  <2>2. CASE q = p
    <3>1. pending'[q] = pending[q] \ {q} /\ response'[q] = response[q] \ {q}
      BY <1>1, <1>4, <2>2 DEF WaitType
    <3>2. QED BY <1>2, <2>1, <3>1 DEF AwaitInv, For
  <2>3. CASE q # p
    <3>1. pending'[q] = pending[q] /\ response'[q] = response[q]
      BY <1>1, <1>4, <2>3 DEF WaitType
    <3>2. q \in Tools => ask'[q] = ask[q]
      BY <1>1, <1>3, <2>3 DEF WaitType
    <3>3. QED BY <1>2, <2>1, <3>1, <3>2 DEF AwaitInv, For
  <2>4. QED BY <2>2, <2>3
<1>7. wire' \in [Pids -> Streams]
  BY <1>1, <1>2 DEF BusType
<1>8. QED BY <1>2, <1>5, <1>6, <1>7, QuietStep

LEMMA handle_ask_user_replyInv ==
  ASSUME Inv, NEW h \in Handlers, NEW t \in Tools, handle_ask_user_reply(h, t)
  PROVE  Inv'
<1>1. h \in Pids /\ BusType /\ RestType /\ t \in Pids
  BY BusAssumption DEF Inv, TypeOK, Tools
<1>2. UNCHANGED <<running_, registry, session, proc, told, lost, pending, response, call, ask>>
  BY DEF handle_ask_user_reply, history
<1>3. RestType'
  BY <1>1 DEF handle_ask_user_reply, RestType, history
<1>4. wire' \in [Pids -> Streams]
  <2>1. Message("IPM_RELAY", t, None, "reply", t, None) \in Frame
    BY <1>1 DEF Message, Frame
  <2>2. QED BY <1>1, <2>1, SendType DEF handle_ask_user_reply, BusType
<1>5. WaitType' /\ \A q \in Pids : AwaitInv(q)'
  BY <1>2, AwaitKept
<1>6. QED BY <1>2, <1>3, <1>4, <1>5, QuietStep

\* A frame is stored for the thread that its trace pends for.
LEMMA bus_listener_loopInv ==
  ASSUME Inv, NEW p \in Pids, bus_listener_loop(p)
  PROVE  Inv'
<1>1. BusType /\ ProcType /\ WaitType /\ RestType /\ proc[p] \in Process /\ EndInv(p)
  BY ProcessType DEF Inv, TypeOK
<1> DEFINE m == Head(wire[p].down)
<1> DEFINE rest == Tail(wire[p].down)
<1> DEFINE routed == m.trace # None /\ m.trace \in pending[p]
<1>2. wire[p].down \in Seq(Frame) /\ wire[p].down # <<>>
  BY <1>1, StreamType DEF BusType, bus_listener_loop
<1>3. m \in Frame /\ rest \in Seq(Frame)
  BY <1>2, HeadTailProperties
<1>4. /\ wire' = [wire EXCEPT ![p].down = rest]
      /\ UNCHANGED <<running_, registry, session, load, pending, call, ask, agent, beats, told, crashed>>
      /\ \/ /\ response' = IF routed THEN [response EXCEPT ![p] = @ \cup {m.trace}] ELSE response
            /\ IF routed THEN UNCHANGED asks ELSE on_bus_event(p, m)
            /\ replied' = IF m.kind = "reply" /\ m.of \in pending[p]
                            THEN replied \cup {m.of} ELSE replied
            /\ UNCHANGED <<proc, lost>>
         \/ /\ Set(p, [proc[p] EXCEPT !.is_running = FALSE, !.listener = FALSE])
            /\ lost' = lost \cup {p} /\ UNCHANGED <<response, asks, replied>>
         \/ UNCHANGED <<proc, lost, response, asks, replied>>
  BY DEF bus_listener_loop
<1> HIDE DEF m, rest
<1>5. wire' \in [Pids -> Streams]
  BY <1>1, <1>3, <1>4, DownType DEF BusType
<1>6. CASE /\ response' = IF routed THEN [response EXCEPT ![p] = @ \cup {m.trace}] ELSE response
           /\ IF routed THEN UNCHANGED asks ELSE on_bus_event(p, m)
           /\ replied' = IF m.kind = "reply" /\ m.of \in pending[p]
                           THEN replied \cup {m.of} ELSE replied
           /\ UNCHANGED <<proc, lost>>
  <2>1. RestType'
    <3>1. m.of \in Tools \cup {None} /\ pending[p] \subseteq Traces
      BY <1>1, <1>3 DEF Frame, WaitType
    <3>2. asks' \in [Handlers -> SUBSET (Tools \cup {None})]
      BY <1>1, <1>6, <3>1 DEF on_bus_event, RestType
    <3>3. replied' \subseteq Traces
      BY <1>1, <1>6, <3>1 DEF RestType
    <3>4. QED BY <1>1, <1>4, <1>6, <3>2, <3>3 DEF RestType
  <2>2. WaitType'
    BY <1>1, <1>4, <1>6 DEF WaitType
  <2>3. ASSUME NEW q \in Pids
        PROVE  AwaitInv(q)'
    <3>1. AwaitInv(q)
      BY DEF Inv
    <3>2. \A t \in response'[q] : t \in response[q] \/ t \in pending[q]
      BY <1>1, <1>6 DEF WaitType
    <3>3. QED BY <1>4, <3>1, <3>2 DEF AwaitInv, For
  <2>4. QED BY <1>4, <1>5, <1>6, <2>1, <2>2, <2>3, QuietStep
<1>7. CASE /\ Set(p, [proc[p] EXCEPT !.is_running = FALSE, !.listener = FALSE])
           /\ lost' = lost \cup {p} /\ UNCHANGED <<response, asks, replied>>
  <2> DEFINE n == [proc[p] EXCEPT !.is_running = FALSE, !.listener = FALSE]
  <2>1. /\ n \in Process /\ n.main = proc[p].main /\ n.force = proc[p].force /\ n.io = proc[p].io
        /\ n.signal = proc[p].signal
    BY <1>1 DEF Process
  <2>2. Set(p, n)
    BY <1>7
  <2> HIDE DEF n
  <2>3. Becomes(p, n)
    BY <1>1, <2>1, <2>2, SetBecomes
  <2>4. EndInv(p)' /\ RestType'
    BY <1>1, <1>4, <1>7, <2>1, <2>3 DEF EndInv, Becomes, RestType
  <2>5. QED BY <1>4, <1>5, <1>7, <2>1, <2>3, <2>4, ProcessStep
<1>8. CASE UNCHANGED <<proc, lost, response, asks, replied>>
  <2>1. RestType'
    BY <1>1, <1>4, <1>8 DEF RestType
  <2>2. QED BY <1>4, <1>5, <1>8, <2>1, AwaitKept, QuietStep
<1>9. QED BY <1>4, <1>6, <1>7, <1>8

-----------------------------------------------------------------------------
(* Tool calls                                                              *)

LEMMA SpawnMoves ==
  ASSUME Inv, NEW c \in Calls, Spawn(c), UNCHANGED <<told, lost>>
  PROVE  ProcType' /\ Forward /\ \A q \in Pids : EndInv(q)'
<1> DEFINE n == Spawned(call[c].owner, c)
<1>1. PICK p \in Fresh : Set(p, n)
  BY DEF Spawn
<1>2. Fresh \subseteq Pids
  BY VelixProcessAssumption DEF Fresh, Inv, TypeOK, RestType, Tools
<1>3. n \in Process /\ n.main = "spawned" /\ n.io = "none" /\ n.force = FALSE
  <2>1. call[c].owner \in Pids \cup {None}
    BY DEF Inv, TypeOK, WaitType, CallState
  <2>2. QED BY <2>1, SpawnedType
<1>4. proc[p].main = "none"
  BY <1>1 DEF Fresh
<1> HIDE DEF n
<1>5. Becomes(p, n) /\ p \in Pids /\ EndInv(p)
  BY <1>1, <1>2, <1>3, SetBecomes DEF Inv, TypeOK
<1>0. told' = told /\ lost' = lost
  OBVIOUS
<1>6. EndInv(p)'
  <2>1. proc'[p] = n /\ told[p] # "FINISHED"
    BY <1>4, <1>5 DEF EndInv, Becomes, Unborn
  <2>2. QED BY <1>0, <1>3, <2>1 DEF EndInv
<1>7. \A q \in Pids : EndInv(q)'
  BY <1>0, <1>5, <1>6, EndMoves
<1>8. Forward
  BY <1>3, <1>4, <1>5 DEF Forward, Becomes, Unborn
<1>9. QED BY <1>5, <1>7, <1>8 DEF Becomes

LEMMA CallStep ==
  ASSUME Inv, NEW c \in Calls, UNCHANGED proc \/ Spawn(c),
         UNCHANGED <<bus, load, agent, asks, beats, history>>,
         WaitType' /\ \A q \in Pids : AwaitInv(q)'
  PROVE  Inv'
<1>1. RestType' /\ BusType' /\ UNCHANGED <<running_, registry, session, told, lost>>
  BY RestKept DEF Inv, TypeOK, bus, registry, BusType, history
<1>2. ProcType' /\ Forward /\ \A q \in Pids : EndInv(q)'
  <2>1. CASE UNCHANGED proc
    BY <1>1, <2>1, EndSame DEF Inv, TypeOK, ProcType, Forward
  <2>2. CASE Spawn(c)
    BY <1>1, <2>2, SpawnMoves
  <2>3. QED BY <2>1, <2>2
<1>3. \A q \in Pids : BusInv(q)'
  BY <1>1, <1>2, BusKept, SameSessions
<1>4. QED BY <1>1, <1>2, <1>3 DEF Inv, TypeOK

CallMove(c, phase) ==
  /\ call' \in [Calls -> CallState] /\ \A d \in Calls : d # c => call'[d] = call[d]
  /\ call'[c].owner = call[c].owner /\ call'[c].phase = phase

LEMMA CallUpdate ==
  ASSUME WaitType, NEW c \in Calls, NEW n \in CallState, n.owner = call[c].owner,
         call' = [call EXCEPT ![c] = n]
  PROVE  CallMove(c, n.phase)
BY DEF WaitType, CallMove

LEMMA PhaseMove ==
  ASSUME WaitType, NEW c \in Calls, NEW phase \in {"wait", "done", "timeout", "failed"},
         call' = [call EXCEPT ![c].phase = phase]
  PROVE  CallMove(c, phase)
<1> DEFINE n == [call[c] EXCEPT !.phase = phase]
<1>1. call[c] \in CallState
  BY DEF WaitType
<1>2. n \in CallState /\ n.owner = call[c].owner /\ n.phase = phase
  BY <1>1 DEF CallState, Waiting
<1>3. call' = [call EXCEPT ![c] = n]
  OBVIOUS
<1> HIDE DEF n
<1>4. QED BY <1>2, <1>3, CallUpdate

\* The call goes on: whoever waited for it still does.
LEMMA AwaitGoesOn ==
  ASSUME Inv, NEW c \in Calls, NEW phase \in Waiting, CallMove(c, phase),
         UNCHANGED <<pending, response, ask>>
  PROVE  WaitType' /\ \A q \in Pids : AwaitInv(q)'
<1>1. WaitType'
  BY DEF Inv, TypeOK, WaitType, CallMove
<1>2. ASSUME NEW q \in Pids
      PROVE  AwaitInv(q)'
  <2>1. AwaitInv(q)
    BY DEF Inv
  <2>2. QED BY <2>1 DEF AwaitInv, For, CallMove
<1>3. QED BY <1>1, <1>2

\* The call is over: its trace pends no more, and a response is left by a
\* failed launch at most.
LEMMA AwaitEnds ==
  ASSUME Inv, NEW c \in Calls, NEW phase \in {"done", "timeout", "failed"}, End(c, phase),
         UNCHANGED ask, response' \in [Pids -> SUBSET Traces],
         \A q \in Pids : response'[q] \subseteq response[q],
         call[c].owner \in Pids => phase = "failed" \/ c \notin response'[call[c].owner]
  PROVE  WaitType' /\ \A q \in Pids : AwaitInv(q)'
<1>1. WaitType
  BY DEF Inv, TypeOK
<1>2. CallMove(c, phase)
  BY <1>1, PhaseMove DEF End
<1>3. pending' \in [Pids -> SUBSET Traces]
      /\ \A q \in Pids : pending'[q] = IF q = call[c].owner THEN pending[q] \ {c} ELSE pending[q]
  BY <1>1 DEF End, WaitType
<1>4. WaitType'
  BY <1>1, <1>2, <1>3 DEF WaitType, CallMove
<1>5. ASSUME NEW q \in Pids
      PROVE  AwaitInv(q)'
  <2>1. AwaitInv(q)
    BY DEF Inv
  <2>2. ASSUME NEW t \in pending'[q]
        PROVE  For(q, t, Waiting)'
    <3>1. t \in pending[q] /\ (t = c => q # call[c].owner)
      BY <1>3, <2>2
    <3>2. For(q, t, Waiting)
      BY <2>1, <3>1 DEF AwaitInv
    <3>3. QED BY <1>2, <3>1, <3>2 DEF For, CallMove
  <2>3. ASSUME NEW t \in response'[q]
        PROVE  For(q, t, Waiting \cup {"failed"})'
    <3>1. t \in response[q]
      BY <2>3
    <3>2. For(q, t, Waiting \cup {"failed"})
      BY <2>1, <3>1 DEF AwaitInv
    <3>3. t = c /\ call[c].owner = q => phase = "failed"
      BY <2>3
    <3>4. QED BY <1>2, <3>2, <3>3 DEF For, CallMove
  <2>4. QED BY <2>2, <2>3 DEF AwaitInv
<1>6. QED BY <1>4, <1>5

LEMMA LaunchOkInv ==
  ASSUME Inv, NEW c \in Calls, LaunchOk(c)
  PROVE  Inv'
<1>1. CallMove(c, "wait")
  BY PhaseMove DEF LaunchOk, Inv, TypeOK
<1>2. WaitType' /\ \A q \in Pids : AwaitInv(q)'
  BY <1>1, AwaitGoesOn DEF LaunchOk, Waiting
<1>3. QED BY <1>2, CallStep DEF LaunchOk

LEMMA FailedAwait ==
  ASSUME Inv, NEW c \in Calls, Failed(c), UNCHANGED <<ask, response>>
  PROVE  WaitType' /\ \A q \in Pids : AwaitInv(q)'
<1>1. response' \in [Pids -> SUBSET Traces] /\ \A q \in Pids : response'[q] \subseteq response[q]
  BY DEF Inv, TypeOK, WaitType
<1>2. QED BY <1>1, AwaitEnds DEF Failed

LEMMA RetryInv ==
  ASSUME Inv, NEW c \in Calls, Retry(c)
  PROVE  Inv'
<1>1. /\ UNCHANGED <<bus, load, response, ask, agent, asks, beats, history>>
      /\ UNCHANGED proc \/ Spawn(c)
      /\ call[c].phase = "launch"
  BY DEF Retry, Calling
<1>2. CASE call' = [call EXCEPT ![c].attempt = @ + 1] /\ UNCHANGED pending
  <2> DEFINE m == call[c].attempt + 1
  <2> DEFINE n == [call[c] EXCEPT !.attempt = m]
  <2>1. call[c] \in CallState /\ WaitType
    BY DEF Inv, TypeOK, WaitType
  <2>2. m \in Nat
    BY <2>1 DEF CallState
  <2>3. call' = [call EXCEPT ![c] = n]
    BY <1>2
  <2> HIDE DEF m
  <2>4. n \in CallState /\ n.owner = call[c].owner /\ n.phase = "launch"
    BY <1>1, <2>1, <2>2 DEF CallState
  <2> HIDE DEF n
  <2>5. CallMove(c, "launch")
    BY <2>1, <2>3, <2>4, CallUpdate
  <2>6. WaitType' /\ \A q \in Pids : AwaitInv(q)'
    BY <1>1, <1>2, <2>5, AwaitGoesOn DEF Waiting
  <2>7. QED BY <1>1, <2>6, CallStep
<1>3. CASE Failed(c)
  <2>1. WaitType' /\ \A q \in Pids : AwaitInv(q)'
    BY <1>1, <1>3, FailedAwait
  <2>2. QED BY <1>1, <2>1, CallStep
<1>4. QED BY <1>2, <1>3 DEF Retry

LEMMA RefusedInv ==
  ASSUME Inv, NEW c \in Calls, Refused(c)
  PROVE  Inv'
<1>1. WaitType' /\ \A q \in Pids : AwaitInv(q)'
  BY FailedAwait DEF Refused
<1>2. QED BY <1>1, CallStep DEF Refused

LEMMA TakeResultInv ==
  ASSUME Inv, NEW c \in Calls, TakeResult(c)
  PROVE  Inv'
<1>1. WaitType /\ response' = [response EXCEPT ![call[c].owner] = @ \ {c}] /\ End(c, "done")
      /\ UNCHANGED ask
  BY DEF Inv, TypeOK, TakeResult
<1>2. /\ response' \in [Pids -> SUBSET Traces]
      /\ \A q \in Pids : response'[q] \subseteq response[q]
      /\ call[c].owner \in Pids => c \notin response'[call[c].owner]
  BY <1>1 DEF WaitType
<1>3. WaitType' /\ \A q \in Pids : AwaitInv(q)'
  BY <1>1, <1>2, AwaitEnds
<1>4. QED BY <1>3, CallStep DEF TakeResult

LEMMA WaitTimeoutInv ==
  ASSUME Inv, NEW c \in Calls, WaitTimeout(c)
  PROVE  Inv'
<1>1. /\ c \notin response[call[c].owner] /\ End(c, "timeout") /\ UNCHANGED <<ask, response>>
      /\ response' \in [Pids -> SUBSET Traces] /\ \A q \in Pids : response'[q] \subseteq response[q]
  BY DEF Inv, TypeOK, WaitType, WaitTimeout, TimedOut
<1>2. WaitType' /\ \A q \in Pids : AwaitInv(q)'
  BY <1>1, AwaitEnds
<1>3. QED BY <1>2, CallStep DEF WaitTimeout

-----------------------------------------------------------------------------
(* The agent loop                                                          *)

LEMMA AgentType ==
  ASSUME RestType, NEW h \in Handlers, NEW n \in [pc : {"idle", "llm", "tools"}, round : Nat],
         agent' = [agent EXCEPT ![h] = n], UNCHANGED <<load, asks, beats, history>>
  PROVE  RestType'
BY DEF RestType, history

LEMMA call_llmInv ==
  ASSUME Inv, NEW h \in Handlers, call_llm(h)
  PROVE  Inv'
<1>1. RestType'
  BY AgentType DEF call_llm, Inv, TypeOK
<1>2. /\ UNCHANGED <<running_, registry, session, proc, told, lost, pending, response, call, ask>>
      /\ wire' \in [Pids -> Streams]
  BY DEF call_llm, bus, registry, history, Inv, TypeOK, BusType
<1>3. QED BY <1>1, <1>2, AwaitKept, QuietStep

LEMMA ToolsDoneInv ==
  ASSUME Inv, NEW h \in Handlers, ToolsDone(h)
  PROVE  Inv'
<1> DEFINE m == agent[h].round + 1
<1> DEFINE pc == IF proc[h].is_running /\ agent[h].round + 1 < MaxRounds THEN "llm" ELSE "idle"
<1> DEFINE n == [pc |-> pc, round |-> m]
<1>1. m \in Nat /\ agent' = [agent EXCEPT ![h] = n] /\ pc \in {"idle", "llm", "tools"}
  BY DEF ToolsDone, Inv, TypeOK, RestType
<1> HIDE DEF m, pc
<1>2. n \in [pc : {"idle", "llm", "tools"}, round : Nat]
  BY <1>1
<1> HIDE DEF n
<1>3. RestType'
  BY <1>1, <1>2, AgentType DEF ToolsDone, Inv, TypeOK
<1>4. /\ UNCHANGED <<running_, registry, session, proc, told, lost, pending, response, call, ask>>
      /\ wire' \in [Pids -> Streams]
  BY DEF ToolsDone, bus, registry, history, Inv, TypeOK, BusType
<1>5. QED BY <1>3, <1>4, AwaitKept, QuietStep

LEMMA dispatch_llm_requestInv ==
  ASSUME Inv, NEW h \in Handlers, dispatch_llm_request(h)
  PROVE  Inv'
<1>1. h \in Pids /\ WaitType /\ RestType
  BY BusAssumption DEF Inv, TypeOK
<1>2. /\ UNCHANGED <<running_, registry, session, proc, told, lost, response, ask>>
      /\ wire' \in [Pids -> Streams]
  BY DEF dispatch_llm_request, bus, registry, history, Inv, TypeOK, BusType
<1>3. PICK pc \in {"idle", "tools"} : agent' = [agent EXCEPT ![h].pc = pc]
  BY DEF dispatch_llm_request, ToolCalls, FinalReply
<1>4. RestType'
  <2> DEFINE n == [agent[h] EXCEPT !.pc = pc]
  <2>1. n \in [pc : {"idle", "llm", "tools"}, round : Nat]
    BY <1>1 DEF RestType
  <2>2. agent' = [agent EXCEPT ![h] = n]
    BY <1>3
  <2> HIDE DEF n
  <2>3. QED BY <1>1, <2>1, <2>2, AgentType DEF dispatch_llm_request
<1>5. CASE FinalReply(h)
  BY <1>2, <1>4, <1>5, AwaitKept, QuietStep DEF FinalReply
<1>6. CASE ToolCalls(h)
  <2>1. PICK cs \in SUBSET {c \in load.calls : call[c].phase = "none"} :
          /\ call' = [c \in Calls |-> IF c \in cs THEN Launching(h) ELSE call[c]]
          /\ pending' = [pending EXCEPT ![h] = @ \cup cs]
    BY <1>6 DEF ToolCalls
  <2>2. cs \subseteq Calls /\ cs \subseteq Traces
    BY <1>1, VelixProcessAssumption DEF RestType, Traces
  <2>3. Launching(h) \in CallState /\ Launching(h).owner = h /\ Launching(h).phase \in Waiting
    BY <1>1 DEF Launching, CallState, Waiting
  <2>4. WaitType'
    BY <1>1, <1>2, <2>1, <2>2, <2>3 DEF WaitType
  <2>5. ASSUME NEW q \in Pids
        PROVE  AwaitInv(q)'
    <3>1. AwaitInv(q)
      BY DEF Inv
    <3>2. \A c \in Calls : IF c \in cs THEN call'[c] = Launching(h) ELSE call'[c] = call[c]
      BY <2>1
    <3>3. \A c \in cs : call[c].phase = "none"
      OBVIOUS
    <3>4. \A t \in pending'[q] : t \in pending[q] \/ (t \in cs /\ q = h)
      BY <1>1, <2>1 DEF WaitType
    <3>5. ASSUME NEW t, NEW phases \in SUBSET (Waiting \cup {"failed"}), For(q, t, phases)
          PROVE  For(q, t, phases)'
      <4>1. t \in Calls /\ call[t].phase \in phases => t \notin cs
        BY <3>3 DEF Waiting
      <4>2. QED BY <1>2, <3>2, <3>5, <4>1 DEF For
    <3>6. \A t \in cs : q = h => For(q, t, Waiting)'
      BY <2>2, <2>3, <3>2 DEF For
    <3>7. QED BY <1>2, <3>1, <3>4, <3>5, <3>6 DEF AwaitInv
  <2>6. QED BY <1>2, <1>4, <2>4, <2>5, QuietStep
<1>7. QED BY <1>5, <1>6 DEF dispatch_llm_request

-----------------------------------------------------------------------------
(* The end of a process                                                    *)

LEMMA GoneInv ==
  ASSUME Inv, NEW p \in Pids, NEW main \in {"end", "aborted"}, Gone(p, main),
         UNCHANGED <<running_, registry, session, load, ask, agent, beats, history>>
  PROVE  Inv'
<1>1. BusType /\ ProcType /\ WaitType /\ RestType /\ proc[p] \in Process
  BY ProcessType DEF Inv, TypeOK
<1> DEFINE n == [NotStarted EXCEPT !.main = main, !.signal = proc[p].signal]
<1>2. Set(p, n)
  BY DEF Gone
<1>3. n \in Process /\ n.main = main
  <2>1. NotStarted \in Process
    BY DEF NotStarted, Process, MainPc, Unborn
  <2>2. proc[p].signal \in BOOLEAN
    BY <1>1 DEF Process
  <2>3. QED BY <2>1, <2>2 DEF Process, MainPc
<1> HIDE DEF n
<1>4. Becomes(p, n)
  BY <1>1, <1>2, <1>3, SetBecomes
<1>5. EndInv(p)' /\ Forward
  BY <1>3, <1>4 DEF EndInv, Forward, Becomes, Unborn
<1>6. \A q \in Pids : EndInv(q)'
  BY <1>4, <1>5, EndMoves DEF history
<1>7. \A q \in Pids : BusInv(q)'
  BY <1>5, BusKept, SameSessions
<1>8. BusType'
  <2> DEFINE w == [wire[p] EXCEPT !.shut = TRUE, !.down = <<>>]
  <2>1. wire[p] \in Streams /\ <<>> \in Seq(Frame)
    BY <1>1, StreamType, EmptySeq DEF BusType
  <2>2. w \in Streams
    BY <2>1 DEF Streams
  <2>3. wire' = [wire EXCEPT ![p] = w]
    BY DEF Gone
  <2> HIDE DEF w
  <2>4. wire' \in [Pids -> Streams]
    BY <1>1, <2>2, <2>3, WireUpdate DEF BusType
  <2>5. QED BY <1>1, <2>4 DEF BusType, registry
<1>9. ASSUME NEW c \in Calls
      PROVE  /\ call'[c] \in CallState /\ call'[c].owner = call[c].owner
             /\ call[c].owner # p => call'[c] = call[c]
  <2> DEFINE d == [call[c] EXCEPT !.phase = "dead"]
  <2>1. call[c] \in CallState
    BY <1>1 DEF WaitType
  <2>2. d \in CallState /\ d.owner = call[c].owner
    BY <2>1 DEF CallState
  <2>3. call'[c] = IF call[c].owner = p /\ ~Over(c) THEN d ELSE call[c]
    BY DEF Gone
  <2> HIDE DEF d
  <2>4. QED BY <2>1, <2>2, <2>3
<1>10. WaitType'
  <2>1. call' = [c \in Calls |-> call'[c]]
    BY DEF Gone
  <2>2. QED BY <1>1, <1>9, <2>1 DEF WaitType, Gone
<1>11. ASSUME NEW q \in Pids
       PROVE  AwaitInv(q)'
  <2>1. AwaitInv(q)
    BY DEF Inv
  <2>2. CASE q = p
    <3>1. pending'[q] = {} /\ response'[q] = {}
      BY <1>1, <2>2 DEF WaitType, Gone
    <3>2. QED BY <3>1 DEF AwaitInv
  <2>3. CASE q # p
    <3>1. pending'[q] = pending[q] /\ response'[q] = response[q]
      BY <1>1, <2>3 DEF WaitType, Gone
    <3>2. QED BY <1>9, <2>1, <2>3, <3>1 DEF AwaitInv, For
  <2>4. QED BY <2>2, <2>3
<1>12. RestType'
  BY <1>1 DEF RestType, Gone, history
<1>13. QED BY <1>4, <1>6, <1>7, <1>8, <1>10, <1>11, <1>12 DEF Inv, TypeOK, Becomes

\* The heartbeat thread is at pc, or waits for the mutex of the main thread.
LEMMA IoStep ==
  ASSUME Inv, NEW p \in Pids, NEW pc \in {"loop", "beat", "asking"}, NEW b \in BOOLEAN,
         Set(p, [proc[p] EXCEPT !.io = pc, !.stuck = b]), proc[p].io # "none",
         UNCHANGED <<running_, registry, session, pending, response, call, ask, told, lost>>,
         wire' \in [Pids -> Streams], RestType'
  PROVE  Inv'
<1>1. proc[p] \in Process
  BY ProcessType DEF Inv, TypeOK
<1> DEFINE n == [proc[p] EXCEPT !.io = pc, !.stuck = b]
<1>2. /\ n \in Process /\ n.main = proc[p].main /\ n.force = proc[p].force
      /\ n.signal = proc[p].signal /\ n.is_running = proc[p].is_running
  BY <1>1 DEF Process
<1>3. Set(p, n)
  OBVIOUS
<1> HIDE DEF n
<1>4. QED BY <1>2, <1>3, LateStep

LEMMA SameFields ==
  ASSUME NEW p \in Pids, proc[p] \in Process, NEW pc
  PROVE  /\ [proc[p] EXCEPT !.io = pc] = [proc[p] EXCEPT !.io = pc, !.stuck = proc[p].stuck]
         /\ [proc[p] EXCEPT !.stuck = TRUE] = [proc[p] EXCEPT !.io = proc[p].io, !.stuck = TRUE]
         /\ proc[p].stuck \in BOOLEAN
BY DEF Process

LEMMA BeatBeginsInv ==
  ASSUME Inv, NEW p \in Pids, BeatBegins(p)
  PROVE  Inv'
<1>1. proc[p] \in Process /\ proc[p].io # "none"
  BY ProcessType DEF Inv, TypeOK, BeatBegins
<1>2. Set(p, [proc[p] EXCEPT !.io = "beat", !.stuck = proc[p].stuck]) /\ proc[p].stuck \in BOOLEAN
  BY <1>1, SameFields DEF BeatBegins
<1>3. /\ UNCHANGED <<running_, registry, session, pending, response, call, ask, told, lost>>
      /\ wire' \in [Pids -> Streams] /\ RestType'
  BY DEF BeatBegins, bus, registry, history, Inv, TypeOK, BusType, RestType
<1>4. QED BY <1>1, <1>2, <1>3, IoStep

LEMMA BeatStep ==
  ASSUME Inv, NEW p \in Pids, NEW pc \in {"loop", "asking"}, Beat(p, pc) \/ BeatFails(p),
         proc[p].io # "none",
         UNCHANGED <<running_, registry, session, load, ask, agent, beats, history>>
  PROVE  Inv'
<1>1. proc[p] \in Process
  BY ProcessType DEF Inv, TypeOK
<1>2. ASSUME NEW to \in {"loop", "asking"}, Beat(p, to)
      PROVE  Inv'
  <2>1. Set(p, [proc[p] EXCEPT !.io = to, !.stuck = proc[p].stuck]) /\ proc[p].stuck \in BOOLEAN
    BY <1>1, <1>2, SameFields DEF Beat
  <2>2. /\ UNCHANGED <<running_, registry, session, pending, response, call, ask, told, lost>>
        /\ wire' \in [Pids -> Streams] /\ RestType'
    BY <1>2, RestKept DEF Beat, history, Inv, TypeOK, BusType
  <2>3. QED BY <2>1, <2>2, IoStep
<1>3. CASE Gone(p, "end")
  BY <1>3, GoneInv
<1>4. QED BY <1>2, <1>3 DEF BeatFails

LEMMA HeartbeatInv ==
  ASSUME Inv, NEW p \in Pids, Heartbeat(p)
  PROVE  Inv'
<1>1. /\ UNCHANGED <<running_, registry, session, load, ask, agent, beats, history>>
      /\ proc[p] \in Process /\ proc[p].io = "beat"
  BY ProcessType DEF Heartbeat, Inv, TypeOK
<1>2. CASE Set(p, [proc[p] EXCEPT !.stuck = TRUE]) /\ UNCHANGED <<call, wire, pending, response, asks>>
  <2>1. Set(p, [proc[p] EXCEPT !.io = "beat", !.stuck = TRUE])
    BY <1>1, <1>2, SameFields
  <2>2. /\ UNCHANGED <<running_, registry, session, pending, response, call, ask, told, lost>>
        /\ wire' \in [Pids -> Streams] /\ RestType'
    BY <1>1, <1>2, RestKept DEF history, Inv, TypeOK, BusType
  <2>3. QED BY <1>1, <2>1, <2>2, IoStep
<1>3. CASE /\ Send(p, Bare("HEARTBEAT")) /\ Set(p, [proc[p] EXCEPT !.io = "loop"])
           /\ UNCHANGED <<call, pending, response, asks>>
  <2>1. Set(p, [proc[p] EXCEPT !.io = "loop", !.stuck = proc[p].stuck]) /\ proc[p].stuck \in BOOLEAN
    BY <1>1, <1>3, SameFields
  <2>2. wire' \in [Pids -> Streams]
    BY <1>3, BareType, SendType DEF Inv, TypeOK, BusType
  <2>3. UNCHANGED <<running_, registry, session, pending, response, call, ask, told, lost>> /\ RestType'
    BY <1>1, <1>3, RestKept DEF history, Inv, TypeOK
  <2>4. QED BY <1>1, <2>1, <2>2, <2>3, IoStep
<1>4. CASE \E pc \in {"loop", "asking"} : Beat(p, pc) \/ BeatFails(p)
  BY <1>1, <1>4, BeatStep
<1>5. QED BY <1>2, <1>3, <1>4 DEF Heartbeat

LEMMA SupervisorAnswersInv ==
  ASSUME Inv, NEW p \in Pids, SupervisorAnswers(p)
  PROVE  Inv'
BY BeatStep DEF SupervisorAnswers

LEMMA shutdownInv ==
  ASSUME Inv, NEW p \in Pids, shutdown(p)
  PROVE  Inv'
<1>1. /\ UNCHANGED <<running_, registry, session, load, ask, agent, beats, history>>
      /\ proc[p].main = "over" /\ proc[p] \in Process
  BY ProcessType DEF shutdown, Main, Inv, TypeOK
<1>2. CASE Set(p, Stopping(proc[p])) /\ UNCHANGED <<wire, call, pending, response, asks>>
  <2> DEFINE n == Stopping(proc[p])
  <2>1. n \in Process /\ n.main = "over"
    BY <1>1, StoppingType
  <2>2. Set(p, n)
    BY <1>2
  <2> HIDE DEF n
  <2>3. wire' \in [Pids -> Streams] /\ RestType'
    BY <1>1, <1>2, RestKept DEF Inv, TypeOK, BusType
  <2>4. QED BY <1>1, <1>2, <2>1, <2>2, <2>3, LateStep DEF Unborn, history
<1>3. CASE Gone(p, IF proc[p].halt = "done" THEN "end" ELSE "aborted")
  BY <1>1, <1>3, GoneInv
<1>4. QED BY <1>2, <1>3 DEF shutdown

LEMMA KillInv ==
  ASSUME Inv, NEW p \in Pids, Kill(p)
  PROVE  Inv'
BY GoneInv DEF Kill

LEMMA NotifyInv ==
  ASSUME Inv, NEW p \in Tools, notify_bus_child_terminated(p)
  PROVE  Inv'
<1>1. /\ UNCHANGED <<running_, registry, session, proc, told, lost, pending, response, call, ask>>
      /\ wire' \in [Pids -> Streams]
  BY DEF notify_bus_child_terminated, bus, registry, sdk, Inv, TypeOK, BusType
<1>2. RestType'
  <2>1. proc[p].trace \in Calls \cup {None}
    BY ProcessType DEF Inv, TypeOK, Tools, Process
  <2>2. QED BY <2>1 DEF notify_bus_child_terminated, sdk, Inv, TypeOK, RestType
<1>3. QED BY <1>1, <1>2, AwaitKept, QuietStep

-----------------------------------------------------------------------------
(* The theorems                                                            *)

LEMMA InitInv == Init => Inv
<1> SUFFICES ASSUME Init PROVE Inv
  OBVIOUS
<1>1. <<>> \in Seq(Frame)
  BY EmptySeq
<1>2. BusType
  BY <1>1 DEF Init, BusInit, BusType, Connected, Streams
<1>3. ProcType
  <2>1. NotStarted \in Process
    BY DEF NotStarted, Process, MainPc, Unborn
  <2>2. QED BY <2>1 DEF Init, ProcType
<1>4. WaitType
  BY DEF Init, WaitType, CallState
<1>5. RestType
  BY DEF Init, RestType
<1>6. ASSUME NEW p \in Pids
      PROVE  BusInv(p) /\ AwaitInv(p) /\ EndInv(p)
  <2>1. proc[p] = NotStarted /\ session[p].pid = None /\ session[p].closed = TRUE
        /\ pending[p] = {} /\ response[p] = {} /\ told[p] = None
    BY DEF Init, BusInit
  <2>2. NotStarted.main = "none" /\ NotStarted.io = "none" /\ NotStarted.force = FALSE
    BY DEF NotStarted
  <2>3. None # "FINISHED" /\ None # p
    BY VelixProcessAssumption, BusAssumption
  <2>4. QED BY <2>1, <2>2, <2>3 DEF BusInv, AwaitInv, EndInv, Unborn
<1>7. QED BY <1>2, <1>3, <1>4, <1>5, <1>6 DEF Inv, TypeOK

LEMMA StepInv ==
  ASSUME Inv, NEW s \in Pids, BusStep(s)
  PROVE  Inv'
BY handle_messageInv, relay_messageInv, RegisterAckInv, ReadErrorInv, WriteDoneInv DEF BusStep

LEMMA AnswerInv ==
  ASSUME Inv, NEW s \in Pids, BusAnswer(s)
  PROVE  Inv'
BY HeartbeatAnswerInv DEF BusAnswer

LEMMA NextInv == Inv /\ [Next]_vars => Inv'
<1> SUFFICES ASSUME Inv, [Next]_vars PROVE Inv'
  OBVIOUS
<1>1. CASE UNCHANGED vars
  <2>1. UNCHANGED <<bus, load, sdk, beats, history>>
    BY <1>1 DEF vars
  <2>2. BusType' /\ \A p \in Pids : BusInv(p)'
    BY <2>1 DEF Inv, TypeOK, BusType, BusInv, Open, bus, sdk
  <2>3. QED BY <2>1, <2>2, BusStepInv
<1>2. ASSUME NEW h \in Handlers,
             StartHandler(h) \/ call_llm(h) \/ dispatch_llm_request(h) \/ ToolsDone(h)
      PROVE  Inv'
  BY <1>2, StartHandlerInv, call_llmInv, dispatch_llm_requestInv, ToolsDoneInv
<1>3. ASSUME NEW h \in Handlers, NEW t \in Tools, handle_ask_user_reply(h, t)
      PROVE  Inv'
  BY <1>3, handle_ask_user_replyInv
<1>4. ASSUME NEW t \in Tools,
             report_result(t) \/ ask_user(t) \/ AskEnds(t) \/ notify_bus_child_terminated(t)
      PROVE  Inv'
  BY <1>4, report_resultInv, ask_userInv, AskEndsInv, NotifyInv
<1>5. ASSUME NEW p \in Pids,
             \/ start(p) \/ RegistrationFailed(p) \/ Handshake(p) \/ ResultGuard(p)
             \/ BeatBegins(p) \/ SupervisorAnswers(p) \/ BusAnswer(p)
             \/ shutdown(p) \/ Signal(p) \/ Kill(p)
      PROVE  Inv'
  BY <1>5, startInv, RegistrationFailedInv, HandshakeInv, ResultGuardInv, BeatBeginsInv,
     SupervisorAnswersInv, AnswerInv, shutdownInv, SignalInv, KillInv
<1>6. ASSUME NEW c \in Calls, LaunchOk(c) \/ Retry(c) \/ Refused(c) \/ WaitTimeout(c)
      PROVE  Inv'
  BY <1>6, LaunchOkInv, RetryInv, RefusedInv, WaitTimeoutInv
<1>7. CASE Progress
  BY <1>7, StepInv, bus_listener_loopInv, ListenerExitInv, ListenerBlocksInv, HeartbeatInv, FinalHeartbeatInv,
     CloseSocketInv, JoinedInv, TakeResultInv DEF Progress
<1>8. QED BY <1>1, <1>2, <1>3, <1>4, <1>5, <1>6, <1>7, BusStopInv DEF Next

LEMMA Invariance == Spec => []Inv
BY InitInv, NextInv, PTL DEF Spec

\* As long as its connection is open, a registered process is found under its
\* pid and the handler that registered last under TREE_HANDLER, in whatever order
\* the sessions of other handlers end (unregister_session).
THEOREM LatestHandlerIsRoot == Spec => []RootIsListed
<1>1. Inv => RootIsListed
  BY DEF Inv, BusInv, RootIsListed
<1>2. QED BY <1>1, Invariance, PTL

\* response_map never holds an answer for a call that has timed out, was taken
\* or was never made (bus_listener_loop against execute_tool_internal).
THEOREM ResponseHasReader == Spec => []StoredIsAwaited
<1>1. Inv => StoredIsAwaited
  BY DEF Inv, AwaitInv, For, Waiting, StoredIsAwaited
<1>2. QED BY <1>1, Invariance, PTL

\* FINISHED is never said of a process whose run() goes on, unless its listener
\* lost the bus: a signal says KILLED (the final heartbeat).
THEOREM FinishedIsTold == Spec => []FinishedIsOver
<1>1. Inv => FinishedIsOver
  BY DEF Inv, EndInv, FinishedIsOver
<1>2. QED BY <1>1, Invariance, PTL
=============================================================================
