-------------------------- MODULE ChatHandlerProofs --------------------------
(***************************************************************************)
(* Proofs about ChatHandler for every set of connections, users, sessions  *)
(* and messages: the table of sessions leads to connections that are in    *)
(* the session and are not torn down, an ask is answered once, and a turn  *)
(* ends with its reply on the screen.                                      *)
(***************************************************************************)
EXTENDS ChatHandler, SequenceTheorems, TLAPS

Queued == [type : Commands \cup Turns, target : Uid \cup {None}]
Session == [user_id : Uid \cup {None}, super_user : SuperUser \cup {None},
            active : BOOLEAN, queue : Seq(Queued)]
ConnPc == {"register", "new", "resolve", "list", "refused", "done"}
ReaderPc == {"off", "read", "erase", "done"}
WorkerPc == Commands \cup {"off", "test", "dozing", "asleep", "turn", "end", "fallback", "move",
                           "delete_call", "destroy_call", "disconnect", "deactivate", "done"}
Threads == [conn : ConnPc, reader : ReaderPc, worker : WorkerPc, sid : Uid \cup {None}]
Purpose == {e.purpose : e \in BusEvent} \cup {None}

ClientTables == sess \in [Client -> Session] /\ thr \in [Client -> Threads]
TypeOK ==
  /\ is_running \in BOOLEAN
  /\ sessions \in [Uid -> Client \cup {None}]
  /\ known_users \subseteq SuperUser
  /\ ClientTables
  /\ asked \subseteq Trace /\ answered \in [Trace -> Int]
  /\ bus \in [job : Purpose, todo : SUBSET Client]
  /\ stored \subseteq Sid
  /\ budget \in Int
  /\ late \subseteq Client

\* Where the threads of a connection are, and what its entries in sessions_
\* then say: it is listed only once it has a session, under that session, and
\* after its teardown only when a command listed it again.
Local(c) ==
  /\ thr[c].conn # "done" => thr[c].reader = "off" /\ thr[c].worker = "off"
  /\ thr[c].conn \in {"list", "done"} => sess[c].user_id \in Uid
  /\ thr[c].worker = "move" => thr[c].sid \in Uid
  /\ \A k \in Uid : sessions[k] = c => /\ sess[c].user_id = k
                                       /\ thr[c].conn = "done"
                                       /\ thr[c].reader = "done" => c \in late

\* A trace that is in the table has a request that was not answered yet.
AskInv == \A t \in Trace : answered[t] <= 0 /\ (t \in asked => answered[t] <= -1)

\* The inductive invariant.
Inv == TypeOK /\ (\A c \in Client : Local(c)) /\ AskInv /\ ReplyIsShown

-----------------------------------------------------------------------------
(* Reconciling the stream with the reply                                   *)

LEMMA EmptyIsSuffix ==
  ASSUME NEW S, NEW s \in Seq(S)
  PROVE  IsSuffix(<<>>, s)
<1>1. Len(s) \in Nat /\ Len(<<>>) = 0
  BY EmptySeq, LenProperties
<1>2. SubSeq(s, Len(s) + 1, Len(s)) = <<>>
  BY <1>1, SubSeqEmpty
<1>3. QED BY <1>1, <1>2 DEF IsSuffix

LEMMA SelfIsPrefix ==
  ASSUME NEW S, NEW s \in Seq(S)
  PROVE  IsPrefix(s, s) /\ IsSuffix(s, s)
<1>1. Len(s) \in Nat
  BY LenProperties
<1>2. SubSeq(s, 1, Len(s)) = s
  BY SubSeqFull
<1>3. Len(s) - Len(s) + 1 = 1
  BY <1>1
<1>4. QED BY <1>1, <1>2, <1>3 DEF IsPrefix, IsSuffix

\* Two sequences of one length, one of which begins or ends the other.
LEMMA SameLength ==
  ASSUME NEW S, NEW s \in Seq(S), NEW t \in Seq(S), IsPrefix(s, t), IsSuffix(t, s)
  PROVE  s = t
<1>1. Len(s) \in Nat /\ Len(t) \in Nat
  BY LenProperties
<1>2. Len(s) = Len(t) /\ SubSeq(t, 1, Len(s)) = s
  BY <1>1 DEF IsPrefix, IsSuffix
<1>3. SubSeq(t, 1, Len(t)) = t
  BY SubSeqFull
<1>4. QED BY <1>2, <1>3

LEMMA ConcatParts ==
  ASSUME NEW S, NEW s \in Seq(S), NEW t \in Seq(S)
  PROVE  IsPrefix(s, s \o t) /\ IsSuffix(t, s \o t)
<1> DEFINE w == s \o t
<1>1. /\ Len(s) \in Nat /\ Len(t) \in Nat /\ w \in Seq(S) /\ Len(w) = Len(s) + Len(t)
      /\ \A i \in 1 .. Len(s) + Len(t) : w[i] = IF i <= Len(s) THEN s[i] ELSE t[i - Len(s)]
  BY ConcatProperties, LenProperties
<1>2. \A i \in 1 .. Len(w) : w[i] \in S
  BY <1>1, ElementOfSeq
<1> HIDE DEF w
<1>3. SubSeq(w, 1, Len(s)) = s
  <2>1. /\ SubSeq(w, 1, Len(s)) \in Seq(S)
        /\ Len(SubSeq(w, 1, Len(s))) = IF 1 <= Len(s) THEN Len(s) - 1 + 1 ELSE 0
        /\ \A i \in 1 .. Len(s) - 1 + 1 : SubSeq(w, 1, Len(s))[i] = w[1 + i - 1]
    <3>1. \A i \in 1 .. Len(s) : w[i] \in S
      BY <1>1, <1>2
    <3>2. QED BY <1>1, <3>1, SubSeqProperties
  <2>2. Len(SubSeq(w, 1, Len(s))) = Len(s)
    BY <1>1, <2>1
  <2>3. \A i \in 1 .. Len(s) : SubSeq(w, 1, Len(s))[i] = s[i]
    BY <1>1, <2>1
  <2>4. QED BY <2>1, <2>2, <2>3, SeqEqual
<1>4. SubSeq(w, Len(s) + 1, Len(w)) = t
  <2> DEFINE m == Len(s) + 1
  <2>0. m \in Int /\ Len(w) \in Int /\ Len(w) - m + 1 = Len(t)
    BY <1>1
  <2>1. /\ SubSeq(w, m, Len(w)) \in Seq(S)
        /\ Len(SubSeq(w, m, Len(w))) = IF m <= Len(w) THEN Len(w) - m + 1 ELSE 0
        /\ \A i \in 1 .. Len(w) - m + 1 : SubSeq(w, m, Len(w))[i] = w[m + i - 1]
    <3>1. \A i \in m .. Len(w) : w[i] \in S
      BY <1>1, <1>2
    <3> HIDE DEF m
    <3>2. QED BY <2>0, <3>1, SubSeqProperties
  <2>2. Len(SubSeq(w, m, Len(w))) = Len(t)
    BY <1>1, <2>0, <2>1
  <2>3. \A i \in 1 .. Len(t) : SubSeq(w, m, Len(w))[i] = t[i]
    <3> SUFFICES ASSUME NEW i \in 1 .. Len(t)
                 PROVE  SubSeq(w, m, Len(w))[i] = t[i]
      OBVIOUS
    <3>1. SubSeq(w, m, Len(w))[i] = w[m + i - 1]
      BY <2>0, <2>1
    <3>2. m + i - 1 \in 1 .. Len(s) + Len(t) /\ ~(m + i - 1 <= Len(s)) /\ m + i - 1 - Len(s) = i
      BY <1>1
    <3>3. QED BY <1>1, <3>1, <3>2
  <2>4. QED BY <2>1, <2>2, <2>3, SeqEqual
<1>5. Len(w) - Len(t) + 1 = Len(s) + 1 /\ Len(s) <= Len(w) /\ Len(t) <= Len(w)
  BY <1>1
<1>6. IsPrefix(s, w) /\ IsSuffix(t, w)
  BY <1>3, <1>4, <1>5 DEF IsPrefix, IsSuffix
<1>7. QED BY <1>6 DEF w

\* What flush_reply leaves on the screen: the stream first, the reply last.
LEMMA FlushShows ==
  ASSUME NEW s \in Text, NEW r \in Text
  PROVE  /\ IsSuffix(r, flush_reply(s, r)) /\ IsPrefix(s, flush_reply(s, r))
         /\ IsPrefix(s, r) => flush_reply(s, r) = IF r = <<>> THEN s ELSE r
<1> DEFINE A == {s[i] : i \in 1 .. Len(s)}
<1> DEFINE B == {r[i] : i \in 1 .. Len(r)}
<1> DEFINE S == A \cup B \cup {"newline"}
<1>1. s \in Seq(A) /\ r \in Seq(B)
  BY ChatHandlerAssumption
<1>2. A \subseteq S /\ B \subseteq S /\ "newline" \in S
  OBVIOUS
<1> HIDE DEF A, B, S
<1>3. s \in Seq(S) /\ r \in Seq(S) /\ <<"newline">> \in Seq(S)
  BY <1>1, <1>2, SeqMonotonic
<1>4. CASE r = <<>>
  BY <1>3, <1>4, EmptyIsSuffix, SelfIsPrefix DEF flush_reply
<1>5. CASE r # <<>> /\ IsSuffix(r, s)
  BY <1>3, <1>5, SelfIsPrefix, SameLength DEF flush_reply
<1>6. CASE r # <<>> /\ ~IsSuffix(r, s) /\ IsPrefix(s, r)
  BY <1>3, <1>6, SelfIsPrefix DEF flush_reply
<1>7. CASE r # <<>> /\ ~IsSuffix(r, s) /\ ~IsPrefix(s, r)
  <2>1. flush_reply(s, r) = (s \o <<"newline">>) \o r
    BY <1>7 DEF flush_reply
  <2>2. s \o <<"newline">> \in Seq(S) /\ <<"newline">> \o r \in Seq(S)
    BY <1>3, ConcatProperties
  <2>3. IsSuffix(r, (s \o <<"newline">>) \o r)
    BY <1>3, <2>2, ConcatParts
  <2>4. IsPrefix(s, s \o (<<"newline">> \o r))
    BY <1>3, <2>2, ConcatParts
  <2>5. (s \o <<"newline">>) \o r = s \o (<<"newline">> \o r)
    BY <1>3, ConcatAssociative
  <2>6. QED BY <1>7, <2>1, <2>3, <2>4, <2>5
<1>8. QED BY <1>4, <1>5, <1>6, <1>7

-----------------------------------------------------------------------------
(* What a step does to the threads and the session of one connection,      *)
(* field by field                                                          *)

ThreadsMove(c, conn, reader, worker, sid) ==
  /\ thr' \in [Client -> Threads] /\ \A d \in Client : d # c => thr'[d] = thr[d]
  /\ thr'[c].conn = conn /\ thr'[c].reader = reader
  /\ thr'[c].worker = worker /\ thr'[c].sid = sid
SessionMove(c, uid) ==
  /\ sess' \in [Client -> Session] /\ \A d \in Client : d # c => sess'[d] = sess[d]
  /\ sess'[c].user_id = uid

LEMMA ThreadsUpdate ==
  ASSUME ClientTables, NEW c \in Client, NEW n \in Threads, thr' = [thr EXCEPT ![c] = n]
  PROVE  ThreadsMove(c, n.conn, n.reader, n.worker, n.sid)
BY DEF ClientTables, ThreadsMove

LEMMA SessionUpdate ==
  ASSUME ClientTables, NEW c \in Client, NEW n \in Session, sess' = [sess EXCEPT ![c] = n]
  PROVE  SessionMove(c, n.user_id)
BY DEF ClientTables, SessionMove

LEMMA WorkerMoves ==
  ASSUME ClientTables, NEW c \in Client, NEW worker \in WorkerPc,
         WorkerStep(c, worker)
  PROVE  ThreadsMove(c, thr[c].conn, thr[c].reader, worker, thr[c].sid)
<1> DEFINE n == [thr[c] EXCEPT !.worker = worker]
<1>1. thr[c] \in Threads
  BY DEF ClientTables
<1>2. n \in Threads /\ n.conn = thr[c].conn /\ n.reader = thr[c].reader
      /\ n.worker = worker /\ n.sid = thr[c].sid
  BY <1>1 DEF Threads
<1>3. thr' = [thr EXCEPT ![c] = n]
  BY DEF WorkerStep
<1> HIDE DEF n
<1>4. QED BY <1>2, <1>3, ThreadsUpdate

LEMMA WorkerSidMoves ==
  ASSUME ClientTables, NEW c \in Client, NEW sid \in Uid \cup {None}, NEW worker \in WorkerPc,
         thr' = [thr EXCEPT ![c].sid = sid, ![c].worker = worker]
  PROVE  ThreadsMove(c, thr[c].conn, thr[c].reader, worker, sid)
<1> DEFINE n == [thr[c] EXCEPT !.sid = sid, !.worker = worker]
<1>1. thr[c] \in Threads
  BY DEF ClientTables
<1>2. n \in Threads /\ n.conn = thr[c].conn /\ n.reader = thr[c].reader
      /\ n.worker = worker /\ n.sid = sid
  BY <1>1 DEF Threads
<1>3. thr' = [thr EXCEPT ![c] = n]
  BY DEF WorkerStep
<1> HIDE DEF n
<1>4. QED BY <1>2, <1>3, ThreadsUpdate

LEMMA WorkerEndMoves ==
  ASSUME ClientTables, NEW c \in Client, NEW worker \in WorkerPc, NEW sid \in Uid \cup {None},
         thr' = [thr EXCEPT ![c].worker = worker, ![c].sid = sid]
  PROVE  ThreadsMove(c, thr[c].conn, thr[c].reader, worker, sid)
<1> DEFINE n == [thr[c] EXCEPT !.worker = worker, !.sid = sid]
<1>1. thr[c] \in Threads
  BY DEF ClientTables
<1>2. n \in Threads /\ n.conn = thr[c].conn /\ n.reader = thr[c].reader
      /\ n.worker = worker /\ n.sid = sid
  BY <1>1 DEF Threads
<1>3. thr' = [thr EXCEPT ![c] = n]
  BY DEF WorkerStep
<1> HIDE DEF n
<1>4. QED BY <1>2, <1>3, ThreadsUpdate

LEMMA ConnSidMoves ==
  ASSUME ClientTables, NEW c \in Client, NEW conn \in ConnPc, NEW sid \in Uid \cup {None},
         thr' = [thr EXCEPT ![c].conn = conn, ![c].sid = sid]
  PROVE  ThreadsMove(c, conn, thr[c].reader, thr[c].worker, sid)
<1> DEFINE n == [thr[c] EXCEPT !.conn = conn, !.sid = sid]
<1>1. thr[c] \in Threads
  BY DEF ClientTables
<1>2. n \in Threads /\ n.conn = conn /\ n.reader = thr[c].reader
      /\ n.worker = thr[c].worker /\ n.sid = sid
  BY <1>1 DEF Threads
<1>3. thr' = [thr EXCEPT ![c] = n]
  BY DEF WorkerStep
<1> HIDE DEF n
<1>4. QED BY <1>2, <1>3, ThreadsUpdate

LEMMA SidConnMoves ==
  ASSUME ClientTables, NEW c \in Client, NEW sid \in Uid \cup {None}, NEW conn \in ConnPc,
         thr' = [thr EXCEPT ![c].sid = sid, ![c].conn = conn]
  PROVE  ThreadsMove(c, conn, thr[c].reader, thr[c].worker, sid)
<1> DEFINE n == [thr[c] EXCEPT !.sid = sid, !.conn = conn]
<1>1. thr[c] \in Threads
  BY DEF ClientTables
<1>2. n \in Threads /\ n.conn = conn /\ n.reader = thr[c].reader
      /\ n.worker = thr[c].worker /\ n.sid = sid
  BY <1>1 DEF Threads
<1>3. thr' = [thr EXCEPT ![c] = n]
  BY DEF WorkerStep
<1> HIDE DEF n
<1>4. QED BY <1>2, <1>3, ThreadsUpdate

LEMMA ConnMoves ==
  ASSUME ClientTables, NEW c \in Client, NEW conn \in ConnPc,
         thr' = [thr EXCEPT ![c].conn = conn]
  PROVE  ThreadsMove(c, conn, thr[c].reader, thr[c].worker, thr[c].sid)
<1> DEFINE n == [thr[c] EXCEPT !.conn = conn]
<1>1. thr[c] \in Threads
  BY DEF ClientTables
<1>2. n \in Threads /\ n.conn = conn /\ n.reader = thr[c].reader
      /\ n.worker = thr[c].worker /\ n.sid = thr[c].sid
  BY <1>1 DEF Threads
<1>3. thr' = [thr EXCEPT ![c] = n]
  BY DEF WorkerStep
<1> HIDE DEF n
<1>4. QED BY <1>2, <1>3, ThreadsUpdate

LEMMA ReaderMoves ==
  ASSUME ClientTables, NEW c \in Client, NEW reader \in ReaderPc,
         thr' = [thr EXCEPT ![c].reader = reader]
  PROVE  ThreadsMove(c, thr[c].conn, reader, thr[c].worker, thr[c].sid)
<1> DEFINE n == [thr[c] EXCEPT !.reader = reader]
<1>1. thr[c] \in Threads
  BY DEF ClientTables
<1>2. n \in Threads /\ n.conn = thr[c].conn /\ n.reader = reader
      /\ n.worker = thr[c].worker /\ n.sid = thr[c].sid
  BY <1>1 DEF Threads
<1>3. thr' = [thr EXCEPT ![c] = n]
  BY DEF WorkerStep
<1> HIDE DEF n
<1>4. QED BY <1>2, <1>3, ThreadsUpdate

LEMMA StartMoves ==
  ASSUME ClientTables, NEW c \in Client, NEW conn \in ConnPc, NEW reader \in ReaderPc, NEW worker \in WorkerPc,
         thr' = [thr EXCEPT ![c].conn = conn, ![c].reader = reader, ![c].worker = worker]
  PROVE  ThreadsMove(c, conn, reader, worker, thr[c].sid)
<1> DEFINE n == [thr[c] EXCEPT !.conn = conn, !.reader = reader, !.worker = worker]
<1>1. thr[c] \in Threads
  BY DEF ClientTables
<1>2. n \in Threads /\ n.conn = conn /\ n.reader = reader
      /\ n.worker = worker /\ n.sid = thr[c].sid
  BY <1>1 DEF Threads
<1>3. thr' = [thr EXCEPT ![c] = n]
  BY DEF WorkerStep
<1> HIDE DEF n
<1>4. QED BY <1>2, <1>3, ThreadsUpdate

Awake(worker) == IF worker = "asleep" THEN "test" ELSE worker

LEMMA WokenMoves ==
  ASSUME ClientTables, NEW c \in Client, thr' = [thr EXCEPT ![c] = Woken(@)]
  PROVE  ThreadsMove(c, thr[c].conn, thr[c].reader, Awake(thr[c].worker), thr[c].sid)
<1> DEFINE n == Woken(thr[c])
<1>1. thr[c] \in Threads /\ "test" \in WorkerPc
  BY DEF ClientTables, WorkerPc
<1>2. n \in Threads /\ n.conn = thr[c].conn /\ n.reader = thr[c].reader
      /\ n.worker = Awake(thr[c].worker) /\ n.sid = thr[c].sid
  BY <1>1 DEF Threads, Woken, Awake
<1>3. thr' = [thr EXCEPT ![c] = n]
  OBVIOUS
<1> HIDE DEF n
<1>4. QED BY <1>2, <1>3, ThreadsUpdate

LEMMA TeardownMoves ==
  ASSUME ClientTables, NEW c \in Client,
         thr' = [thr EXCEPT ![c] = [Woken(@) EXCEPT !.reader = "erase"]]
  PROVE  ThreadsMove(c, thr[c].conn, "erase", Awake(thr[c].worker), thr[c].sid)
<1> DEFINE n == [Woken(thr[c]) EXCEPT !.reader = "erase"]
<1>1. thr[c] \in Threads /\ "test" \in WorkerPc /\ "erase" \in ReaderPc
  BY DEF ClientTables, WorkerPc, ReaderPc
<1>2. n \in Threads /\ n.conn = thr[c].conn /\ n.reader = "erase"
      /\ n.worker = Awake(thr[c].worker) /\ n.sid = thr[c].sid
  BY <1>1 DEF Threads, Woken, Awake
<1>3. thr' = [thr EXCEPT ![c] = n]
  OBVIOUS
<1> HIDE DEF n
<1>4. QED BY <1>2, <1>3, ThreadsUpdate

LEMMA UserIdMoves ==
  ASSUME ClientTables, NEW c \in Client, NEW uid \in Uid \cup {None}, sess' = [sess EXCEPT ![c].user_id = uid]
  PROVE  SessionMove(c, uid)
<1> DEFINE n == [sess[c] EXCEPT !.user_id = uid]
<1>1. sess[c] \in Session
  BY DEF ClientTables
<1>2. n \in Session /\ n.user_id = uid
  BY <1>1 DEF Session
<1>3. sess' = [sess EXCEPT ![c] = n]
  OBVIOUS
<1> HIDE DEF n
<1>4. QED BY <1>2, <1>3, SessionUpdate

LEMMA SuperUserMoves ==
  ASSUME ClientTables, NEW c \in Client, NEW u \in SuperUser, sess' = [sess EXCEPT ![c].super_user = u]
  PROVE  SessionMove(c, sess[c].user_id)
<1> DEFINE n == [sess[c] EXCEPT !.super_user = u]
<1>1. sess[c] \in Session
  BY DEF ClientTables
<1>2. n \in Session /\ n.user_id = sess[c].user_id
  BY <1>1 DEF Session
<1>3. sess' = [sess EXCEPT ![c] = n]
  OBVIOUS
<1> HIDE DEF n
<1>4. QED BY <1>2, <1>3, SessionUpdate

LEMMA ActiveMoves ==
  ASSUME ClientTables, NEW c \in Client, NEW b \in BOOLEAN, sess' = [sess EXCEPT ![c].active = b]
  PROVE  SessionMove(c, sess[c].user_id)
<1> DEFINE n == [sess[c] EXCEPT !.active = b]
<1>1. sess[c] \in Session
  BY DEF ClientTables
<1>2. n \in Session /\ n.user_id = sess[c].user_id
  BY <1>1 DEF Session
<1>3. sess' = [sess EXCEPT ![c] = n]
  OBVIOUS
<1> HIDE DEF n
<1>4. QED BY <1>2, <1>3, SessionUpdate

LEMMA QueueMoves ==
  ASSUME ClientTables, NEW c \in Client, NEW q \in Seq(Queued), sess' = [sess EXCEPT ![c].queue = q]
  PROVE  SessionMove(c, sess[c].user_id)
<1> DEFINE n == [sess[c] EXCEPT !.queue = q]
<1>1. sess[c] \in Session
  BY DEF ClientTables
<1>2. n \in Session /\ n.user_id = sess[c].user_id
  BY <1>1 DEF Session
<1>3. sess' = [sess EXCEPT ![c] = n]
  OBVIOUS
<1> HIDE DEF n
<1>4. QED BY <1>2, <1>3, SessionUpdate

LEMMA SameSession ==
  ASSUME ClientTables, NEW c \in Client, sess' = sess
  PROVE  SessionMove(c, sess[c].user_id)
BY DEF ClientTables, SessionMove

LEMMA SameThreads ==
  ASSUME ClientTables, NEW c \in Client, thr' = thr
  PROVE  ThreadsMove(c, thr[c].conn, thr[c].reader, thr[c].worker, thr[c].sid)
BY DEF ClientTables, ThreadsMove

-----------------------------------------------------------------------------
(* A step of one connection                                                *)

Fits(conn, reader, worker, sid, uid) ==
  /\ conn # "done" => reader = "off" /\ worker = "off"
  /\ conn \in {"list", "done"} => uid \in Uid
  /\ worker = "move" => sid \in Uid

\* Only c gets an entry, and only the one it should have.
Listing(c, conn, reader, uid) ==
  /\ sessions' \in [Uid -> Client \cup {None}]
  /\ late \subseteq late' /\ late' \subseteq Client
  /\ \A k \in Uid : /\ sessions'[k] \in {sessions[k], None, c}
                    /\ sessions'[k] = c => /\ uid = k /\ conn = "done"
                                           /\ reader = "done" => c \in late'

\* The rest of the state is as it should be.
Ambient ==
  /\ is_running' \in BOOLEAN /\ known_users' \subseteq SuperUser
  /\ asked' \subseteq Trace /\ answered' \in [Trace -> Int]
  /\ bus' \in [job : Purpose, todo : SUBSET Client]
  /\ stored' \subseteq Sid /\ budget' \in Int
  /\ AskInv' /\ ReplyIsShown'

LEMMA ConnectionStep ==
  ASSUME Inv, NEW c \in Client, NEW conn, NEW reader, NEW worker, NEW sid, NEW uid,
         ThreadsMove(c, conn, reader, worker, sid), SessionMove(c, uid),
         Fits(conn, reader, worker, sid, uid), Listing(c, conn, reader, uid), Ambient
  PROVE  Inv'
<1>1. TypeOK'
  BY DEF TypeOK, ClientTables, Ambient, ThreadsMove, SessionMove, Listing
<1>2. Local(c)'
  BY DEF Local, ThreadsMove, SessionMove, Fits, Listing
<1>3. ASSUME NEW d \in Client, d # c
      PROVE  Local(d)'
  <2>1. Local(d) /\ d # None
    BY ChatHandlerAssumption DEF Inv
  <2>2. thr'[d] = thr[d] /\ sess'[d] = sess[d] /\ late \subseteq late'
    BY <1>3 DEF ThreadsMove, SessionMove, Listing
  <2>3. \A k \in Uid : sessions'[k] = d => sessions[k] = d
    BY <1>3, <2>1 DEF Listing
  <2>4. QED BY <2>1, <2>2, <2>3 DEF Local
<1>4. QED BY <1>1, <1>2, <1>3 DEF Inv, Ambient

\* A step that leaves the table of sessions and the user id of c alone.
LEMMA UnlistedStep ==
  ASSUME Inv, NEW c \in Client, NEW reader, NEW worker, NEW sid,
         ThreadsMove(c, thr[c].conn, reader, worker, sid), SessionMove(c, sess[c].user_id),
         UNCHANGED <<sessions, late>>, reader = "done" => thr[c].reader = "done",
         thr[c].reader = "off" => reader = "off", thr[c].worker = "off" => worker = "off",
         worker = "move" => sid \in Uid, Ambient
  PROVE  Inv'
<1>1. Local(c)
  BY DEF Inv
<1>2. Fits(thr[c].conn, reader, worker, sid, sess[c].user_id)
  BY <1>1 DEF Local, Fits
<1>3. Listing(c, thr[c].conn, reader, sess[c].user_id)
  BY <1>1 DEF Local, Listing, Inv, TypeOK
<1>4. QED BY <1>2, <1>3, ConnectionStep

LEMMA AmbientKept ==
  ASSUME Inv, UNCHANGED <<quiet, shown>>, known_users' \subseteq SuperUser,
         stored' \subseteq Sid, budget' \in Int
  PROVE  Ambient
BY DEF Inv, TypeOK, AskInv, ReplyIsShown, Ambient, quiet

-----------------------------------------------------------------------------
(* Registration                                                            *)

LEMMA ExtractType ==
  ASSUME NEW v \in Uid
  PROVE  extract_super_user(v) \in SuperUser
BY DEF extract_super_user, is_session_id_format, Uid, Sid

LEMMA handle_new_connectionInv ==
  ASSUME Inv, NEW c \in Client, handle_new_connection(c)
  PROVE  Inv'
<1>1. ClientTables /\ Local(c) /\ thr[c].conn = "register"
  BY DEF Inv, TypeOK, handle_new_connection
<1>2. PICK w \in Wish[c] :
        LET taken == sessions[w.user_id] # None IN
        /\ ensure_known_user(extract_super_user(w.user_id))
        /\ thr' = [thr EXCEPT
             ![c].conn = IF taken THEN "refused" ELSE IF w.force_new THEN "new" ELSE "resolve",
             ![c].sid = IF taken THEN None ELSE w.user_id]
        /\ sess' = [sess EXCEPT ![c].super_user = extract_super_user(w.user_id)]
  BY DEF handle_new_connection
<1> DEFINE taken == sessions[w.user_id] # None
<1> DEFINE conn == IF taken THEN "refused" ELSE IF w.force_new THEN "new" ELSE "resolve"
<1> DEFINE sid == IF taken THEN None ELSE w.user_id
<1>3. w.user_id \in Uid /\ extract_super_user(w.user_id) \in SuperUser
  BY ChatHandlerAssumption, ExtractType
<1>4. conn \in ConnPc /\ sid \in Uid \cup {None} /\ conn \notin {"list", "done"}
  BY <1>3 DEF ConnPc
<1>5. thr' = [thr EXCEPT ![c].conn = conn, ![c].sid = sid]
  BY <1>2
<1> HIDE DEF conn, sid
<1>6. ThreadsMove(c, conn, thr[c].reader, thr[c].worker, sid)
  BY <1>1, <1>4, <1>5, ConnSidMoves
<1>7. SessionMove(c, sess[c].user_id)
  BY <1>1, <1>2, <1>3, SuperUserMoves
<1>8. Fits(conn, thr[c].reader, thr[c].worker, sid, sess[c].user_id)
  BY <1>1, <1>4 DEF Local, Fits
<1>9. Listing(c, conn, thr[c].reader, sess[c].user_id)
  BY <1>1 DEF handle_new_connection, Inv, TypeOK, Local, Listing
<1>10. Ambient
  <2>1. known_users' \subseteq SuperUser
    BY <1>2, <1>3 DEF ensure_known_user, Inv, TypeOK
  <2>2. QED BY <2>1, AmbientKept DEF handle_new_connection, Inv, TypeOK
<1>11. QED BY <1>6, <1>7, <1>8, <1>9, <1>10, ConnectionStep

LEMMA ControlType ==
  ASSUME NEW u, NEW action, NEW sid \in send_session_control(u, action)
  PROVE  sid \in Sid \cup {None}
BY DEF send_session_control

LEMMA ResolveSessionInv ==
  ASSUME Inv, NEW c \in Client, ResolveSession(c)
  PROVE  Inv'
<1>1. ClientTables /\ Local(c) /\ thr[c].conn \in {"new", "resolve"}
  BY DEF Inv, TypeOK, ResolveSession
<1>2. PICK uid \in Sid \cup {None} :
        /\ thr' = [thr EXCEPT ![c].sid = None,
                              ![c].conn = IF uid = None THEN "refused" ELSE "list"]
        /\ sess' = [sess EXCEPT ![c].user_id = uid]
        /\ stored' = stored \cup ({uid} \ {None})
  BY ControlType DEF ResolveSession, is_session_id_format
<1> DEFINE conn == IF uid = None THEN "refused" ELSE "list"
<1>3. conn \in ConnPc /\ uid \in Uid \cup {None} /\ conn # "done" /\ (conn = "list" => uid \in Uid)
  BY DEF ConnPc, Uid
<1>4. thr' = [thr EXCEPT ![c].sid = None, ![c].conn = conn]
  BY <1>2
<1> HIDE DEF conn
<1>5. ThreadsMove(c, conn, thr[c].reader, thr[c].worker, None)
  BY <1>1, <1>3, <1>4, SidConnMoves
<1>6. SessionMove(c, uid)
  BY <1>1, <1>2, <1>3, UserIdMoves
<1>7. Fits(conn, thr[c].reader, thr[c].worker, None, uid)
  BY <1>1, <1>3 DEF Local, Fits
<1>8. Listing(c, conn, thr[c].reader, uid)
  BY <1>1 DEF ResolveSession, Inv, TypeOK, Local, Listing
<1>9. Ambient
  BY <1>2, AmbientKept DEF ResolveSession, Inv, TypeOK
<1>10. QED BY <1>5, <1>6, <1>7, <1>8, <1>9, ConnectionStep

LEMMA ListSessionInv ==
  ASSUME Inv, NEW c \in Client, ListSession(c)
  PROVE  Inv'
<1>1. /\ ClientTables /\ Local(c) /\ thr[c].conn = "list" /\ sess[c].user_id \in Uid
      /\ sessions \in [Uid -> Client \cup {None}] /\ late \subseteq Client
  BY DEF Inv, TypeOK, ListSession, Local
<1>2. SessionMove(c, sess[c].user_id)
  BY <1>1, SameSession DEF ListSession
<1>3. Ambient
  BY AmbientKept DEF ListSession, Inv, TypeOK
<1>4. CASE /\ sessions' = [sessions EXCEPT ![sess[c].user_id] = c]
           /\ thr' = [thr EXCEPT ![c].conn = "done", ![c].reader = "read", ![c].worker = "test"]
  <2>1. "done" \in ConnPc /\ "read" \in ReaderPc /\ "test" \in WorkerPc
    BY DEF ConnPc, ReaderPc, WorkerPc
  <2>2. ThreadsMove(c, "done", "read", "test", thr[c].sid)
    BY <1>1, <1>4, <2>1, StartMoves
  <2>3. Fits("done", "read", "test", thr[c].sid, sess[c].user_id)
    BY <1>1 DEF Fits
  <2>4. Listing(c, "done", "read", sess[c].user_id)
    BY <1>1, <1>4 DEF ListSession, Local, Listing
  <2>5. QED BY <1>2, <1>3, <2>2, <2>3, <2>4, ConnectionStep
<1>5. CASE thr' = [thr EXCEPT ![c].conn = "refused"] /\ UNCHANGED sessions
  <2>1. "refused" \in ConnPc
    BY DEF ConnPc
  <2>2. ThreadsMove(c, "refused", thr[c].reader, thr[c].worker, thr[c].sid)
    BY <1>1, <1>5, <2>1, ConnMoves
  <2>3. Fits("refused", thr[c].reader, thr[c].worker, thr[c].sid, sess[c].user_id)
    BY <1>1 DEF Local, Fits
  <2>4. Listing(c, "refused", thr[c].reader, sess[c].user_id)
    BY <1>1, <1>5 DEF ListSession, Local, Listing
  <2>5. QED BY <1>2, <1>3, <2>2, <2>3, <2>4, ConnectionStep
<1>6. QED BY <1>4, <1>5 DEF ListSession

-----------------------------------------------------------------------------
(* The reader                                                              *)

\* The old entry of a connection goes, so that it has the new one only.
LEMMA MoveLists ==
  ASSUME Inv, NEW c \in Client, NEW sid \in Uid, Move(c, sid), thr[c].conn = "done"
  PROVE  SessionMove(c, sid) /\ Listing(c, "done", thr[c].reader, sid)
<1>1. /\ ClientTables /\ Local(c) /\ sess[c].user_id \in Uid
      /\ sessions \in [Uid -> Client \cup {None}] /\ late \subseteq Client
  BY DEF Inv, TypeOK, Local
<1>2. SessionMove(c, sid)
  BY <1>1, UserIdMoves DEF Move
<1>3. /\ late \subseteq late' /\ late' \subseteq Client
      /\ thr[c].reader = "done" => c \in late'
  BY <1>1 DEF Move
<1>4. sessions' \in [Uid -> Client \cup {None}]
  BY <1>1 DEF Move, Moved
<1>5. \A k \in Uid : /\ sessions'[k] \in {sessions[k], None, c}
                     /\ sessions'[k] = c => k = sid
  <2>1. \A k \in Uid : sessions'[k] = IF k = sid THEN c
                                      ELSE IF k = sess[c].user_id THEN None ELSE sessions[k]
    BY <1>1 DEF Move, Moved
  <2>2. \A k \in Uid : sessions[k] = c => k = sess[c].user_id
    BY <1>1 DEF Local
  <2>3. c # None
    BY ChatHandlerAssumption
  <2>4. QED BY <2>1, <2>2, <2>3
<1>6. QED BY <1>2, <1>3, <1>4, <1>5 DEF Listing

\* What the reader passes on is a job.
LEMMA JobType ==
  ASSUME NEW c \in Client, NEW j \in Job[c], j.type # "switch"
  PROVE  j \in Queued
BY ChatHandlerAssumption DEF Queued

LEMMA session_readerInv ==
  ASSUME Inv, NEW c \in Client, session_reader(c)
  PROVE  Inv'
<1>1. ClientTables /\ Local(c) /\ budget \in Int
  BY DEF Inv, TypeOK
<1>2. PICK j \in Job[c] : j.type # "switch" /\ sess' = [sess EXCEPT ![c].queue = Append(@, j)]
  BY DEF session_reader
<1>3. j \in Queued
  BY <1>2, JobType
<1>4. sess[c].queue \in Seq(Queued)
  BY <1>1 DEF ClientTables, Session
<1> DEFINE q == Append(sess[c].queue, j)
<1>5. q \in Seq(Queued)
  BY <1>3, <1>4, AppendProperties
<1>6. sess' = [sess EXCEPT ![c].queue = q]
  BY <1>2
<1> HIDE DEF q
<1>7. SessionMove(c, sess[c].user_id)
  BY <1>1, <1>5, <1>6, QueueMoves
<1>8. ThreadsMove(c, thr[c].conn, thr[c].reader, Awake(thr[c].worker), thr[c].sid)
  BY <1>1, WokenMoves DEF session_reader
<1>9. Ambient
  BY <1>1, AmbientKept DEF session_reader, Inv, TypeOK
<1>10. QED BY <1>1, <1>7, <1>8, <1>9, UnlistedStep DEF session_reader, Awake, Local

LEMMA handle_switch_sessionInv ==
  ASSUME Inv, NEW c \in Client, handle_switch_session(c)
  PROVE  Inv'
<1>1. /\ ClientTables /\ Local(c) /\ budget \in Int
      /\ thr[c].reader = "read" /\ thr[c].conn = "done"
  BY DEF Inv, TypeOK, handle_switch_session, Reading, Local
<1>2. PICK j \in Job[c] : /\ j.type = "switch"
                          /\ \/ UNCHANGED <<sessions, sess, late>>
                             \/ Move(c, j.target)
  BY DEF handle_switch_session
<1>3. j.target \in Uid
  BY <1>2, ChatHandlerAssumption
<1>4. ThreadsMove(c, thr[c].conn, thr[c].reader, thr[c].worker, thr[c].sid)
  BY <1>1, SameThreads DEF handle_switch_session
<1>5. Ambient
  BY <1>1, AmbientKept DEF handle_switch_session, Inv, TypeOK
<1>6. CASE UNCHANGED <<sessions, sess, late>>
  <2>1. SessionMove(c, sess[c].user_id)
    BY <1>1, <1>6, SameSession
  <2>2. QED BY <1>1, <1>4, <1>5, <1>6, <2>1, UnlistedStep DEF Local
<1>7. CASE Move(c, j.target)
  <2>1. SessionMove(c, j.target) /\ Listing(c, "done", thr[c].reader, j.target)
    BY <1>1, <1>3, <1>7, MoveLists
  <2>2. Fits("done", thr[c].reader, thr[c].worker, thr[c].sid, j.target)
    BY <1>1, <1>3 DEF Local, Fits
  <2>3. QED BY <1>1, <1>4, <1>5, <2>1, <2>2, ConnectionStep
<1>8. QED BY <1>2, <1>6, <1>7

\* Only the reply that finds the trace in the table is relayed.
LEMMA handle_ask_user_replyInv ==
  ASSUME Inv, NEW c \in Client, handle_ask_user_reply(c)
  PROVE  Inv'
<1>1. ClientTables /\ Local(c) /\ asked \subseteq Trace /\ answered \in [Trace -> Int] /\ AskInv
  BY DEF Inv, TypeOK
<1>2. PICK t \in Trace :
        /\ asked' = asked \ {t}
        /\ answered' = IF t \in asked THEN [answered EXCEPT ![t] = @ + 1] ELSE answered
  BY DEF handle_ask_user_reply, Unasked
<1>3. asked' \subseteq Trace /\ answered' \in [Trace -> Int]
  BY <1>1, <1>2
<1>4. AskInv'
  BY <1>1, <1>2 DEF AskInv
<1>5. Ambient
  BY <1>3, <1>4 DEF handle_ask_user_reply, Inv, TypeOK, ReplyIsShown, Ambient
<1>6. ThreadsMove(c, thr[c].conn, thr[c].reader, thr[c].worker, thr[c].sid)
      /\ SessionMove(c, sess[c].user_id)
  BY <1>1, SameThreads, SameSession DEF handle_ask_user_reply
<1>7. QED BY <1>1, <1>5, <1>6, UnlistedStep DEF handle_ask_user_reply, Local

LEMMA TeardownMarkInv ==
  ASSUME Inv, NEW c \in Client, TeardownMark(c)
  PROVE  Inv'
<1>1. ClientTables /\ Local(c) /\ thr[c].reader = "read"
  BY DEF Inv, TypeOK, TeardownMark
<1>2. SessionMove(c, sess[c].user_id)
  BY <1>1, ActiveMoves DEF TeardownMark
<1>3. ThreadsMove(c, thr[c].conn, "erase", Awake(thr[c].worker), thr[c].sid)
  BY <1>1, TeardownMoves DEF TeardownMark
<1>4. Ambient
  BY AmbientKept DEF TeardownMark, Inv, TypeOK
<1>5. /\ UNCHANGED <<sessions, late>>
      /\ thr[c].worker = "off" => Awake(thr[c].worker) = "off"
      /\ Awake(thr[c].worker) = "move" => thr[c].sid \in Uid
  BY <1>1 DEF TeardownMark, Awake, Local
<1>6. ("erase" = "done" => thr[c].reader = "done") /\ (thr[c].reader = "off" => "erase" = "off")
  BY <1>1
<1>7. QED BY <1>2, <1>3, <1>4, <1>5, <1>6, UnlistedStep

\* The entry of c goes, so c is not listed at all: an entry of c was under
\* its user id.
LEMMA EraseLists ==
  ASSUME Inv, NEW c \in Client, NEW conn, NEW reader,
         sessions' = [sessions EXCEPT ![sess[c].user_id] = None], UNCHANGED late
  PROVE  Listing(c, conn, reader, sess[c].user_id)
<1>1. /\ Local(c) /\ sessions \in [Uid -> Client \cup {None}] /\ late \subseteq Client
      /\ c # None
  BY ChatHandlerAssumption DEF Inv, TypeOK
<1>2. \A k \in Uid : sessions'[k] = IF k = sess[c].user_id THEN None ELSE sessions[k]
  BY <1>1
<1>3. \A k \in Uid : sessions'[k] \in {sessions[k], None, c} /\ sessions'[k] # c
  BY <1>1, <1>2 DEF Local
<1>4. QED BY <1>1, <1>3 DEF Listing

LEMMA TeardownEraseInv ==
  ASSUME Inv, NEW c \in Client, TeardownErase(c)
  PROVE  Inv'
<1>1. ClientTables /\ Local(c) /\ thr[c].reader = "erase" /\ "done" \in ReaderPc
  BY DEF Inv, TypeOK, TeardownErase, ReaderPc
<1>2. SessionMove(c, sess[c].user_id)
  BY <1>1, SameSession DEF TeardownErase
<1>3. ThreadsMove(c, thr[c].conn, "done", thr[c].worker, thr[c].sid)
  BY <1>1, ReaderMoves DEF TeardownErase
<1>4. Fits(thr[c].conn, "done", thr[c].worker, thr[c].sid, sess[c].user_id)
  BY <1>1 DEF Local, Fits
<1>5. Listing(c, thr[c].conn, "done", sess[c].user_id)
  BY EraseLists DEF TeardownErase
<1>6. Ambient
  BY AmbientKept DEF TeardownErase, Inv, TypeOK
<1>7. QED BY <1>2, <1>3, <1>4, <1>5, <1>6, ConnectionStep

-----------------------------------------------------------------------------
(* The worker                                                              *)

LEMMA WorkerGoes ==
  ASSUME Inv, NEW c \in Client, NEW pc \in WorkerPc \ {"move"}, WorkerStep(c, pc),
         thr[c].worker # "off", UNCHANGED <<sessions, sess, late>>, Ambient
  PROVE  Inv'
<1>1. ClientTables /\ Local(c)
  BY DEF Inv, TypeOK
<1>2. SessionMove(c, sess[c].user_id)
  BY <1>1, SameSession
<1>3. ThreadsMove(c, thr[c].conn, thr[c].reader, pc, thr[c].sid)
  BY <1>1, WorkerMoves
<1>4. QED BY <1>2, <1>3, UnlistedStep

LEMMA TestPredicateInv ==
  ASSUME Inv, NEW c \in Client, TestPredicate(c)
  PROVE  Inv'
<1>1. ClientTables /\ Local(c) /\ thr[c].worker = "test"
  BY DEF Inv, TypeOK, TestPredicate
<1>2. Ambient /\ UNCHANGED <<sessions, late>>
  BY AmbientKept DEF TestPredicate, Inv, TypeOK
<1>3. CASE Stopped(c) \/ sess[c].queue = <<>>
  <2>1. (WorkerStep(c, "done") \/ WorkerStep(c, "dozing")) /\ UNCHANGED sess
    BY <1>3 DEF TestPredicate
  <2>2. {"done", "dozing"} \subseteq WorkerPc \ {"move"}
    BY DEF WorkerPc
  <2>3. QED BY <1>1, <1>2, <2>1, <2>2, WorkerGoes
<1>4. CASE ~Stopped(c) /\ sess[c].queue # <<>>
  <2> DEFINE j == Head(sess[c].queue)
  <2> DEFINE q == Tail(sess[c].queue)
  <2> DEFINE pc == IF j.type \in Turns THEN "turn" ELSE j.type
  <2>1. sess[c].queue \in Seq(Queued)
    BY <1>1 DEF ClientTables, Session
  <2>2. j \in Queued /\ q \in Seq(Queued)
    BY <1>4, <2>1, HeadTailProperties
  <2>3. thr' = [thr EXCEPT ![c].sid = j.target, ![c].worker = pc]
        /\ sess' = [sess EXCEPT ![c].queue = q]
    BY <1>4 DEF TestPredicate
  <2> HIDE DEF j, q
  <2>4. j.target \in Uid \cup {None} /\ pc \in WorkerPc /\ pc # "move"
    BY <2>2 DEF Queued, WorkerPc, Commands
  <2> HIDE DEF pc
  <2>5. ThreadsMove(c, thr[c].conn, thr[c].reader, pc, j.target)
    BY <1>1, <2>3, <2>4, WorkerSidMoves
  <2>6. SessionMove(c, sess[c].user_id)
    BY <1>1, <2>2, <2>3, QueueMoves
  <2>7. (thr[c].worker = "off" => pc = "off") /\ (pc = "move" => j.target \in Uid)
    BY <1>1, <2>4
  <2>8. QED BY <1>2, <2>5, <2>6, <2>7, UnlistedStep
<1>5. QED BY <1>3, <1>4

LEMMA FallAsleepInv ==
  ASSUME Inv, NEW c \in Client, FallAsleep(c)
  PROVE  Inv'
<1>1. /\ thr[c].worker = "dozing" /\ WorkerStep(c, "asleep") /\ UNCHANGED <<sessions, sess, late>>
      /\ Ambient
  BY AmbientKept DEF FallAsleep, Inv, TypeOK
<1>2. "asleep" \in WorkerPc \ {"move"}
  BY DEF WorkerPc
<1>3. QED BY <1>1, <1>2, WorkerGoes

LEMMA process_requestInv ==
  ASSUME Inv, NEW c \in Client, process_request(c)
  PROVE  Inv'
<1>1. PICK s \in Text, r \in Text :
        shown' = [streamed |-> s, reply |-> r, seen |-> flush_reply(s, r)]
  BY DEF process_request
<1>2. shown'.streamed = s /\ shown'.reply = r /\ shown'.seen = flush_reply(s, r)
  BY <1>1
<1>3. ReplyIsShown'
  BY <1>2, FlushShows DEF ReplyIsShown
<1>4. /\ thr[c].worker = "turn" /\ WorkerStep(c, "end") /\ UNCHANGED <<sessions, sess, late>>
      /\ Ambient
  BY <1>3 DEF process_request, quiet, Inv, TypeOK, AskInv, Ambient
<1>5. "end" \in WorkerPc \ {"move"}
  BY DEF WorkerPc
<1>6. QED BY <1>4, <1>5, WorkerGoes

LEMMA EndTurnInv ==
  ASSUME Inv, NEW c \in Client, EndTurn(c)
  PROVE  Inv'
<1>1. ClientTables /\ Local(c) /\ thr[c].worker = "end" /\ UNCHANGED <<sessions, sess, late>>
  BY DEF Inv, TypeOK, EndTurn
<1>2. Ambient
  <2>1. ReplyIsShown'
    BY DEF EndTurn, ReplyIsShown
  <2>2. QED BY <2>1 DEF EndTurn, quiet, Inv, TypeOK, AskInv, Ambient
<1> DEFINE pc == IF Stopped(c) THEN "done" ELSE "test"
<1>3. pc \in WorkerPc /\ pc # "move" /\ None \in Uid \cup {None}
  BY DEF WorkerPc
<1>4. thr' = [thr EXCEPT ![c].worker = pc, ![c].sid = None]
  BY DEF EndTurn
<1> HIDE DEF pc
<1>5. ThreadsMove(c, thr[c].conn, thr[c].reader, pc, None)
  BY <1>1, <1>3, <1>4, WorkerEndMoves
<1>6. SessionMove(c, sess[c].user_id)
  BY <1>1, SameSession
<1>7. QED BY <1>1, <1>2, <1>3, <1>5, <1>6, UnlistedStep

LEMMA QueryInv ==
  ASSUME Inv, NEW c \in Client, Query(c)
  PROVE  Inv'
<1>1. /\ thr[c].worker = "query" /\ WorkerStep(c, "end") /\ UNCHANGED <<sessions, sess, late>>
      /\ Ambient
  BY AmbientKept DEF Query, Inv, TypeOK
<1>2. "end" \in WorkerPc \ {"move"}
  BY DEF WorkerPc
<1>3. QED BY <1>1, <1>2, WorkerGoes

LEMMA CommandResolveInv ==
  ASSUME Inv, NEW c \in Client, CommandResolve(c)
  PROVE  Inv'
<1>1. ClientTables /\ Local(c) /\ thr[c].worker # "off" /\ UNCHANGED <<sessions, sess, late>>
  BY DEF Inv, TypeOK, CommandResolve
<1>2. PICK sid \in Sid \cup {None} :
        /\ stored' = stored \cup ({sid} \ {None})
        /\ thr' = [thr EXCEPT ![c].sid = sid,
                              ![c].worker = IF sid = None THEN "end" ELSE "move"]
  BY ControlType DEF CommandResolve
<1>3. Ambient
  BY <1>2, AmbientKept DEF CommandResolve, Inv, TypeOK
<1> DEFINE pc == IF sid = None THEN "end" ELSE "move"
<1>4. pc \in WorkerPc /\ sid \in Uid \cup {None} /\ (pc = "move" => sid \in Uid) /\ pc # "off"
  BY DEF WorkerPc, Uid
<1>5. thr' = [thr EXCEPT ![c].sid = sid, ![c].worker = pc]
  BY <1>2
<1> HIDE DEF pc
<1>6. ThreadsMove(c, thr[c].conn, thr[c].reader, pc, sid)
  BY <1>1, <1>4, <1>5, WorkerSidMoves
<1>7. SessionMove(c, sess[c].user_id)
  BY <1>1, SameSession
<1>8. QED BY <1>1, <1>3, <1>4, <1>6, <1>7, UnlistedStep

LEMMA CommandMoveInv ==
  ASSUME Inv, NEW c \in Client, CommandMove(c)
  PROVE  Inv'
<1>1. /\ ClientTables /\ Local(c) /\ thr[c].worker = "move" /\ thr[c].conn = "done"
      /\ thr[c].sid \in Uid /\ Move(c, thr[c].sid) /\ WorkerStep(c, "end")
  BY DEF Inv, TypeOK, CommandMove, Local
<1>2. Ambient
  BY AmbientKept DEF CommandMove, Inv, TypeOK
<1>3. "end" \in WorkerPc
  BY DEF WorkerPc
<1>4. ThreadsMove(c, "done", thr[c].reader, "end", thr[c].sid)
  BY <1>1, <1>3, WorkerMoves
<1>5. SessionMove(c, thr[c].sid) /\ Listing(c, "done", thr[c].reader, thr[c].sid)
  BY <1>1, MoveLists
<1>6. Fits("done", thr[c].reader, "end", thr[c].sid, thr[c].sid)
  BY <1>1 DEF Fits
<1>7. QED BY <1>2, <1>4, <1>5, <1>6, ConnectionStep

LEMMA DeleteInv ==
  ASSUME Inv, NEW c \in Client, DeleteCheck(c) \/ DeleteCall(c)
  PROVE  Inv'
<1>1. thr[c].worker # "off" /\ UNCHANGED <<quiet, shown, known_users, budget, sessions, sess, late>>
  BY DEF DeleteCheck, DeleteCall
<1>2. PICK pc \in {"delete_call", "fallback", "end"} : WorkerStep(c, pc)
  BY DEF DeleteCheck, DeleteCall
<1>3. stored' \subseteq Sid
  BY DEF DeleteCheck, DeleteCall, Inv, TypeOK
<1>4. Ambient
  BY <1>1, <1>3, AmbientKept DEF Inv, TypeOK
<1>5. pc \in WorkerPc \ {"move"}
  BY DEF WorkerPc
<1>6. QED BY <1>1, <1>2, <1>4, <1>5, WorkerGoes

LEMMA DestroyInv ==
  ASSUME Inv, NEW c \in Client, DestroyCheck(c) \/ DestroyCall(c)
  PROVE  Inv'
<1>1. thr[c].worker # "off" /\ UNCHANGED <<quiet, shown, known_users, budget, sessions, sess, late>>
  BY DEF DestroyCheck, DestroyCall
<1>2. PICK pc \in {"destroy_call", "disconnect", "end"} : WorkerStep(c, pc)
  BY DEF DestroyCheck, DestroyCall
<1>3. stored' \subseteq Sid
  BY DEF DestroyCheck, DestroyCall, Inv, TypeOK
<1>4. Ambient
  BY <1>1, <1>3, AmbientKept DEF Inv, TypeOK
<1>5. pc \in WorkerPc \ {"move"}
  BY DEF WorkerPc
<1>6. QED BY <1>1, <1>2, <1>4, <1>5, WorkerGoes

LEMMA DisconnectInv ==
  ASSUME Inv, NEW c \in Client, Disconnect(c)
  PROVE  Inv'
<1>1. ClientTables /\ Local(c) /\ thr[c].worker = "disconnect" /\ "deactivate" \in WorkerPc
  BY DEF Inv, TypeOK, Disconnect, WorkerPc
<1>2. SessionMove(c, sess[c].user_id)
  BY <1>1, SameSession DEF Disconnect
<1>3. ThreadsMove(c, thr[c].conn, thr[c].reader, "deactivate", thr[c].sid)
  BY <1>1, WorkerMoves DEF Disconnect
<1>4. Fits(thr[c].conn, thr[c].reader, "deactivate", thr[c].sid, sess[c].user_id)
  BY <1>1 DEF Local, Fits
<1>5. Listing(c, thr[c].conn, thr[c].reader, sess[c].user_id)
  BY EraseLists DEF Disconnect
<1>6. Ambient
  BY AmbientKept DEF Disconnect, Inv, TypeOK
<1>7. QED BY <1>2, <1>3, <1>4, <1>5, <1>6, ConnectionStep

LEMMA DeactivateInv ==
  ASSUME Inv, NEW c \in Client, Deactivate(c)
  PROVE  Inv'
<1>1. ClientTables /\ Local(c) /\ thr[c].worker = "deactivate" /\ "end" \in WorkerPc
  BY DEF Inv, TypeOK, Deactivate, WorkerPc
<1>2. SessionMove(c, sess[c].user_id)
  BY <1>1, ActiveMoves DEF Deactivate
<1>3. ThreadsMove(c, thr[c].conn, thr[c].reader, "end", thr[c].sid)
  BY <1>1, WorkerMoves DEF Deactivate
<1>4. Ambient
  BY AmbientKept DEF Deactivate, Inv, TypeOK
<1>5. QED BY <1>1, <1>2, <1>3, <1>4, UnlistedStep DEF Deactivate, Local

-----------------------------------------------------------------------------
(* The bus listener                                                        *)

LEMMA InjectInv ==
  ASSUME Inv, NEW c \in Client, inject_to_session(c)
  PROVE  Inv'
<1>1. ClientTables /\ Local(c) /\ bus \in [job : Purpose, todo : SUBSET Client]
  BY DEF Inv, TypeOK
<1> DEFINE j == [type |-> bus.job, target |-> None]
<1> DEFINE q == Append(sess[c].queue, j)
<1>2. j \in Queued
  BY DEF inject_to_session, Queued
<1>3. sess[c].queue \in Seq(Queued)
  BY <1>1 DEF ClientTables, Session
<1>4. sess' = [sess EXCEPT ![c].queue = q]
  BY DEF inject_to_session
<1> HIDE DEF j
<1>5. q \in Seq(Queued)
  BY <1>2, <1>3, AppendProperties
<1> HIDE DEF q
<1>6. SessionMove(c, sess[c].user_id)
  BY <1>1, <1>4, <1>5, QueueMoves
<1>7. ThreadsMove(c, thr[c].conn, thr[c].reader, Awake(thr[c].worker), thr[c].sid)
  BY <1>1, WokenMoves DEF inject_to_session
<1>8. Ambient
  <2>1. bus' \in [job : Purpose, todo : SUBSET Client]
    BY <1>1 DEF inject_to_session
  <2>2. QED BY <2>1 DEF inject_to_session, Inv, TypeOK, AskInv, ReplyIsShown, Ambient
<1>9. QED BY <1>1, <1>6, <1>7, <1>8, UnlistedStep DEF inject_to_session, Awake, Local

LEMMA SendInv ==
  ASSUME Inv, NEW c \in Client, send_to_session(c)
  PROVE  Inv'
<1>1. ClientTables /\ Local(c) /\ bus \in [job : Purpose, todo : SUBSET Client]
  BY DEF Inv, TypeOK
<1>2. bus' \in [job : Purpose, todo : SUBSET Client]
  BY <1>1 DEF send_to_session
<1>3. Ambient
  BY <1>2 DEF send_to_session, Inv, TypeOK, AskInv, ReplyIsShown, Ambient
<1>4. /\ ThreadsMove(c, thr[c].conn, thr[c].reader, thr[c].worker, thr[c].sid)
      /\ SessionMove(c, sess[c].user_id)
  BY <1>1, SameThreads, SameSession DEF send_to_session
<1>5. QED BY <1>1, <1>3, <1>4, UnlistedStep DEF send_to_session, Local

\* A request enters its trace and owes an answer.
LEMMA on_bus_eventInv ==
  ASSUME Inv, on_bus_event
  PROVE  Inv'
<1>1. /\ sessions \in [Uid -> Client \cup {None}] /\ budget \in Int
      /\ asked \subseteq Trace /\ answered \in [Trace -> Int] /\ AskInv
  BY DEF Inv, TypeOK
<1>2. PICK e \in BusEvent :
        /\ bus' = [job |-> e.purpose, todo |-> Recipients(e)]
        /\ IF e.purpose # AskPurpose THEN UNCHANGED <<asked, answered>>
           ELSE /\ asked' = asked \cup {e.trace}
                /\ answered' = [answered EXCEPT ![e.trace] = @ - 1]
  BY DEF on_bus_event
<1>3. e.uid \in Uid \cup {None} /\ (e.purpose = AskPurpose => e.trace \in Trace)
  BY ChatHandlerAssumption
<1>4. asked' \subseteq Trace /\ answered' \in [Trace -> Int] /\ AskInv'
  <2>1. CASE e.purpose # AskPurpose
    BY <1>1, <1>2, <2>1 DEF AskInv
  <2>2. CASE e.purpose = AskPurpose
    BY <1>1, <1>2, <1>3, <2>2 DEF AskInv
  <2>3. QED BY <2>1, <2>2
<1>5. bus' \in [job : Purpose, todo : SUBSET Client]
  <2>1. Listed \subseteq Client
    BY <1>1 DEF Listed
  <2>2. e.uid # None => Holder(e.uid) \subseteq Client
    BY <1>1, <1>3 DEF Holder
  <2>3. e.purpose \in Purpose
    BY DEF Purpose
  <2>4. QED BY <1>2, <2>1, <2>2, <2>3 DEF Recipients
<1>6. UNCHANGED <<is_running, sessions, known_users, sess, thr, stored, shown, late>> /\ budget' \in Int
  BY <1>1 DEF on_bus_event
<1>7. TypeOK'
  BY <1>4, <1>5, <1>6 DEF Inv, TypeOK, ClientTables
<1>8. (\A c \in Client : Local(c)') /\ ReplyIsShown'
  BY <1>6 DEF Inv, Local, ReplyIsShown
<1>9. QED BY <1>4, <1>7, <1>8 DEF Inv

LEMMA on_shutdownInv ==
  ASSUME Inv, on_shutdown
  PROVE  Inv'
<1>1. ClientTables
  BY DEF Inv, TypeOK
<1>2. ASSUME NEW c \in Client
      PROVE  /\ sess'[c] \in Session /\ sess'[c].user_id = sess[c].user_id
             /\ thr'[c] \in Threads
             /\ thr'[c].conn = thr[c].conn /\ thr'[c].reader = thr[c].reader
             /\ thr'[c].worker \in {thr[c].worker, Awake(thr[c].worker)} /\ thr'[c].sid = thr[c].sid
  <2> DEFINE s == [sess[c] EXCEPT !.active = FALSE]
  <2> DEFINE t == Woken(thr[c])
  <2>1. sess[c] \in Session /\ thr[c] \in Threads /\ "test" \in WorkerPc
    BY <1>1, <1>2 DEF ClientTables, WorkerPc
  <2>2. s \in Session /\ s.user_id = sess[c].user_id
    BY <2>1 DEF Session
  <2>3. /\ t \in Threads /\ t.conn = thr[c].conn /\ t.reader = thr[c].reader
        /\ t.worker = Awake(thr[c].worker) /\ t.sid = thr[c].sid
    BY <2>1 DEF Threads, Woken, Awake
  <2>4. sess'[c] \in {sess[c], s} /\ thr'[c] \in {thr[c], t}
    BY <1>2 DEF on_shutdown
  <2> HIDE DEF s, t
  <2>5. QED BY <2>1, <2>2, <2>3, <2>4
<1>3. ClientTables'
  <2>1. sess' = [c \in Client |-> sess'[c]] /\ thr' = [c \in Client |-> thr'[c]]
    BY DEF on_shutdown
  <2>2. QED BY <1>2, <2>1 DEF ClientTables
<1>4. /\ UNCHANGED <<sessions, known_users, asked, bus, stored, budget, answered, shown, late>>
      /\ is_running' \in BOOLEAN
  BY DEF on_shutdown
<1>5. TypeOK' /\ AskInv' /\ ReplyIsShown'
  BY <1>3, <1>4 DEF Inv, TypeOK, AskInv, ReplyIsShown
<1>6. ASSUME NEW c \in Client
      PROVE  Local(c)'
  <2>1. Local(c)
    BY DEF Inv
  <2>2. QED BY <1>2, <1>4, <2>1 DEF Local, Awake
<1>7. QED BY <1>5, <1>6 DEF Inv

-----------------------------------------------------------------------------
(* The theorems                                                            *)

LEMMA InitInv == Init => Inv
<1> SUFFICES ASSUME Init PROVE Inv
  OBVIOUS
<1>1. <<>> \in Seq(Queued)
  BY EmptySeq
<1>2. ClientTables
  BY <1>1 DEF Init, ClientTables, Session, Threads, ConnPc, ReaderPc, WorkerPc
<1>3. TypeOK
  BY <1>2, ChatHandlerAssumption DEF Init, TypeOK, Purpose
<1>4. \A c \in Client : Local(c)
  BY ChatHandlerAssumption DEF Init, Local
<1>5. AskInv /\ ReplyIsShown
  BY DEF Init, AskInv, ReplyIsShown
<1>6. QED BY <1>3, <1>4, <1>5 DEF Inv

LEMMA NextInv == Inv /\ [Next]_vars => Inv'
<1> SUFFICES ASSUME Inv, [Next]_vars PROVE Inv'
  OBVIOUS
<1>1. CASE UNCHANGED vars
  BY <1>1 DEF vars, Inv, TypeOK, ClientTables, Local, AskInv, ReplyIsShown
<1>2. ASSUME NEW c \in Client, Connection(c) PROVE Inv'
  BY <1>2, handle_new_connectionInv, ResolveSessionInv, ListSessionInv DEF Connection
<1>3. ASSUME NEW c \in Client, Reader(c) PROVE Inv'
  BY <1>3, session_readerInv, handle_switch_sessionInv, handle_ask_user_replyInv, TeardownMarkInv,
     TeardownEraseInv DEF Reader
<1>4. ASSUME NEW c \in Client, Worker(c) PROVE Inv'
  BY <1>4, TestPredicateInv, FallAsleepInv, process_requestInv, EndTurnInv, QueryInv,
     CommandResolveInv, CommandMoveInv, DeleteInv, DestroyInv, DisconnectInv,
     DeactivateInv DEF Worker
<1>5. ASSUME NEW c \in Client, Bus(c) PROVE Inv'
  BY <1>5, InjectInv, SendInv DEF Bus
<1>6. QED
  BY <1>1, <1>2, <1>3, <1>4, <1>5, on_bus_eventInv, on_shutdownInv DEF Next

LEMMA Invariance == Spec => []Inv
BY InitInv, NextInv, PTL DEF Spec

\* sessions_ never leads to a connection that is in another session, whatever
\* two connections of a user, their workers and the bus do meanwhile.
THEOREM TableIsTrue == Spec => []ListedUnderItsName
<1>1. Inv => ListedUnderItsName
  BY DEF Inv, TypeOK, Local, ListedUnderItsName
<1>2. QED BY <1>1, Invariance, PTL

\* A connection that was torn down blocks no session id, unless its own worker
\* listed it again (teardown_session, handle_new_connection).
THEOREM TornDownIsUnlisted == Spec => []DeadIsUnlisted
<1>1. Inv => DeadIsUnlisted
  BY DEF Inv, TypeOK, Local, DeadIsUnlisted, Listed
<1>2. QED BY <1>1, Invariance, PTL

\* A request of a tool gets at most one reply (handle_ask_user_reply).
THEOREM OneReplyPerAsk == Spec => []AskAnsweredOnce
<1>1. Inv => AskAnsweredOnce
  BY DEF Inv, AskInv, AskAnsweredOnce
<1>2. QED BY <1>1, Invariance, PTL

\* For texts of any length, the client has seen the reply last, after all that
\* was streamed, and only once when the stream was its beginning (flush_reply).
THEOREM WholeReply == Spec => []ReplyIsShown
<1>1. Inv => ReplyIsShown
  BY DEF Inv
<1>2. QED BY <1>1, Invariance, PTL
=============================================================================
