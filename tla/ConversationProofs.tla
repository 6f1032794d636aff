-------------------------- MODULE ConversationProofs --------------------------
(***************************************************************************)
(* Proofs about Conversation for every set of users, processes, requests   *)
(* and commands, both storage providers and every limit: the cache of      *)
(* conversations agrees with storage, and a conversation is queued for     *)
(* compaction once.                                                        *)
(***************************************************************************)
EXTENDS Conversation, TLAPS, SequenceTheorems

\* The store, the cache and the threads have their fields, whatever messages
\* are in them.
StoreOK(s) ==
  /\ s = [rows |-> s.rows, entry |-> s.entry, users |-> s.users, dirs |-> s.dirs, snaps |-> s.snaps]
  /\ s.rows = [c \in Convo |-> s.rows[c]]
CacheOK == cache = [c \in Convo |-> cache[c]]
ReqOK ==
  /\ req = [r \in Request |-> req[r]]
  /\ \A r \in Request : /\ req[r] = [pc |-> req[r].pc, convo |-> req[r].convo, copy |-> req[r].copy]
                        /\ req[r].convo \in Convo \cup {None}
ThreadOK ==
  /\ th = [t \in Thread |-> th[t]]
  /\ \A t \in Thread : th[t] = [pc |-> th[t].pc, convo |-> th[t].convo, copy |-> th[t].copy,
                                todo |-> th[t].todo]

QueueInv == queue \in Seq(Convo \cup {None})

\* A delete that is in SessionIO is about its own session.
DeleteInv == \A t \in Command : th[t].pc = "delete_io" => th[t].convo = <<t.user, t.n>>

Inv ==
  /\ load \in DOMAIN Load
  /\ StoreOK(st) /\ CacheOK /\ ReqOK /\ ThreadOK
  /\ QueueInv /\ QueuedOnce /\ DeleteInv /\ CacheIsFresh

----------------------------------------------------------------------------
(* The storage providers                                                   *)

LEMMA UpsertIs ==
  ASSUME NEW s, StoreOK(s), NEW c, NEW row
  PROVE  /\ StoreOK(Upsert(s, c, row))
         /\ \A d \in Convo : Upsert(s, c, row).rows[d] = IF d = c THEN row ELSE s.rows[d]
<1> DEFINE R == [s.rows EXCEPT ![c] = row]
           D == IF backend = "json" THEN s.dirs \cup {c} ELSE s.dirs
           n == [rows |-> R, entry |-> s.entry, users |-> s.users, dirs |-> D, snaps |-> s.snaps]
<1>1. Upsert(s, c, row) = n
  BY DEF Upsert, json_upsert_conversation, sqlite_upsert_conversation, StoreOK
<1>2. R = [d \in Convo |-> R[d]] /\ \A d \in Convo : R[d] = IF d = c THEN row ELSE s.rows[d]
  BY DEF StoreOK
<1> HIDE DEF R, D
<1>3. n.rows = R
  OBVIOUS
<1> QED BY <1>1, <1>2, <1>3 DEF StoreOK

\* A call that leaves the rows alone.
RowsKept(s, n) == StoreOK(n) /\ n.rows = s.rows

LEMMA IndexedIs ==
  ASSUME NEW s, StoreOK(s), NEW c
  PROVE  RowsKept(s, Indexed(s, c))
<1> DEFINE U == s.users \cup {extract_super_user(c)}
           E == s.entry \cup {c}
           n == [rows |-> s.rows, entry |-> E, users |-> U, dirs |-> s.dirs, snaps |-> s.snaps]
<1>1. Indexed(s, c) = n
  BY DEF Indexed, json_upsert_session_index_entry, sqlite_upsert_session_index_entry, StoreOK
<1> HIDE DEF U, E
<1> QED BY <1>1 DEF RowsKept, StoreOK

LEMMA DirsIs ==
  ASSUME NEW s, StoreOK(s), NEW D
  PROVE  RowsKept(s, [s EXCEPT !.dirs = D])
<1> DEFINE n == [rows |-> s.rows, entry |-> s.entry, users |-> s.users, dirs |-> D, snaps |-> s.snaps]
<1>1. [s EXCEPT !.dirs = D] = n
  BY DEF StoreOK
<1> QED BY <1>1 DEF RowsKept, StoreOK

LEMMA UsersIs ==
  ASSUME NEW s, StoreOK(s), NEW U
  PROVE  RowsKept(s, [s EXCEPT !.users = U])
<1> DEFINE n == [rows |-> s.rows, entry |-> s.entry, users |-> U, dirs |-> s.dirs, snaps |-> s.snaps]
<1>1. [s EXCEPT !.users = U] = n
  BY DEF StoreOK
<1> QED BY <1>1 DEF RowsKept, StoreOK

LEMMA EntryIs ==
  ASSUME NEW s, StoreOK(s), NEW E
  PROVE  RowsKept(s, [s EXCEPT !.entry = E])
<1> DEFINE n == [rows |-> s.rows, entry |-> E, users |-> s.users, dirs |-> s.dirs, snaps |-> s.snaps]
<1>1. [s EXCEPT !.entry = E] = n
  BY DEF StoreOK
<1> QED BY <1>1 DEF RowsKept, StoreOK

LEMMA SnapsIs ==
  ASSUME NEW s, StoreOK(s), NEW S
  PROVE  RowsKept(s, [s EXCEPT !.snaps = S])
<1> DEFINE n == [rows |-> s.rows, entry |-> s.entry, users |-> s.users, dirs |-> s.dirs, snaps |-> S]
<1>1. [s EXCEPT !.snaps = S] = n
  BY DEF StoreOK
<1> QED BY <1>1 DEF RowsKept, StoreOK

\* Several fields at once are several fields one after the other.
LEMMA StoreExcept ==
  ASSUME NEW w, StoreOK(w), NEW U, NEW E, NEW F, NEW S
  PROVE  /\ RowsKept(w, [w EXCEPT !.users = U, !.entry = E, !.dirs = F, !.snaps = S])
         /\ RowsKept(w, [w EXCEPT !.users = U, !.entry = E, !.snaps = S])
         /\ RowsKept(w, [w EXCEPT !.snaps = S, !.dirs = F])
<1> DEFINE w1 == [w EXCEPT !.users = U]
           w2 == [w1 EXCEPT !.entry = E]
           w3 == [w2 EXCEPT !.dirs = F]
           v1 == [w EXCEPT !.snaps = S]
<1>1. RowsKept(w, w1) /\ StoreOK(w1) /\ RowsKept(w, v1) /\ StoreOK(v1)
  BY UsersIs, SnapsIs DEF RowsKept
<1>2. [w EXCEPT !.users = U, !.entry = E, !.dirs = F, !.snaps = S] = [w3 EXCEPT !.snaps = S]
  OBVIOUS
<1>3. [w EXCEPT !.users = U, !.entry = E, !.snaps = S] = [w2 EXCEPT !.snaps = S]
  OBVIOUS
<1>4. [w EXCEPT !.snaps = S, !.dirs = F] = [v1 EXCEPT !.dirs = F]
  OBVIOUS
<1> HIDE DEF w1, v1
<1>5. RowsKept(w1, w2) /\ StoreOK(w2)
  BY <1>1, EntryIs DEF RowsKept
<1>6. RowsKept(v1, [v1 EXCEPT !.dirs = F])
  BY <1>1, DirsIs
<1> HIDE DEF w2
<1>7. RowsKept(w2, w3) /\ StoreOK(w3) /\ RowsKept(w2, [w2 EXCEPT !.snaps = S])
  BY <1>5, DirsIs, SnapsIs DEF RowsKept
<1> HIDE DEF w3
<1>8. RowsKept(w3, [w3 EXCEPT !.snaps = S])
  BY <1>7, SnapsIs
<1>9. /\ RowsKept(w, [w3 EXCEPT !.snaps = S])
      /\ RowsKept(w, [w2 EXCEPT !.snaps = S])
      /\ RowsKept(w, [v1 EXCEPT !.dirs = F])
  BY <1>1, <1>5, <1>6, <1>7, <1>8 DEF RowsKept
<1> QED BY <1>2, <1>3, <1>4, <1>9

LEMMA SnapshotIs ==
  ASSUME NEW s, StoreOK(s), NEW c, NEW msgs
  PROVE  /\ RowsKept(s, json_append_snapshot(s, c, msgs))
         /\ RowsKept(s, sqlite_append_snapshot(s, c, msgs))
<1> DEFINE S == [s.snaps EXCEPT ![c] = Append(s.snaps[c], msgs)]
           D == s.dirs \cup {c}
<1>1. json_append_snapshot(s, c, msgs) = [s EXCEPT !.snaps = S, !.dirs = D]
  BY DEF json_append_snapshot, StoreOK
<1>2. sqlite_append_snapshot(s, c, msgs) = [s EXCEPT !.snaps = S]
  BY DEF sqlite_append_snapshot, StoreOK
<1> HIDE DEF S, D
<1>3. RowsKept(s, [s EXCEPT !.snaps = S, !.dirs = D])
  <2>1. \A U, E : RowsKept(s, [s EXCEPT !.snaps = S, !.dirs = D])
    BY StoreExcept
  <2> QED BY <2>1
<1> QED BY <1>1, <1>2, <1>3, SnapsIs

LEMMA DeleteSnapshotsIs ==
  ASSUME NEW s, StoreOK(s), NEW c
  PROVE  /\ RowsKept(s, json_delete_snapshots(s, c))
         /\ RowsKept(s, sqlite_delete_snapshots(s, c))
<1> DEFINE S == [s.snaps EXCEPT ![c] = <<>>]
<1>1. json_delete_snapshots(s, c) = [s EXCEPT !.snaps = S]
      /\ sqlite_delete_snapshots(s, c) = [s EXCEPT !.snaps = S]
  BY DEF json_delete_snapshots, sqlite_delete_snapshots, StoreOK
<1> HIDE DEF S
<1> QED BY <1>1, SnapsIs

LEMMA WithoutIs ==
  ASSUME NEW s, StoreOK(s), NEW D
  PROVE  /\ StoreOK(Without(s, D))
         /\ \A c \in Convo : Without(s, D).rows[c] = IF c \in D THEN None ELSE s.rows[c]
<1> DEFINE R == [c \in Convo |-> IF c \in D THEN None ELSE s.rows[c]]
           n == [rows |-> R, entry |-> s.entry, users |-> s.users, dirs |-> s.dirs, snaps |-> s.snaps]
<1>1. Without(s, D) = n
  BY DEF Without, StoreOK
<1>2. R = [c \in Convo |-> R[c]]
  OBVIOUS
<1>3. \A c \in Convo : R[c] = IF c \in D THEN None ELSE s.rows[c]
  OBVIOUS
<1> HIDE DEF R
<1> QED BY <1>1, <1>2, <1>3 DEF StoreOK

\* A call that takes rows out of storage and changes no other.
RowsTaken(s, n) == StoreOK(n) /\ \A c \in Convo : n.rows[c] = s.rows[c] \/ n.rows[c] = None

LEMMA DeleteUserIs ==
  ASSUME NEW s, StoreOK(s), NEW u
  PROVE  RowsTaken(s, json_delete_super_user(s, u)) /\ RowsTaken(s, sqlite_delete_super_user(s, u))
<1>1. ASSUME NEW D, NEW U, NEW E, NEW F, NEW S
      PROVE  /\ RowsTaken(s, [Without(s, D) EXCEPT !.users = U, !.entry = E, !.dirs = F, !.snaps = S])
             /\ RowsTaken(s, [Without(s, D) EXCEPT !.users = U, !.entry = E, !.snaps = S])
  <2> DEFINE w == Without(s, D)
  <2>1. StoreOK(w) /\ \A c \in Convo : w.rows[c] = s.rows[c] \/ w.rows[c] = None
    BY WithoutIs
  <2> HIDE DEF w
  <2>2. /\ RowsKept(w, [w EXCEPT !.users = U, !.entry = E, !.dirs = F, !.snaps = S])
        /\ RowsKept(w, [w EXCEPT !.users = U, !.entry = E, !.snaps = S])
    BY <2>1, StoreExcept
  <2>3. \A n : RowsKept(w, n) => RowsTaken(s, n)
    BY <2>1 DEF RowsTaken, RowsKept
  <2> QED BY <2>2, <2>3 DEF w
<1>2. RowsTaken(s, json_delete_super_user(s, u))
  BY <1>1 DEF json_delete_super_user
<1>3. RowsTaken(s, sqlite_delete_super_user(s, u))
  BY <1>1 DEF sqlite_delete_super_user
<1> QED BY <1>2, <1>3

LEMMA DeleteProcIs ==
  ASSUME NEW s, StoreOK(s), NEW p
  PROVE  /\ RowsTaken(s, json_delete_all_proc_convos(s, p))
         /\ RowsTaken(s, sqlite_delete_all_proc_convos(s, p))
<1>1. ASSUME NEW D, NEW F
      PROVE  RowsTaken(s, [Without(s, D) EXCEPT !.dirs = F]) /\ RowsTaken(s, Without(s, D))
  <2> DEFINE w == Without(s, D)
  <2>1. StoreOK(w) /\ \A c \in Convo : w.rows[c] = s.rows[c] \/ w.rows[c] = None
    BY WithoutIs
  <2> HIDE DEF w
  <2>2. RowsKept(w, [w EXCEPT !.dirs = F])
    BY <2>1, DirsIs
  <2>3. RowsTaken(s, [w EXCEPT !.dirs = F]) /\ RowsTaken(s, w)
    BY <2>1, <2>2 DEF RowsTaken, RowsKept
  <2> QED BY <2>3 DEF w
<1>2. RowsTaken(s, json_delete_all_proc_convos(s, p))
  BY <1>1 DEF json_delete_all_proc_convos
<1>3. RowsTaken(s, sqlite_delete_all_proc_convos(s, p))
  BY <1>1 DEF sqlite_delete_all_proc_convos
<1> QED BY <1>2, <1>3

LEMMA DeleteRowIs ==
  ASSUME StoreOK(st), NEW c
  PROVE  /\ StoreOK(DeleteRow(c))
         /\ \A d \in Convo : DeleteRow(c).rows[d] = IF d = c THEN None ELSE st.rows[d]
<1>1. DeleteRow(c) = Without(st, {c})
  BY DEF DeleteRow, json_delete_conversation, sqlite_delete_conversation
<1> QED BY <1>1, WithoutIs

LEMMA LookupIs ==
  ASSUME NEW c
  PROVE  Lookup(c) = IF cache[c] # None THEN cache[c] ELSE st.rows[c]
  BY DEF Lookup, Get, json_get_conversation, sqlite_get_conversation

----------------------------------------------------------------------------
(* Threads                                                                 *)

\* A step of one thread: it alone moves, to p, and is about c.
Moves(t, p, c) ==
  /\ ThreadOK'
  /\ th'[t].pc = p /\ th'[t].convo = c
  /\ \A u \in Thread \ {t} : th'[u] = th[u]

LEMMA MovesIs ==
  ASSUME ThreadOK, UNCHANGED config, NEW t \in Thread, NEW p, NEW c, NEW x, NEW d, NEW n,
         n = [pc |-> p, convo |-> c, copy |-> x, todo |-> d], th' = [th EXCEPT ![t] = n]
  PROVE  Moves(t, p, c)
<1>1. Thread' = Thread
  BY DEF config, Thread, Command
<1>2. th' = [u \in Thread |-> IF u = t THEN n ELSE th[u]]
  BY DEF ThreadOK
<1>3. n.pc = p /\ n.convo = c /\ n = [pc |-> n.pc, convo |-> n.convo, copy |-> n.copy, todo |-> n.todo]
  OBVIOUS
<1>4. th'[t] = n /\ \A u \in Thread \ {t} : th'[u] = th[u]
  BY <1>2
<1>5. th' = [u \in Thread |-> th'[u]]
  BY <1>2
<1> QED BY <1>1, <1>3, <1>4, <1>5 DEF Moves, ThreadOK

LEMMA ThStepIs ==
  ASSUME ThreadOK, UNCHANGED config, NEW t \in Thread, NEW p, ThStep(t, p)
  PROVE  Moves(t, p, th[t].convo)
<1> DEFINE w == th[t]
           n == [w EXCEPT !.pc = p]
<1>1. w = [pc |-> w.pc, convo |-> w.convo, copy |-> w.copy, todo |-> w.todo]
  BY DEF ThreadOK
<1>2. th' = [th EXCEPT ![t] = n]
  BY DEF ThreadOK, ThStep
<1> HIDE DEF w
<1>3. n = [pc |-> p, convo |-> w.convo, copy |-> w.copy, todo |-> w.todo]
  BY <1>1
<1> HIDE DEF n
<1>4. Moves(t, p, w.convo)
  BY <1>2, <1>3, MovesIs
<1> QED BY <1>4 DEF w

LEMMA ThGoIs ==
  ASSUME ThreadOK, UNCHANGED config, NEW t \in Thread, NEW p, NEW c,
         th' = [th EXCEPT ![t].pc = p, ![t].convo = c]
  PROVE  Moves(t, p, c)
<1> DEFINE w == th[t]
           m == [w EXCEPT !.pc = p]
           n == [m EXCEPT !.convo = c]
<1>1. w = [pc |-> w.pc, convo |-> w.convo, copy |-> w.copy, todo |-> w.todo]
  BY DEF ThreadOK
<1>2. th' = [th EXCEPT ![t] = n]
  BY DEF ThreadOK
<1> HIDE DEF w
<1>3. m = [pc |-> p, convo |-> w.convo, copy |-> w.copy, todo |-> w.todo]
  BY <1>1
<1> HIDE DEF m
<1>4. n = [pc |-> p, convo |-> c, copy |-> w.copy, todo |-> w.todo]
  BY <1>3
<1> HIDE DEF n
<1>5. Moves(t, p, c)
  BY <1>2, <1>4, MovesIs
<1> QED BY <1>5 DEF w

LEMMA ThLoadIs ==
  ASSUME ThreadOK, UNCHANGED config, NEW t \in Thread, NEW p, NEW x,
         th' = [th EXCEPT ![t].copy = x, ![t].pc = p]
  PROVE  Moves(t, p, th[t].convo)
<1> DEFINE w == th[t]
           m == [w EXCEPT !.copy = x]
           n == [m EXCEPT !.pc = p]
<1>1. w = [pc |-> w.pc, convo |-> w.convo, copy |-> w.copy, todo |-> w.todo]
  BY DEF ThreadOK
<1>2. th' = [th EXCEPT ![t] = n]
  BY DEF ThreadOK
<1> HIDE DEF w
<1>3. m = [pc |-> w.pc, convo |-> w.convo, copy |-> x, todo |-> w.todo]
  BY <1>1
<1> HIDE DEF m
<1>4. n = [pc |-> p, convo |-> w.convo, copy |-> x, todo |-> w.todo]
  BY <1>3
<1> HIDE DEF n
<1>5. Moves(t, p, w.convo)
  BY <1>2, <1>4, MovesIs
<1> QED BY <1>5 DEF w

LEMMA ThListIs ==
  ASSUME ThreadOK, UNCHANGED config, NEW t \in Thread, NEW p, NEW d,
         th' = [th EXCEPT ![t].pc = p, ![t].todo = d]
  PROVE  Moves(t, p, th[t].convo)
<1> DEFINE w == th[t]
           m == [w EXCEPT !.pc = p]
           n == [m EXCEPT !.todo = d]
<1>1. w = [pc |-> w.pc, convo |-> w.convo, copy |-> w.copy, todo |-> w.todo]
  BY DEF ThreadOK
<1>2. th' = [th EXCEPT ![t] = n]
  BY DEF ThreadOK
<1> HIDE DEF w
<1>3. m = [pc |-> p, convo |-> w.convo, copy |-> w.copy, todo |-> w.todo]
  BY <1>1
<1> HIDE DEF m
<1>4. n = [pc |-> p, convo |-> w.convo, copy |-> w.copy, todo |-> d]
  BY <1>3
<1> HIDE DEF n
<1>5. Moves(t, p, w.convo)
  BY <1>2, <1>4, MovesIs
<1> QED BY <1>5 DEF w

LEMMA ThEvictIs ==
  ASSUME ThreadOK, UNCHANGED config, NEW t \in Thread, NEW d,
         th' = [th EXCEPT ![t].todo = d]
  PROVE  Moves(t, th[t].pc, th[t].convo)
<1> DEFINE w == th[t]
           n == [w EXCEPT !.todo = d]
<1>1. w = [pc |-> w.pc, convo |-> w.convo, copy |-> w.copy, todo |-> w.todo]
  BY DEF ThreadOK
<1>2. th' = [th EXCEPT ![t] = n]
  BY DEF ThreadOK
<1> HIDE DEF w
<1>3. n = [pc |-> w.pc, convo |-> w.convo, copy |-> w.copy, todo |-> d]
  BY <1>1
<1> HIDE DEF n
<1>4. Moves(t, w.pc, w.convo)
  BY <1>2, <1>3, MovesIs
<1> QED BY <1>4 DEF w

LEMMA CompactorIsNoCommand ==
  ASSUME load \in DOMAIN Load
  PROVE  Compactor \notin Command /\ Compactor \in Thread
  BY ConversationAssumption DEF Command, Thread

----------------------------------------------------------------------------
(* The queue of compaction                                                 *)

LEMMA MessagesAppend ==
  ASSUME NEW S, NEW q \in Seq(S), NEW c \in S
  PROVE  Messages(Append(q, c)) = Messages(q) \cup {c}
<1>1. /\ Len(Append(q, c)) = Len(q) + 1 /\ Len(q) \in Nat
      /\ \A i \in 1 .. Len(q) : Append(q, c)[i] = q[i]
      /\ Append(q, c)[Len(q) + 1] = c
  OBVIOUS
<1>2. \A i : i \in 1 .. Len(q) + 1 <=> i \in 1 .. Len(q) \/ i = Len(q) + 1
  BY <1>1
<1> QED BY <1>1, <1>2 DEF Messages

LEMMA MessagesTail ==
  ASSUME NEW S, NEW q \in Seq(S), q # <<>>
  PROVE  /\ Messages(q) = {Head(q)} \cup Messages(Tail(q))
         /\ (\A i, j \in 1 .. Len(q) : q[i] = q[j] => i = j) => Head(q) \notin Messages(Tail(q))
<1>1. /\ Len(q) \in Nat /\ Len(q) >= 1 /\ Len(Tail(q)) = Len(q) - 1
      /\ Head(q) = q[1]
      /\ \A i \in 1 .. Len(q) - 1 : Tail(q)[i] = q[i + 1]
  OBVIOUS
<1>2. \A x \in Messages(q) : x = q[1] \/ x \in Messages(Tail(q))
  <2> SUFFICES ASSUME NEW i \in 1 .. Len(q), i # 1
               PROVE  q[i] \in Messages(Tail(q))
    BY DEF Messages
  <2>1. i - 1 \in 1 .. Len(Tail(q)) /\ Tail(q)[i - 1] = q[i]
    BY <1>1
  <2> QED BY <2>1 DEF Messages
<1>3. \A x \in Messages(Tail(q)) : \E i \in 2 .. Len(q) : x = q[i]
  <2> SUFFICES ASSUME NEW i \in 1 .. Len(Tail(q))
               PROVE  \E j \in 2 .. Len(q) : Tail(q)[i] = q[j]
    BY DEF Messages
  <2>1. i + 1 \in 2 .. Len(q) /\ Tail(q)[i] = q[i + 1]
    BY <1>1
  <2> QED BY <2>1
<1>4. q[1] \in Messages(q) /\ \A i \in 2 .. Len(q) : q[i] \in Messages(q) /\ i \in 1 .. Len(q) /\ i # 1
  BY <1>1 DEF Messages
<1>5. 1 \in 1 .. Len(q)
  BY <1>1
<1> QED BY <1>1, <1>2, <1>3, <1>4, <1>5

\* The compaction thread is busy with what it took out of the queue.
Busy == IF AtWork THEN {th[Compactor].convo} ELSE {}

\* A step that leaves the queue alone, and the compaction thread at what it is at.
LEMMA QueueKept ==
  ASSUME QueueInv, QueuedOnce, UNCHANGED <<queue, queued>>, Busy' = Busy
  PROVE  QueueInv' /\ QueuedOnce'
<1>1. Messages(queue)' = Messages(queue)
  BY DEF Messages
<1>2. Busy \cap Messages(queue) = {}
  BY DEF QueuedOnce, Busy
<1>3. AtWork' => th'[Compactor].convo \in Busy'
  BY DEF Busy
<1>4. queued = Messages(queue) \cup Busy
  BY DEF QueuedOnce, Busy
<1>5. queued' = Messages(queue)' \cup Busy'
  BY <1>1, <1>4
<1> QED BY <1>1, <1>2, <1>3, <1>5 DEF QueueInv, QueuedOnce, Busy

----------------------------------------------------------------------------
(* The cache                                                               *)

\* A thread has written c and has yet to evict it.
Open(c) == \E t \in Thread : th[t].convo = c /\ th[t].pc \in {"delete_io", "invalidate"}

LEMMA OpenStays ==
  ASSUME UNCHANGED <<config, th>>
  PROVE  \A d : Open(d) => Open(d)'
  BY DEF Open, config, Thread, Command

LEMMA OpenKept ==
  ASSUME UNCHANGED config, NEW t \in Thread, NEW p, NEW c, Moves(t, p, c)
  PROVE  /\ \A d : Open(d) /\ d # th[t].convo => Open(d)'
         /\ th[t].pc \notin {"delete_io", "invalidate"} => \A d : Open(d) => Open(d)'
         /\ p \in {"delete_io", "invalidate"} => Open(c)'
<1>1. Thread' = Thread
  BY DEF config, Thread, Command
<1>2. \A u \in Thread \ {t} : th'[u] = th[u]
  BY DEF Moves
<1>3. \A d : Open(d) <=> \E u \in Thread : th[u].convo = d /\ th[u].pc \in {"delete_io", "invalidate"}
  BY DEF Open
<1>4. \A d : Open(d)' <=> \E u \in Thread : th'[u].convo = d /\ th'[u].pc \in {"delete_io", "invalidate"}
  BY <1>1 DEF Open
<1>5. p \in {"delete_io", "invalidate"} => Open(c)'
  BY <1>4 DEF Moves
<1> QED BY <1>2, <1>3, <1>4, <1>5

\* What a step does to the row and the cache entry of one conversation.
Fresh(c) ==
  \/ cache'[c] = None \/ cache'[c] = st'.rows[c] \/ Open(c)'
  \/ cache'[c] = cache[c] /\ st'.rows[c] = st.rows[c] /\ (Open(c) => Open(c)')

LEMMA FreshKept ==
  ASSUME CacheIsFresh, reaped \subseteq reaped', \A c \in Convo \ reaped' : Fresh(c)
  PROVE  CacheIsFresh'
<1>1. \A c \in Convo \ reaped : cache[c] = None \/ cache[c] = st.rows[c] \/ Open(c)
  BY DEF CacheIsFresh, Open
<1>2. \A c \in Convo \ reaped' : cache'[c] = None \/ cache'[c] = st'.rows[c] \/ Open(c)'
  BY <1>1 DEF Fresh
<1> QED BY <1>2 DEF CacheIsFresh, Open

\* One entry of the cache is replaced.
LEMMA CacheIs ==
  ASSUME CacheOK, NEW c, NEW row, cache' = [cache EXCEPT ![c] = row]
  PROVE  CacheOK' /\ \A d \in Convo : cache'[d] = IF d = c THEN row ELSE cache[d]
  BY DEF CacheOK

\* A write of SessionIO: storage and cache get the same row.
LEMMA SaveIs ==
  ASSUME StoreOK(st), CacheOK, CacheIsFresh, UNCHANGED reaped,
         \A d : Open(d) => Open(d)', NEW c, NEW row, Save(c, row)
  PROVE  StoreOK(st)' /\ CacheOK' /\ CacheIsFresh'
<1>1. st' = Upsert(st, c, row) /\ cache' = [cache EXCEPT ![c] = row]
  BY DEF Save
<1>2. StoreOK(st)' /\ \A d \in Convo : st'.rows[d] = IF d = c THEN row ELSE st.rows[d]
  <2>1. StoreOK(Upsert(st, c, row))
        /\ \A d \in Convo : Upsert(st, c, row).rows[d] = IF d = c THEN row ELSE st.rows[d]
    BY UpsertIs
  <2>2. StoreOK(st') /\ \A d \in Convo : st'.rows[d] = IF d = c THEN row ELSE st.rows[d]
    BY <1>1, <2>1
  <2> QED BY <2>2 DEF StoreOK
<1>3. CacheOK' /\ \A d \in Convo : cache'[d] = IF d = c THEN row ELSE cache[d]
  BY <1>1, CacheIs
<1>4. \A d \in Convo \ reaped' : Fresh(d)
  BY <1>2, <1>3 DEF Fresh
<1> QED BY <1>2, <1>3, <1>4, FreshKept

\* A read that fills the cache.
LEMMA FillIs ==
  ASSUME StoreOK(st), CacheOK, CacheIsFresh, UNCHANGED <<st, reaped>>,
         \A d : Open(d) => Open(d)', NEW c, cache' = [cache EXCEPT ![c] = Lookup(c)]
  PROVE  StoreOK(st)' /\ CacheOK' /\ CacheIsFresh'
<1>1. CacheOK' /\ \A d \in Convo : cache'[d] = IF d = c THEN Lookup(c) ELSE cache[d]
  BY CacheIs
<1>2. \A d \in Convo \ reaped' : Fresh(d)
  BY <1>1, LookupIs DEF Fresh
<1>3. StoreOK(st)'
  BY DEF StoreOK
<1> QED BY <1>1, <1>2, <1>3, FreshKept

\* A call of the provider that leaves the rows alone.
LEMMA SameRows ==
  ASSUME CacheOK, CacheIsFresh, UNCHANGED <<cache, reaped>>, RowsKept(st, st'),
         \A d : Open(d) => Open(d)'
  PROVE  StoreOK(st)' /\ CacheOK' /\ CacheIsFresh'
<1>1. StoreOK(st') /\ st'.rows = st.rows
  BY DEF RowsKept
<1>2. \A d \in Convo \ reaped' : Fresh(d)
  BY <1>1 DEF Fresh
<1> QED BY <1>1, <1>2, FreshKept DEF StoreOK, CacheOK

\* A call of the provider that takes rows away behind the cache.
LEMMA RowsReaped ==
  ASSUME CacheOK, CacheIsFresh, UNCHANGED cache, RowsTaken(st, st'),
         reaped' = reaped \cup Removed, \A d : Open(d) => Open(d)'
  PROVE  StoreOK(st)' /\ CacheOK' /\ CacheIsFresh'
<1>1. StoreOK(st') /\ \A c \in Convo : st'.rows[c] = st.rows[c] \/ st'.rows[c] = None
  BY DEF RowsTaken
<1>2. \A d \in Convo \ reaped' : st'.rows[d] = st.rows[d]
  BY <1>1 DEF Removed
<1>3. \A d \in Convo \ reaped' : Fresh(d)
  BY <1>2 DEF Fresh
<1> QED BY <1>1, <1>3, FreshKept DEF StoreOK, CacheOK

----------------------------------------------------------------------------
(* Requests                                                                *)

\* The worker of one request gets a new record.
ReqTo(r, n) == req' = [req EXCEPT ![r] = n]

LEMMA ReqIs ==
  ASSUME ReqOK, UNCHANGED config, NEW r \in Request, NEW p, NEW c \in Convo \cup {None}, NEW x, NEW n,
         n = [pc |-> p, convo |-> c, copy |-> x], ReqTo(r, n)
  PROVE  ReqOK'
<1>1. Request' = Request
  BY DEF config, Request
<1>2. req' = [q \in Request |-> IF q = r THEN n ELSE req[q]]
  BY DEF ReqOK, ReqTo
<1>3. n.convo \in Convo \cup {None} /\ n = [pc |-> n.pc, convo |-> n.convo, copy |-> n.copy]
  OBVIOUS
<1>4. req'[r] = n /\ \A q \in Request \ {r} : req'[q] = req[q]
  BY <1>2
<1>5. req' = [q \in Request |-> req'[q]]
  BY <1>2
<1> QED BY <1>1, <1>3, <1>4, <1>5 DEF ReqOK

LEMMA ReqStepIs ==
  ASSUME ReqOK, UNCHANGED config, NEW r \in Request, NEW p, ReqStep(r, p)
  PROVE  ReqOK'
<1> DEFINE w == req[r]
           n == [w EXCEPT !.pc = p]
<1>1. w = [pc |-> w.pc, convo |-> w.convo, copy |-> w.copy] /\ w.convo \in Convo \cup {None}
  BY DEF ReqOK
<1>2. ReqTo(r, n)
  BY DEF ReqOK, ReqTo, ReqStep
<1> HIDE DEF w
<1>4. n = [pc |-> p, convo |-> w.convo, copy |-> w.copy]
  BY <1>1
<1> HIDE DEF n
<1> QED BY <1>1, <1>2, <1>4, ReqIs

LEMMA ReqGoIs ==
  ASSUME ReqOK, UNCHANGED config, NEW r \in Request, NEW p, NEW c \in Convo,
         req' = [req EXCEPT ![r].pc = p, ![r].convo = c]
  PROVE  ReqOK'
<1> DEFINE w == req[r]
           m == [w EXCEPT !.pc = p]
           n == [m EXCEPT !.convo = c]
<1>1. w = [pc |-> w.pc, convo |-> w.convo, copy |-> w.copy] /\ w.convo \in Convo \cup {None}
  BY DEF ReqOK
<1>2. ReqTo(r, n)
  BY DEF ReqOK, ReqTo
<1> HIDE DEF w
<1>3. m = [pc |-> p, convo |-> w.convo, copy |-> w.copy]
  BY <1>1
<1> HIDE DEF m
<1>4. n = [pc |-> p, convo |-> c, copy |-> w.copy]
  BY <1>3
<1> HIDE DEF n
<1>5. c \in Convo \cup {None}
  BY <1>1
<1> QED BY <1>2, <1>4, <1>5, ReqIs

LEMMA ReqOwnIs ==
  ASSUME ReqOK, UNCHANGED config, NEW r \in Request, NEW p, NEW c \in Convo,
         req' = [req EXCEPT ![r].convo = c, ![r].pc = p]
  PROVE  ReqOK'
<1> DEFINE w == req[r]
           m == [w EXCEPT !.convo = c]
           n == [m EXCEPT !.pc = p]
<1>1. w = [pc |-> w.pc, convo |-> w.convo, copy |-> w.copy] /\ w.convo \in Convo \cup {None}
  BY DEF ReqOK
<1>2. ReqTo(r, n)
  BY DEF ReqOK, ReqTo
<1> HIDE DEF w
<1>3. m = [pc |-> w.pc, convo |-> c, copy |-> w.copy]
  BY <1>1
<1> HIDE DEF m
<1>4. n = [pc |-> p, convo |-> c, copy |-> w.copy]
  BY <1>3
<1> HIDE DEF n
<1>5. c \in Convo \cup {None}
  BY <1>1
<1> QED BY <1>2, <1>4, <1>5, ReqIs

LEMMA ReqCopyIs ==
  ASSUME ReqOK, UNCHANGED config, NEW r \in Request, NEW p, NEW x,
         req' = [req EXCEPT ![r].pc = p, ![r].copy = x]
  PROVE  ReqOK'
<1> DEFINE w == req[r]
           m == [w EXCEPT !.pc = p]
           n == [m EXCEPT !.copy = x]
<1>1. w = [pc |-> w.pc, convo |-> w.convo, copy |-> w.copy] /\ w.convo \in Convo \cup {None}
  BY DEF ReqOK
<1>2. ReqTo(r, n)
  BY DEF ReqOK, ReqTo
<1> HIDE DEF w
<1>3. m = [pc |-> p, convo |-> w.convo, copy |-> w.copy]
  BY <1>1
<1> HIDE DEF m
<1>4. n = [pc |-> p, convo |-> w.convo, copy |-> x]
  BY <1>3
<1> HIDE DEF n
<1>5. w.convo \in Convo \cup {None}
  BY <1>1
<1> QED BY <1>2, <1>4, <1>5, ReqIs

\* A step that no thread of compaction or session control takes.
LEMMA OthersInv ==
  ASSUME Inv, UNCHANGED <<config, th, queue, queued>>,
         ReqOK', StoreOK(st)', CacheOK', CacheIsFresh'
  PROVE  Inv'
<1>1. QueueInv' /\ QueuedOnce'
  <2>1. Busy' = Busy
    BY DEF Busy, AtWork
  <2> QED BY <2>1, QueueKept DEF Inv
<1>2. ThreadOK' /\ DeleteInv' /\ (load \in DOMAIN Load)'
  BY DEF Inv, ThreadOK, DeleteInv, Thread, Command, config
<1> QED BY <1>1, <1>2 DEF Inv

LEMMA Quiet ==
  ASSUME Inv, UNCHANGED <<config, th, queue, queued, st, cache, reaped>>, ReqOK'
  PROVE  Inv'
<1>1. StoreOK(st)' /\ CacheOK' /\ CacheIsFresh'
  BY DEF Inv, StoreOK, CacheOK, CacheIsFresh, Thread, Command, config
<1> QED BY <1>1, OthersInv

LEMMA NormalizeUserInv ==
  ASSUME Inv, NEW r \in Request, NormalizeUser(r)
  PROVE  Inv'
<1> DEFINE c == r.convo
<1>1. c \in Convo
  BY ConversationAssumption DEF Inv, Request, RequestType
<1>2. UNCHANGED <<config, th, queue, queued, reaped>>
  BY DEF NormalizeUser
<1>3. ReqOK'
  BY <1>1, <1>2, ReqGoIs DEF NormalizeUser, Inv
<1>4. \A d : Open(d) => Open(d)'
  BY <1>2, OpenStays
<1>5. CASE cache' = [cache EXCEPT ![c] = Lookup(c)] /\ UNCHANGED st
  BY <1>2, <1>3, <1>4, <1>5, FillIs, OthersInv DEF Inv
<1>6. CASE Save(c, Conversation(None))
  BY <1>2, <1>3, <1>4, <1>6, SaveIs, OthersInv DEF Inv
<1> QED BY <1>5, <1>6 DEF NormalizeUser

LEMMA NormalizeProcessInv ==
  ASSUME Inv, NEW r \in Request, NormalizeProcess(r)
  PROVE  Inv'
<1> DEFINE c == r.convo
<1>1. c \in Convo
  BY ConversationAssumption DEF Inv, Request, RequestType
<1>2. UNCHANGED <<config, th, queue, queued, reaped>>
  BY DEF NormalizeProcess
<1>3. \A d : Open(d) => Open(d)'
  BY <1>2, OpenStays
<1>4. CASE r.fresh
  <2>1. Save(c, Conversation(r.pid)) /\ req' = [req EXCEPT ![r].pc = "read", ![r].convo = c]
    BY <1>4 DEF NormalizeProcess
  <2>2. ReqOK'
    BY <1>1, <1>2, <2>1, ReqGoIs DEF Inv
  <2> QED BY <1>2, <1>3, <2>1, <2>2, SaveIs, OthersInv DEF Inv
<1>5. CASE ~r.fresh /\ Lookup(c) = None
  <2>1. ReqStep(r, "failed") /\ UNCHANGED <<st, cache>>
    BY <1>5 DEF NormalizeProcess
  <2>2. ReqOK'
    BY <1>2, <2>1, ReqStepIs DEF Inv
  <2> QED BY <1>2, <2>1, <2>2, Quiet
<1>6. CASE ~r.fresh /\ Lookup(c) # None
  <2> DEFINE p == IF Lookup(c).creator_pid = r.pid THEN "read" ELSE "failed"
  <2>1. /\ UNCHANGED st /\ cache' = [cache EXCEPT ![c] = Lookup(c)]
        /\ req' = [req EXCEPT ![r].convo = c, ![r].pc = p]
    BY <1>6 DEF NormalizeProcess
  <2> HIDE DEF p
  <2>2. ReqOK'
    BY <1>1, <1>2, <2>1, ReqOwnIs DEF Inv
  <2> QED BY <1>2, <1>3, <2>1, <2>2, FillIs, OthersInv DEF Inv
<1> QED BY <1>4, <1>5, <1>6

LEMMA BuildReadInv ==
  ASSUME Inv, NEW r \in Request, BuildRead(r)
  PROVE  Inv'
<1> DEFINE row == Lookup(req[r].convo)
<1>1. UNCHANGED <<config, th, queue, queued, st, cache, reaped>>
  BY DEF BuildRead
<1>2. ReqStep(r, "failed") \/ req' = [req EXCEPT ![r].pc = "write", ![r].copy = row]
  BY DEF BuildRead
<1> HIDE DEF row
<1>3. ReqOK'
  BY <1>1, <1>2, ReqStepIs, ReqCopyIs DEF Inv
<1> QED BY <1>1, <1>3, Quiet

LEMMA BuildWriteInv ==
  ASSUME Inv, NEW r \in Request, BuildWrite(r)
  PROVE  Inv'
<1>1. UNCHANGED <<config, th, queue, queued, reaped>>
  BY DEF BuildWrite
<1>2. PICK row : Save(req[r].convo, row)
  BY DEF BuildWrite
<1>3. ReqOK'
  BY <1>1, ReqCopyIs DEF BuildWrite, Inv
<1>4. \A d : Open(d) => Open(d)'
  BY <1>1, OpenStays
<1> QED BY <1>1, <1>2, <1>3, <1>4, SaveIs, OthersInv DEF Inv

LEMMA PersistReplyInv ==
  ASSUME Inv, NEW r \in Request, PersistReply(r)
  PROVE  Inv'
<1>1. UNCHANGED <<config, th, queue, queued, reaped>> /\ ReqStep(r, "usage")
  BY DEF PersistReply
<1>2. UNCHANGED <<st, cache>> \/ \E row : Save(req[r].convo, row)
  BY DEF PersistReply
<1>3. ReqOK'
  BY <1>1, ReqStepIs DEF Inv
<1>4. \A d : Open(d) => Open(d)'
  BY <1>1, OpenStays
<1>5. CASE UNCHANGED <<st, cache>>
  BY <1>1, <1>3, <1>5, Quiet
<1>6. ASSUME NEW row, Save(req[r].convo, row)
      PROVE  Inv'
  BY <1>1, <1>3, <1>4, <1>6, SaveIs, OthersInv DEF Inv
<1> QED BY <1>2, <1>5, <1>6

LEMMA AnsweredInv ==
  ASSUME Inv, NEW r \in Request, ReplyDiscarded(r) \/ ComputeUsage(r) \/ MarkNeeding(r)
  PROVE  Inv'
<1>1. UNCHANGED <<config, th, queue, queued, st, cache, reaped>> /\ \E p : ReqStep(r, p)
  BY DEF ReplyDiscarded, ComputeUsage, MarkNeeding
<1>2. ReqOK'
  BY <1>1, ReqStepIs DEF Inv
<1> QED BY <1>1, <1>2, Quiet

LEMMA EnqueueInv ==
  ASSUME Inv, NEW r \in Request, enqueue(r)
  PROVE  Inv'
<1> DEFINE c == req[r].convo
           S == Convo \cup {None}
<1>1. /\ UNCHANGED <<config, th, st, cache, reaped>> /\ ReqStep(r, "done")
      /\ queued' = queued \cup {c} /\ queue' = IF c \in queued THEN queue ELSE Append(queue, c)
  BY DEF enqueue
<1>2. ReqOK' /\ c \in S /\ queue \in Seq(S)
  BY <1>1, ReqStepIs DEF Inv, ReqOK, QueueInv
<1>3. StoreOK(st)' /\ CacheOK' /\ CacheIsFresh' /\ ThreadOK' /\ DeleteInv' /\ (load \in DOMAIN Load)'
  BY <1>1 DEF Inv, StoreOK, CacheOK, CacheIsFresh, ThreadOK, DeleteInv, Thread, Command, config
<1>4. /\ queued = Messages(queue) \cup Busy /\ Busy' = Busy /\ Busy \cap Messages(queue) = {}
      /\ \A i, j \in 1 .. Len(queue) : queue[i] = queue[j] => i = j
  BY <1>1 DEF Inv, QueuedOnce, QueueInv, Busy, AtWork
<1>5. QueueInv' /\ QueuedOnce'
  <2>1. CASE c \in queued
    <3>1. queue' = queue /\ queued' = queued
      BY <1>1, <2>1
    <3> QED BY <3>1, <1>4, QueueKept DEF Inv
  <2>2. CASE c \notin queued
    <3>1. queue' = Append(queue, c) /\ queue' \in Seq(S)
      BY <1>1, <1>2, <2>2
    <3>2. Messages(queue)' = Messages(queue) \cup {c}
      <4>1. Messages(Append(queue, c)) = Messages(queue) \cup {c}
        BY <1>2, MessagesAppend
      <4> QED BY <3>1, <4>1 DEF Messages
    <3>3. c \notin Messages(queue) /\ c \notin Busy
      BY <1>4, <2>2
    <3>4. /\ Len(queue) \in Nat /\ Len(queue') = Len(queue) + 1
          /\ \A i \in 1 .. Len(queue) : queue'[i] = queue[i]
          /\ queue'[Len(queue) + 1] = c
      BY <1>2, <3>1
    <3>5. \A i \in 1 .. Len(queue) : queue[i] # c
      BY <3>3 DEF Messages
    <3>6. \A i, j \in 1 .. Len(queue') : queue'[i] = queue'[j] => i = j
      <4>1. \A i \in 1 .. Len(queue') : i \in 1 .. Len(queue) \/ i = Len(queue) + 1
        BY <3>4
      <4> QED BY <3>4, <3>5, <4>1, <1>4
    <3>7. queued' = Messages(queue)' \cup Busy'
      BY <1>1, <1>4, <3>2
    <3>8. Busy' \cap Messages(queue)' = {}
      BY <1>4, <3>2, <3>3
    <3>9. AtWork' => th'[Compactor].convo \in Busy'
      BY DEF Busy
    <3> QED BY <3>1, <3>6, <3>7, <3>8, <3>9 DEF QueueInv, QueuedOnce, Busy
  <2> QED BY <2>1, <2>2
<1> QED BY <1>2, <1>3, <1>5 DEF Inv

LEMMA RequestInv ==
  ASSUME Inv, NEW r \in Request, RequestStep(r)
  PROVE  Inv'
  BY NormalizeUserInv, NormalizeProcessInv, BuildReadInv, BuildWriteInv, PersistReplyInv,
     AnsweredInv, EnqueueInv DEF RequestStep

----------------------------------------------------------------------------
(* Compaction, undo and session control                                    *)

\* What a step of a thread leaves to show: it stays at the conversation it
\* took from the queue, and goes to SessionIO's delete about its own session.
Steady(t, p, c) ==
  /\ t = Compactor => Busy' = Busy
  /\ t # Compactor /\ p = "delete_io" => c = <<t.user, t.n>>

LEMMA ThreadInv ==
  ASSUME Inv, NEW t \in Thread, NEW p, NEW c, Moves(t, p, c), Steady(t, p, c),
         UNCHANGED <<config, req, queue, queued>>, StoreOK(st)', CacheOK', CacheIsFresh'
  PROVE  Inv'
<1>1. (load \in DOMAIN Load)' /\ Thread' = Thread /\ Command' = Command /\ Compactor \in Thread
  BY DEF Inv, config, Thread, Command
<1>2. ThreadOK' /\ \A u \in Thread \ {t} : th'[u] = th[u]
  BY DEF Moves
<1>3. Busy' = Busy
  BY <1>1, <1>2 DEF Steady, Busy, AtWork
<1>4. QueueInv' /\ QueuedOnce'
  BY <1>3, QueueKept DEF Inv
<1>5. ReqOK'
  BY DEF Inv, ReqOK, Request, config
<1>6. DeleteInv'
  <2> SUFFICES ASSUME NEW u \in Command, th'[u].pc = "delete_io"
               PROVE  th'[u].convo = <<u.user, u.n>>
    BY <1>1 DEF DeleteInv
  <2>1. CASE u = t
    BY <2>1, CompactorIsNoCommand DEF Inv, Moves, Steady
  <2>2. CASE u # t
    BY <2>2, <1>2 DEF Inv, DeleteInv, Thread
  <2> QED BY <2>1, <2>2
<1> QED BY <1>1, <1>2, <1>4, <1>5, <1>6 DEF Inv

\* A thread in the middle of a compaction goes on with the same conversation.
LEMMA AtItIs ==
  ASSUME NEW t \in Thread, NEW p, Moves(t, p, th[t].convo),
         th[t].pc \notin {"start", "unmark", "done"}, p \notin {"start", "unmark", "delete_io"},
         t = Compactor => p # "done"
  PROVE  Steady(t, p, th[t].convo)
  BY DEF Moves, Steady, Busy, AtWork

LEMMA LoadInv ==
  ASSUME Inv, NEW t \in Thread, get_conversation(t)
  PROVE  Inv'
<1> DEFINE c == th[t].convo
           x == Lookup(c)
           p == IF t # Compactor /\ t.act = "undo" THEN "undo" ELSE "summarize"
<1>1. /\ UNCHANGED <<config, st, req, queue, queued, reaped>> /\ th[t].pc = "load"
      /\ cache' = [cache EXCEPT ![c] = Lookup(c)] /\ th' = [th EXCEPT ![t].copy = x, ![t].pc = p]
  BY DEF get_conversation
<1>2. p \in {"undo", "summarize"}
  OBVIOUS
<1> HIDE DEF x, p
<1>3. Moves(t, p, c)
  BY <1>1, ThLoadIs DEF Inv
<1>4. Steady(t, p, c)
  BY <1>1, <1>2, <1>3, AtItIs
<1>5. \A d : Open(d) => Open(d)'
  BY <1>1, <1>3, OpenKept
<1>6. StoreOK(st)' /\ CacheOK' /\ CacheIsFresh'
  BY <1>1, <1>5, FillIs DEF Inv
<1> QED BY <1>1, <1>3, <1>4, <1>6, ThreadInv

\* A step of a thread that touches neither storage nor the cache.
LEMMA StillInv ==
  ASSUME Inv, NEW t \in Thread, NEW p, NEW c, Moves(t, p, c), Steady(t, p, c),
         UNCHANGED <<config, st, cache, req, queue, queued, reaped>>,
         th[t].pc \notin {"delete_io", "invalidate"}
  PROVE  Inv'
<1>1. \A d : Open(d) => Open(d)'
  BY OpenKept
<1>2. RowsKept(st, st')
  BY DEF RowsKept, Inv
<1>3. StoreOK(st)' /\ CacheOK' /\ CacheIsFresh'
  BY <1>1, <1>2, SameRows DEF Inv
<1> QED BY <1>3, ThreadInv

LEMMA SummarizeInv ==
  ASSUME Inv, NEW t \in Thread, Summarize(t)
  PROVE  Inv'
<1>1. UNCHANGED <<config, st, cache, req, queue, queued, reaped>> /\ th[t].pc = "summarize"
  BY DEF Summarize
<1>2. PICK p : ThStep(t, p) /\ p \in {"snapshot", AfterCompact(t)}
  BY DEF Summarize
<1>3. p \in {"snapshot", "unqueue", "done"} /\ (t = Compactor => p # "done")
  BY <1>2 DEF AfterCompact
<1>4. Moves(t, p, th[t].convo)
  BY <1>1, <1>2, ThStepIs DEF Inv
<1>5. Steady(t, p, th[t].convo)
  BY <1>1, <1>3, <1>4, AtItIs
<1> QED BY <1>1, <1>4, <1>5, StillInv

LEMMA SnapshotInv ==
  ASSUME Inv, NEW t \in Thread, save_snapshot(t)
  PROVE  Inv'
<1> DEFINE c == th[t].convo
           msgs == th[t].copy.msgs
<1>1. /\ UNCHANGED <<config, cache, req, queue, queued, reaped>> /\ th[t].pc = "snapshot"
      /\ ThStep(t, "persist")
      /\ st' = json_append_snapshot(st, c, msgs) \/ st' = sqlite_append_snapshot(st, c, msgs)
  BY DEF save_snapshot
<1> HIDE DEF msgs
<1>2. RowsKept(st, st')
  BY <1>1, SnapshotIs DEF Inv
<1>3. Moves(t, "persist", c)
  BY <1>1, ThStepIs DEF Inv
<1>4. Steady(t, "persist", c)
  BY <1>1, <1>3, AtItIs
<1>5. \A d : Open(d) => Open(d)'
  BY <1>1, <1>3, OpenKept
<1>6. StoreOK(st)' /\ CacheOK' /\ CacheIsFresh'
  BY <1>1, <1>2, <1>5, SameRows DEF Inv
<1> QED BY <1>1, <1>3, <1>4, <1>6, ThreadInv

\* A write that the eviction of the same conversation is to follow.
LEMMA WrittenInv ==
  ASSUME Inv, NEW t \in Thread, NEW row, ThStep(t, "invalidate"), st' = Upsert(st, th[t].convo, row),
         UNCHANGED <<config, cache, req, queue, queued, reaped>>, th[t].pc \in {"persist", "undo"}
  PROVE  Inv'
<1> DEFINE c == th[t].convo
<1>1. Moves(t, "invalidate", c)
  BY ThStepIs DEF Inv
<1>2. Steady(t, "invalidate", c)
  BY <1>1, AtItIs
<1>3. \A d : Open(d) \/ d = c => Open(d)'
  BY <1>1, OpenKept
<1>4. StoreOK(st') /\ \A d \in Convo : st'.rows[d] = IF d = c THEN row ELSE st.rows[d]
  BY UpsertIs DEF Inv
<1>5. \A d \in Convo \ reaped' : Fresh(d)
  BY <1>3, <1>4 DEF Fresh
<1>6. StoreOK(st)' /\ CacheOK' /\ CacheIsFresh'
  BY <1>4, <1>5, FreshKept DEF Inv, StoreOK, CacheOK
<1> QED BY <1>1, <1>2, <1>6, ThreadInv

LEMMA PersistInv ==
  ASSUME Inv, NEW t \in Thread, PersistCompacted(t)
  PROVE  Inv'
  BY WrittenInv DEF PersistCompacted

LEMMA UndoInv ==
  ASSUME Inv, NEW t \in Command, Undo(t)
  PROVE  Inv'
<1>1. /\ UNCHANGED <<config, cache, req, queue, queued, reaped>> /\ th[t].pc = "undo"
      /\ \/ ThStep(t, "done") /\ UNCHANGED st
         \/ ThStep(t, "invalidate") /\ \E row : st' = Upsert(st, th[t].convo, row)
  BY DEF Undo
<1>2. t \in Thread /\ t # Compactor
  BY CompactorIsNoCommand DEF Inv, Thread
<1>3. CASE ThStep(t, "done") /\ UNCHANGED st
  <2>1. Moves(t, "done", th[t].convo)
    BY <1>1, <1>2, <1>3, ThStepIs DEF Inv
  <2>2. Steady(t, "done", th[t].convo)
    BY <1>2 DEF Steady
  <2> QED BY <1>1, <1>2, <1>3, <2>1, <2>2, StillInv
<1>4. ASSUME NEW row, ThStep(t, "invalidate"), st' = Upsert(st, th[t].convo, row)
      PROVE  Inv'
  BY <1>1, <1>2, <1>4, WrittenInv
<1> QED BY <1>1, <1>3, <1>4

LEMMA InvalidateInv ==
  ASSUME Inv, NEW t \in Thread, invalidate_conversation_cache(t)
  PROVE  Inv'
<1> DEFINE c == th[t].convo
           p == AfterCompact(t)
<1>1. /\ UNCHANGED <<config, st, req, queue, queued, reaped>> /\ th[t].pc = "invalidate"
      /\ ThStep(t, p) /\ cache' = [cache EXCEPT ![c] = None]
  BY DEF invalidate_conversation_cache
<1>2. p \in {"unqueue", "done"} /\ (t = Compactor => p # "done")
  BY DEF AfterCompact
<1> HIDE DEF p
<1>3. Moves(t, p, c)
  BY <1>1, ThStepIs DEF Inv
<1>4. Steady(t, p, c)
  BY <1>1, <1>2, <1>3, AtItIs
<1>5. \A d : Open(d) /\ d # c => Open(d)'
  BY <1>1, <1>3, OpenKept
<1>6. CacheOK' /\ \A d \in Convo : cache'[d] = IF d = c THEN None ELSE cache[d]
  BY <1>1 DEF Inv, CacheOK
<1>7. \A d \in Convo \ reaped' : Fresh(d)
  BY <1>1, <1>5, <1>6 DEF Fresh
<1>8. StoreOK(st)' /\ CacheIsFresh'
  BY <1>1, <1>7, FreshKept DEF Inv, StoreOK
<1> QED BY <1>1, <1>3, <1>4, <1>6, <1>8, ThreadInv

LEMMA CompactInv ==
  ASSUME Inv, NEW t \in Thread, CompactStep(t)
  PROVE  Inv'
  BY LoadInv, SummarizeInv, SnapshotInv, PersistInv, InvalidateInv DEF CompactStep

\* A command that changes the index or the snapshots, and no row.
LEMMA IndexInv ==
  ASSUME Inv, NEW t \in Command, NEW p, NEW c, Moves(t, p, c), p # "delete_io",
         RowsKept(st, st'), UNCHANGED <<config, cache, req, queue, queued, reaped>>,
         th[t].pc \notin {"delete_io", "invalidate"}
  PROVE  Inv'
<1>1. t \in Thread /\ t # Compactor
  BY CompactorIsNoCommand DEF Inv, Thread
<1>2. Steady(t, p, c)
  BY <1>1 DEF Steady
<1>3. \A d : Open(d) => Open(d)'
  BY <1>1, OpenKept
<1>4. StoreOK(st)' /\ CacheOK' /\ CacheIsFresh'
  BY <1>3, SameRows DEF Inv
<1> QED BY <1>1, <1>2, <1>4, ThreadInv

LEMMA ResolveInv ==
  ASSUME Inv, NEW t \in Command, Resolve(t)
  PROVE  Inv'
<1>1. UNCHANGED <<config, st, cache, req, queue, queued, reaped>> /\ th[t].pc = "start"
  BY DEF Resolve
<1>2. PICK p, c : p \in {"create", "load", "done"} /\ th' = [th EXCEPT ![t].pc = p, ![t].convo = c]
  BY DEF Resolve
<1>3. Moves(t, p, c)
  BY <1>1, <1>2, ThGoIs DEF Inv, Thread
<1>4. RowsKept(st, st')
  BY <1>1 DEF Inv, RowsKept
<1> QED BY <1>1, <1>2, <1>3, <1>4, IndexInv

LEMMA CreateInv ==
  ASSUME Inv, NEW t \in Command, CreateSession(t)
  PROVE  Inv'
<1> DEFINE D == IF backend = "json" THEN st.dirs \cup {th[t].convo} ELSE st.dirs
<1>1. /\ UNCHANGED <<config, cache, req, queue, queued, reaped>> /\ th[t].pc = "create" /\ ThStep(t, "user")
      /\ st' = [st EXCEPT !.dirs = D]
  BY DEF CreateSession
<1> HIDE DEF D
<1>2. RowsKept(st, st')
  BY <1>1, DirsIs DEF Inv
<1>3. Moves(t, "user", th[t].convo)
  BY <1>1, ThStepIs DEF Inv, Thread
<1> QED BY <1>1, <1>2, <1>3, IndexInv

\* A user's entry is a change to the users only.
LEMMA UserKept ==
  ASSUME Inv, NEW u, st' = upsert_super_user(u)
  PROVE  RowsKept(st, st')
<1>1. PICK U : st' = [st EXCEPT !.users = U]
  BY DEF upsert_super_user, json_upsert_super_user, sqlite_upsert_super_user
<1> QED BY <1>1, UsersIs DEF Inv

LEMMA IndexUserInv ==
  ASSUME Inv, NEW t \in Command, IndexUser(t)
  PROVE  Inv'
<1>1. /\ UNCHANGED <<config, cache, req, queue, queued, reaped>> /\ th[t].pc = "user" /\ ThStep(t, "index")
      /\ st' = upsert_super_user(t.user)
  BY DEF IndexUser
<1>2. Moves(t, "index", th[t].convo)
  BY <1>1, ThStepIs DEF Inv, Thread
<1> QED BY <1>1, <1>2, UserKept, IndexInv

LEMMA IndexSessionInv ==
  ASSUME Inv, NEW t \in Command, IndexSession(t)
  PROVE  Inv'
<1> DEFINE p == IF t.act \in {"compact", "undo"} THEN "load" ELSE "done"
<1>1. /\ UNCHANGED <<config, cache, req, queue, queued, reaped>> /\ th[t].pc = "index" /\ ThStep(t, p)
      /\ st' = Indexed(st, th[t].convo) /\ p \in {"load", "done"}
  BY DEF IndexSession
<1> HIDE DEF p
<1>2. RowsKept(st, st')
  BY <1>1, IndexedIs DEF Inv
<1>3. Moves(t, p, th[t].convo)
  BY <1>1, ThStepIs DEF Inv, Thread
<1> QED BY <1>1, <1>2, <1>3, IndexInv

LEMMA NamedInv ==
  ASSUME Inv, NEW t \in Command, create_super_user(t) \/ set_session_title(t)
  PROVE  Inv'
<1>1. /\ UNCHANGED <<config, cache, req, queue, queued, reaped>> /\ th[t].pc = "start"
      /\ st' = upsert_super_user(t.user)
  BY DEF create_super_user, set_session_title
<1>2. RowsKept(st, st')
  BY <1>1, UserKept
<1>3. CASE create_super_user(t)
  <2>1. Moves(t, "done", th[t].convo)
    BY <1>1, <1>3, ThStepIs DEF create_super_user, Inv, Thread
  <2> QED BY <1>1, <1>2, <2>1, IndexInv
<1>4. CASE set_session_title(t)
  <2>1. Moves(t, "index", <<t.user, t.n>>)
    BY <1>1, <1>4, ThGoIs DEF set_session_title, Inv, Thread
  <2> QED BY <1>1, <1>2, <2>1, IndexInv
<1> QED BY <1>3, <1>4

LEMMA DestroyListInv ==
  ASSUME Inv, NEW t \in Command, DestroyList(t)
  PROVE  Inv'
<1>1. UNCHANGED <<config, st, cache, req, queue, queued, reaped>> /\ th[t].pc = "start"
  BY DEF DestroyList
<1>2. PICK d : th' = [th EXCEPT ![t].pc = "evict", ![t].todo = d]
  BY DEF DestroyList
<1>3. Moves(t, "evict", th[t].convo)
  BY <1>1, <1>2, ThListIs DEF Inv, Thread
<1>4. RowsKept(st, st')
  BY <1>1 DEF Inv, RowsKept
<1> QED BY <1>1, <1>3, <1>4, IndexInv

LEMMA DestroyEvictInv ==
  ASSUME Inv, NEW t \in Command, DestroyEvict(t)
  PROVE  Inv'
<1>1. UNCHANGED <<config, st, req, queue, queued, reaped>> /\ th[t].pc = "evict"
  BY DEF DestroyEvict
<1>2. PICK c : cache' = [cache EXCEPT ![c] = None] /\ th' = [th EXCEPT ![t].todo = th[t].todo \ {c}]
  BY DEF DestroyEvict
<1> DEFINE e == th[t].todo \ {c}
<1>3. th' = [th EXCEPT ![t].todo = e]
  BY <1>2
<1> HIDE DEF e
<1>4. t \in Thread /\ t # Compactor
  BY CompactorIsNoCommand DEF Inv, Thread
<1>5. Moves(t, th[t].pc, th[t].convo)
  BY <1>1, <1>3, <1>4, ThEvictIs DEF Inv
<1>6. Steady(t, th[t].pc, th[t].convo)
  BY <1>1, <1>4 DEF Steady
<1>7. \A d : Open(d) => Open(d)'
  BY <1>1, <1>4, <1>5, OpenKept
<1>8. CacheOK' /\ \A d \in Convo : cache'[d] = IF d = c THEN None ELSE cache[d]
  BY <1>2 DEF Inv, CacheOK
<1>9. \A d \in Convo \ reaped' : Fresh(d)
  BY <1>1, <1>7, <1>8 DEF Fresh
<1>10. StoreOK(st)' /\ CacheIsFresh'
  BY <1>1, <1>9, FreshKept DEF Inv, StoreOK
<1> QED BY <1>1, <1>4, <1>5, <1>6, <1>8, <1>10, ThreadInv

LEMMA DestroyUserInv ==
  ASSUME Inv, NEW t \in Command, delete_super_user(t)
  PROVE  Inv'
<1>1. /\ UNCHANGED <<config, cache, req, queue, queued>> /\ th[t].pc = "evict" /\ ThStep(t, "done")
      /\ reaped' = reaped \cup Removed
      /\ st' = json_delete_super_user(st, t.user) \/ st' = sqlite_delete_super_user(st, t.user)
  BY DEF delete_super_user
<1>2. t \in Thread /\ t # Compactor
  BY CompactorIsNoCommand DEF Inv, Thread
<1>3. Moves(t, "done", th[t].convo)
  BY <1>1, <1>2, ThStepIs DEF Inv
<1>4. Steady(t, "done", th[t].convo)
  BY <1>2 DEF Steady
<1>5. \A d : Open(d) => Open(d)'
  BY <1>1, <1>2, <1>3, OpenKept
<1>6. RowsTaken(st, st')
  BY <1>1, DeleteUserIs DEF Inv
<1>7. StoreOK(st)' /\ CacheOK' /\ CacheIsFresh'
  BY <1>1, <1>5, <1>6, RowsReaped DEF Inv
<1> QED BY <1>1, <1>2, <1>3, <1>4, <1>7, ThreadInv

\* The three parts of a delete in SessionManager, then the one in SessionIO.
LEMMA DeleteSessionInv ==
  ASSUME Inv, NEW t \in Command, delete_session(t)
  PROVE  Inv'
<1> DEFINE c == <<t.user, t.n>>
<1>1. t \in Thread /\ t # Compactor
  BY CompactorIsNoCommand DEF Inv, Thread
<1>2. ASSUME NEW from \in {"start", "delete_snaps", "delete_row"}, NEW to, NEW s, DeleteStep(t, from, to, s)
      PROVE  /\ UNCHANGED <<config, req, queue, queued, reaped>> /\ th[t].pc = from /\ st' = s
             /\ CacheOK' /\ \A d \in Convo : cache'[d] = cache[d]
             /\ Moves(t, to, c) /\ Steady(t, to, c) /\ \A d : Open(d) => Open(d)'
  <2>1. /\ UNCHANGED <<config, req, queue, queued, reaped>> /\ th[t].pc = from /\ st' = s
        /\ th' = [th EXCEPT ![t].pc = to, ![t].convo = c]
        /\ cache' = [cache EXCEPT ![c] = cache[c]]
    BY <1>2 DEF DeleteStep
  <2>2. CacheOK' /\ \A d \in Convo : cache'[d] = cache[d]
    BY <2>1 DEF Inv, CacheOK
  <2>3. Moves(t, to, c)
    BY <1>1, <2>1, ThGoIs DEF Inv
  <2>4. Steady(t, to, c)
    BY <1>1 DEF Steady
  <2>5. \A d : Open(d) => Open(d)'
    BY <1>1, <2>1, <2>3, OpenKept
  <2> QED BY <2>1, <2>2, <2>3, <2>4, <2>5
<1>3. ASSUME NEW from \in {"start", "delete_snaps", "delete_row"}, NEW to, NEW s, DeleteStep(t, from, to, s),
             RowsKept(st, s)
      PROVE  Inv'
  <2>1. StoreOK(st') /\ st'.rows = st.rows
    BY <1>2, <1>3 DEF RowsKept
  <2>2. \A d \in Convo \ reaped' : Fresh(d)
    BY <1>2, <1>3, <2>1 DEF Fresh
  <2>3. StoreOK(st)' /\ CacheIsFresh'
    BY <1>2, <1>3, <2>1, <2>2, FreshKept DEF Inv, StoreOK
  <2> QED BY <1>1, <1>2, <1>3, <2>3, ThreadInv
<1>4. ASSUME DeleteStep(t, "delete_row", "delete_io", DeleteRow(c))
      PROVE  Inv'
  <2>1. StoreOK(st') /\ \A d \in Convo : st'.rows[d] = IF d = c THEN None ELSE st.rows[d]
    BY <1>2, <1>4, DeleteRowIs DEF Inv
  <2>2. Moves(t, "delete_io", c)
    BY <1>2, <1>4
  <2>3. \A d : d = c => Open(d)'
    BY <1>1, <1>2, <1>4, <2>2, OpenKept
  <2>4. \A d \in Convo \ reaped' : Fresh(d)
    BY <1>2, <1>4, <2>1, <2>3 DEF Fresh
  <2>5. StoreOK(st)' /\ CacheIsFresh'
    BY <1>2, <1>4, <2>1, <2>4, FreshKept DEF Inv, StoreOK
  <2> QED BY <1>1, <1>2, <1>4, <2>5, ThreadInv
<1>5. \A E : RowsKept(st, [st EXCEPT !.entry = E])
  BY EntryIs DEF Inv
<1>6. /\ RowsKept(st, json_delete_session_index_entry(st, c))
      /\ RowsKept(st, sqlite_delete_session_index_entry(st, c))
  BY <1>5 DEF json_delete_session_index_entry, sqlite_delete_session_index_entry
<1>7. RowsKept(st, json_delete_snapshots(st, c)) /\ RowsKept(st, sqlite_delete_snapshots(st, c))
  BY DeleteSnapshotsIs DEF Inv
<1>8. \/ \E s : DeleteStep(t, "start", "delete_snaps", s) /\ RowsKept(st, s)
      \/ \E s : DeleteStep(t, "delete_snaps", "delete_row", s) /\ RowsKept(st, s)
      \/ DeleteStep(t, "delete_row", "delete_io", DeleteRow(c))
  BY <1>6, <1>7 DEF delete_session
<1> QED BY <1>3, <1>4, <1>8

LEMMA SessionIODeleteInv ==
  ASSUME Inv, NEW t \in Command, delete_conversation(t)
  PROVE  Inv'
<1> DEFINE c == <<t.user, t.n>>
<1>1. t \in Thread /\ t # Compactor
  BY CompactorIsNoCommand DEF Inv, Thread
<1>2. /\ UNCHANGED <<config, req, queue, queued, reaped>> /\ th[t].pc = "delete_io" /\ st' = DeleteRow(c)
      /\ th' = [th EXCEPT ![t].pc = "invalidate", ![t].convo = c]
      /\ cache' = [cache EXCEPT ![c] = None]
  BY DEF delete_conversation, DeleteStep
<1>3. CacheOK' /\ \A d \in Convo : cache'[d] = IF d = c THEN None ELSE cache[d]
  BY <1>2 DEF Inv, CacheOK
<1>4. StoreOK(st') /\ \A d \in Convo : st'.rows[d] = IF d = c THEN None ELSE st.rows[d]
  BY <1>2, DeleteRowIs DEF Inv
<1>5. Moves(t, "invalidate", c)
  BY <1>1, <1>2, ThGoIs DEF Inv
<1>6. Steady(t, "invalidate", c)
  BY <1>1 DEF Steady
<1>7. \A d : Open(d) /\ d # c => Open(d)'
  BY <1>1, <1>2, <1>5, OpenKept DEF Inv, DeleteInv
<1>8. \A d \in Convo \ reaped' : Fresh(d)
  BY <1>2, <1>3, <1>4, <1>7 DEF Fresh
<1>9. StoreOK(st)' /\ CacheIsFresh'
  BY <1>2, <1>4, <1>8, FreshKept DEF Inv, StoreOK
<1> QED BY <1>1, <1>2, <1>3, <1>5, <1>6, <1>9, ThreadInv

LEMMA CommandInv ==
  ASSUME Inv, NEW t \in Command, ThreadStep(t)
  PROVE  Inv'
<1>1. t \in Thread
  BY DEF Thread
<1> QED BY <1>1, CompactInv, UndoInv, ResolveInv, CreateInv, IndexUserInv, IndexSessionInv, NamedInv,
            DeleteSessionInv, SessionIODeleteInv,
           DestroyListInv, DestroyEvictInv, DestroyUserInv DEF ThreadStep

----------------------------------------------------------------------------
(* The compaction thread, the cleanup threads, shutdown and time           *)

\* A step of the compaction thread between two conversations.
LEMMA BetweenInv ==
  ASSUME Inv, NEW p, NEW c, Moves(Compactor, p, c), UNCHANGED <<config, st, cache, req, reaped>>,
         th[Compactor].pc \notin {"delete_io", "invalidate"}, QueueInv', QueuedOnce'
  PROVE  Inv'
<1>1. /\ (load \in DOMAIN Load)' /\ Thread' = Thread /\ Command' = Command
      /\ Compactor \in Thread /\ Compactor \notin Command
  BY CompactorIsNoCommand DEF Inv, config, Thread, Command
<1>2. ThreadOK' /\ \A u \in Thread \ {Compactor} : th'[u] = th[u]
  BY DEF Moves
<1>3. DeleteInv'
  BY <1>1, <1>2 DEF Inv, DeleteInv, Thread
<1>4. \A d : Open(d) => Open(d)'
  BY <1>1, OpenKept
<1>5. RowsKept(st, st')
  BY DEF RowsKept, Inv
<1>6. StoreOK(st)' /\ CacheOK' /\ CacheIsFresh'
  BY <1>4, <1>5, SameRows DEF Inv
<1>7. ReqOK'
  BY DEF Inv, ReqOK, Request, config
<1> QED BY <1>1, <1>2, <1>3, <1>6, <1>7 DEF Inv

LEMMA DequeueInv ==
  ASSUME Inv, Dequeue
  PROVE  Inv'
<1> DEFINE S == Convo \cup {None}
           h == Head(queue)
<1>1. /\ UNCHANGED <<config, st, cache, req, queued, reaped>>
      /\ th[Compactor].pc = "start" /\ queue # <<>> /\ queue' = Tail(queue)
      /\ th' = [th EXCEPT ![Compactor].pc = "load", ![Compactor].convo = h]
  BY DEF Dequeue
<1>2. Compactor \in Thread
  BY DEF Thread
<1>3. Moves(Compactor, "load", h)
  BY <1>1, <1>2, ThGoIs DEF Inv
<1>4. queue \in Seq(S) /\ \A i, j \in 1 .. Len(queue) : queue[i] = queue[j] => i = j
  BY DEF Inv, QueueInv, QueuedOnce
<1>5. Messages(queue) = {h} \cup Messages(Tail(queue)) /\ h \notin Messages(Tail(queue))
  BY <1>1, <1>4, MessagesTail
<1>6. Messages(queue)' = Messages(Tail(queue))
  BY <1>1 DEF Messages
<1>7. /\ queue' \in Seq(S) /\ Len(queue) \in Nat /\ Len(queue') = Len(queue) - 1
      /\ \A i \in 1 .. Len(queue') : queue'[i] = queue[i + 1]
  BY <1>1, <1>4
<1>8. \A i, j \in 1 .. Len(queue') : queue'[i] = queue'[j] => i = j
  <2> SUFFICES ASSUME NEW i \in 1 .. Len(queue'), NEW j \in 1 .. Len(queue'), queue'[i] = queue'[j]
               PROVE  i = j
    OBVIOUS
  <2>1. i + 1 \in 1 .. Len(queue) /\ j + 1 \in 1 .. Len(queue) /\ queue[i + 1] = queue[j + 1]
    BY <1>7
  <2>2. i + 1 = j + 1
    BY <1>4, <2>1
  <2> QED BY <1>7, <2>2
<1>9. queued = Messages(queue)
  BY <1>1 DEF Inv, QueuedOnce, AtWork
<1>10. th'[Compactor].pc = "load" /\ th'[Compactor].convo = h
  BY <1>3 DEF Moves
<1> HIDE DEF h
<1>11. QueueInv' /\ QueuedOnce'
  <2>1. queued' = Messages(queue)' \cup {h}
    BY <1>1, <1>5, <1>6, <1>9
  <2>2. h \notin Messages(queue)'
    BY <1>5, <1>6
  <2> QED BY <1>7, <1>8, <1>10, <2>1, <2>2 DEF QueueInv, QueuedOnce, AtWork
<1> QED BY <1>1, <1>3, <1>11, BetweenInv

LEMMA UnqueueInv ==
  ASSUME Inv, Unqueue
  PROVE  Inv'
<1> DEFINE c == th[Compactor].convo
<1>1. /\ UNCHANGED <<config, st, cache, req, queue, reaped>> /\ th[Compactor].pc = "unqueue"
      /\ ThStep(Compactor, "unmark") /\ queued' = queued \ {c}
  BY DEF Unqueue
<1>2. Moves(Compactor, "unmark", c)
  BY <1>1, ThStepIs DEF Inv, Thread
<1>3. th'[Compactor].pc = "unmark"
  BY <1>2 DEF Moves
<1>4. queued = Messages(queue) \cup {c} /\ c \notin Messages(queue)
  BY <1>1 DEF Inv, QueueInv, QueuedOnce, AtWork
<1>5. Messages(queue)' = Messages(queue)
  BY <1>1 DEF Messages
<1>6. queued' = Messages(queue)'
  BY <1>1, <1>4, <1>5
<1>7. QueueInv' /\ QueuedOnce'
  BY <1>1, <1>3, <1>6 DEF Inv, QueueInv, QueuedOnce, AtWork
<1> QED BY <1>1, <1>2, <1>7, BetweenInv

LEMMA RestInv ==
  ASSUME Inv, Unmark \/ WorkerExit
  PROVE  Inv'
<1>1. PICK p \in {"start", "done"} : ThStep(Compactor, p)
  BY DEF Unmark, WorkerExit
<1>2. UNCHANGED <<config, st, cache, req, queue, queued, reaped>> /\ th[Compactor].pc \in {"start", "unmark"}
  BY DEF Unmark, WorkerExit
<1>3. Moves(Compactor, p, th[Compactor].convo)
  BY <1>1, <1>2, ThStepIs DEF Inv, Thread
<1>4. Busy = {} /\ Busy' = {}
  BY <1>2, <1>3 DEF Moves, Busy, AtWork
<1>5. QueueInv' /\ QueuedOnce'
  BY <1>2, <1>4, QueueKept DEF Inv
<1> QED BY <1>2, <1>3, <1>5, BetweenInv

LEMMA CompactorInv ==
  ASSUME Inv, CompactorStep
  PROVE  Inv'
<1>1. Compactor \in Thread
  BY DEF Thread
<1> QED BY <1>1, DequeueInv, UnqueueInv, RestInv, CompactInv DEF CompactorStep

LEMMA CleanerInv ==
  ASSUME Inv, NEW k \in Cleaner, CleanerStep(k)
  PROVE  Inv'
<1>1. UNCHANGED <<config, th, req, queue, queued>>
  BY DEF CleanerStep, ScanStep, cleanup_loop, ScanProcess, ScanConvo, Judge, EvictProcess,
         RemoveProcess
<1>2. ReqOK'
  BY <1>1 DEF Inv, ReqOK, Request, config
<1>3. \A d : Open(d) => Open(d)'
  BY <1>1, OpenStays
<1>4. CASE ScanStep(k)
  BY <1>1, <1>2, <1>4, Quiet DEF ScanStep, cleanup_loop, ScanProcess, ScanConvo, Judge
<1>5. CASE EvictProcess(k)
  <2>1. CacheOK' /\ \A d \in Convo : cache'[d] = None \/ cache'[d] = cache[d]
    BY <1>5 DEF EvictProcess, Inv, CacheOK
  <2>2. UNCHANGED <<st, reaped>>
    BY <1>5 DEF EvictProcess
  <2>3. \A d \in Convo \ reaped' : Fresh(d)
    BY <1>3, <2>1, <2>2 DEF Fresh
  <2>4. StoreOK(st)' /\ CacheIsFresh'
    BY <2>2, <2>3, FreshKept DEF Inv, StoreOK
  <2> QED BY <1>1, <1>2, <2>1, <2>4, OthersInv
<1>6. CASE RemoveProcess(k)
  <2> DEFINE p == cleaner[k].pid
  <2>1. /\ UNCHANGED cache /\ reaped' = reaped \cup Removed
        /\ st' = json_delete_all_proc_convos(st, p) \/ st' = sqlite_delete_all_proc_convos(st, p)
    BY <1>6 DEF RemoveProcess
  <2> HIDE DEF p
  <2>2. RowsTaken(st, st')
    BY <2>1, DeleteProcIs DEF Inv
  <2>3. StoreOK(st)' /\ CacheOK' /\ CacheIsFresh'
    BY <1>3, <2>1, <2>2, RowsReaped DEF Inv
  <2> QED BY <1>1, <1>2, <2>3, OthersInv
<1> QED BY <1>4, <1>5, <1>6 DEF CleanerStep

LEMMA InitInv == Init => Inv
<1> SUFFICES ASSUME Init
             PROVE  Inv
  OBVIOUS
<1>1. load \in DOMAIN Load
  BY DEF Init
<1>2. StoreOK(st)
  <2> DEFINE there == {c \in Convo : Load[load].stored[c] > 0}
             e0 == EmptyStore
             R == [c \in Convo |-> StoredRow(c)]
             e1 == [e0 EXCEPT !.rows = R]
             E == there \cap Session
             U == {c[1] : c \in there \cap Session}
             D == IF backend = "json" THEN there ELSE {}
             S == [c \in Convo |-> <<>>]
  <2>1. st = [e0 EXCEPT !.rows = R, !.entry = E, !.users = U, !.dirs = D]
    BY DEF Init, EmptyStore
  <2>2. e1 = [rows |-> R, entry |-> {}, users |-> {}, dirs |-> {}, snaps |-> S]
    <3> DEFINE Q == [c \in Convo |-> None]
    <3>1. e0 = [rows |-> Q, entry |-> {}, users |-> {}, dirs |-> {}, snaps |-> S]
      BY DEF EmptyStore
    <3> HIDE DEF e0, Q, R, S
    <3> QED BY <3>1
  <2>3. R = [c \in Convo |-> R[c]]
    OBVIOUS
  <2>4. st = [[[e1 EXCEPT !.entry = E] EXCEPT !.users = U] EXCEPT !.dirs = D]
    BY <2>1
  <2> HIDE DEF R, e1, E, U, D, S
  <2>5. StoreOK(e1)
    BY <2>2, <2>3 DEF StoreOK
  <2>6. StoreOK([e1 EXCEPT !.entry = E])
    BY <2>5, EntryIs DEF RowsKept
  <2>7. StoreOK([[e1 EXCEPT !.entry = E] EXCEPT !.users = U])
    BY <2>6, UsersIs DEF RowsKept
  <2>8. StoreOK([[[e1 EXCEPT !.entry = E] EXCEPT !.users = U] EXCEPT !.dirs = D])
    BY <2>7, DirsIs DEF RowsKept
  <2> QED BY <2>4, <2>8
<1>3. CacheOK /\ CacheIsFresh
  BY DEF Init, CacheOK, CacheIsFresh
<1>4. ReqOK
  BY DEF Init, ReqOK
<1>5. ThreadOK /\ \A t \in Thread : th[t].pc = "start"
  BY DEF Init, ThreadOK
<1>6. th[Compactor].pc = "start" /\ DeleteInv
  BY <1>5 DEF Thread, DeleteInv
<1>7. queue = <<>> /\ queued = {} /\ Messages(queue) = {}
  BY DEF Init, Messages
<1>8. QueueInv /\ QueuedOnce
  BY <1>6, <1>7 DEF QueueInv, QueuedOnce, AtWork
<1> QED BY <1>1, <1>2, <1>3, <1>4, <1>5, <1>6, <1>8 DEF Inv

LEMMA NextInv == Inv /\ [Next]_vars => Inv'
<1> SUFFICES ASSUME Inv, [Next]_vars
             PROVE  Inv'
  OBVIOUS
<1>1. CASE \E r \in Request : RequestStep(r)
  BY <1>1, RequestInv
<1>2. CASE \E t \in Command : ThreadStep(t)
  BY <1>2, CommandInv
<1>3. CASE CompactorStep
  BY <1>3, CompactorInv
<1>4. CASE \E k \in Cleaner : CleanerStep(k)
  BY <1>4, CleanerInv
<1>5. CASE StopQueue \/ Tick \/ UNCHANGED vars
  <2>1. UNCHANGED <<config, th, queue, queued, st, cache, reaped, req>>
    BY <1>5 DEF StopQueue, Tick, vars
  <2>2. ReqOK'
    BY <2>1 DEF Inv, ReqOK, Request, config
  <2> QED BY <2>1, <2>2, Quiet
<1> QED BY <1>1, <1>2, <1>3, <1>4, <1>5 DEF Next

\* Whatever requests, commands, compaction and cleanup threads do in
\* whatever order, over either storage provider, a cached conversation is
\* the stored one, unless a thread that wrote it is on its way to evict it
\* or it was destroyed behind the cache.
THEOREM CacheAgrees == Spec => []CacheIsFresh
<1>1. Inv => CacheIsFresh
  BY DEF Inv
<1> QED BY InitInv, NextInv, <1>1, PTL DEF Spec

\* However requests and the compaction thread interleave, no conversation is
\* in the compaction queue twice, the one the compaction thread works on is not
\* in it, and queued_sessions_ is exactly the queue and that conversation: none
\* is dropped, none stays behind.
THEOREM OneCompaction == Spec => []QueuedOnce
<1>1. Inv => QueuedOnce
  BY DEF Inv
<1> QED BY InitInv, NextInv, <1>1, PTL DEF Spec

=============================================================================
