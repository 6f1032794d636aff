----------------------------- MODULE TurnProofs -----------------------------
(***************************************************************************)
(* Proof about Conversation, for every set of users, processes, requests   *)
(* and commands and both storage providers: no turn whose write was        *)
(* reported is lost, unless two writers of one conversation overlapped.    *)
(***************************************************************************)
EXTENDS ConversationProofs, WellFoundedInduction

\* No id of another user matches the pattern 'u_s%' of SQLite's deletes.
NobodyAlike == \A x \in Alike : x[1] = x[2]
\* A user's sessions are deleted alone.
OwnIds == backend = "json" \/ NobodyAlike

\* The worker of r is past the write of a message of that role.
Answered(r, role) ==
  /\ req[r].pc \notin {"queued", "read", "write"}
  /\ role = "assistant" => req[r].pc # "infer"
\* What can be stored anywhere by now.
Written == {m \in MessageType : \A r \in Request : m.by = <<"req", r>> => Answered(r, m.role)}

\* A row of c whose messages are in W; a process conversation names its owner.
RowOK(W, c, row) ==
  \/ row = None
  \/ /\ row \in RowType /\ row.msgs \in Seq(W)
     /\ c \in ProcConvo => row.creator_pid = c[1]
RowInv ==
  /\ \A c \in Convo : RowOK(Written, c, st.rows[c]) /\ RowOK(Written, c, cache[c])
  /\ st.snaps \in [Convo -> Seq(Seq(MessageType))]
WorkerInv(r) ==
  /\ req[r].pc \notin {"queued", "failed"} => req[r].convo \in Convo
  /\ req[r].pc = "write" => req[r].copy # None /\ RowOK(Written, req[r].convo, req[r].copy)

\* What the snapshots of c hold.
Snapped(c) == UNION {Messages(s) : s \in Messages(st.snaps[c])}
WithCopy == {"summarize", "snapshot", "persist", "undo"}
\* A thread that is about to replace a history has put into a snapshot
\* whatever of its copy is to be kept.
CopyInv(t) ==
  LET c == th[t].convo
      x == th[t].copy
  IN
  /\ t \in Command /\ th[t].pc \in {"create", "user", "index", "load"} \cup WithCopy => c \in Session
  /\ c \in Convo /\ th[t].pc \in WithCopy => RowOK(Written, c, x)
  /\ th[t].pc \in {"snapshot", "persist"} => x # None /\ Len(x.msgs) > KeepRecent + 1
  /\ c \in Convo /\ th[t].pc = "persist" => kept[c] \cap Messages(x.msgs) \subseteq Snapped(c)

TurnInv ==
  /\ now \in Nat /\ kept = [c \in Convo |-> kept[c]]
  /\ RowInv
  /\ \A r \in Request : WorkerInv(r)
  /\ \A t \in Thread : CopyInv(t)
  /\ TurnIsKept

----------------------------------------------------------------------------
(* Sequences of messages                                                   *)

\* Every set of numbers has a least one: induction over data is a least
\* counterexample.
LEMMA LeastNat ==
  ASSUME NEW T, T \subseteq Nat, T # {}
  PROVE  \E n \in T : \A m \in T : n <= m
<1> DEFINE R == {ss \in Nat \X Nat : ss[1] < ss[2]}
<1>1. IsWellFoundedOn(R, Nat)
  BY NatLessThanWellFounded DEF OpToRel
<1>2. \A m, n \in Nat : m < n => <<m, n>> \in R
  OBVIOUS
<1> HIDE DEF R
<1>3. PICK n \in T : \A m \in T : ~ (<<m, n>> \in R)
  BY <1>1, WFMin
<1>4. \A m \in T : ~(m < n)
  BY <1>2, <1>3
<1> QED BY <1>3, <1>4

\* A bounded one has a greatest.
LEMMA GreatestNat ==
  ASSUME NEW k \in Nat, NEW T, T \subseteq 0 .. k, T # {}
  PROVE  \E n \in T : \A m \in T : m <= n
<1> DEFINE D == {i \in Nat : \E n \in T : i = k - n}
<1>1. \A n \in T : n \in Nat /\ k - n \in D
  OBVIOUS
<1>2. D \subseteq Nat /\ D # {}
  BY <1>1
<1>3. \A i \in D : \E n \in T : i = k - n
  OBVIOUS
<1> HIDE DEF D
<1>4. PICK i \in D : \A j \in D : i <= j
  BY <1>2, LeastNat
<1>5. PICK n \in T : i = k - n
  BY <1>3
<1>6. \A m \in T : k - n <= k - m
  BY <1>1, <1>4, <1>5
<1>7. \A m \in T : m <= n
  BY <1>1, <1>6
<1> QED BY <1>7

LEMMA SeqIn ==
  ASSUME NEW S, NEW W, S \subseteq W, NEW s \in Seq(S)
  PROVE  s \in Seq(W) /\ Messages(s) \subseteq S
  BY DEF Messages

LEMMA SubSeqIn ==
  ASSUME NEW S, NEW s \in Seq(S), NEW i \in 1 .. Len(s) + 1, NEW j \in 0 .. Len(s)
  PROVE  SubSeq(s, i, j) \in Seq(S)
  OBVIOUS

LEMMA ConcatIn ==
  ASSUME NEW S, NEW s \in Seq(S), NEW z \in Seq(S)
  PROVE  s \o z \in Seq(S) /\ Messages(s \o z) = Messages(s) \cup Messages(z)
<1>1. /\ s \o z \in Seq(S) /\ Len(s \o z) = Len(s) + Len(z) /\ Len(s) \in Nat /\ Len(z) \in Nat
      /\ \A i \in 1 .. Len(s) : (s \o z)[i] = s[i]
      /\ \A i \in 1 .. Len(z) : (s \o z)[Len(s) + i] = z[i]
  OBVIOUS
<1>2. Messages(s) \subseteq Messages(s \o z)
  BY <1>1 DEF Messages
<1>3. Messages(z) \subseteq Messages(s \o z)
  <2> SUFFICES ASSUME NEW i \in 1 .. Len(z)
               PROVE  z[i] \in Messages(s \o z)
    BY DEF Messages
  <2>1. Len(s) + i \in 1 .. Len(s \o z)
    BY <1>1
  <2> QED BY <1>1, <2>1 DEF Messages
<1>4. Messages(s \o z) \subseteq Messages(s) \cup Messages(z)
  <2> SUFFICES ASSUME NEW i \in 1 .. Len(s \o z)
               PROVE  (s \o z)[i] \in Messages(s) \cup Messages(z)
    BY DEF Messages
  <2>1. CASE i \in 1 .. Len(s)
    BY <1>1, <2>1 DEF Messages
  <2>2. CASE i \notin 1 .. Len(s)
    <3>1. i - Len(s) \in 1 .. Len(z) /\ i = Len(s) + (i - Len(s))
      BY <1>1, <2>2
    <3> QED BY <1>1, <3>1 DEF Messages
  <2> QED BY <2>1, <2>2
<1> QED BY <1>1, <1>2, <1>3, <1>4

LEMMA OneMessage ==
  ASSUME NEW S, NEW m \in S
  PROVE  <<m>> \in Seq(S) /\ Messages(<<m>>) = {m} /\ Len(<<m>>) = 1
  BY DEF Messages

\* std::remove_if takes the system messages out and keeps every other one.
LEMMA WithoutSystemIs ==
  ASSUME NEW S, NEW s \in Seq(S)
  PROVE  /\ WithoutSystem(s) \in Seq(S)
         /\ \A m \in Messages(s) : NotSystem(m) => m \in Messages(WithoutSystem(s))
<1> DEFINE Body(F, i) == IF i = 0 THEN <<>>
                         ELSE IF NotSystem(s[i]) THEN Append(F[i - 1], s[i]) ELSE F[i - 1]
           There(n) == \E G : G = [i \in 0 .. n |-> Body(G, i)]
           F == CHOOSE G : G = [i \in 0 .. Len(s) |-> Body(G, i)]
<1>1. There(0)
  <2> DEFINE G == [i \in 0 .. 0 |-> <<>>]
  <2>1. G = [i \in 0 .. 0 |-> Body(G, i)]
    OBVIOUS
  <2> QED BY <2>1
<1>2. ASSUME NEW n \in Nat, n # 0, There(n - 1)
      PROVE  There(n)
  <2>1. PICK G : G = [i \in 0 .. n - 1 |-> Body(G, i)]
    BY <1>2
  <2> DEFINE x == Body(G, n)
             H == [i \in 0 .. n |-> IF i = n THEN x ELSE G[i]]
  <2>2. \A i \in 0 .. n - 1 : G[i] = Body(G, i) /\ H[i] = G[i]
    <3> DEFINE B == [i \in 0 .. n - 1 |-> Body(G, i)]
    <3>1. \A i \in 0 .. n - 1 : B[i] = Body(G, i)
      OBVIOUS
    <3>2. G = B
      BY <2>1
    <3> HIDE DEF B
    <3>3. \A i \in 0 .. n - 1 : G[i] = Body(G, i)
      BY <3>1, <3>2
    <3>4. \A i \in 0 .. n - 1 : i \in 0 .. n /\ i # n
      OBVIOUS
    <3> QED BY <3>3, <3>4
  <2>3. \A i \in 0 .. n : i # 0 => i - 1 \in 0 .. n - 1
    OBVIOUS
  <2>4. \A i \in 0 .. n : Body(H, i) = Body(G, i)
    BY <2>2, <2>3
  <2>5. \A i \in 0 .. n : H[i] = Body(H, i)
    <3>1. H[n] = Body(G, n)
      OBVIOUS
    <3>2. \A i \in 0 .. n : i = n \/ i \in 0 .. n - 1
      OBVIOUS
    <3>3. \A i \in 0 .. n : H[i] = Body(G, i)
      BY <2>2, <3>1, <3>2
    <3> HIDE DEF H
    <3> QED BY <2>4, <3>3
  <2>6. H = [i \in 0 .. n |-> H[i]]
    OBVIOUS
  <2> HIDE DEF H
  <2>7. H = [i \in 0 .. n |-> Body(H, i)]
    BY <2>5, <2>6
  <2> QED BY <2>7
<1>3. \A n \in Nat : There(n)
  <2> DEFINE T == {n \in Nat : ~There(n)}
  <2> HIDE DEF There
  <2> SUFFICES ASSUME T # {}
               PROVE  FALSE
    OBVIOUS
  <2>1. PICK n \in T : \A m \in T : n <= m
    BY LeastNat
  <2>2. n # 0 /\ n - 1 \in Nat
    BY <1>1, <2>1
  <2>3. There(n - 1)
    BY <2>1, <2>2
  <2> QED BY <1>2, <2>1, <2>2, <2>3
<1>4. Len(s) \in Nat
  OBVIOUS
<1>5. F = [i \in 0 .. Len(s) |-> Body(F, i)]
  <2>1. There(Len(s))
    <3> HIDE DEF There
    <3> QED BY <1>3, <1>4
  <2> QED BY <2>1
<1>6. WithoutSystem(s) = F[Len(s)]
  BY DEF WithoutSystem
<1> HIDE DEF F
<1> DEFINE Good(i) == F[i] \in Seq(S) /\ \A j \in 1 .. i : NotSystem(s[j]) => s[j] \in Messages(F[i])
<1>7. Good(0)
  <2> DEFINE B == [i \in 0 .. Len(s) |-> Body(F, i)]
  <2>1. B[0] = <<>>
    BY <1>4
  <2>2. F[0] = <<>>
    BY <1>5, <2>1
  <2> QED BY <2>2
<1>8. ASSUME NEW i \in 1 .. Len(s), Good(i - 1)
      PROVE  Good(i)
  <2>1. F[i] = IF NotSystem(s[i]) THEN Append(F[i - 1], s[i]) ELSE F[i - 1]
    <3> DEFINE B == [k \in 0 .. Len(s) |-> Body(F, k)]
    <3>1. B[i] = IF NotSystem(s[i]) THEN Append(F[i - 1], s[i]) ELSE F[i - 1]
      BY <1>4
    <3> QED BY <1>5, <3>1
  <2>2. s[i] \in S /\ F[i - 1] \in Seq(S) /\ \A j \in 1 .. i : j # i => j \in 1 .. i - 1
    BY <1>8
  <2>3. CASE NotSystem(s[i])
    <3>1. F[i] = Append(F[i - 1], s[i])
      BY <2>1, <2>3
    <3>2. F[i] \in Seq(S)
      BY <2>2, <3>1
    <3>3. Messages(F[i]) = Messages(F[i - 1]) \cup {s[i]}
      BY <2>2, <3>1, MessagesAppend
    <3> QED BY <1>8, <2>2, <3>2, <3>3
  <2>4. CASE ~NotSystem(s[i])
    BY <1>8, <2>1, <2>2, <2>4
  <2> QED BY <2>3, <2>4
<1>9. \A i \in 0 .. Len(s) : Good(i)
  <2> DEFINE T == {i \in 0 .. Len(s) : ~Good(i)}
  <2> HIDE DEF Good
  <2> SUFFICES ASSUME T # {}
               PROVE  FALSE
    OBVIOUS
  <2>1. PICK i \in T : \A m \in T : i <= m
    <3>1. T \subseteq Nat
      OBVIOUS
    <3> QED BY <3>1, LeastNat
  <2>2. i \in 1 .. Len(s) /\ i - 1 \in 0 .. Len(s)
    BY <1>4, <1>7, <2>1
  <2>3. Good(i - 1)
    BY <2>1, <2>2
  <2> QED BY <1>8, <2>1, <2>2, <2>3
<1>10. Good(Len(s))
  BY <1>4, <1>9
<1> QED BY <1>6, <1>10 DEF Messages

\* What undo cuts off starts at a message of the history, if anywhere.
LEMMA CutFromIs ==
  ASSUME NEW S, NEW s \in Seq(S)
  PROVE  CutFrom(s) \in 0 .. Len(s)
<1> DEFINE At(role, n) == {i \in 1 .. n : s[i].role = role}
           L(role, n) == IF At(role, n) = {} THEN 0 ELSE CHOOSE i \in At(role, n) : \A j \in At(role, n) : j <= i
<1>1. ASSUME NEW role, NEW n \in 0 .. Len(s)
      PROVE  L(role, n) \in 0 .. Len(s)
  <2> DEFINE T == At(role, n)
  <2>1. CASE T = {}
    BY <2>1
  <2>2. CASE T # {}
    <3>1. T \subseteq 0 .. n /\ n \in Nat
      OBVIOUS
    <3> HIDE DEF At
    <3>2. \E i \in T : \A j \in T : j <= i
      BY <2>2, <3>1, GreatestNat
    <3>3. L(role, n) \in T
      BY <2>2, <3>2
    <3> QED BY <3>1, <3>3
  <2> QED BY <2>1, <2>2
<1>2. CutFrom(s) = L("user", L("assistant", Len(s)))
  BY DEF CutFrom
<1>3. Len(s) \in 0 .. Len(s)
  OBVIOUS
<1> HIDE DEF L
<1>4. L("assistant", Len(s)) \in 0 .. Len(s)
  BY <1>1, <1>3
<1> QED BY <1>1, <1>2, <1>4

LEMMA LastOfIs ==
  ASSUME NEW S, S \subseteq Session, S # {}
  PROVE  LastOf(S) \in S
<1> DEFINE T == {n \in 0 .. MaxSession : \E c \in S : c[2] = n}
<1>1. \A c \in S : c[2] \in T
  BY StorageAssumption DEF Session
<1>2. T \subseteq 0 .. MaxSession /\ T # {} /\ MaxSession \in Nat
  BY <1>1, StorageAssumption
<1>3. PICK n \in T : \A m \in T : m <= n
  BY <1>2, GreatestNat
<1>4. \E c \in S : \A d \in S : d[2] <= c[2]
  BY <1>1, <1>3
<1> QED BY <1>4 DEF LastOf

----------------------------------------------------------------------------
(* Rows                                                                    *)

LEMMA WrittenGrows ==
  ASSUME UNCHANGED config, \A r \in Request : \A role : Answered(r, role) => Answered(r, role)'
  PROVE  Written \subseteq Written'
<1>1. Request' = Request
  BY DEF Request, config
<1> QED BY <1>1 DEF Written

LEMMA RowGrows ==
  ASSUME NEW V, NEW W, V \subseteq W, NEW c, NEW row, RowOK(V, c, row)
  PROVE  RowOK(W, c, row)
<1>1. row # None => row.msgs \in Seq(W)
  BY SeqIn DEF RowOK
<1> QED BY <1>1 DEF RowOK

OfMessages(W) == W \subseteq MessageType
Owns(c, p) == c \in ProcConvo => p = c[1]
RowAt(W, c, row) == RowOK(W, c, row) /\ row # None
\* A record of the fields of a row.
Row(m, p, a, k) == [msgs |-> m, creator_pid |-> p, last_activity |-> a, tokens |-> k]

LEMMA RowFields ==
  ASSUME NEW W, NEW c, NEW row, RowAt(W, c, row)
  PROVE  /\ row.msgs \in Seq(W)
         /\ \E p \in Pid \cup {None}, a \in Nat, k \in Nat :
              row = Row(row.msgs, p, a, k) /\ Owns(c, p)
<1>1. /\ row = [msgs |-> row.msgs, creator_pid |-> row.creator_pid,
                last_activity |-> row.last_activity, tokens |-> row.tokens]
      /\ row.msgs \in Seq(W) /\ row.creator_pid \in Pid \cup {None}
      /\ row.last_activity \in Nat /\ row.tokens \in Nat
      /\ c \in ProcConvo => row.creator_pid = c[1]
  BY DEF RowOK, RowAt, RowType
<1> QED BY <1>1 DEF Row, Owns

LEMMA RowIs ==
  ASSUME NEW W, OfMessages(W), NEW c, NEW m \in Seq(W), NEW p \in Pid \cup {None},
         NEW a \in Nat, NEW k \in Nat, Owns(c, p)
  PROVE  RowAt(W, c, Row(m, p, a, k))
<1>1. m \in Seq(MessageType)
  BY SeqIn DEF OfMessages
<1> DEFINE row == Row(m, p, a, k)
<1>2. row \in RowType /\ row.msgs = m /\ row.creator_pid = p
  BY <1>1 DEF RowType, Row
<1> QED BY <1>2, ConversationAssumption DEF RowOK, RowAt, Owns

\* Fields of a row are replaced one after the other.
Edited(row, n, i, b) == [row EXCEPT !.msgs = n, !.tokens = i, !.last_activity = b]
Replaced(row, n, i) == [row EXCEPT !.msgs = n, !.tokens = i]
Bare(row, n) == [row EXCEPT !.msgs = n]

LEMMA RowExcept ==
  ASSUME NEW m, NEW p, NEW a, NEW k, NEW n, NEW b, NEW i, NEW row, row = Row(m, p, a, k)
  PROVE  /\ row.msgs = m /\ row.tokens = k
         /\ Bare(row, n) = Row(n, p, a, k)
         /\ Replaced(row, n, i) = Row(n, p, a, i)
         /\ Edited(row, n, i, b) = Row(n, p, b, i)
<1> DEFINE r1 == [row EXCEPT !.msgs = n]
           r2 == [r1 EXCEPT !.tokens = i]
           r3 == [r2 EXCEPT !.last_activity = b]
<1>1. row.msgs = m /\ row.tokens = k
  BY DEF Row
<1>2. r1 = Row(n, p, a, k)
  BY DEF Row
<1>3. Replaced(row, n, i) = r2
  BY DEF Replaced
<1>4. Edited(row, n, i, b) = r3
  BY DEF Edited
<1>5. Bare(row, n) = r1
  BY DEF Bare
<1> HIDE DEF r1
<1>6. r2 = Row(n, p, a, i)
  BY <1>2 DEF Row
<1> HIDE DEF r2
<1>7. r3 = Row(n, p, b, i)
  BY <1>6 DEF Row
<1> QED BY <1>1, <1>2, <1>3, <1>4, <1>5, <1>6, <1>7

\* Messages are added to the end of a row.
Appended(W, c, row, ms, n) ==
  RowAt(W, c, n) /\ Messages(n.msgs) = Messages(row.msgs) \cup Messages(ms)

LEMMA AppendIs ==
  ASSUME NEW W, OfMessages(W), NEW c, NEW row, RowAt(W, c, row),
         NEW ms \in Seq(W), now \in Nat
  PROVE  Appended(W, c, row, ms, append_message_unlocked(row, ms))
<1> DEFINE n == append_message_unlocked(row, ms)
           q == row.msgs
           z == q \o ms
<1>1. q \in Seq(W)
  BY RowFields
<1>2. PICK p \in Pid \cup {None}, a \in Nat, k \in Nat :
        row = Row(q, p, a, k) /\ Owns(c, p)
  BY RowFields
<1> HIDE DEF q
<1> DEFINE i == k + Len(ms)
<1>3. n = Row(z, p, now, i)
  <2>1. row.tokens = k /\ row.msgs = q
    BY <1>2, RowExcept
  <2>2. n = Edited(row, z, i, now)
    BY <2>1 DEF append_message_unlocked, Edited
  <2> HIDE DEF z, i, n
  <2> QED BY <1>2, <2>2, RowExcept
<1>4. z \in Seq(W) /\ Messages(z) = Messages(q) \cup Messages(ms)
  BY <1>1, ConcatIn
<1>5. i \in Nat
  BY <1>2
<1> HIDE DEF n, z, i
<1>6. RowAt(W, c, n) /\ n.msgs = z
  <2>1. RowAt(W, c, Row(z, p, now, i))
    BY <1>2, <1>4, <1>5, RowIs
  <2> QED BY <1>3, <2>1, RowExcept
<1> QED BY <1>4, <1>6 DEF n, q, Appended

\* An explicit prompt takes out nothing but older system messages.
LEMMA WithSystemIs ==
  ASSUME NEW W, OfMessages(W), NEW c, NEW row, RowAt(W, c, row), now \in Nat,
         NEW r, Message(<<"req", r>>, "system") \in W
  PROVE  /\ RowAt(W, c, WithSystem(r, row))
         /\ \A m \in Messages(row.msgs) : (r.system = "override" => NotSystem(m))
                                          => m \in Messages(WithSystem(r, row).msgs)
<1> DEFINE sys == <<Message(<<"req", r>>, "system")>>
           z == WithoutSystem(row.msgs)
           bare == Bare(row, z)
<1>1. sys \in Seq(W)
  BY OneMessage
<1>2. row.msgs \in Seq(W)
  BY RowFields
<1>3. z \in Seq(W) /\ \A m \in Messages(row.msgs) : NotSystem(m) => m \in Messages(z)
  BY <1>2, WithoutSystemIs
<1>4. CASE r.system = "override"
  <2>1. WithSystem(r, row) = append_message_unlocked(bare, sys)
    BY <1>4 DEF WithSystem, Bare
  <2> HIDE DEF z, sys
  <2>2. PICK p \in Pid \cup {None}, a \in Nat, k \in Nat :
          row = Row(row.msgs, p, a, k) /\ Owns(c, p)
    BY RowFields
  <2>3. bare = Row(z, p, a, k)
    BY <2>2, RowExcept
  <2> HIDE DEF bare
  <2>4. RowAt(W, c, bare) /\ bare.msgs = z
    BY <1>3, <2>2, <2>3, RowIs, RowExcept
  <2>5. /\ RowAt(W, c, WithSystem(r, row))
        /\ Messages(WithSystem(r, row).msgs) = Messages(z) \cup Messages(sys)
    BY <1>1, <2>1, <2>4, AppendIs DEF Appended
  <2> QED BY <1>3, <1>4, <2>5
<1>5. CASE r.system # "override" /\ r.system = "plain" /\ row.msgs = <<>>
  <2>1. WithSystem(r, row) = append_message_unlocked(row, sys)
    BY <1>5 DEF WithSystem
  <2> HIDE DEF sys
  <2>2. /\ RowAt(W, c, WithSystem(r, row))
        /\ Messages(WithSystem(r, row).msgs) = Messages(row.msgs) \cup Messages(sys)
    <3>1. Appended(W, c, row, sys, append_message_unlocked(row, sys))
      BY <1>1, AppendIs
    <3> QED BY <2>1, <3>1 DEF Appended
  <2> QED BY <2>2
<1>6. CASE r.system # "override" /\ ~(r.system = "plain" /\ row.msgs = <<>>)
  <2>1. WithSystem(r, row) = row
    BY <1>6 DEF WithSystem
  <2> QED BY <2>1, <1>6
<1> QED BY <1>4, <1>5, <1>6

----------------------------------------------------------------------------
(* What the providers do to the snapshots                                  *)

LEMMA FieldSnaps ==
  ASSUME NEW s, StoreOK(s), NEW X
  PROVE  /\ [s EXCEPT !.dirs = X].snaps = s.snaps
         /\ [s EXCEPT !.users = X].snaps = s.snaps
         /\ [s EXCEPT !.entry = X].snaps = s.snaps
         /\ [s EXCEPT !.snaps = X].snaps = X
<1> DEFINE R == s.rows
           E == s.entry
           U == s.users
           F == s.dirs
           S == s.snaps
<1>1. s = [rows |-> R, entry |-> E, users |-> U, dirs |-> F, snaps |-> S]
  BY DEF StoreOK
<1> HIDE DEF R, E, U, F
<1> QED BY <1>1

LEMMA UpsertSnaps ==
  ASSUME NEW s, StoreOK(s), NEW c, NEW row
  PROVE  Upsert(s, c, row).snaps = s.snaps
<1> DEFINE R == [s.rows EXCEPT ![c] = row]
           D == IF backend = "json" THEN s.dirs \cup {c} ELSE s.dirs
           n == [rows |-> R, entry |-> s.entry, users |-> s.users, dirs |-> D, snaps |-> s.snaps]
<1>1. Upsert(s, c, row) = n
  BY DEF Upsert, json_upsert_conversation, sqlite_upsert_conversation, StoreOK
<1> HIDE DEF R, D
<1> QED BY <1>1

LEMMA IndexedSnaps ==
  ASSUME NEW s, StoreOK(s), NEW c
  PROVE  Indexed(s, c).snaps = s.snaps
<1> DEFINE U == s.users \cup {extract_super_user(c)}
           E == s.entry \cup {c}
           n == [rows |-> s.rows, entry |-> E, users |-> U, dirs |-> s.dirs, snaps |-> s.snaps]
<1>1. Indexed(s, c) = n
  BY DEF Indexed, json_upsert_session_index_entry, sqlite_upsert_session_index_entry, StoreOK
<1> HIDE DEF U, E
<1> QED BY <1>1

LEMMA WithoutSnaps ==
  ASSUME NEW s, StoreOK(s), NEW D
  PROVE  Without(s, D).snaps = s.snaps
<1> DEFINE R == [c \in Convo |-> IF c \in D THEN None ELSE s.rows[c]]
           n == [rows |-> R, entry |-> s.entry, users |-> s.users, dirs |-> s.dirs, snaps |-> s.snaps]
<1>1. Without(s, D) = n
  BY DEF Without, StoreOK
<1> HIDE DEF R
<1> QED BY <1>1

SnapsOK(S) == S \in [Convo -> Seq(Seq(MessageType))]
\* What a set of snapshots holds for one conversation.
SnappedIn(S, c) == UNION {Messages(z) : z \in Messages(S[c])}

\* A snapshot is added to those of one conversation.
LEMMA AppendSnaps ==
  ASSUME NEW s, StoreOK(s), SnapsOK(s.snaps), NEW c, NEW msgs, c \in Convo => msgs \in Seq(MessageType),
         NEW n, n = json_append_snapshot(s, c, msgs) \/ n = sqlite_append_snapshot(s, c, msgs)
  PROVE  /\ SnapsOK(n.snaps)
         /\ \A d \in Convo : SnappedIn(s.snaps, d) \subseteq SnappedIn(n.snaps, d)
         /\ c \in Convo => Messages(msgs) \subseteq SnappedIn(n.snaps, c)
<1> DEFINE T == s.snaps
           S == [T EXCEPT ![c] = Append(T[c], msgs)]
           D == s.dirs \cup {c}
           v == [s EXCEPT !.snaps = S]
<1>1. \/ n = [s EXCEPT !.snaps = S, !.dirs = D]
      \/ n = v
  BY DEF json_append_snapshot, sqlite_append_snapshot, StoreOK
<1>2. [s EXCEPT !.snaps = S, !.dirs = D] = [v EXCEPT !.dirs = D]
  OBVIOUS
<1>3. v.snaps = S /\ StoreOK(v)
  <2> HIDE DEF S
  <2> QED BY FieldSnaps, SnapsIs DEF RowsKept
<1> HIDE DEF v, D
<1>4. n.snaps = S
  <2>1. [v EXCEPT !.dirs = D].snaps = v.snaps
    BY <1>3, FieldSnaps
  <2> HIDE DEF S
  <2> QED BY <1>1, <1>2, <1>3, <2>1
<1>5. T \in [Convo -> Seq(Seq(MessageType))]
  BY DEF SnapsOK
<1> HIDE DEF T
<1>6. CASE c \in Convo
  <2>1. /\ T[c] \in Seq(Seq(MessageType)) /\ msgs \in Seq(MessageType)
        /\ S \in [Convo -> Seq(Seq(MessageType))]
        /\ S[c] = Append(T[c], msgs) /\ \A d \in Convo : d # c => S[d] = T[d]
    BY <1>5, <1>6
  <2>2. Messages(S[c]) = Messages(T[c]) \cup {msgs}
    BY <2>1, MessagesAppend
  <2> HIDE DEF S
  <2>3. SnapsOK(S)
    BY <2>1 DEF SnapsOK
  <2>4. SnappedIn(T, c) \subseteq SnappedIn(S, c) /\ Messages(msgs) \subseteq SnappedIn(S, c)
    BY <2>2 DEF SnappedIn
  <2>5. \A d \in Convo : SnappedIn(T, d) \subseteq SnappedIn(S, d)
    BY <2>1, <2>4 DEF SnappedIn
  <2> QED BY <1>4, <2>3, <2>4, <2>5 DEF T
<1>7. CASE c \notin Convo
  <2>1. S = T
    BY <1>5, <1>7
  <2> HIDE DEF S
  <2>2. SnapsOK(S) /\ \A d : SnappedIn(T, d) \subseteq SnappedIn(S, d)
    BY <1>5, <2>1 DEF SnapsOK
  <2> QED BY <1>4, <1>7, <2>2 DEF T
<1> QED BY <1>6, <1>7

LEMMA DeleteSnaps ==
  ASSUME NEW s, StoreOK(s), SnapsOK(s.snaps), NEW c,
         NEW n, n = json_delete_snapshots(s, c) \/ n = sqlite_delete_snapshots(s, c)
  PROVE  SnapsOK(n.snaps) /\ \A d \in Convo : d # c => n.snaps[d] = s.snaps[d]
<1> DEFINE T == s.snaps
           S == [T EXCEPT ![c] = <<>>]
           v == [s EXCEPT !.snaps = S]
<1>1. n = v
  BY DEF json_delete_snapshots, sqlite_delete_snapshots, StoreOK
<1>2. v.snaps = S
  <2> HIDE DEF S
  <2> QED BY FieldSnaps
<1>3. T \in [Convo -> Seq(Seq(MessageType))]
  BY DEF SnapsOK
<1> HIDE DEF T, v
<1>4. S \in [Convo -> Seq(Seq(MessageType))] /\ \A d \in Convo : d # c => S[d] = T[d]
  <2> DEFINE Z == Seq(Seq(MessageType))
  <2>1. <<>> \in Z
    OBVIOUS
  <2> HIDE DEF Z
  <2> QED BY <1>3, <2>1 DEF Z
<1> QED BY <1>1, <1>2, <1>4 DEF SnapsOK, T

\* A destroyed user takes along the rows and the snapshots of its sessions.
LEMMA DeleteUserAll ==
  ASSUME NEW s, StoreOK(s), SnapsOK(s.snaps), NEW u \in SuperUser, NEW n,
         n = json_delete_super_user(s, u) \/ (NobodyAlike /\ n = sqlite_delete_super_user(s, u))
  PROVE  /\ SnapsOK(n.snaps)
         /\ \A c \in Convo \ SessionsOf(u) : n.rows[c] = s.rows[c] /\ n.snaps[c] = s.snaps[c]
         /\ \A c \in Convo : n.rows[c] \in {None, s.rows[c]}
<1> DEFINE D == SessionsOf(u)
           w == Without(s, D)
           U == w.users \ {u}
           E == w.entry \ D
           F == w.dirs \ D
           S == [c \in Convo |-> IF c \in D THEN <<>> ELSE w.snaps[c]]
<1>1. NobodyAlike => UNION {SessionsOf(v) : v \in {u} \cup {x \in SuperUser : <<u, x>> \in Alike}} = D
  BY DEF NobodyAlike, SessionsOf
<1>2. \/ n = [w EXCEPT !.users = U, !.entry = E, !.dirs = F, !.snaps = S]
      \/ n = [w EXCEPT !.users = U, !.entry = E, !.snaps = S]
  BY <1>1 DEF json_delete_super_user, sqlite_delete_super_user
<1>3. /\ StoreOK(w) /\ w.snaps = s.snaps
      /\ \A c \in Convo : w.rows[c] = IF c \in D THEN None ELSE s.rows[c]
  BY WithoutIs, WithoutSnaps
<1>4. SnapsOK(S) /\ \A c \in Convo : c \notin D => S[c] = s.snaps[c]
  BY <1>3 DEF SnapsOK
<1> HIDE DEF w, U, E, F, S, D
<1>5. /\ RowsKept(w, [w EXCEPT !.users = U, !.entry = E, !.dirs = F, !.snaps = S])
      /\ RowsKept(w, [w EXCEPT !.users = U, !.entry = E, !.snaps = S])
  BY <1>3, StoreExcept
<1>6. n.rows = w.rows
  BY <1>2, <1>5 DEF RowsKept
<1>7. n.snaps = S
  <2> DEFINE w1 == [w EXCEPT !.users = U]
             w2 == [w1 EXCEPT !.entry = E]
             w3 == [w2 EXCEPT !.dirs = F]
  <2>1. StoreOK(w1)
    BY <1>3, UsersIs DEF RowsKept
  <2>2. [w EXCEPT !.users = U, !.entry = E, !.dirs = F, !.snaps = S] = [w3 EXCEPT !.snaps = S]
        /\ [w EXCEPT !.users = U, !.entry = E, !.snaps = S] = [w2 EXCEPT !.snaps = S]
    OBVIOUS
  <2> HIDE DEF w1
  <2>3. StoreOK(w2)
    BY <2>1, EntryIs DEF RowsKept
  <2> HIDE DEF w2
  <2>4. StoreOK(w3)
    BY <2>3, DirsIs DEF RowsKept
  <2> HIDE DEF w3
  <2>5. [w3 EXCEPT !.snaps = S].snaps = S /\ [w2 EXCEPT !.snaps = S].snaps = S
    BY <2>3, <2>4, FieldSnaps
  <2> QED BY <1>2, <2>2, <2>5
<1> QED BY <1>3, <1>4, <1>6, <1>7 DEF D

\* A cleanup takes the rows of one process, which name it in their id.
LEMMA DeleteProcAll ==
  ASSUME NEW s, StoreOK(s), NEW p, \A c \in ProcConvo : s.rows[c] # None => s.rows[c].creator_pid = c[1],
         NEW n, n = json_delete_all_proc_convos(s, p) \/ n = sqlite_delete_all_proc_convos(s, p)
  PROVE  /\ n.snaps = s.snaps
         /\ \A c \in Convo : n.rows[c] = s.rows[c] \/ (n.rows[c] = None /\ c[1] = p)
<1> DEFINE G == {c \in ProcConvo : c[1] = p}
           Q == RowsOf(s, p)
           w == Without(s, G)
           F == w.dirs \ G
<1>1. n = [w EXCEPT !.dirs = F] \/ n = Without(s, Q)
  BY DEF json_delete_all_proc_convos, sqlite_delete_all_proc_convos
<1>2. \A c \in G \cup Q : c[1] = p
  BY DEF RowsOf
<1> HIDE DEF G, Q
<1>3. /\ StoreOK(w) /\ w.snaps = s.snaps /\ Without(s, Q).snaps = s.snaps
      /\ \A c \in Convo : w.rows[c] = IF c \in G THEN None ELSE s.rows[c]
      /\ \A c \in Convo : Without(s, Q).rows[c] = IF c \in Q THEN None ELSE s.rows[c]
  BY WithoutIs, WithoutSnaps
<1> HIDE DEF w, F
<1>4. [w EXCEPT !.dirs = F].snaps = w.snaps /\ [w EXCEPT !.dirs = F].rows = w.rows
  BY <1>3, FieldSnaps, DirsIs DEF RowsKept
<1>5. CASE n = [w EXCEPT !.dirs = F]
  BY <1>2, <1>3, <1>4, <1>5
<1>6. CASE n = Without(s, Q)
  BY <1>2, <1>3, <1>6
<1> QED BY <1>1, <1>5, <1>6

----------------------------------------------------------------------------
(* Steps                                                                   *)

\* The worker of r alone moves, to p, at c and with x.
Goes(r, p, c, x) ==
  /\ req'[r].pc = p /\ req'[r].convo = c /\ req'[r].copy = x
  /\ \A q \in Request \ {r} : req'[q] = req[q]

LEMMA GoesIs ==
  ASSUME ReqOK, NEW r \in Request, NEW p, NEW c, NEW x
  PROVE  /\ ReqStep(r, p) => Goes(r, p, req[r].convo, req[r].copy)
         /\ req' = [req EXCEPT ![r].pc = p, ![r].convo = c] => Goes(r, p, c, req[r].copy)
         /\ req' = [req EXCEPT ![r].convo = c, ![r].pc = p] => Goes(r, p, c, req[r].copy)
         /\ req' = [req EXCEPT ![r].pc = p, ![r].copy = x] => Goes(r, p, req[r].convo, x)
<1> DEFINE w == req[r]
           a == w.pc
           b == w.convo
           y == w.copy
           m1 == [w EXCEPT !.pc = p]
           m2 == [w EXCEPT !.convo = c]
           n2 == [m1 EXCEPT !.convo = c]
           n3 == [m2 EXCEPT !.pc = p]
           n4 == [m1 EXCEPT !.copy = x]
<1>1. w = [pc |-> a, convo |-> b, copy |-> y]
  BY DEF ReqOK
<1>2. /\ ReqStep(r, p) => req' = [req EXCEPT ![r] = m1]
      /\ req' = [req EXCEPT ![r].pc = p, ![r].convo = c] => req' = [req EXCEPT ![r] = n2]
      /\ req' = [req EXCEPT ![r].convo = c, ![r].pc = p] => req' = [req EXCEPT ![r] = n3]
      /\ req' = [req EXCEPT ![r].pc = p, ![r].copy = x] => req' = [req EXCEPT ![r] = n4]
  BY DEF ReqOK, ReqStep
<1> HIDE DEF w, a, b, y
<1>3. m1 = [pc |-> p, convo |-> b, copy |-> y] /\ m2 = [pc |-> a, convo |-> c, copy |-> y]
  BY <1>1
<1> HIDE DEF m1, m2
<1>4. /\ n2 = [pc |-> p, convo |-> c, copy |-> y] /\ n3 = [pc |-> p, convo |-> c, copy |-> y]
      /\ n4 = [pc |-> p, convo |-> b, copy |-> x]
  BY <1>3
<1> HIDE DEF n2, n3, n4
<1>5. ASSUME NEW n, NEW d, NEW z, n = [pc |-> p, convo |-> d, copy |-> z], req' = [req EXCEPT ![r] = n]
      PROVE  Goes(r, p, d, z)
  <2>1. n.pc = p /\ n.convo = d /\ n.copy = z
    BY <1>5
  <2>2. req'[r] = n /\ \A q \in Request \ {r} : req'[q] = req[q]
    BY <1>5 DEF ReqOK
  <2> QED BY <2>1, <2>2 DEF Goes
<1>6. ReqStep(r, p) => Goes(r, p, b, y)
  BY <1>2, <1>3, <1>5
<1>7. req' = [req EXCEPT ![r].pc = p, ![r].convo = c] => Goes(r, p, c, y)
  BY <1>2, <1>4, <1>5
<1>8. req' = [req EXCEPT ![r].convo = c, ![r].pc = p] => Goes(r, p, c, y)
  BY <1>2, <1>4, <1>5
<1>9. req' = [req EXCEPT ![r].pc = p, ![r].copy = x] => Goes(r, p, b, x)
  BY <1>2, <1>4, <1>5
<1> QED BY <1>6, <1>7, <1>8, <1>9 DEF b, y, w

\* A thread keeps its copy, or makes one.
LEMMA CopyIs ==
  ASSUME ThreadOK, NEW t \in Thread, NEW p, NEW x
  PROVE  /\ ThStep(t, p) => th'[t].copy = th[t].copy
         /\ th' = [th EXCEPT ![t].copy = x, ![t].pc = p] => th'[t].copy = x
<1> DEFINE w == th[t]
           a == w.pc
           b == w.convo
           y == w.copy
           d == w.todo
           m1 == [w EXCEPT !.pc = p]
           m2 == [w EXCEPT !.copy = x]
           n2 == [m2 EXCEPT !.pc = p]
<1>1. w = [pc |-> a, convo |-> b, copy |-> y, todo |-> d]
  BY DEF ThreadOK
<1>2. /\ ThStep(t, p) => th' = [th EXCEPT ![t] = m1]
      /\ th' = [th EXCEPT ![t].copy = x, ![t].pc = p] => th' = [th EXCEPT ![t] = n2]
  BY DEF ThreadOK, ThStep
<1> HIDE DEF w, a, b, y, d
<1>3. m1.copy = y /\ m2 = [pc |-> a, convo |-> b, copy |-> x, todo |-> d]
  BY <1>1
<1> HIDE DEF m1, m2
<1>4. n2.copy = x
  BY <1>3
<1> HIDE DEF n2
<1>5. \A n : th' = [th EXCEPT ![t] = n] => th'[t] = n
  BY DEF ThreadOK
<1>6. ThStep(t, p) => th'[t].copy = y
  BY <1>2, <1>3, <1>5
<1>7. th' = [th EXCEPT ![t].copy = x, ![t].pc = p] => th'[t].copy = x
  BY <1>2, <1>4, <1>5
<1> QED BY <1>6, <1>7 DEF y, w

\* No worker goes back behind its writes.
LEMMA WorkerAhead ==
  ASSUME UNCHANGED config, NEW r \in Request, NEW p, NEW c, NEW x, Goes(r, p, c, x),
         p \in {"queued", "read", "write"} => req[r].pc \in {"queued", "read", "write"},
         p = "infer" => req[r].pc \in {"queued", "read", "write", "infer"}
  PROVE  Written \subseteq Written'
<1>1. \A q \in Request : \A role : Answered(q, role) => Answered(q, role)'
  <2> SUFFICES ASSUME NEW q \in Request, NEW role, Answered(q, role)
               PROVE  Answered(q, role)'
    OBVIOUS
  <2>1. CASE q = r
    BY <2>1 DEF Answered, Goes
  <2>2. CASE q # r
    BY <2>2 DEF Answered, Goes
  <2> QED BY <2>1, <2>2
<1> QED BY <1>1, WrittenGrows

LEMMA WorkersStay ==
  ASSUME UNCHANGED <<config, req>>
  PROVE  Written \subseteq Written' /\ \A r \in Request : req'[r] = req[r]
<1>1. \A q \in Request : \A role : Answered(q, role) => Answered(q, role)'
  BY DEF Answered
<1> QED BY <1>1, WrittenGrows

\* What a store holds of a conversation.
RecordedIn(s, c) ==
  (IF s.rows[c] = None THEN {} ELSE Messages(s.rows[c].msgs)) \cup SnappedIn(s.snaps, c)

RowsStep == \A c \in Convo : st'.rows[c] \in {None, st.rows[c]} \/ RowOK(Written', c, st'.rows[c])
CacheStep == \A c \in Convo : \/ cache'[c] \in {None, cache[c], st.rows[c]}
                              \/ RowOK(Written', c, cache'[c])
\* What is new is in no copy, and what is still kept stays in its snapshot.
KeptStep ==
  \A c \in Convo : /\ kept'[c] \cap Written \subseteq kept[c]
                   /\ kept'[c] \cap SnappedIn(st.snaps, c) \subseteq SnappedIn(st'.snaps, c)
TurnStep ==
  /\ raced \subseteq raced'
  /\ \A c \in Convo \ raced' :
       \/ kept'[c] \subseteq RecordedIn(st', c)
       \/ kept'[c] \subseteq kept[c] /\ RecordedIn(st, c) \subseteq RecordedIn(st', c)

LEMMA TurnFrame ==
  ASSUME TurnInv, UNCHANGED config, Written \subseteq Written', now' \in Nat,
         kept' = [c \in Convo |-> kept'[c]], SnapsOK(st'.snaps), RowsStep, CacheStep,
         \A r \in Request : req'[r] = req[r] \/ WorkerInv(r)',
         \A t \in Thread : th'[t] = th[t] \/ CopyInv(t)',
         KeptStep, TurnStep
  PROVE  TurnInv'
<1>1. Request' = Request /\ Thread' = Thread /\ Command' = Command
  BY DEF config, Request, Thread, Command
<1>2. \A c : \A row : RowOK(Written, c, row) => RowOK(Written', c, row)
  BY RowGrows
<1>3. RowInv'
  <2>1. \A c \in Convo : RowOK(Written, c, st.rows[c]) /\ RowOK(Written, c, cache[c])
    BY DEF TurnInv, RowInv
  <2>2. \A c : RowOK(Written', c, None)
    BY DEF RowOK
  <2>3. \A c \in Convo : RowOK(Written', c, st'.rows[c]) /\ RowOK(Written', c, cache'[c])
    BY <1>2, <2>1, <2>2 DEF RowsStep, CacheStep
  <2> QED BY <2>3 DEF RowInv, SnapsOK, RowOK
<1>4. ASSUME NEW r \in Request
      PROVE  WorkerInv(r)'
  <2>1. CASE req'[r] = req[r]
    <3>1. WorkerInv(r)
      BY DEF TurnInv
    <3>2. RowOK(Written, req[r].convo, req[r].copy) => RowOK(Written', req'[r].convo, req'[r].copy)
      BY <1>2, <2>1
    <3> QED BY <2>1, <3>1, <3>2 DEF WorkerInv, RowOK
  <2> QED BY <2>1
<1>5. ASSUME NEW t \in Thread
      PROVE  CopyInv(t)'
  <2>1. CASE th'[t] = th[t]
    <3> DEFINE c == th[t].convo
               x == th[t].copy
    <3>1. CopyInv(t)
      BY DEF TurnInv
    <3>2. RowOK(Written, c, x) => RowOK(Written', c, x)
      BY <1>2
    <3>3. ASSUME c \in Convo, th[t].pc = "persist"
          PROVE  kept'[c] \cap Messages(x.msgs) \subseteq SnappedIn(st'.snaps, c)
      <4>1. x # None /\ RowOK(Written, c, x) /\ kept[c] \cap Messages(x.msgs) \subseteq SnappedIn(st.snaps, c)
        BY <3>1, <3>3 DEF CopyInv, Snapped, SnappedIn, WithCopy
      <4>2. Messages(x.msgs) \subseteq Written
        BY <4>1, SeqIn DEF RowOK
      <4> QED BY <3>3, <4>1, <4>2 DEF KeptStep
    <3>4. (th[t].pc = "persist" /\ c \in Convo) => kept'[c] \cap Messages(x.msgs) \subseteq Snapped(c)'
      BY <2>1, <3>3 DEF Snapped, SnappedIn
    <3> QED BY <1>1, <2>1, <3>1, <3>2, <3>4 DEF CopyInv, RowOK
  <2> QED BY <2>1
<1>6. TurnIsKept'
  <2>1. \A c : Recorded(c) = RecordedIn(st, c)
    BY DEF Recorded, RecordedIn, SnappedIn
  <2>2. \A c : Recorded(c)' = RecordedIn(st', c)
    BY DEF Recorded, RecordedIn, SnappedIn
  <2>3. \A c \in Convo \ raced : kept[c] \subseteq RecordedIn(st, c)
    BY <2>1 DEF TurnInv, TurnIsKept
  <2>4. \A c \in Convo \ raced' : kept'[c] \subseteq RecordedIn(st', c)
    BY <2>3 DEF TurnStep
  <2> QED BY <2>2, <2>4 DEF TurnIsKept
<1> QED BY <1>1, <1>3, <1>4, <1>5, <1>6 DEF TurnInv

\* A step that writes no row, drops no snapshot and reports nothing.
LEMMA StoreStays ==
  ASSUME TurnInv, st'.rows = st.rows, st'.snaps = st.snaps, UNCHANGED <<kept, raced>>
  PROVE  /\ SnapsOK(st'.snaps) /\ RowsStep /\ KeptStep /\ TurnStep
         /\ kept' = [c \in Convo |-> kept'[c]]
<1>1. SnapsOK(st'.snaps) /\ kept' = [c \in Convo |-> kept'[c]]
  BY DEF TurnInv, RowInv, SnapsOK
<1>2. \A c : RecordedIn(st', c) = RecordedIn(st, c) /\ SnappedIn(st'.snaps, c) = SnappedIn(st.snaps, c)
  BY DEF RecordedIn
<1> QED BY <1>1, <1>2 DEF RowsStep, KeptStep, TurnStep

\* One row is written, and K is what is to be kept of its conversation.
LEMMA StoreWrite ==
  ASSUME Inv, TurnInv, NEW c, NEW row, st' = Upsert(st, c, row), raced \subseteq raced',
         c \in Convo => RowOK(Written', c, row),
         NEW K, kept' = [kept EXCEPT ![c] = K],
         c \in Convo => K \cap Written \subseteq kept[c],
         c \in Convo \ raced' => K \subseteq (IF row = None THEN {} ELSE Messages(row.msgs))
                                             \cup SnappedIn(st.snaps, c)
  PROVE  /\ SnapsOK(st'.snaps) /\ RowsStep /\ KeptStep /\ TurnStep
         /\ kept' = [d \in Convo |-> kept'[d]]
<1>1. /\ st'.snaps = st.snaps
      /\ \A d \in Convo : st'.rows[d] = IF d = c THEN row ELSE st.rows[d]
  BY UpsertIs, UpsertSnaps DEF Inv
<1>2. /\ kept' = [d \in Convo |-> kept'[d]]
      /\ \A d \in Convo : kept'[d] = IF d = c THEN K ELSE kept[d]
  BY DEF TurnInv
<1>3. SnapsOK(st'.snaps) /\ RowsStep
  BY <1>1 DEF TurnInv, RowInv, SnapsOK, RowsStep
<1>4. KeptStep
  BY <1>1, <1>2 DEF KeptStep
<1>5. ASSUME NEW d \in Convo \ raced'
      PROVE  \/ kept'[d] \subseteq RecordedIn(st', d)
             \/ kept'[d] \subseteq kept[d] /\ RecordedIn(st, d) \subseteq RecordedIn(st', d)
  <2>1. CASE d = c
    <3>1. RecordedIn(st', d) = (IF row = None THEN {} ELSE Messages(row.msgs)) \cup SnappedIn(st.snaps, d)
      BY <1>1, <2>1 DEF RecordedIn
    <3> QED BY <1>2, <2>1, <3>1
  <2>2. CASE d # c
    <3>1. RecordedIn(st', d) = RecordedIn(st, d)
      BY <1>1, <2>2 DEF RecordedIn
    <3> QED BY <1>2, <2>2, <3>1
  <2> QED BY <2>1, <2>2
<1> QED BY <1>2, <1>3, <1>4, <1>5 DEF TurnStep

LEMMA CacheWrite ==
  ASSUME Inv, NEW c, NEW row, cache' = [cache EXCEPT ![c] = row],
         c \in Convo => row \in {None, cache[c], st.rows[c]} \/ RowOK(Written', c, row)
  PROVE  CacheStep
<1>1. \A d \in Convo : cache'[d] = IF d = c THEN row ELSE cache[d]
  BY CacheIs DEF Inv
<1> QED BY <1>1 DEF CacheStep

LEMMA LookupOK ==
  ASSUME TurnInv, NEW c \in Convo
  PROVE  RowOK(Written, c, Lookup(c)) /\ Lookup(c) \in {cache[c], st.rows[c]}
         /\ (Lookup(c) = None => st.rows[c] = None)
  BY LookupIs DEF TurnInv, RowInv

LEMMA WrittenOK == OfMessages(Written) /\ OfMessages(Written')
  BY DEF OfMessages, Written

\* A message of r is in the world once its worker has written it.
LEMMA NewMessage ==
  ASSUME Inv, UNCHANGED config, NEW r \in Request, NEW role \in {"system", "user", "assistant", "tool"}
  PROVE  /\ Message(<<"req", r>>, role) \in Written => Answered(r, role)
         /\ Answered(r, role)' => Message(<<"req", r>>, role) \in Written'
<1> DEFINE m == Message(<<"req", r>>, role)
<1>1. r \in RequestType /\ Request' = Request
  BY ConversationAssumption DEF Inv, Request, config
<1>2. m \in MessageType /\ m.by = <<"req", r>> /\ m.role = role
  BY <1>1 DEF MessageType, Message
<1>3. \A q : m.by = <<"req", q>> => q = r
  BY <1>2
<1> HIDE DEF m
<1>4. m \in Written => Answered(r, role)
  BY <1>2 DEF Written
<1>5. Answered(r, role)' => m \in Written'
  <2> SUFFICES ASSUME Answered(r, role)', NEW q \in Request, m.by = <<"req", q>>
               PROVE  Answered(q, m.role)'
    BY <1>1, <1>2 DEF Written
  <2> QED BY <1>2, <1>3
<1> QED BY <1>4, <1>5 DEF m

\* r is a request of the running workload.
LEMMA RequestIs ==
  ASSUME Inv, NEW r \in Request
  PROVE  /\ r.convo \in Convo /\ r.pid \in Pid \cup {None} /\ r.input \in {"user", "tool"}
         /\ r.fresh /\ r.convo \in ProcConvo => r.pid = r.convo[1]
<1>1. r \in RequestType /\ (r.fresh /\ r.convo \in ProcConvo => r.pid = r.convo[1])
  BY ConversationAssumption DEF Inv, Request
<1> QED BY <1>1 DEF RequestType

\* Sessions and process conversations are told apart by their first part.
LEMMA ConvoKinds ==
  /\ \A c \in Convo : is_session_id(c) <=> c \notin ProcConvo
  /\ \A c \in Convo : c \in Session <=> c \notin ProcConvo
  BY StorageAssumption DEF is_session_id, Convo, Session, ProcConvo

LEMMA ConversationIs ==
  ASSUME TurnInv, NEW c, NEW p \in Pid \cup {None}, Owns(c, p), NEW W, OfMessages(W)
  PROVE  RowAt(W, c, Conversation(p)) /\ Conversation(p).msgs = <<>>
<1>1. Conversation(p) = Row(<<>>, p, now, 0)
  BY DEF Conversation, Row
<1>2. <<>> \in Seq(W) /\ now \in Nat /\ 0 \in Nat
  BY DEF TurnInv
<1>3. Row(<<>>, p, now, 0).msgs = <<>>
  BY DEF Row
<1> QED BY <1>1, <1>2, <1>3, RowIs

\* A conversation is created where there is none.
LEMMA RowCreated ==
  ASSUME Inv, TurnInv, UNCHANGED <<kept, raced>>, NEW c \in Convo, NEW p \in Pid \cup {None},
         Owns(c, p), st.rows[c] = None, Save(c, Conversation(p))
  PROVE  /\ CacheStep /\ SnapsOK(st'.snaps) /\ RowsStep /\ KeptStep /\ TurnStep
         /\ kept' = [d \in Convo |-> kept'[d]]
<1> DEFINE row == Conversation(p)
           K == kept[c]
<1>1. RowOK(Written', c, row) /\ row # None
  BY WrittenOK, ConversationIs DEF RowAt
<1>2. st' = Upsert(st, c, row) /\ cache' = [cache EXCEPT ![c] = row]
  BY DEF Save
<1>3. kept' = [kept EXCEPT ![c] = K]
  BY DEF TurnInv
<1>4. c \in Convo \ raced' => K \subseteq SnappedIn(st.snaps, c)
  BY DEF TurnInv, TurnIsKept, Recorded, SnappedIn
<1> HIDE DEF row
<1>5. CacheStep
  BY <1>1, <1>2, CacheWrite
<1> QED BY <1>1, <1>2, <1>3, <1>4, <1>5, StoreWrite

----------------------------------------------------------------------------
(* Requests                                                                *)

\* A worker moves, and storage stays.
LEMMA WorkerTurn ==
  ASSUME Inv, TurnInv, NEW r \in Request, NEW p, NEW c, NEW x, Goes(r, p, c, x),
         UNCHANGED <<config, th, now>>, Written \subseteq Written', CacheStep,
         SnapsOK(st'.snaps), RowsStep, KeptStep, TurnStep, kept' = [d \in Convo |-> kept'[d]],
         p \notin {"queued", "failed"} => c \in Convo,
         p = "write" => x # None /\ RowOK(Written', c, x)
  PROVE  TurnInv'
<1>1. WorkerInv(r)'
  BY DEF Goes, WorkerInv, RowOK
<1>2. \A q \in Request : req'[q] = req[q] \/ WorkerInv(q)'
  BY <1>1 DEF Goes
<1>3. now' \in Nat /\ \A t \in Thread : th'[t] = th[t]
  BY DEF TurnInv
<1> QED BY <1>2, <1>3, TurnFrame

LEMMA NormalizeUserTurn ==
  ASSUME Inv, TurnInv, NEW r \in Request, NormalizeUser(r)
  PROVE  TurnInv'
<1> DEFINE c == r.convo
<1>1. UNCHANGED <<config, th, now, kept, raced>> /\ req[r].pc = "queued" /\ is_session_id(c)
      /\ req' = [req EXCEPT ![r].pc = "read", ![r].convo = c]
  BY DEF NormalizeUser
<1>2. c \in Convo /\ c \notin ProcConvo
  BY <1>1, RequestIs, ConvoKinds
<1>3. Goes(r, "read", c, req[r].copy)
  BY <1>1, GoesIs DEF Inv
<1>4. Written \subseteq Written'
  BY <1>1, <1>3, WorkerAhead
<1>5. CASE cache' = [cache EXCEPT ![c] = Lookup(c)] /\ UNCHANGED st
  <2>1. CacheStep
    BY <1>2, <1>5, LookupOK, CacheWrite
  <2>2. /\ SnapsOK(st'.snaps) /\ RowsStep /\ KeptStep /\ TurnStep
        /\ kept' = [d \in Convo |-> kept'[d]]
    BY <1>1, <1>5, StoreStays
  <2> QED BY <1>1, <1>2, <1>3, <1>4, <2>1, <2>2, WorkerTurn
<1>6. CASE Lookup(c) = None /\ Save(c, Conversation(None))
  <2>1. st.rows[c] = None /\ Owns(c, None)
    BY <1>2, <1>6, LookupOK DEF Owns
  <2>2. /\ CacheStep /\ SnapsOK(st'.snaps) /\ RowsStep /\ KeptStep /\ TurnStep
        /\ kept' = [d \in Convo |-> kept'[d]]
    BY <1>1, <1>2, <1>6, <2>1, RowCreated
  <2> QED BY <1>1, <1>2, <1>3, <1>4, <2>2, WorkerTurn
<1> QED BY <1>5, <1>6 DEF NormalizeUser

LEMMA NormalizeProcessTurn ==
  ASSUME Inv, TurnInv, NEW r \in Request, NormalizeProcess(r)
  PROVE  TurnInv'
<1> DEFINE c == r.convo
<1>1. UNCHANGED <<config, th, now, kept, raced>> /\ req[r].pc = "queued" /\ ~is_session_id(c)
  BY DEF NormalizeProcess
<1>2. c \in Convo /\ c \in ProcConvo
  BY <1>1, RequestIs, ConvoKinds
<1>3. ASSUME NEW p \in {"read", "failed"}, NEW d \in {c, req[r].convo}, p = "read" => d = c,
             Goes(r, p, d, req[r].copy), CacheStep, SnapsOK(st'.snaps), RowsStep, KeptStep, TurnStep,
             kept' = [e \in Convo |-> kept'[e]]
      PROVE  TurnInv'
  <2>1. Written \subseteq Written'
    BY <1>1, <1>3, WorkerAhead
  <2> QED BY <1>1, <1>2, <1>3, <2>1, WorkerTurn
<1>4. CASE r.fresh
  <2>1. /\ Save(c, Conversation(r.pid)) /\ st.rows[c] = None
        /\ req' = [req EXCEPT ![r].pc = "read", ![r].convo = c]
    BY <1>4 DEF NormalizeProcess
  <2>2. Goes(r, "read", c, req[r].copy)
    BY <2>1, GoesIs DEF Inv
  <2>3. r.pid \in Pid \cup {None} /\ Owns(c, r.pid)
    BY <1>4, RequestIs DEF Owns
  <2>4. /\ CacheStep /\ SnapsOK(st'.snaps) /\ RowsStep /\ KeptStep /\ TurnStep
        /\ kept' = [e \in Convo |-> kept'[e]]
    BY <1>1, <1>2, <2>1, <2>3, RowCreated
  <2> QED BY <1>3, <2>2, <2>4
<1>5. CASE ~r.fresh
  <2>1. UNCHANGED st
    BY <1>5 DEF NormalizeProcess
  <2>2. /\ SnapsOK(st'.snaps) /\ RowsStep /\ KeptStep /\ TurnStep
        /\ kept' = [e \in Convo |-> kept'[e]]
    BY <1>1, <2>1, StoreStays
  <2>3. CASE Lookup(c) = None
    <3>1. ReqStep(r, "failed") /\ UNCHANGED cache
      BY <1>5, <2>3 DEF NormalizeProcess
    <3>2. Goes(r, "failed", req[r].convo, req[r].copy) /\ CacheStep
      BY <3>1, GoesIs DEF Inv, CacheStep
    <3> QED BY <1>3, <2>2, <3>2
  <2>4. CASE Lookup(c) # None
    <3> DEFINE p == IF Lookup(c).creator_pid = r.pid THEN "read" ELSE "failed"
    <3>1. cache' = [cache EXCEPT ![c] = Lookup(c)] /\ req' = [req EXCEPT ![r].convo = c, ![r].pc = p]
      BY <1>5, <2>4 DEF NormalizeProcess
    <3>2. p \in {"read", "failed"}
      OBVIOUS
    <3> HIDE DEF p
    <3>3. Goes(r, p, c, req[r].copy)
      BY <3>1, GoesIs DEF Inv
    <3>4. CacheStep
      BY <1>2, <3>1, LookupOK, CacheWrite
    <3> QED BY <1>3, <2>2, <3>2, <3>3, <3>4
  <2> QED BY <2>3, <2>4
<1> QED BY <1>4, <1>5

LEMMA BuildReadTurn ==
  ASSUME Inv, TurnInv, NEW r \in Request, BuildRead(r)
  PROVE  TurnInv'
<1> DEFINE c == req[r].convo
           row == Lookup(c)
<1>1. UNCHANGED <<config, st, cache, th, now, kept, raced>> /\ req[r].pc = "read"
  BY DEF BuildRead
<1>2. c \in Convo
  BY <1>1 DEF TurnInv, WorkerInv
<1>3. /\ SnapsOK(st'.snaps) /\ RowsStep /\ KeptStep /\ TurnStep /\ CacheStep
      /\ kept' = [e \in Convo |-> kept'[e]]
  BY <1>1, StoreStays DEF CacheStep
<1>4. CASE row = None
  <2>1. ReqStep(r, "failed")
    BY <1>4 DEF BuildRead
  <2>2. Goes(r, "failed", c, req[r].copy)
    BY <2>1, GoesIs DEF Inv
  <2>3. Written \subseteq Written'
    BY <1>1, <2>2, WorkerAhead
  <2> QED BY <1>1, <1>3, <2>2, <2>3, WorkerTurn
<1>5. CASE row # None
  <2>1. req' = [req EXCEPT ![r].pc = "write", ![r].copy = row]
    BY <1>5 DEF BuildRead
  <2>2. RowOK(Written, c, row)
    BY <1>2, LookupOK
  <2> HIDE DEF row
  <2>3. Goes(r, "write", c, row)
    BY <2>1, GoesIs DEF Inv
  <2>4. Written \subseteq Written'
    BY <1>1, <2>3, WorkerAhead
  <2>5. RowOK(Written', c, row)
    BY <2>2, <2>4, RowGrows
  <2> QED BY <1>1, <1>2, <1>3, <1>5, <2>3, <2>4, <2>5, WorkerTurn
<1> QED BY <1>4, <1>5

\* A message of r that was not there, appended to what is stored.
LEMMA BuildWriteTurn ==
  ASSUME Inv, TurnInv, NEW r \in Request, BuildWrite(r)
  PROVE  TurnInv'
<1> DEFINE c == req[r].convo
           x == req[r].copy
           m == Message(<<"req", r>>, r.input)
           y == WithSystem(r, x)
           ms == <<m>>
           row == append_message_unlocked(y, ms)
           K == {k \in kept[c] : r.system = "override" => NotSystem(k)} \cup {m}
<1>1. /\ UNCHANGED <<config, th, now>> /\ req[r].pc = "write" /\ Save(c, row) /\ Base(c, x)
      /\ kept' = [kept EXCEPT ![c] = K]
      /\ req' = [req EXCEPT ![r].pc = "infer", ![r].copy = None]
  BY DEF BuildWrite
<1>2. c \in Convo /\ x # None /\ RowOK(Written, c, x)
  BY <1>1 DEF TurnInv, WorkerInv
<1>3. Goes(r, "infer", c, None)
  BY <1>1, GoesIs DEF Inv
<1>4. Written \subseteq Written'
  BY <1>1, <1>3, WorkerAhead
<1>5. r.input \in {"system", "user", "assistant", "tool"} /\ r.input # "assistant"
  BY RequestIs
<1>6. m \notin Written
  <2>1. ~Answered(r, r.input)
    BY <1>1 DEF Answered
  <2> QED BY <1>1, <1>5, <2>1, NewMessage
<1>7. m \in Written' /\ Message(<<"req", r>>, "system") \in Written'
  <2>1. Answered(r, r.input)' /\ Answered(r, "system")'
    BY <1>3, <1>5 DEF Answered, Goes
  <2> QED BY <1>1, <1>5, <2>1, NewMessage
<1>8. RowAt(Written', c, x) /\ OfMessages(Written') /\ now \in Nat
  BY <1>2, <1>4, RowGrows, WrittenOK DEF RowAt, TurnInv
<1>9. /\ RowAt(Written', c, y)
      /\ \A k \in Messages(x.msgs) : (r.system = "override" => NotSystem(k)) => k \in Messages(y.msgs)
  BY <1>7, <1>8, WithSystemIs
<1> HIDE DEF m, y
<1>10. ms \in Seq(Written') /\ Messages(ms) = {m}
  BY <1>7, OneMessage
<1> HIDE DEF ms
<1>11. RowAt(Written', c, row) /\ Messages(row.msgs) = Messages(y.msgs) \cup {m}
  <2>1. Appended(Written', c, y, ms, row)
    BY <1>8, <1>9, <1>10, AppendIs
  <2> QED BY <1>10, <2>1 DEF Appended
<1> HIDE DEF row
<1>12. raced \subseteq raced' /\ (c \notin raced' => st.rows[c] = x)
  BY <1>1 DEF Base
<1>13. K \cap Written \subseteq kept[c]
  BY <1>6
<1>14. c \in Convo \ raced' => K \subseteq Messages(row.msgs) \cup SnappedIn(st.snaps, c)
  <2> SUFFICES ASSUME c \notin raced'
               PROVE  K \subseteq Messages(row.msgs) \cup SnappedIn(st.snaps, c)
    OBVIOUS
  <2>1. kept[c] \subseteq Messages(x.msgs) \cup SnappedIn(st.snaps, c)
    BY <1>2, <1>12 DEF TurnInv, TurnIsKept, Recorded, SnappedIn
  <2> QED BY <1>9, <1>11, <2>1
<1> HIDE DEF K
<1>15. st' = Upsert(st, c, row) /\ cache' = [cache EXCEPT ![c] = row] /\ RowOK(Written', c, row) /\ row # None
  BY <1>1, <1>11 DEF Save, RowAt
<1>16. /\ SnapsOK(st'.snaps) /\ RowsStep /\ KeptStep /\ TurnStep
       /\ kept' = [e \in Convo |-> kept'[e]]
  BY <1>1, <1>12, <1>13, <1>14, <1>15, StoreWrite
<1>17. CacheStep
  BY <1>15, CacheWrite
<1> QED BY <1>1, <1>2, <1>3, <1>4, <1>16, <1>17, WorkerTurn

LEMMA PersistReplyTurn ==
  ASSUME Inv, TurnInv, NEW r \in Request, PersistReply(r)
  PROVE  TurnInv'
<1> DEFINE c == req[r].convo
           x == Lookup(c)
           m == Message(<<"req", r>>, "assistant")
           ms == <<m>>
           row == append_message_unlocked(x, ms)
           K == kept[c] \cup {m}
<1>1. UNCHANGED <<config, th, now>> /\ req[r].pc = "infer" /\ ReqStep(r, "usage")
  BY DEF PersistReply
<1>2. c \in Convo
  BY <1>1 DEF TurnInv, WorkerInv
<1>3. Goes(r, "usage", c, req[r].copy)
  BY <1>1, GoesIs DEF Inv
<1>4. Written \subseteq Written'
  BY <1>1, <1>3, WorkerAhead
<1>5. CASE UNCHANGED <<st, cache, kept, raced>>
  <2>1. /\ SnapsOK(st'.snaps) /\ RowsStep /\ KeptStep /\ TurnStep /\ CacheStep
        /\ kept' = [e \in Convo |-> kept'[e]]
    BY <1>5, StoreStays DEF CacheStep
  <2> QED BY <1>1, <1>2, <1>3, <1>4, <2>1, WorkerTurn
<1>6. CASE x # None /\ Save(c, row) /\ Base(c, x) /\ kept' = [kept EXCEPT ![c] = K]
  <2>1. m \notin Written
    <3>1. ~Answered(r, "assistant")
      BY <1>1 DEF Answered
    <3> QED BY <1>1, <3>1, NewMessage
  <2>2. m \in Written'
    <3>1. Answered(r, "assistant")'
      BY <1>3 DEF Answered, Goes
    <3> QED BY <1>1, <3>1, NewMessage
  <2>3. RowAt(Written', c, x) /\ OfMessages(Written') /\ now \in Nat
    BY <1>2, <1>4, <1>6, LookupOK, RowGrows, WrittenOK DEF RowAt, TurnInv
  <2> HIDE DEF m, x
  <2>4. ms \in Seq(Written') /\ Messages(ms) = {m}
    BY <2>2, OneMessage
  <2> HIDE DEF ms
  <2>5. RowAt(Written', c, row) /\ Messages(row.msgs) = Messages(x.msgs) \cup {m}
    <3>1. Appended(Written', c, x, ms, row)
      BY <2>3, <2>4, AppendIs
    <3> QED BY <2>4, <3>1 DEF Appended
  <2> HIDE DEF row
  <2>6. raced \subseteq raced' /\ (c \notin raced' => st.rows[c] = x)
    BY <1>6 DEF Base
  <2>7. K \cap Written \subseteq kept[c]
    BY <2>1
  <2>8. c \in Convo \ raced' => K \subseteq Messages(row.msgs) \cup SnappedIn(st.snaps, c)
    <3> SUFFICES ASSUME c \notin raced'
                 PROVE  K \subseteq Messages(row.msgs) \cup SnappedIn(st.snaps, c)
      OBVIOUS
    <3>1. kept[c] \subseteq Messages(x.msgs) \cup SnappedIn(st.snaps, c)
      BY <1>2, <2>6 DEF TurnInv, TurnIsKept, Recorded, SnappedIn
    <3> QED BY <2>5, <3>1
  <2> HIDE DEF K
  <2>9. st' = Upsert(st, c, row) /\ cache' = [cache EXCEPT ![c] = row] /\ RowOK(Written', c, row) /\ row # None
    BY <1>6, <2>5 DEF Save, RowAt
  <2>10. /\ SnapsOK(st'.snaps) /\ RowsStep /\ KeptStep /\ TurnStep
         /\ kept' = [e \in Convo |-> kept'[e]]
    BY <1>6, <2>6, <2>7, <2>8, <2>9, StoreWrite
  <2>11. CacheStep
    BY <2>9, CacheWrite
  <2> QED BY <1>1, <1>2, <1>3, <1>4, <2>10, <2>11, WorkerTurn
<1> QED BY <1>5, <1>6 DEF PersistReply

\* What a worker does after its last write.
LEMMA AnsweredTurn ==
  ASSUME Inv, TurnInv, NEW r \in Request,
         ReplyDiscarded(r) \/ ComputeUsage(r) \/ MarkNeeding(r) \/ enqueue(r)
  PROVE  TurnInv'
<1>1. /\ UNCHANGED <<config, st, cache, th, now, kept, raced>>
      /\ req[r].pc \in {"infer", "usage", "mark", "enqueue"}
      /\ \E p \in {"failed", "mark", "done", "enqueue"} : ReqStep(r, p)
  BY DEF ReplyDiscarded, ComputeUsage, MarkNeeding, enqueue
<1>2. PICK p \in {"failed", "mark", "done", "enqueue"} : ReqStep(r, p)
  BY <1>1
<1>3. req[r].convo \in Convo
  BY <1>1 DEF TurnInv, WorkerInv
<1>4. Goes(r, p, req[r].convo, req[r].copy)
  BY <1>2, GoesIs DEF Inv
<1>5. Written \subseteq Written'
  BY <1>1, <1>4, WorkerAhead
<1>6. /\ SnapsOK(st'.snaps) /\ RowsStep /\ KeptStep /\ TurnStep /\ CacheStep
      /\ kept' = [e \in Convo |-> kept'[e]]
  BY <1>1, StoreStays DEF CacheStep
<1> QED BY <1>1, <1>3, <1>4, <1>5, <1>6, WorkerTurn

LEMMA RequestTurn ==
  ASSUME Inv, TurnInv, NEW r \in Request, RequestStep(r)
  PROVE  TurnInv'
  BY NormalizeUserTurn, NormalizeProcessTurn, BuildReadTurn, BuildWriteTurn, PersistReplyTurn,
     AnsweredTurn DEF RequestStep

----------------------------------------------------------------------------
(* Compaction and undo                                                     *)

\* What a thread that goes to p, at c and with x, has to have.
Carries(t, p, c, x) ==
  /\ t \in Command /\ p \in {"create", "user", "index", "load"} \cup WithCopy => c \in Session
  /\ c \in Convo /\ p \in WithCopy => RowOK(Written, c, x)
  /\ p \in {"snapshot", "persist"} => x # None /\ Len(x.msgs) > KeepRecent + 1
  /\ c \in Convo /\ p = "persist" => kept'[c] \cap Messages(x.msgs) \subseteq SnappedIn(st'.snaps, c)

\* A step that takes no message out of what is stored and kept.
KeepsAll == /\ SnapsOK(st'.snaps) /\ RowsStep /\ KeptStep /\ TurnStep
            /\ kept' = [d \in Convo |-> kept'[d]]

LEMMA ThreadTurn ==
  ASSUME Inv, TurnInv, NEW t \in Thread, NEW p, NEW c, Moves(t, p, c), Carries(t, p, c, th'[t].copy),
         UNCHANGED <<config, req, now>>, CacheStep, KeepsAll
  PROVE  TurnInv'
<1> DEFINE x == th'[t].copy
<1>1. Written \subseteq Written' /\ \A r \in Request : req'[r] = req[r]
  BY WorkersStay
<1>2. th'[t].pc = p /\ th'[t].convo = c /\ \A u \in Thread \ {t} : th'[u] = th[u]
  BY DEF Moves
<1>3. RowOK(Written, c, x) => RowOK(Written', c, x)
  BY <1>1, RowGrows
<1>4. Command' = Command
  BY DEF config, Command
<1>5. (Snapped(th[t].convo))' = SnappedIn(st'.snaps, c)
  BY <1>2 DEF Snapped, SnappedIn
<1>6. CopyInv(t)'
  BY <1>2, <1>3, <1>4, <1>5 DEF Carries, CopyInv, RowOK
<1>7. now' \in Nat /\ \A u \in Thread : th'[u] = th[u] \/ CopyInv(u)'
  BY <1>2, <1>6 DEF TurnInv
<1> QED BY <1>1, <1>7, TurnFrame DEF KeepsAll

\* A step that leaves rows, snapshots and reports alone.
LEMMA QuietTurn ==
  ASSUME Inv, TurnInv, NEW t \in Thread, NEW p, NEW c, Moves(t, p, c), Carries(t, p, c, th'[t].copy),
         UNCHANGED <<config, req, now, kept, raced>>, CacheStep, st'.rows = st.rows, st'.snaps = st.snaps
  PROVE  TurnInv'
<1>1. KeepsAll
  BY StoreStays DEF KeepsAll
<1> QED BY <1>1, ThreadTurn

LEMMA LoadTurn ==
  ASSUME Inv, TurnInv, NEW t \in Thread, get_conversation(t)
  PROVE  TurnInv'
<1> DEFINE c == th[t].convo
           x == Lookup(c)
           p == IF t # Compactor /\ t.act = "undo" THEN "undo" ELSE "summarize"
<1>1. /\ UNCHANGED <<config, st, req, now, kept, raced>> /\ th[t].pc = "load"
      /\ cache' = [cache EXCEPT ![c] = x] /\ th' = [th EXCEPT ![t].copy = x, ![t].pc = p]
  BY DEF get_conversation
<1>2. p \in {"undo", "summarize"}
  OBVIOUS
<1>3. c \in Convo => RowOK(Written, c, x) /\ x \in {cache[c], st.rows[c]}
  BY LookupOK
<1> HIDE DEF x, p
<1>4. Moves(t, p, c) /\ th'[t].copy = x
  BY <1>1, ThLoadIs, CopyIs DEF Inv
<1>5. CacheStep
  BY <1>1, <1>3, CacheWrite
<1>6. t \in Command => c \in Session
  BY <1>1 DEF TurnInv, CopyInv
<1>7. Carries(t, p, c, th'[t].copy)
  BY <1>2, <1>3, <1>4, <1>6 DEF Carries
<1> QED BY <1>1, <1>4, <1>5, <1>7, QuietTurn

LEMMA SummarizeTurn ==
  ASSUME Inv, TurnInv, NEW t \in Thread, Summarize(t)
  PROVE  TurnInv'
<1> DEFINE c == th[t].convo
           x == th[t].copy
<1>1. UNCHANGED <<config, st, cache, req, now, kept, raced>> /\ th[t].pc = "summarize"
  BY DEF Summarize
<1>2. PICK p \in {"snapshot", "unqueue", "done"} :
        ThStep(t, p) /\ (p = "snapshot" => x # None /\ Len(x.msgs) > KeepRecent + 1)
  BY DEF Summarize, AfterCompact
<1>3. Moves(t, p, c) /\ th'[t].copy = x
  BY <1>1, <1>2, ThStepIs, CopyIs DEF Inv
<1>4. CopyInv(t)
  BY DEF TurnInv
<1>5. Carries(t, p, c, th'[t].copy)
  BY <1>1, <1>2, <1>3, <1>4 DEF Carries, CopyInv, WithCopy
<1>6. CacheStep
  BY <1>1 DEF CacheStep
<1> QED BY <1>1, <1>3, <1>5, <1>6, QuietTurn

LEMMA SnapshotTurn ==
  ASSUME Inv, TurnInv, NEW t \in Thread, save_snapshot(t)
  PROVE  TurnInv'
<1> DEFINE c == th[t].convo
           x == th[t].copy
           msgs == x.msgs
<1>1. /\ UNCHANGED <<config, cache, req, now, kept, raced>> /\ th[t].pc = "snapshot"
      /\ ThStep(t, "persist")
      /\ st' = json_append_snapshot(st, c, msgs) \/ st' = sqlite_append_snapshot(st, c, msgs)
  BY DEF save_snapshot
<1>2. /\ t \in Command => c \in Session
      /\ c \in Convo => RowOK(Written, c, x)
      /\ x # None /\ Len(x.msgs) > KeepRecent + 1
  BY <1>1 DEF TurnInv, CopyInv, WithCopy
<1>3. c \in Convo => msgs \in Seq(MessageType)
  BY <1>2 DEF RowOK, RowType
<1>4. Moves(t, "persist", c) /\ th'[t].copy = x
  BY <1>1, ThStepIs, CopyIs DEF Inv
<1> HIDE DEF msgs
<1>5. StoreOK(st) /\ SnapsOK(st.snaps)
  BY DEF Inv, TurnInv, RowInv, SnapsOK
<1>6. /\ SnapsOK(st'.snaps)
      /\ \A d \in Convo : SnappedIn(st.snaps, d) \subseteq SnappedIn(st'.snaps, d)
      /\ c \in Convo => Messages(msgs) \subseteq SnappedIn(st'.snaps, c)
  BY <1>1, <1>3, <1>5, AppendSnaps
<1>7. st'.rows = st.rows
  BY <1>1, <1>5, SnapshotIs DEF RowsKept
<1>8. KeepsAll
  <2>1. RowsStep /\ KeptStep
    BY <1>1, <1>6, <1>7 DEF RowsStep, KeptStep
  <2>2. \A d \in Convo : RecordedIn(st, d) \subseteq RecordedIn(st', d)
    BY <1>6, <1>7 DEF RecordedIn
  <2>3. TurnStep
    BY <1>1, <2>2 DEF TurnStep
  <2> QED BY <1>1, <1>6, <2>1, <2>3 DEF KeepsAll, TurnInv
<1>9. Carries(t, "persist", c, x)
  BY <1>2, <1>6 DEF Carries, msgs
<1>10. CacheStep
  BY <1>1 DEF CacheStep
<1> QED BY <1>1, <1>4, <1>8, <1>9, <1>10, ThreadTurn

\* The seed and the recent tail of a history.
LEMMA SeededIs ==
  ASSUME Inv, TurnInv, NEW t, NEW W, Written \subseteq W, OfMessages(W),
         th[t].copy.msgs \in Seq(W), Len(th[t].copy.msgs) > KeepRecent + 1
  PROVE  build_seeded_conversation(t) \in Seq(W)
<1> DEFINE msgs == th[t].copy.msgs
           L == Len(msgs)
           tail == SubSeq(msgs, L - KeepRecent + 1, L)
           i == L - KeepRecent + 1
<1>1. KeepRecent \in Nat /\ KeepRecent # 0
  BY ConversationAssumption
<1>2. L \in Nat /\ i \in 1 .. L + 1 /\ L \in 0 .. L
  BY <1>1
<1>3. tail \in Seq(W)
  BY <1>2, SubSeqIn
<1>4. Retained(t) = tail \/ Retained(t) = SubSeq(tail, 1, Len(tail) - 1)
  BY DEF Retained
<1>5. Len(tail) \in Nat /\ Len(tail) # 0
  <2>1. Len(tail) = KeepRecent
    BY <1>1, <1>2
  <2> QED BY <1>1, <2>1
<1> HIDE DEF tail
<1>6. SubSeq(tail, 1, Len(tail) - 1) \in Seq(W)
  <2>1. 1 \in 1 .. Len(tail) + 1 /\ Len(tail) - 1 \in 0 .. Len(tail)
    BY <1>5
  <2> QED BY <1>3, <2>1, SubSeqIn
<1>7. Retained(t) \in Seq(W)
  BY <1>3, <1>4, <1>6
<1>8. \A role \in {"user", "assistant", "tool"} : Message(<<"summary", 0>>, role) \in W
  <2> SUFFICES ASSUME NEW role \in {"user", "assistant", "tool"}
               PROVE  Message(<<"summary", 0>>, role) \in Written
    OBVIOUS
  <2> DEFINE m == Message(<<"summary", 0>>, role)
  <2>1. m \in MessageType /\ m.by = <<"summary", 0>>
    BY DEF MessageType, Message
  <2>2. \A r : m.by # <<"req", r>>
    BY <2>1
  <2> QED BY <2>1, <2>2 DEF Written
<1>9. Seed \in Seq(W)
  BY <1>8 DEF Seed
<1> QED BY <1>7, <1>9, ConcatIn DEF build_seeded_conversation

LEMMA PersistTurn ==
  ASSUME Inv, TurnInv, NEW t \in Thread, PersistCompacted(t)
  PROVE  TurnInv'
<1> DEFINE c == th[t].convo
           x == th[t].copy
           row == CompactedRow(t)
           K == kept[c]
<1>1. /\ UNCHANGED <<config, cache, req, now, kept>> /\ th[t].pc = "persist"
      /\ st' = Upsert(st, c, row) /\ Base(c, x) /\ ThStep(t, "invalidate")
  BY DEF PersistCompacted
<1>2. /\ t \in Command => c \in Session
      /\ c \in Convo => RowOK(Written, c, x)
      /\ x # None /\ Len(x.msgs) > KeepRecent + 1
      /\ c \in Convo => kept[c] \cap Messages(x.msgs) \subseteq SnappedIn(st.snaps, c)
  BY <1>1 DEF TurnInv, CopyInv, WithCopy, Snapped, SnappedIn
<1>3. Moves(t, "invalidate", c)
  BY <1>1, ThStepIs DEF Inv
<1>4. Written \subseteq Written'
  BY <1>1, WorkersStay
<1>5. ASSUME c \in Convo
      PROVE  RowOK(Written', c, row) /\ row # None
  <2> DEFINE msgs == build_seeded_conversation(t)
             q == x.msgs
             i == Len(msgs)
  <2>1. RowAt(Written', c, x) /\ OfMessages(Written')
    BY <1>2, <1>4, <1>5, RowGrows, WrittenOK DEF RowAt
  <2>2. PICK p \in Pid \cup {None}, a \in Nat, k \in Nat :
          x = Row(x.msgs, p, a, k) /\ Owns(c, p)
    BY <2>1, RowFields
  <2>3. x.msgs \in Seq(Written')
    BY <2>1, RowFields
  <2>4. msgs \in Seq(Written')
    BY <1>2, <1>4, <2>1, <2>3, SeededIs
  <2>5. Len(msgs) \in Nat
    BY <2>4
  <2>6. CASE t = Compactor
    <3>1. row = Replaced(x, msgs, i) /\ i \in Nat /\ x = Row(q, p, a, k)
      BY <2>2, <2>5, <2>6 DEF CompactedRow, Replaced
    <3> HIDE DEF msgs, row, x, i, q
    <3>2. row = Row(msgs, p, a, i)
      BY <3>1, RowExcept
    <3>3. RowAt(Written', c, row)
      BY <2>1, <2>2, <2>4, <3>1, <3>2, RowIs
    <3> QED BY <3>3 DEF RowAt
  <2>7. CASE t # Compactor
    <3>1. row = Row(msgs, None, 0, Len(msgs))
      BY <2>7 DEF CompactedRow, Row
    <3>2. Owns(c, None)
      BY <1>2, <1>5, <2>7, ConvoKinds DEF Owns, Thread
    <3> HIDE DEF msgs, row
    <3>3. RowAt(Written', c, row)
      BY <2>1, <2>4, <2>5, <3>1, <3>2, RowIs
    <3> QED BY <3>3 DEF RowAt
  <2> QED BY <2>6, <2>7
<1> HIDE DEF row
<1>6. raced \subseteq raced' /\ (c \notin raced' => st.rows[c] = x)
  BY <1>1 DEF Base
<1>7. c \in Convo \ raced' => K \subseteq SnappedIn(st.snaps, c)
  <2> SUFFICES ASSUME c \in Convo, c \notin raced'
               PROVE  K \subseteq SnappedIn(st.snaps, c)
    OBVIOUS
  <2>1. kept[c] \subseteq Messages(x.msgs) \cup SnappedIn(st.snaps, c)
    BY <1>2, <1>6 DEF TurnInv, TurnIsKept, Recorded, SnappedIn
  <2> QED BY <1>2, <2>1
<1>8. kept' = [kept EXCEPT ![c] = K]
  BY <1>1 DEF TurnInv
<1>9. KeepsAll
  BY <1>1, <1>5, <1>6, <1>7, <1>8, StoreWrite DEF KeepsAll
<1>10. CacheStep
  BY <1>1 DEF CacheStep
<1>11. Carries(t, "invalidate", c, th'[t].copy)
  BY DEF Carries, WithCopy
<1> QED BY <1>1, <1>3, <1>9, <1>10, <1>11, ThreadTurn

LEMMA InvalidateTurn ==
  ASSUME Inv, TurnInv, NEW t \in Thread, invalidate_conversation_cache(t)
  PROVE  TurnInv'
<1> DEFINE c == th[t].convo
           p == AfterCompact(t)
<1>1. /\ UNCHANGED <<config, st, req, now, kept, raced>>
      /\ ThStep(t, p) /\ cache' = [cache EXCEPT ![c] = None]
  BY DEF invalidate_conversation_cache
<1>2. p \in {"unqueue", "done"}
  BY DEF AfterCompact
<1> HIDE DEF p
<1>3. Moves(t, p, c)
  BY <1>1, ThStepIs DEF Inv
<1>4. CacheStep
  BY <1>1, CacheWrite
<1>5. Carries(t, p, c, th'[t].copy)
  BY <1>2 DEF Carries, WithCopy
<1> QED BY <1>1, <1>3, <1>4, <1>5, QuietTurn

LEMMA CompactTurn ==
  ASSUME Inv, TurnInv, NEW t \in Thread, CompactStep(t)
  PROVE  TurnInv'
  BY LoadTurn, SummarizeTurn, SnapshotTurn, PersistTurn, InvalidateTurn DEF CompactStep

LEMMA UndoTurn ==
  ASSUME Inv, TurnInv, NEW t \in Command, Undo(t)
  PROVE  TurnInv'
<1> DEFINE c == th[t].convo
           x == th[t].copy
           cut == IF x = None THEN 0 ELSE CutFrom(x.msgs)
           rest == SubSeq(x.msgs, 1, cut - 1)
           row == [x EXCEPT !.msgs = rest, !.tokens = Len(rest), !.last_activity = now]
           K == kept[c] \ (Messages(x.msgs) \ Messages(rest))
<1>1. UNCHANGED <<config, cache, req, now>> /\ th[t].pc = "undo" /\ t \in Thread
  BY DEF Undo, Thread
<1>2. CacheStep
  BY <1>1 DEF CacheStep
<1>3. \A p \in {"done", "invalidate"} : Carries(t, p, c, th'[t].copy)
  BY DEF Carries, WithCopy
<1>4. CASE cut = 0
  <2>1. ThStep(t, "done") /\ UNCHANGED <<st, kept, raced>>
    BY <1>4 DEF Undo
  <2>2. Moves(t, "done", c)
    BY <1>1, <2>1, ThStepIs DEF Inv
  <2> QED BY <1>1, <1>2, <1>3, <2>1, <2>2, QuietTurn
<1>5. CASE cut # 0
  <2>1. /\ st' = Upsert(st, c, row) /\ Base(c, x) /\ ThStep(t, "invalidate")
        /\ kept' = [kept EXCEPT ![c] = K]
    BY <1>5 DEF Undo
  <2>2. Moves(t, "invalidate", c)
    BY <1>1, <2>1, ThStepIs DEF Inv
  <2>3. c \in Session /\ c \in Convo /\ x # None /\ RowOK(Written, c, x)
    BY <1>1, <1>5 DEF TurnInv, CopyInv, WithCopy, Convo
  <2>4. Written \subseteq Written'
    BY <1>1, WorkersStay
  <2>5. RowAt(Written', c, x) /\ OfMessages(Written') /\ now \in Nat
    BY <2>3, <2>4, RowGrows, WrittenOK DEF RowAt, TurnInv
  <2>6. PICK p \in Pid \cup {None}, a \in Nat, k \in Nat :
          x = Row(x.msgs, p, a, k) /\ Owns(c, p)
    BY <2>5, RowFields
  <2>7. x.msgs \in Seq(Written')
    BY <2>5, RowFields
  <2>8. cut \in 1 .. Len(x.msgs)
    <3>1. CutFrom(x.msgs) \in 0 .. Len(x.msgs)
      BY <2>7, CutFromIs
    <3> QED BY <1>5, <2>3, <3>1
  <2> HIDE DEF cut
  <2>9. rest \in Seq(Written')
    <3>1. 1 \in 1 .. Len(x.msgs) + 1 /\ cut - 1 \in 0 .. Len(x.msgs)
      BY <2>7, <2>8
    <3> QED BY <2>7, <3>1, SubSeqIn
  <2> HIDE DEF rest
  <2>10. Len(rest) \in Nat
    BY <2>9
  <2>11. row = Edited(x, rest, Len(rest), now)
    BY DEF Edited
  <2> HIDE DEF row, x
  <2>12. row = Row(rest, p, now, Len(rest)) /\ row.msgs = rest
    <3>1. row = Row(rest, p, now, Len(rest))
      BY <2>6, <2>11, RowExcept
    <3> QED BY <3>1, RowExcept
  <2>13. RowOK(Written', c, row) /\ row # None
    BY <2>5, <2>6, <2>9, <2>10, <2>12, RowIs DEF RowAt
  <2>14. raced \subseteq raced' /\ (c \notin raced' => st.rows[c] = x)
    BY <2>1 DEF Base
  <2>15. c \in Convo \ raced' => K \subseteq Messages(row.msgs) \cup SnappedIn(st.snaps, c)
    <3> SUFFICES ASSUME c \notin raced'
                 PROVE  K \subseteq Messages(rest) \cup SnappedIn(st.snaps, c)
      BY <2>12
    <3>1. kept[c] \subseteq Messages(x.msgs) \cup SnappedIn(st.snaps, c)
      BY <2>3, <2>14 DEF TurnInv, TurnIsKept, Recorded, SnappedIn
    <3> QED BY <3>1
  <2>16. K \cap Written \subseteq kept[c]
    OBVIOUS
  <2> HIDE DEF K
  <2>17. KeepsAll
    BY <2>1, <2>13, <2>14, <2>15, <2>16, StoreWrite DEF KeepsAll
  <2> QED BY <1>1, <1>2, <1>3, <2>2, <2>17, ThreadTurn
<1> QED BY <1>4, <1>5

----------------------------------------------------------------------------
(* Session control                                                         *)

LEMMA CommandIs ==
  ASSUME Inv, NEW t \in Command
  PROVE  /\ t \in Thread /\ t # Compactor /\ t.user \in SuperUser /\ t.n \in 0 .. MaxSession
         /\ <<t.user, 1>> \in Session /\ (t.n # 0 => <<t.user, t.n>> \in Session)
<1>1. t \in CommandType /\ t \in Thread /\ t # Compactor
  BY ConversationAssumption DEF Inv, Command, Thread
<1>2. t.user \in SuperUser /\ t.n \in 0 .. MaxSession
  BY <1>1 DEF CommandType
<1> QED BY <1>1, <1>2, StorageAssumption DEF Session

LEMMA ListIs ==
  ASSUME NEW u
  PROVE  list_sessions(u) \subseteq Session
  BY DEF list_sessions, json_list_session_index_entries, sqlite_list_session_index_entries,
         list_index_entries_from_fs, SessionsOf

LEMMA ResolveTurn ==
  ASSUME Inv, TurnInv, NEW t \in Command, Resolve(t)
  PROVE  TurnInv'
<1> DEFINE sessions == list_sessions(t.user)
           found == IF t.act = "get_or_create" THEN "done" ELSE "load"
           go(p, c) == th' = [th EXCEPT ![t].pc = p, ![t].convo = c]
<1>1. UNCHANGED <<config, st, cache, req, now, kept, raced>>
  BY DEF Resolve
<1>2. /\ t \in Thread /\ <<t.user, 1>> \in Session
      /\ t.n # 0 => <<t.user, t.n>> \in Session
      /\ sessions # {} => LastOf(sessions) \in Session
  BY CommandIs, ListIs, LastOfIs
<1>3. \/ next_session_id(t.user) \in Session /\ go("create", next_session_id(t.user))
      \/ t.n # 0 /\ go("load", <<t.user, t.n>>)
      \/ sessions # {} /\ go(found, LastOf(sessions))
      \/ go("create", <<t.user, 1>>)
  BY DEF Resolve
<1> HIDE DEF sessions
<1>4. \E c \in Session : \E p \in {"create", "load", "done"} : go(p, c)
  BY <1>2, <1>3
<1>5. PICK c \in Session, p \in {"create", "load", "done"} : go(p, c)
  BY <1>4
<1>6. Moves(t, p, c)
  BY <1>1, <1>2, <1>5, ThGoIs DEF Inv
<1>7. CacheStep /\ Carries(t, p, c, th'[t].copy)
  BY <1>1, <1>5 DEF CacheStep, Carries, WithCopy
<1> QED BY <1>1, <1>2, <1>6, <1>7, QuietTurn

\* A command that changes the index only, at the session it is at.
LEMMA IndexTurn ==
  ASSUME Inv, TurnInv, NEW t \in Command, NEW p \in {"user", "index", "load", "done", "evict"}, NEW c,
         Moves(t, p, c), c \in Session \/ p \in {"done", "evict"}, RowsKept(st, st'), st'.snaps = st.snaps,
         UNCHANGED <<config, req, now, kept, raced>>, CacheStep
  PROVE  TurnInv'
<1>1. t \in Thread
  BY DEF Thread
<1>2. Carries(t, p, c, th'[t].copy)
  BY DEF Carries, WithCopy
<1> QED BY <1>1, <1>2, QuietTurn DEF RowsKept

LEMMA CreateTurn ==
  ASSUME Inv, TurnInv, NEW t \in Command, CreateSession(t)
  PROVE  TurnInv'
<1> DEFINE c == th[t].convo
           D == IF backend = "json" THEN st.dirs \cup {c} ELSE st.dirs
<1>1. /\ UNCHANGED <<config, cache, req, now, kept, raced>> /\ th[t].pc = "create" /\ ThStep(t, "user")
      /\ st' = [st EXCEPT !.dirs = D] /\ t \in Thread
  BY DEF CreateSession, Thread
<1> HIDE DEF D
<1>2. RowsKept(st, st') /\ st'.snaps = st.snaps
  BY <1>1, DirsIs, FieldSnaps DEF Inv
<1>3. Moves(t, "user", c) /\ CacheStep /\ c \in Session
  BY <1>1, ThStepIs DEF Inv, TurnInv, CopyInv, CacheStep
<1> QED BY <1>1, <1>2, <1>3, IndexTurn

LEMMA UserSnaps ==
  ASSUME Inv, NEW u, st' = upsert_super_user(u)
  PROVE  RowsKept(st, st') /\ st'.snaps = st.snaps
<1>1. PICK U : st' = [st EXCEPT !.users = U]
  BY DEF upsert_super_user, json_upsert_super_user, sqlite_upsert_super_user
<1> QED BY <1>1, UsersIs, FieldSnaps DEF Inv

LEMMA IndexUserTurn ==
  ASSUME Inv, TurnInv, NEW t \in Command, IndexUser(t)
  PROVE  TurnInv'
<1> DEFINE c == th[t].convo
<1>1. /\ UNCHANGED <<config, cache, req, now, kept, raced>> /\ th[t].pc = "user" /\ ThStep(t, "index")
      /\ st' = upsert_super_user(t.user) /\ t \in Thread
  BY DEF IndexUser, Thread
<1>2. RowsKept(st, st') /\ st'.snaps = st.snaps
  BY <1>1, UserSnaps
<1>3. Moves(t, "index", c) /\ CacheStep /\ c \in Session
  BY <1>1, ThStepIs DEF Inv, TurnInv, CopyInv, CacheStep
<1> QED BY <1>1, <1>2, <1>3, IndexTurn

LEMMA IndexSessionTurn ==
  ASSUME Inv, TurnInv, NEW t \in Command, IndexSession(t)
  PROVE  TurnInv'
<1> DEFINE c == th[t].convo
           p == IF t.act \in {"compact", "undo"} THEN "load" ELSE "done"
<1>1. /\ UNCHANGED <<config, cache, req, now, kept, raced>> /\ th[t].pc = "index" /\ ThStep(t, p)
      /\ st' = Indexed(st, c) /\ p \in {"load", "done"} /\ t \in Thread
  BY DEF IndexSession, Thread
<1> HIDE DEF p
<1>2. RowsKept(st, st') /\ st'.snaps = st.snaps
  BY <1>1, IndexedIs, IndexedSnaps DEF Inv
<1>3. Moves(t, p, c) /\ CacheStep /\ c \in Session
  BY <1>1, ThStepIs DEF Inv, TurnInv, CopyInv, CacheStep
<1> QED BY <1>1, <1>2, <1>3, IndexTurn

LEMMA NamedTurn ==
  ASSUME Inv, TurnInv, NEW t \in Command, create_super_user(t) \/ set_session_title(t)
  PROVE  TurnInv'
<1>1. /\ UNCHANGED <<config, cache, req, now, kept, raced>> /\ st' = upsert_super_user(t.user)
      /\ t \in Thread
  BY DEF create_super_user, set_session_title, Thread
<1>2. RowsKept(st, st') /\ st'.snaps = st.snaps /\ CacheStep
  BY <1>1, UserSnaps DEF CacheStep
<1>3. CASE create_super_user(t)
  <2>1. Moves(t, "done", th[t].convo)
    BY <1>1, <1>3, ThStepIs DEF create_super_user, Inv
  <2> QED BY <1>1, <1>2, <2>1, IndexTurn
<1>4. CASE set_session_title(t)
  <2>1. <<t.user, t.n>> \in Session
    BY <1>4, CommandIs DEF set_session_title
  <2>2. Moves(t, "index", <<t.user, t.n>>)
    BY <1>1, <1>4, ThGoIs DEF set_session_title, Inv
  <2> QED BY <1>1, <1>2, <2>1, <2>2, IndexTurn
<1> QED BY <1>3, <1>4

LEMMA DestroyListTurn ==
  ASSUME Inv, TurnInv, NEW t \in Command, DestroyList(t)
  PROVE  TurnInv'
<1>1. UNCHANGED <<config, st, cache, req, now, kept, raced>>
  BY DEF DestroyList
<1>2. PICK d : th' = [th EXCEPT ![t].pc = "evict", ![t].todo = d]
  BY DEF DestroyList
<1>3. Moves(t, "evict", th[t].convo) /\ CacheStep
  BY <1>1, <1>2, ThListIs DEF Inv, Thread, CacheStep
<1>4. RowsKept(st, st') /\ st'.snaps = st.snaps
  BY <1>1 DEF Inv, RowsKept
<1> QED BY <1>1, <1>3, <1>4, IndexTurn

LEMMA DestroyEvictTurn ==
  ASSUME Inv, TurnInv, NEW t \in Command, DestroyEvict(t)
  PROVE  TurnInv'
<1>1. UNCHANGED <<config, st, req, now, kept, raced>> /\ th[t].pc = "evict" /\ t \in Thread
  BY DEF DestroyEvict, Thread
<1>2. PICK c : cache' = [cache EXCEPT ![c] = None] /\ th' = [th EXCEPT ![t].todo = th[t].todo \ {c}]
  BY DEF DestroyEvict
<1> DEFINE e == th[t].todo \ {c}
<1>3. th' = [th EXCEPT ![t].todo = e]
  BY <1>2
<1> HIDE DEF e
<1>4. Moves(t, "evict", th[t].convo)
  BY <1>1, <1>3, ThEvictIs DEF Inv
<1>5. CacheStep
  BY <1>2, CacheWrite
<1>6. RowsKept(st, st') /\ st'.snaps = st.snaps
  BY <1>1 DEF Inv, RowsKept
<1> QED BY <1>1, <1>4, <1>5, <1>6, IndexTurn

\* Rows and snapshots go only from conversations of which nothing is kept.
LEMMA StoreDrops ==
  ASSUME TurnInv, UNCHANGED raced, NEW D,
         kept' = [c \in Convo |-> IF c \in D THEN {} ELSE kept[c]], SnapsOK(st'.snaps),
         \A c \in Convo : st'.rows[c] \in {None, st.rows[c]},
         \A c \in Convo \ D : st'.rows[c] = st.rows[c] /\ st'.snaps[c] = st.snaps[c]
  PROVE  KeepsAll
<1>1. /\ kept' = [c \in Convo |-> kept'[c]]
      /\ \A c \in Convo : kept'[c] = IF c \in D THEN {} ELSE kept[c]
  BY DEF TurnInv
<1>2. \A c \in Convo \ D : SnappedIn(st'.snaps, c) = SnappedIn(st.snaps, c)
                           /\ RecordedIn(st', c) = RecordedIn(st, c)
  BY DEF RecordedIn, SnappedIn
<1>3. RowsStep
  BY DEF RowsStep
<1>4. KeptStep
  BY <1>1, <1>2 DEF KeptStep
<1>5. TurnStep
  <2> SUFFICES ASSUME NEW c \in Convo \ raced'
               PROVE  \/ kept'[c] \subseteq RecordedIn(st', c)
                      \/ kept'[c] \subseteq kept[c] /\ RecordedIn(st, c) \subseteq RecordedIn(st', c)
    BY DEF TurnStep
  <2>1. CASE c \in D
    BY <1>1, <2>1
  <2>2. CASE c \notin D
    BY <1>1, <1>2, <2>2
  <2> QED BY <2>1, <2>2
<1> QED BY <1>1, <1>3, <1>4, <1>5 DEF KeepsAll

LEMMA DestroyUserTurn ==
  ASSUME OwnIds, Inv, TurnInv, NEW t \in Command, delete_super_user(t)
  PROVE  TurnInv'
<1> DEFINE u == t.user
<1>1. /\ UNCHANGED <<config, cache, req, now, raced>> /\ ThStep(t, "done")
      /\ st' = json_delete_super_user(st, u) \/ (NobodyAlike /\ st' = sqlite_delete_super_user(st, u))
      /\ kept' = [c \in Convo |-> IF c \in SessionsOf(u) THEN {} ELSE kept[c]]
  BY DEF delete_super_user, OwnIds
<1>2. t \in Thread /\ u \in SuperUser
  BY CommandIs
<1>3. StoreOK(st) /\ SnapsOK(st.snaps)
  BY DEF Inv, TurnInv, RowInv, SnapsOK
<1>4. /\ SnapsOK(st'.snaps)
      /\ \A c \in Convo \ SessionsOf(u) : st'.rows[c] = st.rows[c] /\ st'.snaps[c] = st.snaps[c]
      /\ \A c \in Convo : st'.rows[c] \in {None, st.rows[c]}
  BY <1>1, <1>2, <1>3, DeleteUserAll
<1>5. KeepsAll
  BY <1>1, <1>4, StoreDrops
<1>6. Moves(t, "done", th[t].convo) /\ CacheStep
  BY <1>1, <1>2, ThStepIs DEF Inv, CacheStep
<1>7. Carries(t, "done", th[t].convo, th'[t].copy)
  BY DEF Carries, WithCopy
<1> QED BY <1>1, <1>2, <1>5, <1>6, <1>7, ThreadTurn

\* One of the parts of a delete.
LEMMA DeleteTurn ==
  ASSUME Inv, TurnInv, NEW t \in Command,
         NEW from, NEW to \in {"delete_snaps", "delete_row", "delete_io", "invalidate"},
         NEW s, DeleteStep(t, from, to, s), SnapsOK(s.snaps),
         \A d \in Convo : s.rows[d] \in {None, st.rows[d]},
         \A d \in Convo : d # <<t.user, t.n>> => s.rows[d] = st.rows[d] /\ s.snaps[d] = st.snaps[d]
  PROVE  TurnInv'
<1> DEFINE c == <<t.user, t.n>>
<1>1. /\ UNCHANGED <<config, req, now, raced>> /\ st' = s
      /\ th' = [th EXCEPT ![t].pc = to, ![t].convo = c]
      /\ cache' = [cache EXCEPT ![c] = IF from = "delete_io" THEN None ELSE cache[c]]
      /\ kept' = [kept EXCEPT ![c] = {}]
  BY DEF DeleteStep
<1>2. t \in Thread
  BY CommandIs
<1> HIDE DEF c
<1>3. kept' = [d \in Convo |-> IF d \in {c} THEN {} ELSE kept[d]]
  BY <1>1 DEF TurnInv
<1>4. KeepsAll
  <2>1. \A d \in Convo \ {c} : st'.rows[d] = st.rows[d] /\ st'.snaps[d] = st.snaps[d]
    BY <1>1 DEF c
  <2> QED BY <1>1, <1>3, <2>1, StoreDrops
<1>5. Moves(t, to, c)
  BY <1>1, <1>2, ThGoIs DEF Inv
<1>6. CacheStep
  BY <1>1, CacheWrite
<1>7. Carries(t, to, c, th'[t].copy)
  BY DEF Carries, WithCopy
<1> QED BY <1>1, <1>2, <1>4, <1>5, <1>6, <1>7, ThreadTurn

LEMMA DeleteRowTurn ==
  ASSUME Inv, TurnInv, NEW c
  PROVE  /\ SnapsOK(DeleteRow(c).snaps)
         /\ \A d \in Convo : DeleteRow(c).rows[d] \in {None, st.rows[d]}
         /\ \A d \in Convo : d # c => /\ DeleteRow(c).rows[d] = st.rows[d]
                                      /\ DeleteRow(c).snaps[d] = st.snaps[d]
<1>1. DeleteRow(c) = Without(st, {c})
  BY DEF DeleteRow, json_delete_conversation, sqlite_delete_conversation
<1>2. DeleteRow(c).snaps = st.snaps
  BY <1>1, WithoutSnaps DEF Inv
<1>3. \A d \in Convo : DeleteRow(c).rows[d] = IF d = c THEN None ELSE st.rows[d]
  BY DeleteRowIs DEF Inv
<1> QED BY <1>2, <1>3 DEF TurnInv, RowInv, SnapsOK

LEMMA DeleteSessionTurn ==
  ASSUME Inv, TurnInv, NEW t \in Command, delete_session(t)
  PROVE  TurnInv'
<1> DEFINE c == <<t.user, t.n>>
           A == IF backend = "json" THEN json_delete_session_index_entry(st, c)
                ELSE sqlite_delete_session_index_entry(st, c)
           B == IF backend = "json" THEN json_delete_snapshots(st, c) ELSE sqlite_delete_snapshots(st, c)
<1>1. \/ DeleteStep(t, "start", "delete_snaps", A)
      \/ DeleteStep(t, "delete_snaps", "delete_row", B)
      \/ DeleteStep(t, "delete_row", "delete_io", DeleteRow(c))
  BY DEF delete_session
<1>2. StoreOK(st) /\ SnapsOK(st.snaps)
  BY DEF Inv, TurnInv, RowInv, SnapsOK
<1>3. A.rows = st.rows /\ A.snaps = st.snaps
  <2>1. PICK E : A = [st EXCEPT !.entry = E]
    BY DEF json_delete_session_index_entry, sqlite_delete_session_index_entry
  <2> HIDE DEF A
  <2> QED BY <1>2, <2>1, EntryIs, FieldSnaps DEF RowsKept
<1>4. SnapsOK(B.snaps) /\ B.rows = st.rows /\ \A d \in Convo : d # c => B.snaps[d] = st.snaps[d]
  <2>1. B = json_delete_snapshots(st, c) \/ B = sqlite_delete_snapshots(st, c)
    OBVIOUS
  <2> HIDE DEF B, c
  <2>2. B.rows = st.rows
    BY <1>2, <2>1, DeleteSnapshotsIs DEF RowsKept
  <2>3. SnapsOK(B.snaps) /\ \A d \in Convo : d # c => B.snaps[d] = st.snaps[d]
    BY <1>2, <2>1, DeleteSnaps
  <2> QED BY <2>2, <2>3
<1> HIDE DEF A, B
<1>5. CASE DeleteStep(t, "start", "delete_snaps", A)
  BY <1>2, <1>3, <1>5, DeleteTurn
<1>6. CASE DeleteStep(t, "delete_snaps", "delete_row", B)
  BY <1>4, <1>6, DeleteTurn
<1>7. CASE DeleteStep(t, "delete_row", "delete_io", DeleteRow(c))
  BY <1>7, DeleteRowTurn, DeleteTurn
<1> QED BY <1>1, <1>5, <1>6, <1>7

LEMMA SessionIODeleteTurn ==
  ASSUME Inv, TurnInv, NEW t \in Command, delete_conversation(t)
  PROVE  TurnInv'
<1>1. DeleteStep(t, "delete_io", "invalidate", DeleteRow(<<t.user, t.n>>))
  BY DEF delete_conversation
<1> QED BY <1>1, DeleteRowTurn, DeleteTurn

LEMMA CommandTurn ==
  ASSUME OwnIds, Inv, TurnInv, NEW t \in Command, ThreadStep(t)
  PROVE  TurnInv'
<1>1. t \in Thread
  BY DEF Thread
<1> QED BY <1>1, CompactTurn, UndoTurn, ResolveTurn, CreateTurn, IndexUserTurn, IndexSessionTurn,
           NamedTurn, DeleteSessionTurn,
           SessionIODeleteTurn, DestroyListTurn, DestroyEvictTurn, DestroyUserTurn DEF ThreadStep

----------------------------------------------------------------------------
(* The compaction thread, the cleanup threads, shutdown and time           *)

LEMMA CompactorTurn ==
  ASSUME Inv, TurnInv, CompactorStep
  PROVE  TurnInv'
<1>1. Compactor \in Thread /\ Compactor \notin Command
  BY CompactorIsNoCommand DEF Inv
<1>2. ASSUME UNCHANGED <<config, st, cache, req, now, kept, raced>>,
             NEW p \in {"load", "unmark", "start", "done"}, NEW c, Moves(Compactor, p, c)
      PROVE  TurnInv'
  <2>1. CacheStep /\ Carries(Compactor, p, c, th'[Compactor].copy)
    BY <1>1, <1>2 DEF CacheStep, Carries, WithCopy
  <2> QED BY <1>1, <1>2, <2>1, QuietTurn
<1>3. CASE Dequeue
  <2> DEFINE h == Head(queue)
  <2>1. UNCHANGED <<config, st, cache, req, now, kept, raced>>
        /\ th' = [th EXCEPT ![Compactor].pc = "load", ![Compactor].convo = h]
    BY <1>3 DEF Dequeue
  <2> HIDE DEF h
  <2>2. Moves(Compactor, "load", h)
    BY <1>1, <2>1, ThGoIs DEF Inv
  <2> QED BY <1>2, <2>1, <2>2
<1>4. CASE Unqueue \/ Unmark \/ WorkerExit
  <2>1. /\ UNCHANGED <<config, st, cache, req, now, kept, raced>>
        /\ \E p \in {"unmark", "start", "done"} : ThStep(Compactor, p)
    BY <1>4 DEF Unqueue, Unmark, WorkerExit
  <2>2. PICK p \in {"unmark", "start", "done"} : ThStep(Compactor, p)
    BY <2>1
  <2>3. Moves(Compactor, p, th[Compactor].convo)
    BY <1>1, <2>1, <2>2, ThStepIs DEF Inv
  <2> QED BY <1>2, <2>1, <2>3
<1> QED BY <1>1, <1>3, <1>4, CompactTurn DEF CompactorStep

\* A step of no worker and of no thread.
LEMMA OtherTurn ==
  ASSUME Inv, TurnInv, UNCHANGED <<config, req, th>>, now' \in Nat, CacheStep, KeepsAll
  PROVE  TurnInv'
<1>1. Written \subseteq Written' /\ \A r \in Request : req'[r] = req[r]
  BY WorkersStay
<1>2. \A t \in Thread : th'[t] = th[t]
  OBVIOUS
<1> QED BY <1>1, <1>2, TurnFrame DEF KeepsAll

LEMMA CleanerTurn ==
  ASSUME Inv, TurnInv, NEW k \in Cleaner, CleanerStep(k)
  PROVE  TurnInv'
<1>1. UNCHANGED <<config, req, th, now, raced>> /\ now' \in Nat
  BY DEF CleanerStep, ScanStep, cleanup_loop, ScanProcess, ScanConvo, Judge, EvictProcess,
         RemoveProcess, TurnInv
<1>2. CASE ScanStep(k) \/ EvictProcess(k)
  <2>1. UNCHANGED <<st, kept>>
    BY <1>2 DEF ScanStep, cleanup_loop, ScanProcess, ScanConvo, Judge, EvictProcess
  <2>2. \A c \in Convo : cache'[c] \in {None, cache[c]}
    BY <1>2 DEF ScanStep, cleanup_loop, ScanProcess, ScanConvo, Judge, EvictProcess
  <2>3. CacheStep /\ KeepsAll
    BY <1>1, <2>1, <2>2, StoreStays DEF CacheStep, KeepsAll
  <2> QED BY <1>1, <2>3, OtherTurn
<1>3. CASE RemoveProcess(k)
  <2> DEFINE p == cleaner[k].pid
             D == {c \in Convo : c[1] = p}
  <2>1. /\ UNCHANGED cache
        /\ st' = json_delete_all_proc_convos(st, p) \/ st' = sqlite_delete_all_proc_convos(st, p)
        /\ kept' = [c \in Convo |-> IF c[1] = p THEN {} ELSE kept[c]]
    BY <1>3 DEF RemoveProcess
  <2> HIDE DEF p
  <2>2. \A c \in ProcConvo : st.rows[c] # None => st.rows[c].creator_pid = c[1]
    BY DEF TurnInv, RowInv, RowOK, Convo
  <2>3. /\ st'.snaps = st.snaps
        /\ \A c \in Convo : st'.rows[c] = st.rows[c] \/ (st'.rows[c] = None /\ c[1] = p)
    BY <2>1, <2>2, DeleteProcAll DEF Inv
  <2>4. kept' = [c \in Convo |-> IF c \in D THEN {} ELSE kept[c]]
    BY <2>1
  <2>5. /\ \A c \in Convo : st'.rows[c] \in {None, st.rows[c]}
        /\ \A c \in Convo \ D : st'.rows[c] = st.rows[c] /\ st'.snaps[c] = st.snaps[c]
        /\ SnapsOK(st'.snaps)
    BY <2>3 DEF TurnInv, RowInv, SnapsOK
  <2> HIDE DEF D
  <2>6. KeepsAll
    BY <1>1, <2>4, <2>5, StoreDrops
  <2>7. CacheStep
    BY <2>1 DEF CacheStep
  <2> QED BY <1>1, <2>6, <2>7, OtherTurn
<1> QED BY <1>2, <1>3 DEF CleanerStep

LEMMA NextTurn == OwnIds /\ Inv /\ TurnInv /\ [Next]_vars => TurnInv'
<1> SUFFICES ASSUME OwnIds, Inv, TurnInv, [Next]_vars
             PROVE  TurnInv'
  OBVIOUS
<1>1. CASE \E r \in Request : RequestStep(r)
  BY <1>1, RequestTurn
<1>2. CASE \E t \in Command : ThreadStep(t)
  BY <1>2, CommandTurn
<1>3. CASE CompactorStep
  BY <1>3, CompactorTurn
<1>4. CASE \E k \in Cleaner : CleanerStep(k)
  BY <1>4, CleanerTurn
<1>5. CASE StopQueue \/ Tick \/ UNCHANGED vars
  <2>1. UNCHANGED <<config, req, th, st, cache, kept, raced>> /\ now' \in {now, now + 1}
    BY <1>5 DEF StopQueue, Tick, vars
  <2>2. now' \in Nat
    BY <2>1 DEF TurnInv
  <2>3. CacheStep /\ KeepsAll
    BY <2>1, StoreStays DEF CacheStep, KeepsAll
  <2> QED BY <2>1, <2>2, <2>3, OtherTurn
<1> QED BY <1>1, <1>2, <1>3, <1>4, <1>5 DEF Next

LEMMA InitTurn == Init => TurnInv
<1> SUFFICES ASSUME Init
             PROVE  TurnInv
  OBVIOUS
<1> DEFINE N(c) == Load[load].stored[c]
           S == [c \in Convo |-> <<>>]
<1>1. /\ load \in DOMAIN Load /\ now = 1 /\ cache = [c \in Convo |-> None]
      /\ kept = [c \in Convo |-> Messages(History(N(c)))]
      /\ \A r \in Request : req[r].pc = "queued"
      /\ \A t \in Thread : th[t].pc = "start"
  BY DEF Init
<1>2. \A c \in Convo : N(c) \in Nat
  BY <1>1, ConversationAssumption
<1>3. \A n \in Nat : History(n) \in Seq(Written)
  <2> SUFFICES ASSUME NEW n \in Nat
               PROVE  History(n) \in Seq(Written)
    OBVIOUS
  <2>1. \A i \in 1 .. n : \A role \in {"user", "assistant"} : Message(<<"old", i>>, role) \in Written
    <3> SUFFICES ASSUME NEW i \in 1 .. n, NEW role \in {"user", "assistant"}
                 PROVE  Message(<<"old", i>>, role) \in Written
      OBVIOUS
    <3> DEFINE m == Message(<<"old", i>>, role)
    <3>1. m \in MessageType /\ m.by = <<"old", i>>
      BY DEF MessageType, Message
    <3>2. \A r : m.by # <<"req", r>>
      BY <3>1
    <3> QED BY <3>1, <3>2 DEF Written
  <2>2. History(n) \in [1 .. n -> Written]
    BY <2>1 DEF History
  <2> QED BY <2>2
<1>4. /\ \A c \in Convo : st.rows[c] = StoredRow(c)
      /\ st.snaps = S
  <2> DEFINE there == {c \in Convo : N(c) > 0}
             e0 == EmptyStore
             R == [c \in Convo |-> StoredRow(c)]
             e1 == [e0 EXCEPT !.rows = R]
             E == there \cap Session
             U == {c[1] : c \in there \cap Session}
             D == IF backend = "json" THEN there ELSE {}
  <2>1. st = [e0 EXCEPT !.rows = R, !.entry = E, !.users = U, !.dirs = D]
    BY DEF Init, EmptyStore
  <2>2. e1 = [rows |-> R, entry |-> {}, users |-> {}, dirs |-> {}, snaps |-> S]
    <3> DEFINE Q == [c \in Convo |-> None]
    <3>1. e0 = [rows |-> Q, entry |-> {}, users |-> {}, dirs |-> {}, snaps |-> S]
      BY DEF EmptyStore
    <3> HIDE DEF e0, Q, R, S
    <3> QED BY <3>1
  <2>3. R = [c \in Convo |-> R[c]] /\ \A c \in Convo : R[c] = StoredRow(c)
    OBVIOUS
  <2> DEFINE e2 == [e1 EXCEPT !.entry = E]
             e3 == [e2 EXCEPT !.users = U]
  <2>4. st = [e3 EXCEPT !.dirs = D]
    BY <2>1
  <2> HIDE DEF R, e1, E, U, D, S
  <2>5. StoreOK(e1) /\ e1.rows = R /\ e1.snaps = S
    BY <2>2, <2>3 DEF StoreOK
  <2>6. RowsKept(e1, e2) /\ e2.snaps = S
    BY <2>5, EntryIs, FieldSnaps
  <2> HIDE DEF e2
  <2>7. RowsKept(e2, e3) /\ e3.snaps = S
    BY <2>6, UsersIs, FieldSnaps DEF RowsKept
  <2> HIDE DEF e3
  <2>8. RowsKept(e3, st) /\ st.snaps = S
    BY <2>4, <2>7, DirsIs, FieldSnaps DEF RowsKept
  <2> QED BY <2>3, <2>5, <2>6, <2>7, <2>8 DEF RowsKept
<1>5. \A c \in Convo : /\ RowOK(Written, c, StoredRow(c))
                       /\ N(c) # 0 => StoredRow(c) # None /\ StoredRow(c).msgs = History(N(c))
  <2> SUFFICES ASSUME NEW c \in Convo, N(c) # 0
               PROVE  RowOK(Written, c, StoredRow(c)) /\ StoredRow(c) # None
                      /\ StoredRow(c).msgs = History(N(c))
    BY DEF StoredRow, RowOK
  <2> DEFINE p == IF is_session_id(c) THEN None ELSE c[1]
             n == N(c)
             h == History(n)
  <2>1. StoredRow(c) = Row(h, p, 1, n)
    BY DEF StoredRow, Row
  <2>2. p \in Pid \cup {None} /\ Owns(c, p)
    BY ConvoKinds DEF Owns, ProcConvo, is_session_id, Convo, Session
  <2>3. h \in Seq(Written) /\ OfMessages(Written) /\ n \in Nat /\ 1 \in Nat
    BY <1>2, <1>3, WrittenOK
  <2> HIDE DEF p, n, h
  <2>4. RowAt(Written, c, Row(h, p, 1, n))
    BY <2>2, <2>3, RowIs
  <2>5. Row(h, p, 1, n).msgs = h
    BY DEF Row
  <2> QED BY <2>1, <2>4, <2>5 DEF RowAt, h, n
<1>6. RowInv
  <2>1. st.snaps \in [Convo -> Seq(Seq(MessageType))]
    BY <1>4
  <2>2. \A c \in Convo : RowOK(Written, c, st.rows[c]) /\ RowOK(Written, c, cache[c])
    BY <1>1, <1>4, <1>5 DEF RowOK
  <2> QED BY <2>1, <2>2 DEF RowInv
<1>7. \A r \in Request : WorkerInv(r)
  BY <1>1 DEF WorkerInv
<1>8. \A t \in Thread : CopyInv(t)
  BY <1>1 DEF CopyInv, WithCopy
<1>9. TurnIsKept
  <2> SUFFICES ASSUME NEW c \in Convo
               PROVE  kept[c] \subseteq Recorded(c)
    BY DEF TurnIsKept
  <2>1. CASE N(c) = 0
    <3>1. Messages(History(0)) = {}
      BY DEF Messages, History
    <3> QED BY <1>1, <2>1, <3>1
  <2>2. CASE N(c) # 0
    BY <1>1, <1>4, <1>5, <2>2 DEF Recorded
  <2> QED BY <2>1, <2>2
<1> QED BY <1>1, <1>6, <1>7, <1>8, <1>9 DEF TurnInv

\* The provider is chosen once.
LEMMA OwnIdsStay == [Next]_vars => OwnIds' = OwnIds
<1> SUFFICES ASSUME [Next]_vars
             PROVE  backend' = backend
  BY DEF OwnIds, NobodyAlike
<1>1. ASSUME NEW r \in Request, RequestStep(r)
      PROVE  UNCHANGED config
  BY <1>1 DEF RequestStep, NormalizeUser, NormalizeProcess, BuildRead, BuildWrite, PersistReply,
         ReplyDiscarded, ComputeUsage, MarkNeeding, enqueue
<1>2. ASSUME NEW t, CompactStep(t)
      PROVE  UNCHANGED config
  BY <1>2 DEF CompactStep, get_conversation, Summarize, save_snapshot, PersistCompacted,
         invalidate_conversation_cache
<1>3. ASSUME NEW t \in Command, ThreadStep(t)
      PROVE  UNCHANGED config
  BY <1>2, <1>3 DEF ThreadStep, Undo, Resolve, CreateSession, IndexUser, IndexSession,
         create_super_user, set_session_title, delete_session, delete_conversation, DeleteStep,
         DestroyList, DestroyEvict, delete_super_user
<1>4. ASSUME CompactorStep
      PROVE  UNCHANGED config
  BY <1>2, <1>4 DEF CompactorStep, Dequeue, Unqueue, Unmark, WorkerExit
<1>5. ASSUME NEW k \in Cleaner, CleanerStep(k)
      PROVE  UNCHANGED config
  BY <1>5 DEF CleanerStep, ScanStep, cleanup_loop, ScanProcess, ScanConvo, Judge, EvictProcess,
         RemoveProcess
<1>6. UNCHANGED config
  BY <1>1, <1>3, <1>4, <1>5 DEF Next, StopQueue, Tick, vars
<1> QED BY <1>6 DEF config

\* Whatever requests, compactions, undos, deletes and cleanups do in whatever
\* order, a message whose write was reported is in its conversation or in a
\* snapshot of it until the user undoes or deletes it, unless two writers of
\* the conversation overlapped: always over JSON files, and over SQLite as
\* long as no user's ids match the pattern of another's.
THEOREM TurnsAreKept == Spec => [](OwnIds => TurnIsKept)
<1> DEFINE J == Inv /\ (OwnIds => TurnInv)
<1>1. Init => J
  BY InitInv, InitTurn
<1>2. J /\ [Next]_vars => J'
  <2>1. [Next]_vars => (OwnIds' => OwnIds)
    BY OwnIdsStay
  <2> QED BY <2>1, NextInv, NextTurn
<1>3. J => (OwnIds => TurnIsKept)
  BY DEF TurnInv
<1> QED BY <1>1, <1>2, <1>3, PTL DEF Spec

\* The same for every behaviour, where no two users' ids are alike.
COROLLARY TurnsAreAllKept == ASSUME NobodyAlike PROVE Spec => []TurnIsKept
<1>1. OwnIds
  BY DEF OwnIds
<1>2. (OwnIds => TurnIsKept) => TurnIsKept
  BY <1>1
<1> QED BY <1>2, TurnsAreKept, PTL

=============================================================================
