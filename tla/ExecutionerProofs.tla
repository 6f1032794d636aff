-------------------------- MODULE ExecutionerProofs --------------------------
(***************************************************************************)
(* Proofs about Executioner for every set of requests and packages, every  *)
(* workload, and every number of threads, edits and crashes: one thread    *)
(* prepares per cache key, no slot of the coalescer is orphaned, and only  *)
(* what was prepared is launched.                                          *)
(***************************************************************************)
EXTENDS Executioner, TLAPS

Before == {"new", "queued", "lost", "clean", "prune", "resolve"}
After == {"launch", "done"}
Pc == Before \cup Leading \cup After \cup {"put", "enter", "wait"}

ChildTable == [Request -> {None, "up", "ok", "bad", "reaped"}]
Thread == [pc : Pc, key : Key \cup {None}, leads : Request \cup {None}, step : Nat, ok : BOOLEAN]

TypeOK ==
  /\ load \in DOMAIN Load
  /\ disk \in [Package -> [src : Version, art : Version \cup {None}]]
  /\ status \in [Key -> {"absent", "none", "preparing", "ready", "failed"}]
  /\ pkg_cache \in [Package -> Key \cup {None}]
  /\ slots \in [Key -> Request \cup {None}]
  /\ slot \in [Request -> {None, "preparing", "ready", "failed"}]
  /\ req \in [Request -> Thread]
  /\ child \in ChildTable
  /\ prepared \subseteq Key /\ launched \subseteq Request

\* A request knows its key once it was resolved, a follower knows its leader,
\* and a prepare step runs only for a thread that waits for it.
LocalInv ==
  \A r \in Request :
    /\ req[r].pc \in Leading \cup {"put", "enter", "wait", "launch"} => req[r].key \in Key
    /\ child[r] # None => At(r, "sync")

\* A leader is in the map under its key.
LeaderIsListed == \A r \in Request : req[r].pc \in Leading => slots[req[r].key] = r

\* The slot a request made outlives its leadership, for the followers that
\* still wait on it; its key is the one they asked for.
SlotInv ==
  \A r \in Request :
    /\ slot[r] # None => req[r].pc \in Leading \cup After /\ req[r].key \in Key
    /\ req[r].pc \in Leading => slot[r] # None
    /\ At(r, "wait") => /\ req[r].leads \in Request
                        /\ slot[req[r].leads] # None
                        /\ req[req[r].leads].key = req[r].key

\* Whatever says ready - the file, the slot, the place a thread has come to -
\* says so of a key that was prepared.
ReadyInv ==
  /\ \A k \in Key : status[k] = "ready" => k \in prepared
  /\ \A r \in Request :
       /\ slot[r] = "ready" => req[r].key \in prepared
       /\ req[r].pc \in {"ready", "finish", "launch"} => req[r].key \in prepared
       /\ r \in launched => At(r, "done") /\ req[r].key \in prepared

\* The inductive invariant; who holds a pipe has no part in it.
Inv == TypeOK /\ LocalInv /\ LeaderIsListed /\ SlotHasLeader /\ SlotInv /\ ReadyInv

USE DEF proc

-----------------------------------------------------------------------------
(* What a step of one thread does to its record, field by field.           *)

Others(r) == \A s \in Request : s # r => req'[s] = req[s]
\* The thread of r goes to pc and keeps its key.
Moves(r, pc) ==
  /\ req' \in [Request -> Thread] /\ Others(r)
  /\ req'[r].pc = pc /\ req'[r].key = req[r].key

LEMMA ThreadUpdate ==
  ASSUME req \in [Request -> Thread], NEW r \in Request, NEW n \in Thread,
         req' = [req EXCEPT ![r] = n]
  PROVE  req' \in [Request -> Thread] /\ Others(r) /\ req'[r] = n
BY DEF Others

LEMMA GoMoves ==
  ASSUME req \in [Request -> Thread], NEW r \in Request, NEW pc \in Pc, Go(r, pc)
  PROVE  Moves(r, pc)
<1> DEFINE n == [req[r] EXCEPT !.pc = pc]
<1>1. req[r] \in Thread
  OBVIOUS
<1>2. n \in Thread /\ n.pc = pc /\ n.key = req[r].key
  BY <1>1 DEF Thread
<1>3. req' = [req EXCEPT ![r] = n]
  BY DEF Go
<1> HIDE DEF n
<1>4. QED BY <1>2, <1>3, ThreadUpdate DEF Moves

LEMMA AnswerMoves ==
  ASSUME req \in [Request -> Thread], NEW r \in Request, NEW ok \in BOOLEAN, Answer(r, ok)
  PROVE  Moves(r, "done")
<1> DEFINE n == [req[r] EXCEPT !.pc = "done", !.leads = None, !.step = 0, !.ok = ok]
<1>1. req[r] \in Thread
  OBVIOUS
<1>2. n \in Thread /\ n.pc = "done" /\ n.key = req[r].key
  BY <1>1 DEF Thread, Pc, After
<1>3. req' = [req EXCEPT ![r] = n]
  BY DEF Answer
<1> HIDE DEF n
<1>4. QED BY <1>2, <1>3, ThreadUpdate DEF Moves

-----------------------------------------------------------------------------
(* A step of one thread that leaves the coalescer alone                    *)

\* The tables keep their types, and nothing becomes ready that is not prepared.
Tables ==
  /\ load' = load
  /\ disk' \in [Package -> [src : Version, art : Version \cup {None}]]
  /\ status' \in [Key -> {"absent", "none", "preparing", "ready", "failed"}]
  /\ pkg_cache' \in [Package -> Key \cup {None}]
  /\ prepared \subseteq prepared' /\ prepared' \subseteq Key
  /\ \A k \in Key : status'[k] = "ready" => k \in prepared'

\* Where the thread of r may go: it keeps its part (leader or not), needs a key
\* where a key is used, and a prepared one where it is ready.
Admissible(r, pc) ==
  /\ pc \in Pc \ {"wait"} /\ req[r].pc # "done"
  /\ req[r].pc \in Leading <=> pc \in Leading
  /\ pc \in Leading \cup {"put", "enter", "launch"} => req[r].key \in Key
  /\ pc \in {"ready", "finish", "launch"} => req[r].key \in prepared'
  /\ slot[r] # None => pc \in Leading \cup After

\* Only the child of r changes, and it is there while the thread waits for it;
\* only r is launched, and then it is done.
ChildOf(r, pc) ==
  /\ child' \in ChildTable
  /\ \A s \in Request : s # r => child'[s] = child[s]
  /\ child'[r] # None => pc = "sync"
LaunchOf(r, pc) ==
  \/ launched' = launched
  \/ launched' = launched \cup {r} /\ pc = "done" /\ req[r].key \in prepared'

LEMMA MovesInv ==
  ASSUME Inv, NEW r \in Request, NEW pc \in Pc, Moves(r, pc), Admissible(r, pc), Tables,
         UNCHANGED coalescer, ChildOf(r, pc), LaunchOf(r, pc)
  PROVE  Inv'
<1> USE DEF Inv
<1>1. TypeOK'
  BY DEF TypeOK, Moves, Tables, coalescer, ChildOf, LaunchOf
<1>2. LocalInv'
  BY DEF LocalInv, Moves, Others, Admissible, ChildOf, At, Leading
<1>3. LeaderIsListed'
  BY DEF LeaderIsListed, Moves, Others, Admissible, coalescer
<1>4. SlotHasLeader'
  BY ExecutionerAssumption DEF TypeOK, SlotHasLeader, Moves, Others, Admissible, coalescer
<1>5. SlotInv'
  BY DEF TypeOK, SlotInv, Moves, Others, Admissible, coalescer, At
<1>6. ReadyInv'
  BY DEF TypeOK, ReadyInv, Moves, Others, Admissible, Tables, coalescer, LaunchOf, At
<1>7. QED BY <1>1, <1>2, <1>3, <1>4, <1>5, <1>6

\* A thread that neither starts nor loses a child nor launches.
LEMMA QuietChild ==
  ASSUME Inv, NEW r \in Request, NEW pc, ~At(r, "sync"), UNCHANGED child
  PROVE  ChildOf(r, pc)
BY DEF Inv, TypeOK, LocalInv, ChildOf

\* The tables are left alone.
LEMMA SameTables ==
  ASSUME Inv, UNCHANGED <<load, disk, status, pkg_cache, prepared>>
  PROVE  Tables
BY DEF Inv, TypeOK, ReadyInv, Tables

LEMMA QuietMoves ==
  ASSUME Inv, NEW r \in Request,
         \/ Accept(r) \/ handle_exec_request(r) \/ wait(r)
         \/ launch(r)
  PROVE  Inv'
<1>0. req \in [Request -> Thread]
  BY DEF Inv, TypeOK
<1>1. Tables /\ UNCHANGED coalescer /\ UNCHANGED child
  BY SameTables DEF Accept, handle_exec_request, wait, launch, counters, history, coalescer
<1>2. \A pc : ChildOf(r, pc)
  BY <1>1, QuietChild
     DEF Accept, handle_exec_request, wait, launch, At
<1>3. CASE Accept(r)
  <2>1. At(r, "new") /\ \A pc : LaunchOf(r, pc)
    BY <1>3 DEF Accept, history, LaunchOf
  <2>2. PICK pc \in Pc : pc \in {"queued", "done"} /\ Go(r, pc)
    BY <1>3 DEF Accept, Pc, Before, After
  <2>3. Moves(r, pc)
    BY <1>0, <2>2, GoMoves DEF Pc, Before, After, Leading
  <2>4. Admissible(r, pc)
    BY <2>1, <2>2 DEF Admissible, At, Inv, SlotInv, Pc, Before, After, Leading
  <2>5. QED BY <1>1, <1>2, <2>1, <2>3, <2>4, MovesInv
<1>4. CASE handle_exec_request(r)
  <2>1. At(r, "queued") /\ \A pc : LaunchOf(r, pc)
    BY <1>4 DEF handle_exec_request, history, LaunchOf
  <2>2. PICK pc \in Pc : pc \in {"clean", "prune", "resolve", "done"} /\ Moves(r, pc)
    BY <1>0, <1>4, GoMoves, AnswerMoves DEF Pc, Before, After, Leading, handle_exec_request
  <2>3. Admissible(r, pc)
    BY <2>1, <2>2 DEF Admissible, At, Inv, SlotInv, Pc, Before, After, Leading
  <2>4. QED BY <1>1, <1>2, <2>1, <2>2, <2>3, MovesInv
<1>5. CASE wait(r)
  <2>1. At(r, "wait") /\ UNCHANGED prepared /\ \A pc : LaunchOf(r, pc)
    BY <1>5 DEF wait, history, LaunchOf
  <2>2. PICK pc \in Pc :
          pc \in {"launch", "done"} /\ Moves(r, pc) /\ (pc = "launch" => slot[req[r].leads] = "ready")
    <3>1. (slot[req[r].leads] = "ready" /\ Go(r, "launch")) \/ Answer(r, FALSE)
      BY <1>5 DEF wait
    <3>2. "launch" \in Pc /\ "done" \in Pc
      BY DEF Pc, After
    <3>3. (slot[req[r].leads] = "ready" /\ Moves(r, "launch")) \/ Moves(r, "done")
      BY <1>0, <3>1, <3>2, GoMoves, AnswerMoves
    <3>4. QED BY <3>2, <3>3
  <2>3. req[r].key \in Key /\ req[r].leads \in Request /\ req[req[r].leads].key = req[r].key
    BY <2>1 DEF Inv, LocalInv, SlotInv, At, Pc, Before, After, Leading
  <2>4. pc = "launch" => req[r].key \in prepared
    BY <2>2, <2>3 DEF Inv, ReadyInv
  <2>5. Admissible(r, pc)
    BY <2>1, <2>2, <2>3, <2>4 DEF Admissible, At, Inv, SlotInv, Pc, Before, After, Leading
  <2>6. QED BY <1>1, <1>2, <2>1, <2>2, <2>5, MovesInv
<1>6. CASE launch(r)
  <2>1. At(r, "launch") /\ UNCHANGED prepared
        /\ (launched' = launched \/ launched' = launched \cup {r})
    BY <1>6 DEF launch
  <2>2. Moves(r, "done")
    BY <1>0, <1>6, AnswerMoves DEF Pc, Before, After, Leading, launch
  <2>3. req[r].key \in prepared
    BY <2>1 DEF Inv, ReadyInv, At
  <2>4. LaunchOf(r, "done")
    BY <2>1, <2>3 DEF LaunchOf
  <2>5. Admissible(r, "done")
    BY <2>1, <2>2 DEF Admissible, At, Inv, SlotInv, Pc, Before, After, Leading
  <2>6. QED BY <1>1, <1>2, <2>2, <2>4, <2>5, MovesInv DEF Pc, After
<1>7. QED BY <1>3, <1>4, <1>5, <1>6

-----------------------------------------------------------------------------
(* The key of a request                                                    *)

LEMMA ComputedKey ==
  ASSUME TypeOK, NEW p \in Package
  PROVE  compute_cache_key(p) \in Key
BY DEF TypeOK, compute_cache_key, Key

LEMMA MessageOf ==
  ASSUME TypeOK, NEW r \in Request
  PROVE  Msg(r).pkg \in Package
BY ExecutionerAssumption DEF TypeOK, Msg, MessageType

LEMMA ResolveStep ==
  ASSUME Inv, NEW r \in Request, resolve_package(r)
  PROVE  Inv'
<1> DEFINE p == Msg(r).pkg
           fresh == Msg(r).force \/ pkg_cache[p] = None
           k == IF fresh THEN compute_cache_key(p) ELSE pkg_cache[p]
           pc == IF fresh THEN "put" ELSE Checked(r)
           n == [req[r] EXCEPT !.key = k, !.pc = pc]
<1>1. At(r, "resolve") /\ req[r] \in Thread /\ p \in Package
  BY MessageOf DEF resolve_package, Inv, TypeOK
<1>2. k \in Key
  BY <1>1, ComputedKey DEF Inv, TypeOK
<1>3. pc \in {"put", "enter", "done"}
  BY DEF Checked
<1>4. req' = [req EXCEPT ![r] = n]
  BY DEF resolve_package
<1>5. UNCHANGED <<load, disk, status, pkg_cache, slots, slot, child, prepared, launched>>
  BY DEF resolve_package, coalescer, counters, history
<1> HIDE DEF p, fresh, k, pc
<1>6. n \in Thread /\ n.key = k /\ n.pc = pc
  BY <1>1, <1>2, <1>3 DEF Thread, Pc, Before, After, Leading
<1> HIDE DEF n
<1>7. req' \in [Request -> Thread] /\ Others(r) /\ req'[r].key = k /\ req'[r].pc = pc
  BY <1>4, <1>6, ThreadUpdate DEF Inv, TypeOK
<1>8. slot[r] = None /\ child[r] = None /\ r \notin launched
  BY <1>1 DEF Inv, SlotInv, LocalInv, ReadyInv, At, Pc, Before, After, Leading
<1>9. TypeOK'
  BY <1>5, <1>7 DEF Inv, TypeOK
<1>10. LocalInv' /\ LeaderIsListed'
  BY <1>2, <1>3, <1>5, <1>7, <1>8 DEF Inv, LocalInv, LeaderIsListed, Others, At, Pc, Before, After, Leading
<1>11. SlotHasLeader'
  BY ExecutionerAssumption, <1>1, <1>5, <1>7
  DEF Inv, TypeOK, SlotHasLeader, Others, At, Pc, Before, After, Leading
<1>12. SlotInv'
  BY <1>1, <1>3, <1>5, <1>7, <1>8 DEF Inv, TypeOK, SlotInv, Others, At, Leading
<1>13. ReadyInv'
  BY ExecutionerAssumption, <1>1, <1>3, <1>5, <1>7, <1>8 DEF Inv, ReadyInv, Others, At
<1>14. QED BY <1>9, <1>10, <1>11, <1>12, <1>13 DEF Inv

LEMMA PutStep ==
  ASSUME Inv, NEW r \in Request, PutPackage(r)
  PROVE  Inv'
<1>1. At(r, "put") /\ req \in [Request -> Thread] /\ req[r].key \in Key
  BY DEF PutPackage, Inv, TypeOK, LocalInv, At, Pc, Before, After, Leading
<1>2. PICK pc \in Pc : pc \in {"enter", "done"} /\ Moves(r, pc)
  BY <1>1, GoMoves DEF Pc, Before, After, Leading, PutPackage, Checked
<1>3. UNCHANGED <<load, disk, status, slots, slot, child, prepared, launched>>
  BY DEF PutPackage, coalescer, counters, history
<1>4. Tables
  BY <1>1, <1>3, MessageOf DEF PutPackage, Inv, TypeOK, ReadyInv, Tables
<1>5. Admissible(r, pc)
  BY <1>1, <1>2 DEF Admissible, At, Inv, SlotInv, Pc, Before, After, Leading
<1>6. ChildOf(r, pc) /\ LaunchOf(r, pc) /\ UNCHANGED coalescer
  BY <1>1, <1>3, QuietChild DEF LaunchOf, coalescer, At
<1>7. QED BY <1>2, <1>4, <1>5, <1>6, MovesInv

-----------------------------------------------------------------------------
(* The work of a leader                                                    *)

LEMMA LeaderSteps ==
  ASSUME Inv, NEW r \in Request,
         \/ OpenCache(r) \/ ReadStatus(r) \/ WritePreparing(r) \/ execute_prepare(r)
         \/ run_sync_with_timeout(r) \/ Drain(r) \/ WriteStatus(r)
  PROVE  Inv'
<1> DEFINE k == req[r].key
           Ahead == {"begin", "read", "fail", "finish", "step", "ready", "sync", "drain",
                     "failed"}
<1>0. /\ req \in [Request -> Thread] /\ child \in ChildTable
      /\ status \in [Key -> {"absent", "none", "preparing", "ready", "failed"}]
      /\ prepared \subseteq Key
      /\ \A x \in Key : status[x] = "ready" => x \in prepared
  BY DEF Inv, TypeOK, ReadyInv
<1>1. req[r].pc \in Leading \ {"finish", "fail", "erase"} /\ k \in Key
  <2>1. req[r].pc \in Leading \ {"finish", "fail", "erase"}
    BY DEF OpenCache, ReadStatus, WritePreparing, execute_prepare, run_sync_with_timeout,
           Drain, WriteStatus, Leading, At
  <2>2. QED BY <2>1 DEF Inv, LocalInv
<1>2. UNCHANGED coalescer /\ UNCHANGED <<load, disk, pkg_cache>> /\ \A pc : LaunchOf(r, pc)
  BY DEF OpenCache, ReadStatus, WritePreparing, execute_prepare, run_sync_with_timeout,
         Drain, WriteStatus, counters, history, LaunchOf
<1>3. ASSUME NEW pc \in Pc, pc \in Leading \ {"wait"}, Moves(r, pc), ChildOf(r, pc), Tables,
             pc \in {"ready", "finish"} => k \in prepared'
      PROVE  Inv'
  <2>1. Admissible(r, pc)
    BY <1>1, <1>3 DEF Admissible, Leading
  <2>2. QED BY <1>2, <1>3, <2>1, MovesInv
<1>4. ASSUME NEW s \in {"none", "preparing", "ready", "failed"},
             status' = status \/ SetStatus(k, s), s = "ready" => k \in prepared,
             UNCHANGED prepared
      PROVE  Tables
  BY <1>0, <1>1, <1>2, <1>4 DEF Tables, SetStatus, Inv, TypeOK
<1>5. \A pc \in Ahead : pc \in Pc /\ pc \in Leading \ {"wait"}
  BY DEF Pc, Leading
<1>6. ASSUME NEW pc \in Ahead, ~At(r, "sync"), UNCHANGED child, Go(r, pc)
      PROVE  ChildOf(r, pc) /\ Moves(r, pc)
  BY <1>0, <1>5, <1>6, QuietChild, GoMoves
<1>7. CASE OpenCache(r)
  <2>1. At(r, "open") /\ UNCHANGED child /\ UNCHANGED prepared
        /\ (status' = status \/ SetStatus(k, "none"))
    BY <1>7 DEF OpenCache, history
  <2>2. PICK pc \in {"begin", "read"} : Go(r, pc)
    BY <1>7 DEF OpenCache
  <2>3. Tables
    BY <1>4, <2>1
  <2>4. ChildOf(r, pc) /\ Moves(r, pc)
    BY <1>6, <2>1, <2>2 DEF At
  <2>5. QED BY <1>3, <1>5, <2>3, <2>4
<1>8. CASE ReadStatus(r)
  <2>1. At(r, "read") /\ UNCHANGED child /\ UNCHANGED prepared
        /\ (status' = status \/ SetStatus(k, "none"))
    BY <1>8 DEF ReadStatus, history
  <2>2. PICK pc \in {"fail", "finish", "begin"} :
          Go(r, pc) /\ (pc = "finish" => status[k] = "ready")
    BY <1>8 DEF ReadStatus, LockFailure, Usable
  <2>3. Tables
    BY <1>4, <2>1
  <2>4. ChildOf(r, pc) /\ Moves(r, pc)
    BY <1>6, <2>1, <2>2 DEF At
  <2>5. pc = "finish" => k \in prepared'
    BY <1>0, <1>1, <2>1, <2>2
  <2>6. QED BY <1>3, <1>5, <2>2, <2>3, <2>4, <2>5
<1>9. CASE WritePreparing(r)
  <2>1. At(r, "begin") /\ UNCHANGED child /\ UNCHANGED prepared
        /\ (status' = status \/ SetStatus(k, "preparing"))
    BY <1>9 DEF WritePreparing, history
  <2>2. PICK pc \in {"step", "fail"} : Go(r, pc)
    BY <1>9 DEF WritePreparing, LockFailure
  <2>3. Tables
    BY <1>4, <2>1
  <2>4. ChildOf(r, pc) /\ Moves(r, pc)
    BY <1>6, <2>1, <2>2 DEF At
  <2>5. QED BY <1>3, <1>5, <2>3, <2>4
<1>10. CASE execute_prepare(r)
  <2>1. At(r, "step") /\ UNCHANGED status
    BY <1>10 DEF execute_prepare
  <2>2. CASE Go(r, "ready") /\ prepared' = prepared \cup {k} /\ UNCHANGED child
    <3>1. Tables
      BY <1>0, <1>1, <1>2, <2>1, <2>2 DEF Tables, Inv, TypeOK
    <3>2. ChildOf(r, "ready") /\ Moves(r, "ready")
      BY <1>6, <2>1, <2>2 DEF At
    <3>3. QED BY <1>3, <1>5, <2>2, <3>1, <3>2
  <2>3. CASE Go(r, "sync") /\ child' = [child EXCEPT ![r] = "up"] /\ UNCHANGED prepared
    <3>1. Tables
      BY <1>0, <1>2, <2>1, <2>3 DEF Tables, Inv, TypeOK
    <3>2. ChildOf(r, "sync")
      BY <1>0, <2>3 DEF ChildOf, ChildTable
    <3>3. Moves(r, "sync")
      BY <1>0, <1>5, <2>3, GoMoves
    <3>4. QED BY <1>3, <1>5, <3>1, <3>2, <3>3
  <2>4. QED BY <1>10, <2>2, <2>3 DEF execute_prepare
<1>11. CASE run_sync_with_timeout(r)
  <2>1. UNCHANGED <<status, prepared>> /\ child' = [child EXCEPT ![r] = None]
    BY <1>11 DEF run_sync_with_timeout, history
  <2>2. Tables
    BY <1>0, <1>2, <2>1 DEF Tables, Inv, TypeOK
  <2>3. \A pc : ChildOf(r, pc)
    BY <1>0, <2>1 DEF ChildOf, ChildTable
  <2>4. Moves(r, "drain")
    <3>1. CASE Go(r, "drain")
      BY <1>0, <1>5, <3>1, GoMoves
    <3>2. CASE req' = [req EXCEPT ![r].pc = "drain", ![r].ok = TRUE]
      <4> DEFINE n == [req[r] EXCEPT !.pc = "drain", !.ok = TRUE]
      <4>1. req[r] \in Thread /\ "drain" \in Pc
        BY <1>0, <1>5
      <4>2. n \in Thread /\ n.pc = "drain" /\ n.key = req[r].key
        BY <4>1 DEF Thread
      <4>3. req' = [req EXCEPT ![r] = n]
        BY <3>2
      <4> HIDE DEF n
      <4>4. QED BY <1>0, <4>2, <4>3, ThreadUpdate DEF Moves
    <3>3. QED BY <1>11, <3>1, <3>2 DEF run_sync_with_timeout
  <2>5. QED BY <1>3, <1>5, <2>2, <2>3, <2>4
<1>12. CASE Drain(r)
  <2>1. At(r, "drain") /\ UNCHANGED <<status, prepared, child>>
    BY <1>12 DEF Drain, history
  <2>2. Tables
    BY <1>0, <1>2, <2>1 DEF Tables, Inv, TypeOK
  <2>3. \A pc : ChildOf(r, pc)
    BY <2>1, QuietChild DEF At
  <2>4. Moves(r, "step") \/ Moves(r, "failed")
    <3>1. CASE Go(r, "failed")
      BY <1>0, <1>5, <3>1, GoMoves
    <3>2. CASE req' = [req EXCEPT ![r].pc = "step", ![r].step = @ + 1, ![r].ok = FALSE]
      <4> DEFINE m == req[r].step + 1
      <4> DEFINE n == [req[r] EXCEPT !.pc = "step", !.step = m, !.ok = FALSE]
      <4>0. req[r] \in Thread /\ "step" \in Pc
        BY <1>0, <1>5
      <4>a. m \in Nat
        BY <4>0 DEF Thread
      <4> HIDE DEF m
      <4>1. n \in Thread /\ n.pc = "step" /\ n.key = req[r].key
        BY <4>0, <4>a DEF Thread
      <4> USE DEF m
      <4>2. req' = [req EXCEPT ![r] = n]
        BY <3>2
      <4> HIDE DEF n
      <4>3. QED BY <1>0, <4>1, <4>2, ThreadUpdate DEF Moves
    <3>3. QED BY <1>12, <3>1, <3>2 DEF Drain
  <2>5. QED BY <1>3, <1>5, <2>2, <2>3, <2>4
<1>13. CASE WriteStatus(r)
  <2>1. req[r].pc \in {"ready", "failed"} /\ UNCHANGED child /\ UNCHANGED prepared
        /\ (status' = status \/ SetStatus(k, req[r].pc))
    BY <1>13 DEF WriteStatus, history
  <2>2. req[r].pc = "ready" => k \in prepared
    BY DEF Inv, ReadyInv
  <2>3. PICK pc \in {"finish", "fail"} : Go(r, pc) /\ (pc = "finish" => req[r].pc = "ready")
    BY <1>13 DEF WriteStatus, At
  <2>4. Tables
    BY <1>4, <2>1, <2>2
  <2>5. ChildOf(r, pc) /\ Moves(r, pc)
    BY <1>6, <2>1, <2>3 DEF At
  <2>6. QED BY <1>3, <1>5, <2>1, <2>2, <2>3, <2>4, <2>5
<1>14. QED BY <1>7, <1>8, <1>9, <1>10, <1>11, <1>12, <1>13

-----------------------------------------------------------------------------
(* The coalescer                                                           *)

\* Whoever enters first leads; the others follow a leader of their key.
LEMMA EnterStep ==
  ASSUME Inv, NEW r \in Request, enter(r)
  PROVE  Inv'
<1> DEFINE k == req[r].key
           leads == slots[k] = None
           n == [req[r] EXCEPT !.pc = IF leads THEN "open" ELSE "wait",
                               !.leads = IF leads THEN r ELSE slots[k]]
<1>0. /\ req[r] \in Thread /\ req \in [Request -> Thread]
      /\ slots \in [Key -> Request \cup {None}]
      /\ slot \in [Request -> {None, "preparing", "ready", "failed"}]
  BY DEF Inv, TypeOK
<1>1. At(r, "enter") /\ k \in Key /\ slot[r] = None /\ child[r] = None /\ r \notin launched
  <2>1. At(r, "enter")
    BY DEF enter
  <2>2. QED BY <2>1 DEF Inv, LocalInv, SlotInv, ReadyInv, At, After, Leading
<1>2. UNCHANGED <<load, disk, status, pkg_cache, child, prepared, launched>>
  BY DEF enter, counters, history
<1>3. n \in Thread /\ n.key = k /\ n.pc = (IF leads THEN "open" ELSE "wait")
      /\ n.leads = (IF leads THEN r ELSE slots[k])
  <2>1. "open" \in Pc /\ "wait" \in Pc
    BY DEF Pc, Leading
  <2>2. slots[k] \in Request \cup {None}
    BY <1>0, <1>1
  <2>3. QED BY <1>0, <2>1, <2>2 DEF Thread
<1>4. /\ req' = [req EXCEPT ![r] = n]
      /\ slots' = IF leads THEN [slots EXCEPT ![k] = r] ELSE slots
      /\ slot' = IF leads THEN [slot EXCEPT ![r] = "preparing"] ELSE slot
  BY DEF enter
<1> HIDE DEF n
<1>5. req' \in [Request -> Thread] /\ Others(r) /\ req'[r] = n
  BY <1>0, <1>3, <1>4, ThreadUpdate
<1>6. TypeOK'
  BY <1>0, <1>1, <1>2, <1>4, <1>5 DEF Inv, TypeOK
<1>7. CASE leads
  <2>1. n.pc = "open" /\ n.key = k /\ slots' = [slots EXCEPT ![k] = r]
        /\ slot' = [slot EXCEPT ![r] = "preparing"]
    BY <1>3, <1>4, <1>7
  <2>2. LocalInv'
    BY <1>1, <1>2, <1>5, <2>1 DEF Inv, LocalInv, Others, At, Leading
  <2>3. LeaderIsListed'
    BY <1>0, <1>1, <1>5, <1>7, <2>1, ExecutionerAssumption
    DEF Inv, LeaderIsListed, LocalInv, Others, At, Leading
  <2>4. SlotHasLeader'
    BY <1>0, <1>1, <1>5, <2>1, ExecutionerAssumption
    DEF Inv, SlotHasLeader, Others, At, Leading
  <2>5. SlotInv'
    BY <1>0, <1>1, <1>5, <2>1, ExecutionerAssumption
    DEF Inv, SlotInv, Others, At, Leading
  <2>6. ReadyInv'
    BY <1>0, <1>1, <1>2, <1>5, <2>1 DEF Inv, ReadyInv, Others, At
  <2>7. QED BY <1>6, <2>2, <2>3, <2>4, <2>5, <2>6 DEF Inv
<1>8. CASE ~leads
  <2>1. n.pc = "wait" /\ n.key = k /\ n.leads = slots[k] /\ slots' = slots /\ slot' = slot
    BY <1>3, <1>4, <1>8
  <2>2. slots[k] \in Request /\ req[slots[k]].key = k /\ slots[k] # r
        /\ req[slots[k]].pc \in Leading
    BY <1>0, <1>1, <1>8 DEF Inv, SlotHasLeader, At, Leading
  <2>3. slot[slots[k]] # None
    BY <2>2 DEF Inv, SlotInv
  <2>4. LocalInv' /\ LeaderIsListed'
    BY <1>1, <1>2, <1>5, <2>1 DEF Inv, LocalInv, LeaderIsListed, Others, At, Leading
  <2>5. SlotHasLeader'
    BY <1>0, <1>1, <1>5, <2>1, ExecutionerAssumption
    DEF Inv, SlotHasLeader, Others, At, Leading
  <2>6. SlotInv'
    BY <1>0, <1>1, <1>5, <2>1, <2>2, <2>3 DEF Inv, SlotInv, Others, At, Leading
  <2>7. ReadyInv'
    BY <1>0, <1>1, <1>2, <1>5, <2>1, ExecutionerAssumption DEF Inv, ReadyInv, Others, At
  <2>8. QED BY <1>6, <2>4, <2>5, <2>6, <2>7 DEF Inv
<1>9. QED BY <1>7, <1>8

\* The leader tells its followers how it went, and leaves the map afterwards.
LEMMA SettleStep ==
  ASSUME Inv, NEW r \in Request, Settle(r)
  PROVE  Inv'
<1> DEFINE s == IF At(r, "finish") THEN "ready" ELSE "failed"
<1>0. /\ req \in [Request -> Thread] /\ slot \in [Request -> {None, "preparing", "ready", "failed"}]
  BY DEF Inv, TypeOK
<1>1. req[r].pc \in {"finish", "fail"} /\ slot' = [slot EXCEPT ![r] = s]
  BY DEF Settle
<1>2. req[r].key \in Key /\ child[r] = None /\ r \notin launched
      /\ (s = "ready" => req[r].key \in prepared)
  BY <1>1 DEF Inv, LocalInv, ReadyInv, At, Leading
<1>3. Moves(r, "erase")
  <2>1. "erase" \in Pc
    BY DEF Pc, Leading
  <2>2. Go(r, "erase")
    BY DEF Settle
  <2>3. QED BY <1>0, <2>1, <2>2, GoMoves
<1>4. UNCHANGED <<load, disk, status, pkg_cache, slots, child, prepared, launched>>
  BY DEF Settle, counters, history
<1>5. s \in {"ready", "failed"} /\ s # None
  BY ExecutionerAssumption
<1> HIDE DEF s
<1>6. TypeOK'
  BY <1>0, <1>1, <1>3, <1>4, <1>5 DEF Inv, TypeOK, Moves
<1>7. LocalInv' /\ LeaderIsListed'
  BY <1>1, <1>2, <1>3, <1>4 DEF Inv, LocalInv, LeaderIsListed, Moves, Others, At, Leading
<1>8. SlotHasLeader'
  BY <1>1, <1>3, <1>4, ExecutionerAssumption
  DEF Inv, TypeOK, SlotHasLeader, Moves, Others, Leading
<1>9. SlotInv'
  BY <1>0, <1>1, <1>2, <1>3, <1>5 DEF Inv, SlotInv, Moves, Others, At, Leading
<1>10. ReadyInv'
  BY <1>0, <1>1, <1>2, <1>3, <1>4 DEF Inv, ReadyInv, Moves, Others, At
<1>11. QED BY <1>6, <1>7, <1>8, <1>9, <1>10 DEF Inv

LEMMA EraseStep ==
  ASSUME Inv, NEW r \in Request, erase(r)
  PROVE  Inv'
<1> DEFINE k == req[r].key
<1>0. req \in [Request -> Thread] /\ slots \in [Key -> Request \cup {None}]
  BY DEF Inv, TypeOK
<1>1. At(r, "erase") /\ slots' = [slots EXCEPT ![k] = None]
  BY DEF erase
<1>2. k \in Key /\ child[r] = None /\ r \notin launched /\ slots[k] = r
      /\ (slot[r] = "ready" => k \in prepared)
  BY <1>1 DEF Inv, LocalInv, LeaderIsListed, ReadyInv, At, Leading
<1>3. PICK pc \in {"launch", "done"} : Moves(r, pc) /\ (pc = "launch" => slot[r] = "ready")
  <2>1. "launch" \in Pc /\ ((Go(r, "launch") /\ slot[r] = "ready") \/ Answer(r, FALSE))
    BY DEF Pc, After, erase
  <2>2. (Moves(r, "launch") /\ slot[r] = "ready") \/ Moves(r, "done")
    BY <1>0, <2>1, GoMoves, AnswerMoves
  <2>3. QED BY <2>2
<1>4. UNCHANGED <<load, disk, status, pkg_cache, slot, child, prepared, launched>>
  BY DEF erase, counters, history
<1>5. TypeOK'
  BY <1>0, <1>1, <1>2, <1>3, <1>4 DEF Inv, TypeOK, Moves
<1>6. LocalInv'
  BY <1>1, <1>2, <1>3, <1>4 DEF Inv, LocalInv, Moves, Others, At, Leading
<1>7. LeaderIsListed'
  <2> SUFFICES ASSUME NEW s \in Request, req'[s].pc \in Leading
               PROVE  slots'[req'[s].key] = s
    BY DEF LeaderIsListed
  <2>1. s # r /\ req'[s] = req[s]
    BY <1>3 DEF Moves, Others, Leading
  <2>2. slots[req[s].key] = s /\ req[s].key \in Key
    BY <2>1 DEF Inv, LeaderIsListed, LocalInv
  <2>3. QED BY <1>0, <1>1, <1>2, <2>1, <2>2
<1>8. SlotHasLeader'
  <2> SUFFICES ASSUME NEW x \in Key, slots'[x] # None
               PROVE  req'[slots'[x]].pc \in Leading /\ req'[slots'[x]].key = x
    BY DEF SlotHasLeader
  <2>1. x # k /\ slots'[x] = slots[x]
    BY <1>0, <1>1, <1>2
  <2>2. slots[x] \in Request /\ req[slots[x]].pc \in Leading /\ req[slots[x]].key = x
    BY <1>0, <2>1 DEF Inv, SlotHasLeader
  <2>3. slots[x] # r
    BY <2>1, <2>2
  <2>4. QED BY <1>3, <2>1, <2>2, <2>3 DEF Moves, Others
<1>9. SlotInv'
  BY <1>1, <1>2, <1>3, <1>4 DEF Inv, SlotInv, Moves, Others, At, Leading, After
<1>10. ReadyInv'
  BY <1>1, <1>2, <1>3, <1>4 DEF Inv, ReadyInv, Moves, Others, At
<1>11. QED BY <1>5, <1>6, <1>7, <1>8, <1>9, <1>10 DEF Inv

-----------------------------------------------------------------------------
(* What happens around the threads                                         *)

LEMMA CacheSteps ==
  ASSUME Inv, NEW r \in Request, handle_cache_clean(r) \/ handle_cache_prune(r)
  PROVE  Inv'
<1>1. (At(r, "clean") \/ At(r, "prune")) /\ Answer(r, TRUE)
  BY DEF handle_cache_clean, handle_cache_prune
<1>2. Moves(r, "done") /\ "done" \in Pc
  BY <1>1, AnswerMoves DEF Inv, TypeOK, Pc, After
<1>3. UNCHANGED <<load, disk, pkg_cache, child, prepared, launched>> /\ UNCHANGED coalescer
  BY DEF handle_cache_clean, handle_cache_prune, counters, history
<1>4. /\ status' \in [Key -> {"absent", "none", "preparing", "ready", "failed"}]
      /\ \A k \in Key : status'[k] = "ready" => status[k] = "ready"
  <2>1. CASE handle_cache_clean(r)
    BY <2>1 DEF handle_cache_clean
  <2>2. CASE handle_cache_prune(r)
    <3>1. PICK old \in SUBSET {k \in Key : Present(k)} :
            status' = [k \in Key |-> IF k \in old THEN "absent" ELSE status[k]]
      BY <2>2 DEF handle_cache_prune
    <3>2. QED BY <3>1 DEF Inv, TypeOK
  <2>3. QED BY <2>1, <2>2
<1>5. Tables
  BY <1>3, <1>4 DEF Tables, Inv, TypeOK, ReadyInv
<1>6. Admissible(r, "done")
  BY <1>1, <1>2 DEF Admissible, At, Inv, SlotInv, Pc, After, Leading
<1>7. ChildOf(r, "done") /\ LaunchOf(r, "done")
  BY <1>1, <1>3, QuietChild DEF LaunchOf, At
<1>8. QED BY <1>2, <1>3, <1>5, <1>6, <1>7, MovesInv

\* Children end and are reaped, pipes are held and released, sources are
\* edited, the service stops: no thread moves.
LEMMA OutsideSteps ==
  ASSUME Inv,
         \/ \E r \in Request : ChildExit(r) \/ Inherit(r) \/ Release(r)
         \/ reap_children \/ stop \/ Edit \/ UNCHANGED vars
  PROVE  Inv'
<1>1. UNCHANGED <<load, status, pkg_cache, slots, slot, req, prepared, launched>>
  BY DEF ChildExit, Inherit, Release, reap_children, stop, Edit, vars, counters, history, coalescer
<1>2. /\ child' \in ChildTable /\ \A s \in Request : child'[s] # None => child[s] # None
      /\ disk' \in [Package -> [src : Version, art : Version \cup {None}]]
  <2>1. CASE \E r \in Request : ChildExit(r)
    <3>1. PICK r \in Request : ChildExit(r)
      BY <2>1
    <3>2. child[r] = "up" /\ child \in ChildTable
          /\ (child' = [child EXCEPT ![r] = "ok"] \/ child' = [child EXCEPT ![r] = "bad"])
      BY <3>1 DEF ChildExit, Inv, TypeOK
    <3>3. child' \in ChildTable /\ \A s \in Request : child'[s] # None => child[s] # None
      BY <3>2, ExecutionerAssumption DEF ChildTable
    <3>4. req[r].key \in Key
      BY <3>2, ExecutionerAssumption DEF Inv, LocalInv, At, Leading
    <3>5. req[r].key.pkg \in Package
      BY <3>4 DEF Key
    <3> DEFINE p == req[r].key.pkg
               n == [disk[p] EXCEPT !.art = disk[p].src]
    <3>6. disk[p] \in [src : Version, art : Version \cup {None}]
      BY <3>5 DEF Inv, TypeOK
    <3>7. n \in [src : Version, art : Version \cup {None}]
      BY <3>6
    <3>8. disk' = disk \/ disk' = [disk EXCEPT ![p] = n]
      BY <3>1 DEF ChildExit
    <3> HIDE DEF n, p
    <3>9. disk' \in [Package -> [src : Version, art : Version \cup {None}]]
      BY <3>7, <3>8 DEF Inv, TypeOK
    <3>10. QED BY <3>3, <3>9
  <2>2. CASE reap_children
    BY <2>2, ExecutionerAssumption DEF reap_children, Inv, TypeOK, ChildTable
  <2>3. CASE Edit
    <3>1. PICK p \in Package, v \in Version : disk' = [disk EXCEPT ![p].src = v]
      BY <2>3 DEF Edit
    <3> DEFINE n == [disk[p] EXCEPT !.src = v]
    <3>2. disk[p] \in [src : Version, art : Version \cup {None}]
      BY DEF Inv, TypeOK
    <3>3. n \in [src : Version, art : Version \cup {None}]
      BY <3>2
    <3>4. disk' = [disk EXCEPT ![p] = n]
      BY <3>1
    <3> HIDE DEF n
    <3>5. UNCHANGED child
      BY <2>3 DEF Edit
    <3>6. QED BY <3>3, <3>4, <3>5 DEF Inv, TypeOK
  <2>4. CASE stop \/ UNCHANGED vars \/ \E r \in Request : Inherit(r) \/ Release(r)
    BY <2>4 DEF stop, vars, Inherit, Release, Inv, TypeOK
  <2>5. QED BY <2>1, <2>2, <2>3, <2>4
<1>3. TypeOK' /\ LocalInv'
  BY <1>1, <1>2 DEF Inv, TypeOK, LocalInv, At
<1>4. LeaderIsListed' /\ SlotHasLeader' /\ SlotInv' /\ ReadyInv'
  BY <1>1 DEF Inv, LeaderIsListed, SlotHasLeader, SlotInv, ReadyInv, At
<1>5. QED BY <1>3, <1>4 DEF Inv

\* A crash loses the map, the slots and the threads; what is on disk was true.
LEMMA CrashStep ==
  ASSUME Inv, Crash
  PROVE  Inv'
<1> DEFINE n == [Idle EXCEPT !.pc = "lost"]
<1>1. n \in Thread /\ n.pc = "lost"
  BY DEF Idle, Thread, Pc, Before
<1>2. req' = [r \in Request |-> IF req[r].pc \in {"new", "done"} THEN req[r] ELSE n]
  BY DEF Crash
<1> HIDE DEF n
<1>3. /\ req' \in [Request -> Thread]
      /\ \A r \in Request : \/ req'[r] = req[r] /\ req[r].pc \in {"new", "done"}
                            \/ req'[r].pc = "lost" /\ req[r].pc \notin {"new", "done"}
  BY <1>1, <1>2 DEF Inv, TypeOK
<1>4. /\ child' = [r \in Request |-> None] /\ pkg_cache' = [p \in Package |-> None]
      /\ slots' = [k \in Key |-> None] /\ slot' = [r \in Request |-> None]
      /\ UNCHANGED <<load, disk, status, prepared, launched>>
  BY DEF Crash, history
<1>5. TypeOK'
  BY <1>3, <1>4 DEF Inv, TypeOK, ChildTable
<1>6. LocalInv' /\ LeaderIsListed' /\ SlotHasLeader' /\ SlotInv'
  BY <1>3, <1>4 DEF LocalInv, LeaderIsListed, SlotHasLeader, SlotInv, At, Leading
<1>7. ReadyInv'
  BY <1>3, <1>4, ExecutionerAssumption DEF Inv, ReadyInv, At
<1>8. QED BY <1>5, <1>6, <1>7 DEF Inv

-----------------------------------------------------------------------------
(* Theorems                                                                *)

LEMMA InitInv == Init => Inv
<1> SUFFICES ASSUME Init PROVE Inv
  OBVIOUS
<1>1. Idle \in Thread /\ Idle.pc = "new"
  BY DEF Idle, Thread, Pc, Before
<1>2. TypeOK
  BY <1>1, ExecutionerAssumption DEF Init, TypeOK, ChildTable, Version
<1>3. LocalInv /\ LeaderIsListed /\ SlotHasLeader /\ SlotInv /\ ReadyInv
  BY <1>1, ExecutionerAssumption
  DEF Init, LocalInv, LeaderIsListed, SlotHasLeader, SlotInv, ReadyInv, At, Leading
<1>4. QED BY <1>2, <1>3 DEF Inv

LEMMA NextInv == Inv /\ [Next]_vars => Inv'
<1> SUFFICES ASSUME Inv, [Next]_vars PROVE Inv'
  OBVIOUS
<1>1. ASSUME NEW r \in Request, Accept(r) \/ Serve(r) PROVE Inv'
  BY <1>1, QuietMoves, ResolveStep, PutStep, EnterStep, LeaderSteps, SettleStep, EraseStep,
     CacheSteps DEF Serve
<1>2. QED BY <1>1, OutsideSteps, CrashStep DEF Next

LEMMA Invariance == Spec => []Inv
BY InitInv, NextInv, PTL DEF Spec

\* "only one thread prepares per cache key" (executioner.cpp:953), for any
\* number of requests, threads, packages, refreshes, edits and crashes.
THEOREM OneLeader == Spec => []OnePreparePerKey
<1>1. Inv => OnePreparePerKey
  BY DEF Inv, LeaderIsListed, OnePreparePerKey
<1>2. QED BY <1>1, Invariance, PTL

\* A key in the coalescer's map is led by a thread that is still at work: no
\* way out of a prepare orphans a slot.
THEOREM NoOrphanSlot == Spec => []SlotHasLeader
<1>1. Inv => SlotHasLeader
  BY DEF Inv
<1>2. QED BY <1>1, Invariance, PTL

\* What is launched was prepared under its key, whatever crashes, refreshes
\* and failures went before.
THEOREM LaunchIsSafe == Spec => []LaunchedIsPrepared
<1>1. Inv => LaunchedIsPrepared
  BY DEF Inv, TypeOK, ReadyInv, LaunchedIsPrepared
<1>2. QED BY <1>1, Invariance, PTL
=============================================================================
