-------------------------- MODULE SupervisorProofs --------------------------
(***************************************************************************)
(* Proofs about Supervisor for every number of processes, trees, threads   *)
(* and every interleaving.  The registry's own invariant is proved one     *)
(* operation at a time (the lemmas named after the operations); the        *)
(* theorems then follow one supervisor action at a time.                   *)
(***************************************************************************)
EXTENDS Supervisor, TLAPS

\* Ids are handed out in order, so the next one is fresh.
Fresh ==
  /\ Known \subseteq 1 .. (process_counter - 1)
  /\ Trees = 0 .. (tree_counter - 1)

\* Only processes terminate_process has not seen are indexed; this is what
\* keeps cleanup_historical_processes away from them.
IndexedNotTerminated ==
  \A t \in TreeId : \A p \in tree_process_index[t] :
    p \in Known => process_table[p].term = 0

HandlerNotCompleted == tree_table[HandlerTree].status # "COMPLETED"

RegistryInv ==
  /\ RegistryTypeOK
  /\ Fresh
  /\ AliveIsIndexed
  /\ IndexIsKnown
  /\ IndexedNotTerminated
  /\ CompletedIsEmpty
  /\ HandlerNotCompleted
  /\ clock > 0

\* The locals of the threads: what a request carries from the checks of its
\* handler to the registry call, and who may be in kill_processes.
LocalInv ==
  /\ \A t \in Thread :
       /\ req[t].handler => req[t].tree = HandlerTree
       /\ req[t].op = "register" => req[t].os \in OsPid
       /\ req[t].op \in {"registered", "beat", "terminate"} => req[t].pid \in Pid
       /\ req[t].op # "kill" => hunt[t] = NoHunt
  /\ main_pc \in {"running", "joining"} => hunt[Main] = NoHunt

\* The inductive invariant.
Inv == TypeOK /\ RegistryInv /\ LocalInv /\ KilledIsHunted

-----------------------------------------------------------------------------
LEMMA TickInv ==
  ASSUME RegistryInv, Tick
  PROVE  RegistryInv'
BY RegistryAssumption
   DEF RegistryInv, RegistryTypeOK, Fresh, AliveIsIndexed, IndexIsKnown,
       IndexedNotTerminated, CompletedIsEmpty, HandlerNotCompleted, Tick, Known,
       Trees, AliveIn, Time

LEMMA UnchangedInv ==
  ASSUME RegistryInv, UNCHANGED registryVars
  PROVE  RegistryInv'
BY DEF RegistryInv, RegistryTypeOK, Fresh, AliveIsIndexed, IndexIsKnown,
       IndexedNotTerminated, CompletedIsEmpty, HandlerNotCompleted, Known,
       Trees, AliveIn, registryVars

\* What the stores into a ProcessInfo leave alone.
LEMMA KilledFields ==
  ASSUME NEW r \in ProcessInfo
  PROVE  LET n == [r EXCEPT !.status = "KILLED", !.alive = FALSE]
         IN  /\ n \in ProcessInfo /\ n.tree = r.tree /\ n.parent = r.parent
             /\ n.alive = FALSE /\ n.term = r.term
BY DEF ProcessInfo, ProcessStatus

LEMMA TerminatedFields ==
  ASSUME NEW r \in ProcessInfo, NEW now \in Time
  PROVE  LET n == [r EXCEPT !.alive = FALSE, !.term = now]
         IN  /\ n \in ProcessInfo /\ n.tree = r.tree /\ n.parent = r.parent
             /\ n.alive = FALSE /\ n.term = now
BY DEF ProcessInfo

LEMMA HeartbeatInv ==
  ASSUME RegistryInv,
         NEW p \in Pid, NEW s \in ProcessStatus, NEW m \in Memory \cup {0},
         NEW now \in Time, heartbeat_stores(p, s, m, now)
  PROVE  RegistryInv'
<1>1. CASE p \notin Known
  <2>1. UNCHANGED registryVars
    BY <1>1 DEF heartbeat_stores, registryVars
  <2>2. QED BY <2>1, UnchangedInv
<1>2. CASE p \in Known
  <2> DEFINE n == [process_table[p] EXCEPT !.status = s, !.mem = m, !.hb = now]
  <2>1. /\ n \in ProcessInfo /\ n.tree = process_table[p].tree
        /\ n.parent = process_table[p].parent
        /\ n.alive = process_table[p].alive /\ n.term = process_table[p].term
    <3>1. process_table[p] \in ProcessInfo
      BY <1>2 DEF RegistryInv, RegistryTypeOK
    <3>2. QED BY <3>1 DEF ProcessInfo
  <2>2. process_table' = [process_table EXCEPT ![p] = n]
    BY <1>2 DEF heartbeat_stores
  <2> HIDE DEF n
  <2>3. /\ Known' = Known /\ Trees' = Trees
        /\ process_table' \in [Known -> ProcessInfo]
        /\ \A q \in Known : /\ process_table'[q].tree = process_table[q].tree
                            /\ process_table'[q].parent = process_table[q].parent
                            /\ process_table'[q].term = process_table[q].term
                            /\ process_table'[q].alive = process_table[q].alive
    BY <1>2, <2>1, <2>2 DEF heartbeat_stores, Known, Trees, RegistryInv, RegistryTypeOK
  <2>4. QED
    BY <2>3
    DEF heartbeat_stores, RegistryInv, Fresh, AliveIsIndexed, IndexIsKnown,
        IndexedNotTerminated, CompletedIsEmpty, HandlerNotCompleted, AliveIn,
        RegistryTypeOK
<1>3. QED BY <1>1, <1>2

LEMMA MarkKilledInv ==
  ASSUME RegistryInv, NEW p \in Pid, mark_process_killed(p)
  PROVE  /\ RegistryInv' /\ Known' = Known /\ Trees' = Trees
         /\ UNCHANGED tree_table
         /\ \A q \in Known : /\ process_table'[q].tree = process_table[q].tree
                             /\ process_table'[q].alive =>
                                  process_table[q].alive /\ q # p
<1>1. CASE p \notin Known
  <2>1. UNCHANGED registryVars
    BY <1>1 DEF mark_process_killed, registryVars
  <2>2. QED BY <1>1, <2>1, UnchangedInv DEF Known, Trees, registryVars
<1>2. CASE p \in Known
  <2> DEFINE n == [process_table[p] EXCEPT !.status = "KILLED", !.alive = FALSE]
  <2>1. /\ n \in ProcessInfo /\ n.tree = process_table[p].tree
        /\ n.parent = process_table[p].parent
        /\ n.alive = FALSE /\ n.term = process_table[p].term
    BY <1>2, KilledFields DEF RegistryInv, RegistryTypeOK
  <2>2. process_table' = [process_table EXCEPT ![p] = n]
    BY <1>2 DEF mark_process_killed
  <2> HIDE DEF n
  <2>3. /\ Known' = Known /\ Trees' = Trees /\ UNCHANGED tree_table
        /\ process_table' \in [Known -> ProcessInfo]
        /\ \A q \in Known : /\ process_table'[q].tree = process_table[q].tree
                            /\ process_table'[q].parent = process_table[q].parent
                            /\ process_table'[q].term = process_table[q].term
                            /\ process_table'[q].alive =>
                                  process_table[q].alive /\ q # p
    BY <1>2, <2>1, <2>2 DEF mark_process_killed, Known, Trees, RegistryInv,
                            RegistryTypeOK
  <2>4. RegistryInv'
    BY <2>3
    DEF mark_process_killed, RegistryInv, Fresh, AliveIsIndexed, IndexIsKnown,
        IndexedNotTerminated, CompletedIsEmpty, HandlerNotCompleted, AliveIn,
        RegistryTypeOK
  <2>5. QED BY <2>3, <2>4
<1>3. QED BY <1>1, <1>2

LEMMA KillTreeInv ==
  ASSUME RegistryInv, NEW t \in TreeId, kill_tree(t)
  PROVE  RegistryInv'
<1>1. /\ Known' = Known /\ Trees' = Trees
      /\ \A q \in Known : /\ process_table'[q].tree = process_table[q].tree
                          /\ process_table'[q].parent = process_table[q].parent
                          /\ process_table'[q].term = process_table[q].term
                          /\ process_table'[q].alive = process_table[q].alive
                          /\ process_table'[q] \in ProcessInfo
  BY DEF kill_tree, Known, Trees, RegistryInv, RegistryTypeOK, ProcessInfo,
         ProcessStatus
<1>2. \A u \in Trees : /\ tree_table'[u] \in TreeInfo
                       /\ tree_table'[u].status \in {tree_table[u].status, "KILLED"}
  BY DEF kill_tree, Known, Trees, RegistryInv, RegistryTypeOK, TreeInfo,
         TreeStatus
<1>3. RegistryTypeOK'
  <2>1. process_table' \in [Known' -> ProcessInfo]
    BY <1>1 DEF kill_tree, Known
  <2>2. tree_table' \in [Trees' -> TreeInfo]
    BY <1>1, <1>2 DEF kill_tree, Trees, RegistryInv, RegistryTypeOK
  <2>3. QED
    BY <2>1, <2>2, <1>1 DEF kill_tree, RegistryInv, RegistryTypeOK
<1>4. HandlerTree \in Trees
  BY DEF RegistryInv, Fresh, HandlerTree, RegistryTypeOK
<1>5. QED
  BY <1>1, <1>2, <1>3, <1>4
  DEF kill_tree, RegistryInv, Fresh, AliveIsIndexed, IndexIsKnown,
      IndexedNotTerminated, CompletedIsEmpty, HandlerNotCompleted, AliveIn,
      RegistryTypeOK

LEMMA LlmInv ==
  ASSUME RegistryInv, NEW t \in TreeId, increment_llm_request(t)
  PROVE  RegistryInv'
<1>1. /\ Known' = Known /\ Trees' = Trees
      /\ \A u \in Trees : /\ tree_table'[u] \in TreeInfo
                          /\ tree_table'[u].status = tree_table[u].status
  BY DEF increment_llm_request, Known, Trees, RegistryInv, RegistryTypeOK, TreeInfo
<1>2. HandlerTree \in Trees
  BY DEF RegistryInv, Fresh, HandlerTree, RegistryTypeOK
<1>3. RegistryTypeOK'
  BY <1>1 DEF increment_llm_request, Known, Trees, RegistryInv, RegistryTypeOK
<1>4. QED
  BY <1>1, <1>2, <1>3
  DEF increment_llm_request, RegistryInv, Fresh, AliveIsIndexed, IndexIsKnown,
      IndexedNotTerminated, CompletedIsEmpty, HandlerNotCompleted, AliveIn,
      RegistryTypeOK

\* TreeDone looks only at the index; AliveIsIndexed makes that enough.
LEMMA CompleteInv ==
  ASSUME RegistryInv, NEW t \in TreeId, mark_tree_completed_if_done(t)
  PROVE  RegistryInv'
<1>1. /\ Known' = Known /\ Trees' = Trees
      /\ \A u \in Trees :
           /\ tree_table'[u] \in TreeInfo
           /\ \/ tree_table'[u].status = tree_table[u].status
              \/ u = t /\ TreeDone(t)
  BY DEF mark_tree_completed_if_done, Known, Trees, RegistryInv, RegistryTypeOK,
         TreeInfo, TreeStatus
<1>2. HandlerTree \in Trees
  BY DEF RegistryInv, Fresh, HandlerTree, RegistryTypeOK
<1>3. RegistryTypeOK'
  BY <1>1 DEF mark_tree_completed_if_done, Known, Trees, RegistryInv, RegistryTypeOK
<1>4. TreeDone(t) => AliveIn(t) = {}
  BY DEF TreeDone, RegistryInv, AliveIsIndexed, AliveIn
<1>5. CompletedIsEmpty'
  BY <1>1, <1>4 DEF mark_tree_completed_if_done, RegistryInv, CompletedIsEmpty, AliveIn
<1>6. HandlerNotCompleted'
  BY <1>1, <1>2 DEF HandlerNotCompleted, RegistryInv, TreeDone
<1>7. QED
  BY <1>1, <1>3, <1>5, <1>6
  DEF mark_tree_completed_if_done, RegistryInv, Fresh, AliveIsIndexed,
      IndexIsKnown, IndexedNotTerminated, RegistryTypeOK

LEMMA CleanupInv ==
  ASSUME RegistryInv, NEW now \in Time, cleanup_historical_processes(now)
  PROVE  RegistryInv'
<1>1. /\ Trees' = Trees /\ Known' = Known \ Expired(now)
      /\ \A q \in Known' : process_table'[q] = process_table[q]
  BY DEF cleanup_historical_processes, Known, Trees
<1>2. RegistryTypeOK'
  BY <1>1 DEF cleanup_historical_processes, Known, Trees, RegistryInv, RegistryTypeOK
<1>3. \A t \in TreeId : \A p \in tree_process_index[t] : p \in Known'
  BY <1>1 DEF RegistryInv, IndexIsKnown, IndexedNotTerminated, Expired, RegistryTypeOK
<1>4. IndexIsKnown'
  <2>1. \A t \in TreeId : \A p \in tree_process_index[t] :
          p \in Known' /\ process_table'[p].tree = t
    BY <1>1, <1>3 DEF RegistryInv, IndexIsKnown
  <2>2. \A c \in process_children :
          /\ c[2] \in Known'
          /\ process_table'[c[2]].parent = c[1]
          /\ c[2] \in tree_process_index[process_table'[c[2]].tree]
    <3> SUFFICES ASSUME NEW c \in process_children
                 PROVE  /\ c[2] \in Known'
                        /\ process_table'[c[2]].parent = c[1]
                        /\ c[2] \in tree_process_index[process_table'[c[2]].tree]
      OBVIOUS
    <3>1. /\ c[2] \in Known
          /\ process_table[c[2]].parent = c[1]
          /\ c[2] \in tree_process_index[process_table[c[2]].tree]
          /\ process_table[c[2]].tree \in TreeId
      BY DEF RegistryInv, IndexIsKnown, RegistryTypeOK, ProcessInfo
    <3>2. c[2] \in Known'
      BY <3>1, <1>3
    <3>3. QED
      BY <3>1, <3>2, <1>1
  <2>3. QED
    BY <2>1, <2>2 DEF IndexIsKnown, cleanup_historical_processes
<1>5. QED
  BY <1>1, <1>2, <1>4
  DEF cleanup_historical_processes, RegistryInv, Fresh, AliveIsIndexed,
      IndexedNotTerminated, CompletedIsEmpty, HandlerNotCompleted, AliveIn,
      RegistryTypeOK

LEMMA TerminateInv ==
  ASSUME RegistryInv, NEW p \in Pid, terminate_process(p)
  PROVE  /\ RegistryInv' /\ Known' = Known
         /\ UNCHANGED tree_table
         /\ \A q \in Known : /\ process_table'[q].tree = process_table[q].tree
                             /\ process_table'[q].alive => process_table[q].alive
<1>1. CASE ~IsAlive(p)
  BY <1>1, UnchangedInv DEF terminate_process, registryVars, Known
<1>2. CASE IsAlive(p)
  <2>1. /\ p \in Known /\ process_table[p] \in ProcessInfo
        /\ process_table[p].tree \in TreeId
    BY <1>2 DEF IsAlive, RegistryInv, RegistryTypeOK, ProcessInfo
  <2> DEFINE n == [process_table[p] EXCEPT !.alive = FALSE, !.term = clock]
  <2>a. /\ n \in ProcessInfo /\ n.tree = process_table[p].tree
        /\ n.parent = process_table[p].parent /\ n.alive = FALSE
    BY <2>1, TerminatedFields DEF RegistryInv, RegistryTypeOK
  <2>b. process_table' = [process_table EXCEPT ![p] = n]
    BY <1>2 DEF terminate_process
  <2> HIDE DEF n
  <2>2. /\ Trees' = Trees /\ Known' = Known
        /\ process_table' \in [Known' -> ProcessInfo]
        /\ \A q \in Known : /\ process_table'[q].tree = process_table[q].tree
                            /\ process_table'[q].parent = process_table[q].parent
                            /\ q # p => process_table'[q] = process_table[q]
        /\ ~process_table'[p].alive
    BY <1>2, <2>1, <2>a, <2>b DEF terminate_process, Known, Trees, RegistryInv,
                                  RegistryTypeOK
  <2>3. \A t \in TreeId : tree_process_index'[t] = tree_process_index[t] \ {p}
    <3> SUFFICES ASSUME NEW t \in TreeId
                 PROVE  tree_process_index'[t] = tree_process_index[t] \ {p}
      OBVIOUS
    <3>1. CASE t = process_table[p].tree
      BY <3>1, <1>2 DEF terminate_process, RegistryInv, RegistryTypeOK
    <3>2. CASE t # process_table[p].tree
      <4>1. p \notin tree_process_index[t]
        BY <3>2 DEF RegistryInv, IndexIsKnown
      <4>2. QED
        BY <4>1, <3>2, <1>2 DEF terminate_process, RegistryInv, RegistryTypeOK
    <3>3. QED BY <3>1, <3>2
  <2>4. RegistryTypeOK'
    <3>1. process_table' \in [Known' -> ProcessInfo]
      BY <2>2
    <3>2. tree_process_index' \in [TreeId -> SUBSET Pid]
      BY <1>2, <2>1 DEF terminate_process, RegistryInv, RegistryTypeOK
    <3>3. process_children' \subseteq Pid \X Pid
      BY <1>2 DEF terminate_process, RegistryInv, RegistryTypeOK
    <3>4. QED
      BY <1>2, <3>1, <3>2, <3>3, <2>2 DEF terminate_process, RegistryInv,
                                          RegistryTypeOK
  <2>5. IndexIsKnown'
    <3>1. \A t \in TreeId : \A q \in tree_process_index'[t] :
            q \in Known' /\ process_table'[q].tree = t
      BY <2>2, <2>3 DEF RegistryInv, IndexIsKnown
    <3>2. ASSUME NEW c \in process_children'
          PROVE  /\ c[2] \in Known'
                 /\ process_table'[c[2]].parent = c[1]
                 /\ c[2] \in tree_process_index'[process_table'[c[2]].tree]
      <4>1. /\ c \in process_children
            /\ c # <<process_table[p].parent, p>>
        BY <1>2, <3>2 DEF terminate_process
      <4>2. /\ c[2] \in Known /\ process_table[c[2]].parent = c[1]
            /\ c[2] \in tree_process_index[process_table[c[2]].tree]
            /\ process_table[c[2]].tree \in TreeId
            /\ c = <<c[1], c[2]>>
        BY <4>1 DEF RegistryInv, IndexIsKnown, RegistryTypeOK, ProcessInfo
      <4>3. c[2] # p
        BY <4>1, <4>2
      <4>4. QED
        BY <4>2, <4>3, <2>2, <2>3
    <3>3. QED
      BY <3>1, <3>2 DEF IndexIsKnown
  <2>6. AliveIsIndexed'
    <3> SUFFICES ASSUME NEW q \in Known', process_table'[q].alive
                 PROVE  q \in tree_process_index'[process_table'[q].tree]
      BY DEF AliveIsIndexed
    <3>1. q # p /\ q \in Known /\ process_table[q].alive
      BY <2>2
    <3>2. /\ process_table[q].tree \in TreeId
          /\ q \in tree_process_index[process_table[q].tree]
      BY <3>1 DEF RegistryInv, AliveIsIndexed, RegistryTypeOK, ProcessInfo
    <3>3. QED
      BY <3>1, <3>2, <2>2, <2>3
  <2>7. IndexedNotTerminated'
    BY <2>2, <2>3 DEF IndexedNotTerminated, RegistryInv
  <2>8. CompletedIsEmpty' /\ HandlerNotCompleted'
    BY <1>2, <2>2 DEF CompletedIsEmpty, HandlerNotCompleted, RegistryInv, AliveIn,
                      terminate_process
  <2>9. RegistryInv'
    BY <1>2, <2>2, <2>4, <2>5, <2>6, <2>7, <2>8
    DEF RegistryInv, Fresh, terminate_process
  <2>10. QED
    BY <1>2, <2>2, <2>9 DEF terminate_process
<1>3. QED BY <1>1, <1>2

LEMMA RejectInv ==
  ASSUME RegistryInv, NEW tree, NEW h, register_rejected(tree, h)
  PROVE  RegistryInv'
<1>1. /\ process_counter' \in 1 .. (MaxPid + 1)
      /\ process_counter' \in Nat /\ process_counter' >= process_counter
  BY RegistryAssumption
  DEF register_rejected, NextCounter, RegistryInv, RegistryTypeOK
<1>2. Known' = Known /\ Trees' = Trees
  BY DEF register_rejected, Known, Trees
<1>3. Fresh'
  BY <1>1, <1>2 DEF register_rejected, Fresh, RegistryInv, RegistryTypeOK
<1>4. QED
  BY <1>1, <1>2, <1>3
  DEF register_rejected, RegistryInv, RegistryTypeOK, AliveIsIndexed,
      IndexIsKnown, IndexedNotTerminated, CompletedIsEmpty, HandlerNotCompleted,
      AliveIn

\* The heart of the argument: the new pid is fresh, its tree is ACTIVE, new or
\* TREE_HANDLER, and the process enters the table and the index together.
LEMMA RegisterInv ==
  ASSUME RegistryInv,
         NEW o \in OsPid, NEW tree \in TreeId \cup {NewTree},
         NEW parent \in Pid \cup {NoPid}, NEW s \in ProcessStatus,
         NEW m \in Memory \cup {0}, NEW h \in BOOLEAN,
         h => tree = HandlerTree,
         tree = NewTree => tree_counter <= MaxTree,
         register_process(o, tree, parent, s, m, h)
  PROVE  /\ RegistryInv'
         /\ Known' = Known \cup {process_counter}
         /\ process_counter \in Pid \ Known
         /\ \A q \in Known : process_table'[q] = process_table[q]
         /\ Trees \subseteq Trees'
         /\ \A t \in Trees : tree_table'[t].status = tree_table[t].status
         /\ \A t \in Trees' \ Trees : tree_table'[t].status = "ACTIVE"
         /\ LET t == process_table'[process_counter].tree
            IN  t = HandlerTree \/ tree_table'[t].status = "ACTIVE"
<1> DEFINE pid == process_counter
           t == IF tree = NewTree THEN tree_counter ELSE tree
           info == [tree |-> t, parent |-> parent, os |-> o, status |-> s,
                    mem |-> m, hb |-> clock, alive |-> TRUE, term |-> 0]
           base == IF tree = NewTree THEN Put(tree_table, t, FreshTree)
                                     ELSE tree_table
<1>1. /\ pid \in Pid \ Known
      /\ process_counter' = pid + 1
      /\ t \in TreeId
      /\ tree = NewTree => t \notin Trees
      /\ tree # NewTree => t \in Trees
      /\ HandlerTree \in Trees
  BY RegistryAssumption
  DEF RegistryInv, RegistryTypeOK, Fresh, register_process, CanRegister, Pid,
      TreeId, HandlerTree, NewTree, NextCounter
<1>2. /\ process_table' = Put(process_table, pid, info)
      /\ Known' = Known \cup {pid}
      /\ process_table'[pid] = info
      /\ \A q \in Known : process_table'[q] = process_table[q]
  BY <1>1 DEF register_process, Put, Known
<1> HIDE DEF t
<1>3. /\ info \in ProcessInfo
      /\ process_table'[pid].tree = t
      /\ process_table'[pid].parent = parent
      /\ process_table'[pid].alive = TRUE
      /\ process_table'[pid].term = 0
  <2>1. t \in TreeId /\ clock \in Time /\ 0 \in Time
    BY <1>1, RegistryAssumption DEF RegistryInv, RegistryTypeOK, Time
  <2>2. info \in ProcessInfo
    BY <2>1 DEF ProcessInfo
  <2>3. QED BY <2>2, <1>2
<1> HIDE DEF info
<1> USE DEF t
<1>4. /\ DOMAIN base = Trees \cup {t}
      /\ Trees' = Trees \cup {t}
      /\ \A u \in Trees' : base[u] \in TreeInfo
      /\ \A u \in Trees : base[u] = tree_table[u]
      /\ t \notin Trees => base[t].status = "ACTIVE"
  <2>1. FreshTree \in TreeInfo /\ FreshTree.status = "ACTIVE"
    BY DEF FreshTree, TreeInfo, TreeStatus, RegistryInv, RegistryTypeOK
  <2>2. DOMAIN base = Trees \cup {t}
    BY <1>1 DEF Put, Trees
  <2>3. Trees' = DOMAIN base
    BY DEF register_process, Trees
  <2>4. /\ \A u \in Trees : base[u] = tree_table[u]
        /\ t \notin Trees => base[t] = FreshTree
    BY <1>1 DEF Put, Trees
  <2>5. \A u \in Trees : tree_table[u] \in TreeInfo
    BY DEF RegistryInv, RegistryTypeOK
  <2>6. QED
    BY <2>1, <2>2, <2>3, <2>4, <2>5
<1> HIDE DEF base
<1>5. \A u \in Trees' : /\ tree_table'[u] \in TreeInfo
                        /\ tree_table'[u].status = base[u].status
  <2>1. CASE h \/ tree = NewTree
    <3>1. tree_table' = [base EXCEPT ![t].root = pid]
      BY <2>1 DEF register_process, base
    <3>2. QED
      BY <3>1, <1>4, <1>1 DEF TreeInfo
  <2>2. CASE ~(h \/ tree = NewTree)
    <3>1. tree_table' = base
      BY <2>2 DEF register_process, base
    <3>2. QED
      BY <3>1, <1>4
  <2>3. QED BY <2>1, <2>2
<1>6. DOMAIN tree_table' = Trees' /\ tree_table' \in [Trees' -> TreeInfo]
  <2>1. tree_table' = [u \in DOMAIN tree_table' |-> tree_table'[u]]
    BY DEF register_process, Put, RegistryInv, RegistryTypeOK
  <2>2. QED
    BY <2>1, <1>5 DEF Trees
<1>7. /\ \A u \in TreeId : tree_process_index'[u] =
                            IF u = t THEN tree_process_index[u] \cup {pid}
                                     ELSE tree_process_index[u]
      /\ tree_process_index' \in [TreeId -> SUBSET Pid]
  BY <1>1 DEF register_process, RegistryInv, RegistryTypeOK
<1>8. process_children' = process_children \cup
                            (IF parent = NoPid THEN {} ELSE {<<parent, pid>>})
  BY DEF register_process
<1>9. RegistryTypeOK'
  <2>1. process_table' \in [Known' -> ProcessInfo]
    BY <1>2, <1>3 DEF Put, Known, RegistryInv, RegistryTypeOK
  <2>2. Known' \subseteq Pid /\ Trees' \subseteq TreeId
    BY <1>1, <1>2, <1>4 DEF RegistryInv, RegistryTypeOK
  <2>3. process_children' \subseteq Pid \X Pid
    BY <1>1, <1>8 DEF RegistryInv, RegistryTypeOK
  <2>4. /\ process_counter' \in 1 .. (MaxPid + 1)
        /\ tree_counter' \in 1 .. (MaxTree + 1)
        /\ clock' \in Time
    BY <1>1, RegistryAssumption
    DEF register_process, RegistryInv, RegistryTypeOK, Pid
  <2>5. QED
    BY <2>1, <2>2, <2>3, <2>4, <1>6, <1>7 DEF RegistryTypeOK
<1>10. Fresh'
  <2>1. Known' \subseteq 1 .. (process_counter' - 1)
    <3>1. pid \in Nat \ {0} /\ Known \subseteq 1 .. (pid - 1)
      BY <1>1 DEF RegistryInv, Fresh, Pid
    <3>2. Known \subseteq 1 .. pid /\ pid \in 1 .. pid
      BY <3>1
    <3>3. process_counter' - 1 = pid
      BY <3>1, <1>1
    <3>4. QED
      BY <3>2, <3>3, <1>2
  <2>2. CASE tree = NewTree
    <3>1. t = tree_counter /\ tree_counter' = tree_counter + 1
      BY <2>2 DEF register_process
    <3>2. QED
      BY <2>1, <3>1, <1>4 DEF RegistryInv, Fresh, RegistryTypeOK
  <2>3. CASE tree # NewTree
    <3>1. t \in Trees /\ tree_counter' = tree_counter
      BY <2>3, <1>1 DEF register_process
    <3>2. QED
      BY <2>1, <3>1, <1>4 DEF RegistryInv, Fresh
  <2>4. QED BY <2>2, <2>3
<1>11. IndexIsKnown'
  <2>1. \A u \in TreeId : \A q \in tree_process_index'[u] :
          q \in Known' /\ process_table'[q].tree = u
    BY <1>2, <1>3, <1>7 DEF RegistryInv, IndexIsKnown
  <2>2. ASSUME NEW c \in process_children'
        PROVE  /\ c[2] \in Known'
               /\ process_table'[c[2]].parent = c[1]
               /\ c[2] \in tree_process_index'[process_table'[c[2]].tree]
    <3>1. CASE c \in process_children
      <4>1. /\ c[2] \in Known /\ process_table[c[2]].parent = c[1]
            /\ c[2] \in tree_process_index[process_table[c[2]].tree]
            /\ process_table[c[2]].tree \in TreeId
        BY <3>1 DEF RegistryInv, IndexIsKnown, RegistryTypeOK, ProcessInfo
      <4>2. QED
        BY <4>1, <1>2, <1>7
    <3>2. CASE c \notin process_children
      BY <3>2, <2>2, <1>1, <1>2, <1>3, <1>7, <1>8
    <3>3. QED BY <3>1, <3>2
  <2>3. QED
    BY <2>1, <2>2 DEF IndexIsKnown
<1>12. AliveIsIndexed'
  <2> SUFFICES ASSUME NEW q \in Known', process_table'[q].alive
               PROVE  q \in tree_process_index'[process_table'[q].tree]
    BY DEF AliveIsIndexed
  <2>1. CASE q = pid
    BY <2>1, <1>1, <1>2, <1>3, <1>7
  <2>2. CASE q \in Known
    <3>1. /\ process_table'[q] = process_table[q]
          /\ process_table[q].tree \in TreeId
          /\ q \in tree_process_index[process_table[q].tree]
      BY <2>2, <1>2 DEF RegistryInv, AliveIsIndexed, RegistryTypeOK, ProcessInfo
    <3>2. QED
      BY <3>1, <1>7
  <2>3. QED
    BY <2>1, <2>2, <1>2
<1>13. IndexedNotTerminated'
  BY <1>1, <1>2, <1>3, <1>7 DEF IndexedNotTerminated, RegistryInv, IndexIsKnown
<1>14. t = HandlerTree \/ tree_table'[t].status = "ACTIVE"
  <2>1. tree = NewTree => tree_table'[t].status = "ACTIVE"
    BY <1>1, <1>4, <1>5
  <2>2. tree # NewTree /\ ~h => tree_table[t].status = "ACTIVE"
    BY DEF register_process, CanRegister
  <2>3. QED
    BY <2>1, <2>2, <1>1, <1>4, <1>5
<1>15. HandlerNotCompleted'
  BY <1>1, <1>4, <1>5 DEF HandlerNotCompleted, RegistryInv
<1>16. CompletedIsEmpty'
  <2> SUFFICES ASSUME NEW u \in Trees', tree_table'[u].status = "COMPLETED"
               PROVE  AliveIn(u)' = {}
    BY DEF CompletedIsEmpty
  <2>1. u # t /\ u \in Trees
    BY <1>14, <1>15, <1>4 DEF HandlerNotCompleted
  <2>2. AliveIn(u) = {}
    BY <2>1, <1>4, <1>5 DEF RegistryInv, CompletedIsEmpty
  <2>3. QED
    BY <2>1, <2>2, <1>2, <1>3 DEF AliveIn
<1>17. RegistryInv'
  BY <1>9, <1>10, <1>11, <1>12, <1>13, <1>15, <1>16
  DEF RegistryInv, register_process
<1>18. QED
  BY <1>1, <1>2, <1>3, <1>4, <1>5, <1>14, <1>17

-----------------------------------------------------------------------------
\* The registry operations other than register_process and kill_tree.
QuietStep ==
  \/ UNCHANGED registryVars
  \/ Tick
  \/ \E p \in Pid, s \in ProcessStatus, m \in Memory \cup {0}, now \in Time :
       heartbeat_stores(p, s, m, now)
  \/ \E p \in Pid : mark_process_killed(p) \/ terminate_process(p)
  \/ \E t \in TreeId : increment_llm_request(t) \/ mark_tree_completed_if_done(t)
  \/ \E now \in Time : cleanup_historical_processes(now)
  \/ \E t \in TreeId \cup {NewTree}, h \in BOOLEAN : register_rejected(t, h)

\* No tree becomes KILLED and no process appears in one that is.
KilledShrinks ==
  \A t \in Trees' \ {HandlerTree} :
    tree_table'[t].status = "KILLED" =>
      t \in Trees /\ tree_table[t].status = "KILLED" /\ AliveIn(t)' \subseteq AliveIn(t)

LEMMA SameTablesShrink ==
  ASSUME UNCHANGED <<process_table, tree_table>>
  PROVE  Trees' = Trees /\ KilledShrinks
BY DEF Trees, KilledShrinks, AliveIn, Known

LEMMA FewerAliveShrink ==
  ASSUME UNCHANGED tree_table, Known' \subseteq Known,
         \A q \in Known' : /\ process_table'[q].tree = process_table[q].tree
                           /\ process_table'[q].alive => process_table[q].alive
  PROVE  Trees' = Trees /\ KilledShrinks
BY DEF Trees, KilledShrinks, AliveIn

LEMMA QuietInv ==
  ASSUME RegistryInv, QuietStep
  PROVE  RegistryInv' /\ Trees' = Trees /\ KilledShrinks
<1>1. CASE UNCHANGED registryVars
  BY <1>1, UnchangedInv, SameTablesShrink DEF registryVars
<1>2. CASE Tick
  BY <1>2, TickInv, SameTablesShrink DEF Tick
<1>3. ASSUME NEW p \in Pid, NEW s \in ProcessStatus, NEW m \in Memory \cup {0},
             NEW now \in Time, heartbeat_stores(p, s, m, now)
      PROVE  RegistryInv' /\ Trees' = Trees /\ KilledShrinks
  <2>1. RegistryInv'
    BY <1>3, HeartbeatInv
  <2>2. /\ UNCHANGED tree_table /\ Known' \subseteq Known
        /\ \A q \in Known' : /\ process_table'[q].tree = process_table[q].tree
                             /\ process_table'[q].alive => process_table[q].alive
    BY <1>3 DEF heartbeat_stores, Known, RegistryInv, RegistryTypeOK, ProcessInfo
  <2>3. QED BY <2>1, <2>2, FewerAliveShrink
<1>4. ASSUME NEW p \in Pid, mark_process_killed(p)
      PROVE  RegistryInv' /\ Trees' = Trees /\ KilledShrinks
  BY <1>4, MarkKilledInv, FewerAliveShrink
<1>5. ASSUME NEW p \in Pid, terminate_process(p)
      PROVE  RegistryInv' /\ Trees' = Trees /\ KilledShrinks
  BY <1>5, TerminateInv, FewerAliveShrink
<1>6. ASSUME NEW t \in TreeId, increment_llm_request(t)
      PROVE  RegistryInv' /\ Trees' = Trees /\ KilledShrinks
  <2>1. /\ Trees' = Trees /\ Known' = Known /\ UNCHANGED process_table
        /\ \A u \in Trees : tree_table'[u].status = tree_table[u].status
    BY <1>6 DEF increment_llm_request, Trees, Known, RegistryInv, RegistryTypeOK,
                TreeInfo
  <2>2. QED
    BY <1>6, <2>1, LlmInv DEF KilledShrinks, AliveIn
<1>7. ASSUME NEW t \in TreeId, mark_tree_completed_if_done(t)
      PROVE  RegistryInv' /\ Trees' = Trees /\ KilledShrinks
  <2>1. /\ Trees' = Trees /\ Known' = Known /\ UNCHANGED process_table
        /\ \A u \in Trees : tree_table'[u].status \in {tree_table[u].status, "COMPLETED"}
    BY <1>7 DEF mark_tree_completed_if_done, Trees, Known, RegistryInv,
                RegistryTypeOK, TreeInfo
  <2>2. QED
    BY <1>7, <2>1, CompleteInv DEF KilledShrinks, AliveIn
<1>8. ASSUME NEW now \in Time, cleanup_historical_processes(now)
      PROVE  RegistryInv' /\ Trees' = Trees /\ KilledShrinks
  <2>1. /\ UNCHANGED tree_table /\ Known' \subseteq Known
        /\ \A q \in Known' : process_table'[q] = process_table[q]
    BY <1>8 DEF cleanup_historical_processes, Known
  <2>2. QED BY <1>8, <2>1, CleanupInv, FewerAliveShrink
<1>9. ASSUME NEW t \in TreeId \cup {NewTree}, NEW h \in BOOLEAN,
             register_rejected(t, h)
      PROVE  RegistryInv' /\ Trees' = Trees /\ KilledShrinks
  BY <1>9, RejectInv, SameTablesShrink DEF register_rejected
<1>10. QED
  BY <1>1, <1>2, <1>3, <1>4, <1>5, <1>6, <1>7, <1>8, <1>9 DEF QuietStep

-----------------------------------------------------------------------------
\* Fewer processes of killed trees, and no target forgotten.
LEMMA StillHunted ==
  ASSUME KilledIsHunted, KilledShrinks,
         \A k \in Killer : hunt[k].targets \subseteq hunt'[k].targets
  PROVE  KilledIsHunted'
BY DEF KilledIsHunted, KilledShrinks, Killer

\* The target lists that the callers of kill_processes build.
LEMMA NewHunt ==
  ASSUME RegistryTypeOK, NEW S \in SUBSET Known, NEW phase \in {"collect", "kill"}
  PROVE  /\ HuntOf(phase, TargetsOf(S), NoTarget) \in Hunt
         /\ HuntOf(phase, TargetsOf(S), NoTarget).targets = TargetsOf(S)
         /\ \A p \in S : \E x \in TargetsOf(S) : x[1] = p
<1>1. TargetsOf(S) \subseteq Target
  BY DEF TargetsOf, Target, RegistryTypeOK, ProcessInfo
<1>2. \A p \in S : \E x \in TargetsOf(S) : x[1] = p
  <2> SUFFICES ASSUME NEW p \in S
               PROVE  \E x \in TargetsOf(S) : x[1] = p
    OBVIOUS
  <2>1. <<p, process_table[p].os>> \in TargetsOf(S)
    BY DEF TargetsOf
  <2>2. QED BY <2>1
<1> HIDE DEF TargetsOf
<1>3. HuntOf(phase, TargetsOf(S), NoTarget) \in Hunt
  BY <1>1 DEF HuntOf, Hunt
<1>4. QED
  BY <1>2, <1>3 DEF HuntOf

LEMMA NoHuntType == NoHunt \in Hunt /\ NoHunt.targets = {} /\ NoHunt.cur = NoTarget
BY DEF NoHunt, HuntOf, Hunt

LEMMA IdleType == Idle \in Request
BY RegistryAssumption DEF Idle, Request, ProcessStatus, Time

-----------------------------------------------------------------------------
\* A quiet registry operation, with no target forgotten.
LEMMA QuietAction ==
  ASSUME Inv, QuietStep, UNCHANGED hunt
  PROVE  RegistryInv' /\ Trees' = Trees /\ KilledIsHunted'
BY QuietInv, StillHunted DEF Inv

\* A request thread that starts, continues or ends a request r.
LEMMA RequestChange ==
  ASSUME Inv, NEW t \in Thread, NEW r \in Request,
         req' = [req EXCEPT ![t] = r],
         r.handler => r.tree = HandlerTree,
         r.op = "register" => r.os \in OsPid,
         r.op \in {"registered", "beat", "terminate"} => r.pid \in Pid,
         r.op # "kill" => hunt'[t] = NoHunt,
         \A k \in Killer \ {t} : hunt'[k] = hunt[k],
         UNCHANGED main_pc
  PROVE  req' \in [Thread -> Request] /\ LocalInv'
BY SupervisorAssumption DEF Inv, TypeOK, LocalInv, Killer

\* The other request steps keep the rest of the state in its type.
LEMMA RequestStep ==
  ASSUME Inv, NEW t \in Thread, NEW r \in Request,
         req' = [req EXCEPT ![t] = r],
         r.handler => r.tree = HandlerTree,
         r.op = "register" => r.os \in OsPid,
         r.op \in {"registered", "beat", "terminate"} => r.pid \in Pid,
         r.op # "kill", hunt[t] = NoHunt,
         QuietStep, os_state' \in [OsPid -> OsState],
         UNCHANGED <<hunt, wdVars, handlerVars, main_pc>>
  PROVE  Inv'
<1>1. RegistryInv' /\ Trees' = Trees /\ KilledIsHunted'
  BY QuietAction
<1>2. req' \in [Thread -> Request] /\ LocalInv'
  BY RequestChange
<1>3. TypeOK'
  BY <1>1, <1>2 DEF Inv, TypeOK, RegistryInv, wdVars, handlerVars
<1>4. QED
  BY <1>1, <1>2, <1>3 DEF Inv

LEMMA RegisterRequests ==
  ASSUME Inv, NEW t \in Thread, NEW o \in OsPid, NEW m \in Memory,
         \/ RegisterHandler(t, o, m)
         \/ RegisterNewTree(t, o, m)
         \/ \E p \in Known : RegisterJoin(t, o, m, p)
  PROVE  Inv'
<1>1. ASSUME NEW r \in Request, r.handler => r.tree = HandlerTree,
             r.op = "register", r.os = o, SendRegister(t, o, r)
      PROVE  Inv'
  <2>1. hunt[t] = NoHunt
    BY <1>1 DEF SendRegister, Accept, Inv, LocalInv
  <2>2. os_state' \in [OsPid -> OsState]
    BY <1>1 DEF SendRegister, Inv, TypeOK, OsState
  <2>3. QED
    BY <1>1, <2>1, <2>2, RequestStep DEF SendRegister, QuietStep
<1>2. CASE RegisterHandler(t, o, m)
  <2> DEFINE r == [Idle EXCEPT !.op = "register", !.os = o, !.mem = m,
                               !.tree = HandlerTree, !.handler = TRUE]
  <2>0. HandlerTree \in TreeId
    BY RegistryAssumption DEF HandlerTree, TreeId
  <2>1. /\ r \in Request /\ r.op = "register" /\ r.os = o
        /\ r.tree = HandlerTree
    BY <2>0, IdleType DEF Request, Idle
  <2>2. SendRegister(t, o, r)
    BY <1>2 DEF RegisterHandler
  <2> HIDE DEF r
  <2>3. QED BY <1>1, <2>1, <2>2
<1>3. CASE RegisterNewTree(t, o, m)
  <2> DEFINE r == [Idle EXCEPT !.op = "register", !.os = o, !.mem = m]
  <2>1. r \in Request /\ r.op = "register" /\ r.os = o /\ r.handler = FALSE
    BY IdleType DEF Request, Idle
  <2>2. SendRegister(t, o, r)
    BY <1>3 DEF RegisterNewTree
  <2> HIDE DEF r
  <2>3. QED BY <1>1, <2>1, <2>2
<1>4. ASSUME NEW p \in Known, RegisterJoin(t, o, m, p)
      PROVE  Inv'
  <2> DEFINE r == [Idle EXCEPT !.op = "register", !.os = o, !.mem = m,
                               !.tree = process_table[p].tree, !.pid = p]
  <2>1. p \in Pid /\ process_table[p].tree \in TreeId
    BY DEF Inv, RegistryInv, RegistryTypeOK, ProcessInfo
  <2>2. r \in Request /\ r.op = "register" /\ r.os = o /\ r.handler = FALSE
    BY <2>1, IdleType DEF Request, Idle
  <2>3. SendRegister(t, o, r)
    BY <1>4 DEF RegisterJoin
  <2> HIDE DEF r
  <2>4. QED BY <1>1, <2>2, <2>3
<1>5. QED
  BY <1>2, <1>3, <1>4

LEMMA RegisterProcessStep ==
  ASSUME Inv, NEW t \in Thread, RegisterProcess(t)
  PROVE  Inv'
<1> DEFINE r == req[t]
<1>1. /\ r \in Request /\ r.op = "register" /\ r.os \in OsPid
      /\ r.handler => r.tree = HandlerTree
      /\ hunt[t] = NoHunt
  BY DEF RegisterProcess, Inv, TypeOK, LocalInv
<1>2. CASE register_rejected(r.tree, r.handler) /\ req' = [req EXCEPT ![t] = Idle]
  <2>1. QuietStep
    BY <1>1, <1>2 DEF QuietStep, Request
  <2>2. Idle.op = "idle" /\ Idle.handler = FALSE
    BY DEF Idle
  <2>3. os_state' \in [OsPid -> OsState]
    BY DEF RegisterProcess, Inv, TypeOK
  <2>4. QED
    BY <1>1, <1>2, <2>1, <2>2, <2>3, IdleType, RequestStep DEF RegisterProcess
<1>3. ASSUME register_process(r.os, r.tree, r.pid, r.status, r.mem, r.handler),
             req' = [req EXCEPT ![t] =
                       IF r.handler
                       THEN [Idle EXCEPT !.op = "registered",
                                         !.pid = process_counter]
                       ELSE Idle]
      PROVE  Inv'
  <2>1. /\ r.tree \in TreeId \cup {NewTree} /\ r.pid \in Pid \cup {NoPid}
        /\ r.status \in ProcessStatus /\ r.mem \in Memory \cup {0}
        /\ r.handler \in BOOLEAN
        /\ r.tree = NewTree => tree_counter <= MaxTree
    BY <1>1 DEF Request, RegisterProcess
  <2> HIDE DEF r
  <2>2. /\ RegistryInv'
        /\ Known' = Known \cup {process_counter}
        /\ process_counter \in Pid \ Known
        /\ \A q \in Known : process_table'[q] = process_table[q]
        /\ Trees \subseteq Trees'
        /\ \A u \in Trees : tree_table'[u].status = tree_table[u].status
        /\ \A u \in Trees' \ Trees : tree_table'[u].status = "ACTIVE"
        /\ LET u == process_table'[process_counter].tree
           IN  u = HandlerTree \/ tree_table'[u].status = "ACTIVE"
    BY <1>1, <1>3, <2>1, RegisterInv DEF Inv
  <2>3. KilledShrinks
    BY <2>2 DEF KilledShrinks, AliveIn
  <2>4. KilledIsHunted'
    BY <2>3, StillHunted DEF RegisterProcess, Inv
  <2> DEFINE n == IF r.handler THEN [Idle EXCEPT !.op = "registered",
                                                 !.pid = process_counter]
                               ELSE Idle
  <2>5. /\ n \in Request /\ n.op \in {"idle", "registered"} /\ n.handler = FALSE
        /\ n.op = "registered" => n.pid \in Pid
    BY <2>2, IdleType DEF Request, Idle
  <2>6. req' = [req EXCEPT ![t] = n]
    BY <1>3
  <2> HIDE DEF n
  <2>7. req' \in [Thread -> Request] /\ LocalInv'
    BY <1>1, <2>5, <2>6, RequestChange DEF RegisterProcess
  <2>8. TypeOK'
    BY <2>2, <2>7 DEF RegisterProcess, Inv, TypeOK, RegistryInv, wdVars, handlerVars
  <2>9. QED
    BY <2>2, <2>4, <2>7, <2>8 DEF Inv
<1>4. QED
  BY <1>2, <1>3 DEF RegisterProcess

LEMMA ThreadSteps ==
  ASSUME Inv, NEW t \in Thread,
         \/ TrackHandler(t) \/ StoreHeartbeat(t) \/ TerminateFinished(t)
         \/ ReplyTreeKill(t)
         \/ \E p \in Known, s \in BeatStatus, m \in Memory :
              ReceiveHeartbeat(t, p, s, m)
  PROVE  Inv'
<1>0. /\ Idle \in Request /\ Idle.op = "idle" /\ Idle.handler = FALSE
      /\ req[t] \in Request /\ os_state \in [OsPid -> OsState]
      /\ req[t].op # "kill" => hunt[t] = NoHunt
      /\ req[t].op \in {"registered", "beat", "terminate"} => req[t].pid \in Pid
  BY IdleType DEF Idle, Inv, TypeOK, LocalInv
<1>1. CASE TrackHandler(t)
  <2>1. RegistryInv' /\ Trees' = Trees /\ KilledIsHunted'
    BY <1>1, QuietAction DEF TrackHandler, QuietStep
  <2>2. req' \in [Thread -> Request] /\ LocalInv'
    BY <1>0, <1>1, RequestChange DEF TrackHandler
  <2>a. 0 \in Time /\ handler_velix_pid' \in Pid
    BY <1>0, <1>1, RegistryAssumption DEF TrackHandler, Time
  <2>b. handler_needs_restart' \in BOOLEAN /\ handler_dead_since' \in Time
    BY <1>1, <2>a DEF TrackHandler
  <2>3. TypeOK'
    BY <1>1, <2>1, <2>2, <2>a, <2>b
    DEF TrackHandler, Inv, TypeOK, RegistryInv, wdVars
  <2>4. QED
    BY <2>1, <2>2, <2>3 DEF Inv
<1>2. CASE StoreHeartbeat(t)
  <2> DEFINE n == IF req[t].final
                  THEN [Idle EXCEPT !.op = "terminate", !.pid = req[t].pid]
                  ELSE Idle
  <2>1. req[t].op = "beat" /\ req[t].pid \in Pid
    BY <1>0, <1>2 DEF StoreHeartbeat
  <2>2. QuietStep
    BY <1>0, <1>2, <2>1 DEF StoreHeartbeat, QuietStep, Request
  <2>3. /\ n \in Request /\ n.op \in {"idle", "terminate"} /\ n.handler = FALSE
        /\ n.op = "terminate" => n.pid \in Pid
    BY <1>0, <2>1 DEF Request, Idle
  <2>4. req' = [req EXCEPT ![t] = n]
    BY <1>2 DEF StoreHeartbeat
  <2> HIDE DEF n
  <2>5. QED
    BY <1>0, <1>2, <2>1, <2>2, <2>3, <2>4, RequestStep DEF StoreHeartbeat
<1>3. CASE TerminateFinished(t)
  <2>1. QuietStep
    BY <1>0, <1>3 DEF TerminateFinished, QuietStep
  <2>2. QED
    BY <1>0, <1>3, <2>1, RequestStep DEF TerminateFinished
<1>4. CASE ReplyTreeKill(t)
  <2>1. QuietStep /\ hunt[t] = NoHunt
    BY <1>4 DEF ReplyTreeKill, QuietStep, HuntOver
  <2>2. QED
    BY <1>0, <1>4, <2>1, RequestStep DEF ReplyTreeKill
<1>5. ASSUME NEW p \in Known, NEW s \in BeatStatus, NEW m \in Memory,
             ReceiveHeartbeat(t, p, s, m)
      PROVE  Inv'
  <2> DEFINE f == /\ process_table[p].status \notin TerminalStatus
                  /\ s \in TerminalStatus
             n == [Idle EXCEPT !.op = "beat", !.pid = p, !.status = s, !.mem = m,
                               !.now = clock, !.final = f]
  <2>1. /\ p \in Pid /\ s \in ProcessStatus /\ clock \in Time
        /\ f \in BOOLEAN
    BY SupervisorAssumption DEF Inv, RegistryInv, RegistryTypeOK
  <2>2. req' = [req EXCEPT ![t] = n] /\ req[t].op = "idle"
    BY <1>5 DEF ReceiveHeartbeat, Accept
  <2> HIDE DEF f
  <2>3. n \in Request /\ n.op = "beat" /\ n.handler = FALSE /\ n.pid = p
    BY <1>0, <2>1 DEF Request, Idle
  <2> HIDE DEF n
  <2>4. os_state' \in [OsPid -> OsState]
    BY <1>0, <1>5 DEF ReceiveHeartbeat, OsState
  <2>5. QED
    BY <1>0, <1>5, <2>1, <2>2, <2>3, <2>4, RequestStep DEF ReceiveHeartbeat, QuietStep
<1>6. QED
  BY <1>1, <1>2, <1>3, <1>4, <1>5

\* Steps that touch neither the requests nor the target lists.
LEMMA OtherQuiet ==
  ASSUME Inv, QuietStep, UNCHANGED <<req, hunt>>,
         main_pc' \in {"running", "joining"} => main_pc \in {"running", "joining"}
  PROVE  RegistryInv' /\ Trees' = Trees /\ KilledIsHunted' /\ LocalInv'
<1>1. RegistryInv' /\ Trees' = Trees /\ KilledIsHunted'
  BY QuietAction
<1>2. LocalInv'
  BY DEF Inv, LocalInv
<1>3. QED BY <1>1, <1>2

LEMMA EnvironmentSteps ==
  ASSUME Inv,
         \/ \E o \in OsPid : OsExit(o)
         \/ AdvanceClock
         \/ \E p \in Known : ReceiveLlmRequest(p)
         \/ StopBegin \/ StopDone
  PROVE  Inv'
<1> DEFINE Quietly ==
             /\ QuietStep /\ UNCHANGED <<req, hunt, wdVars, handlerVars>>
             /\ main_pc' \in {"running", "joining"} =>
                  main_pc \in {"running", "joining"}
             /\ main_pc' \in {"running", "joining", "stopping", "stopped"}
             /\ os_state' \in [OsPid -> OsState]
<1>1. Quietly
  <2>0. /\ os_state \in [OsPid -> OsState]
        /\ main_pc \in {"running", "joining", "stopping", "stopped"}
    BY DEF Inv, TypeOK
  <2>1. ASSUME NEW o \in OsPid, OsExit(o)
        PROVE  Quietly
    BY <2>0, <2>1 DEF OsExit, QuietStep, OsState
  <2>2. CASE AdvanceClock
    BY <2>0, <2>2 DEF AdvanceClock, QuietStep
  <2>3. ASSUME NEW p \in Known, ReceiveLlmRequest(p)
        PROVE  Quietly
    <3>1. process_table[p].tree \in TreeId
      BY DEF Inv, RegistryInv, RegistryTypeOK, ProcessInfo
    <3>2. QED BY <2>0, <2>3, <3>1 DEF ReceiveLlmRequest, QuietStep
  <2>4. CASE StopBegin
    BY <2>0, <2>4 DEF StopBegin, QuietStep
  <2>5. CASE StopDone
    BY <2>0, <2>5 DEF StopDone, QuietStep
  <2>6. QED BY <2>1, <2>2, <2>3, <2>4, <2>5
<1>2. RegistryInv' /\ Trees' = Trees /\ KilledIsHunted' /\ LocalInv'
  BY <1>1, OtherQuiet
<1>3. TypeOK'
  BY <1>1, <1>2 DEF Inv, TypeOK, RegistryInv, wdVars, handlerVars
<1>4. QED
  BY <1>2, <1>3 DEF Inv

-----------------------------------------------------------------------------
\* kill_tree(t) followed by a hunt k for the pids it returned: whoever was alive
\* in t is indexed (AliveIsIndexed), hence returned, hence a target.
LEMMA KillTreeHunts ==
  ASSUME Inv, NEW t \in TreeId, NEW k \in Killer, hunt[k] = NoHunt,
         kill_tree(t), StartHunt(k, "collect", KillSet(t))
  PROVE  /\ RegistryInv' /\ Trees' = Trees /\ KilledIsHunted'
         /\ hunt' \in [Killer -> Hunt]
         /\ \A j \in Killer \ {k} : hunt'[j] = hunt[j]
<1>1. RegistryInv'
  BY KillTreeInv DEF Inv
<1>2. /\ Trees' = Trees /\ Known' = Known
      /\ \A u \in Trees : tree_table'[u].status =
                            IF u = t THEN "KILLED" ELSE tree_table[u].status
      /\ \A q \in Known : /\ process_table'[q].tree = process_table[q].tree
                          /\ process_table'[q].alive = process_table[q].alive
  BY DEF kill_tree, Trees, Known, Inv, RegistryInv, RegistryTypeOK, ProcessInfo,
         TreeInfo
<1>3. KillSet(t) \in SUBSET Known
  BY DEF KillSet, IsAlive
<1> DEFINE h == HuntOf("collect", TargetsOf(KillSet(t)), NoTarget)
<1>4. /\ h \in Hunt
      /\ \A p \in KillSet(t) : \E x \in h.targets : x[1] = p
  BY <1>3, NewHunt DEF Inv, TypeOK
<1>5. /\ hunt' \in [Killer -> Hunt] /\ hunt'[k] = h
      /\ \A j \in Killer \ {k} : hunt'[j] = hunt[j]
  BY <1>4 DEF StartHunt, Inv, TypeOK
<1> HIDE DEF h
<1>6. KilledIsHunted'
  <2> SUFFICES ASSUME NEW u \in Trees \ {HandlerTree},
                      tree_table'[u].status = "KILLED", NEW p \in AliveIn(u)'
               PROVE  \E j \in Killer : \E x \in hunt'[j].targets : x[1] = p
    BY <1>2 DEF KilledIsHunted
  <2>1. p \in AliveIn(u)
    BY <1>2 DEF AliveIn
  <2>2. CASE u = t
    <3>1. p \in KillSet(t)
      BY <2>1, <2>2 DEF AliveIn, KillSet, IsAlive, Inv, RegistryInv, AliveIsIndexed
    <3>2. QED
      BY <3>1, <1>4, <1>5
  <2>3. CASE u # t
    <3>1. PICK j \in Killer : \E x \in hunt[j].targets : x[1] = p
      BY <2>1, <2>3, <1>2 DEF Inv, KilledIsHunted
    <3>2. j # k
      BY <3>1, NoHuntType
    <3>3. QED
      BY <3>1, <3>2, <1>5
  <2>4. QED BY <2>2, <2>3
<1>7. QED
  BY <1>1, <1>2, <1>5, <1>6

LEMMA ReceiveTreeKillStep ==
  ASSUME Inv, NEW t \in Thread, NEW tree \in TreeId, ReceiveTreeKill(t, tree)
  PROVE  Inv'
<1> DEFINE r == [Idle EXCEPT !.op = "kill", !.tree = tree]
<1>1. /\ t \in Killer /\ hunt[t] = NoHunt
  BY DEF ReceiveTreeKill, Accept, Inv, LocalInv, Killer
<1>2. /\ RegistryInv' /\ Trees' = Trees /\ KilledIsHunted'
      /\ hunt' \in [Killer -> Hunt]
      /\ \A j \in Killer \ {t} : hunt'[j] = hunt[j]
  BY <1>1, KillTreeHunts DEF ReceiveTreeKill
<1>3. r \in Request /\ r.op = "kill" /\ r.handler = FALSE
  BY IdleType DEF Request, Idle
<1>4. req' = [req EXCEPT ![t] = r]
  BY DEF ReceiveTreeKill
<1> HIDE DEF r
<1>5. req' \in [Thread -> Request] /\ LocalInv'
  BY <1>2, <1>3, <1>4, RequestChange DEF ReceiveTreeKill
<1>6. TypeOK'
  BY <1>2, <1>5 DEF ReceiveTreeKill, Inv, TypeOK, RegistryInv, wdVars, handlerVars
<1>7. QED
  BY <1>2, <1>5, <1>6 DEF Inv

\* A killer changes its own hunt, and only a killer in kill_processes does.
LEMMA HuntChange ==
  ASSUME Inv, NEW k \in Killer, hunt[k] # NoHunt, NEW h \in Hunt,
         hunt' = [hunt EXCEPT ![k] = h], UNCHANGED <<req, main_pc>>
  PROVE  hunt' \in [Killer -> Hunt] /\ LocalInv'
<1>1. hunt' \in [Killer -> Hunt] /\ \A j \in Killer \ {k} : hunt'[j] = hunt[j]
  BY DEF Inv, TypeOK
<1>2. QED
  BY <1>1 DEF Inv, LocalInv, Killer

LEMMA KillerSteps ==
  ASSUME Inv, NEW k \in Killer, KillerStep(k)
  PROVE  Inv'
<1>0. /\ hunt \in [Killer -> Hunt] /\ hunt[k] \in Hunt
      /\ os_state \in [OsPid -> OsState]
  BY DEF Inv, TypeOK
<1>1. CASE CollectTargets(k)
  <2> DEFINE live == {x \in hunt[k].targets : IsAlive(x[1])}
             h == HuntOf("kill", live, NoTarget)
  <2>1. h \in Hunt /\ h.targets = live
    BY <1>0 DEF HuntOf, Hunt
  <2>2. hunt' = [hunt EXCEPT ![k] = h] /\ hunt[k] # NoHunt
    BY <1>1 DEF CollectTargets, NoHunt, HuntOf
  <2> HIDE DEF h
  <2>3. hunt' \in [Killer -> Hunt] /\ LocalInv'
    BY <1>1, <2>1, <2>2, HuntChange DEF CollectTargets
  <2>4. RegistryInv' /\ Trees' = Trees /\ KilledShrinks
    BY <1>1, QuietInv DEF CollectTargets, QuietStep, Inv
  <2>5. KilledIsHunted'
    <3> SUFFICES ASSUME NEW u \in Trees \ {HandlerTree},
                        tree_table[u].status = "KILLED", NEW p \in AliveIn(u)
                 PROVE  \E j \in Killer : \E x \in hunt'[j].targets : x[1] = p
      BY <1>1 DEF CollectTargets, KilledIsHunted, registryVars, Trees, AliveIn, Known
    <3>1. PICK j \in Killer : \E x \in hunt[j].targets : x[1] = p
      BY DEF Inv, KilledIsHunted
    <3>2. PICK x \in hunt[j].targets : x[1] = p
      BY <3>1
    <3>3. IsAlive(x[1])
      BY <3>2 DEF AliveIn, IsAlive
    <3>4. x \in hunt'[j].targets
      BY <1>0, <2>1, <2>2, <3>2, <3>3
    <3>5. QED BY <3>2, <3>4
  <2>6. TypeOK'
    BY <1>1, <2>3, <2>4 DEF CollectTargets, Inv, TypeOK, RegistryInv, wdVars,
                            handlerVars
  <2>7. QED BY <2>3, <2>4, <2>5, <2>6 DEF Inv
<1>2. CASE MarkTarget(k)
  <2>1. PICK y \in hunt[k].targets :
          /\ mark_process_killed(y[1])
          /\ hunt' = [hunt EXCEPT ![k].targets = @ \ {y}, ![k].cur = y]
    BY <1>2 DEF MarkTarget
  <2> DEFINE h == [hunt[k] EXCEPT !.targets = @ \ {y}, !.cur = y]
  <2>2. y \in Target /\ y[1] \in Pid
    BY <1>0, <2>1 DEF Hunt, Target
  <2>3. h \in Hunt /\ h.targets = hunt[k].targets \ {y}
    BY <1>0, <2>2 DEF Hunt
  <2>4. hunt' = [hunt EXCEPT ![k] = h]
    BY <1>0, <2>1, <2>3 DEF Hunt
  <2> HIDE DEF h
  <2>5. hunt[k] # NoHunt
    BY <2>1, NoHuntType
  <2>6. hunt' \in [Killer -> Hunt] /\ LocalInv'
    BY <1>2, <2>3, <2>4, <2>5, HuntChange DEF MarkTarget
  <2>7. /\ RegistryInv' /\ Trees' = Trees /\ Known' = Known
        /\ UNCHANGED tree_table
        /\ \A q \in Known : /\ process_table'[q].tree = process_table[q].tree
                            /\ process_table'[q].alive =>
                                 process_table[q].alive /\ q # y[1]
    BY <2>1, <2>2, MarkKilledInv DEF Inv
  <2>8. KilledIsHunted'
    <3> SUFFICES ASSUME NEW u \in Trees \ {HandlerTree},
                        tree_table[u].status = "KILLED", NEW p \in AliveIn(u)'
                 PROVE  \E j \in Killer : \E x \in hunt'[j].targets : x[1] = p
      BY <2>7 DEF KilledIsHunted
    <3>1. p \in AliveIn(u) /\ p # y[1]
      BY <2>7 DEF AliveIn
    <3>2. PICK j \in Killer : \E x \in hunt[j].targets : x[1] = p
      BY <3>1 DEF Inv, KilledIsHunted
    <3>3. QED
      BY <1>0, <2>3, <2>4, <3>1, <3>2
  <2>9. TypeOK'
    BY <1>2, <2>6, <2>7 DEF MarkTarget, Inv, TypeOK, RegistryInv, wdVars, handlerVars
  <2>10. QED BY <2>6, <2>7, <2>8, <2>9 DEF Inv
<1>3. CASE FinishTarget(k)
  <2> DEFINE h == [hunt[k] EXCEPT !.cur = NoTarget]
  <2>1. hunt[k].cur \in Target /\ hunt[k].cur[1] \in Pid /\ hunt[k].cur[2] \in OsPid
    BY <1>0, <1>3 DEF FinishTarget, Hunt, Target
  <2>2. h \in Hunt /\ h.targets = hunt[k].targets
    BY <1>0 DEF Hunt
  <2>3. hunt' = [hunt EXCEPT ![k] = h] /\ hunt[k] # NoHunt
    BY <1>0, <1>3, NoHuntType DEF FinishTarget
  <2> HIDE DEF h
  <2>4. hunt' \in [Killer -> Hunt] /\ LocalInv'
    BY <1>3, <2>2, <2>3, HuntChange DEF FinishTarget
  <2>5. RegistryInv' /\ Trees' = Trees /\ KilledShrinks
    <3>1. QuietStep
      BY <1>3, <2>1 DEF FinishTarget, QuietStep
    <3>2. QED BY <3>1, QuietInv DEF Inv
  <2>6. KilledIsHunted'
    <3>1. \A j \in Killer : hunt[j].targets \subseteq hunt'[j].targets
      BY <1>0, <2>2, <2>3
    <3>2. QED BY <2>5, <3>1, StillHunted DEF Inv
  <2>7. os_state' \in [OsPid -> OsState]
    BY <1>0, <1>3, <2>1 DEF FinishTarget, OsState
  <2>8. TypeOK'
    BY <1>3, <2>4, <2>5, <2>7 DEF FinishTarget, Inv, TypeOK, RegistryInv, wdVars,
                                  handlerVars
  <2>9. QED BY <2>4, <2>5, <2>6, <2>8 DEF Inv
<1>4. QED
  BY <1>1, <1>2, <1>3 DEF KillerStep

-----------------------------------------------------------------------------
\* The steps of the watchdog that start no kill_processes call.
LEMMA WatchdogQuiet ==
  ASSUME Inv,
         \/ WdWake \/ WdCleanup \/ WdListTrees \/ WdComplete \/ WdHandlerCheck
         \/ WdHandlerUp \/ WdHandlerGone \/ WdKillPrevious \/ WdFork
  PROVE  Inv'
<1> DEFINE WdTypeOK == /\ wd_pc \in WdPc /\ wd_now \in Time
                       /\ wd_list \subseteq Trees /\ wd_left \subseteq wd_list
                       /\ wd_tree \in Trees
           HandlerTypeOK == /\ handler_os_pid \in OsPid \cup {NoPid}
                            /\ handler_velix_pid \in Pid \cup {NoPid}
                            /\ handler_needs_restart \in BOOLEAN
                            /\ handler_dead_since \in Time
           Quietly == QuietStep /\ UNCHANGED <<req, hunt, main_pc>>
<1>0. /\ WdTypeOK /\ HandlerTypeOK /\ os_state \in [OsPid -> OsState]
      /\ clock \in Time /\ 0 \in Time /\ Trees \subseteq TreeId
  BY RegistryAssumption DEF Inv, TypeOK, RegistryTypeOK, Time
<1>1. Quietly
  <2>1. CASE \/ WdWake \/ WdListTrees \/ WdHandlerCheck \/ WdHandlerUp
             \/ WdHandlerGone \/ WdKillPrevious \/ WdFork
    BY <2>1 DEF WdWake, WdListTrees, WdHandlerCheck, WdHandlerUp, WdHandlerGone,
                WdKillPrevious, WdFork, QuietStep
  <2>2. CASE WdCleanup
    BY <1>0, <2>2 DEF WdCleanup, QuietStep
  <2>3. CASE WdComplete
    BY <1>0, <2>3 DEF WdComplete, QuietStep
  <2>4. QED BY <2>1, <2>2, <2>3
<1>2. RegistryInv' /\ Trees' = Trees /\ KilledIsHunted' /\ LocalInv'
  BY <1>1, OtherQuiet
<1>3. WdTypeOK'
  <2>1. CASE \/ WdWake \/ WdCleanup \/ WdListTrees \/ WdComplete \/ WdHandlerCheck
    BY <1>0, <1>2, <2>1 DEF WdWake, WdCleanup, WdListTrees, WdComplete,
                            WdHandlerCheck, WdPc
  <2>2. CASE \/ WdHandlerUp \/ WdHandlerGone \/ WdKillPrevious \/ WdFork
    BY <1>0, <1>2, <2>2 DEF WdHandlerUp, WdHandlerGone, WdKillPrevious, WdFork, WdPc
  <2>3. QED BY <2>1, <2>2
<1>4. HandlerTypeOK'
  <2>1. CASE \/ WdWake \/ WdCleanup \/ WdListTrees \/ WdComplete \/ WdHandlerCheck
    BY <1>0, <2>1 DEF WdWake, WdCleanup, WdListTrees, WdComplete,
                      WdHandlerCheck, handlerVars
  <2>2. CASE WdHandlerUp
    BY <1>0, <2>2 DEF WdHandlerUp
  <2>3. CASE WdHandlerGone
    BY <1>0, <2>3 DEF WdHandlerGone
  <2>4. CASE WdKillPrevious \/ WdFork
    BY <1>0, <2>4 DEF WdKillPrevious, WdFork
  <2>5. QED BY <2>1, <2>2, <2>3, <2>4
<1>5. os_state' \in [OsPid -> OsState]
  <2>1. CASE WdKillPrevious
    BY <1>0, <2>1 DEF WdKillPrevious, OsState
  <2>2. CASE WdFork
    BY <1>0, <2>2 DEF WdFork, OsState
  <2>3. CASE ~(WdKillPrevious \/ WdFork)
    BY <1>0, <2>3 DEF WdWake, WdCleanup, WdListTrees, WdComplete, WdHandlerCheck,
                      WdHandlerUp, WdHandlerGone
  <2>4. QED BY <2>1, <2>2, <2>3
<1>6. TypeOK'
  BY <1>1, <1>2, <1>3, <1>4, <1>5 DEF Inv, TypeOK, RegistryInv
<1>7. QED
  BY <1>2, <1>6 DEF Inv

\* A snapshot of the live processes becomes the targets of an idle killer.
LEMMA SnapshotHunts ==
  ASSUME Inv, NEW k \in Killer, NEW S \in SUBSET Known, hunt[k] = NoHunt,
         StartHunt(k, "kill", S), UNCHANGED registryVars
  PROVE  /\ RegistryInv' /\ Trees' = Trees /\ KilledIsHunted'
         /\ hunt' \in [Killer -> Hunt]
         /\ \A j \in Killer \ {k} : hunt'[j] = hunt[j]
<1>1. RegistryInv' /\ Trees' = Trees /\ KilledShrinks
  BY QuietInv DEF QuietStep, Inv
<1> DEFINE h == HuntOf("kill", TargetsOf(S), NoTarget)
<1>2. h \in Hunt
  BY NewHunt DEF Inv, TypeOK
<1>3. hunt' = [hunt EXCEPT ![k] = h]
  BY DEF StartHunt
<1> HIDE DEF h
<1>4. /\ hunt' \in [Killer -> Hunt]
      /\ \A j \in Killer \ {k} : hunt'[j] = hunt[j]
  BY <1>2, <1>3 DEF Inv, TypeOK
<1>5. \A j \in Killer : hunt[j].targets \subseteq hunt'[j].targets
  BY <1>4, NoHuntType
<1>6. KilledIsHunted'
  BY <1>1, <1>5, StillHunted DEF Inv
<1>7. QED
  BY <1>1, <1>4, <1>6

LEMMA SnapshotSteps ==
  ASSUME Inv, WdSnapshot \/ StopSnapshot
  PROVE  Inv'
<1>1. CASE WdSnapshot
  <2>1. /\ Watchdog \in Killer /\ hunt[Watchdog] = NoHunt
        /\ OverdueAt(wd_now, HbTimeout) \in SUBSET Known
    BY <1>1 DEF WdSnapshot, WatchdogAt, HuntOver, Killer, OverdueAt
  <2>2. /\ RegistryInv' /\ Trees' = Trees /\ KilledIsHunted'
        /\ hunt' \in [Killer -> Hunt]
        /\ \A j \in Killer \ {Watchdog} : hunt'[j] = hunt[j]
    BY <1>1, <2>1, SnapshotHunts DEF WdSnapshot
  <2>3. LocalInv'
    BY <1>1, <2>2, SupervisorAssumption DEF WdSnapshot, Inv, LocalInv, Killer
  <2>4. TypeOK'
    BY <1>1, <2>2 DEF WdSnapshot, Inv, TypeOK, RegistryInv, handlerVars, WdPc
  <2>5. QED BY <2>2, <2>3, <2>4 DEF Inv
<1>2. CASE StopSnapshot
  <2>1. /\ Main \in Killer /\ hunt[Main] = NoHunt
    BY <1>2 DEF StopSnapshot, Killer, Inv, LocalInv
  <2>2. /\ RegistryInv' /\ Trees' = Trees /\ KilledIsHunted'
        /\ hunt' \in [Killer -> Hunt]
        /\ \A j \in Killer \ {Main} : hunt'[j] = hunt[j]
    BY <1>2, <2>1, SnapshotHunts DEF StopSnapshot
  <2>3. LocalInv'
    BY <1>2, <2>2, SupervisorAssumption DEF StopSnapshot, Inv, LocalInv, Killer
  <2>4. TypeOK'
    BY <1>2, <2>2 DEF StopSnapshot, Inv, TypeOK, RegistryInv, wdVars, handlerVars
  <2>5. QED BY <2>2, <2>3, <2>4 DEF Inv
<1>3. QED BY <1>1, <1>2

\* A limit is enforced: kill_tree and the hunt.
LEMMA EnforceStep ==
  ASSUME Inv, NEW tree \in TreeId, hunt[Watchdog] = NoHunt,
         Enforce(tree), UNCHANGED <<req, main_pc>>
  PROVE  /\ RegistryInv' /\ Trees' = Trees /\ KilledIsHunted'
         /\ hunt' \in [Killer -> Hunt] /\ LocalInv'
<1>0. Watchdog \in Killer
  BY DEF Killer
<1>1. /\ RegistryInv' /\ Trees' = Trees /\ KilledIsHunted'
      /\ hunt' \in [Killer -> Hunt]
      /\ \A j \in Killer \ {Watchdog} : hunt'[j] = hunt[j]
  BY <1>0, KillTreeHunts DEF Enforce
<1>2. LocalInv'
  BY <1>1, SupervisorAssumption DEF Inv, LocalInv, Killer
<1>3. QED BY <1>1, <1>2

\* ... or not.
LEMMA SparedStep ==
  ASSUME Inv, UNCHANGED <<registryVars, hunt, req, main_pc>>
  PROVE  /\ RegistryInv' /\ Trees' = Trees /\ KilledIsHunted'
         /\ hunt' \in [Killer -> Hunt] /\ LocalInv'
<1>1. QuietStep
  BY DEF QuietStep
<1>2. QED BY <1>1, OtherQuiet DEF Inv, TypeOK

LEMMA LimitSteps ==
  ASSUME Inv, WdRuntime \/ WdMemory \/ WdMemoryKill \/ WdLlm \/ WdLlmKill
  PROVE  Inv'
<1>0. /\ wd_left \subseteq wd_list /\ wd_list \subseteq Trees /\ wd_tree \in Trees
      /\ Trees \subseteq TreeId /\ HandlerTree \in Trees
  BY DEF Inv, TypeOK, RegistryInv, RegistryTypeOK, Fresh, HandlerTree
<1>1. hunt[Watchdog] = NoHunt /\ UNCHANGED <<req, main_pc>>
  BY DEF WdRuntime, WdMemory, WdMemoryKill, WdLlm, WdLlmKill, WatchdogAt, HuntOver
<1>2. CASE WdRuntime
  <2>1. PICK tree \in wd_left :
          /\ Enforce(tree) \/ UNCHANGED <<registryVars, hunt>>
          /\ wd_tree' = tree /\ wd_left' = wd_left \ {tree}
    BY <1>2 DEF WdRuntime
  <2>2. tree \in TreeId
    BY <1>0, <2>1
  <2>3. /\ RegistryInv' /\ Trees' = Trees /\ KilledIsHunted'
        /\ hunt' \in [Killer -> Hunt] /\ LocalInv'
    <3>1. CASE Enforce(tree)
      BY <1>1, <2>2, <3>1, EnforceStep
    <3>2. CASE UNCHANGED <<registryVars, hunt>>
      BY <1>1, <3>2, SparedStep
    <3>3. QED BY <2>1, <3>1, <3>2
  <2>4. TypeOK'
    BY <1>0, <1>2, <2>1, <2>3 DEF WdRuntime, Inv, TypeOK, RegistryInv, handlerVars, WdPc
  <2>5. QED BY <2>3, <2>4 DEF Inv
<1>3. CASE WdMemory
  <2>1. /\ RegistryInv' /\ Trees' = Trees /\ KilledIsHunted'
        /\ hunt' \in [Killer -> Hunt] /\ LocalInv'
    BY <1>1, <1>3, SparedStep DEF WdMemory
  <2>2. TypeOK'
    BY <1>0, <1>3, <2>1 DEF WdMemory, Inv, TypeOK, RegistryInv, handlerVars, WdPc
  <2>3. QED BY <2>1, <2>2 DEF Inv
<1>4. CASE WdMemoryKill
  <2>1. /\ RegistryInv' /\ Trees' = Trees /\ KilledIsHunted'
        /\ hunt' \in [Killer -> Hunt] /\ LocalInv'
    BY <1>0, <1>1, <1>4, EnforceStep DEF WdMemoryKill
  <2>2. TypeOK'
    BY <1>0, <1>4, <2>1 DEF WdMemoryKill, Inv, TypeOK, RegistryInv, handlerVars, WdPc
  <2>3. QED BY <2>1, <2>2 DEF Inv
<1>5. CASE WdLlm
  <2>1. /\ RegistryInv' /\ Trees' = Trees /\ KilledIsHunted'
        /\ hunt' \in [Killer -> Hunt] /\ LocalInv'
    BY <1>1, <1>5, SparedStep DEF WdLlm
  <2>2. TypeOK'
    BY <1>0, <1>5, <2>1 DEF WdLlm, NextTree, Inv, TypeOK, RegistryInv, handlerVars, WdPc
  <2>3. QED BY <2>1, <2>2 DEF Inv
<1>6. CASE WdLlmKill
  <2>1. /\ RegistryInv' /\ Trees' = Trees /\ KilledIsHunted'
        /\ hunt' \in [Killer -> Hunt] /\ LocalInv'
    BY <1>0, <1>1, <1>6, EnforceStep DEF WdLlmKill
  <2>2. TypeOK'
    BY <1>0, <1>6, <2>1 DEF WdLlmKill, NextTree, Inv, TypeOK, RegistryInv, handlerVars, WdPc
  <2>3. QED BY <2>1, <2>2 DEF Inv
<1>7. QED BY <1>2, <1>3, <1>4, <1>5, <1>6

-----------------------------------------------------------------------------
LEMMA InitInv ==
  ASSUME Init
  PROVE  Inv
<1>1. /\ Known = {} /\ Trees = {HandlerTree} /\ HandlerTree = 0
      /\ tree_table[HandlerTree] = FreshTree
      /\ FreshTree \in TreeInfo /\ FreshTree.status = "ACTIVE"
      /\ clock \in Time /\ 0 \in Time
  BY RegistryAssumption
  DEF Init, RegistryInit, Known, Trees, FreshTree, TreeInfo, TreeStatus, Time,
      HandlerTree
<1>2. RegistryTypeOK
  BY <1>1, RegistryAssumption
  DEF Init, RegistryInit, RegistryTypeOK, Known, Trees, TreeId
<1>3. RegistryInv
  BY <1>1, <1>2
  DEF Init, RegistryInit, RegistryInv, Fresh, AliveIsIndexed, IndexIsKnown,
      IndexedNotTerminated, CompletedIsEmpty, HandlerNotCompleted
<1>4. TypeOK
  BY <1>1, <1>2, IdleType, NoHuntType
  DEF Init, TypeOK, WdPc, OsState
<1>5. LocalInv
  <2>1. Idle.op = "idle" /\ Idle.handler = FALSE
    BY DEF Idle
  <2>2. QED
    BY <2>1 DEF Init, LocalInv, Killer
<1>6. KilledIsHunted
  BY <1>1 DEF KilledIsHunted
<1>7. QED
  BY <1>3, <1>4, <1>5, <1>6 DEF Inv

LEMMA NextInv ==
  ASSUME Inv, [Next]_vars
  PROVE  Inv'
<1>1. CASE UNCHANGED vars
  <2>1. RegistryInv' /\ Trees' = Trees /\ KilledIsHunted' /\ LocalInv'
    BY <1>1, OtherQuiet DEF vars, QuietStep
  <2>2. TypeOK'
    BY <1>1, <2>1 DEF vars, Inv, TypeOK, RegistryInv, wdVars, handlerVars
  <2>3. QED BY <2>1, <2>2 DEF Inv
<1>2. ASSUME NEW t \in Thread, Requests(t) \/ ThreadStep(t)
      PROVE  Inv'
  BY <1>2, RegisterRequests, ReceiveTreeKillStep, RegisterProcessStep, ThreadSteps
  DEF Requests, ThreadStep
<1>3. CASE WatchdogStep
  BY <1>3, WatchdogQuiet, SnapshotSteps, LimitSteps DEF WatchdogStep
<1>4. QED
  BY <1>1, <1>2, <1>3, EnvironmentSteps, KillerSteps, SnapshotSteps DEF Next

\* Type correctness of the supervisor and its registry, for any number of
\* processes, trees and request threads.
THEOREM TypeCorrect == Spec => []TypeOK
<1>1. Init => Inv
  BY InitInv
<1>2. Inv /\ [Next]_vars => Inv'
  BY NextInv
<1>3. Inv => TypeOK
  BY DEF Inv
<1>4. QED
  BY <1>1, <1>2, <1>3, PTL DEF Spec

\* The index is exact for the live processes and never dangles: what kill_tree,
\* the memory sum and mark_tree_completed_if_done read can be relied on.
THEOREM IndexSound == Spec => [](AliveIsIndexed /\ IndexIsKnown)
<1>1. Init => Inv
  BY InitInv
<1>2. Inv /\ [Next]_vars => Inv'
  BY NextInv
<1>3. Inv => AliveIsIndexed /\ IndexIsKnown
  BY DEF Inv, RegistryInv
<1>4. QED
  BY <1>1, <1>2, <1>3, PTL DEF Spec

\* cleanup_historical_processes erases no process that an index still holds,
\* although it is given a time that is older than its terminations.
THEOREM IndexesKnown == Spec => []IndexIsKnown
<1>1. AliveIsIndexed /\ IndexIsKnown => IndexIsKnown
  OBVIOUS
<1>2. QED
  BY <1>1, IndexSound, PTL

\* mark_tree_completed_if_done never closes a tree on a live process, and none
\* enters it afterwards.
THEOREM CompletedStaysEmpty == Spec => []CompletedIsEmpty
<1>1. Init => Inv
  BY InitInv
<1>2. Inv /\ [Next]_vars => Inv'
  BY NextInv
<1>3. Inv => CompletedIsEmpty
  BY DEF Inv, RegistryInv
<1>4. QED
  BY <1>1, <1>2, <1>3, PTL DEF Spec

\* No process escapes the kill of its tree, whatever registrations, heartbeats
\* and other kills run at the same time.
THEOREM NoEscape == Spec => []KilledIsHunted
<1>1. Init => Inv
  BY InitInv
<1>2. Inv /\ [Next]_vars => Inv'
  BY NextInv
<1>3. Inv => KilledIsHunted
  BY DEF Inv
<1>4. QED
  BY <1>1, <1>2, <1>3, PTL DEF Spec

-----------------------------------------------------------------------------
(* KilledIsGone                                                            *)

\* A target names a process that was registered, and its OS process.
Aimed(x) ==
  /\ x[1] < process_counter
  /\ x[1] \in Known => process_table[x[1]].os = x[2]

\* The killers' lists are about the processes they were made from, and a
\* killer that has yet to filter its list is in no grace period.
AimInv ==
  \A k \in Killer :
    /\ hunt[k].phase = "collect" => hunt[k].cur = NoTarget
    /\ Aimed(hunt[k].cur) /\ \A x \in hunt[k].targets : Aimed(x)

\* What every operation of the registry does to the table: the OS process of
\* an entry stays, a pid is given once, a termination time is not taken back.
Ages ==
  /\ process_counter' \in Nat /\ process_counter' >= process_counter
  /\ \A p \in Known' \ Known : p >= process_counter /\ process_table'[p].alive
  /\ \A p \in Known' \cap Known :
       /\ process_table'[p].os = process_table[p].os
       /\ process_table'[p].term = 0 => process_table[p].term = 0

\* No process but those of D dies without a termination time.
DeadBut(D) ==
  \A p \in Known' \cap Known :
    ~process_table'[p].alive /\ process_table'[p].term = 0 => ~process_table[p].alive \/ p \in D

\* A process that is gone does not come back.
OsStays == \A o \in OsPid : os_state[o] = "gone" => os_state'[o] = "gone"

LEMMA AimedStays ==
  ASSUME Inv, Ages, NEW x, Aimed(x), x[1] \in Int
  PROVE  Aimed(x)'
<1>1. process_counter \in Int /\ process_counter' \in Int /\ Known \subseteq Int
  BY DEF Inv, TypeOK, RegistryTypeOK, Ages, Pid
<1> QED BY <1>1 DEF Aimed, Ages

GoneInv == AimInv /\ KilledIsGone

LEMMA TargetType ==
  ASSUME Inv, NEW k \in Killer
  PROVE  /\ \A x \in hunt[k].targets : x[1] \in Pid /\ x[1] \in Int /\ x[2] \in OsPid
         /\ hunt[k].cur[1] \in Int
         /\ hunt[k].cur # NoTarget => hunt[k].cur[1] \in Pid /\ hunt[k].cur[2] \in OsPid
<1>1. hunt[k].targets \subseteq Target /\ hunt[k].cur \in Target \cup {NoTarget}
  BY DEF Inv, TypeOK, Hunt
<1>2. \A x \in Target : x[1] \in Pid /\ x[2] \in OsPid
  BY DEF Target
<1>3. Pid \subseteq Int /\ NoTarget[1] \in Int
  BY DEF Pid, NoTarget, NoPid
<1> QED BY <1>1, <1>2, <1>3

\* Who is dead for good was dead before, or a killer has just finished it.
LEMMA GoneKept ==
  ASSUME Inv, GoneInv, Ages, OsStays, NEW D, DeadBut(D),
         \A p \in D : \E k \in Killer : hunt'[k].cur[1] = p,
         \A k \in Killer : \/ hunt'[k].cur = hunt[k].cur \/ hunt[k].cur = NoTarget
                           \/ os_state'[hunt[k].cur[2]] = "gone"
  PROVE  KilledIsGone'
<1> SUFFICES ASSUME NEW p \in Known', ~process_table'[p].alive, process_table'[p].term = 0,
                    \A k \in Killer : hunt'[k].cur[1] # p
             PROVE  os_state'[process_table'[p].os] = "gone"
  BY DEF KilledIsGone
<1>1. p \in Known /\ process_table'[p].os = process_table[p].os /\ process_table[p].term = 0
  BY DEF Ages
<1>2. ~process_table[p].alive
  BY <1>1 DEF DeadBut
<1>3. process_table[p].os \in OsPid /\ p \in Pid /\ NoTarget[1] \notin Pid
  BY <1>1 DEF Inv, TypeOK, RegistryTypeOK, ProcessInfo, NoTarget, NoPid, Pid
<1>4. CASE \A k \in Killer : hunt[k].cur[1] # p
  BY <1>1, <1>2, <1>3, <1>4 DEF GoneInv, KilledIsGone, OsStays
<1>5. ASSUME NEW k \in Killer, hunt[k].cur[1] = p
      PROVE  os_state'[process_table'[p].os] = "gone"
  <2>1. hunt[k].cur # NoTarget /\ hunt'[k].cur # hunt[k].cur
    BY <1>3, <1>5
  <2>2. os_state'[hunt[k].cur[2]] = "gone"
    BY <2>1
  <2>3. process_table[p].os = hunt[k].cur[2]
    BY <1>1, <1>5 DEF GoneInv, AimInv, Aimed
  <2> QED BY <1>1, <2>2, <2>3
<1> QED BY <1>4, <1>5

\* A step that starts and ends no grace period.
LEMMA CalmGone ==
  ASSUME Inv, GoneInv, Ages, DeadBut({}), OsStays, UNCHANGED hunt
  PROVE  GoneInv'
<1>1. KilledIsGone'
  BY GoneKept
<1>2. AimInv'
  <2> SUFFICES ASSUME NEW k \in Killer
               PROVE  /\ hunt'[k].phase = "collect" => hunt'[k].cur = NoTarget
                      /\ Aimed(hunt[k].cur)' /\ \A x \in hunt'[k].targets : Aimed(x)'
    BY DEF AimInv
  <2>1. \A x : x[1] \in Int /\ Aimed(x) => Aimed(x)'
    BY AimedStays
  <2>2. \A x : x \in hunt[k].targets \/ x = hunt[k].cur => x[1] \in Int /\ Aimed(x)
    BY TargetType DEF GoneInv, AimInv
  <2>3. \A x : x \in hunt'[k].targets \/ x = hunt'[k].cur => Aimed(x)'
    BY <2>1, <2>2
  <2>4. Aimed(hunt[k].cur)'
    BY <2>3 DEF Aimed
  <2> QED BY <2>3, <2>4 DEF GoneInv, AimInv
<1> QED BY <1>1, <1>2 DEF GoneInv

\* One killer gets another list or another process in its grace period.
LEMMA AimChange ==
  ASSUME Inv, AimInv, Ages, NEW k \in Killer, NEW h, hunt' = [hunt EXCEPT ![k] = h],
         h.phase = "collect" => h.cur = NoTarget,
         \A x : x \in h.targets \/ x = h.cur => x[1] \in Int /\ Aimed(x)
  PROVE  AimInv'
<1>1. hunt'[k] = h /\ \A j \in Killer \ {k} : hunt'[j] = hunt[j]
  BY DEF Inv, TypeOK
<1>2. \A x : x[1] \in Int /\ Aimed(x) => Aimed(x)'
  BY AimedStays
<1>3. ASSUME NEW j \in Killer
      PROVE  /\ hunt'[j].phase = "collect" => hunt'[j].cur = NoTarget
             /\ \A x : x \in hunt'[j].targets \/ x = hunt'[j].cur => Aimed(x)'
  <2>1. CASE j = k
    BY <1>1, <1>2, <2>1
  <2>2. CASE j # k
    <3>1. \A x : x \in hunt[j].targets \/ x = hunt[j].cur => x[1] \in Int /\ Aimed(x)
      BY TargetType DEF AimInv
    <3> QED BY <1>1, <1>2, <2>2, <3>1 DEF AimInv
  <2> QED BY <2>1, <2>2
<1>4. \A j \in Killer : Aimed(hunt[j].cur)'
  BY <1>3 DEF Aimed
<1> QED BY <1>3, <1>4 DEF AimInv

LEMMA StartGone ==
  ASSUME Inv, GoneInv, Ages, DeadBut({}), OsStays, NEW k \in Killer, hunt[k] = NoHunt,
         NEW phase \in {"collect", "kill"}, NEW S \in SUBSET Known, StartHunt(k, phase, S)
  PROVE  GoneInv'
<1> DEFINE h == HuntOf(phase, TargetsOf(S), NoTarget)
<1>1. hunt' = [hunt EXCEPT ![k] = h]
  BY DEF StartHunt
<1>2. h.cur = NoTarget /\ h.targets = TargetsOf(S)
  BY DEF HuntOf
<1> HIDE DEF h
<1>3. \A x \in TargetsOf(S) : x[1] \in Int /\ Aimed(x)
  <2> SUFFICES ASSUME NEW p \in S
               PROVE  LET x == <<p, process_table[p].os>> IN x[1] \in Int /\ Aimed(x)
    BY DEF TargetsOf
  <2>1. p \in Int /\ p < process_counter
    BY DEF Inv, RegistryInv, Fresh, RegistryTypeOK
  <2> QED BY <2>1 DEF Aimed
<1>4. NoTarget[1] \in Int /\ Aimed(NoTarget)
  BY NoHuntType DEF GoneInv, AimInv, NoTarget, NoPid
<1>5. AimInv'
  BY <1>1, <1>2, <1>3, <1>4, AimChange DEF GoneInv
<1>6. \A j \in Killer : hunt'[j].cur = hunt[j].cur
  BY <1>1, <1>2, NoHuntType DEF Inv, TypeOK
<1>7. KilledIsGone'
  BY <1>6, GoneKept
<1> QED BY <1>5, <1>7 DEF GoneInv

\* The operations of the registry, one by one.
LEMMA SameAges ==
  ASSUME Inv, UNCHANGED process_table, process_counter' \in {process_counter, NextCounter}
  PROVE  Ages /\ DeadBut({})
<1>1. process_counter \in Nat /\ process_counter' \in Nat /\ process_counter' >= process_counter
  BY RegistryAssumption DEF Inv, TypeOK, RegistryTypeOK, NextCounter
<1> QED BY <1>1 DEF Ages, DeadBut, Known

LEMMA RegisterAges ==
  ASSUME Inv, NEW o, NEW tree, NEW parent, NEW s, NEW m, NEW h,
         register_process(o, tree, parent, s, m, h)
  PROVE  Ages /\ DeadBut({})
<1> DEFINE pid == process_counter
           t == IF tree = NewTree THEN tree_counter ELSE tree
           info == [tree |-> t, parent |-> parent, os |-> o, status |-> s,
                    mem |-> m, hb |-> clock, alive |-> TRUE, term |-> 0]
<1>1. /\ process_counter \in Nat /\ process_counter' = process_counter + 1
      /\ process_table' = Put(process_table, pid, info)
  BY RegistryAssumption DEF register_process, CanRegister, NextCounter, Inv, TypeOK, RegistryTypeOK
<1>2. info.alive
  OBVIOUS
<1> HIDE DEF info
<1>3. pid \notin Known
  BY <1>1 DEF Inv, RegistryInv, Fresh
<1>4. /\ Known' = Known \cup {pid} /\ process_table'[pid] = info
      /\ \A q \in Known : process_table'[q] = process_table[q]
  BY <1>1, <1>3 DEF Put, Known
<1> QED BY <1>1, <1>2, <1>4 DEF Ages, DeadBut

\* An entry is replaced by one that agrees with it as far as Ages looks.
LEMMA EntryAges ==
  ASSUME Inv, NEW p, NEW n, NEW D, UNCHANGED process_counter,
         process_table' = IF p \in Known THEN [process_table EXCEPT ![p] = n] ELSE process_table,
         p \in Known => /\ n.os = process_table[p].os
                        /\ n.term = 0 => process_table[p].term = 0
                        /\ ~n.alive /\ n.term = 0 => ~process_table[p].alive \/ p \in D
  PROVE  Ages /\ DeadBut(D)
<1>1. process_counter \in Nat
  BY DEF Inv, TypeOK, RegistryTypeOK
<1>2. /\ Known' = Known
      /\ \A q \in Known : process_table'[q] = IF q = p THEN n ELSE process_table[q]
  BY DEF Known, Inv, TypeOK, RegistryTypeOK
<1> QED BY <1>1, <1>2 DEF Ages, DeadBut

LEMMA HeartbeatAges ==
  ASSUME Inv, NEW p, NEW s, NEW m, NEW now, heartbeat_stores(p, s, m, now)
  PROVE  Ages /\ DeadBut({})
<1> DEFINE n == [process_table[p] EXCEPT !.status = s, !.mem = m, !.hb = now]
<1>1. p \in Known => /\ n.os = process_table[p].os /\ n.term = process_table[p].term
                     /\ n.alive = process_table[p].alive
  <2> SUFFICES ASSUME p \in Known
               PROVE  /\ n.os = process_table[p].os /\ n.term = process_table[p].term
                      /\ n.alive = process_table[p].alive
    OBVIOUS
  <2>1. process_table[p] \in ProcessInfo
    BY DEF Inv, TypeOK, RegistryTypeOK
  <2> QED BY <2>1 DEF ProcessInfo
<1>2. /\ process_table' = IF p \in Known THEN [process_table EXCEPT ![p] = n] ELSE process_table
      /\ UNCHANGED process_counter
  BY DEF heartbeat_stores
<1> HIDE DEF n
<1> QED BY <1>1, <1>2, EntryAges

LEMMA MarkAges ==
  ASSUME Inv, NEW p, mark_process_killed(p)
  PROVE  Ages /\ DeadBut({p})
<1> DEFINE n == [process_table[p] EXCEPT !.status = "KILLED", !.alive = FALSE]
<1>1. p \in Known => n.os = process_table[p].os /\ n.term = process_table[p].term
  <2> SUFFICES ASSUME p \in Known
               PROVE  n.os = process_table[p].os /\ n.term = process_table[p].term
    OBVIOUS
  <2>1. process_table[p] \in ProcessInfo
    BY DEF Inv, TypeOK, RegistryTypeOK
  <2> QED BY <2>1 DEF ProcessInfo
<1>2. /\ process_table' = IF p \in Known THEN [process_table EXCEPT ![p] = n] ELSE process_table
      /\ UNCHANGED process_counter
  BY DEF mark_process_killed
<1> HIDE DEF n
<1>3. p \in {p}
  OBVIOUS
<1> QED BY <1>1, <1>2, <1>3, EntryAges

LEMMA TerminateAges ==
  ASSUME Inv, NEW p, terminate_process(p)
  PROVE  Ages /\ DeadBut({})
<1>1. CASE ~IsAlive(p)
  BY <1>1, SameAges DEF terminate_process, registryVars
<1>2. CASE IsAlive(p)
  <2> DEFINE n == [process_table[p] EXCEPT !.alive = FALSE, !.term = clock]
  <2>1. p \in Known /\ process_table[p] \in ProcessInfo /\ clock > 0 /\ clock \in Nat
    BY <1>2, RegistryAssumption DEF IsAlive, Inv, TypeOK, RegistryInv, RegistryTypeOK, Time
  <2>2. n.os = process_table[p].os /\ n.term = clock
    BY <2>1 DEF ProcessInfo
  <2>3. /\ process_table' = IF p \in Known THEN [process_table EXCEPT ![p] = n] ELSE process_table
        /\ UNCHANGED process_counter
    BY <1>2, <2>1 DEF terminate_process
  <2> HIDE DEF n
  <2>4. n.term # 0
    BY <2>1, <2>2
  <2> QED BY <2>2, <2>3, <2>4, EntryAges
<1> QED BY <1>1, <1>2

LEMMA KillTreeAges ==
  ASSUME Inv, NEW t, kill_tree(t)
  PROVE  Ages /\ DeadBut({})
<1>1. process_counter \in Nat /\ UNCHANGED process_counter /\ Known' = Known
  BY DEF kill_tree, Known, Inv, TypeOK, RegistryTypeOK
<1>2. \A p \in Known : /\ process_table'[p].os = process_table[p].os
                       /\ process_table'[p].term = process_table[p].term
                       /\ process_table'[p].alive = process_table[p].alive
  <2> SUFFICES ASSUME NEW p \in Known
               PROVE  /\ process_table'[p].os = process_table[p].os
                      /\ process_table'[p].term = process_table[p].term
                      /\ process_table'[p].alive = process_table[p].alive
    OBVIOUS
  <2>1. process_table[p] \in ProcessInfo
    BY DEF Inv, TypeOK, RegistryTypeOK
  <2>2. process_table'[p] \in {process_table[p], [process_table[p] EXCEPT !.status = "KILLED"]}
    BY DEF kill_tree
  <2> QED BY <2>1, <2>2 DEF ProcessInfo
<1> QED BY <1>1, <1>2 DEF Ages, DeadBut

LEMMA CleanupAges ==
  ASSUME Inv, NEW now, cleanup_historical_processes(now)
  PROVE  Ages /\ DeadBut({})
<1>1. process_counter \in Nat /\ UNCHANGED process_counter /\ Known' \subseteq Known
  BY DEF cleanup_historical_processes, Known, Inv, TypeOK, RegistryTypeOK
<1>2. \A p \in Known' : process_table'[p] = process_table[p]
  BY DEF cleanup_historical_processes, Known
<1> QED BY <1>1, <1>2 DEF Ages, DeadBut

\* The steps that leave the process table, the killers and the dead alone.
LEMMA IdleGone ==
  ASSUME Inv, GoneInv, UNCHANGED <<process_table, process_counter, hunt>>, OsStays
  PROVE  GoneInv'
  BY SameAges, CalmGone

LEMMA OsSame ==
  ASSUME UNCHANGED os_state
  PROVE  OsStays
  BY DEF OsStays

LEMMA RequestsGone ==
  ASSUME Inv, GoneInv, NEW t \in Thread, Requests(t)
  PROVE  GoneInv'
<1>1. ASSUME NEW o \in OsPid, NEW r, SendRegister(t, o, r)
      PROVE  GoneInv'
  <2>1. OsStays
    BY <1>1 DEF SendRegister, OsStays, Inv, TypeOK
  <2>2. UNCHANGED <<process_table, process_counter, hunt>>
    BY <1>1 DEF SendRegister, registryVars
  <2> QED BY <2>1, <2>2, IdleGone
<1>2. ASSUME NEW p, NEW s, NEW m, ReceiveHeartbeat(t, p, s, m)
      PROVE  GoneInv'
  <2>1. UNCHANGED <<process_table, process_counter, hunt>>
    BY <1>2 DEF ReceiveHeartbeat, registryVars
  <2>2. OsStays
    BY <1>2 DEF ReceiveHeartbeat, OsStays, Inv, TypeOK
  <2> QED BY <2>1, <2>2, IdleGone
<1>3. ASSUME NEW tree \in TreeId, ReceiveTreeKill(t, tree)
      PROVE  GoneInv'
  <2>1. t \in Killer /\ hunt[t] = NoHunt /\ KillSet(tree) \in SUBSET Known
    BY <1>3 DEF ReceiveTreeKill, Accept, Inv, LocalInv, Killer, KillSet, IsAlive
  <2>2. Ages /\ DeadBut({}) /\ OsStays
    BY <1>3, KillTreeAges, OsSame DEF ReceiveTreeKill
  <2> QED BY <1>3, <2>1, <2>2, StartGone DEF ReceiveTreeKill
<1>4. CASE \E o \in OsPid, m \in Memory :
             \/ RegisterHandler(t, o, m) \/ RegisterNewTree(t, o, m)
             \/ \E p \in Known : RegisterJoin(t, o, m, p)
  <2>1. \E o \in OsPid : \E r : SendRegister(t, o, r)
    BY <1>4 DEF RegisterHandler, RegisterNewTree, RegisterJoin
  <2> QED BY <1>1, <2>1
<1> QED BY <1>2, <1>3, <1>4 DEF Requests

LEMMA ThreadGone ==
  ASSUME Inv, GoneInv, NEW t \in Thread, ThreadStep(t)
  PROVE  GoneInv'
<1>1. UNCHANGED <<hunt, os_state>>
  BY DEF ThreadStep, RegisterProcess, TrackHandler, StoreHeartbeat, TerminateFinished, ReplyTreeKill
<1>2. OsStays
  BY <1>1, OsSame
<1>3. CASE RegisterProcess(t)
  <2>1. Ages /\ DeadBut({})
    <3>1. CASE \E o, tree, parent, s, m, h : register_process(o, tree, parent, s, m, h)
      BY <3>1, RegisterAges
    <3>2. CASE \E tree, h : register_rejected(tree, h)
      BY <3>2, SameAges DEF register_rejected
    <3> QED BY <1>3, <3>1, <3>2 DEF RegisterProcess
  <2> QED BY <1>1, <1>2, <2>1, CalmGone
<1>4. CASE StoreHeartbeat(t)
  BY <1>1, <1>2, <1>4, HeartbeatAges, CalmGone DEF StoreHeartbeat
<1>5. CASE TerminateFinished(t)
  BY <1>1, <1>2, <1>5, TerminateAges, CalmGone DEF TerminateFinished
<1>6. CASE TrackHandler(t) \/ ReplyTreeKill(t)
  BY <1>1, <1>2, <1>6, IdleGone DEF TrackHandler, ReplyTreeKill, registryVars
<1> QED BY <1>3, <1>4, <1>5, <1>6 DEF ThreadStep

\* kill_processes: the process it has marked is in the grace period of its
\* killer until SIGKILL is sent to the OS process that was registered for it.
LEMMA KillerGone ==
  ASSUME Inv, GoneInv, NEW k \in Killer, KillerStep(k)
  PROVE  GoneInv'
<1>0. hunt \in [Killer -> Hunt] /\ hunt[k] \in Hunt /\ os_state \in [OsPid -> OsState]
  BY DEF Inv, TypeOK
<1>a. \A x : x \in hunt[k].targets \/ x = hunt[k].cur => x[1] \in Int /\ Aimed(x)
  BY TargetType DEF GoneInv, AimInv
<1>b. NoTarget[1] \in Int /\ Aimed(NoTarget)
  <2>1. /\ process_counter > 0 /\ process_counter \in Nat /\ NoTarget[1] = -1
        /\ -1 \notin Known
    BY DEF Inv, TypeOK, RegistryTypeOK, NoTarget, NoPid, Pid
  <2> QED BY <2>1 DEF Aimed
<1>1. CASE CollectTargets(k)
  <2> DEFINE live == {x \in hunt[k].targets : IsAlive(x[1])}
             h == HuntOf("kill", live, NoTarget)
  <2>1. h.targets = live /\ h.cur = NoTarget
    BY DEF HuntOf
  <2>2. hunt' = [hunt EXCEPT ![k] = h] /\ hunt[k].cur = NoTarget
    BY <1>1 DEF CollectTargets, GoneInv, AimInv
  <2>3. \A x \in live : x \in hunt[k].targets
    OBVIOUS
  <2> HIDE DEF h, live
  <2>4. Ages /\ DeadBut({}) /\ OsStays
    BY <1>1, SameAges, OsSame DEF CollectTargets, registryVars
  <2>5. AimInv'
    BY <1>a, <1>b, <2>1, <2>2, <2>3, <2>4, AimChange DEF GoneInv
  <2>6. \A j \in Killer : hunt'[j].cur = hunt[j].cur
    BY <1>0, <2>1, <2>2
  <2>7. KilledIsGone'
    BY <2>4, <2>6, GoneKept
  <2> QED BY <2>5, <2>7 DEF GoneInv
<1>2. CASE MarkTarget(k)
  <2>1. PICK y \in hunt[k].targets :
          /\ mark_process_killed(y[1])
          /\ hunt' = [hunt EXCEPT ![k].targets = @ \ {y}, ![k].cur = y]
    BY <1>2 DEF MarkTarget
  <2> DEFINE h == [hunt[k] EXCEPT !.targets = @ \ {y}, !.cur = y]
  <2>2. h.targets = hunt[k].targets \ {y} /\ h.cur = y /\ h.phase = hunt[k].phase
    BY <1>0 DEF Hunt
  <2>3. hunt' = [hunt EXCEPT ![k] = h] /\ hunt[k].phase = "kill" /\ hunt[k].cur = NoTarget
    BY <1>0, <1>2, <2>1 DEF MarkTarget, Hunt
  <2> HIDE DEF h
  <2>4. Ages /\ DeadBut({y[1]}) /\ OsStays
    BY <1>2, <2>1, MarkAges, OsSame DEF MarkTarget
  <2>5. AimInv'
    BY <1>a, <2>2, <2>3, <2>4, AimChange DEF GoneInv
  <2>6. hunt'[k].cur = y /\ \A j \in Killer \ {k} : hunt'[j].cur = hunt[j].cur
    BY <1>0, <2>2, <2>3
  <2>7. \A p \in {y[1]} : \E j \in Killer : hunt'[j].cur[1] = p
    BY <2>6
  <2>8. \A j \in Killer : hunt'[j].cur = hunt[j].cur \/ hunt[j].cur = NoTarget
    BY <2>3, <2>6
  <2>9. KilledIsGone'
    BY <2>4, <2>7, <2>8, GoneKept
  <2> QED BY <2>5, <2>9 DEF GoneInv
<1>3. CASE FinishTarget(k)
  <2> DEFINE h == [hunt[k] EXCEPT !.cur = NoTarget]
  <2>1. h.targets = hunt[k].targets /\ h.cur = NoTarget
    BY <1>0 DEF Hunt
  <2>2. hunt' = [hunt EXCEPT ![k] = h]
    BY <1>0, <1>3 DEF FinishTarget
  <2> HIDE DEF h
  <2>3. hunt[k].cur[2] \in OsPid
    BY <1>3, TargetType DEF FinishTarget
  <2>4. os_state'[hunt[k].cur[2]] = "gone" /\ OsStays
    BY <1>0, <1>3, <2>3 DEF FinishTarget, OsStays
  <2>5. Ages /\ DeadBut({})
    BY <1>3, TerminateAges DEF FinishTarget
  <2>6. AimInv'
    BY <1>a, <1>b, <2>1, <2>2, <2>5, AimChange DEF GoneInv
  <2>7. \A j \in Killer : hunt'[j].cur = hunt[j].cur \/ os_state'[hunt[j].cur[2]] = "gone"
    BY <1>0, <2>2, <2>4
  <2>8. KilledIsGone'
    BY <2>4, <2>5, <2>7, GoneKept
  <2> QED BY <2>6, <2>8 DEF GoneInv
<1> QED BY <1>1, <1>2, <1>3 DEF KillerStep

LEMMA WatchdogGone ==
  ASSUME Inv, GoneInv, WatchdogStep
  PROVE  GoneInv'
<1>0. Watchdog \in Killer /\ os_state \in [OsPid -> OsState]
  BY DEF Killer, Inv, TypeOK
<1>1. CASE WdWake \/ WdListTrees \/ WdHandlerCheck \/ WdHandlerUp \/ WdHandlerGone
  <2>1. UNCHANGED <<process_table, process_counter, hunt, os_state>>
    BY <1>1 DEF WdWake, WdListTrees, WdHandlerCheck, WdHandlerUp, WdHandlerGone, registryVars
  <2> QED BY <2>1, OsSame, IdleGone
<1>2. CASE WdComplete
  <2>1. UNCHANGED <<process_table, process_counter, hunt, os_state>>
    BY <1>2 DEF WdComplete, mark_tree_completed_if_done
  <2> QED BY <2>1, OsSame, IdleGone
<1>3. CASE WdCleanup
  BY <1>3, CleanupAges, OsSame, CalmGone DEF WdCleanup
<1>4. CASE WdSnapshot
  <2>1. Ages /\ DeadBut({}) /\ OsStays
    BY <1>4, SameAges, OsSame DEF WdSnapshot, registryVars
  <2>2. hunt[Watchdog] = NoHunt /\ OverdueAt(wd_now, HbTimeout) \in SUBSET Known
    BY <1>4 DEF WdSnapshot, WatchdogAt, HuntOver, OverdueAt
  <2>3. StartHunt(Watchdog, "kill", OverdueAt(wd_now, HbTimeout))
    BY <1>4 DEF WdSnapshot
  <2> QED BY <1>0, <2>1, <2>2, <2>3, StartGone
<1>5. CASE WdRuntime \/ WdMemory \/ WdMemoryKill \/ WdLlm \/ WdLlmKill
  <2>1. (\E tree : Enforce(tree)) \/ UNCHANGED <<registryVars, hunt>>
    BY <1>5 DEF WdRuntime, WdMemory, WdMemoryKill, WdLlm, WdLlmKill
  <2>2. hunt[Watchdog] = NoHunt /\ UNCHANGED os_state
    BY <1>5 DEF WdRuntime, WdMemory, WdMemoryKill, WdLlm, WdLlmKill, WatchdogAt, HuntOver
  <2>3. ASSUME NEW tree, Enforce(tree)
        PROVE  GoneInv'
    <3>1. kill_tree(tree) /\ StartHunt(Watchdog, "collect", KillSet(tree))
      BY <2>3 DEF Enforce
    <3>2. Ages /\ DeadBut({}) /\ OsStays /\ KillSet(tree) \in SUBSET Known
      BY <2>2, <3>1, KillTreeAges, OsSame DEF KillSet, IsAlive
    <3> QED BY <1>0, <2>2, <3>1, <3>2, StartGone
  <2>4. CASE UNCHANGED <<registryVars, hunt>>
    <3>1. UNCHANGED <<process_table, process_counter, hunt>>
      BY <2>4 DEF registryVars
    <3> QED BY <2>2, <3>1, OsSame, IdleGone
  <2> QED BY <2>1, <2>3, <2>4
<1>6. CASE WdKillPrevious
  <2>1. OsStays
    BY <1>6 DEF WdKillPrevious, OsStays
  <2>2. UNCHANGED <<process_table, process_counter, hunt>>
    BY <1>6 DEF WdKillPrevious, registryVars
  <2> QED BY <2>1, <2>2, IdleGone
<1>7. CASE WdFork
  <2>1. OsStays
    BY <1>0, <1>7 DEF WdFork, OsStays
  <2>2. UNCHANGED <<process_table, process_counter, hunt>>
    BY <1>7 DEF WdFork, registryVars
  <2> QED BY <2>1, <2>2, IdleGone
<1> QED BY <1>1, <1>2, <1>3, <1>4, <1>5, <1>6, <1>7 DEF WatchdogStep

LEMMA OtherGone ==
  ASSUME Inv, GoneInv,
         \/ \E o \in OsPid : OsExit(o)
         \/ AdvanceClock
         \/ \E p \in Known : ReceiveLlmRequest(p)
         \/ StopBegin \/ StopSnapshot \/ StopDone
         \/ UNCHANGED vars
  PROVE  GoneInv'
<1>1. CASE \E o \in OsPid : OsExit(o)
  <2>1. OsStays
    BY <1>1 DEF OsExit, OsStays, Inv, TypeOK
  <2>2. UNCHANGED <<process_table, process_counter, hunt>>
    BY <1>1 DEF OsExit, registryVars
  <2> QED BY <2>1, <2>2, IdleGone
<1>2. CASE AdvanceClock \/ (\E p \in Known : ReceiveLlmRequest(p)) \/ StopBegin \/ StopDone \/ UNCHANGED vars
  <2>1. UNCHANGED <<process_table, process_counter, hunt, os_state>>
    BY <1>2 DEF AdvanceClock, Tick, ReceiveLlmRequest, increment_llm_request, StopBegin, StopDone,
                registryVars, vars
  <2> QED BY <2>1, OsSame, IdleGone
<1>3. CASE StopSnapshot
  <2> DEFINE S == {p \in Known : process_table[p].alive}
  <2>1. Main \in Killer /\ hunt[Main] = NoHunt /\ StartHunt(Main, "kill", S) /\ S \in SUBSET Known
    BY <1>3 DEF StopSnapshot, Inv, LocalInv, Killer
  <2> HIDE DEF S
  <2>2. Ages /\ DeadBut({}) /\ OsStays
    BY <1>3, SameAges, OsSame DEF StopSnapshot, registryVars
  <2> QED BY <2>1, <2>2, StartGone
<1> QED BY <1>1, <1>2, <1>3

\* What kill_processes was done with is gone in the operating system too,
\* whichever of the request threads, the watchdog and stop() killed it, also
\* when two of them kill the same process or it finishes meanwhile.
THEOREM KillReachesOs == Spec => []KilledIsGone
<1>1. Init => Inv /\ GoneInv
  <2> SUFFICES ASSUME Init
               PROVE  Inv /\ GoneInv
    OBVIOUS
  <2>1. Inv /\ Known = {}
    BY InitInv DEF Init, RegistryInit, Known
  <2>2. \A k \in Killer : hunt[k] = NoHunt
    BY DEF Init
  <2>3. NoHunt.phase = "kill" /\ NoHunt.cur = NoTarget /\ NoHunt.targets = {}
    BY DEF NoHunt, HuntOf
  <2>4. Aimed(NoTarget)
    BY <2>1 DEF Aimed, NoTarget, NoPid, Init, RegistryInit
  <2> QED BY <2>1, <2>2, <2>3, <2>4 DEF GoneInv, AimInv, KilledIsGone
<1>2. Inv /\ GoneInv /\ [Next]_vars => Inv' /\ GoneInv'
  BY NextInv, RequestsGone, ThreadGone, KillerGone, WatchdogGone, OtherGone DEF Next
<1>3. GoneInv => KilledIsGone
  BY DEF GoneInv
<1> QED BY <1>1, <1>2, <1>3, PTL DEF Spec
=============================================================================
