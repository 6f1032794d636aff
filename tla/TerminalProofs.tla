--------------------------- MODULE TerminalProofs ---------------------------
(***************************************************************************)
(* Proofs about Terminal for every set of clients and sessions, every      *)
(* workload, every limit and any number of shells: a shell has one owner,  *)
(* a dangerous command is run with consent only, what the tool reports is  *)
(* what happened, and a job that has ended keeps its status.               *)
(***************************************************************************)
EXTENDS Terminal, TLAPS, FiniteSetTheorems, SequenceTheorems

Ends == {"Finished", "Error", "Timeout"}
Asking == {"approve", "ask", "whitelist", "save"}
\* A client on its way to a shell, at it, and with its command handed over.
Going == {"oneshot", "create", "recreate", "lookup", "exec", "wait", "submit"}
Handed == {"write", "poll", "refused", "done"}
Early == Asking \cup Going \cup Closing \cup {"kill", "kill_all"}
Fixed == Asking \cup Going \cup Handed
         \cup {"kill", "kill_all", "none", "sleep", "mark", "evict", "prune", "pruning", "serve",
               "join", "teardown"}
Pc == Fixed \cup Closing
Then == {"refused", "lookup", "done", "prune", "teardown"}

Pattern == {"off", "smart", "manual"} \X {UserOf[k] : k \in Key} \X Cmd
JobEntry == [status : Ends \cup {"none", "Running"}, finished_at : Nat, stored : BOOLEAN]
Shell == [alive : BOOLEAN, stop : BOOLEAN, shell : {"none", "up", "dead"}, current : Client \cup {None},
          input : Seq(Client), reader : {"off", "run", "finalize", "done"},
          timer : {"off", "test", "dozing", "asleep", "armed", "done"}, armed : Client \cup {None}]
Control == [pc : Pc, then : Then \cup {None}, driver : Driver \cup {None}, todo : SUBSET Driver,
            ids : SUBSET (Key \cup Pattern), at : Nat]

TypeOK ==
  /\ load \in DOMAIN Load
  /\ sessions \in [Key -> SessionEntry \cup {None}]
  /\ drv \in [Driver -> Shell]
  /\ thr \in [Thread -> Control]
  /\ jobs \in [Client -> JobEntry]
  /\ told \in [Client -> {"none", "ok", "error", "timeout", "blocked"}]
  /\ allow \subseteq Pattern
  /\ running \in BOOLEAN /\ now \in Nat

\* The user allowed the command of c, if that is needed.
Cleared(c) == NeedsApproval(c) => \/ Question(c) \in Entries
                                  \/ {<<c, "once">>, Question(c)} \cap consent # {}

\* A client that goes to a shell was cleared, and has no job before it
\* submits one; its report of success is the status of that job.
Local(c) ==
  /\ thr[c].pc \in Early => jobs[c].status = "none"
  /\ thr[c].pc \in Closing => thr[c].then \in {"refused", "lookup", "done"}
  /\ \/ thr[c].pc \in Going \cup {"write", "poll"}
     \/ thr[c].pc \in Closing /\ thr[c].then # "done"
     \/ jobs[c].status # "none" \/ told[c] \in {"ok", "timeout"}
     => Cleared(c)
  /\ thr[c].pc \in {"whitelist", "save"} => PatternKey(c) \in consent
  /\ thr[c].pc = "save" => thr[c].ids \subseteq consent \cap Pattern
  /\ thr[c].pc = "oneshot" => Task(c).act = "oneshot"
  /\ told[c] = "ok" /\ Task(c).act = "exec" => jobs[c].status = "Finished"
  /\ thr[c].pc \in {"exec", "wait", "submit", "write"} => thr[c].driver \in Driver

\* The job a shell runs was handed to that shell, and to no other.
JobInv ==
  \A d \in Driver : \A c \in Client :
    drv[d].current = c => jobs[c].status = "Running" /\ thr[c].driver = d /\ thr[c].pc \in Handed

\* A thread that closes shells has one at hand, and the rest to do.
CloseInv(t) ==
  /\ thr[t].pc \notin Closing => thr[t].todo = {}
  /\ thr[t].pc \in Closing => /\ thr[t].driver \in Driver \ thr[t].todo
                              /\ thr[t].then \in Then
  /\ thr[t].pc \in {"join_timer", "join_reader"} => drv[thr[t].driver].stop

Started(d) == drv[d].reader # "off"
Ending(d) == drv[d].stop \/ drv[d].timer = "done"
Holds(k, d) == sessions[k] # None /\ sessions[k].driver = d
Closes(t, d) == d \in ClosingBy(t)

\* A started shell has one owner: a session or a thread that closes it.
OwnerInv ==
  /\ \A k \in Key, d \in Driver : Holds(k, d) => Started(d)
  /\ \A t \in Thread, d \in Driver : Closes(t, d) => Started(d)
  /\ \A j, k \in Key, d \in Driver : Holds(j, d) /\ Holds(k, d) => j = k
  /\ \A t, u \in Thread, d \in Driver : Closes(t, d) /\ Closes(u, d) => t = u
  /\ \A k \in Key, t \in Thread, d \in Driver : ~(Holds(k, d) /\ Closes(t, d))
  /\ \A d \in Driver : \/ ~Started(d) \/ Ending(d)
                       \/ \E k \in Key : Holds(k, d)
                       \/ \E t \in Thread : Closes(t, d)

Inv ==
  /\ TypeOK
  /\ \A c \in Client : Local(c)
  /\ allow \subseteq consent
  /\ JobInv
  /\ \A t \in Thread : CloseInv(t)
  /\ OwnerInv

----------------------------------------------------------------------------
(* What the parts of the invariant depend on                               *)

LEMMA LoadKept ==
  ASSUME NEW c \in Client, load' = load
  PROVE  /\ Task(c)' = Task(c)
         /\ NeedsApproval(c)' <=> NeedsApproval(c)
         /\ PatternKey(c)' = PatternKey(c) /\ Question(c)' = Question(c)
  BY DEF Task, NeedsApproval, PatternKey, Question, User

\* The key of the list tells apart what the questions tell apart.
LEMMA KeyIsQuestion ==
  ASSUME NEW c \in Client
  PROVE  PatternKey(c) = Question(c)
  BY DEF PatternKey, Question

LEMMA ClearedKept ==
  ASSUME NEW c \in Client, load' = load, consent \subseteq consent', Cleared(c)
  PROVE  Cleared(c)'
  BY LoadKept DEF Cleared

LEMMA TaskTyped ==
  ASSUME TypeOK, NEW c \in Client
  PROVE  Task(c) \in TaskType
<1> DEFINE R == [task : [Client -> TaskType], events : SUBSET Event]
<1>1. Load \in Seq(R)
  BY TerminalAssumption
<1>2. Load[load] \in R
  <2> HIDE DEF R
  <2>1. Load \in [1 .. Len(Load) -> R]
    BY <1>1, LenProperties
  <2>2. load \in 1 .. Len(Load)
    BY <1>1, LenProperties DEF TypeOK
  <2> QED BY <2>1, <2>2
<1> QED BY <1>2 DEF Task

LEMMA DriverNotNone == None \notin Driver
  BY TerminalAssumption

\* A job that is not ended by the step, or is ended by it.
StatusKept(c) ==
  \/ jobs'[c].status = jobs[c].status
  \/ jobs[c].status = "Running" /\ jobs'[c].status \in Ends

ShellsKept ==
  \A d \in Driver : /\ Started(d)' <=> Started(d)
                    /\ Ending(d) => Ending(d)'
                    /\ drv[d].stop => drv'[d].stop

LEMMA LocalKept ==
  ASSUME NEW c \in Client, Local(c), load' = load, consent \subseteq consent',
         thr'[c] = thr[c], told'[c] = told[c], StatusKept(c)
  PROVE  Local(c)'
<1>1. Cleared(c) => Cleared(c)'
  BY ClearedKept
<1>2. Task(c)' = Task(c) /\ PatternKey(c)' = PatternKey(c)
  BY LoadKept
<1>3. "Running" # "none" /\ "Running" # "Finished"
  OBVIOUS
<1> QED BY <1>1, <1>2, <1>3, Zenon DEF Local, StatusKept

LEMMA CloseKept ==
  ASSUME NEW t \in Thread, CloseInv(t), ShellsKept,
         thr'[t].pc = thr[t].pc, thr'[t].todo = thr[t].todo, thr'[t].driver = thr[t].driver,
         thr'[t].then = thr[t].then
  PROVE  CloseInv(t)'
  BY DEF CloseInv, ShellsKept, Closing

LEMMA JobsKept ==
  ASSUME JobInv,
         \A d \in Driver : drv'[d].current = drv[d].current \/ drv'[d].current = None,
         \A c \in Client : \/ jobs'[c].status = jobs[c].status
                           \/ \A d \in Driver : drv'[d].current # c,
         \A c \in Client : thr[c].pc \in Handed =>
                             thr'[c].pc \in Handed /\ thr'[c].driver = thr[c].driver
  PROVE  JobInv'
<1>1. None \notin Client
  BY TerminalAssumption
<1> QED BY <1>1 DEF JobInv

LEMMA OwnersKept ==
  ASSUME OwnerInv, ShellsKept,
         \A k \in Key, d \in Driver : Holds(k, d)' <=> Holds(k, d),
         \A t \in Thread, d \in Driver : Closes(t, d)' <=> Closes(t, d)
  PROVE  OwnerInv'
  BY DEF OwnerInv, ShellsKept

\* A thread takes the shells of the sessions of K out of the registry; the
\* session k may get the shell of N, which was not started before.
Moved(K, t, k, N) ==
  /\ \A d \in N : ~Started(d) /\ Started(d)'
  /\ \A d \in Driver \ N : /\ Started(d)' <=> Started(d)
                           /\ Ending(d) => Ending(d)'
  /\ \A d \in N : \A e \in N : d = e
  /\ \A j \in Key \ K, d \in Driver : Holds(j, d)' <=> Holds(j, d)
  /\ \A j \in K, d \in Driver : Holds(j, d)' <=> j = k /\ d \in N
  /\ N # {} => k \in K
  /\ \A d \in Driver : ~Closes(t, d)
  /\ \A d \in Driver : Closes(t, d)' <=> \E j \in K : Holds(j, d)
  /\ \A u \in Thread \ {t}, d \in Driver : Closes(u, d)' <=> Closes(u, d)

LEMMA OwnersMove ==
  ASSUME OwnerInv, NEW K \in SUBSET Key, NEW t \in Thread, NEW k, NEW N \in SUBSET Driver,
         Moved(K, t, k, N)
  PROVE  OwnerInv'
<1>1. (\A j \in Key, d \in Driver : Holds(j, d) => Started(d))'
  BY DEF OwnerInv, Moved
<1>2. (\A u \in Thread, d \in Driver : Closes(u, d) => Started(d))'
  BY DEF OwnerInv, Moved
<1>3. (\A i, j \in Key, d \in Driver : Holds(i, d) /\ Holds(j, d) => i = j)'
  BY DEF OwnerInv, Moved
<1>4. (\A u, v \in Thread, d \in Driver : Closes(u, d) /\ Closes(v, d) => u = v)'
  BY DEF OwnerInv, Moved
<1>5. (\A j \in Key, u \in Thread, d \in Driver : ~(Holds(j, d) /\ Closes(u, d)))'
  BY DEF OwnerInv, Moved
<1>6. (\A d \in Driver : \/ ~Started(d) \/ Ending(d)
                         \/ \E j \in Key : Holds(j, d)
                         \/ \E u \in Thread : Closes(u, d))'
  BY DEF OwnerInv, Moved
<1> QED BY <1>1, <1>2, <1>3, <1>4, <1>5, <1>6 DEF OwnerInv

\* A thread has closed a shell that ends.
LEMMA OwnersRelease ==
  ASSUME OwnerInv, ShellsKept, NEW t \in Thread, NEW e \in Driver, Ending(e),
         \A k \in Key, d \in Driver : Holds(k, d)' <=> Holds(k, d),
         \A d \in Driver : Closes(t, d)' <=> Closes(t, d) /\ d # e,
         \A u \in Thread \ {t}, d \in Driver : Closes(u, d)' <=> Closes(u, d)
  PROVE  OwnerInv'
  BY DEF OwnerInv, ShellsKept

----------------------------------------------------------------------------
(* What the steps change                                                   *)

LEMMA ThreadUpdate ==
  ASSUME TypeOK, NEW t \in Thread, NEW n \in Control, thr' = [thr EXCEPT ![t] = n]
  PROVE  /\ thr' \in [Thread -> Control]
         /\ thr'[t] = n
         /\ \A u \in Thread \ {t} : thr'[u] = thr[u]
  BY DEF TypeOK

LEMMA ShellUpdate ==
  ASSUME TypeOK, NEW d \in Driver, NEW n \in Shell, drv' = [drv EXCEPT ![d] = n]
  PROVE  /\ drv' \in [Driver -> Shell]
         /\ drv'[d] = n
         /\ \A e \in Driver \ {d} : drv'[e] = drv[e]
  BY DEF TypeOK

LEMMA ShellsSame ==
  ASSUME drv' = drv
  PROVE  ShellsKept
  BY DEF ShellsKept, Started, Ending

LEMMA ShellsUpdated ==
  ASSUME TypeOK, NEW d \in Driver, NEW n \in Shell, drv' = [drv EXCEPT ![d] = n],
         n.reader # "off" <=> drv[d].reader # "off",
         drv[d].stop => n.stop,
         drv[d].timer = "done" => n.timer = "done"
  PROVE  ShellsKept
  BY ShellUpdate DEF ShellsKept, Started, Ending

LEMMA HoldsSame ==
  ASSUME sessions' = sessions
  PROVE  \A k \in Key, d \in Driver : Holds(k, d)' <=> Holds(k, d)
  BY DEF Holds

LEMMA ClosesSame ==
  ASSUME NEW t \in Thread, thr'[t] = thr[t]
  PROVE  \A d \in Driver : Closes(t, d)' <=> Closes(t, d)
  BY DEF Closes, ClosingBy

LEMMA ClosesFixed ==
  ASSUME NEW t \in Thread, CloseInv(t), thr[t].pc \notin Closing
  PROVE  \A d \in Driver : ~Closes(t, d)
  BY DEF Closes, ClosingBy, CloseInv

\* The thread t moves on, outside close(), and leaves the shells alone.
LEMMA QuietStep ==
  ASSUME Inv, NEW t \in Thread, NEW n \in Control, thr' = [thr EXCEPT ![t] = n],
         load' = load, drv' = drv, sessions' \in [Key -> SessionEntry \cup {None}],
         \A k \in Key, d \in Driver : Holds(k, d)' <=> Holds(k, d),
         jobs' \in [Client -> JobEntry], \A c \in Client : jobs'[c].status = jobs[c].status,
         told' \in [Client -> {"none", "ok", "error", "timeout", "blocked"}],
         \A c \in Client \ {t} : told'[c] = told[c],
         allow' \subseteq Pattern, allow' \subseteq consent',
         consent \subseteq consent', running' \in BOOLEAN, now' = now,
         thr[t].pc \notin Closing, n.pc \notin Closing, n.todo = thr[t].todo,
         t \in Client => (thr[t].pc \in Handed => n.pc \in Handed /\ n.driver = thr[t].driver),
         t \in Client => Local(t)'
  PROVE  Inv'
<1>1. thr' \in [Thread -> Control] /\ thr'[t] = n /\ \A u \in Thread \ {t} : thr'[u] = thr[u]
  BY ThreadUpdate DEF Inv
<1>2. TypeOK'
  BY <1>1 DEF Inv, TypeOK
<1>3. \A c \in Client : Local(c)'
  <2>1. SUFFICES ASSUME NEW c \in Client, c # t PROVE Local(c)'
    OBVIOUS
  <2>2. thr'[c] = thr[c] /\ told'[c] = told[c] /\ StatusKept(c)
    BY <1>1, <2>1 DEF Thread, StatusKept
  <2> QED BY <2>2, LocalKept DEF Inv
<1>4. JobInv'
  <2>1. \A c \in Client : thr[c].pc \in Handed =>
                            thr'[c].pc \in Handed /\ thr'[c].driver = thr[c].driver
    BY <1>1 DEF Thread
  <2> QED BY <2>1, JobsKept DEF Inv
<1>5. ShellsKept
  BY ShellsSame
<1>6. \A u \in Thread : CloseInv(u)'
  <2>1. CloseInv(t)'
    <3>1. CloseInv(t)
      BY DEF Inv
    <3> QED BY <1>1, <3>1 DEF CloseInv, Closing
  <2>2. ASSUME NEW u \in Thread \ {t} PROVE CloseInv(u)'
    BY <1>1, <1>5, <2>2, CloseKept DEF Inv
  <2> QED BY <2>1, <2>2
<1>7. \A u \in Thread, d \in Driver : Closes(u, d)' <=> Closes(u, d)
  <2>1. \A d \in Driver : ~Closes(t, d)
    BY ClosesFixed DEF Inv
  <2>2. \A d \in Driver : ~Closes(t, d)'
    BY <1>1, <2>1 DEF Closes, ClosingBy, Closing
  <2>3. \A u \in Thread \ {t} : thr'[u] = thr[u]
    BY <1>1
  <2> QED BY <2>1, <2>2, <2>3, ClosesSame
<1>8. OwnerInv'
  BY <1>5, <1>7, OwnersKept DEF Inv
<1> QED BY <1>2, <1>3, <1>4, <1>6, <1>8 DEF Inv

\* finish_job_locked ends the job that runs, and no other.
LEMMA JobEnded ==
  ASSUME TypeOK, JobInv, NEW d \in Driver, NEW n \in Shell, drv' = [drv EXCEPT ![d] = n],
         \/ jobs' = jobs /\ n.current \in {drv[d].current, None}
         \/ n.current = None /\ \E s \in Ends : Finish(drv[d].current, s)
  PROVE  /\ jobs' \in [Client -> JobEntry]
         /\ \A c \in Client : StatusKept(c)
         /\ \A e \in Driver : drv'[e].current = drv[e].current \/ drv'[e].current = None
         /\ \A c \in Client : \/ jobs'[c].status = jobs[c].status
                              \/ \A e \in Driver : drv'[e].current # c
<1>0. None \notin Client
  BY TerminalAssumption
<1>1. drv'[d] = n /\ \A e \in Driver \ {d} : drv'[e] = drv[e]
  BY ShellUpdate
<1>2. \A e \in Driver : drv'[e].current = drv[e].current \/ drv'[e].current = None
  BY <1>1
<1>3. CASE jobs' = jobs
  BY <1>2, <1>3 DEF StatusKept, TypeOK
<1>4. CASE n.current = None /\ \E s \in Ends : Finish(drv[d].current, s)
  <2>1. PICK s \in Ends : Finish(drv[d].current, s)
    BY <1>4
  <2>2. CASE drv[d].current = None
    BY <1>2, <2>1, <2>2 DEF StatusKept, TypeOK, Finish
  <2>3. CASE drv[d].current # None
    <3> DEFINE j == drv[d].current
    <3>1. j \in Client
      BY <2>3 DEF TypeOK, Shell
    <3>2. jobs[j] \in JobEntry /\ jobs[j].status = "Running"
      BY <3>1 DEF TypeOK, JobInv
    <3> DEFINE m == [jobs[j] EXCEPT !.status = s, !.finished_at = now]
    <3>3. m \in JobEntry /\ m.status = s
      BY <3>2 DEF TypeOK, JobEntry
    <3>4. jobs' = [jobs EXCEPT ![j] = m]
      BY <2>1, <2>3 DEF Finish
    <3> HIDE DEF m
    <3>5. jobs' \in [Client -> JobEntry] /\ jobs'[j] = m /\ \A c \in Client \ {j} : jobs'[c] = jobs[c]
      BY <3>1, <3>3, <3>4 DEF TypeOK
    <3>6. \A c \in Client : StatusKept(c)
      BY <3>2, <3>3, <3>5 DEF StatusKept
    <3>7. \A e \in Driver : drv'[e].current # j
      BY <1>0, <1>1, <1>4, <3>1 DEF JobInv
    <3> QED BY <1>2, <3>5, <3>6, <3>7
  <2> QED BY <2>2, <2>3
<1> QED BY <1>3, <1>4

\* A thread of a shell moves on, and may end its job.
LEMMA ShellStep ==
  ASSUME Inv, NEW d \in Driver, NEW n \in Shell, drv' = [drv EXCEPT ![d] = n],
         load' = load, sessions' = sessions, thr' = thr, told' = told, allow' = allow,
         consent' = consent, running' = running, now' = now,
         n.reader # "off" <=> drv[d].reader # "off",
         drv[d].stop => n.stop,
         drv[d].timer = "done" => n.timer = "done",
         \/ jobs' = jobs /\ n.current \in {drv[d].current, None}
         \/ n.current = None /\ \E s \in Ends : Finish(drv[d].current, s)
  PROVE  Inv'
<1>0. TypeOK /\ JobInv
  BY DEF Inv
<1>1. /\ jobs' \in [Client -> JobEntry]
      /\ \A c \in Client : StatusKept(c)
      /\ \A e \in Driver : drv'[e].current = drv[e].current \/ drv'[e].current = None
      /\ \A c \in Client : \/ jobs'[c].status = jobs[c].status
                           \/ \A e \in Driver : drv'[e].current # c
  BY <1>0, JobEnded
<1>2. TypeOK'
  BY <1>0, <1>1, ShellUpdate DEF TypeOK
<1>3. \A c \in Client : Local(c)'
  BY <1>1, LocalKept DEF Inv
<1>4. JobInv'
  BY <1>0, <1>1, JobsKept
<1>5. ShellsKept
  BY <1>0, ShellsUpdated
<1>6. \A t \in Thread : CloseInv(t)'
  BY <1>5, CloseKept DEF Inv
<1>7. OwnerInv'
  BY <1>5, OwnersKept, HoldsSame, ClosesSame DEF Inv
<1> QED BY <1>2, <1>3, <1>4, <1>6, <1>7 DEF Inv

\* A step inside close(): the thread keeps its shell.
LEMMA ClosingStep ==
  ASSUME Inv, NEW t \in Thread, thr[t].pc \in Closing, NEW q \in Closing, Go(t, q),
         NEW n \in Shell, drv' = [drv EXCEPT ![thr[t].driver] = n],
         load' = load, sessions' = sessions, jobs' = jobs, told' = told, allow' = allow,
         consent' = consent, running' = running, now' = now,
         n.reader = drv[thr[t].driver].reader, n.current = drv[thr[t].driver].current,
         drv[thr[t].driver].stop => n.stop,
         drv[thr[t].driver].timer = "done" => n.timer = "done",
         q \in {"join_timer", "join_reader"} => n.stop
  PROVE  Inv'
<1>0. TypeOK /\ JobInv /\ CloseInv(t)
  BY DEF Inv
<1> DEFINE d == thr[t].driver
           m == [thr[t] EXCEPT !.pc = q]
<1>1. d \in Driver
  BY <1>0 DEF CloseInv
<1>2. thr[t] \in Control
  BY <1>0 DEF TypeOK
<1>3. /\ m \in Control /\ m.pc = q /\ m.then = thr[t].then /\ m.driver = d /\ m.todo = thr[t].todo
  BY <1>2 DEF Control, Pc
<1>4. thr' = [thr EXCEPT ![t] = m]
  BY DEF Go
<1> HIDE DEF m
<1>5. thr' \in [Thread -> Control] /\ thr'[t] = m /\ \A u \in Thread \ {t} : thr'[u] = thr[u]
  BY <1>0, <1>3, <1>4, ThreadUpdate
<1>6. drv' \in [Driver -> Shell] /\ drv'[d] = n /\ \A e \in Driver \ {d} : drv'[e] = drv[e]
  BY <1>0, <1>1, ShellUpdate
<1>7. TypeOK'
  BY <1>0, <1>5, <1>6 DEF TypeOK
<1>8. \A c \in Client : Local(c)'
  <2>1. SUFFICES ASSUME NEW c \in Client PROVE Local(c)'
    OBVIOUS
  <2>2. CASE c # t
    <3>1. thr'[c] = thr[c] /\ told'[c] = told[c] /\ StatusKept(c)
      BY <1>5, <2>2 DEF Thread, StatusKept
    <3> QED BY <3>1, LocalKept DEF Inv
  <2>3. CASE c = t
    <3>1. Local(c)
      BY DEF Inv
    <3>2. Cleared(c) => Cleared(c)'
      BY ClearedKept
    <3>3. Task(c)' = Task(c) /\ PatternKey(c)' = PatternKey(c)
      BY LoadKept
    <3>4. thr'[c].pc = q /\ thr'[c].then = thr[c].then
      BY <1>3, <1>5, <2>3
    <3> QED BY <2>3, <3>1, <3>2, <3>3, <3>4 DEF Local, Closing, Early, Asking, Going
  <2> QED BY <2>2, <2>3
<1>9. JobInv'
  <2>1. \A e \in Driver : drv'[e].current = drv[e].current
    BY <1>6
  <2>2. \A c \in Client : thr[c].pc \in Handed =>
                            thr'[c].pc \in Handed /\ thr'[c].driver = thr[c].driver
    BY <1>5 DEF Closing, Handed, Thread
  <2> QED BY <1>0, <2>1, <2>2, JobsKept
<1>10. ShellsKept
  BY <1>0, <1>1, ShellsUpdated
<1>11. \A u \in Thread : CloseInv(u)'
  <2>1. CloseInv(t)'
    BY <1>0, <1>1, <1>3, <1>5, <1>6 DEF CloseInv, Closing
  <2>2. ASSUME NEW u \in Thread \ {t} PROVE CloseInv(u)'
    BY <1>5, <1>10, <2>2, CloseKept DEF Inv
  <2> QED BY <2>1, <2>2
<1>12. \A u \in Thread, e \in Driver : Closes(u, e)' <=> Closes(u, e)
  <2>1. \A e \in Driver : Closes(t, e)' <=> Closes(t, e)
    BY <1>3, <1>5 DEF Closes, ClosingBy
  <2>2. \A u \in Thread \ {t} : thr'[u] = thr[u]
    BY <1>5
  <2> QED BY <2>1, <2>2, ClosesSame
<1>13. OwnerInv'
  BY <1>10, <1>12, OwnersKept, HoldsSame DEF Inv
<1> QED BY <1>7, <1>8, <1>9, <1>11, <1>13 DEF Inv

----------------------------------------------------------------------------
(* Shells change hands                                                     *)

\* The thread goes on with the shells ds to close, or at pc.
Takes(n, ds, pc) ==
  \/ ds = {} /\ n.pc = pc /\ n.todo = {}
  \/ /\ ds # {} /\ n.pc = "close" /\ n.then = pc
     /\ n.driver \in ds /\ n.todo = ds \ {n.driver}

LEMMA CloseAllTakes ==
  ASSUME TypeOK, NEW t \in Thread, NEW ds \in SUBSET Driver, NEW pc \in Then, CloseAll(t, ds, pc)
  PROVE  \E n \in Control : thr' = [thr EXCEPT ![t] = n] /\ Takes(n, ds, pc)
<1> DEFINE d == CHOOSE d \in ds : TRUE
<1>1. thr[t] \in Control
  BY DEF TypeOK
<1>2. CASE ds = {}
  <2> DEFINE n == [thr[t] EXCEPT !.pc = pc, !.then = None, !.driver = None, !.todo = {}]
  <2>1. n \in Control /\ n.pc = pc /\ n.todo = {}
    BY <1>1 DEF Control, Then, Pc, Fixed, Handed, Going
  <2>2. thr' = [thr EXCEPT ![t] = n]
    BY <1>2 DEF CloseAll
  <2> QED BY <1>2, <2>1, <2>2 DEF Takes
<1>3. CASE ds # {}
  <2>1. d \in ds
    BY <1>3
  <2> DEFINE n == [thr[t] EXCEPT !.pc = "close", !.then = pc, !.driver = d, !.todo = ds \ {d}]
  <2>2. thr' = [thr EXCEPT ![t] = n]
    BY <1>3 DEF CloseAll
  <2> HIDE DEF d
  <2>3. n \in Control /\ n.pc = "close" /\ n.then = pc /\ n.driver = d /\ n.todo = ds \ {d}
    BY <1>1, <2>1 DEF Control, Pc, Closing
  <2> QED BY <1>3, <2>1, <2>2, <2>3 DEF Takes
<1> QED BY <1>2, <1>3

LEMMA TakesCloses ==
  ASSUME NEW t \in Thread, NEW ds \in SUBSET Driver, NEW pc \in Then, thr' \in [Thread -> Control],
         Takes(thr'[t], ds, pc)
  PROVE  /\ \A d \in Driver : Closes(t, d)' <=> d \in ds
         /\ CloseInv(t)'
<1>1. pc \notin Closing /\ "close" \in Closing /\ "close" \notin {"join_timer", "join_reader"}
      /\ pc \notin {"join_timer", "join_reader"}
  BY DEF Closing, Then
<1>2. \A d \in Driver : Closes(t, d)' <=> d \in ds
  BY <1>1 DEF Closes, ClosingBy, Takes
<1>3. CloseInv(t)'
  BY <1>1 DEF CloseInv, Takes
<1> QED BY <1>2, <1>3

\* A client that takes shells to close: it is cleared if it goes on to a shell.
LEMMA TakesLocal ==
  ASSUME NEW c \in Client, NEW ds \in SUBSET Driver, NEW pc \in {"refused", "lookup", "done"},
         Takes(thr'[c], ds, pc), load' = load, consent' = consent, Local(c),
         thr[c].pc \in Early, told'[c] = told[c], jobs' = jobs,
         pc # "done" => Cleared(c)
  PROVE  Local(c)'
<1>1. Cleared(c) => Cleared(c)'
  BY ClearedKept
<1>2. Task(c)' = Task(c) /\ PatternKey(c)' = PatternKey(c)
  BY LoadKept
<1>3. jobs'[c].status = "none" /\ (jobs[c].status # "none" \/ told[c] \in {"ok", "timeout"} => Cleared(c))
  BY DEF Local
<1>4. CASE thr'[c].pc = pc
  BY <1>1, <1>2, <1>3, <1>4 DEF Local, Closing, Early, Asking, Going
<1>5. CASE thr'[c].pc = "close" /\ thr'[c].then = pc
  BY <1>1, <1>2, <1>3, <1>5 DEF Local, Closing, Early, Asking, Going
<1> QED BY <1>4, <1>5 DEF Takes

\* The shells ds of the sessions of K leave the registry; one of these
\* sessions, k, may be made anew with a shell of N.
Handover(K, ds, k, N) ==
  /\ \A d \in Driver : d \in ds <=> \E j \in K : Holds(j, d)
  /\ sessions' \in [Key -> SessionEntry \cup {None}]
  /\ \A j \in Key \ K, d \in Driver : Holds(j, d)' <=> Holds(j, d)
  /\ \A j \in K, d \in Driver : Holds(j, d)' <=> j = k /\ d \in N
  /\ N # {} => k \in K
  /\ \A d \in N : \A e \in N : d = e
  /\ drv' \in [Driver -> Shell]
  /\ \A d \in N : ~Started(d) /\ Started(d)' /\ drv'[d].current = None
  /\ \A d \in Driver \ N : drv'[d] = drv[d]

LEMMA HandStep ==
  ASSUME Inv, NEW t \in Thread, NEW n \in Control, thr' = [thr EXCEPT ![t] = n],
         thr[t].pc \notin Closing, NEW ds \in SUBSET Driver, NEW pc \in Then, Takes(n, ds, pc),
         NEW K \in SUBSET Key, NEW k, NEW N \in SUBSET Driver, Handover(K, ds, k, N),
         load' = load, jobs' = jobs, told' = told, allow' = allow, consent' = consent,
         running' = running, now' = now,
         t \in Client => thr[t].pc \notin Handed,
         t \in Client => Local(t)'
  PROVE  Inv'
<1>0. TypeOK /\ JobInv /\ OwnerInv
  BY DEF Inv
<1>1. thr' \in [Thread -> Control] /\ thr'[t] = n /\ \A u \in Thread \ {t} : thr'[u] = thr[u]
  BY <1>0, ThreadUpdate
<1>2. TypeOK'
  BY <1>0, <1>1 DEF TypeOK, Handover
<1>3. \A c \in Client : Local(c)'
  <2>1. SUFFICES ASSUME NEW c \in Client, c # t PROVE Local(c)'
    OBVIOUS
  <2>2. thr'[c] = thr[c] /\ told'[c] = told[c] /\ StatusKept(c)
    BY <1>1, <2>1 DEF Thread, StatusKept
  <2> QED BY <2>2, LocalKept DEF Inv
<1>4. JobInv'
  <2>1. \A c \in Client : thr[c].pc \in Handed =>
                            thr'[c].pc \in Handed /\ thr'[c].driver = thr[c].driver
    BY <1>1 DEF Thread
  <2> QED BY <1>0, <2>1, JobsKept DEF Handover
<1>5. \A d \in Driver : Closes(t, d)' <=> \E j \in K : Holds(j, d)
  BY <1>1, TakesCloses DEF Handover
<1>6. \A d \in Driver : ~Closes(t, d)
  BY ClosesFixed DEF Inv
<1>7. \A u \in Thread \ {t}, d \in Driver : Closes(u, d)' <=> Closes(u, d)
  BY <1>1, ClosesSame
<1>8. \A d \in Driver \ N : /\ Started(d)' <=> Started(d)
                            /\ Ending(d) => Ending(d)'
  BY DEF Started, Ending, Handover
<1>9. OwnerInv'
  <2>1. \A d \in N : ~Started(d) /\ Started(d)'
    BY DEF Handover
  <2>2. Moved(K, t, k, N)
    BY <1>5, <1>6, <1>7, <1>8, <2>1 DEF Moved, Handover
  <2> QED BY <1>0, <2>2, OwnersMove
<1>10. \A u \in Thread : CloseInv(u)'
  <2>1. CloseInv(t)'
    BY <1>1, TakesCloses
  <2>2. ASSUME NEW u \in Thread \ {t} PROVE CloseInv(u)'
    <3>1. CloseInv(u) /\ thr'[u] = thr[u]
      BY <1>1 DEF Inv
    <3>2. CASE thr[u].pc \notin Closing
      BY <3>1, <3>2 DEF CloseInv, Closing
    <3>3. CASE thr[u].pc \in Closing
      <4> DEFINE d == thr[u].driver
      <4>1. d \in Driver
        BY <3>1, <3>3 DEF CloseInv
      <4>2. Closes(u, d)
        BY <3>3 DEF Closes, ClosingBy
      <4>3. d \notin N
        BY <1>0, <4>1, <4>2 DEF OwnerInv, Handover
      <4>4. drv'[d] = drv[d]
        BY <4>1, <4>3 DEF Handover
      <4> QED BY <3>1, <3>3, <4>4 DEF CloseInv
    <3> QED BY <3>2, <3>3
  <2> QED BY <2>1, <2>2
<1> QED BY <1>0, <1>2, <1>3, <1>4, <1>9, <1>10 DEF Inv

\* close() returns: the thread goes on with the next shell, or after the last.
LEMMA ClosedStep ==
  ASSUME Inv, NEW t \in Thread, thr[t].pc \in Closing, Closed(t), Ending(thr[t].driver),
         NEW n \in Shell, drv' = [drv EXCEPT ![thr[t].driver] = n],
         load' = load, sessions' = sessions, told' = told, allow' = allow, consent' = consent,
         running' = running, now' = now,
         n.reader = drv[thr[t].driver].reader,
         drv[thr[t].driver].stop => n.stop,
         drv[thr[t].driver].timer = "done" => n.timer = "done",
         \/ jobs' = jobs /\ n.current \in {drv[thr[t].driver].current, None}
         \/ n.current = None /\ \E s \in Ends : Finish(drv[thr[t].driver].current, s)
  PROVE  Inv'
<1>0. TypeOK /\ JobInv /\ OwnerInv /\ CloseInv(t)
  BY DEF Inv
<1> DEFINE d == thr[t].driver
           ds == thr[t].todo
           pc == thr[t].then
<1>1. d \in Driver \ ds /\ pc \in Then
  BY <1>0 DEF CloseInv
<1>2. ds \in SUBSET Driver
  BY <1>0 DEF TypeOK, Control
<1>3. PICK m \in Control : thr' = [thr EXCEPT ![t] = m] /\ Takes(m, ds, pc)
  BY <1>0, <1>1, <1>2, CloseAllTakes DEF Closed
<1>4. thr' \in [Thread -> Control] /\ thr'[t] = m /\ \A u \in Thread \ {t} : thr'[u] = thr[u]
  BY <1>0, <1>3, ThreadUpdate
<1>5. /\ jobs' \in [Client -> JobEntry]
      /\ \A c \in Client : StatusKept(c)
      /\ \A e \in Driver : drv'[e].current = drv[e].current \/ drv'[e].current = None
      /\ \A c \in Client : \/ jobs'[c].status = jobs[c].status
                           \/ \A e \in Driver : drv'[e].current # c
  BY <1>0, <1>1, JobEnded
<1>6. TypeOK'
  BY <1>0, <1>1, <1>4, <1>5, ShellUpdate DEF TypeOK
<1>7. \A c \in Client : Local(c)'
  <2>1. SUFFICES ASSUME NEW c \in Client PROVE Local(c)'
    OBVIOUS
  <2>2. CASE c # t
    <3>1. thr'[c] = thr[c]
      BY <1>4, <2>2 DEF Thread
    <3> QED BY <1>5, <3>1, LocalKept DEF Inv
  <2>3. CASE c = t
    <3>1. Local(c)
      BY DEF Inv
    <3>2. Cleared(c) => Cleared(c)'
      BY ClearedKept
    <3>3. Task(c)' = Task(c) /\ PatternKey(c)' = PatternKey(c)
      BY LoadKept
    <3>4. jobs[c].status = "none" /\ jobs'[c].status = "none"
      BY <1>5, <2>3, <3>1 DEF Local, StatusKept, Early
    <3>5. pc \in {"refused", "lookup", "done"} /\ (pc # "done" => Cleared(c))
      BY <2>3, <3>1 DEF Local
    <3>6. told[c] \in {"ok", "timeout"} => Cleared(c)
      BY <3>1 DEF Local
    <3>7. ~(told[c] = "ok" /\ Task(c).act = "exec")
      BY <3>1, <3>4 DEF Local
    <3> HIDE DEF pc
    <3>8. CASE thr'[c].pc = pc
      BY <3>2, <3>3, <3>4, <3>5, <3>6, <3>7, <3>8 DEF Local, Closing, Early, Asking, Going
    <3>9. CASE thr'[c].pc = "close" /\ thr'[c].then = pc
      BY <3>2, <3>3, <3>4, <3>5, <3>6, <3>7, <3>9 DEF Local, Closing, Early, Asking, Going
    <3> QED BY <1>3, <1>4, <2>3, <3>8, <3>9 DEF Takes
  <2> QED BY <2>2, <2>3
<1>8. JobInv'
  <2>1. \A c \in Client : thr[c].pc \in Handed =>
                            thr'[c].pc \in Handed /\ thr'[c].driver = thr[c].driver
    BY <1>4 DEF Closing, Handed, Thread
  <2> QED BY <1>0, <1>5, <2>1, JobsKept
<1>9. ShellsKept
  BY <1>0, <1>1, ShellsUpdated
<1>10. (\A e \in Driver : Closes(t, e)' <=> e \in ds) /\ CloseInv(t)'
  BY <1>1, <1>2, <1>3, <1>4, TakesCloses
<1>11. \A u \in Thread : CloseInv(u)'
  BY <1>4, <1>9, <1>10, CloseKept DEF Inv
<1>12. OwnerInv'
  <2>1. \A e \in Driver : Closes(t, e)' <=> Closes(t, e) /\ e # d
    BY <1>1, <1>10 DEF Closes, ClosingBy
  <2>2. \A u \in Thread \ {t}, e \in Driver : Closes(u, e)' <=> Closes(u, e)
    BY <1>4, ClosesSame
  <2> QED BY <1>0, <1>1, <1>9, <2>1, <2>2, HoldsSame, OwnersRelease
<1> QED BY <1>0, <1>6, <1>7, <1>8, <1>11, <1>12 DEF Inv

----------------------------------------------------------------------------
(* The tool and its client thread                                          *)

Reports == {"none", "ok", "error", "timeout", "blocked"}

LEMMA GoIs ==
  ASSUME TypeOK, NEW t \in Thread, NEW q \in Pc, Go(t, q)
  PROVE  \E n \in Control :
           /\ thr' = [thr EXCEPT ![t] = n]
           /\ n.pc = q /\ n.then = thr[t].then /\ n.driver = thr[t].driver
           /\ n.todo = thr[t].todo /\ n.ids = thr[t].ids
<1> DEFINE n == [thr[t] EXCEPT !.pc = q]
<1>1. thr[t] \in Control
  BY DEF TypeOK
<1>2. /\ n \in Control /\ n.pc = q /\ n.then = thr[t].then /\ n.driver = thr[t].driver
      /\ n.todo = thr[t].todo /\ n.ids = thr[t].ids
  BY <1>1 DEF Control
<1>3. thr' = [thr EXCEPT ![t] = n]
  BY DEF Go
<1> QED BY <1>2, <1>3

\* What a client must have when it comes to a new place.
Fit(c, n) ==
  /\ n.pc \in Early => jobs[c].status = "none"
  /\ n.pc \in Going \cup {"write", "poll"} \/ told'[c] \in {"ok", "timeout"} => Cleared(c)'
  /\ n.pc \in {"whitelist", "save"} => PatternKey(c) \in consent'
  /\ n.pc = "save" => n.ids \subseteq consent' \cap Pattern
  /\ n.pc = "oneshot" => Task(c).act = "oneshot"
  /\ told'[c] = "ok" /\ Task(c).act = "exec" => jobs[c].status = "Finished"
  /\ n.pc \in {"exec", "wait", "submit", "write"} => n.driver \in Driver

LEMMA ClientMoves ==
  ASSUME Inv, NEW c \in Client, NEW n \in Control, thr' = [thr EXCEPT ![c] = n],
         thr[c].pc \notin Closing, n.pc \in Fixed, n.todo = thr[c].todo,
         thr[c].pc \in Handed => n.pc \in Handed /\ n.driver = thr[c].driver,
         load' = load, drv' = drv, jobs' = jobs, sessions' \in [Key -> SessionEntry \cup {None}],
         \A k \in Key, d \in Driver : Holds(k, d)' <=> Holds(k, d),
         told' \in [Client -> Reports], \A b \in Client \ {c} : told'[b] = told[b],
         allow' \subseteq Pattern, allow' \subseteq consent',
         consent \subseteq consent', running' = running, now' = now,
         Fit(c, n)
  PROVE  Inv'
<1>0. TypeOK /\ Local(c) /\ c \in Thread
  BY DEF Inv, Thread
<1>1. thr'[c] = n
  BY <1>0, ThreadUpdate
<1>2. Cleared(c) => Cleared(c)'
  BY ClearedKept
<1>3. Task(c)' = Task(c) /\ PatternKey(c)' = PatternKey(c)
  BY LoadKept
<1>4. n.pc \notin Closing
  BY DEF Fixed, Closing, Asking, Going, Handed
<1>5. jobs[c].status # "none" => Cleared(c)
  BY <1>0 DEF Local
<1>6. Local(c)'
  <2>1. thr'[c].pc = n.pc /\ thr'[c].ids = n.ids /\ thr'[c].driver = n.driver /\ jobs'[c] = jobs[c]
    BY <1>1
  <2> QED BY <1>2, <1>3, <1>4, <1>5, <2>1 DEF Local, Fit
<1>7. jobs' \in [Client -> JobEntry] /\ running' \in BOOLEAN
  BY <1>0 DEF TypeOK
<1> QED BY <1>0, <1>4, <1>6, <1>7, QuietStep DEF Reports

\* The same for a step that changes no more than the place, and the report.
LEMMA GoStep ==
  ASSUME Inv, NEW c \in Client, NEW q \in Fixed, Go(c, q), thr[c].pc \notin Closing,
         thr[c].pc \in Handed => q \in Handed,
         load' = load, drv' = drv, jobs' = jobs, sessions' = sessions,
         told' \in [Client -> Reports], \A b \in Client \ {c} : told'[b] = told[b],
         allow' = allow, consent \subseteq consent', running' = running, now' = now,
         \A n \in Control : n.pc = q /\ n.driver = thr[c].driver /\ n.ids = thr[c].ids => Fit(c, n)
  PROVE  Inv'
<1>0. TypeOK /\ c \in Thread /\ q \in Pc
  BY DEF Inv, Thread, Pc
<1>1. PICK n \in Control : /\ thr' = [thr EXCEPT ![c] = n]
                           /\ n.pc = q /\ n.driver = thr[c].driver
                           /\ n.todo = thr[c].todo /\ n.ids = thr[c].ids
  BY <1>0, GoIs
<1>2. sessions' \in [Key -> SessionEntry \cup {None}] /\ allow' \subseteq Pattern
  BY <1>0 DEF TypeOK
<1>3. allow' \subseteq consent'
  BY DEF Inv
<1>4. Fit(c, n)
  BY <1>1
<1> QED BY <1>1, <1>2, <1>3, <1>4, HoldsSame, ClientMoves

LEMMA ReportIs ==
  ASSUME TypeOK, NEW c \in Client, NEW s \in Reports, Report(c, s)
  PROVE  /\ Go(c, "done") /\ told' \in [Client -> Reports] /\ told'[c] = s
         /\ \A b \in Client \ {c} : told'[b] = told[b]
  BY DEF Report, TypeOK, Reports

LEMMA ReportStep ==
  ASSUME Inv, NEW c \in Client, NEW s \in Reports, Report(c, s), thr[c].pc \notin Closing,
         load' = load, drv' = drv, jobs' = jobs, sessions' = sessions,
         allow' = allow, consent \subseteq consent', running' = running, now' = now,
         s \in {"ok", "timeout"} => Cleared(c),
         s = "ok" /\ Task(c).act = "exec" => jobs[c].status = "Finished"
  PROVE  Inv'
<1>1. /\ Go(c, "done") /\ told' \in [Client -> Reports] /\ told'[c] = s
      /\ \A b \in Client \ {c} : told'[b] = told[b]
  BY ReportIs DEF Inv
<1>2. "done" \in Fixed /\ "done" \in Handed /\ "done" \notin Early
      /\ "done" \notin Going \cup {"write", "poll"}
  BY DEF Fixed, Handed, Early, Asking, Going, Closing
<1>3. Cleared(c) => Cleared(c)'
  BY ClearedKept
<1>4. \A n \in Control : n.pc = "done" => Fit(c, n)
  BY <1>1, <1>2, <1>3 DEF Fit
<1> QED BY <1>1, <1>2, <1>4, GoStep

\* The values of told are not changed by a step that leaves it alone.
LEMMA ToldSame ==
  ASSUME Inv, told' = told
  PROVE  told' \in [Client -> Reports]
  BY DEF Inv, TypeOK, Reports

Approval(c) == IF Task(c).act = "oneshot" THEN "oneshot" ELSE "create"

LEMMA ApprovalFits ==
  ASSUME Inv, NEW c \in Client, thr[c].pc \in Asking, told' = told, Cleared(c)'
  PROVE  /\ Approval(c) \in Fixed
         /\ \A n \in Control : n.pc = Approval(c) => Fit(c, n)
<1>1. Local(c)
  BY DEF Inv
<1>2. jobs[c].status = "none" /\ ~(told[c] = "ok" /\ Task(c).act = "exec")
  BY <1>1 DEF Local, Early
<1>3. Approval(c) \in {"oneshot", "create"} /\ (Approval(c) = "oneshot" => Task(c).act = "oneshot")
  BY DEF Approval
<1> QED BY <1>2, <1>3 DEF Fit, Fixed, Going

LEMMA CheckApprovalStep ==
  ASSUME Inv, NEW c \in Client, check_approval(c)
  PROVE  Inv'
<1>1. /\ load' = load /\ drv' = drv /\ jobs' = jobs /\ sessions' = sessions /\ told' = told
      /\ allow' = allow /\ consent' = consent /\ running' = running /\ now' = now
      /\ thr[c].pc = "approve"
  BY DEF check_approval, registry, tool
<1>2. Local(c) /\ allow \subseteq consent
  BY DEF Inv
<1>3. thr[c].pc \in Asking /\ thr[c].pc \notin Closing /\ thr[c].pc \notin Handed
  BY <1>1 DEF Asking, Closing, Handed
<1>4. told' \in [Client -> Reports]
  BY <1>1, ToldSame
<1>5. CASE NeedsApproval(c) /\ PatternKey(c) \notin Entries \cup allow
  <2>1. Go(c, "ask") /\ "ask" \in Fixed
    BY <1>5 DEF check_approval, Fixed, Asking
  <2>2. jobs[c].status = "none" /\ ~(told[c] = "ok" /\ Task(c).act = "exec")
    BY <1>2, <1>3 DEF Local, Early
  <2>3. \A n \in Control : n.pc = "ask" => Fit(c, n)
    <3>1. told[c] \in {"ok", "timeout"} => Cleared(c)'
      BY <1>1, <1>2, ClearedKept DEF Local
    <3> QED BY <1>1, <2>2, <3>1 DEF Fit, Going
  <2> QED BY <1>1, <1>3, <1>4, <2>1, <2>3, GoStep
<1>6. CASE ~(NeedsApproval(c) /\ PatternKey(c) \notin Entries \cup allow)
  <2>1. Cleared(c)'
    <3>1. Cleared(c)
      BY <1>2, <1>6, KeyIsQuestion DEF Cleared
    <3> QED BY <1>1, <3>1, ClearedKept
  <2>2. Go(c, Approval(c))
    BY <1>6 DEF check_approval, Approved, Approval
  <2>3. Approval(c) \in Fixed /\ \A n \in Control : n.pc = Approval(c) => Fit(c, n)
    BY <1>1, <1>3, <2>1, ApprovalFits
  <2> QED BY <1>1, <1>3, <1>4, <2>2, <2>3, GoStep
<1> QED BY <1>5, <1>6

LEMMA AskStep ==
  ASSUME Inv, NEW c \in Client, ask_handler(c)
  PROVE  Inv'
<1>1. /\ load' = load /\ drv' = drv /\ jobs' = jobs /\ sessions' = sessions
      /\ allow' = allow /\ running' = running /\ now' = now
      /\ thr[c].pc = "ask"
  BY DEF ask_handler, registry
<1>2. Local(c)
  BY DEF Inv
<1>3. thr[c].pc \in Asking /\ thr[c].pc \notin Closing /\ thr[c].pc \notin Handed
  BY <1>1 DEF Asking, Closing, Handed
<1>4. CASE Report(c, "blocked") /\ UNCHANGED consent
  BY <1>1, <1>3, <1>4, ReportStep DEF Reports
<1>5. CASE Approved(c) /\ consent' = consent \cup {<<c, "once">>} /\ UNCHANGED told
  <2>1. Cleared(c)'
    BY <1>5 DEF Cleared
  <2>2. Go(c, Approval(c))
    BY <1>5 DEF Approved, Approval
  <2>3. Approval(c) \in Fixed /\ \A n \in Control : n.pc = Approval(c) => Fit(c, n)
    BY <1>3, <1>5, <2>1, ApprovalFits
  <2> QED BY <1>1, <1>3, <1>5, <2>2, <2>3, ToldSame, GoStep
<1>6. CASE Go(c, "whitelist") /\ consent' = consent \cup {Question(c)} /\ UNCHANGED told
  <2>1. "whitelist" \in Fixed
    BY DEF Fixed, Asking
  <2>2. jobs[c].status = "none" /\ ~(told[c] = "ok" /\ Task(c).act = "exec")
    BY <1>2, <1>3 DEF Local, Early
  <2>3. \A n \in Control : n.pc = "whitelist" => Fit(c, n)
    <3>1. told[c] \in {"ok", "timeout"} => Cleared(c)'
      BY <1>1, <1>2, <1>6, ClearedKept DEF Local
    <3> QED BY <1>6, <2>2, <3>1, KeyIsQuestion DEF Fit, Going
  <2> QED BY <1>1, <1>3, <1>6, <2>1, <2>3, ToldSame, GoStep
<1> QED BY <1>4, <1>5, <1>6 DEF ask_handler

LEMMA ApprovePermanentStep ==
  ASSUME Inv, NEW c \in Client, approve_permanent(c)
  PROVE  Inv'
<1>0. TypeOK /\ Local(c) /\ allow \subseteq consent /\ c \in Thread
  BY DEF Inv, Thread
<1>1. /\ load' = load /\ drv' = drv /\ jobs' = jobs /\ sessions' = sessions /\ told' = told
      /\ consent' = consent /\ running' = running /\ now' = now
      /\ thr[c].pc \in {"whitelist", "save"}
  BY DEF approve_permanent, registry
<1>2. thr[c].pc \in Asking /\ thr[c].pc \notin Closing /\ thr[c].pc \notin Handed
  BY <1>1 DEF Asking, Closing, Handed
<1>3. told' \in [Client -> Reports] /\ sessions' \in [Key -> SessionEntry \cup {None}]
  BY <1>0, <1>1, ToldSame DEF TypeOK
<1>4. jobs[c].status = "none" /\ ~(told[c] = "ok" /\ Task(c).act = "exec") /\ PatternKey(c) \in consent
  BY <1>0, <1>1, <1>2 DEF Local, Early
<1>5. Cleared(c)'
  <2>1. Cleared(c)
    BY <1>4, KeyIsQuestion DEF Cleared
  <2> QED BY <1>1, <2>1, ClearedKept
<1>6. thr[c] \in Control
  BY <1>0 DEF TypeOK
<1>7. CASE thr[c].pc = "whitelist"
  <2> DEFINE n == [thr[c] EXCEPT !.pc = "save", !.ids = allow]
  <2>1. n \in Control /\ n.pc = "save" /\ n.ids = allow /\ n.todo = thr[c].todo
    BY <1>0, <1>6 DEF Control, TypeOK, Pc, Fixed, Asking
  <2>2. thr' = [thr EXCEPT ![c] = n] /\ allow' = allow
    BY <1>7 DEF approve_permanent
  <2> HIDE DEF n
  <2>3. Fit(c, n)
    BY <1>0, <1>1, <1>4, <1>5, <2>1 DEF Fit, TypeOK
  <2>4. n.pc \in Fixed /\ allow' \subseteq Pattern
    BY <1>0, <2>1, <2>2 DEF Fixed, Asking, TypeOK
  <2> QED BY <1>0, <1>1, <1>2, <1>3, <2>1, <2>2, <2>3, <2>4, HoldsSame, ClientMoves
<1>8. CASE thr[c].pc = "save"
  <2> DEFINE n == [thr[c] EXCEPT !.pc = Approval(c), !.ids = {}]
  <2>1. Approval(c) \in Fixed /\ \A m \in Control : m.pc = Approval(c) => Fit(c, m)
    BY <1>1, <1>2, <1>5, ApprovalFits
  <2>2. n \in Control /\ n.pc = Approval(c) /\ n.todo = thr[c].todo
    BY <1>6, <2>1 DEF Control, Pc
  <2>3. thr' = [thr EXCEPT ![c] = n] /\ allow' = thr[c].ids \cup {PatternKey(c)}
    BY <1>8 DEF approve_permanent, Approval
  <2> HIDE DEF n
  <2>4. allow' \subseteq consent'
    BY <1>0, <1>1, <1>4, <1>8, <2>3 DEF Local
  <2>5. allow' \subseteq Pattern
    <3>1. /\ Task(c).mode \in {"off", "smart", "manual"} /\ Task(c).cmd \in Cmd
          /\ Task(c).key \in Key
      BY <1>0, TaskTyped DEF TaskType
    <3>2. PatternKey(c) \in Pattern
      BY <3>1 DEF PatternKey, Pattern, User
    <3> QED BY <1>0, <1>8, <2>3, <3>2 DEF Local
  <2> QED BY <1>1, <1>2, <1>3, <2>1, <2>2, <2>3, <2>4, <2>5, HoldsSame, ClientMoves
<1> QED BY <1>1, <1>7, <1>8

LEMMA OneshotStep ==
  ASSUME Inv, NEW c \in Client, run_oneshot_direct(c)
  PROVE  Inv'
<1>1. /\ load' = load /\ drv' = drv /\ jobs' = jobs /\ sessions' = sessions
      /\ allow' = allow /\ consent' = consent /\ running' = running /\ now' = now
      /\ thr[c].pc = "oneshot"
  BY DEF run_oneshot_direct, registry
<1>2. Local(c)
  BY DEF Inv
<1>3. Cleared(c) /\ Task(c).act = "oneshot" /\ thr[c].pc \notin Closing
  BY <1>1, <1>2 DEF Local, Going, Closing
<1>4. PICK s \in {"ok", "error", "timeout"} : Report(c, s)
  BY DEF run_oneshot_direct, posix_exec
<1> QED BY <1>1, <1>3, <1>4, ReportStep DEF Reports

LEMMA RefusedStep ==
  ASSUME Inv, NEW c \in Client, Refused(c)
  PROVE  Inv'
<1>1. /\ load' = load /\ drv' = drv /\ jobs' = jobs /\ sessions' = sessions
      /\ allow' = allow /\ consent' = consent /\ running' = running /\ now' = now
      /\ thr[c].pc = "refused" /\ Report(c, "error")
  BY DEF Refused, registry
<1>2. thr[c].pc \notin Closing
  BY <1>1 DEF Closing
<1> QED BY <1>1, <1>2, ReportStep DEF Reports

\* A client that is on its way and stays on it.
LEMMA GoingFits ==
  ASSUME Inv, NEW c \in Client, thr[c].pc \in Going, load' = load, consent' = consent,
         told' = told, NEW q \in Going \cup {"refused"}, q # "oneshot",
         q \in {"exec", "wait", "submit"} => thr[c].driver \in Driver
  PROVE  \A n \in Control : n.pc = q /\ n.driver = thr[c].driver => Fit(c, n)
<1>1. Local(c)
  BY DEF Inv
<1>2. jobs[c].status = "none" /\ ~(told[c] = "ok" /\ Task(c).act = "exec") /\ Cleared(c)
  BY <1>1 DEF Local, Early
<1>3. Cleared(c)'
  BY <1>2, ClearedKept
<1> QED BY <1>2, <1>3 DEF Fit, Going

LEMMA GetOrCreateStep ==
  ASSUME Inv, NEW c \in Client, get_or_create(c)
  PROVE  Inv'
<1>1. /\ load' = load /\ drv' = drv /\ jobs' = jobs /\ sessions' = sessions /\ told' = told
      /\ allow' = allow /\ consent' = consent /\ running' = running /\ now' = now
      /\ thr[c].pc = "create"
  BY DEF get_or_create, registry, tool
<1>2. thr[c].pc \in Going /\ thr[c].pc \notin Closing /\ thr[c].pc \notin Handed
  BY <1>1 DEF Going, Closing, Handed
<1>3. PICK q \in {"lookup", "recreate"} : Go(c, q)
  BY DEF get_or_create
<1>4. q \in Going /\ q \in Fixed /\ q # "oneshot" /\ q \notin {"exec", "wait", "submit"}
  BY DEF Going, Fixed
<1>5. \A n \in Control : n.pc = q /\ n.driver = thr[c].driver => Fit(c, n)
  BY <1>1, <1>2, <1>4, GoingFits
<1> QED BY <1>1, <1>2, <1>3, <1>4, <1>5, ToldSame, GoStep

LEMMA ExecWaitStep ==
  ASSUME Inv, NEW c \in Client, ExecWait(c)
  PROVE  Inv'
<1>1. /\ load' = load /\ drv' = drv /\ jobs' = jobs /\ sessions' = sessions /\ told' = told
      /\ allow' = allow /\ consent' = consent /\ running' = running /\ now' = now
      /\ thr[c].pc \in {"exec", "wait"}
  BY DEF ExecWait, registry, tool
<1>2. thr[c].pc \in Going /\ thr[c].pc \notin Closing /\ thr[c].pc \notin Handed
  BY <1>1 DEF Going, Closing, Handed
<1>3. PICK q \in {"refused", "wait", "submit"} : Go(c, q)
  BY DEF ExecWait
<1>4. q \in Going \cup {"refused"} /\ q \in Fixed /\ q # "oneshot"
  BY DEF Going, Fixed, Handed
<1>5. thr[c].driver \in Driver
  BY <1>1 DEF Inv, Local
<1>6. \A n \in Control : n.pc = q /\ n.driver = thr[c].driver => Fit(c, n)
  BY <1>1, <1>2, <1>4, <1>5, GoingFits
<1> QED BY <1>1, <1>2, <1>3, <1>4, <1>6, ToldSame, GoStep

LEMMA PollStep ==
  ASSUME Inv, NEW c \in Client, am_poll_until_done(c)
  PROVE  Inv'
<1>1. /\ load' = load /\ drv' = drv /\ jobs' = jobs /\ sessions' = sessions
      /\ allow' = allow /\ consent' = consent /\ running' = running /\ now' = now
      /\ thr[c].pc = "poll"
  BY DEF am_poll_until_done, registry
<1>2. Cleared(c) /\ thr[c].pc \notin Closing
  BY <1>1 DEF Inv, Local, Closing
<1>3. PICK s \in {"ok", "error", "timeout"} : Report(c, s) /\ (s = "ok" => jobs[c].status = "Finished")
  BY DEF am_poll_until_done, run_pty_foreground, unknown_job
<1> QED BY <1>1, <1>2, <1>3, ReportStep DEF Reports

LEMMA LookupStep ==
  ASSUME Inv, NEW c \in Client, exec_lookup(c)
  PROVE  Inv'
<1> DEFINE k == Task(c).key
<1>0. TypeOK /\ Local(c) /\ allow \subseteq consent /\ c \in Thread
  BY DEF Inv, Thread
<1>1. /\ load' = load /\ drv' = drv /\ jobs' = jobs /\ told' = told
      /\ allow' = allow /\ consent' = consent /\ running' = running /\ now' = now
      /\ thr[c].pc = "lookup"
  BY DEF exec_lookup, tool
<1>2. thr[c].pc \in Going /\ thr[c].pc \notin Closing /\ thr[c].pc \notin Handed
  BY <1>1 DEF Going, Closing, Handed
<1>3. told' \in [Client -> Reports]
  BY <1>1, ToldSame
<1>4. k \in Key
  BY <1>0, TaskTyped DEF TaskType
<1> HIDE DEF k
<1>5. CASE sessions[k] = None \/ ~drv[sessions[k].driver].alive
  <2>1. Go(c, "refused") /\ sessions' = sessions
    BY <1>5 DEF exec_lookup, k
  <2>2. "refused" \in Fixed /\ "refused" # "oneshot"
    BY DEF Fixed, Handed
  <2>3. \A n \in Control : n.pc = "refused" /\ n.driver = thr[c].driver => Fit(c, n)
    BY <1>1, <1>2, <2>2, GoingFits
  <2> QED BY <1>1, <1>2, <1>3, <2>1, <2>2, <2>3, GoStep
<1>6. CASE sessions[k] # None /\ drv[sessions[k].driver].alive
  <2>1. sessions[k] \in SessionEntry /\ thr[c] \in Control
    BY <1>0, <1>4, <1>6 DEF TypeOK
  <2> DEFINE n == [thr[c] EXCEPT !.pc = "exec", !.driver = sessions[k].driver]
             e == [sessions[k] EXCEPT !.last_used = now]
  <2>2. n \in Control /\ n.pc = "exec" /\ n.driver \in Driver /\ n.todo = thr[c].todo
    BY <2>1 DEF Control, Pc, Fixed, Going, SessionEntry
  <2>3. e \in SessionEntry /\ e.driver = sessions[k].driver
    BY <1>0, <2>1 DEF SessionEntry, TypeOK
  <2>4. thr' = [thr EXCEPT ![c] = n] /\ sessions' = [sessions EXCEPT ![k] = e]
    BY <1>6 DEF exec_lookup, k
  <2> HIDE DEF n, e
  <2>5. e # None
    BY <2>3, TerminalAssumption
  <2>6. sessions' \in [Key -> SessionEntry \cup {None}] /\ \A j \in Key, d \in Driver : Holds(j, d)' <=> Holds(j, d)
    BY <1>0, <1>4, <1>6, <2>3, <2>4, <2>5 DEF TypeOK, Holds
  <2>7. Fit(c, n)
    <3>1. jobs[c].status = "none" /\ ~(told[c] = "ok" /\ Task(c).act = "exec") /\ Cleared(c)
      BY <1>0, <1>2 DEF Local, Early
    <3>2. Cleared(c)'
      BY <1>1, <3>1, ClearedKept
    <3> QED BY <1>1, <2>2, <3>1, <3>2 DEF Fit
  <2>8. n.pc \in Fixed /\ allow' \subseteq Pattern
    BY <1>0, <1>1, <2>2 DEF Fixed, Going, TypeOK
  <2> QED BY <1>0, <1>1, <1>2, <1>3, <2>2, <2>4, <2>6, <2>7, <2>8, ClientMoves
<1> QED BY <1>5, <1>6

LEMMA Extract ==
  ASSUME TypeOK, NEW K \in SUBSET Listed, sessions' = extract_locked(K)
  PROVE  /\ K \in SUBSET Key /\ DriversOf(K) \in SUBSET Driver
         /\ sessions' \in [Key -> SessionEntry \cup {None}]
         /\ \A d \in Driver : d \in DriversOf(K) <=> \E j \in K : Holds(j, d)
         /\ \A j \in Key \ K, d \in Driver : Holds(j, d)' <=> Holds(j, d)
         /\ \A j \in K, d \in Driver : ~Holds(j, d)'
<1>1. K \in SUBSET Key /\ \A j \in K : sessions[j] \in SessionEntry /\ sessions[j] # None
  BY DEF Listed, TypeOK
<1>2. DriversOf(K) \in SUBSET Driver
  BY <1>1 DEF DriversOf, SessionEntry
<1>3. sessions' \in [Key -> SessionEntry \cup {None}]
  BY DEF extract_locked, TypeOK
<1>4. \A d \in Driver : d \in DriversOf(K) <=> \E j \in K : Holds(j, d)
  BY <1>1 DEF DriversOf, Holds
<1>5. \A j \in Key \ K, d \in Driver : Holds(j, d)' <=> Holds(j, d)
  BY DEF Holds, extract_locked
<1>6. \A j \in K, d \in Driver : ~Holds(j, d)'
  BY <1>1 DEF Holds, extract_locked
<1> QED BY <1>1, <1>2, <1>3, <1>4, <1>5, <1>6

\* Sessions are taken out of the registry, and their shells are to be closed.
LEMMA ExtractStep ==
  ASSUME Inv, NEW t \in Thread, NEW n \in Control, thr' = [thr EXCEPT ![t] = n],
         thr[t].pc \notin Closing, NEW K \in SUBSET Listed, NEW pc \in Then,
         Takes(n, DriversOf(K), pc), sessions' = extract_locked(K), drv' = drv,
         load' = load, jobs' = jobs, told' = told, allow' = allow, consent' = consent,
         running' = running, now' = now,
         t \in Client => thr[t].pc \notin Handed,
         t \in Client => Local(t)'
  PROVE  Inv'
<1>0. TypeOK
  BY DEF Inv
<1>1. /\ K \in SUBSET Key /\ DriversOf(K) \in SUBSET Driver
      /\ sessions' \in [Key -> SessionEntry \cup {None}]
      /\ \A d \in Driver : d \in DriversOf(K) <=> \E j \in K : Holds(j, d)
      /\ \A j \in Key \ K, d \in Driver : Holds(j, d)' <=> Holds(j, d)
      /\ \A j \in K, d \in Driver : ~Holds(j, d)'
  BY <1>0, Extract
<1> DEFINE N == {}
<1>2. /\ \A j \in K, d \in Driver : Holds(j, d)' <=> j = None /\ d \in N
      /\ N # {} => None \in K
      /\ \A d \in N : \A e \in N : d = e
      /\ drv' \in [Driver -> Shell]
      /\ \A d \in N : ~Started(d) /\ Started(d)' /\ drv'[d].current = None
      /\ \A d \in Driver \ N : drv'[d] = drv[d]
      /\ N \in SUBSET Driver
  BY <1>0, <1>1 DEF TypeOK
<1> HIDE DEF N
<1>3. Handover(K, DriversOf(K), None, N)
  BY <1>1, <1>2 DEF Handover
<1> QED BY <1>1, <1>2, <1>3, HandStep

LEMMA KillStep ==
  ASSUME Inv, NEW c \in Client, kill_session(c)
  PROVE  Inv'
<1> DEFINE K == {j \in Listed : j = Task(c).key
                   \/ (Task(c).act = "kill_all" /\ UserOf[j] = UserOf[Task(c).key])}
<1>0. TypeOK /\ Local(c) /\ c \in Thread
  BY DEF Inv, Thread
<1>1. /\ load' = load /\ drv' = drv /\ jobs' = jobs /\ told' = told
      /\ allow' = allow /\ consent' = consent /\ running' = running /\ now' = now
      /\ thr[c].pc \in {"kill", "kill_all"}
      /\ sessions' = extract_locked(K) /\ CloseAll(c, DriversOf(K), "done")
  BY DEF kill_session, tool
<1>2. K \in SUBSET Listed
  OBVIOUS
<1> HIDE DEF K
<1>3. DriversOf(K) \in SUBSET Driver /\ "done" \in Then
  BY <1>0, <1>1, <1>2, Extract DEF Then
<1>4. PICK n \in Control : thr' = [thr EXCEPT ![c] = n] /\ Takes(n, DriversOf(K), "done")
  BY <1>0, <1>1, <1>3, CloseAllTakes
<1>5. thr'[c] = n
  BY <1>0, <1>4, ThreadUpdate
<1>6. thr[c].pc \in Early /\ thr[c].pc \notin Handed /\ thr[c].pc \notin Closing
  BY <1>1 DEF Early, Handed, Closing
<1>7. Local(c)'
  BY <1>0, <1>1, <1>3, <1>4, <1>5, <1>6, TakesLocal
<1> QED BY <1>0, <1>1, <1>2, <1>3, <1>4, <1>6, <1>7, ExtractStep

LEMMA SpawnIs ==
  /\ spawn_shell \in Shell /\ spawn_shell.reader = "run" /\ spawn_shell.current = None
<1>1. <<>> \in Seq(Client)
  BY EmptySeq
<1> QED BY <1>1 DEF spawn_shell, NoDriver, Shell

LEMMA RecreateStep ==
  ASSUME Inv, NEW c \in Client, Recreate(c)
  PROVE  Inv'
<1> DEFINE k == Task(c).key
           K == {j \in {k} : sessions[j] # None}
           old == IF sessions[k] = None THEN {} ELSE {sessions[k].driver}
           without == [sessions EXCEPT ![k] = None]
<1>0. TypeOK /\ Local(c) /\ c \in Thread
  BY DEF Inv, Thread
<1>1. /\ load' = load /\ jobs' = jobs /\ told' = told
      /\ allow' = allow /\ consent' = consent /\ running' = running /\ now' = now
      /\ thr[c].pc = "recreate"
  BY DEF Recreate, tool
<1>2. /\ thr[c].pc \in Going /\ thr[c].pc \in Early
      /\ thr[c].pc \notin Closing /\ thr[c].pc \notin Handed
  BY <1>1 DEF Going, Closing, Handed, Early
<1>3. k \in Key
  BY <1>0, TaskTyped DEF TaskType
<1>4. Cleared(c)
  BY <1>0, <1>2 DEF Local
<1> HIDE DEF k
<1>5. K \in SUBSET Listed /\ old = DriversOf(K) /\ without = extract_locked(K)
  <2>1. K \in SUBSET Listed
    BY <1>3 DEF Listed
  <2>2. old = DriversOf(K)
    BY DEF DriversOf
  <2>3. without = extract_locked(K)
    BY <1>0, <1>3 DEF extract_locked, TypeOK
  <2> QED BY <2>1, <2>2, <2>3
<1>6. old \in SUBSET Driver
  BY <1>0, <1>3 DEF TypeOK, SessionEntry
<1> HIDE DEF K, without
<1>7. CASE Go(c, "lookup") /\ UNCHANGED <<sessions, drv>>
  <2>1. "lookup" \in Going /\ "lookup" \in Fixed
    BY DEF Going, Fixed
  <2>2. \A n \in Control : n.pc = "lookup" /\ n.driver = thr[c].driver => Fit(c, n)
    BY <1>1, <1>2, <2>1, GoingFits
  <2> QED BY <1>1, <1>2, <1>7, <2>1, <2>2, ToldSame, GoStep
<1>8. CASE sessions' = without /\ CloseAll(c, old, "refused") /\ UNCHANGED drv
  <2>1. "refused" \in Then
    BY DEF Then
  <2>2. PICK n \in Control : thr' = [thr EXCEPT ![c] = n] /\ Takes(n, old, "refused")
    BY <1>0, <1>6, <1>8, <2>1, CloseAllTakes
  <2>3. thr'[c] = n
    BY <1>0, <2>2, ThreadUpdate
  <2>4. Local(c)'
    BY <1>0, <1>1, <1>2, <1>4, <1>6, <2>2, <2>3, TakesLocal
  <2> QED BY <1>0, <1>1, <1>2, <1>5, <1>8, <2>1, <2>2, <2>4, ExtractStep
<1>9. ASSUME NEW d \in Unborn, drv' = [drv EXCEPT ![d] = spawn_shell],
             sessions' = [sessions EXCEPT ![k] = [driver |-> d, status |-> "Active", last_used |-> now]],
             CloseAll(c, old, "lookup")
      PROVE  Inv'
  <2>1. "lookup" \in Then
    BY DEF Then
  <2>2. PICK n \in Control : thr' = [thr EXCEPT ![c] = n] /\ Takes(n, old, "lookup")
    BY <1>0, <1>6, <1>9, <2>1, CloseAllTakes
  <2>3. thr'[c] = n
    BY <1>0, <2>2, ThreadUpdate
  <2>4. Local(c)'
    BY <1>0, <1>1, <1>2, <1>4, <1>6, <2>2, <2>3, TakesLocal
  <2> DEFINE e == [driver |-> d, status |-> "Active", last_used |-> now]
             N == {d}
             J == {k}
  <2>5. e \in SessionEntry /\ e.driver = d /\ d \in Driver /\ ~Started(d)
    BY <1>0, <1>9 DEF SessionEntry, TypeOK, Unborn, Started
  <2>6. sessions' = [sessions EXCEPT ![k] = e]
    BY <1>9
  <2> HIDE DEF e
  <2>7. e # None
    BY <2>5, TerminalAssumption
  <2>8. sessions' \in [Key -> SessionEntry \cup {None}]
    BY <1>0, <2>5, <2>6 DEF TypeOK
  <2>9. \A j \in Key \ J, f \in Driver : Holds(j, f)' <=> Holds(j, f)
    BY <1>0, <1>3, <2>6 DEF TypeOK, Holds
  <2>10. \A j \in J, f \in Driver : Holds(j, f)' <=> j = k /\ f \in N
    BY <1>0, <1>3, <2>5, <2>6, <2>7 DEF TypeOK, Holds
  <2>11. \A f \in Driver : f \in old <=> \E j \in J : Holds(j, f)
    BY <1>3 DEF Holds
  <2>12. drv' \in [Driver -> Shell] /\ drv'[d] = spawn_shell /\ \A f \in Driver \ {d} : drv'[f] = drv[f]
    BY <1>0, <1>9, <2>5, SpawnIs, ShellUpdate
  <2>13. \A f \in N : ~Started(f) /\ Started(f)' /\ drv'[f].current = None
    BY <2>5, <2>12, SpawnIs DEF Started
  <2>14. /\ N \in SUBSET Driver /\ J \in SUBSET Key /\ k \in J
         /\ \A f \in N : \A g \in N : f = g
         /\ \A f \in Driver \ N : drv'[f] = drv[f]
    BY <1>3, <2>5, <2>12
  <2> HIDE DEF N, J, old
  <2>15. Handover(J, old, k, N)
    BY <2>8, <2>9, <2>10, <2>11, <2>12, <2>13, <2>14 DEF Handover
  <2> QED BY <1>0, <1>1, <1>2, <1>6, <2>1, <2>2, <2>4, <2>14, <2>15, HandStep
<1>10. CASE ~Healthy(k) /\ ~Full(k) /\ Unborn # {}
            /\ LET d == CHOOSE d \in Unborn : TRUE IN
                 /\ drv' = [drv EXCEPT ![d] = spawn_shell]
                 /\ sessions' = [sessions EXCEPT ![k] = [driver |-> d, status |-> "Active",
                                                         last_used |-> now]]
                 /\ CloseAll(c, old, "lookup")
  <2> DEFINE d == CHOOSE d \in Unborn : TRUE
  <2>1. d \in Unborn
    BY <1>10
  <2>2. /\ drv' = [drv EXCEPT ![d] = spawn_shell]
        /\ sessions' = [sessions EXCEPT ![k] = [driver |-> d, status |-> "Active", last_used |-> now]]
        /\ CloseAll(c, old, "lookup")
    BY <1>10
  <2> HIDE DEF d
  <2> QED BY <1>9, <2>1, <2>2
<1> QED BY <1>7, <1>8, <1>10 DEF Recreate, RefusedCloses, k, without

LEMMA SubmitStep ==
  ASSUME Inv, NEW c \in Client, ExecSubmit(c)
  PROVE  Inv'
<1> DEFINE d == thr[c].driver
<1>0. TypeOK /\ Local(c) /\ JobInv /\ c \in Thread
  BY DEF Inv, Thread
<1>1. /\ load' = load /\ sessions' = sessions /\ told' = told /\ allow' = allow
      /\ consent' = consent /\ running' = running /\ now' = now
      /\ thr[c].pc = "submit" /\ Go(c, "write")
  BY DEF ExecSubmit, registry, tool
<1>2. d \in Driver /\ jobs[c].status = "none" /\ Cleared(c) /\ ~(told[c] = "ok" /\ Task(c).act = "exec")
  BY <1>0, <1>1 DEF Local, Going, Early
<1>3. drv[d] \in Shell /\ jobs[c] \in JobEntry
  BY <1>0, <1>2 DEF TypeOK
<1> DEFINE x == IF drv[d].timer = "asleep" THEN "test" ELSE drv[d].timer
           m == [drv[d] EXCEPT !.current = c, !.timer = x]
           j == [jobs[c] EXCEPT !.status = "Running", !.stored = TRUE]
<1>4. x \in {"off", "test", "dozing", "asleep", "armed", "done"} /\ (drv[d].timer = "done" => x = "done")
  BY <1>3 DEF Shell
<1>5. drv' = [drv EXCEPT ![d] = m] /\ jobs' = [jobs EXCEPT ![c] = j]
  BY <1>0, <1>2 DEF ExecSubmit, TypeOK
<1> HIDE DEF x
<1>6. m \in Shell /\ m.current = c /\ m.timer = x /\ m.reader = drv[d].reader /\ m.stop = drv[d].stop
  BY <1>3, <1>4 DEF Shell
<1>7. j \in JobEntry /\ j.status = "Running"
  BY <1>3 DEF JobEntry
<1> HIDE DEF m, j
<1>8. drv' \in [Driver -> Shell] /\ drv'[d] = m /\ \A e \in Driver \ {d} : drv'[e] = drv[e]
  BY <1>0, <1>2, <1>5, <1>6, ShellUpdate
<1>9. jobs' \in [Client -> JobEntry] /\ jobs'[c] = j /\ \A b \in Client \ {c} : jobs'[b] = jobs[b]
  BY <1>0, <1>5, <1>7 DEF TypeOK
<1>10. PICK n \in Control : /\ thr' = [thr EXCEPT ![c] = n]
                            /\ n.pc = "write" /\ n.then = thr[c].then /\ n.driver = d
                            /\ n.todo = thr[c].todo /\ n.ids = thr[c].ids
  BY <1>0, <1>1, GoIs DEF Pc, Fixed, Handed
<1>11. thr' \in [Thread -> Control] /\ thr'[c] = n /\ \A u \in Thread \ {c} : thr'[u] = thr[u]
  BY <1>0, <1>10, ThreadUpdate
<1>12. TypeOK'
  BY <1>0, <1>1, <1>8, <1>9, <1>11 DEF TypeOK
<1>13. \A b \in Client : Local(b)'
  <2>1. Local(c)'
    <3>1. Cleared(c)'
      BY <1>1, <1>2, ClearedKept
    <3>2. Task(c)' = Task(c) /\ PatternKey(c)' = PatternKey(c)
      BY <1>1, LoadKept
    <3>3. thr'[c].pc = "write" /\ thr'[c].driver = d /\ jobs'[c].status = "Running" /\ told'[c] = told[c]
      BY <1>1, <1>7, <1>9, <1>10, <1>11
    <3> QED BY <1>2, <3>1, <3>2, <3>3 DEF Local, Early, Asking, Going, Closing
  <2>2. ASSUME NEW b \in Client, b # c PROVE Local(b)'
    <3>1. thr'[b] = thr[b] /\ told'[b] = told[b] /\ StatusKept(b)
      BY <1>1, <1>9, <1>11, <2>2 DEF StatusKept, Thread
    <3> QED BY <1>1, <3>1, LocalKept DEF Inv
  <2> QED BY <2>1, <2>2
<1>14. JobInv'
  <2>1. \A e \in Driver : drv[e].current # c
    BY <1>0, <1>1 DEF JobInv, Handed
  <2>2. SUFFICES ASSUME NEW e \in Driver, NEW b \in Client, drv'[e].current = b
                 PROVE  jobs'[b].status = "Running" /\ thr'[b].driver = e /\ thr'[b].pc \in Handed
    BY DEF JobInv
  <2>3. CASE e = d
    BY <1>6, <1>7, <1>8, <1>9, <1>10, <1>11, <2>2, <2>3 DEF Handed
  <2>4. CASE e # d
    <3>1. drv[e].current = b /\ b # c
      BY <1>8, <2>1, <2>2, <2>4
    <3> QED BY <1>0, <1>9, <1>11, <3>1 DEF JobInv, Thread
  <2> QED BY <2>3, <2>4
<1>15. ShellsKept
  BY <1>0, <1>2, <1>4, <1>5, <1>6, ShellsUpdated
<1>16. c \in Thread /\ thr[c].pc \notin Closing /\ n.pc \notin Closing
  BY <1>0, <1>1, <1>10 DEF Closing
<1>17. \A u \in Thread : CloseInv(u)'
  <2>1. CloseInv(c)'
    <3>1. CloseInv(c)
      BY <1>0 DEF Inv
    <3> QED BY <1>10, <1>11, <1>16, <3>1 DEF CloseInv, Closing
  <2>2. ASSUME NEW u \in Thread \ {c} PROVE CloseInv(u)'
    BY <1>11, <1>15, <2>2, CloseKept DEF Inv
  <2> QED BY <2>1, <2>2
<1>18. \A u \in Thread, e \in Driver : Closes(u, e)' <=> Closes(u, e)
  <2>1. \A e \in Driver : Closes(c, e)' <=> Closes(c, e)
    BY <1>10, <1>11, <1>16 DEF Closes, ClosingBy
  <2> QED BY <1>11, <2>1, ClosesSame
<1>19. OwnerInv'
  BY <1>1, <1>15, <1>18, OwnersKept, HoldsSame DEF Inv
<1> QED BY <1>0, <1>1, <1>12, <1>13, <1>14, <1>17, <1>19 DEF Inv

LEMMA WriteStep ==
  ASSUME Inv, NEW c \in Client, write_to_shell(c)
  PROVE  Inv'
<1> DEFINE d == thr[c].driver
<1>0. TypeOK /\ Local(c) /\ JobInv /\ c \in Thread
  BY DEF Inv, Thread
<1>1. /\ load' = load /\ sessions' = sessions /\ told' = told /\ allow' = allow
      /\ consent' = consent /\ running' = running /\ now' = now
      /\ thr[c].pc = "write"
  BY DEF write_to_shell, registry, tool
<1>2. d \in Driver /\ Cleared(c)
  BY <1>0, <1>1 DEF Local
<1>3. drv[d] \in Shell
  BY <1>0, <1>2 DEF TypeOK
<1>4. \E m \in Shell, q \in {"poll", "refused"} :
        /\ Go(c, q) /\ drv' = [drv EXCEPT ![d] = m]
        /\ m.reader = drv[d].reader /\ m.stop = drv[d].stop /\ m.timer = drv[d].timer
        /\ \/ jobs' = jobs /\ m.current \in {drv[d].current, None}
           \/ m.current = None /\ \E s \in Ends : Finish(drv[d].current, s)
  <2>1. CASE /\ drv' = [drv EXCEPT ![d].input = IF drv[d].shell = "up" THEN Append(@, c) ELSE @]
             /\ Go(c, "poll") /\ UNCHANGED jobs
    <3> DEFINE i == IF drv[d].shell = "up" THEN Append(drv[d].input, c) ELSE drv[d].input
               m == [drv[d] EXCEPT !.input = i]
    <3>1. drv[d].input \in Seq(Client)
      BY <1>3 DEF Shell
    <3>2. i \in Seq(Client)
      BY <3>1, AppendProperties
    <3>3. drv' = [drv EXCEPT ![d] = m]
      BY <2>1
    <3> HIDE DEF i
    <3>4. /\ m \in Shell /\ m.reader = drv[d].reader /\ m.stop = drv[d].stop
          /\ m.timer = drv[d].timer /\ m.current = drv[d].current
      BY <1>3, <3>2 DEF Shell
    <3> QED BY <2>1, <3>3, <3>4
  <2>2. CASE /\ drv' = [drv EXCEPT ![d] = [@ EXCEPT !.current = IF drv[d].current = c THEN None
                                                               ELSE drv[d].current,
                                                    !.alive = FALSE]]
             /\ Finish(IF drv[d].current = c THEN c ELSE None, "Error")
             /\ Go(c, "refused")
    <3> DEFINE x == IF drv[d].current = c THEN None ELSE drv[d].current
               m == [drv[d] EXCEPT !.current = x, !.alive = FALSE]
    <3>1. x \in Client \cup {None}
      BY <1>3 DEF Shell
    <3>2. drv' = [drv EXCEPT ![d] = m]
      BY <2>2
    <3>3. \/ jobs' = jobs /\ x \in {drv[d].current, None}
          \/ x = None /\ \E s \in Ends : Finish(drv[d].current, s)
      <4>1. CASE drv[d].current = c
        BY <2>2, <4>1 DEF Ends
      <4>2. CASE drv[d].current # c
        BY <2>2, <4>2 DEF Finish
      <4> QED BY <4>1, <4>2
    <3> HIDE DEF x
    <3>4. /\ m \in Shell /\ m.reader = drv[d].reader /\ m.stop = drv[d].stop
          /\ m.timer = drv[d].timer /\ m.current = x
      BY <1>3, <3>1 DEF Shell
    <3> QED BY <2>2, <3>2, <3>3, <3>4
  <2> QED BY <2>1, <2>2 DEF write_to_shell
<1>5. PICK m \in Shell, q \in {"poll", "refused"} :
        /\ Go(c, q) /\ drv' = [drv EXCEPT ![d] = m]
        /\ m.reader = drv[d].reader /\ m.stop = drv[d].stop /\ m.timer = drv[d].timer
        /\ \/ jobs' = jobs /\ m.current \in {drv[d].current, None}
           \/ m.current = None /\ \E s \in Ends : Finish(drv[d].current, s)
  BY <1>4
<1>6. /\ jobs' \in [Client -> JobEntry]
      /\ \A b \in Client : StatusKept(b)
      /\ \A e \in Driver : drv'[e].current = drv[e].current \/ drv'[e].current = None
      /\ \A b \in Client : \/ jobs'[b].status = jobs[b].status
                           \/ \A e \in Driver : drv'[e].current # b
  BY <1>0, <1>2, <1>5, JobEnded
<1>7. PICK n \in Control : /\ thr' = [thr EXCEPT ![c] = n]
                           /\ n.pc = q /\ n.then = thr[c].then /\ n.driver = d
                           /\ n.todo = thr[c].todo /\ n.ids = thr[c].ids
  BY <1>0, <1>5, GoIs DEF Pc, Fixed, Handed
<1>8. thr' \in [Thread -> Control] /\ thr'[c] = n /\ \A u \in Thread \ {c} : thr'[u] = thr[u]
  BY <1>0, <1>7, ThreadUpdate
<1>9. TypeOK'
  BY <1>0, <1>1, <1>2, <1>5, <1>6, <1>8, ShellUpdate DEF TypeOK
<1>10. \A b \in Client : Local(b)'
  <2>1. Local(c)'
    <3>1. Cleared(c)'
      BY <1>1, <1>2, ClearedKept
    <3>2. Task(c)' = Task(c) /\ PatternKey(c)' = PatternKey(c)
      BY <1>1, LoadKept
    <3>3. thr'[c].pc = q /\ thr'[c].driver = d /\ told'[c] = told[c]
      BY <1>1, <1>7, <1>8
    <3>4. told[c] = "ok" /\ Task(c).act = "exec" => jobs'[c].status = "Finished"
      BY <1>0, <1>6 DEF Local, StatusKept
    <3> QED BY <3>1, <3>2, <3>3, <3>4 DEF Local, Early, Asking, Going, Closing
  <2>2. ASSUME NEW b \in Client, b # c PROVE Local(b)'
    <3>1. thr'[b] = thr[b] /\ told'[b] = told[b] /\ StatusKept(b)
      BY <1>1, <1>6, <1>8, <2>2 DEF Thread
    <3> QED BY <1>1, <3>1, LocalKept DEF Inv
  <2> QED BY <2>1, <2>2
<1>11. JobInv'
  <2>1. \A b \in Client : thr[b].pc \in Handed =>
                            thr'[b].pc \in Handed /\ thr'[b].driver = thr[b].driver
    BY <1>7, <1>8 DEF Handed, Thread
  <2> QED BY <1>0, <1>6, <2>1, JobsKept
<1>12. ShellsKept
  BY <1>0, <1>2, <1>5, ShellsUpdated
<1>13. thr[c].pc \notin Closing /\ n.pc \notin Closing
  BY <1>1, <1>7 DEF Closing
<1>14. \A u \in Thread : CloseInv(u)'
  <2>1. CloseInv(c)'
    <3>1. CloseInv(c)
      BY <1>0 DEF Inv
    <3> QED BY <1>7, <1>8, <1>13, <3>1 DEF CloseInv, Closing
  <2>2. ASSUME NEW u \in Thread \ {c} PROVE CloseInv(u)'
    BY <1>8, <1>12, <2>2, CloseKept DEF Inv
  <2> QED BY <2>1, <2>2
<1>15. \A u \in Thread, e \in Driver : Closes(u, e)' <=> Closes(u, e)
  <2>1. \A e \in Driver : Closes(c, e)' <=> Closes(c, e)
    BY <1>7, <1>8, <1>13 DEF Closes, ClosingBy
  <2> QED BY <1>8, <2>1, ClosesSame
<1>16. OwnerInv'
  BY <1>1, <1>12, <1>15, OwnersKept, HoldsSame DEF Inv
<1> QED BY <1>0, <1>1, <1>9, <1>10, <1>11, <1>14, <1>16 DEF Inv

LEMMA ClientSteps ==
  ASSUME Inv, NEW c \in Client, ClientStep(c)
  PROVE  Inv'
  BY CheckApprovalStep, AskStep, ApprovePermanentStep, OneshotStep, GetOrCreateStep, RecreateStep,
     LookupStep, RefusedStep, KillStep, ExecWaitStep, SubmitStep, WriteStep, PollStep DEF ClientStep

----------------------------------------------------------------------------
(* The watchdog and the main thread                                        *)

LEMMA Servants ==
  /\ "watchdog" \in Thread /\ "watchdog" \notin Client
  /\ "main" \in Thread /\ "main" \notin Client
  BY TerminalAssumption DEF Thread

\* A step of one of them that leaves the shells and the owners alone.
LEMMA ServantStep ==
  ASSUME Inv, NEW t \in Thread, t \notin Client, NEW n \in Control, thr' = [thr EXCEPT ![t] = n],
         load' = load, drv' = drv, sessions' \in [Key -> SessionEntry \cup {None}],
         \A k \in Key, d \in Driver : Holds(k, d)' <=> Holds(k, d),
         jobs' \in [Client -> JobEntry], \A c \in Client : jobs'[c].status = jobs[c].status,
         told' = told, allow' = allow, consent' = consent, running' \in BOOLEAN, now' = now,
         thr[t].pc \notin Closing, n.pc \notin Closing, n.todo = thr[t].todo
  PROVE  Inv'
<1>1. /\ told' \in [Client -> {"none", "ok", "error", "timeout", "blocked"}]
      /\ allow' \subseteq Pattern /\ allow' \subseteq consent'
  BY DEF Inv, TypeOK
<1> QED BY <1>1, QuietStep

LEMMA ScanStep ==
  ASSUME Inv, DetectScan \/ PruneClock \/ WatchdogExit \/ Stop \/ StopJoin
  PROVE  Inv'
<1>0. TypeOK /\ "watchdog" \in Thread /\ "main" \in Thread
  BY Servants DEF Inv
<1>1. thr["watchdog"] \in Control /\ thr["main"] \in Control /\ now \in Nat
  BY <1>0 DEF TypeOK
<1>2. /\ load' = load /\ drv' = drv /\ sessions' = sessions /\ jobs' = jobs /\ told' = told
      /\ allow' = allow /\ consent' = consent /\ now' = now
  BY DEF DetectScan, PruneClock, WatchdogExit, Stop, StopJoin, registry, tool
<1>3. running' \in BOOLEAN
  BY <1>0 DEF DetectScan, PruneClock, WatchdogExit, Stop, StopJoin, registry, TypeOK
<1>4. \E t \in {"watchdog", "main"}, n \in Control :
        /\ thr' = [thr EXCEPT ![t] = n]
        /\ thr[t].pc \notin Closing /\ n.pc \notin Closing /\ n.todo = thr[t].todo
  <2>1. CASE DetectScan
    <3> DEFINE I == {k \in Listed : Dead(k)}
               n == [thr["watchdog"] EXCEPT !.pc = "mark", !.ids = I]
    <3>1. I \in SUBSET (Key \cup Pattern)
      BY DEF Listed
    <3>2. thr' = [thr EXCEPT !["watchdog"] = n] /\ thr["watchdog"].pc = "sleep"
      BY <2>1 DEF DetectScan
    <3> HIDE DEF I
    <3>3. n \in Control /\ n.pc = "mark" /\ n.todo = thr["watchdog"].todo
      BY <1>1, <3>1 DEF Control, Pc, Fixed
    <3> QED BY <3>2, <3>3 DEF Closing
  <2>2. CASE PruneClock
    <3> DEFINE n == [thr["watchdog"] EXCEPT !.pc = "pruning", !.at = now]
    <3>1. thr' = [thr EXCEPT !["watchdog"] = n] /\ thr["watchdog"].pc = "prune"
      BY <2>2 DEF PruneClock
    <3>2. n \in Control /\ n.pc = "pruning" /\ n.todo = thr["watchdog"].todo
      BY <1>1 DEF Control, Pc, Fixed
    <3> QED BY <3>1, <3>2 DEF Closing
  <2>3. CASE WatchdogExit
    <3>1. Go("watchdog", "done") /\ thr["watchdog"].pc = "sleep" /\ "done" \in Pc
      BY <2>3 DEF WatchdogExit, Pc, Fixed, Handed
    <3> QED BY <1>0, <3>1, GoIs DEF Closing
  <2>4. CASE Stop
    <3>1. Go("main", "join") /\ thr["main"].pc = "serve" /\ "join" \in Pc
      BY <2>4 DEF Stop, Pc, Fixed
    <3> QED BY <1>0, <3>1, GoIs DEF Closing
  <2>5. CASE StopJoin
    <3> DEFINE n == [thr["main"] EXCEPT !.pc = "teardown", !.ids = Listed]
    <3>1. Listed \in SUBSET (Key \cup Pattern)
      BY DEF Listed
    <3>2. thr' = [thr EXCEPT !["main"] = n] /\ thr["main"].pc = "join"
      BY <2>5 DEF StopJoin
    <3>3. n \in Control /\ n.pc = "teardown" /\ n.todo = thr["main"].todo
      BY <1>1, <3>1 DEF Control, Pc, Fixed
    <3> QED BY <3>2, <3>3 DEF Closing
  <2> QED BY <2>1, <2>2, <2>3, <2>4, <2>5
<1>5. /\ sessions' \in [Key -> SessionEntry \cup {None}] /\ jobs' \in [Client -> JobEntry]
      /\ \A c \in Client : jobs'[c].status = jobs[c].status
  BY <1>0, <1>2 DEF TypeOK
<1>6. \A t \in {"watchdog", "main"} : t \in Thread /\ t \notin Client
  BY Servants
<1> QED BY <1>2, <1>3, <1>4, <1>5, <1>6, HoldsSame, ServantStep

LEMMA MarkStep ==
  ASSUME Inv, DetectMark
  PROVE  Inv'
<1> DEFINE n == [thr["watchdog"] EXCEPT !.pc = "evict", !.ids = {}, !.at = now]
           ids == thr["watchdog"].ids \cap Listed
<1>0. TypeOK /\ "watchdog" \in Thread /\ "watchdog" \notin Client
  BY Servants DEF Inv
<1>1. thr["watchdog"] \in Control /\ now \in Nat /\ running \in BOOLEAN
  BY <1>0 DEF TypeOK
<1>2. /\ load' = load /\ drv' = drv /\ jobs' = jobs /\ told' = told
      /\ allow' = allow /\ consent' = consent /\ running' = running /\ now' = now
      /\ thr' = [thr EXCEPT !["watchdog"] = n] /\ thr["watchdog"].pc = "mark"
  BY DEF DetectMark, tool
<1>3. n \in Control /\ n.pc = "evict" /\ n.todo = thr["watchdog"].todo
  BY <1>1 DEF Control, Pc, Fixed
<1>4. sessions' = [k \in Key |-> IF k \in ids THEN [sessions[k] EXCEPT !.status = "Dead"] ELSE sessions[k]]
  BY DEF DetectMark
<1> HIDE DEF n
<1>5. \A k \in Key : \/ sessions'[k] = sessions[k]
                     \/ /\ sessions[k] # None /\ sessions'[k] # None
                        /\ sessions'[k] \in SessionEntry /\ sessions'[k].driver = sessions[k].driver
  <2>1. ASSUME NEW k \in Key, k \in ids
        PROVE  /\ sessions[k] # None /\ sessions'[k] # None
               /\ sessions'[k] \in SessionEntry /\ sessions'[k].driver = sessions[k].driver
    <3>1. sessions[k] \in SessionEntry /\ sessions[k] # None
      BY <1>0, <2>1 DEF TypeOK, Listed
    <3>2. sessions'[k] = [sessions[k] EXCEPT !.status = "Dead"]
      BY <1>4, <2>1
    <3>3. sessions'[k] \in SessionEntry /\ sessions'[k].driver = sessions[k].driver
      BY <3>1, <3>2 DEF SessionEntry
    <3> QED BY <3>1, <3>3, TerminalAssumption
  <2> QED BY <1>4, <2>1
<1>6. sessions' \in [Key -> SessionEntry \cup {None}]
  <2>1. \A k \in Key : sessions'[k] \in SessionEntry \cup {None}
    BY <1>0, <1>5 DEF TypeOK
  <2> QED BY <1>4, <2>1
<1>7. \A k \in Key, d \in Driver : Holds(k, d)' <=> Holds(k, d)
  BY <1>5 DEF Holds
<1>8. thr["watchdog"].pc \notin Closing /\ n.pc \notin Closing /\ jobs' \in [Client -> JobEntry]
      /\ running' \in BOOLEAN /\ \A c \in Client : jobs'[c].status = jobs[c].status
  BY <1>0, <1>1, <1>2, <1>3 DEF Closing, TypeOK
<1> QED BY <1>0, <1>2, <1>3, <1>6, <1>7, <1>8, ServantStep

LEMMA PruneStep ==
  ASSUME Inv, prune
  PROVE  Inv'
<1> DEFINE n == [thr["watchdog"] EXCEPT !.pc = "sleep", !.at = 0]
           old == {c \in Client : /\ jobs[c].stored /\ jobs[c].status # "Running"
                                  /\ Sub(thr["watchdog"].at, jobs[c].finished_at) > Retention}
<1>0. TypeOK /\ "watchdog" \in Thread /\ "watchdog" \notin Client
  BY Servants DEF Inv
<1>1. thr["watchdog"] \in Control
  BY <1>0 DEF TypeOK
<1>2. /\ load' = load /\ drv' = drv /\ sessions' = sessions /\ told' = told
      /\ allow' = allow /\ consent' = consent /\ running' = running /\ now' = now
      /\ thr' = [thr EXCEPT !["watchdog"] = n] /\ thr["watchdog"].pc = "pruning"
  BY DEF prune, tool, registry
<1>3. n \in Control /\ n.pc = "sleep" /\ n.todo = thr["watchdog"].todo
  BY <1>1 DEF Control, Pc, Fixed
<1>4. jobs' = [c \in Client |-> IF c \in old THEN [jobs[c] EXCEPT !.stored = FALSE] ELSE jobs[c]]
  BY DEF prune
<1> HIDE DEF n, old
<1>5. ASSUME NEW c \in Client PROVE jobs'[c] \in JobEntry /\ jobs'[c].status = jobs[c].status
  <2>1. jobs[c] \in JobEntry
    BY <1>0 DEF TypeOK
  <2>2. CASE c \in old
    <3>1. jobs'[c] = [jobs[c] EXCEPT !.stored = FALSE]
      BY <1>4, <2>2
    <3> QED BY <2>1, <3>1 DEF JobEntry
  <2>3. CASE c \notin old
    BY <1>4, <2>1, <2>3
  <2> QED BY <2>2, <2>3
<1>6. jobs' \in [Client -> JobEntry] /\ \A c \in Client : jobs'[c].status = jobs[c].status
  BY <1>4, <1>5
<1>7. /\ thr["watchdog"].pc \notin Closing /\ n.pc \notin Closing /\ running' \in BOOLEAN
      /\ sessions' \in [Key -> SessionEntry \cup {None}]
  BY <1>0, <1>2, <1>3 DEF Closing, TypeOK
<1> QED BY <1>0, <1>2, <1>3, <1>6, <1>7, HoldsSame, ServantStep

LEMMA EvictStep ==
  ASSUME Inv, evict_dead_and_idle
  PROVE  Inv'
<1> DEFINE K == {k \in Listed : sessions[k].status # "Active" \/ Idle(k)}
           t == "watchdog"
<1>0. TypeOK /\ t \in Thread /\ t \notin Client
  BY Servants DEF Inv
<1>1. /\ load' = load /\ drv' = drv /\ jobs' = jobs /\ told' = told
      /\ allow' = allow /\ consent' = consent /\ running' = running /\ now' = now
      /\ thr[t].pc = "evict"
      /\ sessions' = extract_locked(K) /\ CloseAll(t, DriversOf(K), "prune")
  BY DEF evict_dead_and_idle, tool
<1>2. K \in SUBSET Listed
  OBVIOUS
<1> HIDE DEF K, t
<1>3. DriversOf(K) \in SUBSET Driver /\ "prune" \in Then /\ thr[t].pc \notin Closing
  BY <1>0, <1>1, <1>2, Extract DEF Then, Closing
<1>4. PICK n \in Control : thr' = [thr EXCEPT ![t] = n] /\ Takes(n, DriversOf(K), "prune")
  BY <1>0, <1>1, <1>3, CloseAllTakes
<1> QED BY <1>0, <1>1, <1>2, <1>3, <1>4, ExtractStep

LEMMA TeardownStep ==
  ASSUME Inv, kill_session_by_id
  PROVE  Inv'
<1> DEFINE t == "main"
           ids == thr["main"].ids
<1>0. TypeOK /\ t \in Thread /\ t \notin Client /\ CloseInv(t)
  BY Servants DEF Inv
<1>1. /\ load' = load /\ drv' = drv /\ jobs' = jobs /\ told' = told
      /\ allow' = allow /\ consent' = consent /\ running' = running /\ now' = now
      /\ thr[t].pc = "teardown"
  BY DEF kill_session_by_id, tool
<1>2. thr[t] \in Control /\ running' \in BOOLEAN /\ jobs' \in [Client -> JobEntry]
      /\ \A c \in Client : jobs'[c].status = jobs[c].status
  BY <1>0, <1>1 DEF TypeOK
<1>3. thr[t].pc \notin Closing /\ thr[t].todo = {}
  BY <1>0, <1>1 DEF Closing, CloseInv
<1>4. CASE Go("main", "done") /\ UNCHANGED sessions
  <2>1. PICK n \in Control : thr' = [thr EXCEPT ![t] = n] /\ n.pc = "done" /\ n.todo = thr[t].todo
    BY <1>0, <1>4, GoIs DEF Pc, Fixed, Handed
  <2>2. sessions' \in [Key -> SessionEntry \cup {None}] /\ n.pc \notin Closing
    BY <1>0, <1>4, <2>1 DEF TypeOK, Closing
  <2> QED BY <1>0, <1>1, <1>2, <1>3, <1>4, <2>1, <2>2, HoldsSame, ServantStep
<1>5. ASSUME NEW k \in ids, sessions' = extract_locked({k}), k \notin Listed,
             thr' = [thr EXCEPT !["main"].ids = ids \ {k}]
      PROVE  Inv'
  <2> DEFINE n == [thr[t] EXCEPT !.ids = ids \ {k}]
  <2>1. thr' = [thr EXCEPT ![t] = n]
    BY <1>5
  <2>2. n \in Control /\ n.pc = "teardown" /\ n.todo = thr[t].todo
    BY <1>1, <1>2 DEF Control
  <2> HIDE DEF n
  <2>3. sessions' = sessions
    BY <1>0, <1>5 DEF extract_locked, TypeOK, Listed
  <2>4. sessions' \in [Key -> SessionEntry \cup {None}] /\ n.pc \notin Closing
    BY <1>0, <2>2, <2>3 DEF TypeOK, Closing
  <2> QED BY <1>0, <1>1, <1>2, <1>3, <2>1, <2>2, <2>3, <2>4, HoldsSame, ServantStep
<1>6. ASSUME NEW k \in ids, sessions' = extract_locked({k}), k \in Listed,
             thr' = [thr EXCEPT !["main"] = [@ EXCEPT !.pc = "close", !.then = "teardown",
                                                      !.driver = sessions[k].driver, !.ids = ids \ {k}]]
      PROVE  Inv'
  <2> DEFINE d == sessions[k].driver
             n == [thr[t] EXCEPT !.pc = "close", !.then = "teardown", !.driver = d, !.ids = ids \ {k}]
  <2>1. thr' = [thr EXCEPT ![t] = n]
    BY <1>6
  <2>2. d \in Driver /\ DriversOf({k}) = {d}
    BY <1>0, <1>6 DEF DriversOf, TypeOK, Listed, SessionEntry
  <2> HIDE DEF d
  <2>3. /\ n \in Control /\ n.pc = "close" /\ n.then = "teardown" /\ n.driver = d /\ n.todo = {}
    BY <1>2, <1>3, <2>2 DEF Control, Pc, Closing, Then
  <2> HIDE DEF n
  <2>4. Takes(n, DriversOf({k}), "teardown") /\ "teardown" \in Then /\ {k} \in SUBSET Listed
    BY <1>6, <2>2, <2>3 DEF Takes, Then
  <2> QED BY <1>0, <1>1, <1>3, <1>6, <2>1, <2>3, <2>4, ExtractStep
<1> QED BY <1>4, <1>5, <1>6 DEF kill_session_by_id

LEMMA ServantSteps ==
  ASSUME Inv, WatchdogStep \/ Stop \/ StopJoin \/ kill_session_by_id
  PROVE  Inv'
  BY ScanStep, MarkStep, PruneStep, EvictStep, TeardownStep DEF WatchdogStep

----------------------------------------------------------------------------
(* The threads of a shell                                                  *)

TimerState == {"off", "test", "dozing", "asleep", "armed", "done"}

LEMMA EndedIs ==
  ASSUME NEW r \in Shell
  PROVE  /\ Ended(r) \in Shell /\ Ended(r).current = None /\ Ended(r).reader = r.reader
         /\ Ended(r).stop = r.stop /\ Ended(r).alive = r.alive /\ Ended(r).armed = r.armed
         /\ r.timer = "done" => Ended(r).timer = "done"
         /\ r.timer # "asleep" => Ended(r).timer = r.timer
<1> DEFINE x == IF r.timer = "asleep" THEN "test" ELSE r.timer
           n == [r EXCEPT !.current = None, !.timer = x]
<1>1. x \in TimerState /\ (r.timer # "asleep" => x = r.timer)
  BY DEF Shell, TimerState
<1>2. Ended(r) = n
  BY DEF Ended
<1> HIDE DEF x
<1>3. /\ n \in Shell /\ n.current = None /\ n.reader = r.reader /\ n.timer = x
      /\ n.stop = r.stop /\ n.alive = r.alive /\ n.armed = r.armed
  BY <1>1 DEF Shell, TimerState
<1> QED BY <1>1, <1>2, <1>3

LEMMA OnEndStep ==
  ASSUME Inv, NEW d \in Driver, on_end(d)
  PROVE  Inv'
<1> DEFINE j == Head(drv[d].input)
           rest == [drv[d] EXCEPT !.input = Tail(@)]
           mine == drv[d].current = j
           n == IF mine THEN Ended(rest) ELSE rest
<1>0. TypeOK
  BY DEF Inv
<1>1. drv[d] \in Shell /\ drv[d].input \in Seq(Client) /\ drv[d].input # <<>>
  BY <1>0 DEF on_end, TypeOK, Shell
<1>2. Tail(drv[d].input) \in Seq(Client)
  BY <1>1, HeadTailProperties
<1>3. /\ rest \in Shell /\ rest.current = drv[d].current /\ rest.reader = drv[d].reader
      /\ rest.stop = drv[d].stop /\ rest.timer = drv[d].timer
  BY <1>1, <1>2 DEF Shell
<1>4. /\ drv' = [drv EXCEPT ![d] = n]
      /\ \E s \in {"Finished", "Timeout"} : Finish(IF mine THEN j ELSE None, s)
  BY DEF on_end
<1>5. /\ load' = load /\ sessions' = sessions /\ thr' = thr /\ told' = told /\ allow' = allow
      /\ consent' = consent /\ running' = running /\ now' = now
  BY DEF on_end, registry, tool
<1> HIDE DEF rest, j
<1>6. /\ n \in Shell /\ n.reader = drv[d].reader /\ n.stop = drv[d].stop
      /\ drv[d].timer = "done" => n.timer = "done"
  BY <1>3, EndedIs
<1>7. \/ jobs' = jobs /\ n.current \in {drv[d].current, None}
      \/ n.current = None /\ \E s \in Ends : Finish(drv[d].current, s)
  <2>1. CASE mine
    <3>1. n.current = None
      BY <1>3, <2>1, EndedIs
    <3>2. \E s \in Ends : Finish(drv[d].current, s)
      BY <1>4, <2>1 DEF Ends
    <3> QED BY <3>1, <3>2
  <2>2. CASE ~mine
    <3>1. n.current = drv[d].current
      BY <1>3, <2>2
    <3>2. jobs' = jobs
      BY <1>4, <2>2 DEF Finish
    <3> QED BY <3>1, <3>2
  <2> QED BY <2>1, <2>2
<1> HIDE DEF n
<1> QED BY <1>4, <1>5, <1>6, <1>7, ShellStep

LEMMA ShellThreadStep ==
  ASSUME Inv, NEW d \in Driver,
         ShellExit(d) \/ ReaderHangup(d) \/ ReaderFinalize(d) \/ TimerTest(d) \/ TimerSleep(d)
  PROVE  Inv'
<1>0. TypeOK
  BY DEF Inv
<1>1. drv[d] \in Shell
  BY <1>0 DEF TypeOK
<1>2. /\ load' = load /\ sessions' = sessions /\ thr' = thr /\ told' = told /\ allow' = allow
      /\ consent' = consent /\ running' = running /\ now' = now
  BY DEF ShellExit, ReaderHangup, ReaderFinalize, TimerTest, TimerSleep, registry, tool
<1>3. CASE ShellExit(d)
  <2> DEFINE n == [drv[d] EXCEPT !.shell = "dead", !.input = <<>>]
  <2>1. drv' = [drv EXCEPT ![d] = n] /\ jobs' = jobs
    BY <1>3 DEF ShellExit
  <2>2. /\ n \in Shell /\ n.current = drv[d].current /\ n.reader = drv[d].reader
        /\ n.stop = drv[d].stop /\ n.timer = drv[d].timer
    BY <1>1, EmptySeq DEF Shell
  <2> HIDE DEF n
  <2> QED BY <1>2, <2>1, <2>2, ShellStep
<1>4. CASE ReaderHangup(d)
  <2> DEFINE n == [drv[d] EXCEPT !.reader = "finalize", !.alive = FALSE]
  <2>1. drv' = [drv EXCEPT ![d] = n] /\ jobs' = jobs /\ drv[d].reader = "run"
    BY <1>4 DEF ReaderHangup
  <2>2. /\ n \in Shell /\ n.current = drv[d].current /\ n.reader = "finalize"
        /\ n.stop = drv[d].stop /\ n.timer = drv[d].timer
    BY <1>1 DEF Shell
  <2> HIDE DEF n
  <2> QED BY <1>2, <2>1, <2>2, ShellStep
<1>5. CASE ReaderFinalize(d)
  <2> DEFINE n == [drv[d] EXCEPT !.current = None, !.reader = "done"]
  <2>1. drv' = [drv EXCEPT ![d] = n] /\ Finish(drv[d].current, "Error") /\ drv[d].reader = "finalize"
    BY <1>5 DEF ReaderFinalize
  <2>2. /\ n \in Shell /\ n.current = None /\ n.reader = "done"
        /\ n.stop = drv[d].stop /\ n.timer = drv[d].timer
    BY <1>1 DEF Shell
  <2> HIDE DEF n
  <2>3. \E s \in Ends : Finish(drv[d].current, s)
    BY <2>1 DEF Ends
  <2> QED BY <1>2, <2>1, <2>2, <2>3, ShellStep
<1>6. CASE TimerTest(d)
  <2> DEFINE x == IF drv[d].stop THEN "done" ELSE IF HasDeadline(d) THEN "armed" ELSE "dozing"
             y == IF HasDeadline(d) /\ ~drv[d].stop THEN drv[d].current ELSE None
             n == [drv[d] EXCEPT !.timer = x, !.armed = y]
  <2>1. drv' = [drv EXCEPT ![d] = n] /\ jobs' = jobs /\ drv[d].timer = "test"
    BY <1>6 DEF TimerTest
  <2>2. x \in {"done", "armed", "dozing"} /\ y \in Client \cup {None}
    BY <1>1 DEF Shell
  <2> HIDE DEF x, y
  <2>3. /\ n \in Shell /\ n.current = drv[d].current /\ n.reader = drv[d].reader
        /\ n.stop = drv[d].stop
    BY <1>1, <2>2 DEF Shell
  <2> HIDE DEF n
  <2> QED BY <1>2, <2>1, <2>3, ShellStep
<1>7. CASE TimerSleep(d)
  <2> DEFINE n == [drv[d] EXCEPT !.timer = "asleep"]
  <2>1. drv' = [drv EXCEPT ![d] = n] /\ jobs' = jobs /\ drv[d].timer = "dozing"
    BY <1>7 DEF TimerSleep
  <2>2. /\ n \in Shell /\ n.current = drv[d].current /\ n.reader = drv[d].reader
        /\ n.stop = drv[d].stop
    BY <1>1 DEF Shell
  <2> HIDE DEF n
  <2> QED BY <1>2, <2>1, <2>2, ShellStep
<1> QED BY <1>3, <1>4, <1>5, <1>6, <1>7

LEMMA FireStep ==
  ASSUME Inv, NEW d \in Driver, TimerFire(d)
  PROVE  Inv'
<1>0. TypeOK
  BY DEF Inv
<1>1. drv[d] \in Shell /\ drv[d].timer = "armed"
  BY <1>0 DEF TypeOK, TimerFire
<1>2. /\ load' = load /\ sessions' = sessions /\ thr' = thr /\ told' = told /\ allow' = allow
      /\ consent' = consent /\ running' = running /\ now' = now
  BY DEF TimerFire, registry, tool
<1>3. CASE drv[d].stop
  <2> DEFINE n == [drv[d] EXCEPT !.timer = "done"]
  <2>1. drv' = [drv EXCEPT ![d] = n] /\ jobs' = jobs
    BY <1>3 DEF TimerFire
  <2>2. /\ n \in Shell /\ n.current = drv[d].current /\ n.reader = drv[d].reader
        /\ n.stop = drv[d].stop
    BY <1>1 DEF Shell
  <2> HIDE DEF n
  <2> QED BY <1>1, <1>2, <2>1, <2>2, ShellStep
<1>4. CASE ~drv[d].stop
  <2> DEFINE mine == drv[d].current = drv[d].armed
             r == Ended(drv[d])
             a == [r EXCEPT !.shell = "dead", !.input = <<>>]
             b == IF mine THEN a ELSE drv[d]
             n == [b EXCEPT !.timer = "test", !.armed = None]
  <2>1. drv' = [drv EXCEPT ![d] = n] /\ Finish(IF mine THEN drv[d].armed ELSE None, "Timeout")
    BY <1>4 DEF TimerFire
  <2>2. a \in Shell /\ a.current = None /\ a.reader = drv[d].reader /\ a.stop = drv[d].stop
    <3>1. r \in Shell /\ r.current = None /\ r.reader = drv[d].reader /\ r.stop = drv[d].stop
      BY <1>1, EndedIs
    <3> HIDE DEF r
    <3> QED BY <3>1, EmptySeq DEF Shell
  <2> HIDE DEF a
  <2>3. /\ b \in Shell /\ b.reader = drv[d].reader /\ b.stop = drv[d].stop
        /\ b.current = IF mine THEN None ELSE drv[d].current
    BY <1>1, <2>2
  <2> HIDE DEF b
  <2>4. n \in Shell /\ n.current = b.current /\ n.reader = drv[d].reader /\ n.stop = drv[d].stop
    BY <2>3 DEF Shell
  <2> HIDE DEF n
  <2>5. \/ jobs' = jobs /\ n.current \in {drv[d].current, None}
        \/ n.current = None /\ \E s \in Ends : Finish(drv[d].current, s)
    <3>1. CASE mine
      <4>1. \E s \in Ends : Finish(drv[d].current, s)
        BY <2>1, <3>1 DEF Ends
      <4> QED BY <2>3, <2>4, <3>1, <4>1
    <3>2. CASE ~mine
      <4>1. jobs' = jobs
        BY <2>1, <3>2 DEF Finish
      <4> QED BY <2>3, <2>4, <3>2, <4>1
    <3> QED BY <3>1, <3>2
  <2> QED BY <1>1, <1>2, <2>1, <2>4, <2>5, ShellStep
<1> QED BY <1>3, <1>4

----------------------------------------------------------------------------
(* close()                                                                 *)

LEMMA CloseStepInv ==
  ASSUME Inv, NEW t \in Thread, CloseStep(t)
  PROVE  Inv'
<1> DEFINE d == thr[t].driver
<1>0. TypeOK /\ CloseInv(t)
  BY DEF Inv
<1>1. /\ load' = load /\ sessions' = sessions /\ told' = told /\ allow' = allow
      /\ consent' = consent /\ running' = running /\ now' = now
  BY DEF CloseStep, CloseBegin, CloseStop, CloseJoinTimer, CloseJoinReader, CloseDead, registry, tool
<1>2. thr[t].pc \in Closing
  BY DEF CloseStep, CloseBegin, CloseStop, CloseJoinTimer, CloseJoinReader, CloseDead, Closing
<1>3. d \in Driver
  BY <1>0, <1>2 DEF CloseInv
<1>4. drv[d] \in Shell
  BY <1>0, <1>3 DEF TypeOK
<1> DEFINE x == IF drv[d].timer = "asleep" THEN "test" ELSE drv[d].timer
<1>5. x \in TimerState /\ (drv[d].timer = "done" => x = "done")
  BY <1>4 DEF Shell, TimerState
<1>6. CASE CloseBegin(t)
  <2> DEFINE n == [drv[d] EXCEPT !.alive = FALSE]
  <2>1. drv' = [drv EXCEPT ![d] = n] /\ jobs' = jobs
    BY <1>6 DEF CloseBegin
  <2>2. PICK q \in {"stop", "dead_reader"} : Go(t, q)
    BY <1>6 DEF CloseBegin
  <2>3. /\ n \in Shell /\ n.current = drv[d].current /\ n.reader = drv[d].reader
        /\ n.stop = drv[d].stop /\ n.timer = drv[d].timer
    BY <1>4 DEF Shell
  <2> HIDE DEF n
  <2>4. q \in Closing /\ q \notin {"join_timer", "join_reader"}
    BY DEF Closing
  <2> QED BY <1>1, <1>2, <2>1, <2>2, <2>3, <2>4, ClosingStep
<1>7. CASE CloseStop(t)
  <2> DEFINE n == [drv[d] EXCEPT !.stop = TRUE, !.timer = x]
  <2>1. drv' = [drv EXCEPT ![d] = n] /\ jobs' = jobs /\ Go(t, "join_timer")
    BY <1>7 DEF CloseStop
  <2> HIDE DEF x
  <2>2. /\ n \in Shell /\ n.current = drv[d].current /\ n.reader = drv[d].reader
        /\ n.stop = TRUE /\ n.timer = x
    BY <1>4, <1>5 DEF Shell, TimerState
  <2> HIDE DEF n
  <2>3. "join_timer" \in Closing
    BY DEF Closing
  <2> QED BY <1>1, <1>2, <1>5, <2>1, <2>2, <2>3, ClosingStep
<1>8. CASE CloseJoinTimer(t)
  <2> DEFINE n == [drv[d] EXCEPT !.shell = "dead", !.input = <<>>]
  <2>1. drv' = [drv EXCEPT ![d] = n] /\ jobs' = jobs /\ Go(t, "join_reader") /\ thr[t].pc = "join_timer"
    BY <1>8 DEF CloseJoinTimer
  <2>2. /\ n \in Shell /\ n.current = drv[d].current /\ n.reader = drv[d].reader
        /\ n.stop = drv[d].stop /\ n.timer = drv[d].timer
    BY <1>4, EmptySeq DEF Shell
  <2> HIDE DEF n
  <2>3. "join_reader" \in Closing /\ n.stop
    BY <1>0, <2>1, <2>2 DEF Closing, CloseInv
  <2> QED BY <1>1, <1>2, <2>1, <2>2, <2>3, ClosingStep
<1>9. CASE CloseJoinReader(t)
  <2> DEFINE n == [drv[d] EXCEPT !.current = None]
  <2>1. drv' = [drv EXCEPT ![d] = n] /\ Finish(drv[d].current, "Error") /\ Closed(t)
        /\ thr[t].pc = "join_reader"
    BY <1>9 DEF CloseJoinReader
  <2>2. /\ n \in Shell /\ n.current = None /\ n.reader = drv[d].reader
        /\ n.stop = drv[d].stop /\ n.timer = drv[d].timer
    BY <1>4 DEF Shell
  <2> HIDE DEF n
  <2>3. Ending(d) /\ \E s \in Ends : Finish(drv[d].current, s)
    BY <1>0, <2>1 DEF Ending, CloseInv, Ends
  <2> QED BY <1>1, <1>2, <2>1, <2>2, <2>3, ClosedStep
<1>10. CASE CloseDead(t) /\ thr[t].pc = "dead_reader"
  <2> DEFINE n == [drv[d] EXCEPT !.timer = x]
  <2>1. drv' = [drv EXCEPT ![d] = n] /\ jobs' = jobs /\ Go(t, "dead_timer")
    BY <1>10 DEF CloseDead
  <2> HIDE DEF x
  <2>2. /\ n \in Shell /\ n.current = drv[d].current /\ n.reader = drv[d].reader
        /\ n.stop = drv[d].stop /\ n.timer = x
    BY <1>4, <1>5 DEF Shell, TimerState
  <2> HIDE DEF n
  <2>3. "dead_timer" \in Closing /\ "dead_timer" \notin {"join_timer", "join_reader"}
    BY DEF Closing
  <2> QED BY <1>1, <1>2, <1>5, <2>1, <2>2, <2>3, ClosingStep
<1>11. CASE CloseDead(t) /\ thr[t].pc # "dead_reader"
  <2>1. drv[d].timer = "done" /\ Closed(t) /\ drv' = drv /\ jobs' = jobs
    BY <1>11 DEF CloseDead
  <2>2. drv' = [drv EXCEPT ![d] = drv[d]]
    BY <1>0, <2>1 DEF TypeOK
  <2>3. Ending(d)
    BY <2>1 DEF Ending
  <2> QED BY <1>1, <1>2, <1>4, <2>1, <2>2, <2>3, ClosedStep
<1> QED BY <1>6, <1>7, <1>8, <1>9, <1>10, <1>11 DEF CloseStep

----------------------------------------------------------------------------
(* The invariant                                                           *)

LEMMA TickStep ==
  ASSUME Inv, UNCHANGED <<load, sessions, running, drv, thr, jobs, allow, consent, told>>, now' \in Nat
  PROVE  Inv'
<1>1. /\ load' = load /\ sessions' = sessions /\ running' = running /\ drv' = drv /\ thr' = thr
      /\ jobs' = jobs /\ allow' = allow /\ consent' = consent /\ told' = told
  OBVIOUS
<1>2. TypeOK'
  BY <1>1 DEF Inv, TypeOK
<1>3. \A c \in Client : Local(c)'
  BY <1>1, LocalKept DEF Inv, StatusKept
<1>4. ShellsKept
  BY <1>1, ShellsSame
<1>5. JobInv' /\ allow' \subseteq consent'
  BY <1>1 DEF Inv, JobInv
<1>6. \A t \in Thread : CloseInv(t)'
  BY <1>1, <1>4, CloseKept DEF Inv
<1>7. OwnerInv'
  BY <1>1, <1>4, OwnersKept, HoldsSame, ClosesSame DEF Inv
<1> QED BY <1>2, <1>3, <1>5, <1>6, <1>7 DEF Inv

LEMMA InitInv == Init => Inv
<1> SUFFICES ASSUME Init PROVE Inv
  OBVIOUS
<1> DEFINE pc(t) == IF t = "watchdog" THEN "sleep" ELSE IF t = "main" THEN "serve"
                    ELSE IF Task(t).act \in {"exec", "oneshot"} THEN "approve" ELSE Task(t).act
           n(t) == [pc |-> pc(t), then |-> None, driver |-> None, todo |-> {}, ids |-> {}, at |-> 0]
<1>1. load \in DOMAIN Load
  BY DEF Init
<1>2. thr = [t \in Thread |-> n(t)]
  BY DEF Init
<1>3. \A c \in Client : Task(c).act \in {"exec", "oneshot", "kill", "kill_all", "none"}
  <2> DEFINE R == [task : [Client -> TaskType], events : SUBSET Event]
  <2>1. Load \in Seq(R)
    BY TerminalAssumption
  <2>2. Load[load] \in R
    <3> HIDE DEF R
    <3>1. Load \in [1 .. Len(Load) -> R] /\ load \in 1 .. Len(Load)
      BY <1>1, <2>1, LenProperties
    <3> QED BY <3>1
  <2> QED BY <2>2 DEF Task, TaskType
<1>4. \A t \in Thread : pc(t) \in {"sleep", "serve", "approve", "kill", "kill_all", "none"}
  BY <1>3 DEF Thread
<1>5. \A c \in Client : pc(c) \in {"approve", "kill", "kill_all", "none"}
  BY <1>3, Servants
<1> HIDE DEF pc
<1>6. \A t \in Thread : /\ n(t) \in Control /\ n(t).pc = pc(t) /\ n(t).todo = {}
  BY <1>4 DEF Control, Pc, Fixed, Asking
<1> HIDE DEF n
<1>7. /\ thr \in [Thread -> Control]
      /\ \A t \in Thread : thr[t].pc = pc(t) /\ thr[t].todo = {} /\ thr[t].pc \notin Closing
  BY <1>2, <1>4, <1>6 DEF Closing
<1>8. \A c \in Client : jobs[c].status = "none" /\ told[c] = "none"
  BY DEF Init
<1>9. \A d \in Driver : drv[d] = NoDriver /\ ~Started(d) /\ drv[d].current = None
  BY DEF Init, NoDriver, Started
<1>10. TypeOK
  <2>1. NoDriver \in Shell
    BY EmptySeq DEF NoDriver, Shell
  <2>2. drv \in [Driver -> Shell]
    BY <2>1 DEF Init
  <2>3. jobs \in [Client -> JobEntry]
    BY DEF Init, JobEntry
  <2> QED BY <1>7, <2>2, <2>3 DEF TypeOK, Init
<1>11. \A c \in Client : Local(c)
  <2>1. SUFFICES ASSUME NEW c \in Client PROVE Local(c)
    OBVIOUS
  <2>2. thr[c].pc \in {"approve", "kill", "kill_all", "none"} /\ thr[c].pc \notin Closing
    BY <1>5, <1>7 DEF Thread
  <2> QED BY <1>8, <2>2 DEF Local, Going
<1>12. JobInv
  <2>1. None \notin Client
    BY TerminalAssumption
  <2> QED BY <1>9, <2>1 DEF JobInv
<1>13. \A t \in Thread : CloseInv(t)
  BY <1>7 DEF CloseInv, Closing
<1>14. OwnerInv
  <2>1. \A k \in Key, d \in Driver : ~Holds(k, d)
    BY DEF Holds, Init
  <2>2. \A t \in Thread, d \in Driver : ~Closes(t, d)
    BY <1>7 DEF Closes, ClosingBy
  <2> QED BY <1>9, <2>1, <2>2 DEF OwnerInv
<1>15. allow \subseteq consent
  BY DEF Init
<1> QED BY <1>10, <1>11, <1>12, <1>13, <1>14, <1>15 DEF Inv

LEMMA NextInv == Inv /\ [Next]_vars => Inv'
<1> SUFFICES ASSUME Inv, [Next]_vars PROVE Inv'
  OBVIOUS
<1>0. now \in Nat
  BY DEF Inv, TypeOK
<1>1. CASE \E c \in Client : ClientStep(c)
  BY <1>1, ClientSteps
<1>2. CASE WatchdogStep \/ Stop \/ StopJoin \/ kill_session_by_id
  BY <1>2, ServantSteps
<1>3. CASE \E t \in Thread : CloseStep(t)
  BY <1>3, CloseStepInv
<1>4. CASE \E d \in Driver : DriverStep(d) \/ on_end(d) \/ ShellExit(d)
  BY <1>4, ShellThreadStep, FireStep, OnEndStep DEF DriverStep
<1>5. CASE Tick
  <2>1. now' \in Nat /\ UNCHANGED <<load, sessions, running, drv, thr, jobs, allow, consent, told>>
    BY <1>0, <1>5 DEF Tick, registry, tool
  <2> QED BY <2>1, TickStep
<1>6. CASE UNCHANGED vars
  <2>1. now' \in Nat /\ UNCHANGED <<load, sessions, running, drv, thr, jobs, allow, consent, told>>
    BY <1>0, <1>6 DEF vars
  <2> QED BY <2>1, TickStep
<1> QED BY <1>1, <1>2, <1>3, <1>4, <1>5, <1>6 DEF Next

\* The inductive invariant of Terminal.
THEOREM Invariance == Spec => []Inv
<1> QED BY InitInv, NextInv, PTL DEF Spec

----------------------------------------------------------------------------
(* The theorems                                                            *)

\* A command that needs approval is run only with the consent of its own user
\* or of the configuration, in whatever order the tools of any number of users
\* ask, read and write back the list.
THEOREM ConsentFirst == Spec => []DangerNeedsConsent
<1>1. Inv => DangerNeedsConsent
  <2> SUFFICES ASSUME Inv PROVE DangerNeedsConsent
    OBVIOUS
  <2>1. \A c \in Client : Local(c)
    BY DEF Inv
  <2> QED BY <2>1 DEF Local, Cleared, DangerNeedsConsent
<1> QED BY <1>1, Invariance, PTL

\* The tool reports success only for a job that finished.
THEOREM ReportIsTrue == Spec => []ToldIsTrue
<1>1. Inv => ToldIsTrue
  <2> SUFFICES ASSUME Inv PROVE ToldIsTrue
    OBVIOUS
  <2>1. \A c \in Client : Local(c)
    BY DEF Inv
  <2> QED BY <2>1 DEF Local, ToldIsTrue
<1> QED BY <1>1, Invariance, PTL

\* A set in which any two elements are equal has at most one.
LEMMA AtMostOne ==
  ASSUME NEW S, \A x, y \in S : x = y
  PROVE  Cardinality(S) <= 1 /\ (S # {} => Cardinality(S) = 1)
<1>1. CASE S = {}
  BY <1>1, FS_EmptySet
<1>2. CASE S # {}
  <2>1. PICK x \in S : TRUE
    BY <1>2
  <2>2. S = {x}
    BY <2>1
  <2> QED BY <2>2, FS_Singleton
<1> QED BY <1>1, <1>2

\* Every shell that was started is owned by one session or by one thread that
\* closes it, or its timeout thread was told to end.
THEOREM OneOwner == Spec => []DriverHasOneOwner
<1>1. Inv => DriverHasOneOwner
  <2> SUFFICES ASSUME Inv PROVE DriverHasOneOwner
    OBVIOUS
  <2>0. OwnerInv
    BY DEF Inv
  <2>1. SUFFICES ASSUME NEW d \in Driver, drv[d].reader # "off"
                 PROVE  LET owners == {k \in Listed : sessions[k].driver = d}
                                      \cup {t \in Thread : d \in ClosingBy(t)}
                        IN  IF drv[d].stop \/ drv[d].timer = "done" THEN Cardinality(owners) <= 1
                            ELSE Cardinality(owners) = 1
    BY DEF DriverHasOneOwner
  <2> DEFINE A == {k \in Listed : sessions[k].driver = d}
             B == {t \in Thread : d \in ClosingBy(t)}
             owners == A \cup B
  <2>2. A = {k \in Key : Holds(k, d)} /\ B = {t \in Thread : Closes(t, d)}
    BY DEF Listed, Holds, Closes
  <2> HIDE DEF A, B
  <2>3. \A x, y \in owners : x = y
    BY <2>0, <2>2 DEF OwnerInv
  <2>4. ~Ending(d) => owners # {}
    BY <2>0, <2>1, <2>2 DEF OwnerInv, Started
  <2>5. Cardinality(owners) <= 1 /\ (owners # {} => Cardinality(owners) = 1)
    BY <2>3, AtMostOne
  <2>6. IF drv[d].stop \/ drv[d].timer = "done" THEN Cardinality(owners) <= 1
        ELSE Cardinality(owners) = 1
    BY <2>4, <2>5 DEF Ending
  <2> QED BY <2>6 DEF A, B
<1> QED BY <1>1, Invariance, PTL

EndKept == \A c \in Client : jobs[c].status \in Ends => jobs'[c].status = jobs[c].status

LEMMA FinishKeeps ==
  ASSUME TypeOK, JobInv, NEW d \in Driver, NEW j \in {None, drv[d].current}, NEW s, Finish(j, s)
  PROVE  EndKept
<1>1. CASE j = None
  BY <1>1 DEF Finish, EndKept
<1>2. CASE j # None
  <2>1. j \in Client /\ jobs[j].status = "Running"
    BY <1>2 DEF TypeOK, Shell, JobInv
  <2>2. \A c \in Client \ {j} : jobs'[c] = jobs[c]
    BY <1>2, <2>1 DEF Finish, TypeOK
  <2> QED BY <2>1, <2>2 DEF EndKept, Ends
<1> QED BY <1>1, <1>2

LEMMA StepKeepsEnds ==
  ASSUME Inv, Next
  PROVE  EndKept
<1>0. TypeOK /\ JobInv
  BY DEF Inv
<1>1. CASE jobs' = jobs
  BY <1>1 DEF EndKept
<1>2. ASSUME NEW c \in Client, ExecSubmit(c) PROVE EndKept
  <2>1. jobs[c].status = "none"
    BY <1>2 DEF Inv, Local, ExecSubmit, Early, Going
  <2>2. \A b \in Client \ {c} : jobs'[b] = jobs[b]
    BY <1>0, <1>2 DEF ExecSubmit, TypeOK
  <2> QED BY <2>1, <2>2 DEF EndKept, Ends
<1>3. ASSUME NEW c \in Client, write_to_shell(c) PROVE EndKept
  <2>1. thr[c].driver \in Driver
    BY <1>3 DEF Inv, Local, write_to_shell
  <2>2. jobs' = jobs \/ \E j \in {None, drv[thr[c].driver].current} : Finish(j, "Error")
    BY <1>3 DEF write_to_shell
  <2> QED BY <1>0, <1>1, <2>1, <2>2, FinishKeeps
<1>4. ASSUME prune PROVE EndKept
  <2>1. \A c \in Client : jobs'[c].status = jobs[c].status
    <3>1. ASSUME NEW c \in Client PROVE jobs'[c].status = jobs[c].status
      <4>1. jobs[c] \in JobEntry
        BY <1>0 DEF TypeOK
      <4>2. jobs'[c] = jobs[c] \/ jobs'[c] = [jobs[c] EXCEPT !.stored = FALSE]
        BY <1>4 DEF prune
      <4> QED BY <4>1, <4>2 DEF JobEntry
    <3> QED BY <3>1
  <2> QED BY <2>1 DEF EndKept
<1>5. ASSUME NEW t \in Thread, CloseJoinReader(t) PROVE EndKept
  <2>1. CloseInv(t) /\ thr[t].pc \in Closing /\ Finish(drv[thr[t].driver].current, "Error")
    BY <1>5 DEF Inv, CloseJoinReader, Closing
  <2>2. thr[t].driver \in Driver
    BY <2>1 DEF CloseInv
  <2> QED BY <1>0, <2>1, <2>2, FinishKeeps
<1>6. ASSUME NEW d \in Driver, on_end(d) PROVE EndKept
  <2>1. \E j \in {None, drv[d].current}, s \in {"Finished", "Timeout"} : Finish(j, s)
    BY <1>6 DEF on_end
  <2> QED BY <1>0, <2>1, FinishKeeps
<1>7. ASSUME NEW d \in Driver, ReaderFinalize(d) PROVE EndKept
  BY <1>0, <1>7, FinishKeeps DEF ReaderFinalize
<1>8. ASSUME NEW d \in Driver, TimerFire(d) PROVE EndKept
  <2>1. jobs' = jobs \/ \E j \in {None, drv[d].current} : Finish(j, "Timeout")
    BY <1>8 DEF TimerFire
  <2> QED BY <1>0, <1>1, <2>1, FinishKeeps
<1>9. ASSUME NEW c \in Client, ClientStep(c) PROVE EndKept
  <2>1. jobs' = jobs \/ ExecSubmit(c) \/ write_to_shell(c)
    BY <1>9 DEF ClientStep, check_approval, ask_handler, approve_permanent, run_oneshot_direct,
                get_or_create, Recreate, exec_lookup, Refused, kill_session, ExecWait,
                am_poll_until_done
  <2> QED BY <1>1, <1>2, <1>3, <2>1
<1>10. ASSUME WatchdogStep \/ Stop \/ StopJoin \/ kill_session_by_id PROVE EndKept
  <2>1. jobs' = jobs \/ prune
    BY <1>10 DEF WatchdogStep, DetectScan, DetectMark, evict_dead_and_idle, PruneClock, WatchdogExit,
                 Stop, StopJoin, kill_session_by_id
  <2> QED BY <1>1, <1>4, <2>1
<1>11. ASSUME NEW t \in Thread, CloseStep(t) PROVE EndKept
  <2>1. jobs' = jobs \/ CloseJoinReader(t)
    BY <1>11 DEF CloseStep, CloseBegin, CloseStop, CloseJoinTimer, CloseDead
  <2> QED BY <1>1, <1>5, <2>1
<1>12. ASSUME NEW d \in Driver, DriverStep(d) \/ on_end(d) \/ ShellExit(d) PROVE EndKept
  <2>1. jobs' = jobs \/ on_end(d) \/ ReaderFinalize(d) \/ TimerFire(d)
    BY <1>12 DEF DriverStep, ReaderHangup, TimerTest, TimerSleep, ShellExit
  <2> QED BY <1>1, <1>6, <1>7, <1>8, <2>1
<1>13. Tick => jobs' = jobs
  BY DEF Tick
<1> QED BY <1>1, <1>9, <1>10, <1>11, <1>12, <1>13 DEF Next

\* Whichever of the reader, the timeout thread, close() and a failed write
\* ends a job first, the others leave its status as it is.
THEOREM EndIsFinal == Spec => EndedStaysEnded
<1>1. Inv /\ [Next]_vars => [EndKept]_vars
  BY StepKeepsEnds
<1>2. EndKept <=> \A c \in Client : jobs[c].status \in {"Finished", "Error", "Timeout"} =>
                    jobs'[c].status = jobs[c].status
  BY DEF EndKept, Ends
<1>3. Inv /\ [Next]_vars =>
        [\A c \in Client : jobs[c].status \in {"Finished", "Error", "Timeout"} =>
           jobs'[c].status = jobs[c].status]_vars
  BY <1>1, <1>2
<1> QED BY <1>3, Invariance, PTL DEF Spec, EndedStaysEnded
=============================================================================
