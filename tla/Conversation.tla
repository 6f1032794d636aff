----------------------------- MODULE Conversation -----------------------------
(***************************************************************************)
(* The conversations of the scheduler: SessionIO (src/llm/session_io.cpp), *)
(* a cache in front of the storage provider, and SessionManager            *)
(* (src/llm/session_manager.cpp), which owns the session index, compaction *)
(* and its background queue.  They are used by                             *)
(*   - the worker that serves an LLM request (Request);                    *)
(*   - the pool thread that serves a SESSION_CONTROL command (Command);    *)
(*   - the compaction thread (Compactor);                                  *)
(*   - the hourly cleanup threads of the two SessionIO objects, the        *)
(*     scheduler's and the supervisor's.                                   *)
(* convo_mutex_ protects the cache and is released between the two halves  *)
(* of building a request, and never held by compaction and undo: each      *)
(* critical section is one action.                                         *)
(***************************************************************************)
EXTENDS Storage

CONSTANTS Load,           \* a sequence of workloads, see LoadType; a behaviour has one
          Compactor,      \* the worker of CompactionQueue
          KeepRecent,     \* keep_recent_turns
          Limit,          \* tokens at which a session is to be compacted
          Ttl             \* process_convo_ttl_sec

VARIABLES
  load,      \* what the clients ask for, and what is stored at start
  backend,   \* the provider of config/storage.json
  st,        \* the store
  cache,     \* SessionIO::convo_cache_ of the scheduler
  req,       \* the worker of each request: [pc, convo, copy]
  th,        \* the thread of each command and the compactor: [pc, convo, copy, todo]
  queue, queued,  \* CompactionQueue: queue_ and queued_sessions_
  needing,        \* sessions_needing_compaction_
  stopping,       \* the queue is being destroyed
  cleaner,        \* the pass of each cleanup thread: [pc, pid, at, pids, ids, recent]
  now,
  kept,      \* history: the messages of a conversation whose write was reported
  raced,     \* history: conversations a thread overwrote from an old copy
  reaped     \* history: conversations removed from storage behind the cache

config == <<load, backend>>
vars == <<config, st, cache, req, th, queue, queued, needing, stopping, cleaner,
          now, kept, raced, reaped>>

RequestType == [id : Nat, convo : Convo, pid : Pid \cup {None}, fresh : BOOLEAN,
                input : {"user", "tool"}, system : {"none", "plain", "override"}]
CommandType == [act : {"get_or_create", "new", "create_super_user", "set_title", "delete",
                       "destroy_user", "compact", "undo"},
                user : SuperUser, n : 0 .. MaxSession]
\* A message names its author: it was there, is a summary, or belongs to the
\* turn of a request.
MessageType == [by : ({"old", "summary"} \X Nat) \cup ({"req"} \X RequestType),
                role : {"system", "user", "assistant", "tool"}]
RowType == [msgs : Seq(MessageType), creator_pid : Pid \cup {None},
            last_activity : Nat, tokens : Nat]
LoadType == [requests : SUBSET RequestType, commands : SUBSET CommandType,
             stored : [Convo -> Nat],   \* messages of each conversation, 0: none
             time : Nat]                \* bound: the end of time
Request == Load[load].requests
Command == Load[load].commands
Thread == Command \cup {Compactor}
Cleaner == {"scheduler", "supervisor"}

ASSUME ConversationAssumption ==
  /\ \A i \in DOMAIN Load :
       /\ Load[i].requests \subseteq RequestType /\ Load[i].commands \subseteq CommandType
       /\ Load[i].stored \in [Convo -> Nat] /\ Load[i].time \in Nat
       \* generate_process_convo_id puts the pid of its creator in the new id
       /\ \A r \in Load[i].requests : r.fresh /\ r.convo \in ProcConvo => r.pid = r.convo[1]
  /\ KeepRecent \in Nat \ {0} /\ Limit \in Nat /\ Ttl \in Nat \ {0}
  /\ Compactor \notin CommandType /\ None \notin RowType

----------------------------------------------------------------------------
(* Rows and messages                                                       *)

Message(by, role) == [by |-> by, role |-> role]
Seed == LET by == <<"summary", 0>> IN
        <<Message(by, "user"), Message(by, "assistant"), Message(by, "tool")>>
Conversation(pid) == [msgs |-> <<>>, creator_pid |-> pid, last_activity |-> now, tokens |-> 0]
Messages(s) == {s[i] : i \in 1 .. Len(s)}

\* append_message_unlocked: every message costs at least one token.
append_message_unlocked(row, ms) ==
  [row EXCEPT !.msgs = @ \o ms, !.tokens = @ + Len(ms), !.last_activity = now]

\* The provider of the running configuration.
Upsert(s, c, row) == IF backend = "json" THEN json_upsert_conversation(s, c, row)
                     ELSE sqlite_upsert_conversation(s, c, row)
list_sessions(u) == IF backend = "json" THEN json_list_session_index_entries(st, u)
                    ELSE sqlite_list_session_index_entries(st, u)
Get(c) == IF backend = "json" THEN json_get_conversation(st, c)
          ELSE sqlite_get_conversation(st, c)

\* Where every reader looks: the cache, then storage.
Lookup(c) == IF cache[c] # None THEN cache[c] ELSE Get(c)

History(n) == [i \in 1 .. n |-> Message(<<"old", i>>, IF i % 2 = 1 THEN "user" ELSE "assistant")]
StoredRow(c) ==
  IF Load[load].stored[c] = 0 THEN None
  ELSE [msgs |-> History(Load[load].stored[c]), tokens |-> Load[load].stored[c], last_activity |-> 1,
        creator_pid |-> IF is_session_id(c) THEN None ELSE c[1]]

\* A cleanup thread between two passes.
NoPass == [pc |-> "idle", pid |-> None, at |-> 0, pids |-> {}, ids |-> {}, recent |-> 0]

Init ==
  /\ load \in DOMAIN Load
  /\ backend \in {"json", "sqlite"}
  /\ LET there == {c \in Convo : Load[load].stored[c] > 0}
     IN  st = [EmptyStore EXCEPT !.rows = [c \in Convo |-> StoredRow(c)],
                                 !.entry = there \cap Session,
                                 !.users = {c[1] : c \in there \cap Session},
                                 !.dirs = IF backend = "json" THEN there ELSE {}]
  /\ cache = [c \in Convo |-> None]
  /\ req = [r \in Request |-> [pc |-> "queued", convo |-> None, copy |-> None]]
  /\ th = [t \in Thread |-> [pc |-> "start", convo |-> None, copy |-> None, todo |-> {}]]
  /\ queue = <<>> /\ queued = {} /\ needing = {} /\ stopping = FALSE
  /\ cleaner = [k \in Cleaner |-> NoPass]
  /\ now = 1
  /\ kept = [c \in Convo |-> Messages(History(Load[load].stored[c]))]
  /\ raced = {} /\ reaped = {}

----------------------------------------------------------------------------
(* LLM requests                                                            *)

\* The queue key of a request is held from the pick to the answer: the session,
\* or the tree of the process (here the process, so that those of one tree may
\* meet as those of two trees do).
queue_key(r) == IF is_session_id(r.convo) THEN r.convo ELSE r.pid
Holding == {"read", "write", "infer", "usage"}
KeyFree(r) == \A s \in Request : req[s].pc \in Holding => queue_key(s) # queue_key(r)

ReqStep(r, pc) == req' = [req EXCEPT ![r].pc = pc]
Save(c, row) == st' = Upsert(st, c, row) /\ cache' = [cache EXCEPT ![c] = row]
\* A write whose base is no longer what is stored loses what came between.
Base(c, row) == raced' = IF st.rows[c] = row THEN raced ELSE raced \cup {c}

\* normalize_llm_request, mode "user_conversation": find or create the session.
NormalizeUser(r) ==
  LET c == r.convo IN
  /\ req[r].pc = "queued" /\ is_session_id(c) /\ KeyFree(r)
  /\ req' = [req EXCEPT ![r].pc = "read", ![r].convo = c]
  /\ IF Lookup(c) # None THEN cache' = [cache EXCEPT ![c] = Lookup(c)] /\ UNCHANGED st
     ELSE Save(c, Conversation(None))
  /\ UNCHANGED <<config, th, queue, queued, needing, stopping, cleaner, now, kept, raced, reaped>>

\* Mode "conversation": a new conversation, or one that the process owns.
NormalizeProcess(r) ==
  LET c == r.convo IN
  /\ req[r].pc = "queued" /\ ~is_session_id(c) /\ KeyFree(r)
  /\ IF r.fresh
     THEN /\ st.rows[c] = None /\ cache[c] = None     \* the random id is new
          /\ Save(c, Conversation(r.pid))
          /\ req' = [req EXCEPT ![r].pc = "read", ![r].convo = c]
     ELSE /\ UNCHANGED st
          /\ IF Lookup(c) = None THEN ReqStep(r, "failed") /\ UNCHANGED cache
             ELSE /\ cache' = [cache EXCEPT ![c] = Lookup(c)]
                  /\ req' = [req EXCEPT ![r].convo = c,
                               ![r].pc = IF Lookup(c).creator_pid = r.pid THEN "read" ELSE "failed"]
  /\ UNCHANGED <<config, th, queue, queued, needing, stopping, cleaner, now, kept, raced, reaped>>

\* build_conversation_messages_safely, first critical section: copy.
BuildRead(r) ==
  LET row == Lookup(req[r].convo) IN
  /\ req[r].pc = "read"
  /\ IF row = None THEN ReqStep(r, "failed")
     ELSE req' = [req EXCEPT ![r].pc = "write", ![r].copy = row]
  /\ UNCHANGED <<config, st, cache, th, queue, queued, needing, stopping, cleaner, now, kept,
                 raced, reaped>>

NotSystem(m) == m.role # "system"
\* std::remove_if: the other messages, in their order.
WithoutSystem(msgs) ==
  LET kept_of[i \in 0 .. Len(msgs)] ==
        IF i = 0 THEN <<>>
        ELSE IF NotSystem(msgs[i]) THEN Append(kept_of[i - 1], msgs[i]) ELSE kept_of[i - 1]
  IN  kept_of[Len(msgs)]
\* An explicit prompt replaces the system messages or opens the history.
WithSystem(r, row) ==
  LET sys == <<Message(<<"req", r>>, "system")>> IN
  IF r.system = "override"
  THEN append_message_unlocked([row EXCEPT !.msgs = WithoutSystem(@)], sys)
  ELSE IF r.system = "plain" /\ row.msgs = <<>> THEN append_message_unlocked(row, sys) ELSE row

\* Second critical section: extend the copy, store and cache it.
BuildWrite(r) ==
  LET c == req[r].convo
      row == append_message_unlocked(WithSystem(r, req[r].copy), <<Message(<<"req", r>>, r.input)>>)
  IN
  /\ req[r].pc = "write"
  /\ Save(c, row)
  /\ Base(c, req[r].copy)
  /\ kept' = [kept EXCEPT ![c] = {m \in @ : r.system = "override" => NotSystem(m)}
                                 \cup {Message(<<"req", r>>, r.input)}]
  /\ req' = [req EXCEPT ![r].pc = "infer", ![r].copy = None]
  /\ UNCHANGED <<config, th, queue, queued, needing, stopping, cleaner, now, reaped>>

\* persist_assistant_response / persist_assistant_tool_call.
PersistReply(r) ==
  LET c == req[r].convo IN
  /\ req[r].pc = "infer"
  /\ ReqStep(r, "usage")
  /\ \/ UNCHANGED <<st, cache, kept, raced>>      \* the answer is empty, or the row is gone
     \/ /\ Lookup(c) # None
        /\ Save(c, append_message_unlocked(Lookup(c), <<Message(<<"req", r>>, "assistant")>>))
        /\ Base(c, Lookup(c))
        /\ kept' = [kept EXCEPT ![c] = @ \cup {Message(<<"req", r>>, "assistant")}]
  /\ UNCHANGED <<config, th, queue, queued, needing, stopping, cleaner, now, reaped>>

\* The model failed, or the client went away while it ran.
ReplyDiscarded(r) ==
  /\ req[r].pc = "infer"
  /\ ReqStep(r, "failed")
  /\ UNCHANGED <<config, st, cache, th, queue, queued, needing, stopping, cleaner, now, kept,
                 raced, reaped>>

\* compute_context_usage reads the stored row; the answer goes out here.
context_tokens(c) == IF Get(c) = None THEN 0 ELSE Get(c).tokens
ComputeUsage(r) ==
  /\ req[r].pc = "usage"
  /\ ReqStep(r, IF context_tokens(req[r].convo) >= Limit THEN "mark" ELSE "done")
  /\ UNCHANGED <<config, st, cache, th, queue, queued, needing, stopping, cleaner, now, kept,
                 raced, reaped>>

\* enqueue_auto_compaction_if_needed: the mark first, the queue after.
MarkNeeding(r) ==
  /\ req[r].pc = "mark"
  /\ needing' = needing \cup {req[r].convo}
  /\ ReqStep(r, "enqueue")
  /\ UNCHANGED <<config, st, cache, th, queue, queued, stopping, cleaner, now, kept, raced, reaped>>

\* (defect) A session goes to the queue every time.
enqueue_again(r) ==
  LET c == req[r].convo IN
  /\ req[r].pc = "enqueue"
  /\ ReqStep(r, "done")
  /\ queued' = queued \cup {c} /\ queue' = Append(queue, c)
  /\ UNCHANGED <<config, st, cache, th, needing, stopping, cleaner, now, kept, raced, reaped>>

enqueue(r) ==
  LET c == req[r].convo IN
  /\ req[r].pc = "enqueue"
  /\ ReqStep(r, "done")
  /\ queued' = queued \cup {c}
  /\ queue' = IF c \in queued THEN queue ELSE Append(queue, c)
  /\ UNCHANGED <<config, st, cache, th, needing, stopping, cleaner, now, kept, raced, reaped>>

----------------------------------------------------------------------------
(* Compaction, background and manual, and undo                             *)

ThStep(t, pc) == th' = [th EXCEPT ![t].pc = pc]

Dequeue ==
  /\ th[Compactor].pc = "start" /\ queue # <<>>
  /\ th' = [th EXCEPT ![Compactor].pc = "load", ![Compactor].convo = Head(queue)]
  /\ queue' = Tail(queue)
  /\ UNCHANGED <<config, st, cache, req, queued, needing, stopping, cleaner, now, kept, raced, reaped>>

\* SessionIO::get_conversation, which fills the cache.
get_conversation(t) ==
  LET c == th[t].convo IN
  /\ th[t].pc = "load"
  /\ cache' = [cache EXCEPT ![c] = Lookup(c)]
  /\ th' = [th EXCEPT ![t].copy = Lookup(c),
               ![t].pc = IF t # Compactor /\ t.act = "undo" THEN "undo" ELSE "summarize"]
  /\ UNCHANGED <<config, st, req, queue, queued, needing, stopping, cleaner, now, kept, raced, reaped>>

\* Where a thread goes when its compaction is over.
AfterCompact(t) == IF t = Compactor THEN "unqueue" ELSE "done"

\* The scheduler answers with a summary; a refusal, a timeout or an empty
\* answer is an exception.
request_llm_summary == {"summary", "exception"}
\* compact_history_if_needed: too short, disabled, or without a summary.
Summarize(t) ==
  LET row == th[t].copy IN
  /\ th[t].pc = "summarize"
  /\ \E answer \in request_llm_summary :
       IF row # None /\ Len(row.msgs) > KeepRecent + 1 /\ answer = "summary"
       THEN ThStep(t, "snapshot") ELSE ThStep(t, AfterCompact(t))
  /\ UNCHANGED <<config, st, cache, req, queue, queued, needing, stopping, cleaner, now, kept,
                 raced, reaped>>

\* (defect) The history is replaced without a snapshot.
save_nothing(t) ==
  /\ th[t].pc = "snapshot"
  /\ ThStep(t, "persist")
  /\ UNCHANGED <<config, st, cache, req, queue, queued, needing, stopping, cleaner, now, kept,
                 raced, reaped>>

\* The whole history is saved for session_search.
save_snapshot(t) ==
  LET c == th[t].convo IN
  /\ th[t].pc = "snapshot"
  /\ st' = IF backend = "json" THEN json_append_snapshot(st, c, th[t].copy.msgs)
           ELSE sqlite_append_snapshot(st, c, th[t].copy.msgs)
  /\ ThStep(t, "persist")
  /\ UNCHANGED <<config, cache, req, queue, queued, needing, stopping, cleaner, now, kept, raced, reaped>>

\* The recent tail; a background compaction drops a user message at its end.
Retained(t) ==
  LET msgs == th[t].copy.msgs
      tail == SubSeq(msgs, Len(msgs) - KeepRecent + 1, Len(msgs))
  IN  IF t = Compactor /\ tail[Len(tail)].role = "user"
      THEN SubSeq(tail, 1, Len(tail) - 1) ELSE tail
build_seeded_conversation(t) == Seed \o Retained(t)

\* Background: the copy with its messages replaced.  Manual: a row that has
\* only messages and counts, so that the other fields take their defaults.
CompactedRow(t) ==
  LET msgs == build_seeded_conversation(t) IN
  IF t = Compactor THEN [th[t].copy EXCEPT !.msgs = msgs, !.tokens = Len(msgs)]
  ELSE [msgs |-> msgs, tokens |-> Len(msgs), creator_pid |-> None, last_activity |-> 0]

PersistCompacted(t) ==
  LET c == th[t].convo IN
  /\ th[t].pc = "persist"
  /\ st' = Upsert(st, c, CompactedRow(t))
  /\ Base(c, th[t].copy)
  /\ ThStep(t, "invalidate")
  /\ UNCHANGED <<config, cache, req, queue, queued, needing, stopping, cleaner, now, kept, reaped>>

\* (defect) The cached copy of a replaced conversation stays.
invalidate_nothing(t) ==
  /\ th[t].pc = "invalidate"
  /\ ThStep(t, AfterCompact(t))
  /\ UNCHANGED <<config, st, cache, req, queue, queued, needing, stopping, cleaner, now, kept,
                 raced, reaped>>

invalidate_conversation_cache(t) ==
  /\ th[t].pc = "invalidate"
  /\ cache' = [cache EXCEPT ![th[t].convo] = None]
  /\ ThStep(t, AfterCompact(t))
  /\ UNCHANGED <<config, st, req, queue, queued, needing, stopping, cleaner, now, kept, raced, reaped>>

Unqueue ==
  /\ th[Compactor].pc = "unqueue"
  /\ queued' = queued \ {th[Compactor].convo}
  /\ ThStep(Compactor, "unmark")
  /\ UNCHANGED <<config, st, cache, req, queue, needing, stopping, cleaner, now, kept, raced, reaped>>

\* (defect) The mark is cleared only when a compaction has succeeded.
UnmarkCompacted ==
  LET c == th[Compactor].convo IN
  /\ th[Compactor].pc = "unmark"
  /\ needing' = IF st.snaps[c] = <<>> THEN needing ELSE needing \ {c}
  /\ ThStep(Compactor, "start")
  /\ UNCHANGED <<config, st, cache, req, queue, queued, stopping, cleaner, now, kept, raced, reaped>>

Unmark ==
  /\ th[Compactor].pc = "unmark"
  /\ needing' = needing \ {th[Compactor].convo}
  /\ ThStep(Compactor, "start")
  /\ UNCHANGED <<config, st, cache, req, queue, queued, stopping, cleaner, now, kept, raced, reaped>>

\* From the last user message before the last assistant message on.
CutFrom(msgs) ==
  LET last(role, n) == LET at == {i \in 1 .. n : msgs[i].role = role}
                       IN  IF at = {} THEN 0 ELSE CHOOSE i \in at : \A j \in at : j <= i
  IN  last("user", last("assistant", Len(msgs)))

Undo(t) ==
  LET c == th[t].convo
      row == th[t].copy
      cut == IF row = None THEN 0 ELSE CutFrom(row.msgs)
      rest == SubSeq(row.msgs, 1, cut - 1)
  IN
  /\ th[t].pc = "undo"
  /\ IF cut = 0 THEN ThStep(t, "done") /\ UNCHANGED <<st, kept, raced>>
     ELSE /\ st' = Upsert(st, c, [row EXCEPT !.msgs = rest, !.tokens = Len(rest),
                                             !.last_activity = now])
          /\ Base(c, row)
          /\ kept' = [kept EXCEPT ![c] = @ \ (Messages(row.msgs) \ Messages(rest))]
          /\ ThStep(t, "invalidate")
  /\ UNCHANGED <<config, cache, req, queue, queued, needing, stopping, cleaner, now, reaped>>

----------------------------------------------------------------------------
(* Session control                                                         *)

LastOf(S) == CHOOSE c \in S : \A d \in S : d[2] <= c[2]
next_session_id(u) ==
  <<u, IF list_sessions(u) = {} THEN 1 ELSE LastOf(list_sessions(u))[2] + 1>>

\* resolve_target and the list the command starts from.
Resolve(t) ==
  /\ t # Compactor /\ th[t].pc = "start"
  /\ t.act \in {"get_or_create", "new", "compact", "undo"}
  /\ LET sessions == list_sessions(t.user)
         go(pc, c) == th' = [th EXCEPT ![t].pc = pc, ![t].convo = c]
         found == IF t.act = "get_or_create" THEN "done" ELSE "load"
     IN  IF t.act = "new"
         THEN next_session_id(t.user) \in Session /\ go("create", next_session_id(t.user))
         ELSE IF t.n # 0 /\ t.act # "get_or_create" THEN go("load", <<t.user, t.n>>)
         ELSE IF sessions # {} THEN go(found, LastOf(sessions))
         ELSE go("create", <<t.user, 1>>)
  /\ UNCHANGED <<config, st, cache, req, queue, queued, needing, stopping, cleaner, now, kept,
                 raced, reaped>>

\* A new session is a directory, an entry of its user and one of its own, made
\* one after the other; index_upsert_session calls the provider twice.
upsert_super_user(u) == IF backend = "json" THEN json_upsert_super_user(st, u)
                        ELSE sqlite_upsert_super_user(st, u)
Indexed(s, c) == IF backend = "json" THEN json_upsert_session_index_entry(s, c)
                 ELSE sqlite_upsert_session_index_entry(s, c)
CreateSession(t) ==
  /\ th[t].pc = "create"
  /\ st' = [st EXCEPT !.dirs = IF backend = "json" THEN @ \cup {th[t].convo} ELSE @]
  /\ ThStep(t, "user")
  /\ UNCHANGED <<config, cache, req, queue, queued, needing, stopping, cleaner, now, kept, raced, reaped>>
IndexUser(t) ==
  /\ th[t].pc = "user"
  /\ st' = upsert_super_user(t.user)
  /\ ThStep(t, "index")
  /\ UNCHANGED <<config, cache, req, queue, queued, needing, stopping, cleaner, now, kept, raced, reaped>>
IndexSession(t) ==
  /\ th[t].pc = "index"
  /\ st' = Indexed(st, th[t].convo)
  /\ ThStep(t, IF t.act \in {"compact", "undo"} THEN "load" ELSE "done")
  /\ UNCHANGED <<config, cache, req, queue, queued, needing, stopping, cleaner, now, kept, raced, reaped>>

create_super_user(t) ==
  /\ t # Compactor /\ th[t].pc = "start" /\ t.act = "create_super_user"
  /\ st' = upsert_super_user(t.user)
  /\ ThStep(t, "done")
  /\ UNCHANGED <<config, cache, req, queue, queued, needing, stopping, cleaner, now, kept, raced, reaped>>

\* Naming a session that does not exist puts it in the index.
set_session_title(t) ==
  /\ t # Compactor /\ th[t].pc = "start" /\ t.act = "set_title" /\ t.n # 0
  /\ st' = upsert_super_user(t.user)
  /\ th' = [th EXCEPT ![t].pc = "index", ![t].convo = <<t.user, t.n>>]
  /\ UNCHANGED <<config, cache, req, queue, queued, needing, stopping, cleaner, now, kept, raced, reaped>>

\* delete: the index entry, the snapshots and the row go one by one, then
\* SessionIO deletes the row again together with its cache entry.
DeleteStep(t, from, to, s) ==
  LET c == <<t.user, t.n>> IN
  /\ th[t].pc = from
  /\ st' = s
  /\ kept' = [kept EXCEPT ![c] = {}]
  /\ th' = [th EXCEPT ![t].pc = to, ![t].convo = c]
  /\ cache' = [cache EXCEPT ![c] = IF from = "delete_io" THEN None ELSE @]
  /\ UNCHANGED <<config, req, queue, queued, needing, stopping, cleaner, now, raced, reaped>>
DeleteRow(c) == IF backend = "json" THEN json_delete_conversation(st, c)
                ELSE sqlite_delete_conversation(st, c, None)
delete_session(t) ==
  LET c == <<t.user, t.n>> IN
  /\ t # Compactor /\ t.act = "delete" /\ t.n # 0
  /\ \/ DeleteStep(t, "start", "delete_snaps",
                   IF backend = "json" THEN json_delete_session_index_entry(st, c)
                   ELSE sqlite_delete_session_index_entry(st, c))
     \/ DeleteStep(t, "delete_snaps", "delete_row",
                   IF backend = "json" THEN json_delete_snapshots(st, c)
                   ELSE sqlite_delete_snapshots(st, c))
     \/ DeleteStep(t, "delete_row", "delete_io", DeleteRow(c))
delete_conversation(t) ==
  /\ t # Compactor /\ t.act = "delete"
  /\ DeleteStep(t, "delete_io", "invalidate", DeleteRow(<<t.user, t.n>>))

\* What a step takes out of storage.
Removed == {c \in Convo : st.rows[c] # None /\ st'.rows[c] = None}

\* destroy_user: the listed sessions leave the cache one by one, then the
\* user is deleted from storage.
DestroyList(t) ==
  /\ t # Compactor /\ th[t].pc = "start" /\ t.act = "destroy_user"
  /\ th' = [th EXCEPT ![t].pc = "evict", ![t].todo = list_sessions(t.user)]
  /\ UNCHANGED <<config, st, cache, req, queue, queued, needing, stopping, cleaner, now, kept,
                 raced, reaped>>
DestroyEvict(t) ==
  /\ th[t].pc = "evict"
  /\ \E c \in th[t].todo : /\ cache' = [cache EXCEPT ![c] = None]
                           /\ th' = [th EXCEPT ![t].todo = @ \ {c}]
  /\ UNCHANGED <<config, st, req, queue, queued, needing, stopping, cleaner, now, kept, raced, reaped>>
delete_super_user(t) ==
  /\ th[t].pc = "evict" /\ th[t].todo = {}
  /\ st' = IF backend = "json" THEN json_delete_super_user(st, t.user)
           ELSE sqlite_delete_super_user(st, t.user)
  /\ reaped' = reaped \cup Removed
  /\ kept' = [c \in Convo |-> IF c \in SessionsOf(t.user) THEN {} ELSE kept[c]]
  /\ ThStep(t, "done")
  /\ UNCHANGED <<config, cache, req, queue, queued, needing, stopping, cleaner, now, raced>>

----------------------------------------------------------------------------
(* Cleanup of process conversations, shutdown and time                     *)

list_proc_convo_ids(p) == IF backend = "json" THEN json_list_proc_convo_ids(st, p)
                          ELSE sqlite_list_proc_convo_ids(st, p)
list_proc_creator_pids == IF backend = "json" THEN json_list_proc_creator_pids(st)
                          ELSE sqlite_list_proc_creator_pids(st)
\* The clock is read once, before the list of processes; a pass over no
\* process does nothing.
cleanup_loop(k) ==
  /\ cleaner[k].pc = "idle" /\ list_proc_creator_pids # {}
  /\ cleaner' = [cleaner EXCEPT ![k].pc = "next", ![k].at = now, ![k].pids = list_proc_creator_pids]
  /\ UNCHANGED <<config, st, cache, req, th, queue, queued, needing, stopping, now, kept, raced, reaped>>
ScanProcess(k) ==
  /\ cleaner[k].pc = "next"
  /\ \E p \in cleaner[k].pids :
       cleaner' = [cleaner EXCEPT ![k].pc = "scan", ![k].pid = p, ![k].pids = @ \ {p},
                                  ![k].ids = list_proc_convo_ids(p)]
  /\ UNCHANGED <<config, st, cache, req, th, queue, queued, needing, stopping, now, kept, raced, reaped>>
\* most_recent becomes the activity of a row that is newer.
ScanConvo(k) ==
  /\ cleaner[k].pc = "scan"
  /\ \E c \in cleaner[k].ids :
       LET newer == Get(c) # None /\ Get(c).last_activity > cleaner[k].recent
       IN  cleaner' = [cleaner EXCEPT ![k].ids = @ \ {c},
                                      ![k].recent = IF newer THEN Get(c).last_activity ELSE @]
  /\ UNCHANGED <<config, st, cache, req, th, queue, queued, needing, stopping, now, kept, raced, reaped>>
\* On to the next process of the pass, if there is one.
NextProcess(k) == IF cleaner[k].pids = {} THEN NoPass
                  ELSE [cleaner[k] EXCEPT !.pc = "next", !.recent = 0]
\* Nothing used for the time to live, and something there at all.
Stale(k) == cleaner[k].recent > 0 /\ cleaner[k].at - cleaner[k].recent >= Ttl
Judge(k) ==
  /\ cleaner[k].pc = "scan" /\ cleaner[k].ids = {}
  /\ cleaner' = [cleaner EXCEPT ![k] = IF Stale(k) THEN [@ EXCEPT !.pc = "evict", !.recent = 0]
                                       ELSE NextProcess(k)]
  /\ UNCHANGED <<config, st, cache, req, th, queue, queued, needing, stopping, now, kept, raced, reaped>>

\* delete_process_convos_for_pid; the supervisor's own cache is empty.
EvictProcess(k) ==
  /\ cleaner[k].pc = "evict"
  /\ cache' = IF k = "supervisor" THEN cache
              ELSE [c \in Convo |-> IF cache[c] # None /\ cache[c].creator_pid = cleaner[k].pid
                                    THEN None ELSE cache[c]]
  /\ cleaner' = [cleaner EXCEPT ![k].pc = "remove"]
  /\ UNCHANGED <<config, st, req, th, queue, queued, needing, stopping, now, kept, raced, reaped>>
RemoveProcess(k) ==
  LET p == cleaner[k].pid IN
  /\ cleaner[k].pc = "remove"
  /\ st' = IF backend = "json" THEN json_delete_all_proc_convos(st, p)
           ELSE sqlite_delete_all_proc_convos(st, p)
  /\ reaped' = reaped \cup Removed
  /\ kept' = [c \in Convo |-> IF c[1] = p THEN {} ELSE kept[c]]
  /\ cleaner' = [cleaner EXCEPT ![k] = NextProcess(k)]
  /\ UNCHANGED <<config, cache, req, th, queue, queued, needing, stopping, now, raced>>

\* ~CompactionQueue: the worker drains the queue and ends.
StopQueue ==
  /\ \A r \in Request : req[r].pc \in {"done", "failed"}
  /\ ~stopping /\ stopping' = TRUE
  /\ UNCHANGED <<config, st, cache, req, th, queue, queued, needing, cleaner, now, kept, raced, reaped>>
WorkerExit ==
  /\ th[Compactor].pc = "start" /\ stopping /\ queue = <<>>
  /\ ThStep(Compactor, "done")
  /\ UNCHANGED <<config, st, cache, req, queue, queued, needing, stopping, cleaner, now, kept,
                 raced, reaped>>

Tick ==
  /\ now < Load[load].time /\ now' = now + 1
  /\ UNCHANGED <<config, st, cache, req, th, queue, queued, needing, stopping, cleaner, kept,
                 raced, reaped>>

----------------------------------------------------------------------------
RequestStep(r) ==
  \/ NormalizeUser(r) \/ NormalizeProcess(r) \/ BuildRead(r) \/ BuildWrite(r)
  \/ PersistReply(r) \/ ReplyDiscarded(r) \/ ComputeUsage(r) \/ MarkNeeding(r) \/ enqueue(r)
CompactStep(t) ==
  \/ get_conversation(t) \/ Summarize(t) \/ save_snapshot(t) \/ PersistCompacted(t)
  \/ invalidate_conversation_cache(t)
ThreadStep(t) ==
  \/ CompactStep(t) \/ Undo(t) \/ Resolve(t)
  \/ CreateSession(t) \/ IndexUser(t) \/ IndexSession(t)
  \/ create_super_user(t) \/ set_session_title(t) \/ delete_session(t)
  \/ delete_conversation(t) \/ DestroyList(t) \/ DestroyEvict(t) \/ delete_super_user(t)
CompactorStep == Dequeue \/ Unqueue \/ Unmark \/ WorkerExit \/ CompactStep(Compactor)
ScanStep(k) == cleanup_loop(k) \/ ScanProcess(k) \/ ScanConvo(k) \/ Judge(k)
CleanerStep(k) == ScanStep(k) \/ EvictProcess(k) \/ RemoveProcess(k)

Next ==
  \/ \E r \in Request : RequestStep(r)
  \/ \E t \in Command : ThreadStep(t)
  \/ CompactorStep
  \/ \E k \in Cleaner : CleanerStep(k)
  \/ StopQueue \/ Tick

Spec == Init /\ [][Next]_vars

\* Some thread of each kind that can run does; every wait for the model ends
\* with an answer or a timeout.
FairSpec ==
  /\ Spec
  /\ WF_vars(\E r \in Request : RequestStep(r))
  /\ WF_vars(\E t \in Command : ThreadStep(t))
  /\ WF_vars(CompactorStep)

----------------------------------------------------------------------------
(* Properties                                                              *)

\* The cache of conversations agrees with storage (session_io.cpp keeps every
\* write under convo_mutex_), except between a compaction's, an undo's or a
\* delete's write and the eviction that follows it, and except for what was
\* destroyed behind the cache.
CacheIsFresh ==
  \A c \in Convo \ reaped :
    \/ cache[c] = None
    \/ cache[c] = st.rows[c]
    \/ \E t \in Thread : th[t].convo = c /\ th[t].pc \in {"delete_io", "invalidate"}

\* No message whose write was reported disappears: it is in the conversation
\* or in a snapshot of it, whatever compaction replaced ("Save full history",
\* session_manager.hpp:198), unless two writers of one conversation overlapped.
Recorded(c) ==
  (IF st.rows[c] = None THEN {} ELSE Messages(st.rows[c].msgs))
  \cup UNION {Messages(s) : s \in Messages(st.snaps[c])}
TurnIsKept == \A c \in Convo \ raced : kept[c] \subseteq Recorded(c)

\* The compaction thread has taken a conversation and not yet taken it out of
\* queued_sessions_.
AtWork == th[Compactor].pc \notin {"start", "unmark", "done"}
\* However many turns ask for it, a conversation is in the compaction queue at
\* most once, and not at all while the compaction thread works on it:
\* queued_sessions_ holds exactly the queue and what the thread is at, although
\* the thread empties the two in different critical sections.  (A compaction
\* that a user asks for does not go through the queue and may run beside it.)
QueuedOnce ==
  /\ \A i, j \in 1 .. Len(queue) : queue[i] = queue[j] => i = j
  /\ AtWork => th[Compactor].convo \notin Messages(queue)
  /\ queued = Messages(queue) \cup (IF AtWork THEN {th[Compactor].convo} ELSE {})

\* A session that is shown as needing compaction does not stay so: the mark
\* and the queue are two critical sections, set and cleared in an order in
\* which no mark survives its queue entry.
MarkIsCleared == needing # {} ~> needing = {}

\* The same without the exception for overlapping writers.
TurnNeverLost == \A c \in Convo : kept[c] \subseteq Recorded(c)
=============================================================================
