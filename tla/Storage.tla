------------------------------- MODULE Storage -------------------------------
(***************************************************************************)
(* The two storage providers of src/llm/storage behind IStorageProvider:   *)
(* JSON files below memory/sessions and an SQLite database.  A provider    *)
(* keeps conversations (rows), the index of each super user's sessions and *)
(* the snapshots compaction makes.  Every call holds the provider's mutex, *)
(* so a call is one value of the store mapped to the next.                 *)
(*                                                                         *)
(* A store is a record:                                                    *)
(*   rows   conversation -> its row, or None                               *)
(*   entry  the sessions in the index                                      *)
(*   users  the super users in the index                                   *)
(*   dirs   the session directories on disk (JSON provider only)           *)
(*   snaps  session -> the messages of its snapshots, oldest first         *)
(* A session id is <<super user, N>>, a process conversation <<pid, k>>.   *)
(***************************************************************************)
EXTENDS Naturals, Sequences, FiniteSets

CONSTANTS SuperUser,    \* names of super users
          MaxSession,   \* sessions are numbered 1..MaxSession
          Pid,          \* processes that hold conversations
          Alike,        \* <<u, v>>: the ids of v match the pattern 'u_s%'
          None

ASSUME StorageAssumption ==
  /\ SuperUser \cap Pid = {}
  /\ MaxSession \in Nat \ {0}
  /\ Alike \subseteq SuperUser \X SuperUser
  /\ None \notin SuperUser \cup Pid

Session == SuperUser \X (1 .. MaxSession)
ProcConvo == Pid \X {1}
Convo == Session \cup ProcConvo

\* "terminal_vivek_s3" -> "terminal_vivek"
extract_super_user(c) == c[1]
is_session_id(c) == c[1] \in SuperUser

EmptyStore == [rows |-> [c \in Convo |-> None], entry |-> {}, users |-> {},
               dirs |-> {}, snaps |-> [c \in Convo |-> <<>>]]

Without(s, D) == [s EXCEPT !.rows = [c \in Convo |-> IF c \in D THEN None ELSE @[c]]]
SessionsOf(u) == {c \in Session : extract_super_user(c) = u}
RowsOf(s, pid) == {c \in ProcConvo : s.rows[c] # None /\ s.rows[c].creator_pid = pid}

----------------------------------------------------------------------------
(* SQLite                                                                  *)

sqlite_upsert_conversation(s, c, row) == [s EXCEPT !.rows[c] = row]
sqlite_get_conversation(s, c) == s.rows[c]
\* A pid that does not match the row deletes nothing.
sqlite_delete_conversation(s, c, pid) ==
  IF pid = None \/ (s.rows[c] # None /\ s.rows[c].creator_pid = pid)
  THEN Without(s, {c}) ELSE s
sqlite_delete_all_proc_convos(s, pid) == Without(s, RowsOf(s, pid))
sqlite_list_proc_convo_ids(s, pid) == RowsOf(s, pid)
sqlite_list_proc_creator_pids(s) == {p \in Pid : RowsOf(s, p) # {}}
sqlite_upsert_super_user(s, u) == [s EXCEPT !.users = @ \cup {u}]
\* Index entries go by the foreign key, rows and snapshots by LIKE 'u_s%'.
sqlite_delete_super_user(s, u) ==
  LET like == UNION {SessionsOf(v) : v \in {u} \cup {w \in SuperUser : <<u, w>> \in Alike}}
  IN  [Without(s, like) EXCEPT
         !.users = @ \ {u},
         !.entry = @ \ SessionsOf(u),
         !.snaps = [c \in Convo |-> IF c \in like THEN <<>> ELSE @[c]]]
sqlite_upsert_session_index_entry(s, c) ==
  [s EXCEPT !.users = @ \cup {extract_super_user(c)}, !.entry = @ \cup {c}]
sqlite_delete_session_index_entry(s, c) == [s EXCEPT !.entry = @ \ {c}]
sqlite_list_session_index_entries(s, u) == s.entry \cap SessionsOf(u)
sqlite_append_snapshot(s, c, msgs) == [s EXCEPT !.snaps[c] = Append(@, msgs)]
sqlite_delete_snapshots(s, c) == [s EXCEPT !.snaps[c] = <<>>]

----------------------------------------------------------------------------
(* JSON files                                                              *)

\* Writing a row creates the directory of the session.
json_upsert_conversation(s, c, row) ==
  [s EXCEPT !.rows[c] = row, !.dirs = @ \cup {c}]
json_get_conversation(s, c) == s.rows[c]
\* Only the file goes; its directory and its snapshots stay.
json_delete_conversation(s, c) == Without(s, {c})
json_delete_all_proc_convos(s, pid) ==
  LET gone == {c \in ProcConvo : c[1] = pid}
  IN  [Without(s, gone) EXCEPT !.dirs = @ \ gone]
json_list_proc_convo_ids(s, pid) == {c \in s.dirs : c[1] = pid}
json_list_proc_creator_pids(s) == {p \in Pid : \E c \in s.dirs : c[1] = p}
json_upsert_super_user(s, u) == [s EXCEPT !.users = @ \cup {u}]
json_delete_super_user(s, u) ==
  [Without(s, SessionsOf(u)) EXCEPT
     !.users = @ \ {u},
     !.entry = @ \ SessionsOf(u),
     !.dirs = @ \ SessionsOf(u),
     !.snaps = [c \in Convo |-> IF c \in SessionsOf(u) THEN <<>> ELSE @[c]]]
json_upsert_session_index_entry(s, c) ==
  [s EXCEPT !.users = @ \cup {extract_super_user(c)}, !.entry = @ \cup {c}]
json_delete_session_index_entry(s, c) == [s EXCEPT !.entry = @ \ {c}]
list_index_entries_from_fs(s, u) == s.dirs \cap SessionsOf(u)
\* An empty index falls back on the directories.
json_list_session_index_entries(s, u) ==
  LET listed == s.entry \cap SessionsOf(u)
  IN  IF listed = {} THEN list_index_entries_from_fs(s, u) ELSE listed
json_append_snapshot(s, c, msgs) ==
  [s EXCEPT !.snaps[c] = Append(@, msgs), !.dirs = @ \cup {c}]
json_delete_snapshots(s, c) == [s EXCEPT !.snaps[c] = <<>>]

=============================================================================
