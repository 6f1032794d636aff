--------------------------- MODULE MCChatHandler ---------------------------
(* Instances of ChatHandler for TLC.                                        *)
EXTENDS ChatHandler

CONSTANTS u, c1, c2, t1

Want(id, fresh) == [user_id |-> id, force_new |-> fresh]
Wishes == [c \in Client |-> {Want(u, FALSE), IF c = c1 THEN Want(<<u, 1>>, FALSE) ELSE Want(u, TRUE)}]
Do(type, k) == [type |-> type, target |-> k]
Jobs == [c \in Client |->
  {Do("new", None)} \cup
  IF c = c1 THEN {Do("text", None), Do("delete", <<u, 1>>)}
  ELSE {Do("destroy_user", None), Do("switch", <<u, 2>>), Do("switch", u), Do("query", None)}]
Event(p, uid, t) == [purpose |-> p, uid |-> uid, trace |-> t]
Events == {Event(AskPurpose, <<u, 1>>, t1), Event("independent_msg", None, None),
           Event("tool_message", <<u, 2>>, None), Event("tool_message", None, None)}
\* Replies of no token, of one and of two.
Texts == {<<>>, <<"a">>, <<"b">>, <<"a", "b">>}
=============================================================================
