---------------------------- MODULE MCTaskPlanning ----------------------------
(* Two peers that number their messages alike, the first with a public name,  *)
(* and three files of one name.                                                *)
EXTENDS TaskPlanning

MCPosts == <<[peer |-> "p", names |-> {"p", "chan"}, msg |-> 1, name |-> "clip"],
             [peer |-> "q", names |-> {"q"}, msg |-> 1, name |-> "clip"],
             [peer |-> "p", names |-> {"p", "chan"}, msg |-> 2, name |-> "clip"]>>
MCLines == <<[form |-> "preview", ref |-> "chan", msg |-> -1], [form |-> "public", ref |-> "chan", msg |-> 0],
             [form |-> "public", ref |-> "chan", msg |-> -1], [form |-> "private", ref |-> "p", msg |-> 2],
             [form |-> "private", ref |-> "q", msg |-> -1]>>
=============================================================================
