----------------------------- MODULE MCSession -----------------------------
(* Small instances of Session. *)
EXTENDS Session

AllCommands == {OP_INSERT, OP_QUERY, OP_DELETE, OP_SNAPSHOT, OP_DISCONNECT}
Insert == {OP_INSERT}
AllDocs == {"id", "noId", "badJson", "none"}
====
