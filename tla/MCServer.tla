------------------------------ MODULE MCServer ------------------------------
(* Small instances of Server. *)
EXTENDS Server

Workers1 == {"agent"}
Opts2 == {"confpath", "dbpath"}
Opts1 == {"confpath"}
====
