-------------------------------- MODULE Msg ---------------------------------
(***************************************************************************)
(* The wire messages of emeralddb (src/msg/msg.cpp): a header with the     *)
(* length and the operation, a fixed part that depends on the operation,   *)
(* and objects.  A message is built into a buffer that grows when it is    *)
(* too small, and taken apart again by the function for its operation.     *)
(*                                                                         *)
(* A buffer is a record: size, and what stands in it, a message or, when   *)
(* nothing was built into it since it was allocated, Uninitialised.  An    *)
(* object is a record with its size in bytes, size; the rest of it is the  *)
(* caller's.  oom says whether realloc fails, if it is called.  for is     *)
(* history: the request a message belongs to, which its sender fills in.   *)
(***************************************************************************)
EXTENDS Integers, Sequences, Functions

OP_REPLY == 1
OP_INSERT == 2
OP_DELETE == 3
OP_QUERY == 4
OP_COMMAND == 5
OP_DISCONNECT == 6
OP_SNAPSHOT == 8

\* sizeof of the C structures.
SizeofInt == 4
SizeofHeader == 8
SizeofReply == 16
SizeofInsert == 12
SizeofKeyed == 8     \* MsgDelete and MsgQuery
SizeofCommand == 12

EDB_OK == "EDB_OK"
EDB_INVALIDARG == "EDB_INVALIDARG"
EDB_OOM == "EDB_OOM"
Uninitialised ==
  [messageLen |-> 0, opCode |-> 0, num |-> 0, returnCode |-> "uninitialised", data |-> <<>>]

ObjSizes(objs) == FoldFunction(LAMBDA o, total : o.size + total, 0, objs)

\* Variant: a buffer that is too small is left as it is.
msgCheckBuffer_NoGrow(buf, length, oom) == [rc |-> EDB_OK, buf |-> buf]

\* The buffer is kept when realloc fails.
msgCheckBuffer(buf, length, oom) ==
  IF length <= buf.size THEN [rc |-> EDB_OK, buf |-> buf]
  ELSE IF length < 0 THEN [rc |-> EDB_INVALIDARG, buf |-> buf]
  ELSE IF oom THEN [rc |-> EDB_OOM, buf |-> buf]
  ELSE [rc |-> EDB_OK, buf |-> [buf EXCEPT !.size = length]]

\* What all builders do: make room, then write header, fixed part and objects.
Build(buf, oom, opCode, fixed, num, returnCode, objs) ==
  LET size == fixed + ObjSizes(objs)
      chk == msgCheckBuffer(buf, size, oom)
      msg == [messageLen |-> size, opCode |-> opCode, num |-> num,
              returnCode |-> returnCode, data |-> objs, for |-> 0]
  IN IF chk.rc # EDB_OK THEN chk
     ELSE [chk EXCEPT !.buf.content = msg]

\* objs is the empty sequence when objReturn is NULL.
msgBuildReply(buf, oom, returnCode, objs) ==
  Build(buf, oom, OP_REPLY, SizeofReply, Len(objs), returnCode, objs)

msgBuildInsert(buf, oom, obj) ==
  Build(buf, oom, OP_INSERT, SizeofInsert, 1, EDB_OK, <<obj>>)
msgBuildInsertVector(buf, oom, objs) ==
  Build(buf, oom, OP_INSERT, SizeofInsert, Len(objs), EDB_OK, objs)
msgBuildDelete(buf, oom, key) ==
  Build(buf, oom, OP_DELETE, SizeofKeyed, 0, EDB_OK, <<key>>)
msgBuildQuery(buf, oom, key) ==
  Build(buf, oom, OP_QUERY, SizeofKeyed, 0, EDB_OK, <<key>>)
msgBuildCommand(buf, oom, obj) ==
  Build(buf, oom, OP_COMMAND, SizeofCommand, 1, EDB_OK, <<obj>>)
msgBuildCommandVector(buf, oom, objs) ==
  Build(buf, oom, OP_COMMAND, SizeofCommand, Len(objs), EDB_OK, objs)

\* What all extractors test: the length, then the operation.
HeaderCheck(msg, opCode, fixed) ==
  IF msg.messageLen < fixed \/ msg.opCode # opCode THEN EDB_INVALIDARG ELSE EDB_OK

msgExtraReply(msg) ==
  LET rc == HeaderCheck(msg, OP_REPLY, SizeofReply)
  IN IF rc # EDB_OK THEN [rc |-> rc]
     ELSE [rc |-> rc, returnCode |-> msg.returnCode, num |-> msg.num,
           data |-> IF msg.num = 0 THEN <<>> ELSE msg.data]

msgExtractInsert(msg) ==
  LET rc == HeaderCheck(msg, OP_INSERT, SizeofInsert)
  IN IF rc # EDB_OK THEN [rc |-> rc]
     ELSE [rc |-> rc, num |-> msg.num, data |-> IF msg.num = 0 THEN <<>> ELSE msg.data]

msgExtractDelete(msg) ==
  LET rc == HeaderCheck(msg, OP_DELETE, SizeofKeyed)
  IN IF rc # EDB_OK THEN [rc |-> rc] ELSE [rc |-> rc, data |-> msg.data]

msgExtractQuery(msg) ==
  LET rc == HeaderCheck(msg, OP_QUERY, SizeofKeyed)
  IN IF rc # EDB_OK THEN [rc |-> rc] ELSE [rc |-> rc, data |-> msg.data]

msgExtractCommand(msg) ==
  LET rc == HeaderCheck(msg, OP_COMMAND, SizeofCommand)
  IN IF rc # EDB_OK THEN [rc |-> rc]
     ELSE [rc |-> rc, num |-> msg.num, data |-> IF msg.num = 0 THEN <<>> ELSE msg.data]

====
