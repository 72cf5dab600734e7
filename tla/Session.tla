------------------------------ MODULE Session -------------------------------
(***************************************************************************)
(* A client session from the prompt of the shell to the store and back:    *)
(* the commands of src/client, ossSocket's send and recv over a TCP        *)
(* connection, the agent's receive/process/reply loop and the requests it  *)
(* hands to the run time (src/rtn).                                        *)
(*                                                                         *)
(* A step is one system call on a socket, one look at a shared flag, or    *)
(* the work done between two of them.  A direction of a connection is a    *)
(* sequence of chunks [m, off, n]: n bytes of message m from offset off,   *)
(* ended by FIN when the peer closed, or by RST when the connection        *)
(* was reset.  ::send may accept any part of a message; the parts modelled *)
(* end inside the length field, behind it, and at the end of the message.  *)
(*                                                                         *)
(* The pool and the latches around an agent are in EDUMgr, the store       *)
(* behind rtnInsert in DmsFile.                                            *)
(***************************************************************************)
EXTENDS Msg

CONSTANTS
  MaxConn,     \* BOUND on the connections the shell opens
  MaxReq,      \* BOUND on the commands that send a request
  Commands,    \* the commands a user types besides connect
  Docs,        \* the arguments a user types: "id", "noId", "badJson", "none"
  AgentBuf     \* PMD_AGENT_RECEIVE_BUFFER_SZ = EDB_PAGE_SIZE, 4096 in the code

ASSUME BoundAssumption == MaxConn \in Nat /\ MaxReq \in Nat
ASSUME CommandsAssumption ==
  Commands \subseteq {OP_INSERT, OP_QUERY, OP_DELETE, OP_SNAPSHOT, OP_DISCONNECT}
ASSUME DocsAssumption == Docs \subseteq {"id", "noId", "badJson", "none"}
ASSUME BufAssumption == AgentBuf \in Nat \ {0}

Conn == 1..MaxConn
Req == 1..MaxReq

SEND_BUF_SIZE == 4096
RECV_BUF_SIZE == 4096

\* The argument as an object: its size, and whether its first field is _id.
Obj(doc) == [size |-> 22, id |-> doc = "id"]
EmptyObj == [size |-> 5, id |-> FALSE]
SnapshotObj == [size |-> 101, id |-> FALSE]

VARIABLES
  cPc, fd, req, op,      \* the shell: place, connection, last request, and per
                         \* request its operation
  sendBuf, sent,         \*   the message in _sendBuf, bytes of it sent
  recvBuf, cNeed,        \*   the message in _recvBuf, bytes recv still waits for
  result,                \*   per request: what execute returned
  toSrv, toCli,          \* per connection: the two byte streams
  cEnd, sEnd,            \* per connection: client's and server's end
  aPc, aBuf, aNeed,      \* per agent: place, message in pReceiveBuffer, bytes
  aSize,                 \*   recv still waits for, receiveBufferSize
  aReply, aSent,         \*   pResultBuffer, bytes of it sent
  forced,                \*   _isForced of its EDU
  execs,                 \* per request: how often an agent processed it
  stored,                \* the requests whose rtnInsert returned EDB_OK
  answered, unbuilt      \* history: requests whose reply the shell read in full;
                         \* connections on which msgBuildReply failed

shellVars == <<cPc, fd, req, op, sendBuf, sent, recvBuf, cNeed, result, answered>>
wireVars  == <<toSrv, toCli, cEnd, sEnd>>
agentVars == <<aPc, aBuf, aNeed, aSize, aReply, aSent, forced, execs, stored, unbuilt>>
vars == <<cPc, fd, req, op, sendBuf, sent, recvBuf, cNeed, result, toSrv, toCli, cEnd,
          sEnd, aPc, aBuf, aNeed, aSize, aReply, aSent, forced, execs, stored, answered,
          unbuilt>>

\* A buffer filled with zeros, and pResultBuffer just allocated.
Zero == [messageLen |-> 0, opCode |-> 0, num |-> 0, returnCode |-> EDB_OK,
         data |-> <<>>, for |-> 0]
Fresh == [size |-> SizeofReply, content |-> Uninitialised]

Init ==
  /\ cPc = "prompt" /\ fd = 0 /\ req = 0 /\ op = [n \in Req |-> 0]
  /\ sendBuf = Zero /\ sent = 0 /\ recvBuf = Zero /\ cNeed = 0
  /\ result = [n \in Req |-> "none"]
  /\ toSrv = [c \in Conn |-> <<>>] /\ toCli = [c \in Conn |-> <<>>]
  /\ cEnd = [c \in Conn |-> "none"] /\ sEnd = [c \in Conn |-> "none"]
  /\ aPc = [c \in Conn |-> "off"] /\ aBuf = [c \in Conn |-> Zero]
  /\ aNeed = [c \in Conn |-> 0] /\ aSize = [c \in Conn |-> AgentBuf]
  /\ aReply = [c \in Conn |-> Fresh] /\ aSent = [c \in Conn |-> 0]
  /\ forced = [c \in Conn |-> FALSE]
  /\ execs = [n \in Req |-> 0] /\ stored = {}
  /\ answered = {} /\ unbuilt = {}

-----------------------------------------------------------------------------
(* A TCP connection (external), as ossSocket uses it.                      *)

FIN == [kind |-> "FIN", m |-> Zero, off |-> 0, n |-> 0]
RST == [kind |-> "RST", m |-> Zero, off |-> 0, n |-> 0]
Unread(s) == \E i \in 1..Len(s) : s[i].kind = "data"
Ended(s) == s # <<>> /\ s[Len(s)].kind # "data"

\* The bytes one ::send takes: to the middle of the length field, to its end, or
\* all the rest.
PartEnd(m, off) == IF off < 2 THEN 2 ELSE IF off < SizeofInt THEN SizeofInt ELSE m.messageLen
Chunk(m, off) == [kind |-> "data", m |-> m, off |-> off, n |-> PartEnd(m, off) - off]

\* ::close resets the connection when there is unread data, else it sends a FIN.
Hangup(stream, unread) ==
  IF Ended(stream) THEN stream
  ELSE Append(stream, IF Unread(unread) THEN RST ELSE FIN)

\* ::recv of at most need bytes takes from the first chunk.
Taken(s, need) == IF s[1].n <= need THEN s[1].n ELSE need
AfterTake(s, need) ==
  IF s[1].n <= need THEN Tail(s)
  ELSE <<[s[1] EXCEPT !.off = @ + need, !.n = @ - need]>> \o Tail(s)
HasData(s) == s # <<>> /\ s[1].kind = "data"

\* The network drops the connection: both ends get an error.
NetBreak(c) ==
  /\ cEnd[c] = "open" /\ sEnd[c] # "closed"
  /\ cEnd' = [cEnd EXCEPT ![c] = "reset"]
  /\ toSrv' = [toSrv EXCEPT ![c] = <<RST>>]
  /\ toCli' = [toCli EXCEPT ![c] = <<RST>>]
  /\ UNCHANGED <<shellVars, sEnd, agentVars>>

-----------------------------------------------------------------------------
(* The shell: Edb::prompt reads a command and runs its ICommand::execute.  *)

\* execute returns rc for request n.
Return(n, rc) ==
  /\ cPc' = "prompt"
  /\ result' = [result EXCEPT ![n] = rc]

\* isConnected is an empty ::send: it fails once a reset has arrived, but not after a
\* FIN from the server.
IsConnected == fd # 0 /\ cEnd[fd] = "open"

\* The shell closes its socket: the stream to the server ends, what it has not read
\* itself is gone.
CloseSocket ==
  /\ toSrv' = [c \in Conn |-> IF c = fd /\ sEnd[c] # "closed"
                              THEN Hangup(toSrv[c], toCli[c]) ELSE toSrv[c]]
  /\ toCli' = [c \in Conn |-> IF c = fd THEN <<>> ELSE toCli[c]]

\* connect: close the old socket, open one, connect it; the server may refuse.
ConnectCommand ==
  /\ cPc = "prompt"
  /\ CloseSocket
  /\ \E c \in Conn \cup {0} :
       /\ c # 0 => sEnd[c] = "none" /\ \A d \in Conn : d < c => sEnd[d] # "none"
       /\ fd' = c
       /\ cEnd' = [d \in Conn |-> IF d = fd THEN "closed" ELSE IF d = c THEN "open" ELSE cEnd[d]]
       /\ sEnd' = [d \in Conn |-> IF d = c THEN "backlog" ELSE sEnd[d]]
  /\ UNCHANGED <<cPc, req, op, sendBuf, sent, recvBuf, cNeed, result, answered,
                 agentVars>>

\* sendOrder: the message m for the next request is in _sendBuf, ready to send.
SendOrder(m) ==
  /\ cPc' = "send"
  /\ sendBuf' = [m EXCEPT !.for = req + 1]
  /\ sent' = 0
  /\ UNCHANGED result

SendBuffer == [size |-> SEND_BUF_SIZE, content |-> Zero]
HeaderOnly(opCode) ==
  [messageLen |-> SizeofHeader, opCode |-> opCode, num |-> 0, returnCode |-> EDB_OK,
   data |-> <<>>, for |-> 0]

\* What every command does first: count the request, and test argument and socket.
\* fromjson throws for a text that is not JSON, and for one cut off at a space.
Execute(opCode, doc, m) ==
  /\ cPc = "prompt" /\ opCode \in Commands
  /\ req < MaxReq
  /\ req' = req + 1
  /\ op' = [op EXCEPT ![req + 1] = opCode]
  /\ LET Refuse(rc) == Return(req + 1, rc) /\ UNCHANGED <<sendBuf, sent>>
     IN CASE doc = "none" -> Refuse("INVALID_ARGUMENT")
          [] doc # "none" /\ ~IsConnected -> Refuse("SOCK_NOT_CONNECT")
          [] doc = "badJson" /\ IsConnected -> Refuse("INVALID_RECORD")
          [] OTHER -> SendOrder(m)
  /\ UNCHANGED <<fd, recvBuf, cNeed, answered, wireVars, agentVars>>

InsertCommand(doc) ==
  Execute(OP_INSERT, doc, msgBuildInsert(SendBuffer, FALSE, Obj(doc)).buf.content)
QueryCommand(doc) ==
  Execute(OP_QUERY, doc, msgBuildQuery(SendBuffer, FALSE, Obj(doc)).buf.content)
DeleteCommand(doc) ==
  Execute(OP_DELETE, doc, msgBuildDelete(SendBuffer, FALSE, Obj(doc)).buf.content)
SnapshotCommand == Execute(OP_SNAPSHOT, "id", HeaderOnly(OP_SNAPSHOT))
QuitCommand == Execute(OP_DISCONNECT, "id", HeaderOnly(OP_DISCONNECT))

Command ==
  \/ \E doc \in Docs : InsertCommand(doc) \/ QueryCommand(doc) \/ DeleteCommand(doc)
  \/ SnapshotCommand \/ QuitCommand

\* The process ends, and with it its connection.
ShellExit ==
  /\ cPc' = "gone"
  /\ fd' = 0
  /\ CloseSocket
  /\ cEnd' = [c \in Conn |-> IF c = fd THEN "closed" ELSE cEnd[c]]

\* ossSocket::send: select, then one ::send after the other.  What is sent to a
\* server that has closed is lost, and brings a reset, sooner or later.
SendPart ==
  /\ cPc = "send"
  /\ sent < sendBuf.messageLen
  /\ cEnd[fd] = "open"
  /\ IF sEnd[fd] = "closed"
     THEN UNCHANGED toSrv /\ \E e \in {"open", "reset"} : cEnd' = [cEnd EXCEPT ![fd] = e]
     ELSE toSrv' = [toSrv EXCEPT ![fd] = Append(@, Chunk(sendBuf, sent))] /\ UNCHANGED cEnd
  /\ sent' = PartEnd(sendBuf, sent)
  /\ UNCHANGED <<cPc, fd, req, op, sendBuf, recvBuf, cNeed, result, answered, toCli, sEnd,
                 agentVars>>

\* select times out before anything was sent, or ::send fails.  quit does not look.
SendFail ==
  /\ cPc = "send"
  /\ sent = 0 \/ (sent < sendBuf.messageLen /\ cEnd[fd] = "reset")
  /\ IF sendBuf.opCode = OP_DISCONNECT
     THEN ShellExit /\ UNCHANGED result
     ELSE Return(req, "SOCK_SEND_FAILED") /\ UNCHANGED <<fd, toSrv, toCli, cEnd>>
  /\ UNCHANGED <<req, op, sendBuf, sent, recvBuf, cNeed, answered, sEnd, agentVars>>

\* The message is out: quit closes the socket and ends the shell, the others go on
\* to recvReply, which clears _recvBuf and asks isConnected once more.
RecvReply ==
  /\ cPc = "send"
  /\ sent = sendBuf.messageLen
  /\ recvBuf' = Zero
  /\ cNeed' = SizeofInt
  /\ IF sendBuf.opCode = OP_DISCONNECT
     THEN ShellExit /\ UNCHANGED result
     ELSE /\ IF IsConnected THEN cPc' = "len" /\ UNCHANGED result
             ELSE Return(req, "SOCK_NOT_CONNECT")
          /\ UNCHANGED <<fd, toSrv, toCli, cEnd>>
  /\ UNCHANGED <<req, op, sendBuf, sent, answered, sEnd, agentVars>>

\* Variant: EDB_TIMEOUT ends the wait for the length.
RecvTimeout_GivesUp ==
  /\ cPc = "len" /\ toCli[fd] = <<>> /\ cNeed = SizeofInt
  /\ Return(req, EDB_OK)
  /\ UNCHANGED <<fd, req, op, sendBuf, sent, recvBuf, cNeed, answered, wireVars, agentVars>>

\* select times out: recvReply tries again, for ever.
RecvTimeout ==
  /\ \/ cPc = "len" /\ cNeed = SizeofInt
     \/ cPc = "body" /\ cNeed = recvBuf.messageLen - SizeofInt
  /\ toCli[fd] = <<>>
  /\ UNCHANGED vars

\* One ::recv.  Once it has got a first part it waits for the others in ::recv
\* itself, where no timeout applies.
RecvPart ==
  /\ cPc \in {"len", "body"} /\ cNeed > 0
  /\ HasData(toCli[fd])
  /\ recvBuf' = toCli[fd][1].m
  /\ cNeed' = cNeed - Taken(toCli[fd], cNeed)
  /\ toCli' = [toCli EXCEPT ![fd] = AfterTake(@, cNeed)]
  /\ UNCHANGED <<cPc, fd, req, op, sendBuf, sent, result, answered, toSrv, cEnd, sEnd, agentVars>>

\* ::recv returned 0: EDB_NETWORK_CLOSE.
RecvEof ==
  /\ cPc \in {"len", "body"} /\ cNeed > 0
  /\ toCli[fd] # <<>> /\ toCli[fd][1] = FIN
  /\ Return(req, "SOCK_REMOTE_CLOSED")
  /\ UNCHANGED <<fd, req, op, sendBuf, sent, recvBuf, cNeed, answered, wireVars, agentVars>>

\* Variant: recv waits for the bytes of a message of length 0.
RecvError_Negative ==
  /\ cPc \in {"len", "body"} /\ cNeed > 0
  /\ toCli[fd] # <<>> /\ toCli[fd][1] = RST
  /\ toCli' = [toCli EXCEPT ![fd] = <<FIN>>]
  /\ cPc' = "body" /\ cNeed' = recvBuf.messageLen - SizeofInt
  /\ UNCHANGED <<fd, req, op, sendBuf, sent, recvBuf, result, answered, toSrv, cEnd, sEnd, agentVars>>

\* ::recv failed: EDB_NETWORK.  While the length is read this leaves the loop like
\* a success.  Without a byte of the length it is 0, and recv of 0 - 4 bytes
\* returns EDB_OK at once; with the first half of it the length is right already.
\* The next ::recv returns 0.
RecvError ==
  /\ cPc \in {"len", "body"} /\ cNeed > 0
  /\ toCli[fd] # <<>> /\ toCli[fd][1] = RST
  /\ toCli' = [toCli EXCEPT ![fd] = <<FIN>>]
  /\ IF cPc = "body"
     THEN Return(req, "EDB_NETWORK") /\ UNCHANGED cNeed
     ELSE /\ cPc' = IF recvBuf = Zero THEN "reply" ELSE "body"
          /\ cNeed' = IF recvBuf = Zero THEN 0 ELSE recvBuf.messageLen - SizeofInt
          /\ UNCHANGED result
  /\ UNCHANGED <<fd, req, op, sendBuf, sent, recvBuf, answered, toSrv, cEnd, sEnd, agentVars>>

\* Variant: only as much as the fixed part of a reply is read.
RecvLength_FixedPart ==
  /\ cPc = "len" /\ cNeed = 0
  /\ cPc' = "body" /\ cNeed' = SizeofReply - SizeofInt
  /\ UNCHANGED <<fd, req, op, sendBuf, sent, recvBuf, result, answered, wireVars, agentVars>>

\* The length is there.
RecvLength ==
  /\ cPc = "len" /\ cNeed = 0
  /\ IF recvBuf.messageLen > RECV_BUF_SIZE
     THEN Return(req, "RECV_DATA_LENGTH_ERROR") /\ UNCHANGED cNeed
     ELSE /\ cPc' = "body"
          /\ cNeed' = recvBuf.messageLen - SizeofInt
          /\ UNCHANGED result
  /\ UNCHANGED <<fd, req, op, sendBuf, sent, recvBuf, answered, wireVars, agentVars>>

\* The whole reply is in the buffer.
RecvDone ==
  /\ cPc = "body" /\ cNeed = 0
  /\ cPc' = "reply"
  /\ answered' = answered \cup {req}
  /\ UNCHANGED <<fd, req, op, sendBuf, sent, recvBuf, cNeed, result, wireVars, agentVars>>

\* handleReply: snapshot makes an object of the data without looking at numReturn,
\* and an object of zeros throws, which nobody catches.
HandleReply ==
  /\ cPc = "reply"
  /\ IF sendBuf.opCode = OP_SNAPSHOT /\ recvBuf.returnCode = EDB_OK /\ recvBuf.data = <<>>
     THEN ShellExit /\ result' = [result EXCEPT ![req] = "exception"]
     ELSE Return(req, recvBuf.returnCode) /\ UNCHANGED <<fd, toSrv, toCli, cEnd>>
  /\ UNCHANGED <<req, op, sendBuf, sent, recvBuf, cNeed, answered, sEnd, agentVars>>

\* Ctrl+c.
Interrupt ==
  /\ cPc # "gone"
  /\ ShellExit
  /\ UNCHANGED <<req, op, sendBuf, sent, recvBuf, cNeed, result, answered, sEnd, agentVars>>

ShellStep ==
  \/ SendPart \/ SendFail \/ RecvReply \/ RecvTimeout \/ RecvPart \/ RecvEof \/ RecvError
  \/ RecvLength \/ RecvDone \/ HandleReply

-----------------------------------------------------------------------------
(* pmdAgentEntryPoint: the agent that serves connection c.                 *)

AGoto(c, place) == aPc' = [aPc EXCEPT ![c] = place]
\* pmdRecv of need bytes, for the length or for the body.
AWant(c, place, need) ==
  AGoto(c, place) /\ aNeed' = [aNeed EXCEPT ![c] = need]

\* The listener accepted the connection and startEDU found an agent, which
\* allocates its buffers.
Accept(c) ==
  /\ sEnd[c] = "backlog"
  /\ sEnd' = [sEnd EXCEPT ![c] = "open"]
  /\ AWant(c, "lenPoll", SizeofInt)
  /\ UNCHANGED <<shellVars, toSrv, toCli, cEnd, aBuf, aSize, aReply, aSent, forced, execs,
                 stored, unbuilt>>

\* The server's end is closed, by the agent, which frees its buffers, or because no
\* agent could be started.
Hang(c) ==
  /\ sEnd' = [sEnd EXCEPT ![c] = "closed"]
  /\ toCli' = [toCli EXCEPT ![c] = IF cEnd[c] = "closed" THEN @ ELSE Hangup(@, toSrv[c])]
  /\ cEnd' = [cEnd EXCEPT ![c] = IF @ = "open" /\ Unread(toSrv[c]) THEN "reset" ELSE @]
  /\ toSrv' = [toSrv EXCEPT ![c] = <<>>]
  /\ AGoto(c, "done")
  /\ aBuf' = [aBuf EXCEPT ![c] = Zero] /\ aSize' = [aSize EXCEPT ![c] = 0]
  /\ aReply' = [aReply EXCEPT ![c] = Fresh]
  /\ UNCHANGED <<shellVars, aNeed, aSent, forced, execs, stored, unbuilt>>
Reject(c) == sEnd[c] = "backlog" /\ Hang(c)
AgentClose(c) == aPc[c] = "close" /\ Hang(c)

\* _destroyAll forces the EDU.
ForceAgent(c) ==
  /\ sEnd[c] = "open" /\ ~forced[c]
  /\ forced' = [forced EXCEPT ![c] = TRUE]
  /\ UNCHANGED <<shellVars, wireVars, aPc, aBuf, aNeed, aSize, aReply, aSent, execs, stored,
                 unbuilt>>

\* pmdRecv and pmdSend look at _isForced before each attempt.
AgentPoll(c) ==
  /\ aPc[c] \in {"lenPoll", "bodyPoll", "sendPoll"}
  /\ AGoto(c, CASE forced[c] -> "close"
                [] ~forced[c] /\ aPc[c] = "lenPoll" -> "len"
                [] ~forced[c] /\ aPc[c] = "bodyPoll" -> "body"
                [] ~forced[c] /\ aPc[c] = "sendPoll" -> "send")
  /\ UNCHANGED <<shellVars, wireVars, aBuf, aNeed, aSize, aReply, aSent, forced, execs,
                 stored, unbuilt>>

\* select found nothing before its timeout.
AgentTimeout(c) ==
  /\ \/ aPc[c] = "len" /\ aNeed[c] = SizeofInt /\ toSrv[c] = <<>> /\ AGoto(c, "lenPoll")
     \/ /\ aPc[c] = "body" /\ aNeed[c] = aBuf[c].messageLen - SizeofInt /\ toSrv[c] = <<>>
        /\ AGoto(c, "bodyPoll")
     \/ aPc[c] = "send" /\ aSent[c] = 0 /\ AGoto(c, "sendPoll")
  /\ UNCHANGED <<shellVars, wireVars, aBuf, aNeed, aSize, aReply, aSent, forced, execs,
                 stored, unbuilt>>

AgentPart(c) ==
  /\ aPc[c] \in {"len", "body"} /\ aNeed[c] > 0
  /\ HasData(toSrv[c])
  /\ aBuf' = [aBuf EXCEPT ![c] = toSrv[c][1].m]
  /\ aNeed' = [aNeed EXCEPT ![c] = @ - Taken(toSrv[c], @)]
  /\ toSrv' = [toSrv EXCEPT ![c] = AfterTake(@, aNeed[c])]
  /\ UNCHANGED <<shellVars, toCli, cEnd, sEnd, aPc, aSize, aReply, aSent, forced, execs,
                 stored, unbuilt>>

\* Variant: only EDB_NETWORK_CLOSE ends the session, EDB_NETWORK passes for success.
AgentEnd_AnyElse(c) ==
  /\ aPc[c] \in {"len", "body"} /\ aNeed[c] > 0
  /\ toSrv[c] # <<>> /\ ~HasData(toSrv[c])
  /\ IF toSrv[c][1] = FIN \/ aPc[c] = "len" THEN AGoto(c, "close") /\ UNCHANGED aNeed
     ELSE AWant(c, "body", 0)
  /\ UNCHANGED <<shellVars, wireVars, aBuf, aSize, aReply, aSent, forced, execs, stored,
                 unbuilt>>

\* EDB_NETWORK_CLOSE or EDB_NETWORK end the session.
AgentEnd(c) ==
  /\ aPc[c] \in {"len", "body"} /\ aNeed[c] > 0
  /\ toSrv[c] # <<>> /\ ~HasData(toSrv[c])
  /\ AGoto(c, "close")
  /\ UNCHANGED <<shellVars, wireVars, aBuf, aNeed, aSize, aReply, aSent, forced, execs,
                 stored, unbuilt>>

\* ossRoundUpToMultipleX
RoundUp(x, y) == (x + (y - 1)) - ((x + (y - 1)) % y)

\* Variant: no room is made for the 0 behind the packet.
AgentLength_NoRoom(c) ==
  /\ aPc[c] = "len" /\ aNeed[c] = 0
  /\ aSize' = [aSize EXCEPT ![c] = IF @ < aBuf[c].messageLen THEN aBuf[c].messageLen ELSE @]
  /\ AWant(c, "bodyPoll", aBuf[c].messageLen - SizeofInt)
  /\ UNCHANGED <<shellVars, wireVars, aBuf, aReply, aSent, forced, execs, stored, unbuilt>>

\* Variant: the length is taken for the length of what follows.
AgentLength_WholeLength(c) ==
  /\ aPc[c] = "len" /\ aNeed[c] = 0
  /\ aSize' = [aSize EXCEPT ![c] = IF @ < aBuf[c].messageLen + 1
                                   THEN RoundUp(aBuf[c].messageLen + 1, AgentBuf) ELSE @]
  /\ AWant(c, "bodyPoll", aBuf[c].messageLen)
  /\ UNCHANGED <<shellVars, wireVars, aBuf, aReply, aSent, forced, execs, stored, unbuilt>>

\* The length is there: test it, make room for the packet and a 0 behind it; malloc
\* can fail.
AgentLength(c) ==
  /\ aPc[c] = "len" /\ aNeed[c] = 0
  /\ LET len == aBuf[c].messageLen
     IN IF len < SizeofInt THEN AGoto(c, "close") /\ UNCHANGED <<aNeed, aSize>>
        ELSE \E oom \in BOOLEAN :
               IF aSize[c] < len + 1 /\ oom
               THEN AGoto(c, "close") /\ UNCHANGED <<aNeed, aSize>>
               ELSE /\ aSize' = [aSize EXCEPT ![c] = IF @ < len + 1
                                                     THEN RoundUp(len + 1, AgentBuf) ELSE @]
                    /\ AWant(c, "bodyPoll", len - SizeofInt)
  /\ UNCHANGED <<shellVars, wireVars, aBuf, aReply, aSent, forced, execs, stored, unbuilt>>

\* rtnInsert returns what the store says, rtnFind and rtnRemove are stubs.
RtnInsert == {EDB_OK, "EDB_SYS"}
RtnFind == EDB_OK
RtnRemove == EDB_OK

\* Variant: what rtnInsert returned is lost.
Process_Lost(m, ins) ==
  [rc |-> EDB_OK, insert |-> m.opCode = OP_INSERT /\ m.data[1].id,
   disconnect |-> m.opCode = OP_DISCONNECT, objs |-> <<>>]

\* pmdProcessAgentRequest up to the reply: the return code, whether rtnInsert was
\* called, and the object returned.  ins is the result of rtnInsert.  A delete
\* packet is opened with msgExtractQuery.
Process(m, ins) ==
  LET inserted == m.opCode = OP_INSERT /\ msgExtractInsert(m).rc = EDB_OK
      rc == CASE m.messageLen < SizeofHeader -> EDB_INVALIDARG
              [] m.opCode = OP_INSERT -> IF ~inserted THEN EDB_INVALIDARG
                                         ELSE IF ~m.data[1].id THEN "EDB_NO_ID" ELSE ins
              [] m.opCode = OP_QUERY -> IF msgExtractQuery(m).rc # EDB_OK
                                        THEN EDB_INVALIDARG ELSE RtnFind
              [] m.opCode = OP_DELETE -> IF msgExtractQuery(m).rc # EDB_OK
                                         THEN EDB_INVALIDARG ELSE RtnRemove
              [] m.opCode \in {OP_SNAPSHOT, OP_COMMAND, OP_DISCONNECT} -> EDB_OK
              [] OTHER -> EDB_INVALIDARG
  IN [rc |-> rc, insert |-> inserted /\ m.data[1].id,
      disconnect |-> m.opCode = OP_DISCONNECT,
      objs |-> IF m.opCode = OP_SNAPSHOT THEN <<SnapshotObj>>
               ELSE IF m.opCode = OP_QUERY THEN <<EmptyObj>> ELSE <<>>]

\* The packet is complete: a large result buffer is replaced by a small one, the
\* request is processed and the reply built.  When the buffer cannot grow, the
\* failure of msgBuildReply is not noticed and the buffer stays as it was.
AgentWork(c) ==
  /\ aPc[c] = "body" /\ aNeed[c] = 0
  /\ \E oom \in BOOLEAN, ins \in RtnInsert :
       LET small == IF aReply[c].size > SizeofReply THEN Fresh ELSE aReply[c]
           p == Process(aBuf[c], ins)
           b == msgBuildReply(small, oom, p.rc, p.objs)
       IN /\ aReply' = [aReply EXCEPT ![c] =
                          IF p.disconnect THEN small
                          ELSE IF b.rc # EDB_OK THEN b.buf
                          ELSE [b.buf EXCEPT !.content.for = aBuf[c].for]]
          /\ unbuilt' = IF ~p.disconnect /\ b.rc # EDB_OK THEN unbuilt \cup {c} ELSE unbuilt
          /\ execs' = [execs EXCEPT ![aBuf[c].for] = @ + 1]
          /\ stored' = IF p.insert /\ ins = EDB_OK THEN stored \cup {aBuf[c].for} ELSE stored
          /\ AGoto(c, IF p.disconnect THEN "close" ELSE "sendPoll")
  /\ aSent' = [aSent EXCEPT ![c] = 0]
  /\ UNCHANGED <<shellVars, wireVars, aBuf, aNeed, aSize, forced>>

\* malloc of the small result buffer fails.
AgentNoBuffer(c) ==
  /\ aPc[c] = "body" /\ aNeed[c] = 0
  /\ aReply[c].size > SizeofReply
  /\ AGoto(c, "close")
  /\ UNCHANGED <<shellVars, wireVars, aBuf, aNeed, aSize, aReply, aSent, forced, execs,
                 stored, unbuilt>>

\* What is in the result buffer when nothing was built into it: the length read from
\* it is not positive and nothing is sent, or some bytes go out.
Junk == [Zero EXCEPT !.messageLen = SizeofReply, !.returnCode = "EDB_SYS"]
ToSend(c) == IF aReply[c].content = Uninitialised THEN Junk ELSE aReply[c].content

AgentSendPart(c) ==
  /\ aPc[c] = "send"
  /\ aSent[c] < ToSend(c).messageLen
  /\ toCli' = IF cEnd[c] # "open" THEN toCli
              ELSE [toCli EXCEPT ![c] = Append(@, Chunk(ToSend(c), aSent[c]))]
  /\ aSent' = [aSent EXCEPT ![c] = PartEnd(ToSend(c), @)]
  /\ UNCHANGED <<shellVars, toSrv, cEnd, sEnd, aPc, aBuf, aNeed, aSize, aReply, forced,
                 execs, stored, unbuilt>>

AgentSendFail(c) ==
  /\ aPc[c] = "send"
  /\ aSent[c] < ToSend(c).messageLen
  /\ cEnd[c] # "open"
  /\ AGoto(c, "close")
  /\ UNCHANGED <<shellVars, wireVars, aBuf, aNeed, aSize, aReply, aSent, forced, execs,
                 stored, unbuilt>>

\* The reply is out; the agent waits for the next packet.
AgentSent(c) ==
  /\ aPc[c] = "send"
  /\ \/ aSent[c] = ToSend(c).messageLen
     \/ aSent[c] = 0 /\ aReply[c].content = Uninitialised
  /\ AWant(c, "lenPoll", SizeofInt)
  /\ UNCHANGED <<shellVars, wireVars, aBuf, aSize, aReply, aSent, forced, execs, stored,
                 unbuilt>>

AgentStep(c) ==
  \/ AgentPoll(c) \/ AgentTimeout(c) \/ AgentPart(c) \/ AgentEnd(c) \/ AgentLength(c)
  \/ AgentWork(c) \/ AgentNoBuffer(c) \/ AgentSendPart(c) \/ AgentSendFail(c)
  \/ AgentSent(c) \/ AgentClose(c)

\* The shell has ended and every agent with it.
Over == cPc = "gone" /\ UNCHANGED vars

Next ==
  \/ ConnectCommand \/ Command \/ ShellStep \/ Interrupt \/ Over
  \/ \E c \in Conn : Accept(c) \/ Reject(c) \/ AgentStep(c) \/ ForceAgent(c) \/ NetBreak(c)

Spec == Init /\ [][Next]_vars

\* The shell's process, the listener and the agents keep running; the user, the
\* network and the shutdown owe nothing.  A send does not time out for ever: the
\* client has read the last reply, so there is room for the next in the socket.
Fairness ==
  /\ WF_vars(ShellStep)
  /\ \A c \in Conn : /\ WF_vars(AgentStep(c))
                      /\ WF_vars(Accept(c) \/ Reject(c))
                      /\ SF_vars(AgentSendPart(c) \/ AgentSendFail(c))

FairSpec == Spec /\ Fairness

-----------------------------------------------------------------------------
(* Properties *)

ReplyCode == {EDB_OK, EDB_INVALIDARG, "EDB_NO_ID", "EDB_SYS"}
Result == ReplyCode \cup
  {"none", "INVALID_ARGUMENT", "INVALID_RECORD", "SOCK_NOT_CONNECT", "SOCK_SEND_FAILED",
   "SOCK_REMOTE_CLOSED", "EDB_NETWORK", "RECV_DATA_LENGTH_ERROR", "exception"}
Message ==
  [messageLen : Nat, opCode : 0..8, num : Nat, returnCode : ReplyCode,
   data : Seq([size : Nat, id : BOOLEAN]), for : 0..MaxReq]
Stream == Seq([kind : {"data", "FIN", "RST"}, m : Message, off : Nat, n : Nat])

\* Type correctness of the shell, the wire and the agents.
TypeOK ==
  /\ cPc \in {"prompt", "send", "len", "body", "reply", "gone"}
  /\ fd \in Conn \cup {0} /\ req \in 0..MaxReq
  /\ op \in [Req -> 0..8] /\ result \in [Req -> Result]
  /\ sendBuf \in Message /\ recvBuf \in Message /\ sent \in Nat /\ cNeed \in Nat
  /\ toSrv \in [Conn -> Stream] /\ toCli \in [Conn -> Stream]
  /\ cEnd \in [Conn -> {"none", "open", "reset", "closed"}]
  /\ sEnd \in [Conn -> {"none", "backlog", "open", "closed"}]
  /\ aPc \in [Conn -> {"off", "lenPoll", "len", "bodyPoll", "body", "sendPoll", "send",
                       "close", "done"}]
  /\ aBuf \in [Conn -> Message] /\ aNeed \in [Conn -> Nat] /\ aSize \in [Conn -> Nat]
  /\ aReply \in [Conn -> [size : Nat, content : Message \cup {Uninitialised}]]
  /\ aSent \in [Conn -> Nat] /\ forced \in [Conn -> BOOLEAN]
  /\ execs \in [Req -> Nat] /\ stored \subseteq Req /\ answered \subseteq Req
  /\ unbuilt \subseteq Conn

\* The next bytes on a stream are those the reader is at: the length it reads is the
\* length of a message, and a body is read to its last byte and no further, whatever
\* parts ::send and ::recv split the messages into.
StreamsInSync ==
  /\ \A c \in Conn : HasData(toSrv[c]) /\ aPc[c] \notin {"close", "done"} =>
       toSrv[c][1].off = CASE aPc[c] \in {"lenPoll", "len"} -> SizeofInt - aNeed[c]
                           [] aPc[c] \in {"bodyPoll", "body"} -> aBuf[c].messageLen - aNeed[c]
                           [] OTHER -> 0
  /\ fd # 0 /\ HasData(toCli[fd]) =>
       toCli[fd][1].off = CASE cPc = "len" -> SizeofInt - cNeed
                            [] cPc = "body" -> recvBuf.messageLen - cNeed
                            [] OTHER -> 0

\* Once the agent waits for a body, pReceiveBuffer holds the packet and the 0 that is
\* written behind it; and a reply in pResultBuffer is not longer than the buffer.
BuffersHold ==
  \A c \in Conn :
    /\ aPc[c] \in {"bodyPoll", "body"} => aBuf[c].messageLen + 1 <= aSize[c]
    /\ aReply[c].content # Uninitialised => aReply[c].content.messageLen <= aReply[c].size

\* Every message the builders of msg.cpp build into the result buffer of an agent, be
\* it too small or large enough, fits it and is taken apart by the extractor of its
\* operation into what was put in, and refused by all others.
ExtractInvertsBuild ==
  \A c \in Conn : \A objs \in {<<>>, <<EmptyObj>>, <<Obj("id"), SnapshotObj>>} :
    LET one == IF objs = <<>> THEN EmptyObj ELSE objs[1]
        Fits(b) == b.rc = EDB_OK /\ b.buf.content.messageLen <= b.buf.size
        Codes(m) == {msgExtraReply(m).rc, msgExtractInsert(m).rc, msgExtractDelete(m).rc,
                     msgExtractQuery(m).rc, msgExtractCommand(m).rc}
        reply == msgBuildReply(aReply[c], FALSE, "EDB_SYS", objs)
        insert == msgBuildInsertVector(aReply[c], FALSE, objs)
        command == msgBuildCommandVector(aReply[c], FALSE, objs)
        delete == msgBuildDelete(aReply[c], FALSE, one)
        query == msgBuildQuery(aReply[c], FALSE, one)
    IN /\ \A b \in {reply, insert, command, delete, query} :
            Fits(b) /\ Codes(b.buf.content) = {EDB_OK, EDB_INVALIDARG}
       /\ msgExtraReply(reply.buf.content) =
            [rc |-> EDB_OK, returnCode |-> "EDB_SYS", num |-> Len(objs), data |-> objs]
       /\ msgExtractInsert(insert.buf.content) = [rc |-> EDB_OK, num |-> Len(objs), data |-> objs]
       /\ msgExtractCommand(command.buf.content) = [rc |-> EDB_OK, num |-> Len(objs), data |-> objs]
       /\ msgExtractDelete(delete.buf.content) = [rc |-> EDB_OK, data |-> <<one>>]
       /\ msgExtractQuery(query.buf.content) = [rc |-> EDB_OK, data |-> <<one>>]
       /\ Len(objs) = 1 => /\ insert = msgBuildInsert(aReply[c], FALSE, one)
                           /\ command = msgBuildCommand(aReply[c], FALSE, one)

\* The reply the shell hands to handleReply answers the request it has just sent, not
\* an earlier one, as long as the agent could build its replies.
ReplyIsForRequest ==
  cPc = "reply" /\ recvBuf # Zero /\ fd \notin unbuilt => recvBuf.for = req

\* An insert the shell reports as done after it read the whole reply is in the store.
AckIsTrue ==
  \A n \in answered :
    op[n] = OP_INSERT /\ result[n] = EDB_OK /\ unbuilt = {} => n \in stored

\* A request is processed at most once, and one the shell refused itself or could not
\* send is never processed, though connections break, agents are forced in the middle
\* of a packet and the shell goes on with other requests.
AtMostOnce ==
  \A n \in Req :
    /\ execs[n] <= 1
    /\ result[n] \in {"INVALID_ARGUMENT", "INVALID_RECORD", "SOCK_SEND_FAILED"} => execs[n] = 0

\* What the shell says of an insert is what happened: EDB_OK means stored.
ReportedIsStored ==
  \A n \in Req : op[n] = OP_INSERT /\ result[n] = EDB_OK => n \in stored

\* A command ends, with a reply or an error, unless the agent could not build the
\* reply: recvReply repeats its recv for ever.
CommandReturns ==
  cPc \in {"send", "len", "body", "reply"} ~> cPc \in {"prompt", "gone"} \/ unbuilt # {}

\* A forced agent ends its session, whatever it is doing, because a client that has
\* begun to send a packet sends all of it, or its connection ends.
ForcedAgentEnds ==
  \A c \in Conn : forced[c] ~> aPc[c] = "done"

====
